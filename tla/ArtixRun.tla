------------------------------ MODULE ArtixRun ------------------------------
(* board/artix.c: artix_run_stim with artix_setup_stim, the call that runs *)
(* a loaded stim on one unit or on both. The host prepares each unit, sets *)
(* the line that makes the units wait for each other, starts them, polls   *)
(* the master a limited number of times and reads cycle counts and fail    *)
(* flags, while the units go on executing vectors by themselves. The units *)
(* keep their registers when the process ends, so a run starts with        *)
(* whatever the runs before it left, finished or not.                      *)
(*                                                                         *)
(* helper_gvpu_load, helper_gvpu_packet_write and the status reads are one *)
(* step each: the agent and subcore commands they are made of are left     *)
(* out. The units (gvpu) are external: what they do is taken from how the  *)
(* code uses them.                                                         *)
EXTENDS Integers, Sequences, FiniteSets, FiniteSetsExt

CONSTANTS
    Stims,      \* the stims that are loaded
    Units,      \* [Stims -> SUBSET {"A1", "A2"}]: stim_get_mode
    Addr,       \* [Stims -> [{"A1", "A2"} -> Nat]]: where a stim is loaded
    Repeats,    \* [Stims -> Seq(Nat)]: for how many cycles a vector runs
    Padding,    \* [Stims -> Nat]: num_padding_vecs
    PollLimit   \* the limit of the poll loop, 0x000fffff in the code

VARIABLES
    dev,        \* per unit: the registers of the gvpu
    sync,       \* the artix sync line
    pc,         \* where artix_run_stim is; "idle" between calls
    call,       \* its arguments and local variables
    result,     \* what the last call returned
    executed,   \* history, per unit: the cycles that matched since TEST_RUN
    mismatch,   \* history, per unit: the cycle that failed since TEST_RUN
    early       \* history: a cycle count was read of a running unit

vars == <<dev, sync, pc, call, result, executed, mismatch, early>>

A == {"A1", "A2"}
None == -1
NoStim == "none"
NoCall == [stim |-> NoStim]
NoResult == [failed |-> FALSE, test_cycle |-> 0]

ASSUME ArtixAssumption ==
    /\ IsFiniteSet(Stims)
    /\ Units \in [Stims -> (SUBSET A) \ {{}}]
    /\ Addr \in [Stims -> [A -> Nat]]
    /\ Repeats \in [Stims -> Seq(Nat \ {0})]
    /\ Padding \in [Stims -> Nat]
    /\ PollLimit \in Nat
    /\ \A s, t \in Stims, u \in A :
           (s # t /\ u \in Units[s] \cap Units[t]) => Addr[s][u] # Addr[t][u]

(* The cycles that the first n entries of a sequence of repeats take.      *)
CyclesOf(r, n) ==
    LET sum[i \in 0 .. Len(r)] == IF i = 0 THEN 0 ELSE sum[i - 1] + r[i]
    IN  sum[IF n <= Len(r) THEN n ELSE Len(r)]

num_vecs(s) == Len(Repeats[s])
num_unrolled_vecs(s) == CyclesOf(Repeats[s], num_vecs(s))
total_unrolled_vecs(s) == num_unrolled_vecs(s) + Padding[s]

Dual(s) == Units[s] = A
Master(s) == IF "A1" \in Units[s] THEN "A1" ELSE "A2"
Slave == "A2"

-----------------------------------------------------------------------------
(* The units.                                                              *)

(* What a unit finds from an address on: the vectors of the stim loaded    *)
(* there, then its padding, each of which runs for one cycle.              *)
Stored(u, a) ==
    LET at == {s \in Stims : u \in Units[s] /\ Addr[s][u] = a}
    IN  IF at = {} THEN << >>
        ELSE LET s == CHOOSE t \in at : TRUE
             IN  Repeats[s] \o [i \in 1 .. Padding[s] |-> 1]

(* The cycles a unit has to run: the first `vecs' vectors at its address.  *)
Length(u) == CyclesOf(Stored(u, dev[u].addr), dev[u].vecs)

Waiting(u) == dev[u].state = "TEST_RUN" /\ ~dev[u].started
Running(u) == dev[u].state = "TEST_RUN" /\ dev[u].started

(* A unit told to run starts at once, or together with the other one when  *)
(* the sync line is asserted.                                              *)
Start ==
    /\ \/ ~sync /\ \E u \in A : Waiting(u) /\ dev' = [dev EXCEPT ![u].started = TRUE]
       \/ /\ sync /\ \A u \in A : Waiting(u)
          /\ dev' = [u \in A |-> [dev[u] EXCEPT !.started = TRUE]]
    /\ UNCHANGED <<sync, pc, call, result, executed, mismatch, early>>

(* The next cycle matches; after the last one the unit is done.            *)
Execute(u) ==
    /\ Running(u) /\ dev[u].cycle < Length(u)
    /\ dev' = [dev EXCEPT ![u].cycle = @ + 1,
                          ![u].state = IF dev[u].cycle + 1 = Length(u)
                                       THEN "GVPU_IDLE" ELSE @]
    /\ executed' = [executed EXCEPT ![u] = @ + 1]
    /\ UNCHANGED <<sync, pc, call, result, mismatch, early>>

(* The next cycle does not match: the count stays at it (zero indexed).    *)
Mismatch(u) ==
    /\ Running(u) /\ dev[u].cycle < Length(u)
    /\ dev' = [dev EXCEPT ![u].failed = TRUE, ![u].state = "GVPU_IDLE"]
    /\ mismatch' = [mismatch EXCEPT ![u] = dev[u].cycle]
    /\ UNCHANGED <<sync, pc, call, result, executed, early>>

(* With the sync line asserted a failing unit may stop the other one, in   *)
(* the failing cycle at the earliest: the code takes the smaller count for *)
(* the failing cycle.                                                      *)
Halt(u) ==
    /\ Running(u) /\ sync
    /\ \E v \in A \ {u} : dev[v].failed /\ dev[u].cycle >= dev[v].cycle
    /\ dev' = [dev EXCEPT ![u].state = "GVPU_IDLE"]
    /\ UNCHANGED <<sync, pc, call, result, executed, mismatch, early>>

-----------------------------------------------------------------------------
(* The host.                                                               *)

(* helper_gvpu_load: the unit leaves whatever it was doing.                *)
helper_gvpu_load(d, state) == [d EXCEPT !.state = state, !.started = FALSE]

(* The packet of TEST_INIT: where the vectors are and how many, repeats    *)
(* not counted.                                                            *)
packet_write(d, a, n) == [d EXCEPT !.addr = a, !.vecs = n]

(* The two status reads.                                                   *)
GvpuCycle(u) == dev[u].cycle
AgentFailed(u) == dev[u].failed

(* The call, up to the first unit's setup. The addresses come from         *)
(* prgm_stim, where the stim is loaded.                                    *)
artix_run_stim(s) ==
    /\ pc = "idle"
    /\ pc' = "init"
    /\ call' = [stim |-> s, unit |-> Master(s), counter |-> 0,
                master_test_cycle |-> 0, slave_test_cycle |-> 0,
                master_test_failed |-> FALSE, slave_test_failed |-> FALSE]
    /\ early' = FALSE
    /\ result' = NoResult
    /\ UNCHANGED <<dev, sync, executed, mismatch>>

(* artix_setup_stim: TEST_INIT and its packet, ...                         *)
TestInit ==
    LET s == call.stim
        u == call.unit
    IN  /\ pc = "init"
        /\ dev' = [dev EXCEPT ![u] = packet_write(helper_gvpu_load(@, "TEST_INIT"),
                                               Addr[s][u], num_vecs(s) + Padding[s])]
        /\ pc' = "setup"
        /\ UNCHANGED <<sync, call, result, executed, mismatch, early>>

(* ... TEST_SETUP and the burst with the enabled pins, ...                 *)
TestSetup ==
    /\ pc = "setup"
    /\ dev' = [dev EXCEPT ![call.unit] =
                   [helper_gvpu_load(@, "TEST_SETUP") EXCEPT !.pins = call.stim]]
    /\ pc' = "cleanup"
    /\ UNCHANGED <<sync, call, result, executed, mismatch, early>>

(* Mutant: the setup leaves the counts of the run before.                  *)
NotCleaned(d) == helper_gvpu_load(d, "TEST_CLEANUP")

(* What TEST_CLEANUP does: "reset cycle count and failed flag".            *)
Cleaned(d) == [helper_gvpu_load(d, "TEST_CLEANUP") EXCEPT !.cycle = 0, !.failed = FALSE]

(* ... and TEST_CLEANUP; then the other unit in dual mode.                 *)
TestCleanup ==
    /\ pc = "cleanup"
    /\ dev' = [dev EXCEPT ![call.unit] = Cleaned(@)]
    /\ IF Dual(call.stim) /\ call.unit # Slave
       THEN pc' = "init" /\ call' = [call EXCEPT !.unit = Slave]
       ELSE pc' = "sync" /\ call' = [call EXCEPT !.unit = Master(call.stim)]
    /\ UNCHANGED <<sync, result, executed, mismatch, early>>

(* Mutant: the line is only ever asserted.                                 *)
SyncKept == sync \/ Dual(call.stim)

(* Mutant: the line is never asserted.                                     *)
SyncNever == FALSE

SyncLine == Dual(call.stim)

subcore_artix_sync ==
    /\ pc = "sync"
    /\ sync' = SyncLine
    /\ pc' = "run"
    /\ UNCHANGED <<dev, call, result, executed, mismatch, early>>

(* TEST_RUN for the master, then for the slave.                            *)
TestRun ==
    /\ pc = "run"
    /\ dev' = [dev EXCEPT ![call.unit] = helper_gvpu_load(@, "TEST_RUN")]
    /\ IF Dual(call.stim) /\ call.unit # Slave
       THEN pc' = "run" /\ call' = [call EXCEPT !.unit = Slave]
       ELSE pc' = "poll" /\ call' = [call EXCEPT !.unit = Master(call.stim)]
    /\ executed' = [executed EXCEPT ![call.unit] = 0]
    /\ mismatch' = [mismatch EXCEPT ![call.unit] = None]
    /\ UNCHANGED <<sync, result, early>>

(* Mutant: the polls are not counted.                                      *)
CountStays(c) == c

NextCount(c) == c + 1

(* Mutant: one poll too many.                                              *)
BeyondLimit(c) == c > PollLimit

LastPoll(c) == c >= PollLimit

(* One turn of the poll loop. It looks at the master only. The count read  *)
(* when it gives up is read again at once (MasterCycle). The sleep after   *)
(* the loop is time in which the units may go on, as between any two steps.*)
Poll ==
    /\ pc = "poll"
    /\ IF \/ dev[Master(call.stim)].state # "TEST_RUN"
          \/ LastPoll(call.counter)
       THEN pc' = "cycle" /\ UNCHANGED call
       ELSE pc' = "poll" /\ call' = [call EXCEPT !.counter = NextCount(@)]
    /\ UNCHANGED <<dev, sync, result, executed, mismatch, early>>

(* helper_get_agent_gvpu_status of the master.                             *)
MasterCycle ==
    LET m == Master(call.stim)
    IN  /\ pc \in {"cycle", "solo"}
        /\ call' = [call EXCEPT !.master_test_cycle = GvpuCycle(m)]
        /\ early' = (early \/ dev[m].state = "TEST_RUN")
        /\ pc' = IF pc = "cycle" THEN "status" ELSE "verdict"
        /\ UNCHANGED <<dev, sync, result, executed, mismatch>>

(* The fail flag in the status of the master. In solo mode the cycle count *)
(* is read once more after it.                                             *)
MasterStatus ==
    /\ pc = "status"
    /\ call' = [call EXCEPT !.master_test_failed = AgentFailed(Master(call.stim))]
    /\ pc' = IF Dual(call.stim) THEN "slave_status" ELSE "solo"
    /\ UNCHANGED <<dev, sync, result, executed, mismatch, early>>

SlaveStatus ==
    /\ pc = "slave_status"
    /\ call' = [call EXCEPT !.slave_test_failed = AgentFailed(Slave)]
    /\ pc' = "slave_cycle"
    /\ UNCHANGED <<dev, sync, result, executed, mismatch, early>>

SlaveCycle ==
    /\ pc = "slave_cycle"
    /\ call' = [call EXCEPT !.slave_test_cycle = GvpuCycle(Slave)]
    /\ early' = (early \/ dev[Slave].state = "TEST_RUN")
    /\ pc' = "verdict"
    /\ UNCHANGED <<dev, sync, result, executed, mismatch>>

(* Mutant: the cycle of the master, whoever failed.                        *)
MastersCycle(c) == c.master_test_cycle

(* What is returned in *test_cycle.                                        *)
TestCycle(c) ==
    IF Dual(c.stim) /\ c.slave_test_cycle < c.master_test_cycle
    THEN c.slave_test_cycle ELSE c.master_test_cycle

(* What is returned: a fail flag, or a unit that has not run every cycle.  *)
Failed(c) ==
    \/ c.master_test_failed \/ c.slave_test_failed
    \/ c.master_test_cycle # total_unrolled_vecs(c.stim)
    \/ Dual(c.stim) /\ c.slave_test_cycle # total_unrolled_vecs(c.stim)

Verdict ==
    /\ pc = "verdict"
    /\ result' = [failed |-> Failed(call), test_cycle |-> TestCycle(call)]
    /\ pc' = "done"
    /\ UNCHANGED <<dev, sync, call, executed, mismatch, early>>

(* The caller has the result.                                              *)
Return ==
    /\ pc = "done"
    /\ pc' = "idle"
    /\ call' = NoCall
    /\ UNCHANGED <<dev, sync, result, executed, mismatch, early>>

(* die(): any of the ioctls fails, among them the transfer of the setup    *)
(* burst, which has a time limit. The process ends, another one calls; the *)
(* units and the line stay as they are.                                    *)
ProcessDies ==
    /\ pc \notin {"idle", "done"}
    /\ pc' = "idle"
    /\ call' = NoCall
    /\ UNCHANGED <<dev, sync, result, executed, mismatch, early>>

-----------------------------------------------------------------------------
(* Powered up: nothing has been run.                                       *)
Init ==
    /\ dev = [u \in A |-> [state |-> "GVPU_IDLE", started |-> FALSE, addr |-> 0,
                           vecs |-> 0, pins |-> NoStim, cycle |-> 0, failed |-> FALSE]]
    /\ sync = FALSE
    /\ pc = "idle"
    /\ call = NoCall
    /\ result = NoResult
    /\ executed = [u \in A |-> 0]
    /\ mismatch = [u \in A |-> None]
    /\ early = FALSE

HostStep ==
    \/ TestInit \/ TestSetup \/ TestCleanup \/ subcore_artix_sync \/ TestRun
    \/ Poll \/ MasterCycle \/ MasterStatus \/ SlaveStatus \/ SlaveCycle
    \/ Verdict \/ Return

Next ==
    \/ \E s \in Stims : artix_run_stim(s)
    \/ HostStep
    \/ ProcessDies
    \/ Start
    \/ \E u \in A : Execute(u) \/ Mismatch(u) \/ Halt(u)

(* The thread that made the call goes on with it. Nothing is assumed of    *)
(* the units.                                                              *)
Spec == Init /\ [][Next]_vars /\ WF_vars(HostStep)

-----------------------------------------------------------------------------
(* Types.                                                                  *)
ArtixTypeOK ==
    /\ dev \in [A -> [state : {"GVPU_IDLE", "TEST_INIT", "TEST_SETUP", "TEST_CLEANUP", "TEST_RUN"},
                      started : BOOLEAN, addr : Nat, vecs : Nat, pins : Stims \cup {NoStim},
                      cycle : Nat, failed : BOOLEAN]]
    /\ sync \in BOOLEAN
    /\ pc \in {"idle", "init", "setup", "cleanup", "sync", "run", "poll", "cycle", "solo",
               "status", "slave_status", "slave_cycle", "verdict", "done"}
    /\ pc # "idle" => call.stim \in Stims /\ call.unit \in Units[call.stim]
                      /\ call.counter \in 0 .. PollLimit
    /\ executed \in [A -> Nat]
    /\ mismatch \in [A -> Nat \cup {None}]
    /\ early \in BOOLEAN

(* A pass is never returned for a test that did not happen: when           *)
(* artix_run_stim returns FALSE, every unit of the stim has run all cycles *)
(* of this stim since it was told to run, from the stim's address and with *)
(* its pins, and no cycle failed - even if the poll loop gave up before    *)
(* the units were done, or an earlier process died between any two steps   *)
(* of its own run.                                                         *)
PassIsReal ==
    (pc = "done" /\ ~result.failed) =>
        \A u \in Units[call.stim] :
            /\ mismatch[u] = None /\ ~dev[u].failed
            /\ executed[u] = total_unrolled_vecs(call.stim)
            /\ dev[u].addr = Addr[call.stim][u] /\ dev[u].pins = call.stim

(* A failure is of this run: unless a count was read of a unit that was    *)
(* still running (a poll that gave up, a slave behind its master), some    *)
(* cycle did fail since the call, and the cycle returned is the first that *)
(* failed in either unit.                                                  *)
FailIsReal ==
    (pc = "done" /\ result.failed /\ ~early) =>
        LET bad == {u \in Units[call.stim] : mismatch[u] # None}
        IN  bad # {} /\ result.test_cycle = Min({mismatch[u] : u \in bad})

(* subcore_artix_sync: "force the gvpus to wait for each other before      *)
(* starting the dut test". No unit of a dual run starts while the other    *)
(* has not been told to run, also if the runs before were solo or died.    *)
StartsTogether ==
    (pc = "run" /\ Dual(call.stim)) => \A u \in A : ~Running(u)

(* No unit of a run is held back for good: while the host polls, a unit    *)
(* that has not started may start - on its own, because the line a dual    *)
(* run asserted is deasserted, or with the other, which waits too.         *)
NothingHeldBack ==
    (pc = "poll" /\ \E u \in Units[call.stim] : Waiting(u)) =>
        ~sync \/ \A u \in A : Waiting(u)

(* A call returns (or its process dies) whatever the units do: the poll    *)
(* loop is bounded.                                                        *)
RunReturns == pc # "idle" ~> pc = "idle"
=============================================================================
