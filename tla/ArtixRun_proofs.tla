---------------------------- MODULE ArtixRun_proofs ----------------------------
(***************************************************************************)
(* Proofs about ArtixRun, for every set of stims, every length, padding    *)
(* and number of polls.                                                    *)
(***************************************************************************)
EXTENDS ArtixRun, Counting

-----------------------------------------------------------------------------
(* The cycles of a sequence of repeats                                     *)

(* The function that adds up the entries of a sequence exists.             *)
LEMMA SumExists ==
    ASSUME NEW r \in Seq(Nat)
    PROVE  \E f : f = [i \in 0 .. Len(r) |-> IF i = 0 THEN 0 ELSE f[i - 1] + r[i]]
  <1> DEFINE Good(f, n) == f = [i \in 0 .. n |-> IF i = 0 THEN 0 ELSE f[i - 1] + r[i]]
             S == {n \in Nat : \E f : Good(f, n)}
  <1>1. 0 \in S
    <2>1. Good([i \in 0 .. 0 |-> 0], 0)
      OBVIOUS
    <2> QED BY <2>1
  <1>2. ASSUME NEW n \in S  PROVE n + 1 \in S
    <2>1. n \in Nat  OBVIOUS
    <2>2. PICK f : Good(f, n)  OBVIOUS
    <2> DEFINE g == [i \in 0 .. n + 1 |-> IF i = n + 1 THEN f[n] + r[n + 1] ELSE f[i]]
    <2>3. ASSUME NEW i \in 0 .. n + 1
          PROVE  g[i] = IF i = 0 THEN 0 ELSE g[i - 1] + r[i]
      <3>1. CASE i = n + 1  BY <3>1, <2>1, SMT
      <3>2. CASE i # n + 1 /\ i = 0
        <4>1. f[0] = 0  BY <2>2, <2>1
        <4> QED BY <3>2, <4>1, SMT
      <3>3. CASE i # n + 1 /\ i # 0
        <4>1. i \in 0 .. n /\ i - 1 \in 0 .. n + 1 /\ i - 1 # n + 1 BY <3>3, <2>1, SMT
        <4>2. f[i] = f[i - 1] + r[i]  BY <4>1, <2>2, <3>3
        <4>3. g[i] = f[i] /\ g[i - 1] = f[i - 1] BY <3>3, <4>1
        <4> QED BY <4>2, <4>3, <3>3
      <3> QED BY <3>1, <3>2, <3>3
    <2>4. Good(g, n + 1)  
      <3> HIDE DEF g
      <3>1. g = [i \in 0 .. n + 1 |-> g[i]]  BY DEF g
      <3> QED BY <2>3, <3>1
    <2>5. n + 1 \in Nat BY <2>1
    <2> QED  BY <2>4, <2>5
  <1>3. S = Nat
    <2> HIDE DEF S
    <2>1. S \in SUBSET Nat BY DEF S
    <2> QED BY <1>1, <1>2, <2>1, Induct
  <1>4. Len(r) \in S BY <1>3
  <1> QED BY <1>4

SumOf(r) == CHOOSE f : f = [i \in 0 .. Len(r) |-> IF i = 0 THEN 0 ELSE f[i - 1] + r[i]]

(* CyclesOf counts no cycle of no entry, and each entry with its repeats.  *)
LEMMA CyclesStep ==
    ASSUME NEW r \in Seq(Nat)
    PROVE  /\ CyclesOf(r, 0) = 0
           /\ \A n \in 1 .. Len(r) : CyclesOf(r, n) = CyclesOf(r, n - 1) + r[n]
  <1>1. SumOf(r) = [i \in 0 .. Len(r) |-> IF i = 0 THEN 0 ELSE SumOf(r)[i - 1] + r[i]]
    BY SumExists DEF SumOf
  <1>2. Len(r) \in Nat  OBVIOUS
  <1>3. ASSUME NEW n \in 0 .. Len(r)  PROVE CyclesOf(r, n) = SumOf(r)[n]
    BY <1>2 DEF CyclesOf, SumOf
  <1>4. SumOf(r)[0] = 0
    BY <1>1, <1>2
  <1>5. ASSUME NEW n \in 1 .. Len(r)  PROVE CyclesOf(r, n) = CyclesOf(r, n - 1) + r[n]
    <2>1. n \in 0 .. Len(r) /\ n - 1 \in 0 .. Len(r) /\ n # 0  BY <1>2, SMT
    <2>2. SumOf(r)[n] = SumOf(r)[n - 1] + r[n]  BY <1>1, <2>1
    <2> QED  BY <2>1, <2>2, <1>3
  <1>6. 0 \in 0 .. Len(r)  BY <1>2
  <1> QED  BY <1>3, <1>4, <1>5, <1>6

(* A number of cycles is a natural number.                                 *)
LEMMA CyclesType ==
    ASSUME NEW r \in Seq(Nat), NEW n \in 0 .. Len(r)
    PROVE  CyclesOf(r, n) \in Nat
  <1> DEFINE S == {k \in Nat : k <= Len(r) => CyclesOf(r, k) \in Nat}
  <1>1. 0 \in S  BY CyclesStep
  <1>2. ASSUME NEW k \in S  PROVE k + 1 \in S
    <2>1. CASE k + 1 <= Len(r)
      <3>1. k + 1 \in 1 .. Len(r) /\ k <= Len(r) /\ k + 1 - 1 = k  BY <2>1, SMT
      <3>2. CyclesOf(r, k + 1) = CyclesOf(r, k) + r[k + 1]  BY <3>1, CyclesStep
      <3>3. r[k + 1] \in Nat /\ CyclesOf(r, k) \in Nat  BY <3>1
      <3> QED  BY <3>2, <3>3, SMT
    <2> QED  BY <2>1
  <1>3. S = Nat
    <2>1. S \in SUBSET Nat  OBVIOUS
    <2> HIDE DEF S
    <2> QED  BY <1>1, <1>2, <2>1, Induct
  <1> QED  BY <1>3, SMT

(* Vectors of one cycle each add their number to the cycles.               *)
LEMMA CyclesPadded ==
    ASSUME NEW r \in Seq(Nat), NEW p \in Nat
    PROVE  CyclesOf(r \o [i \in 1 .. p |-> 1], Len(r) + p) = CyclesOf(r, Len(r)) + p
  <1> DEFINE ones == [i \in 1 .. p |-> 1]
             q == r \o ones
             S == {k \in Nat : k <= Len(r) => CyclesOf(q, k) = CyclesOf(r, k)}
             T == {k \in Nat : k <= p => CyclesOf(q, Len(r) + k) = CyclesOf(r, Len(r)) + k}
  <1>1. ones \in Seq(Nat) /\ Len(ones) = p
    OBVIOUS
  <1>2. q \in Seq(Nat) /\ Len(q) = Len(r) + p
    <2> HIDE DEF ones
    <2> QED  BY <1>1
  <1>3. \A i \in 1 .. Len(r) : q[i] = r[i]
    <2> HIDE DEF ones
    <2> QED  BY <1>1
  <1>4. \A i \in 1 .. p : q[Len(r) + i] = 1
    OBVIOUS
  <1> HIDE DEF q
  <1>5. S = Nat
    <2>1. 0 \in S  BY CyclesStep, <1>2
    <2>2. ASSUME NEW k \in S  PROVE k + 1 \in S
      <3>1. CASE k + 1 <= Len(r)
        <4>1. k + 1 \in 1 .. Len(r) /\ k + 1 \in 1 .. Len(q) /\ k <= Len(r) /\ k + 1 - 1 = k
          BY <3>1, <1>2, SMT
        <4>2. CyclesOf(q, k + 1) = CyclesOf(q, (k + 1) - 1) + q[k + 1]
          BY <4>1, <1>2, CyclesStep
        <4>3. CyclesOf(r, k + 1) = CyclesOf(r, k) + r[k + 1]  BY <4>1, CyclesStep
        <4> QED  BY <4>1, <4>2, <4>3, <1>3
      <3> QED  BY <3>1
    <2>3. S \in SUBSET Nat  OBVIOUS
    <2> HIDE DEF S
    <2> QED  BY <2>1, <2>2, <2>3, Induct
  <1>6. CyclesOf(r, Len(r)) \in Nat  BY CyclesType, SMT
  <1>7. T = Nat
    <2>1. 0 \in T
      <3>1. Len(r) \in S /\ Len(r) \in Nat /\ Len(r) + 0 = Len(r)  BY <1>5
      <3>2. CyclesOf(q, Len(r)) = CyclesOf(r, Len(r))  BY <3>1
      <3> QED  BY <3>1, <3>2, <1>6
    <2>2. ASSUME NEW k \in T  PROVE k + 1 \in T
      <3>1. CASE k + 1 <= p
        <4>1. /\ Len(r) + (k + 1) \in 1 .. Len(q) /\ k + 1 \in 1 .. p /\ k <= p
              /\ (Len(r) + (k + 1)) - 1 = Len(r) + k
          BY <3>1, <1>2, SMT
        <4>2. CyclesOf(q, Len(r) + (k + 1)) = CyclesOf(q, Len(r) + k) + q[Len(r) + (k + 1)]
          BY <4>1, <1>2, CyclesStep
        <4>3. q[Len(r) + (k + 1)] = 1  BY <4>1, <1>4
        <4>4. CyclesOf(q, Len(r) + k) = CyclesOf(r, Len(r)) + k  BY <4>1
        <4> QED  BY <4>2, <4>3, <4>4, <1>6, SMT
      <3> QED  BY <3>1
    <2>3. T \in SUBSET Nat  OBVIOUS
    <2> HIDE DEF T
    <2> QED  BY <2>1, <2>2, <2>3, Induct
  <1>8. p \in T  BY <1>7
  <1> QED  BY <1>8 DEF q

-----------------------------------------------------------------------------
(* The inductive invariant                                                 *)

(* The arguments and the local variables of a call.                        *)
CallType ==
    pc # "idle" =>
        call \in [stim : Stims, unit : A, counter : Nat,
                  master_test_cycle : Nat, slave_test_cycle : Nat,
                  master_test_failed : BOOLEAN, slave_test_failed : BOOLEAN]

(* A unit that was told to run counts the cycles that matched, and flags   *)
(* the one that did not.                                                   *)
CountsTrue(u) ==
    dev[u].state \in {"TEST_RUN", "GVPU_IDLE"} =>
        /\ executed[u] = dev[u].cycle
        /\ mismatch[u] = IF dev[u].failed THEN dev[u].cycle ELSE None
        /\ dev[u].state = "TEST_RUN" => ~dev[u].failed

(* The packet of TEST_INIT is in the unit; and so are the pins.            *)
Told(u, s) == dev[u].addr = Addr[s][u] /\ dev[u].vecs = num_vecs(s) + Padding[s]
Equipped(u, s) == Told(u, s) /\ dev[u].pins = s

(* artix_setup_stim is through with the unit.                              *)
Prepared(u, s) ==
    /\ Equipped(u, s)
    /\ dev[u].state = "TEST_CLEANUP" /\ ~dev[u].started
    /\ dev[u].cycle = 0 /\ ~dev[u].failed

(* The unit runs the stim of the call, or has ended for one of the three   *)
(* reasons there are.                                                      *)
Launched(u, s) ==
    /\ Equipped(u, s)
    /\ dev[u].state \in {"TEST_RUN", "GVPU_IDLE"}
    /\ dev[u].cycle <= total_unrolled_vecs(s)
    /\ dev[u].failed => dev[u].cycle < total_unrolled_vecs(s)
    /\ dev[u].state = "GVPU_IDLE" =>
           \/ dev[u].failed
           \/ dev[u].cycle = total_unrolled_vecs(s)
           \/ Dual(s) /\ \E v \in A \ {u} : dev[v].failed /\ dev[u].cycle >= dev[v].cycle

(* While the units are set up, one after the other.                        *)
SettingUp ==
    pc \in {"init", "setup", "cleanup"} =>
        /\ \/ call.unit = Master(call.stim)
           \/ Dual(call.stim) /\ call.unit = Slave /\ Prepared("A1", call.stim)
        /\ pc \in {"setup", "cleanup"} => Told(call.unit, call.stim)
        /\ pc = "cleanup" => dev[call.unit].pins = call.stim

(* While the line is set and the units are told to run.                    *)
Launching ==
    /\ pc = "sync" => /\ call.unit = Master(call.stim)
                      /\ \A u \in Units[call.stim] : Prepared(u, call.stim)
    /\ pc = "run" =>
        /\ sync = Dual(call.stim)
        /\ \/ /\ call.unit = Master(call.stim)
              /\ \A u \in Units[call.stim] : Prepared(u, call.stim)
           \/ /\ Dual(call.stim) /\ call.unit = Slave /\ Prepared(Slave, call.stim)
              /\ Equipped("A1", call.stim) /\ Waiting("A1")
              /\ dev["A1"].cycle = 0 /\ ~dev["A1"].failed

AfterRun == {"poll", "cycle", "status", "solo", "slave_status", "slave_cycle", "verdict", "done"}
AfterCycle == AfterRun \ {"poll", "cycle"}
AfterStatus == AfterCycle \ {"status"}

(* From the last TEST_RUN on: the units are on their own.                  *)
OnTheirOwn ==
    pc \in AfterRun =>
        /\ sync = Dual(call.stim)
        /\ \A u \in Units[call.stim] : Launched(u, call.stim)
        /\ Dual(call.stim) => (\A u \in A : Waiting(u)) \/ (\A u \in A : dev[u].started)

(* What the host has read is not ahead of the unit, and it is the final    *)
(* count when the unit was not running.                                    *)
ReadMaster ==
    LET m == Master(call.stim)
    IN  /\ pc \in AfterCycle =>
               /\ call.master_test_cycle <= dev[m].cycle
               /\ ~early => dev[m].state = "GVPU_IDLE" /\ call.master_test_cycle = dev[m].cycle
        /\ pc \in AfterStatus =>
               /\ call.master_test_failed => dev[m].failed
               /\ ~early => call.master_test_failed = dev[m].failed

ReadSlave ==
    /\ pc = "solo" => ~Dual(call.stim)
    /\ pc \in {"slave_status", "slave_cycle"} => Dual(call.stim)
    /\ (pc # "idle" /\ ~Dual(call.stim)) => ~call.slave_test_failed
    /\ (pc \in {"slave_cycle", "verdict", "done"} /\ Dual(call.stim)) =>
           (call.slave_test_failed => dev[Slave].failed)
    /\ (pc \in {"verdict", "done"} /\ Dual(call.stim)) =>
           /\ call.slave_test_cycle <= dev[Slave].cycle
           /\ ~early => dev[Slave].state = "GVPU_IDLE" /\ call.slave_test_cycle = dev[Slave].cycle

Returned ==
    pc = "done" => result = [failed |-> Failed(call), test_cycle |-> TestCycle(call)]

IInv ==
    /\ ArtixTypeOK /\ CallType
    /\ \A u \in A : CountsTrue(u)
    /\ SettingUp /\ Launching /\ OnTheirOwn
    /\ ReadMaster /\ ReadSlave /\ Returned

-----------------------------------------------------------------------------
(* Facts the steps share                                                   *)

(* A stim runs on one unit, its master, or on both.                        *)
LEMMA UnitsOf ==
    ASSUME NEW s \in Stims
    PROVE  /\ Units[s] \subseteq A
           /\ Master(s) \in Units[s]
           /\ Dual(s) => Units[s] = A /\ Master(s) = "A1"
           /\ ~Dual(s) => Units[s] = {Master(s)}
  <1>1. Units[s] \in (SUBSET A) \ {{}}  BY ArtixAssumption
  <1>2. Units[s] = {"A1"} \/ Units[s] = {"A2"} \/ Units[s] = {"A1", "A2"}
    BY <1>1 DEF A
  <1> QED  BY <1>2 DEF Dual, Master, A

(* The vectors of a stim and its padding take total_unrolled_vecs cycles.  *)
LEMMA CyclesOfStim ==
    ASSUME NEW s \in Stims
    PROVE  /\ total_unrolled_vecs(s) \in Nat
           /\ CyclesOf(Repeats[s] \o [i \in 1 .. Padding[s] |-> 1], num_vecs(s) + Padding[s])
                = total_unrolled_vecs(s)
           /\ num_vecs(s) + Padding[s] \in Nat
           /\ \A u \in A : Addr[s][u] \in Nat
  <1>1. Repeats[s] \in Seq(Nat) /\ Padding[s] \in Nat /\ \A u \in A : Addr[s][u] \in Nat
    <2>1. Repeats[s] \in Seq(Nat \ {0})  BY ArtixAssumption
    <2>2. Repeats[s] \in Seq(Nat)  BY <2>1
    <2> QED  BY <2>2, ArtixAssumption
  <1>2. Len(Repeats[s]) \in 0 .. Len(Repeats[s])  BY <1>1
  <1>3. CyclesOf(Repeats[s], Len(Repeats[s])) \in Nat  BY <1>1, <1>2, CyclesType
  <1>4. num_vecs(s) = Len(Repeats[s]) /\ num_vecs(s) \in Nat  BY <1>1 DEF num_vecs
  <1>5. total_unrolled_vecs(s) = CyclesOf(Repeats[s], Len(Repeats[s])) + Padding[s]
    BY DEF total_unrolled_vecs, num_unrolled_vecs, num_vecs
  <1>6. CyclesOf(Repeats[s] \o [i \in 1 .. Padding[s] |-> 1], Len(Repeats[s]) + Padding[s])
          = CyclesOf(Repeats[s], Len(Repeats[s])) + Padding[s]
    BY <1>1, CyclesPadded
  <1> QED  BY <1>1, <1>3, <1>4, <1>5, <1>6

(* A unit that has the packet of a stim runs that stim's cycles: no other  *)
(* stim of the unit is loaded at its address.                              *)
LEMMA LengthOfStim ==
    ASSUME NEW s \in Stims, NEW u \in Units[s], Told(u, s)
    PROVE  Length(u) = total_unrolled_vecs(s)
  <1> DEFINE at == {t \in Stims : u \in Units[t] /\ Addr[t][u] = Addr[s][u]}
  <1>1. u \in A  BY UnitsOf
  <1>2. at = {s}
    <2>1. ASSUME NEW t \in at  PROVE t = s
      BY <1>1, ArtixAssumption
    <2> QED  BY <2>1
  <1>3. Stored(u, Addr[s][u]) = Repeats[s] \o [i \in 1 .. Padding[s] |-> 1]
    <2>1. (CHOOSE t \in at : TRUE) = s  BY <1>2
    <2> QED  BY <1>2, <2>1 DEF Stored
  <1> QED  BY <1>3, CyclesOfStim DEF Length, Told

UnitMoves == Start \/ \E u \in A : Execute(u) \/ Mismatch(u) \/ Halt(u)

(* The registers of a unit.                                                *)
Registers == [state : {"GVPU_IDLE", "TEST_INIT", "TEST_SETUP", "TEST_CLEANUP", "TEST_RUN"},
              started : BOOLEAN, addr : Nat, vecs : Nat, pins : Stims \cup {NoStim},
              cycle : Nat, failed : BOOLEAN]

(* What a unit may do by itself: nothing unless it was told to run; then   *)
(* it starts, counts a cycle, flags one, or stops.                         *)
Moved(u) ==
    \/ dev'[u] = dev[u] /\ executed'[u] = executed[u] /\ mismatch'[u] = mismatch[u]
    \/ /\ Waiting(u) /\ dev'[u] = [dev[u] EXCEPT !.started = TRUE]
       /\ executed'[u] = executed[u] /\ mismatch'[u] = mismatch[u]
    \/ /\ Running(u) /\ dev[u].cycle < Length(u)
       /\ dev'[u] = [dev[u] EXCEPT !.cycle = @ + 1,
                                   !.state = IF dev[u].cycle + 1 = Length(u)
                                             THEN "GVPU_IDLE" ELSE @]
       /\ executed'[u] = executed[u] + 1 /\ mismatch'[u] = mismatch[u]
    \/ /\ Running(u) /\ dev[u].cycle < Length(u)
       /\ dev'[u] = [dev[u] EXCEPT !.failed = TRUE, !.state = "GVPU_IDLE"]
       /\ executed'[u] = executed[u] /\ mismatch'[u] = dev[u].cycle
    \/ /\ Running(u) /\ sync
       /\ \E v \in A \ {u} : dev[v].failed /\ dev[u].cycle >= dev[v].cycle
       /\ dev'[u] = [dev[u] EXCEPT !.state = "GVPU_IDLE"]
       /\ executed'[u] = executed[u] /\ mismatch'[u] = mismatch[u]

(* Each step of the units is such a move of each of them.                  *)
LEMMA MovesApart ==
    ASSUME ArtixTypeOK, UnitMoves
    PROVE  /\ UNCHANGED <<sync, pc, call, result, early>>
           /\ DOMAIN dev' = A /\ dev' = [u \in A |-> dev'[u]]
           /\ executed' = [u \in A |-> executed'[u]] /\ mismatch' = [u \in A |-> mismatch'[u]]
           /\ \A u \in A : Moved(u)
  <1>0. dev \in [A -> Registers] /\ executed \in [A -> Nat] /\ mismatch \in [A -> Nat \cup {None}]
    BY DEF ArtixTypeOK, Registers
  <1>1. CASE Start
    <2> USE <1>0 DEF Start, Moved, Registers
    <2>1. CASE ~sync
      <3>1. PICK u \in A : Waiting(u) /\ dev' = [dev EXCEPT ![u].started = TRUE]  BY <1>1, <2>1
      <3>2. \A v \in A : dev'[v] = IF v = u THEN [dev[u] EXCEPT !.started = TRUE] ELSE dev[v]
        BY <3>1
      <3> QED  BY <1>1, <3>1, <3>2
    <2>2. CASE sync  BY <1>1, <2>2
    <2> QED  BY <2>1, <2>2
  <1>2. ASSUME NEW u \in A, Execute(u) \/ Mismatch(u) \/ Halt(u)  PROVE \A v \in A : Moved(v)
    <2>1. ASSUME NEW v \in A, v # u  PROVE Moved(v)
      BY <1>0, <1>2, <2>1 DEF Moved, Execute, Mismatch, Halt
    <2>2. CASE Execute(u)  BY <1>0, <2>2 DEF Moved, Execute, Registers
    <2>3. CASE Mismatch(u)  BY <1>0, <2>3 DEF Moved, Mismatch, Registers
    <2>4. CASE Halt(u)  BY <1>0, <2>4 DEF Moved, Halt, Registers
    <2>5. Moved(u)  BY <1>2, <2>2, <2>3, <2>4
    <2> QED  BY <2>1, <2>5
  <1>3. ASSUME NEW u \in A, Execute(u) \/ Mismatch(u) \/ Halt(u)
        PROVE  /\ UNCHANGED <<sync, pc, call, result, early>>
               /\ DOMAIN dev' = A /\ dev' = [v \in A |-> dev'[v]]
               /\ executed' = [v \in A |-> executed'[v]] /\ mismatch' = [v \in A |-> mismatch'[v]]
    BY <1>0, <1>3 DEF Execute, Mismatch, Halt
  <1>4. CASE ~Start
    <2>1. PICK u \in A : Execute(u) \/ Mismatch(u) \/ Halt(u)  BY <1>4 DEF UnitMoves
    <2> QED  BY <2>1, <1>2, <1>3
  <1> QED  BY <1>1, <1>4

(* A unit that was not told to run, or has failed, stays as it is; the     *)
(* others go on, end, count and flag truly.                                *)
LEMMA MoveFacts ==
    ASSUME ArtixTypeOK, \A u \in A : CountsTrue(u), NEW u \in A, Moved(u)
    PROVE  /\ CountsTrue(u)'
           /\ dev'[u] \in Registers /\ executed'[u] \in Nat /\ mismatch'[u] \in Nat \cup {None}
           /\ dev'[u].addr = dev[u].addr /\ dev'[u].vecs = dev[u].vecs
           /\ dev'[u].pins = dev[u].pins
           /\ dev[u].state # "TEST_RUN" => dev'[u] = dev[u]
           /\ dev[u].state = "TEST_RUN" => dev'[u].state \in {"TEST_RUN", "GVPU_IDLE"}
           /\ dev'[u].cycle >= dev[u].cycle
           /\ dev[u].started => dev'[u].started
  <1>0. dev[u] \in Registers /\ executed[u] \in Nat /\ mismatch[u] \in Nat \cup {None}
    BY DEF ArtixTypeOK, Registers
  <1>1. CountsTrue(u)  OBVIOUS
  <1> USE <1>0 DEF Registers
  <1>2. CASE dev'[u] = dev[u] /\ executed'[u] = executed[u] /\ mismatch'[u] = mismatch[u]
    BY <1>1, <1>2 DEF CountsTrue
  <1>3. CASE /\ Waiting(u) /\ dev'[u] = [dev[u] EXCEPT !.started = TRUE]
             /\ executed'[u] = executed[u] /\ mismatch'[u] = mismatch[u]
    <2>1. dev'[u] \in Registers  BY <1>3
    <2>2. /\ dev'[u].cycle = dev[u].cycle /\ dev'[u].failed = dev[u].failed
          /\ dev'[u].addr = dev[u].addr /\ dev'[u].vecs = dev[u].vecs
          /\ dev'[u].pins = dev[u].pins /\ dev'[u].started
          /\ dev'[u].state = "TEST_RUN"
      BY <1>3 DEF Waiting
    <2>3. ~dev[u].failed /\ executed[u] = dev[u].cycle /\ mismatch[u] = None
      BY <1>1, <1>3 DEF CountsTrue, Waiting
    <2>4. CountsTrue(u)'  BY <1>3, <2>2, <2>3 DEF CountsTrue
    <2> QED  BY <1>3, <2>1, <2>2, <2>4 DEF Waiting
  <1>4. CASE /\ Running(u) /\ dev[u].cycle < Length(u)
             /\ dev'[u] = [dev[u] EXCEPT !.cycle = @ + 1,
                                         !.state = IF dev[u].cycle + 1 = Length(u)
                                                   THEN "GVPU_IDLE" ELSE @]
             /\ executed'[u] = executed[u] + 1 /\ mismatch'[u] = mismatch[u]
    <2>0. dev[u].cycle + 1 \in Nat  OBVIOUS
    <2>1. dev'[u] \in Registers
      <3>1. CASE dev[u].cycle + 1 = Length(u)  BY <1>4, <2>0, <3>1
      <3>2. CASE dev[u].cycle + 1 # Length(u)  BY <1>4, <2>0, <3>2
      <3> QED  BY <3>1, <3>2
    <2>2. /\ dev'[u].cycle = dev[u].cycle + 1 /\ dev'[u].failed = dev[u].failed
          /\ dev'[u].addr = dev[u].addr /\ dev'[u].vecs = dev[u].vecs
          /\ dev'[u].pins = dev[u].pins /\ dev'[u].started = dev[u].started
          /\ dev'[u].state \in {"TEST_RUN", "GVPU_IDLE"}
      BY <1>4 DEF Running
    <2>3. ~dev[u].failed /\ executed[u] = dev[u].cycle /\ mismatch[u] = None
      BY <1>1, <1>4 DEF CountsTrue, Running
    <2>4. CountsTrue(u)'  BY <1>4, <2>2, <2>3 DEF CountsTrue
    <2> QED  BY <1>4, <2>1, <2>2, <2>4 DEF Running
  <1>5. CASE /\ Running(u) /\ dev[u].cycle < Length(u)
             /\ dev'[u] = [dev[u] EXCEPT !.failed = TRUE, !.state = "GVPU_IDLE"]
             /\ executed'[u] = executed[u] /\ mismatch'[u] = dev[u].cycle
    <2>1. dev'[u] \in Registers  BY <1>5
    <2>2. /\ dev'[u].cycle = dev[u].cycle /\ dev'[u].failed
          /\ dev'[u].addr = dev[u].addr /\ dev'[u].vecs = dev[u].vecs
          /\ dev'[u].pins = dev[u].pins /\ dev'[u].started = dev[u].started
          /\ dev'[u].state = "GVPU_IDLE"
      BY <1>5
    <2>3. executed[u] = dev[u].cycle  BY <1>1, <1>5 DEF CountsTrue, Running
    <2>4. CountsTrue(u)'  BY <1>5, <2>2, <2>3 DEF CountsTrue
    <2> QED  BY <1>5, <2>1, <2>2, <2>4 DEF Running
  <1>6. CASE /\ Running(u)
             /\ dev'[u] = [dev[u] EXCEPT !.state = "GVPU_IDLE"]
             /\ executed'[u] = executed[u] /\ mismatch'[u] = mismatch[u]
    <2>1. dev'[u] \in Registers  BY <1>6
    <2>2. /\ dev'[u].cycle = dev[u].cycle /\ dev'[u].failed = dev[u].failed
          /\ dev'[u].addr = dev[u].addr /\ dev'[u].vecs = dev[u].vecs
          /\ dev'[u].pins = dev[u].pins /\ dev'[u].started = dev[u].started
          /\ dev'[u].state = "GVPU_IDLE"
      BY <1>6
    <2>3. ~dev[u].failed /\ executed[u] = dev[u].cycle /\ mismatch[u] = None
      BY <1>1, <1>6 DEF CountsTrue, Running
    <2>4. CountsTrue(u)'  BY <1>6, <2>2, <2>3 DEF CountsTrue
    <2> QED  BY <1>6, <2>1, <2>2, <2>4 DEF Running
  <1> QED  BY <1>2, <1>3, <1>4, <1>5, <1>6 DEF Moved
(* A unit that runs the stim of the call goes on doing so, or ends for one *)
(* of the three reasons.                                                   *)
LEMMA StaysLaunched ==
    ASSUME ArtixTypeOK, \A v \in A : CountsTrue(v), UnitMoves,
           NEW s \in Stims, sync = Dual(s), NEW u \in Units[s], Launched(u, s)
    PROVE  Launched(u, s)'
  <1>0. u \in A  BY UnitsOf
  <1>1. /\ Moved(u)
        /\ \A v \in A : dev[v].state # "TEST_RUN" => dev'[v] = dev[v]
    <2>1. \A v \in A : Moved(v)  BY MovesApart
    <2>2. \A v \in A : dev[v].state # "TEST_RUN" => dev'[v] = dev[v]  BY <2>1, MoveFacts
    <2> QED  BY <1>0, <2>1, <2>2
  <1>2. \A v \in A : dev[v].failed => dev'[v] = dev[v]
    BY <1>1 DEF CountsTrue, ArtixTypeOK
  <1>3. dev[u] \in Registers /\ dev'[u] \in Registers /\ Equipped(u, s)'
    <2>1. dev[u] \in Registers  BY <1>0 DEF ArtixTypeOK, Registers
    <2>2. /\ dev'[u] \in Registers
          /\ dev'[u].addr = dev[u].addr /\ dev'[u].vecs = dev[u].vecs /\ dev'[u].pins = dev[u].pins
      BY <1>0, <1>1, MoveFacts
    <2> QED  BY <2>1, <2>2 DEF Launched, Equipped, Told
  <1>4. Length(u) = total_unrolled_vecs(s) /\ total_unrolled_vecs(s) \in Nat
    BY LengthOfStim, CyclesOfStim DEF Launched, Equipped
  <1> DEFINE total == total_unrolled_vecs(s)
             AsAfter == /\ dev'[u].state \in {"TEST_RUN", "GVPU_IDLE"}
                        /\ dev'[u].cycle <= total
                        /\ dev'[u].failed => dev'[u].cycle < total
                        /\ dev'[u].state = "GVPU_IDLE" =>
                              \/ dev'[u].failed
                              \/ dev'[u].cycle = total
                              \/ Dual(s) /\ \E v \in A \ {u} : dev'[v].failed /\ dev'[u].cycle >= dev'[v].cycle
  <1>5. SUFFICES AsAfter  BY <1>3 DEF Launched
  <1>6. CASE dev'[u] = dev[u]  BY <1>6, <1>2 DEF Launched
  <1>7. CASE Waiting(u) /\ dev'[u] = [dev[u] EXCEPT !.started = TRUE]
    <2>1. dev'[u].state = "TEST_RUN" /\ dev'[u].cycle = dev[u].cycle /\ dev'[u].failed = dev[u].failed
      BY <1>3, <1>7 DEF Waiting, Registers
    <2> QED  BY <2>1 DEF Launched
  <1>8. CASE /\ Running(u) /\ dev[u].cycle < Length(u)
             /\ dev'[u] = [dev[u] EXCEPT !.cycle = @ + 1,
                                         !.state = IF dev[u].cycle + 1 = Length(u)
                                                   THEN "GVPU_IDLE" ELSE @]
    <2>1. /\ dev'[u].cycle = dev[u].cycle + 1 /\ dev'[u].failed = dev[u].failed
          /\ dev'[u].state = IF dev[u].cycle + 1 = total THEN "GVPU_IDLE" ELSE "TEST_RUN"
          /\ dev[u].cycle < total /\ dev[u].cycle \in Nat
      BY <1>3, <1>4, <1>8 DEF Running, Registers
    <2>2. ~dev[u].failed  BY <1>0, <1>8 DEF CountsTrue, Running
    <2> QED  BY <2>1, <2>2, <1>4
  <1>9. CASE /\ Running(u) /\ dev[u].cycle < Length(u)
             /\ dev'[u] = [dev[u] EXCEPT !.failed = TRUE, !.state = "GVPU_IDLE"]
    <2>1. /\ dev'[u].cycle = dev[u].cycle /\ dev'[u].failed /\ dev'[u].state = "GVPU_IDLE"
          /\ dev[u].cycle < total /\ dev[u].cycle \in Nat
      BY <1>3, <1>4, <1>9 DEF Registers
    <2> QED  BY <2>1, <1>4
  <1>10. CASE /\ Running(u) /\ sync
              /\ \E v \in A \ {u} : dev[v].failed /\ dev[u].cycle >= dev[v].cycle
              /\ dev'[u] = [dev[u] EXCEPT !.state = "GVPU_IDLE"]
    <2>1. dev'[u].cycle = dev[u].cycle /\ dev'[u].failed = dev[u].failed /\ dev'[u].state = "GVPU_IDLE"
      BY <1>3, <1>10 DEF Registers
    <2>2. \E v \in A \ {u} : dev'[v].failed /\ dev'[u].cycle >= dev'[v].cycle
      BY <1>2, <1>10, <2>1
    <2> QED  BY <2>1, <2>2, <1>10 DEF Launched
  <1> QED  BY <1>1, <1>6, <1>7, <1>8, <1>9, <1>10 DEF Moved

(* The units by themselves keep the invariant.                             *)
LEMMA UnitStep ==
    ASSUME IInv, UnitMoves
    PROVE  IInv'
  <1>0. ArtixTypeOK /\ CallType /\ \A u \in A : CountsTrue(u)  BY DEF IInv
  <1>1. /\ UNCHANGED <<sync, pc, call, result, early>>
        /\ dev' = [u \in A |-> dev'[u]]
        /\ executed' = [u \in A |-> executed'[u]] /\ mismatch' = [u \in A |-> mismatch'[u]]
        /\ \A u \in A : Moved(u)
    BY <1>0, MovesApart
  <1>2. \A u \in A :
           /\ CountsTrue(u)'
           /\ dev'[u] \in Registers /\ executed'[u] \in Nat /\ mismatch'[u] \in Nat \cup {None}
           /\ dev'[u].addr = dev[u].addr /\ dev'[u].vecs = dev[u].vecs
           /\ dev'[u].pins = dev[u].pins
           /\ dev[u].state # "TEST_RUN" => dev'[u] = dev[u]
           /\ dev[u].state = "TEST_RUN" => dev'[u].state \in {"TEST_RUN", "GVPU_IDLE"}
           /\ dev'[u].cycle >= dev[u].cycle
           /\ dev[u].started => dev'[u].started
    BY <1>0, <1>1, MoveFacts
  <1>3. ArtixTypeOK'
    <2>1. dev' \in [A -> Registers] /\ executed' \in [A -> Nat] /\ mismatch' \in [A -> Nat \cup {None}]
      BY <1>1, <1>2
    <2> QED  BY <1>0, <1>1, <2>1 DEF ArtixTypeOK, Registers
  <1>4. CallType'  BY <1>0, <1>1 DEF CallType
  <1>5. \A u \in A, s \in Stims : Prepared(u, s) => dev'[u] = dev[u]
    BY <1>2 DEF Prepared
  <1>6. \A u \in A : dev[u].failed => dev'[u] = dev[u]
    BY <1>0, <1>2 DEF CountsTrue, ArtixTypeOK
  <1>7. \A u \in A : dev[u].state = "GVPU_IDLE" => dev'[u] = dev[u]
    BY <1>2
  <1>8. SettingUp'
    <2>1. SettingUp  BY DEF IInv
    <2> SUFFICES ASSUME pc \in {"init", "setup", "cleanup"}
                 PROVE  SettingUp'
      BY <1>1 DEF SettingUp
    <2>2. call.stim \in Stims /\ call.unit \in A  BY <1>0 DEF CallType
    <2>3. Prepared("A1", call.stim) => Prepared("A1", call.stim)'
      BY <1>1, <1>5, <2>2 DEF Prepared, Equipped, Told, A
    <2>4. Told(call.unit, call.stim) => Told(call.unit, call.stim)'
      BY <1>1, <1>2, <2>2 DEF Told
    <2>5. dev'[call.unit].pins = dev[call.unit].pins  BY <1>2, <2>2
    <2> QED  BY <1>1, <2>1, <2>3, <2>4, <2>5 DEF SettingUp
  <1>9. Launching'
    <2>1. Launching  BY DEF IInv
    <2> SUFFICES ASSUME pc \in {"sync", "run"}
                 PROVE  Launching'
      BY <1>1 DEF Launching
    <2>2. call.stim \in Stims /\ call.unit \in A /\ Units[call.stim] \subseteq A
      BY <1>0, UnitsOf DEF CallType
    <2>3. \A u \in A : Prepared(u, call.stim) => Prepared(u, call.stim)'
      BY <1>1, <1>5, <2>2 DEF Prepared, Equipped, Told
    <2>4. CASE /\ pc = "run" => sync = Dual(call.stim)
               /\ call.unit = Master(call.stim)
               /\ \A u \in Units[call.stim] : Prepared(u, call.stim)
      <3>1. \A u \in Units[call.stim] : Prepared(u, call.stim)'  BY <2>2, <2>3, <2>4
      <3> QED  BY <1>1, <2>4, <3>1 DEF Launching
    <2>5. CASE /\ pc = "run" /\ sync = Dual(call.stim)
               /\ Dual(call.stim) /\ call.unit = Slave /\ Prepared(Slave, call.stim)
               /\ Equipped("A1", call.stim) /\ Waiting("A1")
               /\ dev["A1"].cycle = 0 /\ ~dev["A1"].failed
      <3>1. Prepared(Slave, call.stim)'  BY <2>3, <2>5 DEF Slave, A
      <3>2. dev'["A1"] = dev["A1"]
        <4>1. ~Start  BY <2>5 DEF Start, Prepared, Slave, A, Waiting
        <4>2. ~Running("A1")  BY <2>5 DEF Waiting, Running
        <4> QED  BY <4>1, <4>2, <1>0 DEF UnitMoves, Execute, Mismatch, Halt, A, ArtixTypeOK
      <3> QED  BY <1>1, <2>1, <2>5, <3>1, <3>2 DEF Launching, Equipped, Told, Waiting
    <2> QED  BY <2>1, <2>4, <2>5 DEF Launching
  <1>10. OnTheirOwn'
    <2>1. OnTheirOwn  BY DEF IInv
    <2> SUFFICES ASSUME pc \in AfterRun
                 PROVE  OnTheirOwn'
      BY <1>1 DEF OnTheirOwn
    <2>2. call.stim \in Stims  BY <1>0 DEF CallType, AfterRun
    <2>3. \A u \in Units[call.stim] : Launched(u, call.stim)'
      BY <1>0, <1>1, <2>1, <2>2, StaysLaunched DEF OnTheirOwn
    <2>4. ASSUME Dual(call.stim)
          PROVE  (\A u \in A : Waiting(u)') \/ (\A u \in A : dev'[u].started)
      <3>1. CASE \A u \in A : dev[u].started  BY <1>2, <3>1
      <3>2. CASE \A u \in A : Waiting(u)
        <4>1. Start  BY <3>2 DEF UnitMoves, Execute, Mismatch, Halt, Waiting, Running
        <4>2. sync  BY <2>1, <2>4 DEF OnTheirOwn
        <4> QED  BY <4>1, <4>2, <1>0 DEF Start, ArtixTypeOK
      <3> QED  BY <3>1, <3>2, <2>1, <2>4 DEF OnTheirOwn
    <2>5. Dual(call.stim)' = Dual(call.stim) /\ call' = call /\ pc' = pc /\ sync' = sync
      BY <1>1 DEF Dual
    <2> QED  BY <2>1, <2>3, <2>4, <2>5 DEF OnTheirOwn
  <1>11. ReadMaster'
    <2>1. ReadMaster  BY DEF IInv
    <2> SUFFICES ASSUME pc \in AfterCycle
                 PROVE  ReadMaster'
      BY <1>1 DEF ReadMaster, AfterStatus
    <2>2. call.stim \in Stims /\ call.master_test_cycle \in Nat
      BY <1>0 DEF CallType, AfterCycle, AfterRun
    <2> DEFINE m == Master(call.stim)
    <2>3. m \in A  BY <2>2, UnitsOf
    <2>4. dev[m].cycle \in Nat /\ dev'[m].cycle \in Nat /\ dev'[m].cycle >= dev[m].cycle
      BY <1>2, <2>3, <1>0 DEF ArtixTypeOK, Registers
    <2>5. (dev[m].failed \/ dev[m].state = "GVPU_IDLE") => dev'[m] = dev[m]
      BY <1>6, <1>7, <2>3
    <2>6. m' = m  BY <1>1
    <2> HIDE DEF m
    <2>7. call.master_test_cycle <= dev'[m].cycle
      BY <2>1, <2>2, <2>4 DEF ReadMaster, m
    <2> QED  BY <1>1, <2>1, <2>5, <2>6, <2>7 DEF ReadMaster, m
  <1>12. ReadSlave'
    <2>1. ReadSlave  BY DEF IInv
    <2>2. Slave \in A  BY DEF Slave, A
    <2>3. dev[Slave].cycle \in Nat /\ dev'[Slave].cycle \in Nat /\ dev'[Slave].cycle >= dev[Slave].cycle
      BY <1>2, <2>2, <1>0 DEF ArtixTypeOK, Registers
    <2>4. (dev[Slave].failed \/ dev[Slave].state = "GVPU_IDLE") => dev'[Slave] = dev[Slave]
      BY <1>6, <1>7, <2>2
    <2>5. pc # "idle" => call.slave_test_cycle \in Nat  BY <1>0 DEF CallType
    <2>6. Slave' = Slave /\ (call.stim)' = call.stim  BY <1>1 DEF Slave
    <2>7. call.slave_test_cycle <= dev[Slave].cycle /\ pc # "idle"
             => call.slave_test_cycle <= dev'[Slave].cycle
      BY <2>3, <2>5
    <2> QED  BY <1>1, <2>1, <2>4, <2>6, <2>7 DEF ReadSlave
  <1>13. Returned'  BY <1>1 DEF IInv, Returned, Failed, TestCycle
  <1> QED  BY <1>2, <1>3, <1>4, <1>8, <1>9, <1>10, <1>11, <1>12, <1>13 DEF IInv
(* What holds of a call that is going on.                                  *)
LEMMA CallFacts ==
    ASSUME IInv, pc # "idle"
    PROVE  /\ call \in [stim : Stims, unit : A, counter : Nat,
                        master_test_cycle : Nat, slave_test_cycle : Nat,
                        master_test_failed : BOOLEAN, slave_test_failed : BOOLEAN]
           /\ call.stim \in Stims /\ call.unit \in Units[call.stim] /\ call.unit \in A
           /\ Units[call.stim] \subseteq A /\ Master(call.stim) \in Units[call.stim]
           /\ Dual(call.stim) => Units[call.stim] = A /\ Master(call.stim) = "A1"
           /\ ~Dual(call.stim) => Units[call.stim] = {Master(call.stim)}
           /\ dev \in [A -> Registers]
           /\ Slave \in A /\ Slave # "A1" /\ A = {"A1", Slave}
  <1>1. call \in [stim : Stims, unit : A, counter : Nat,
                  master_test_cycle : Nat, slave_test_cycle : Nat,
                  master_test_failed : BOOLEAN, slave_test_failed : BOOLEAN]
    BY DEF IInv, CallType
  <1>2. call.unit \in Units[call.stim] /\ dev \in [A -> Registers]
    BY DEF IInv, ArtixTypeOK, Registers
  <1> QED  BY <1>1, <1>2, UnitsOf DEF Slave, A

(* The call begins.                                                        *)
LEMMA CallStep ==
    ASSUME IInv, NEW s \in Stims, artix_run_stim(s)
    PROVE  IInv'
  <1> USE DEF artix_run_stim
  <1>1. Master(s) \in Units[s] /\ Master(s) \in A  BY UnitsOf
  <1>2. call'.stim = s /\ call'.unit = Master(s) /\ call'.counter = 0 /\ ~call'.slave_test_failed
    OBVIOUS
  <1>3. ArtixTypeOK' /\ CallType'
    <2>1. 0 \in 0 .. PollLimit  BY ArtixAssumption
    <2>2. CallType'  BY <1>1 DEF CallType
    <2> QED  BY <1>1, <1>2, <2>1, <2>2 DEF IInv, ArtixTypeOK
  <1>4. \A u \in A : CountsTrue(u)'  BY DEF IInv, CountsTrue
  <1>5. SettingUp'  BY <1>2 DEF SettingUp
  <1>6. Launching' /\ OnTheirOwn' /\ ReadMaster' /\ ReadSlave' /\ Returned'
    BY <1>2 DEF Launching, OnTheirOwn, ReadMaster, ReadSlave, Returned, AfterRun, AfterCycle, AfterStatus
  <1> QED  BY <1>3, <1>4, <1>5, <1>6 DEF IInv

(* A state of a gvpu other than the two in which it runs or has run asks   *)
(* nothing of the counts.                                                  *)
LEMMA CountsKept ==
    ASSUME IInv, dev \in [A -> Registers], NEW w \in A, NEW d \in Registers,
           dev' = [dev EXCEPT ![w] = d],
           d.state \notin {"TEST_RUN", "GVPU_IDLE"}, UNCHANGED <<executed, mismatch>>
    PROVE  \A u \in A : CountsTrue(u)'
  <1>1. \A u \in A : dev'[u] = IF u = w THEN d ELSE dev[u]  OBVIOUS
  <1> QED  BY <1>1 DEF IInv, CountsTrue

(* A unit is set up, step by step.                                         *)
LEMMA SetupStep ==
    ASSUME IInv, TestInit \/ TestSetup \/ TestCleanup
    PROVE  IInv'
  <1>0. pc \in {"init", "setup", "cleanup"}  BY DEF TestInit, TestSetup, TestCleanup
  <1> DEFINE s == call.stim
             w == call.unit
  <1>1. /\ s \in Stims /\ w \in Units[s] /\ w \in A /\ dev \in [A -> Registers]
        /\ call \in [stim : Stims, unit : A, counter : Nat,
                     master_test_cycle : Nat, slave_test_cycle : Nat,
                     master_test_failed : BOOLEAN, slave_test_failed : BOOLEAN]
        /\ Units[s] \subseteq A /\ Master(s) \in Units[s]
        /\ Dual(s) => Units[s] = A /\ Master(s) = "A1"
        /\ ~Dual(s) => Units[s] = {Master(s)}
        /\ Slave \in A /\ Slave # "A1" /\ A = {"A1", Slave}
    BY <1>0, CallFacts
  <1>2. SettingUp /\ ReadSlave /\ ArtixTypeOK  BY DEF IInv
  <1>3. w # "A1" /\ Dual(s) => Prepared("A1", s)
    BY <1>0, <1>1, <1>2 DEF SettingUp
  <1>4. CASE TestInit
    <2> DEFINE d == packet_write(helper_gvpu_load(dev[w], "TEST_INIT"),
                                 Addr[s][w], num_vecs(s) + Padding[s])
    <2>1. /\ d \in Registers /\ d.state = "TEST_INIT"
          /\ d.addr = Addr[s][w] /\ d.vecs = num_vecs(s) + Padding[s]
      <3>1. Addr[s][w] \in Nat /\ num_vecs(s) + Padding[s] \in Nat  BY <1>1, CyclesOfStim
      <3>2. dev[w] \in Registers  BY <1>1
      <3> QED  BY <3>1, <3>2 DEF packet_write, helper_gvpu_load, Registers
    <2>2. /\ dev' = [dev EXCEPT ![w] = d] /\ pc' = "setup"
          /\ UNCHANGED <<sync, call, result, executed, mismatch, early>>
      BY <1>4 DEF TestInit
    <2> HIDE DEF d
    <2>3. dev' \in [A -> Registers] /\ \A u \in A : dev'[u] = IF u = w THEN d ELSE dev[u]
      BY <1>1, <2>1, <2>2
    <2>4. ArtixTypeOK'  BY <1>2, <2>2, <2>3, <1>0 DEF ArtixTypeOK, Registers
    <2>5. CallType'  BY <1>1, <2>2 DEF CallType
    <2>6. \A u \in A : CountsTrue(u)'  BY <1>1, <2>1, <2>2, CountsKept
    <2>7. SettingUp'
      <3>1. Told(w, s)'  BY <1>1, <2>1, <2>2, <2>3 DEF Told
      <3>2. w # "A1" /\ Prepared("A1", s) => Prepared("A1", s)'
        BY <1>1, <2>2, <2>3 DEF Prepared, Equipped, Told
      <3> QED  BY <1>0, <1>1, <1>2, <2>2, <3>1, <3>2 DEF SettingUp
    <2>8. Launching' /\ OnTheirOwn' /\ ReadMaster' /\ Returned'
      BY <2>2 DEF Launching, OnTheirOwn, ReadMaster, Returned, AfterRun, AfterCycle, AfterStatus
    <2>9. ReadSlave'  BY <1>0, <1>2, <2>2 DEF ReadSlave
    <2> QED  BY <2>4, <2>5, <2>6, <2>7, <2>8, <2>9 DEF IInv
  <1>5. CASE TestSetup
    <2> DEFINE d == [helper_gvpu_load(dev[w], "TEST_SETUP") EXCEPT !.pins = s]
    <2>1. /\ d \in Registers /\ d.state = "TEST_SETUP" /\ d.pins = s
          /\ d.addr = dev[w].addr /\ d.vecs = dev[w].vecs
      <3>2. dev[w] \in Registers  BY <1>1
      <3> QED  BY <3>2, <1>1 DEF helper_gvpu_load, Registers
    <2>2. /\ dev' = [dev EXCEPT ![w] = d] /\ pc' = "cleanup" /\ pc = "setup"
          /\ UNCHANGED <<sync, call, result, executed, mismatch, early>>
      BY <1>5 DEF TestSetup
    <2> HIDE DEF d
    <2>3. dev' \in [A -> Registers] /\ \A u \in A : dev'[u] = IF u = w THEN d ELSE dev[u]
      BY <1>1, <2>1, <2>2
    <2>4. ArtixTypeOK'  BY <1>2, <2>2, <2>3, <1>0 DEF ArtixTypeOK, Registers
    <2>5. CallType'  BY <1>1, <2>2 DEF CallType
    <2>6. \A u \in A : CountsTrue(u)'  BY <1>1, <2>1, <2>2, CountsKept
    <2>7. SettingUp'
      <3>0. Told(w, s)  BY <1>2, <2>2 DEF SettingUp
      <3>1. Told(w, s)' /\ dev'[w].pins = s  BY <1>1, <2>1, <2>2, <2>3, <3>0 DEF Told
      <3>2. w # "A1" /\ Prepared("A1", s) => Prepared("A1", s)'
        BY <1>1, <2>2, <2>3 DEF Prepared, Equipped, Told
      <3> QED  BY <1>0, <1>1, <1>2, <2>2, <3>1, <3>2 DEF SettingUp
    <2>8. Launching' /\ OnTheirOwn' /\ ReadMaster' /\ Returned'
      BY <2>2 DEF Launching, OnTheirOwn, ReadMaster, Returned, AfterRun, AfterCycle, AfterStatus
    <2>9. ReadSlave'  BY <1>0, <1>2, <2>2 DEF ReadSlave
    <2> QED  BY <2>4, <2>5, <2>6, <2>7, <2>8, <2>9 DEF IInv
  <1>6. CASE TestCleanup
    <2> DEFINE d == Cleaned(dev[w])
    <2>1. /\ d \in Registers /\ d.state = "TEST_CLEANUP" /\ ~d.started
          /\ d.cycle = 0 /\ ~d.failed
          /\ d.addr = dev[w].addr /\ d.vecs = dev[w].vecs /\ d.pins = dev[w].pins
      <3>2. dev[w] \in Registers  BY <1>1
      <3> QED  BY <3>2, <1>1 DEF Cleaned, helper_gvpu_load, Registers
    <2>2. /\ dev' = [dev EXCEPT ![w] = d] /\ pc = "cleanup"
          /\ UNCHANGED <<sync, result, executed, mismatch, early>>
      BY <1>6 DEF TestCleanup
    <2> HIDE DEF d
    <2>3. dev' \in [A -> Registers] /\ \A u \in A : dev'[u] = IF u = w THEN d ELSE dev[u]
      BY <1>1, <2>1, <2>2
    <2>6. \A u \in A : CountsTrue(u)'  BY <1>1, <2>1, <2>2, CountsKept
    <2>4. PICK t \in Stims, z \in A : t = s /\ z = w  BY <1>1
    <2>5. Prepared(z, t)'
      <3>1. Told(z, t) /\ dev[z].pins = t  BY <1>2, <2>2, <2>4 DEF SettingUp
      <3>2. dev'[z] = d  BY <1>1, <2>3, <2>4
      <3> QED  BY <2>1, <2>4, <3>1, <3>2 DEF Prepared, Equipped, Told
    <2>7. w # "A1" /\ Dual(s) => Prepared("A1", t)'
      BY <1>1, <1>3, <2>3, <2>4 DEF Prepared, Equipped, Told
    <2>8. CASE Dual(s) /\ w # Slave
      <3>1. /\ pc' = "init" /\ call' = [call EXCEPT !.unit = Slave]
            /\ call'.stim = t /\ call'.unit = Slave /\ call'.slave_test_failed = call.slave_test_failed
            /\ call'.counter = call.counter
        BY <1>1, <1>6, <2>4, <2>8 DEF TestCleanup
      <3>2. CallType'  BY <1>1, <3>1 DEF CallType
      <3>3. ArtixTypeOK'  BY <1>1, <1>2, <2>2, <2>3, <2>4, <2>8, <3>1, <1>0 DEF ArtixTypeOK, Registers
      <3>4. SettingUp'  BY <1>1, <2>4, <2>5, <2>8, <3>1 DEF SettingUp
      <3>5. Launching' /\ OnTheirOwn' /\ ReadMaster' /\ Returned'
        BY <3>1 DEF Launching, OnTheirOwn, ReadMaster, Returned, AfterRun, AfterCycle, AfterStatus
      <3>6. ReadSlave'  BY <1>0, <1>2, <2>2, <2>4, <3>1 DEF ReadSlave
      <3> QED  BY <2>6, <3>2, <3>3, <3>4, <3>5, <3>6 DEF IInv
    <2>9. CASE ~(Dual(s) /\ w # Slave)
      <3>1. /\ pc' = "sync" /\ call' = [call EXCEPT !.unit = Master(s)]
            /\ call'.stim = t /\ call'.unit = Master(t) /\ call'.slave_test_failed = call.slave_test_failed
            /\ call'.counter = call.counter
        BY <1>1, <1>6, <2>4, <2>9 DEF TestCleanup
      <3>2. CallType'  BY <1>1, <3>1 DEF CallType
      <3>3. ArtixTypeOK'  BY <1>1, <1>2, <2>2, <2>3, <2>4, <2>9, <3>1, <1>0 DEF ArtixTypeOK, Registers
      <3>4. SettingUp' /\ OnTheirOwn' /\ ReadMaster' /\ Returned'
        BY <3>1 DEF SettingUp, OnTheirOwn, ReadMaster, Returned, AfterRun, AfterCycle, AfterStatus
      <3>5. \A u \in Units[t] : Prepared(u, t)'
        <4>1. CASE Dual(t)  BY <1>1, <2>4, <2>5, <2>7, <2>9, <4>1
        <4>2. CASE ~Dual(t)  BY <1>1, <2>4, <2>5, <4>2
        <4> QED  BY <4>1, <4>2
      <3>6. Launching'  BY <3>1, <3>5 DEF Launching
      <3>7. ReadSlave'  BY <1>0, <1>2, <2>2, <2>4, <3>1 DEF ReadSlave
      <3> QED  BY <2>6, <3>2, <3>3, <3>4, <3>6, <3>7 DEF IInv
    <2> QED  BY <2>8, <2>9
  <1> QED  BY <1>4, <1>5, <1>6

(* The line is set.                                                        *)
LEMMA SyncStep ==
    ASSUME IInv, subcore_artix_sync
    PROVE  IInv'
  <1> USE DEF subcore_artix_sync
  <1>1. ArtixTypeOK' /\ CallType'
    BY DEF IInv, ArtixTypeOK, CallType, SyncLine, Dual
  <1>2. \A u \in A : CountsTrue(u)'  BY DEF IInv, CountsTrue
  <1>3. /\ call.unit = Master(call.stim)
        /\ \A u \in Units[call.stim] : Prepared(u, call.stim)
    BY DEF IInv, Launching
  <1>4. Launching'
    BY <1>3 DEF Launching, SyncLine, Dual, Prepared, Equipped, Told
  <1>5. SettingUp' /\ OnTheirOwn' /\ ReadMaster' /\ Returned'
    BY DEF SettingUp, OnTheirOwn, ReadMaster, Returned, AfterRun, AfterCycle, AfterStatus
  <1>6. ReadSlave'  BY DEF IInv, ReadSlave
  <1> QED  BY <1>1, <1>2, <1>4, <1>5, <1>6 DEF IInv

(* A unit is told to run.                                                  *)
LEMMA RunStep ==
    ASSUME IInv, TestRun
    PROVE  IInv'
  <1>0. pc = "run"  BY DEF TestRun
  <1>1. PICK s \in Stims, w \in A : s = call.stim /\ w = call.unit  BY <1>0, CallFacts
  <1>2. /\ w \in Units[s] /\ dev \in [A -> Registers]
        /\ call \in [stim : Stims, unit : A, counter : Nat,
                     master_test_cycle : Nat, slave_test_cycle : Nat,
                     master_test_failed : BOOLEAN, slave_test_failed : BOOLEAN]
        /\ Units[s] \subseteq A /\ Master(s) \in Units[s]
        /\ Dual(s) => Units[s] = A /\ Master(s) = "A1"
        /\ ~Dual(s) => Units[s] = {Master(s)}
        /\ Slave \in A /\ Slave # "A1" /\ A = {"A1", Slave}
    BY <1>0, <1>1, CallFacts
  <1>3. /\ Launching /\ ReadSlave /\ ArtixTypeOK /\ sync = Dual(s)
        /\ executed \in [A -> Nat] /\ mismatch \in [A -> Nat \cup {None}]
    BY <1>0, <1>1 DEF IInv, Launching, ArtixTypeOK
  <1>4. Prepared(w, s)  BY <1>0, <1>1, <1>2, <1>3 DEF Launching
  <1> DEFINE d == helper_gvpu_load(dev[w], "TEST_RUN")
  <1>5. /\ d \in Registers /\ d.state = "TEST_RUN" /\ ~d.started /\ d.cycle = 0 /\ ~d.failed
        /\ d.addr = dev[w].addr /\ d.vecs = dev[w].vecs /\ d.pins = dev[w].pins
    <2>1. dev[w] \in Registers  BY <1>2
    <2> QED  BY <2>1, <1>4 DEF helper_gvpu_load, Registers, Prepared
  <1>6. /\ dev' = [dev EXCEPT ![w] = d]
        /\ executed' = [executed EXCEPT ![w] = 0] /\ mismatch' = [mismatch EXCEPT ![w] = None]
        /\ UNCHANGED <<sync, result, early>>
    BY <1>1 DEF TestRun
  <1> HIDE DEF d
  <1>7. dev' \in [A -> Registers] /\ \A u \in A : dev'[u] = IF u = w THEN d ELSE dev[u]
    BY <1>2, <1>5, <1>6
  <1>8. \A u \in A : CountsTrue(u)'
    <2>1. CountsTrue(w)'
      <3>1. executed'[w] = 0 /\ mismatch'[w] = None /\ dev'[w] = d  BY <1>3, <1>6, <1>7
      <3> QED  BY <3>1, <1>5 DEF CountsTrue
    <2>2. ASSUME NEW u \in A, u # w  PROVE CountsTrue(u)'
      <3>1. executed'[u] = executed[u] /\ mismatch'[u] = mismatch[u] /\ dev'[u] = dev[u]
        BY <1>3, <1>6, <1>7, <2>2
      <3> QED  BY <3>1 DEF IInv, CountsTrue
    <2> QED  BY <2>1, <2>2
  <1>9. executed' \in [A -> Nat] /\ mismatch' \in [A -> Nat \cup {None}]
    BY <1>3, <1>6
  <1>10. Equipped(w, s)' /\ Waiting(w)' /\ dev'[w].cycle = 0 /\ ~dev'[w].failed
    BY <1>4, <1>5, <1>7 DEF Prepared, Equipped, Told, Waiting
  <1>11. CASE Dual(s) /\ w # Slave
    <2>1. /\ pc' = "run" /\ call' = [call EXCEPT !.unit = Slave]
          /\ call'.stim = s /\ call'.unit = Slave /\ call'.slave_test_failed = call.slave_test_failed
          /\ call'.counter = call.counter
      BY <1>1, <1>2, <1>11 DEF TestRun
    <2>2. CallType'  BY <1>2, <2>1 DEF CallType
    <2>3. ArtixTypeOK'  BY <1>0, <1>1, <1>2, <1>3, <1>6, <1>7, <1>9, <1>11, <2>1 DEF ArtixTypeOK, Registers
    <2>4. Launching'
      <3>1. Prepared(Slave, s)
        BY <1>0, <1>1, <1>2, <1>3, <1>11 DEF Launching
      <3>2. Prepared(Slave, s)'  BY <3>1, <1>2, <1>7, <1>11 DEF Prepared, Equipped, Told, Slave
      <3>3. w = "A1"  BY <1>2, <1>11
      <3> QED  BY <1>3, <1>6, <1>10, <1>11, <2>1, <3>2, <3>3 DEF Launching
    <2>5. SettingUp' /\ OnTheirOwn' /\ ReadMaster' /\ Returned'
      BY <2>1 DEF SettingUp, OnTheirOwn, ReadMaster, Returned, AfterRun, AfterCycle, AfterStatus
    <2>6. ReadSlave'  BY <1>0, <1>1, <1>3, <2>1 DEF ReadSlave
    <2> QED  BY <1>8, <2>2, <2>3, <2>4, <2>5, <2>6 DEF IInv
  <1>12. CASE ~(Dual(s) /\ w # Slave)
    <2>1. /\ pc' = "poll" /\ call' = [call EXCEPT !.unit = Master(s)]
          /\ call'.stim = s /\ call'.unit = Master(s) /\ call'.slave_test_failed = call.slave_test_failed
          /\ call'.counter = call.counter
      BY <1>1, <1>2, <1>12 DEF TestRun
    <2>2. CallType'  BY <1>2, <2>1 DEF CallType
    <2>3. ArtixTypeOK'  BY <1>0, <1>1, <1>2, <1>3, <1>6, <1>7, <1>9, <1>12, <2>1 DEF ArtixTypeOK, Registers
    <2>4. total_unrolled_vecs(s) \in Nat  BY CyclesOfStim
    <2>5. ASSUME NEW u \in A, Equipped(u, s)', Waiting(u)', dev'[u].cycle = 0, ~dev'[u].failed
          PROVE  Launched(u, s)'
      BY <2>4, <2>5 DEF Launched, Waiting
    <2>6. CASE Dual(s)
      <3>1. w = Slave  BY <1>12, <2>6
      <3>2. Equipped("A1", s) /\ Waiting("A1") /\ dev["A1"].cycle = 0 /\ ~dev["A1"].failed
        BY <1>0, <1>1, <1>2, <1>3, <2>6, <3>1 DEF Launching
      <3>3. Equipped("A1", s)' /\ Waiting("A1")' /\ dev'["A1"].cycle = 0 /\ ~dev'["A1"].failed
        BY <1>2, <1>7, <3>1, <3>2 DEF Equipped, Told, Waiting
      <3>4. \A u \in A : Waiting(u)' /\ Launched(u, s)'
        BY <1>2, <1>10, <2>5, <3>1, <3>3
      <3> QED  BY <1>0, <1>2, <1>3, <1>6, <1>8, <2>1, <2>2, <2>3, <2>6, <3>4
               DEF IInv, SettingUp, Launching, OnTheirOwn, ReadMaster, ReadSlave, Returned,
                   AfterRun, AfterCycle, AfterStatus
    <2>7. CASE ~Dual(s)
      <3>1. Launched(w, s)' /\ Units[s] = {w}  BY <1>2, <1>10, <2>5, <2>7
      <3>2. OnTheirOwn'  BY <1>3, <1>6, <2>1, <2>7, <3>1 DEF OnTheirOwn
      <3>3. ReadSlave'  BY <1>0, <1>1, <1>3, <2>1 DEF ReadSlave
      <3> QED  BY <1>8, <2>1, <2>2, <2>3, <3>2, <3>3
               DEF IInv, SettingUp, Launching, ReadMaster, Returned,
                   AfterRun, AfterCycle, AfterStatus
    <2> QED  BY <2>6, <2>7
  <1> QED  BY <1>11, <1>12
(* What the host does after the last TEST_RUN leaves the units alone.      *)
LEMMA HostReads ==
    ASSUME IInv, pc \in AfterRun, pc' \in AfterRun,
           UNCHANGED <<dev, sync, executed, mismatch>>,
           call'.stim = call.stim
    PROVE  /\ \A u \in A : CountsTrue(u)'
           /\ SettingUp' /\ Launching' /\ OnTheirOwn'
  <1>1. \A u \in A : CountsTrue(u)'  BY DEF IInv, CountsTrue
  <1>2. SettingUp' /\ Launching'
    BY DEF SettingUp, Launching, AfterRun
  <1>3. PICK s : s = call.stim  OBVIOUS
  <1>4. \A u \in Units[s] : Launched(u, s)'
    BY <1>3 DEF IInv, OnTheirOwn, Launched, Equipped, Told
  <1>5. OnTheirOwn'  BY <1>3, <1>4 DEF IInv, OnTheirOwn, Waiting
  <1> QED  BY <1>1, <1>2, <1>5

(* A turn of the poll loop.                                                *)
LEMMA PollStep ==
    ASSUME IInv, Poll
    PROVE  IInv'
  <1>0. pc = "poll" /\ pc' \in {"poll", "cycle"} /\ UNCHANGED <<dev, sync, result, executed, mismatch, early>>
    BY DEF Poll
  <1>1. /\ call.stim \in Stims /\ call.counter \in 0 .. PollLimit
        /\ call \in [stim : Stims, unit : A, counter : Nat,
                     master_test_cycle : Nat, slave_test_cycle : Nat,
                     master_test_failed : BOOLEAN, slave_test_failed : BOOLEAN]
    BY <1>0, CallFacts DEF IInv, ArtixTypeOK
  <1>2. \/ call' = call
        \/ ~LastPoll(call.counter) /\ call' = [call EXCEPT !.counter = NextCount(@)]
    BY DEF Poll
  <1>3. /\ call'.stim = call.stim /\ call'.unit = call.unit
        /\ call'.slave_test_failed = call.slave_test_failed
        /\ call'.counter \in 0 .. PollLimit
        /\ CallType'
    <2>1. CASE call' = call  BY <1>1, <2>1 DEF CallType
    <2>2. CASE ~LastPoll(call.counter) /\ call' = [call EXCEPT !.counter = NextCount(@)]
      <3>1. call.counter + 1 \in 0 .. PollLimit  BY <1>1, <2>2, ArtixAssumption DEF LastPoll
      <3> QED  BY <1>1, <2>2, <3>1 DEF CallType, NextCount
    <2> QED  BY <1>2, <2>1, <2>2
  <1>4. ArtixTypeOK'  BY <1>0, <1>3 DEF IInv, ArtixTypeOK
  <1>5. pc \in AfterRun /\ pc' \in AfterRun  BY <1>0 DEF AfterRun
  <1>6. (\A u \in A : CountsTrue(u)') /\ SettingUp' /\ Launching' /\ OnTheirOwn'
    BY <1>0, <1>3, <1>5, HostReads
  <1>7. ReadMaster' /\ ReadSlave' /\ Returned'
    BY <1>0, <1>3 DEF IInv, ReadMaster, ReadSlave, Returned, AfterCycle, AfterStatus, AfterRun
  <1> QED  BY <1>3, <1>4, <1>6, <1>7 DEF IInv

(* The counts and the flags are read.                                      *)
LEMMA ReadStep ==
    ASSUME IInv, MasterCycle \/ MasterStatus \/ SlaveStatus \/ SlaveCycle
    PROVE  IInv'
  <1> USE DEF GvpuCycle, AgentFailed
  <1>0. /\ pc \in AfterRun \ {"poll"} /\ pc' \in AfterCycle /\ pc' \in AfterRun \ {"done"}
        /\ UNCHANGED <<dev, sync, result, executed, mismatch>>
    BY DEF MasterCycle, MasterStatus, SlaveStatus, SlaveCycle, AfterRun, AfterCycle
  <1>1. PICK s \in Stims, m \in A : s = call.stim /\ m = Master(s)
    BY <1>0, CallFacts DEF AfterRun
  <1>2. /\ call \in [stim : Stims, unit : A, counter : Nat,
                     master_test_cycle : Nat, slave_test_cycle : Nat,
                     master_test_failed : BOOLEAN, slave_test_failed : BOOLEAN]
        /\ dev \in [A -> Registers] /\ Slave \in A
        /\ m \in Units[s] /\ (Dual(s) => Slave \in Units[s])
    BY <1>0, <1>1, CallFacts DEF AfterRun
  <1>3. dev[m].cycle \in Nat /\ dev[m].failed \in BOOLEAN
        /\ dev[Slave].cycle \in Nat /\ dev[Slave].failed \in BOOLEAN
    BY <1>1, <1>2 DEF Registers
  <1>4. /\ call'.stim = s /\ call'.unit = call.unit /\ call'.counter = call.counter
        /\ call' \in [stim : Stims, unit : A, counter : Nat,
                      master_test_cycle : Nat, slave_test_cycle : Nat,
                      master_test_failed : BOOLEAN, slave_test_failed : BOOLEAN]
    BY <1>1, <1>2, <1>3 DEF MasterCycle, MasterStatus, SlaveStatus, SlaveCycle
  <1>5. CallType'  BY <1>4 DEF CallType
  <1>6. early' \in BOOLEAN
    BY DEF IInv, ArtixTypeOK, MasterCycle, MasterStatus, SlaveStatus, SlaveCycle
  <1>7. ArtixTypeOK'
    BY <1>0, <1>1, <1>4, <1>6 DEF IInv, ArtixTypeOK, AfterRun
  <1>8. (\A u \in A : CountsTrue(u)') /\ SettingUp' /\ Launching' /\ OnTheirOwn'
    BY <1>0, <1>1, <1>4, HostReads
  <1>9. Returned'  BY <1>0 DEF Returned
  <1>10. \A u \in Units[s] : dev[u].state \in {"TEST_RUN", "GVPU_IDLE"}
    BY <1>0, <1>1 DEF IInv, OnTheirOwn, Launched
  <1>11. ReadMaster /\ ReadSlave  BY DEF IInv
  <1>12. CASE MasterCycle
    <2>1. /\ pc \in {"cycle", "solo"} /\ pc' = IF pc = "cycle" THEN "status" ELSE "verdict"
          /\ early' = (early \/ dev[m].state = "TEST_RUN")
          /\ call' = [call EXCEPT !.master_test_cycle = dev[m].cycle]
      BY <1>1, <1>12 DEF MasterCycle
    <2>2. /\ call'.master_test_cycle = dev[m].cycle
          /\ call'.master_test_failed = call.master_test_failed
          /\ call'.slave_test_failed = call.slave_test_failed
      BY <1>2, <2>1
    <2>3. ~early' => ~early /\ dev[m].state = "GVPU_IDLE"
      BY <1>1, <1>2, <1>10, <2>1
    <2>4. ReadMaster'
      BY <1>0, <1>1, <1>3, <1>4, <1>11, <2>1, <2>2, <2>3 DEF ReadMaster, AfterStatus, AfterCycle, AfterRun
    <2>5. ReadSlave'
      BY <1>0, <1>1, <1>4, <1>11, <2>1, <2>2 DEF ReadSlave
    <2> QED  BY <1>5, <1>7, <1>8, <1>9, <2>4, <2>5 DEF IInv
  <1>13. CASE MasterStatus
    <2>1. /\ pc = "status" /\ pc' = IF Dual(s) THEN "slave_status" ELSE "solo"
          /\ early' = early
          /\ call' = [call EXCEPT !.master_test_failed = dev[m].failed]
      BY <1>1, <1>13 DEF MasterStatus
    <2>2. /\ call'.master_test_cycle = call.master_test_cycle
          /\ call'.master_test_failed = dev[m].failed
          /\ call'.slave_test_failed = call.slave_test_failed
      BY <1>2, <2>1
    <2>3. ReadMaster'
      BY <1>0, <1>1, <1>4, <1>11, <2>1, <2>2 DEF ReadMaster, AfterStatus, AfterCycle, AfterRun
    <2>4. ReadSlave'
      BY <1>0, <1>1, <1>4, <1>11, <2>1, <2>2 DEF ReadSlave
    <2> QED  BY <1>5, <1>7, <1>8, <1>9, <2>3, <2>4 DEF IInv
  <1>14. CASE SlaveStatus
    <2>1. /\ pc = "slave_status" /\ pc' = "slave_cycle" /\ early' = early
          /\ call' = [call EXCEPT !.slave_test_failed = dev[Slave].failed]
      BY <1>14 DEF SlaveStatus
    <2>2. /\ call'.master_test_cycle = call.master_test_cycle
          /\ call'.master_test_failed = call.master_test_failed
          /\ call'.slave_test_failed = dev[Slave].failed
      BY <1>2, <2>1
    <2>3. Dual(s)  BY <1>1, <1>11, <2>1 DEF ReadSlave
    <2>4. ReadMaster'
      BY <1>0, <1>1, <1>4, <1>11, <2>1, <2>2 DEF ReadMaster, AfterStatus, AfterCycle, AfterRun
    <2>5. ReadSlave'
      BY <1>0, <1>4, <2>1, <2>2, <2>3 DEF ReadSlave
    <2> QED  BY <1>5, <1>7, <1>8, <1>9, <2>4, <2>5 DEF IInv
  <1>15. CASE SlaveCycle
    <2>1. /\ pc = "slave_cycle" /\ pc' = "verdict"
          /\ early' = (early \/ dev[Slave].state = "TEST_RUN")
          /\ call' = [call EXCEPT !.slave_test_cycle = dev[Slave].cycle]
      BY <1>15 DEF SlaveCycle
    <2>2. /\ call'.master_test_cycle = call.master_test_cycle
          /\ call'.master_test_failed = call.master_test_failed
          /\ call'.slave_test_failed = call.slave_test_failed
          /\ call'.slave_test_cycle = dev[Slave].cycle
      BY <1>2, <2>1
    <2>3. Dual(s)  BY <1>1, <1>11, <2>1 DEF ReadSlave
    <2>4. ~early' => ~early /\ dev[Slave].state = "GVPU_IDLE"
      BY <1>2, <1>10, <2>1, <2>3
    <2>5. ReadMaster'
      BY <1>0, <1>1, <1>4, <1>11, <2>1, <2>2, <2>4 DEF ReadMaster, AfterStatus, AfterCycle, AfterRun
    <2>6. ReadSlave'
      BY <1>0, <1>1, <1>3, <1>4, <1>11, <2>1, <2>2, <2>3, <2>4 DEF ReadSlave
    <2> QED  BY <1>5, <1>7, <1>8, <1>9, <2>5, <2>6 DEF IInv
  <1> QED  BY <1>12, <1>13, <1>14, <1>15

(* The verdict, the return and the end of the process.                     *)
LEMMA EndStep ==
    ASSUME IInv, Verdict \/ Return \/ ProcessDies
    PROVE  IInv'
  <1>1. CASE Verdict
    <2> USE <1>1 DEF Verdict
    <2>1. ArtixTypeOK' /\ CallType'  BY DEF IInv, ArtixTypeOK, CallType
    <2>2. pc \in AfterRun /\ pc' \in AfterRun  BY DEF AfterRun
    <2>3. (\A u \in A : CountsTrue(u)') /\ SettingUp' /\ Launching' /\ OnTheirOwn'
      BY <2>2, HostReads
    <2>4. ReadMaster' /\ ReadSlave'
      BY DEF IInv, ReadMaster, ReadSlave, AfterStatus, AfterCycle, AfterRun
    <2>5. Returned'  BY DEF Returned, Failed, TestCycle
    <2> QED  BY <2>1, <2>3, <2>4, <2>5 DEF IInv
  <1>2. CASE Return \/ ProcessDies
    <2>1. pc' = "idle" /\ UNCHANGED <<dev, sync, result, executed, mismatch, early>>
      BY <1>2 DEF Return, ProcessDies
    <2>2. ArtixTypeOK' /\ CallType'  BY <2>1 DEF IInv, ArtixTypeOK, CallType
    <2>3. \A u \in A : CountsTrue(u)'  BY <2>1 DEF IInv, CountsTrue
    <2>4. SettingUp' /\ Launching' /\ OnTheirOwn' /\ ReadMaster' /\ ReadSlave' /\ Returned'
      BY <2>1 DEF SettingUp, Launching, OnTheirOwn, ReadMaster, ReadSlave, Returned,
                  AfterRun, AfterCycle, AfterStatus
    <2> QED  BY <2>2, <2>3, <2>4 DEF IInv
  <1> QED  BY <1>1, <1>2
(* A step that changes nothing.                                            *)
LEMMA StutterStep ==
    ASSUME IInv, UNCHANGED vars
    PROVE  IInv'
  BY DEF vars, IInv, ArtixTypeOK, CallType, CountsTrue, SettingUp, Launching, OnTheirOwn,
         ReadMaster, ReadSlave, Returned, Prepared, Launched, Equipped, Told, Waiting,
         Failed, TestCycle

(* The invariant holds of the units as they are powered up.                *)
LEMMA InitInv == Init => IInv
  <1> SUFFICES ASSUME Init PROVE IInv  OBVIOUS
  <1> USE DEF Init
  <1>1. ArtixTypeOK  BY DEF ArtixTypeOK, A, NoStim, None
  <1>2. CallType  BY DEF CallType
  <1>3. \A u \in A : CountsTrue(u)  BY DEF CountsTrue
  <1>4. SettingUp /\ Launching /\ OnTheirOwn /\ ReadMaster /\ ReadSlave /\ Returned
    BY DEF SettingUp, Launching, OnTheirOwn, ReadMaster, ReadSlave, Returned,
           AfterRun, AfterCycle, AfterStatus
  <1> QED  BY <1>1, <1>2, <1>3, <1>4 DEF IInv

(* Every step of the host and of the units keeps it.                       *)
LEMMA NextInv == IInv /\ [Next]_vars => IInv'
  <1> SUFFICES ASSUME IInv, [Next]_vars  PROVE IInv'  OBVIOUS
  <1>1. ASSUME NEW s \in Stims, artix_run_stim(s)  PROVE IInv'  BY <1>1, CallStep
  <1>2. CASE TestInit \/ TestSetup \/ TestCleanup  BY <1>2, SetupStep
  <1>3. CASE subcore_artix_sync  BY <1>3, SyncStep
  <1>4. CASE TestRun  BY <1>4, RunStep
  <1>5. CASE Poll  BY <1>5, PollStep
  <1>6. CASE MasterCycle \/ MasterStatus \/ SlaveStatus \/ SlaveCycle  BY <1>6, ReadStep
  <1>7. CASE Verdict \/ Return \/ ProcessDies  BY <1>7, EndStep
  <1>8. CASE UnitMoves  BY <1>8, UnitStep
  <1>9. CASE UNCHANGED vars  BY <1>9, StutterStep
  <1> QED  BY <1>1, <1>2, <1>3, <1>4, <1>5, <1>6, <1>7, <1>8, <1>9 DEF Next, HostStep, UnitMoves

-----------------------------------------------------------------------------
(* The theorems                                                            *)

(* The invariant holds in every state of every behaviour, whatever the     *)
(* stims, their repeats and padding and the limit of the polls are.        *)
THEOREM Invariance == Spec => []IInv
  <1>1. Init => IInv  BY InitInv
  <1>2. IInv /\ [Next]_vars => IInv'  BY NextInv
  <1> QED  BY <1>1, <1>2, PTL DEF Spec

(* Registers, program counter and histories have their types, and the      *)
(* polls stay below their limit.                                           *)
THEOREM TypeCorrect == Spec => []ArtixTypeOK
  <1>1. IInv => ArtixTypeOK  BY DEF IInv
  <1> QED  BY <1>1, Invariance, PTL

(* A pass that artix_run_stim returns is the pass of a test that happened: *)
(* all its cycles, on all its units, from its address, without a mismatch. *)
THEOREM PassesAreReal == Spec => []PassIsReal
  <1>1. IInv => PassIsReal
    <2> SUFFICES ASSUME IInv, pc = "done", ~result.failed, NEW u \in Units[call.stim]
                 PROVE  /\ mismatch[u] = None /\ ~dev[u].failed
                        /\ executed[u] = total_unrolled_vecs(call.stim)
                        /\ dev[u].addr = Addr[call.stim][u] /\ dev[u].pins = call.stim
      BY DEF PassIsReal
    <2> DEFINE s == call.stim
    <2>1. /\ s \in Stims /\ u \in A /\ dev[u] \in Registers
          /\ call.master_test_cycle \in Nat /\ call.slave_test_cycle \in Nat
          /\ u = Master(s) \/ (Dual(s) /\ u = Slave)
      BY CallFacts
    <2>2. total_unrolled_vecs(s) \in Nat  BY <2>1, CyclesOfStim
    <2>3. ~Failed(call)  BY DEF IInv, Returned
    <2>4. /\ Launched(u, s)
          /\ u = Master(s) => total_unrolled_vecs(s) <= dev[u].cycle
          /\ Dual(s) /\ u = Slave => total_unrolled_vecs(s) <= dev[u].cycle
      BY <2>3 DEF IInv, OnTheirOwn, ReadMaster, ReadSlave, Failed, AfterRun, AfterCycle, AfterStatus
    <2>5. dev[u].cycle = total_unrolled_vecs(s) /\ ~dev[u].failed
      BY <2>1, <2>2, <2>4 DEF Launched, Registers
    <2>6. CountsTrue(u) /\ dev[u].state \in {"TEST_RUN", "GVPU_IDLE"} /\ Equipped(u, s)
      BY <2>1, <2>4 DEF IInv, Launched
    <2> QED  BY <2>5, <2>6 DEF CountsTrue, Equipped, Told
  <1> QED  BY <1>1, Invariance, PTL

(* The least element of a set of numbers.                                  *)
LEMMA MinIs ==
    ASSUME NEW S \in SUBSET Int, NEW x \in S, \A y \in S : x <= y
    PROVE  Min(S) = x
  <1>1. \E z \in S : \A y \in S : z <= y  OBVIOUS
  <1>2. Min(S) \in S /\ \A y \in S : Min(S) <= y  BY <1>1 DEF Min
  <1>3. Min(S) <= x /\ x <= Min(S)  BY <1>2
  <1>4. Min(S) \in Int /\ x \in Int  BY <1>2
  <1> QED  BY <1>3, <1>4

(* One count, or the smaller of two, as artix_run_stim compares them.      *)
LEMMA MinOfTwo ==
    ASSUME NEW a \in Nat, NEW b \in Nat
    PROVE  Min({a}) = a /\ Min({a, b}) = IF b < a THEN b ELSE a
  <1>0. {a} \in SUBSET Int /\ {a, b} \in SUBSET Int /\ a <= a /\ b <= b  OBVIOUS
  <1>1. Min({a}) = a  BY <1>0, MinIs
  <1>2. CASE b < a
    <2>1. \A y \in {a, b} : b <= y  BY <1>2, <1>0
    <2>2. Min({a, b}) = b  BY <1>0, <2>1, MinIs
    <2> QED  BY <1>1, <1>2, <2>2
  <1>3. CASE ~(b < a)
    <2>1. \A y \in {a, b} : a <= y  BY <1>3, <1>0
    <2>2. Min({a, b}) = a  BY <1>0, <2>1, MinIs
    <2> QED  BY <1>1, <1>3, <2>2
  <1> QED  BY <1>2, <1>3

(* A failure that artix_run_stim returns is one of this run: unless a      *)
(* count was read too early, a unit failed since the call, and the cycle   *)
(* returned is the first one that failed in either unit.                   *)
THEOREM FailuresAreReal == Spec => []FailIsReal
  <1>1. IInv => FailIsReal
    <2> SUFFICES ASSUME IInv, pc = "done", result.failed, ~early
                 PROVE  LET bad == {u \in Units[call.stim] : mismatch[u] # None}
                        IN  bad # {} /\ result.test_cycle = Min({mismatch[u] : u \in bad})
      BY DEF FailIsReal
    <2> DEFINE s == call.stim
               m == Master(s)
               total == total_unrolled_vecs(s)
               bad == {u \in Units[s] : mismatch[u] # None}
               first == {mismatch[u] : u \in bad}
    <2>1. /\ s \in Stims /\ m \in Units[s] /\ Units[s] \subseteq A /\ dev \in [A -> Registers]
          /\ Dual(s) => Units[s] = {m, Slave} /\ m # Slave
          /\ ~Dual(s) => Units[s] = {m}
      BY CallFacts
    <2>2. total \in Nat  BY <2>1, CyclesOfStim
    <2>3. Failed(call) /\ result.test_cycle = TestCycle(call)  BY DEF IInv, Returned
    <2>4. /\ dev[m].state = "GVPU_IDLE" /\ call.master_test_cycle = dev[m].cycle
          /\ call.master_test_failed = dev[m].failed
      BY DEF IInv, ReadMaster, AfterRun, AfterCycle, AfterStatus
    <2>5. /\ Dual(s) => /\ dev[Slave].state = "GVPU_IDLE" /\ call.slave_test_cycle = dev[Slave].cycle
                        /\ call.slave_test_failed => dev[Slave].failed
          /\ ~Dual(s) => ~call.slave_test_failed
      BY DEF IInv, ReadSlave
    <2>6. \A u \in Units[s] :
             /\ Launched(u, s) /\ dev[u].state = "GVPU_IDLE"
             /\ dev[u].cycle \in Nat
             /\ mismatch[u] = IF dev[u].failed THEN dev[u].cycle ELSE None
      <3>1. \A u \in Units[s] : Launched(u, s)  BY DEF IInv, OnTheirOwn, AfterRun
      <3>2. \A u \in Units[s] : dev[u].state = "GVPU_IDLE"  BY <2>1, <2>4, <2>5
      <3>3. \A u \in Units[s] : dev[u].cycle \in Nat  BY <2>1 DEF Registers
      <3> QED  BY <2>1, <3>1, <3>2, <3>3 DEF IInv, CountsTrue
    <2>7. \A u \in Units[s] : /\ u \in bad <=> dev[u].failed
                              /\ dev[u].failed => mismatch[u] = dev[u].cycle /\ dev[u].cycle < total
      BY <2>6 DEF None, Launched
    <2>8. CASE ~Dual(s)
      <3>1. dev[m].failed
        BY <2>1, <2>3, <2>4, <2>5, <2>6, <2>8 DEF Failed, Launched
      <3>2. bad = {m} /\ first = {dev[m].cycle}  BY <2>1, <2>7, <2>8, <3>1
      <3>3. Min({dev[m].cycle}) = dev[m].cycle  BY <2>1, <2>6, MinIs
      <3> QED  BY <2>3, <2>4, <2>8, <3>2, <3>3 DEF TestCycle
    <2>9. CASE Dual(s)
      <3> DEFINE a == dev[m].cycle
                 b == dev[Slave].cycle
      <3>0. a \in Nat /\ b \in Nat /\ m # Slave /\ Units[s] = {m, Slave}  BY <2>1, <2>6, <2>9
      <3>1. result.test_cycle = IF b < a THEN b ELSE a
        BY <2>3, <2>4, <2>5, <2>9 DEF TestCycle
      <3>2. dev[m].state = "GVPU_IDLE" /\ dev[Slave].state = "GVPU_IDLE"  BY <2>4, <2>5, <2>9
      <3>3. A \ {m} = {Slave} /\ A \ {Slave} = {m}
        BY <2>1, <2>9 DEF Dual
      <3>4. /\ dev[m].failed \/ a = total \/ (dev[Slave].failed /\ a >= b)
            /\ dev[Slave].failed \/ b = total \/ (dev[m].failed /\ b >= a)
        <4>1. Launched(m, s) /\ Launched(Slave, s)  BY <2>6, <3>0
        <4> QED  BY <4>1, <3>2, <3>3 DEF Launched
      <3>5. dev[m].failed \/ dev[Slave].failed
        BY <2>3, <2>4, <2>5, <2>9, <3>4 DEF Failed
      <3>6. CASE dev[m].failed /\ dev[Slave].failed
        <4>1. bad = {m, Slave} /\ first = {a, b}  BY <2>7, <3>0, <3>6
        <4>2. Min({a, b}) = IF b < a THEN b ELSE a
          BY <3>0, MinOfTwo
        <4> QED  BY <3>1, <4>1, <4>2
      <3>7. CASE dev[m].failed /\ ~dev[Slave].failed
        <4>1. bad = {m} /\ first = {a}  BY <2>7, <3>0, <3>7
        <4>2. Min({a}) = a  BY <3>0, MinOfTwo
        <4>3. a < total  BY <2>7, <3>0, <3>7
        <4>4. ~(b < a)  BY <2>2, <3>0, <3>4, <3>7, <4>3
        <4> QED  BY <3>1, <4>1, <4>2, <4>4
      <3>8. CASE ~dev[m].failed /\ dev[Slave].failed
        <4>1. bad = {Slave} /\ first = {b}  BY <2>7, <3>0, <3>8
        <4>2. Min({b}) = b  BY <3>0, MinOfTwo
        <4>3. b < total  BY <2>7, <3>0, <3>8
        <4>4. b <= a  BY <2>2, <3>0, <3>4, <3>8, <4>3
        <4>5. (IF b < a THEN b ELSE a) = b  BY <3>0, <4>4
        <4> QED  BY <3>1, <4>1, <4>2, <4>5
      <3> QED  BY <3>5, <3>6, <3>7, <3>8
    <2> QED  BY <2>8, <2>9
  <1> QED  BY <1>1, Invariance, PTL

(* In dual mode no unit starts before both were told to run.               *)
THEOREM NoneStartsAlone == Spec => []StartsTogether
  <1>1. IInv => StartsTogether
    <2> SUFFICES ASSUME IInv, pc = "run", Dual(call.stim), NEW u \in A
                 PROVE  ~Running(u)
      BY DEF StartsTogether
    <2>1. Units[call.stim] = A /\ A = {"A1", Slave}  BY CallFacts
    <2> QED  BY <2>1 DEF IInv, Launching, Prepared, Waiting, Running
  <1> QED  BY <1>1, Invariance, PTL

(* While the host polls, a unit that waits is not kept waiting by the line *)
(* of an earlier run or by a unit that will not come.                      *)
THEOREM NoneHeldBack == Spec => []NothingHeldBack
  <1>1. IInv => NothingHeldBack
    <2> SUFFICES ASSUME IInv, pc = "poll", NEW u \in Units[call.stim], Waiting(u), sync
                 PROVE  \A v \in A : Waiting(v)
      BY DEF NothingHeldBack
    <2>1. u \in A  BY CallFacts
    <2> QED  BY <2>1 DEF IInv, OnTheirOwn, AfterRun, Waiting
  <1> QED  BY <1>1, Invariance, PTL

================================================================================
