------------------------------ MODULE BoardView ------------------------------
(***************************************************************************)
(* For the proofs about BoardMem: the board as the host may picture it     *)
(* while it issues the commands of a call, one unit at a time.             *)
(*                                                                         *)
(* A view is what the host knows of the board between two commands: how    *)
(* far subcore may be, the states of agent, gvpu and memcore of the unit   *)
(* addressed (the other rests), the status read last, the buffer and the   *)
(* memory.  At(d) relates a view to the state; StepOf says what a command  *)
(* makes of a view and when it may be issued; a Walk is a sequence of      *)
(* commands every one of which may be issued.  Walks compose as the        *)
(* helpers do, so that what a helper needs and leaves is stated once.      *)
(***************************************************************************)
EXTENDS BoardMem

-----------------------------------------------------------------------------
(* Views                                                                   *)

SC(s, b)             == [st |-> s, bu |-> b]
AG(s, l)             == [st |-> s, ld |-> l]
GV(s, l)             == [st |-> s, ld |-> l]
MC(s, l, a, n, r)    == [st |-> s, ld |-> l, addr |-> a, left |-> n, rd |-> r]
ST(g, m)             == [gvpu |-> g, memcore |-> m]
HO(a, b, p, m, r, f) == [alloc |-> a, buf |-> b, prep |-> p, mem |-> m, read |-> r, free |-> f]
V(u, sc, ag, gv, mc, st, h) ==
    [unit |-> u, sc |-> sc, ag |-> ag, gv |-> gv, mc |-> mc, st |-> st, h |-> h]

WithSC(d, s) == V(d.unit, SC(s, d.sc.bu), d.ag, d.gv, d.mc, d.st, d.h)
WithH(d, h)  == V(d.unit, d.sc, d.ag, d.gv, d.mc, d.st, h)

(* A loaded state, and an address or a number of bursts, not known.        *)
Whatever == "whatever"
Unknown  == -1

(* The view behind a command that is never issued: no state is at it.      *)
Stuck == V("a1", SC("stuck", 0), AG("", ""), GV("", ""), MC({}, "", 0, 0, FALSE), ST("", {}),
           HO(0, 0, NULL, <<>>, <<>>, FALSE))

(* Subcore is idle or about to be; "down" adds that the unit has not been  *)
(* started.  Any other name is the state subcore is running.               *)
Loose == {"quiet", "idle", "down", "down_idle"}

Resting(d) == /\ d.ag.st = "IDLE" /\ d.gv.st = "IDLE" /\ d.mc.st = {"IDLE"} /\ d.mc.rd = FALSE

-----------------------------------------------------------------------------
(* What commands make of a view                                            *)

RanMemcore(mc) ==
    MC(IF mc.ld = "MEMCORE_READ_BURST" /\ mc.left * BURST <= FIFO
       THEN {"IDLE", "MEMCORE_READ_BURST"} ELSE {mc.ld},
       mc.ld, mc.addr, mc.left, IF mc.ld = "MEMCORE_READ_BURST" THEN TRUE ELSE FALSE)

(* CTRL_RUN *)
Ran(d) ==
    V(d.unit, SC("idle", d.sc.bu),
      IF d.ag.ld = "GVPU_RUN" THEN d.ag ELSE AG(d.ag.ld, d.ag.ld),
      IF d.ag.ld = "GVPU_RUN" /\ d.gv.ld # "MEM_RUN"
      THEN GV(IF d.gv.ld = "TEST_CLEANUP" THEN "IDLE" ELSE d.gv.ld, d.gv.ld) ELSE d.gv,
      IF d.ag.ld = "GVPU_RUN" /\ d.gv.ld = "MEM_RUN" THEN RanMemcore(d.mc) ELSE d.mc,
      d.st, d.h)

MayRun(d) ==
    /\ d.ag.ld # Whatever
    /\ d.ag.ld = "GVPU_RUN" => d.gv.ld # Whatever
    /\ d.ag.ld = "GVPU_RUN" /\ d.gv.ld = "MEM_RUN" => d.mc.ld # Whatever
    /\ d.ag.ld = "GVPU_RUN" /\ d.gv.ld = "MEM_RUN" /\ d.mc.ld = "MEMCORE_READ_BURST" =>
           d.mc.left # Unknown

StepIdle(d, e) ==
    \/ d.sc.st \in {"quiet", "idle"} /\ e = WithSC(d, "idle")
    \/ d.sc.st = "down" /\ e = WithSC(d, "down_idle")
    \/ d.sc.st = "CTRL_RUN" /\ e = Ran(d)
    \/ d.sc.st = "DMA_WRITE" /\ e = Stuck

StepLoad(d, c, e) ==
    /\ d.sc.st = (IF c.state = "AGENT_STARTUP" THEN "down_idle" ELSE "idle")
    /\ c.unit = (IF c.state = "GPIO_DNA" THEN NULL ELSE d.unit)
    /\ c.state \in SubcoreStates
    /\ c.state = "CTRL_RUN" => MayRun(d)
    /\ e = WithSC(d, c.state)

StepStartup(d, c, e) ==
    \/ d.unit = c.unit /\ d.sc.st \in {"quiet", "idle"} /\ e = WithSC(d, "quiet")
    \/ d.unit = c.unit /\ d.sc.st = "DMA_WRITE" /\ e = d
    \/ /\ d.unit # c.unit /\ c.unit \in Units /\ d.sc.st \in {"quiet", "idle"} /\ Resting(d)
       /\ e = V(c.unit, SC("quiet", d.sc.bu), AG("IDLE", Whatever), GV("IDLE", Whatever),
                MC({"IDLE"}, Whatever, Unknown, Unknown, FALSE), d.st, d.h)

StepControl(d, p, e) ==
    LET sc == SC("quiet", d.sc.bu)
    IN  \/ /\ d.ag.st = "IDLE" /\ p.data \in AgentStates
           /\ e = V(d.unit, sc, AG("IDLE", p.data), d.gv, d.mc, d.st, d.h)
        \/ /\ d.ag.st = "GVPU_LOAD" /\ d.gv.st = "MEM_LOAD" /\ p.data \in MemcoreStates
           /\ e = V(d.unit, sc, AG("IDLE", d.ag.ld), GV("IDLE", d.gv.ld),
                    MC(d.mc.st, p.data, d.mc.addr, d.mc.left, d.mc.rd), d.st, d.h)
        \/ /\ d.ag.st = "GVPU_LOAD" /\ d.gv.st = "TEST_INIT"
           /\ e = V(d.unit, sc, AG("IDLE", d.ag.ld), GV("IDLE", d.gv.ld), d.mc, d.st, d.h)
        \/ /\ d.ag.st = "GVPU_LOAD" /\ d.gv.st \notin {"MEM_LOAD", "TEST_INIT"}
           /\ p.data \in GvpuStates
           /\ e = V(d.unit, sc, AG("IDLE", d.ag.ld), GV(d.gv.st, p.data), d.mc, d.st, d.h)
        \/ /\ d.ag.st = "BURST_LOAD" /\ d.gv.st = "MEM_BURST"
           /\ d.mc.st = {"MEMCORE_SETUP_BURST"} /\ p.data \in Nat /\ p.addr \in 0 .. MEM
           /\ e = V(d.unit, sc, AG("IDLE", d.ag.ld), GV("IDLE", d.gv.ld),
                    MC({"IDLE"}, d.mc.ld, p.addr, p.data, d.mc.rd), d.st, d.h)
        \/ d.ag.st = "GVPU_STATUS" /\ e = WithSC(d, "quiet")

StepWrite(d, p, e) ==
    \/ d.sc.st = "CTRL_WRITE" /\ StepControl(d, p, e)
    \/ /\ d.sc.st = "SETUP_BURST" /\ p.data \in Nat
       /\ e = V(d.unit, SC("quiet", p.data), d.ag, d.gv, d.mc, d.st, d.h)
    \/ /\ d.sc.st = "GPIO_DNA"
       /\ e = IF p.data = "GET_DNA" THEN d ELSE WithSC(d, "quiet")

StepRead(d, e) ==
    \/ /\ d.sc.st = "CTRL_READ" /\ d.ag.st \in {"STATUS", "GVPU_STATUS"}
       /\ e = V(d.unit, SC("quiet", d.sc.bu), AG("IDLE", d.ag.ld), d.gv, d.mc,
                ST(d.gv.st, d.mc.st), d.h)
    \/ d.sc.st \in {"AGENT_STARTUP", "GPIO_DNA"} /\ e = WithSC(d, "quiet")

StepAlloc(d, c, e) ==
    /\ d.h.prep = NULL
    /\ \/ /\ c.op = "alloc" /\ c.size \in Nat
          /\ e = WithH(d, HO(d.h.alloc + c.size, d.h.alloc, NULL, d.h.mem, d.h.read, d.h.free))
       \/ /\ c.op = "alloc_reset"
          /\ e = WithH(d, HO(0, d.h.buf, NULL, d.h.mem, d.h.read, d.h.free))

StepPrep(d, c, e) ==
    /\ c \in Transfers
    /\ d.h.free \/ d.h.buf + c.size <= DMA_SIZE
    /\ e = WithH(d, HO(d.h.alloc, d.h.buf, c, d.h.mem, d.h.read, d.h.free))

NoPrep(h, m, r) == HO(h.alloc, h.buf, NULL, m, r, h.free)

Put(m, u, a, data) ==
    [m EXCEPT ![u] = [w \in DOMAIN @ |->
        IF w \in a .. a + Len(data) - 1 THEN data[w - a + 1] ELSE @[w]]]
Got(r, m, u, a, size, to) ==
    [i \in DOMAIN r |-> IF i \in to .. to + size - 1 THEN m[u][a + i - to] ELSE r[i]]

StepConfig(d, e) ==
    /\ d.sc.st = "CONFIG_SETUP" /\ d.h.prep.dir = "tx"
    /\ e = V(d.unit, SC("quiet", d.sc.bu), AG("IDLE", "IDLE"), GV("IDLE", d.gv.ld),
             MC({"IDLE"}, d.mc.ld, d.mc.addr, d.mc.left, d.mc.rd), d.st,
             NoPrep(d.h, d.h.mem, d.h.read))

(* The burst of artix_setup_stim, whole.                                   *)
StepSetup(d, e) ==
    /\ d.sc.st = "DMA_WRITE" /\ d.h.prep.dir = "tx"
    /\ d.ag.st = "GVPU_WRITE" /\ d.gv.st = "TEST_SETUP"
    /\ d.sc.bu = Len(d.h.prep.data) \div BURST
    /\ e = V(d.unit, SC("quiet", 0), AG("IDLE", d.ag.ld), GV("IDLE", d.gv.ld), d.mc, d.st,
             NoPrep(d.h, d.h.mem, d.h.read))

(* The next words of artix_mem_write.                                      *)
StepSend(d, e) ==
    LET data == d.h.prep.data
        n    == Len(data) \div BURST
        last == n = d.sc.bu
    IN  /\ d.sc.st = "DMA_WRITE" /\ d.h.prep.dir = "tx"
        /\ d.ag.st = "GVPU_WRITE" /\ d.gv.st = "MEM_WRITE"
        /\ d.mc.st = {"MEMCORE_WRITE_BURST"}
        /\ d.sc.bu \in Nat /\ n <= d.sc.bu /\ d.mc.left = d.sc.bu
        /\ d.mc.addr \in 0 .. MEM /\ d.mc.addr + Len(data) <= MEM
        /\ e = V(d.unit, SC(IF last THEN "quiet" ELSE "DMA_WRITE", d.sc.bu - n),
                 AG(IF last THEN "IDLE" ELSE "GVPU_WRITE", d.ag.ld),
                 GV(IF last THEN "IDLE" ELSE "MEM_WRITE", d.gv.ld),
                 MC(IF last THEN {"IDLE"} ELSE {"MEMCORE_WRITE_BURST"}, d.mc.ld,
                    d.mc.addr + Len(data), d.mc.left - n, d.mc.rd),
                 d.st, NoPrep(d.h, Put(d.h.mem, d.unit, d.mc.addr, data), d.h.read))

(* The burst of the fail pins.                                             *)
StepPins(d, e) ==
    /\ d.sc.st = "DMA_READ" /\ d.h.prep.dir = "rx"
    /\ d.ag.st = "GVPU_READ" /\ d.gv.st = "TEST_FAIL_PINS"
    /\ d.sc.bu \in Nat /\ d.sc.bu * BURST >= d.h.prep.size
    /\ e = V(d.unit, SC("quiet", 0), AG("IDLE", d.ag.ld), GV("IDLE", d.gv.ld), d.mc, d.st,
             NoPrep(d.h, d.h.mem, d.h.read))

(* The next bursts of artix_mem_read; too few for the buffer run into the  *)
(* time limit.                                                             *)
StepFetch(d, e) ==
    LET n    == d.sc.bu
        last == d.mc.left = n
        size == d.h.prep.size
    IN  /\ d.sc.st = "DMA_READ" /\ d.h.prep.dir = "rx"
        /\ d.ag.st = "GVPU_READ" /\ d.gv.st = "MEM_READ" /\ d.mc.rd = TRUE
        /\ n \in Nat /\ d.mc.left \in Nat /\ n <= d.mc.left
        /\ d.mc.addr \in 0 .. MEM /\ d.mc.addr + n * BURST <= MEM
        /\ \/ n * BURST < size /\ e = Stuck
           \/ /\ n * BURST >= size
              /\ e = V(d.unit, SC("quiet", 0), AG(IF last THEN "IDLE" ELSE "GVPU_READ", d.ag.ld),
                       GV(IF last THEN "IDLE" ELSE "MEM_READ", d.gv.ld),
                       MC(IF last THEN {"IDLE"} ELSE d.mc.st, d.mc.ld,
                          d.mc.addr + n * BURST, d.mc.left - n, IF last THEN FALSE ELSE TRUE), d.st,
                       NoPrep(d.h, d.h.mem,
                              Got(d.h.read, d.h.mem, d.unit, d.mc.addr, size, d.h.prep.to)))

StepStart(d, e) ==
    /\ d.h.prep \in Transfers
    /\ StepConfig(d, e) \/ StepSetup(d, e) \/ StepSend(d, e) \/ StepPins(d, e) \/ StepFetch(d, e)

(* The command c may be issued at view d, and leaves view e.               *)
StepOf(d, c, e) ==
    \/ d = Stuck /\ e = Stuck
    \/ c.op = "idle" /\ StepIdle(d, e)
    \/ c.op = "load" /\ StepLoad(d, c, e)
    \/ c.op = "startup" /\ StepStartup(d, c, e)
    \/ c.op = "write" /\ StepWrite(d, c.packet, e)
    \/ c.op = "read" /\ StepRead(d, e)
    \/ c.op = "check_gvpu" /\ d.st.gvpu = c.state /\ e = d
    \/ c.op = "check_memcore" /\ d.st.memcore = {c.state} /\ e = d
    \/ c.op = "check_init" /\ e = d
    \/ StepAlloc(d, c, e)
    \/ c.op = "prep" /\ StepPrep(d, c, e)
    \/ c.op = "start" /\ StepStart(d, e)

IsSeq(c) == \E S : c \in Seq(S)

(* The commands c may be issued one after the other, from view d to e.     *)
Walk(d, c, e) ==
    /\ IsSeq(c)
    /\ \E ds : /\ ds[0] = d /\ ds[Len(c)] = e
               /\ \A i \in 1 .. Len(c) : StepOf(ds[i - 1], c[i], ds[i])

-----------------------------------------------------------------------------
(* Views and states                                                        *)

UnitAs(d) ==
    /\ agent[d.unit].state = d.ag.st
    /\ d.ag.ld # Whatever => agent[d.unit].loaded = d.ag.ld
    /\ gvpu[d.unit].state = d.gv.st
    /\ d.gv.ld # Whatever => gvpu[d.unit].loaded = d.gv.ld
    /\ memcore[d.unit].state \in d.mc.st
    /\ d.mc.ld # Whatever => memcore[d.unit].loaded = d.mc.ld
    /\ d.mc.addr # Unknown => memcore[d.unit].addr = d.mc.addr
    /\ d.mc.left # Unknown => memcore[d.unit].left = d.mc.left
    /\ memcore[d.unit].reading = d.mc.rd

UnitRests(u) == /\ agent[u].state = "IDLE" /\ gvpu[u].state = "IDLE"
                /\ memcore[u].state = "IDLE" /\ memcore[u].reading = FALSE

SubcoreAs(d) ==
    /\ d.sc.st \in {"quiet", "down"} => subcore.phase \in {"idle", "finishing"}
    /\ d.sc.st \in {"idle", "down_idle"} => subcore.phase = "idle"
    /\ d.sc.st \in {"down", "down_idle"} => agent[d.unit].started = FALSE
    /\ d.sc.st \notin Loose =>
           /\ subcore.phase = "running" /\ subcore.state = d.sc.st
           /\ d.sc.st # "GPIO_DNA" => subcore.unit = d.unit
    /\ d.sc.st = "CTRL_RUN" => MayRun(d)

HostAs(d) ==
    /\ prepared = d.h.prep /\ alloc_offset = d.h.alloc /\ call.buf = d.h.buf
    /\ mem = d.h.mem /\ read_data = d.h.read
    /\ d.h.free <=> (call.op = "config" /\ call.start # 0)

StatusAs(d) == status.gvpu = d.st.gvpu /\ status.memcore \in d.st.memcore

(* The state is one the view allows; a unit told to run by CTRL_RUN may    *)
(* have done so.                                                           *)
At(d) ==
    /\ d.sc.st # "stuck" /\ d.unit \in Units
    /\ \A u \in Units : u # d.unit => UnitRests(u)
    /\ HostAs(d) /\ StatusAs(d)
    /\ subcore.bursts = d.sc.bu
    /\ \/ SubcoreAs(d) /\ UnitAs(d)
       \/ d.sc.st = "CTRL_RUN" /\ subcore.phase = "idle" /\ UnitAs(Ran(d))

=============================================================================
