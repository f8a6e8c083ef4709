-------------------------- MODULE BoardMem_proofs --------------------------
(***************************************************************************)
(* Theorems about BoardMem: for every size of burst, DMA map, FIFO and     *)
(* memory and all addresses and sizes, no command is refused, no check     *)
(* ends the process, a transfer that returns has moved its words and every *)
(* buffer lies in the DMA map.                                             *)
(*                                                                         *)
(* The inductive invariant says that the commands still to be issued are a *)
(* walk from a view the state is at to the end of the call (BoardView,     *)
(* BoardWalks).  What has to be shown of a step is then that the command   *)
(* does to the board what it does to the view.                             *)
(***************************************************************************)
EXTENDS BoardWalks, TLAPS

(* The memory a call that returns leaves.                                  *)
Wanted ==
    [u \in Units |-> [w \in 0 .. MEM - 1 |->
        IF call.op = "write" /\ u = call.unit /\ w \in Region(call.size)
        THEN IF w < call.addr + call.size THEN Word(calls, w - call.addr) ELSE ZERO
        ELSE call.before[u][w]]]

(* A view at which the call has done what it is for.                       *)
Reached(e) ==
    \E r : /\ Done(e, Wanted, r)
           /\ call.op = "read" => r = ReadOf(Wanted, call.unit, call.addr, call.size)

(* The commands to issue lead from the state there is to such a view.      *)
Going == \E d, e : At(d) /\ Walk(d, todo, e) /\ Reached(e)

(* Between two calls the board rests.                                      *)
AtRest ==
    /\ todo = <<>> /\ fault = "none" /\ prepared = NULL
    /\ subcore.phase \in {"idle", "finishing"}
    /\ \A u \in Units : UnitRests(u)

BoardInv ==
    /\ BoardTypeOK
    /\ fault \in {"none", "init_error", "timeout"}
    /\ call = NULL => AtRest
    /\ call # NULL /\ fault = "none" => Going
    /\ DmaInsideMap

-----------------------------------------------------------------------------
(* A command does to the board what it does to the view                    *)

(* What a step that issues a command has to keep: the state is at g next.  *)
Sound(g) ==
    /\ BoardTypeOK' /\ DmaInsideMap'
    /\ fault' \in {"none", "init_error", "timeout"}
    /\ fault' = "none" => At(g)'

(* A view with another state of subcore.                                   *)
LEMMA WithSCParts ==
    ASSUME NEW d, NEW s
    PROVE  LET e == WithSC(d, s)
           IN  /\ e.unit = d.unit /\ e.sc.st = s /\ e.sc.bu = d.sc.bu /\ e.ag = d.ag /\ e.gv = d.gv
               /\ e.mc = d.mc /\ e.st = d.st /\ e.h = d.h
  BY DEF WithSC, V, SC

(* No state is at the view behind a command that is never issued, and the  *)
(* name of a command tells what it does.                                   *)
LEMMA StepIs ==
    ASSUME NEW d, NEW c, NEW g, At(d), StepOf(d, c, g)
    PROVE  /\ c.op = "idle" => StepIdle(d, g)
           /\ c.op = "load" => StepLoad(d, c, g)
           /\ c.op = "startup" => StepStartup(d, c, g)
           /\ c.op = "write" => StepWrite(d, c.packet, g)
           /\ c.op = "read" => StepRead(d, g)
           /\ c.op = "check_gvpu" => d.st.gvpu = c.state /\ g = d
           /\ c.op = "check_memcore" => d.st.memcore = {c.state} /\ g = d
           /\ c.op = "check_init" => g = d
           /\ c.op \in {"alloc", "alloc_reset"} => StepAlloc(d, c, g)
           /\ c.op = "prep" => StepPrep(d, c, g)
           /\ c.op = "start" => StepStart(d, g)
  <1>1. Stuck.sc.st = "stuck"  BY DEF Stuck, V, SC
  <1>2. d # Stuck  BY <1>1 DEF At
  <1> HIDE DEF At
  <1> QED  BY <1>2 DEF StepOf, StepAlloc

(* subcore_idle returns when subcore is idle.                              *)
LEMMA IdleSound ==
    ASSUME BoardTypeOK, DmaInsideMap, NEW d, NEW g, At(d), StepOf(d, Head(todo), g), IssueIdle
    PROVE  Sound(g)
  <1>1. StepIdle(d, g)  BY StepIs DEF IssueIdle, Command
  <1>2. /\ subcore.phase = "idle" /\ fault = "none"
        /\ UNCHANGED <<call, calls, alloc_offset, prepared, status, read_data, subcore, agent, gvpu,
                       memcore, mem, fault>>
    BY DEF IssueIdle, Command, HostOnly, boardVars
  <1>3. BoardTypeOK' /\ DmaInsideMap' /\ fault' = "none"
    BY <1>2 DEF BoardTypeOK, DmaInsideMap
  <1>4. CASE d.sc.st \in {"quiet", "idle"} /\ g = WithSC(d, "idle")
    <2>1. /\ g.unit = d.unit /\ g.sc.st = "idle" /\ g.sc.bu = d.sc.bu /\ g.ag = d.ag /\ g.gv = d.gv
          /\ g.mc = d.mc /\ g.st = d.st /\ g.h = d.h
      BY <1>4, WithSCParts
    <2>2. At(g)'
      BY <1>2, <1>4, <2>1 DEF At, UnitRests, HostAs, StatusAs, SubcoreAs, UnitAs, Loose
    <2> QED  BY <1>3, <2>2 DEF Sound
  <1>5. CASE d.sc.st = "down" /\ g = WithSC(d, "down_idle")
    <2>1. /\ g.unit = d.unit /\ g.sc.st = "down_idle" /\ g.sc.bu = d.sc.bu /\ g.ag = d.ag
          /\ g.gv = d.gv /\ g.mc = d.mc /\ g.st = d.st /\ g.h = d.h
      BY <1>5, WithSCParts
    <2>2. At(g)'
      BY <1>2, <1>5, <2>1 DEF At, UnitRests, HostAs, StatusAs, SubcoreAs, UnitAs, Loose
    <2> QED  BY <1>3, <2>2 DEF Sound
  <1>6. CASE d.sc.st = "CTRL_RUN" /\ g = Ran(d)
    <2>1. /\ g.unit = d.unit /\ g.sc.st = "idle" /\ g.sc.bu = d.sc.bu /\ g.st = d.st /\ g.h = d.h
      BY <1>6 DEF Ran, V, SC
    <2>2. UnitAs(g)  BY <1>2, <1>6 DEF At, SubcoreAs, Loose
    <2>3. UnitAs(g)'  BY <1>2, <2>2 DEF UnitAs
    <2>4. SubcoreAs(g)'  BY <1>2, <2>1 DEF SubcoreAs, Loose
    <2>5. HostAs(g)' /\ StatusAs(g)'  BY <1>2, <2>1 DEF At, HostAs, StatusAs
    <2>6. \A u \in Units : u # d.unit => UnitRests(u)'  BY <1>2 DEF At, UnitRests
    <2>7. At(g)'
      <3>1. g.sc.st # "stuck" /\ g.unit \in Units /\ subcore'.bursts = g.sc.bu
        BY <1>2, <2>1 DEF At
      <3> QED  BY <2>1, <2>3, <2>4, <2>5, <2>6, <3>1 DEF At
    <2> QED  BY <1>3, <2>7 DEF Sound
  <1>7. CASE d.sc.st = "DMA_WRITE"
    BY <1>2, <1>7 DEF At, SubcoreAs, Loose
  <1> QED  BY <1>1, <1>4, <1>5, <1>6, <1>7 DEF StepIdle

(* A load meets subcore idle, and AGENT_STARTUP a unit not yet started.    *)
LEMMA LoadSound ==
    ASSUME BoardTypeOK, DmaInsideMap, NEW d, NEW g, At(d), StepOf(d, Head(todo), g), IssueLoad
    PROVE  Sound(g)
  <1> DEFINE c == Head(todo)
  <1>1. StepLoad(d, c, g)  BY StepIs DEF IssueLoad, Command
  <1>2. /\ fault = "none"
        /\ UNCHANGED <<call, calls, alloc_offset, prepared, status, read_data, agent, gvpu,
                       memcore, mem>>
    BY DEF IssueLoad, Command
  <1>3. /\ \/ d.sc.st = "idle" /\ c.state # "AGENT_STARTUP"
           \/ d.sc.st = "down_idle" /\ c.state = "AGENT_STARTUP"
        /\ \/ c.unit = NULL /\ c.state = "GPIO_DNA"
           \/ c.unit = d.unit /\ c.state # "GPIO_DNA"
        /\ c.state \in SubcoreStates /\ c.state \notin Loose /\ c.state # "stuck"
        /\ c.state = "CTRL_RUN" => MayRun(d)
        /\ g = WithSC(d, c.state)
    BY <1>1 DEF StepLoad, SubcoreStates, Loose
  <1>4. /\ subcore.phase = "idle" /\ d.sc.st # "CTRL_RUN"
        /\ c.state = "AGENT_STARTUP" => c.unit = d.unit /\ agent[d.unit].started = FALSE
    BY <1>3 DEF At, SubcoreAs
  <1>5. /\ subcore' = [subcore EXCEPT !.phase = "running", !.state = c.state, !.unit = c.unit]
        /\ fault' = "none"
    BY <1>2, <1>4 DEF IssueLoad, C
  <1>6. /\ subcore'.phase = "running" /\ subcore'.state = c.state /\ subcore'.unit = c.unit
        /\ subcore'.bursts = subcore.bursts
    BY <1>5 DEF BoardTypeOK
  <1>7. BoardTypeOK' /\ DmaInsideMap'
    <2>1. c.unit \in Units \cup {NULL}  BY <1>3 DEF At
    <2>2. subcore' \in [phase : {"idle", "running", "finishing"}, state : SubcoreStates,
                        unit : Units \cup {NULL}, bursts : Nat]
      BY <1>3, <1>5, <2>1 DEF BoardTypeOK
    <2> QED  BY <1>2, <1>5, <2>2 DEF BoardTypeOK, DmaInsideMap
  <1>8. /\ g.unit = d.unit /\ g.sc.st = c.state /\ g.sc.bu = d.sc.bu /\ g.ag = d.ag /\ g.gv = d.gv
        /\ g.mc = d.mc /\ g.st = d.st /\ g.h = d.h
    BY <1>3, WithSCParts
  <1> HIDE DEF c
  <1>9. SubcoreAs(g)'
    <2>1. c.state = "CTRL_RUN" => MayRun(g)  BY <1>3, <1>8 DEF MayRun
    <2> QED  BY <1>3, <1>6, <1>8, <2>1 DEF SubcoreAs, Loose
  <1>10. UnitAs(g)'  BY <1>2, <1>4, <1>8 DEF At, UnitAs
  <1>11. HostAs(g)' /\ StatusAs(g)'  BY <1>2, <1>8 DEF At, HostAs, StatusAs
  <1>12. \A u \in Units : u # d.unit => UnitRests(u)'  BY <1>2 DEF At, UnitRests
  <1>13. At(g)'  BY <1>3, <1>6, <1>8, <1>9, <1>10, <1>11, <1>12 DEF At
  <1> QED  BY <1>5, <1>7, <1>13 DEF Sound

(* What changes nothing stays at the view.                                 *)
LEMMA AtKept ==
    ASSUME NEW d, At(d), UNCHANGED <<call, alloc_offset, prepared, status, read_data, subcore, agent,
                                     gvpu, memcore, mem>>
    PROVE  At(d)'
  <1>1. SubcoreAs(d) => SubcoreAs(d)'  BY DEF SubcoreAs
  <1>2. \A e : UnitAs(e) => UnitAs(e)'  BY DEF UnitAs
  <1>3. HostAs(d)' /\ StatusAs(d)'  BY DEF At, HostAs, StatusAs
  <1>4. \A u \in Units : u # d.unit => UnitRests(u)'  BY DEF At, UnitRests
  <1> QED  BY <1>1, <1>2, <1>3, <1>4 DEF At

(* The status is one that passes.                                          *)
LEMMA CheckSound ==
    ASSUME BoardTypeOK, DmaInsideMap, NEW d, NEW g, At(d), StepOf(d, Head(todo), g),
           CheckStatus \/ CheckInitError
    PROVE  Sound(g)
  <1> DEFINE c == Head(todo)
  <1>1. UNCHANGED <<call, calls, alloc_offset, prepared, status, read_data, subcore, agent, gvpu,
                    memcore, mem>>
    BY DEF CheckStatus, CheckInitError, boardVars
  <1>2. g = d /\ fault' \in {"none", "init_error"}
    <2>1. CASE CheckStatus /\ c.op = "check_gvpu"
      <3>1. d.st.gvpu = c.state /\ g = d  BY <2>1, StepIs
      <3>2. status.gvpu = c.state  BY <3>1 DEF At, StatusAs
      <3> QED  BY <2>1, <3>1, <3>2 DEF CheckStatus, C
    <2>2. CASE CheckStatus /\ c.op = "check_memcore"
      <3>1. d.st.memcore = {c.state} /\ g = d  BY <2>2, StepIs
      <3>2. status.memcore = c.state  BY <3>1 DEF At, StatusAs
      <3> QED  BY <2>2, <3>1, <3>2 DEF CheckStatus, C
    <2>3. CASE CheckInitError
      <3>1. g = d  BY <2>3, StepIs DEF CheckInitError, Command
      <3> QED  BY <2>3, <3>1 DEF CheckInitError
    <2> QED  BY <2>1, <2>2, <2>3 DEF CheckStatus, Command
  <1>3. BoardTypeOK' /\ DmaInsideMap'  BY <1>1, <1>2 DEF BoardTypeOK, DmaInsideMap
  <1>4. At(d)'  BY <1>1, AtKept
  <1> QED  BY <1>2, <1>3, <1>4 DEF Sound

(* A buffer is taken while no transfer is prepared.                        *)
LEMMA AllocSound ==
    ASSUME BoardTypeOK, DmaInsideMap, call # NULL, NEW d, NEW g, At(d), StepOf(d, Head(todo), g),
           Alloc
    PROVE  Sound(g) /\ call' \in Calls /\ call' = [call EXCEPT !.buf = call'.buf]
  <1> DEFINE c == Head(todo)
  <1>1. c.op \in {"alloc", "alloc_reset"} /\ fault = "none"  BY DEF Alloc, Command
  <1>2. StepAlloc(d, c, g)  BY <1>1, StepIs
  <1>3. UNCHANGED <<calls, prepared, status, read_data, subcore, agent, gvpu, memcore, mem, fault>>
    BY DEF Alloc, boardVars
  <1>4. call \in Calls /\ alloc_offset \in Nat  BY DEF BoardTypeOK
  <1>5. /\ call' \in Calls /\ alloc_offset' \in Nat
        /\ call' = [call EXCEPT !.buf = call'.buf]
        /\ call'.op = call.op /\ call'.start = call.start
        /\ c.op = "alloc" => call'.buf = alloc_offset /\ alloc_offset' = alloc_offset + c.size
        /\ c.op = "alloc_reset" => call'.buf = call.buf /\ alloc_offset' = 0
    <2>1. c.op = "alloc" => c.size \in Nat  BY <1>2 DEF StepAlloc
    <2> QED  BY <1>1, <1>4, <2>1 DEF Alloc, C, Calls
  <1>6. d.h.prep = NULL  BY <1>2 DEF StepAlloc
  <1>7. prepared = NULL  BY <1>6 DEF At, HostAs
  <1>8. BoardTypeOK' /\ DmaInsideMap'  BY <1>3, <1>5, <1>7 DEF BoardTypeOK, DmaInsideMap
  <1>9. /\ g.unit = d.unit /\ g.sc = d.sc /\ g.ag = d.ag /\ g.gv = d.gv /\ g.mc = d.mc /\ g.st = d.st
        /\ g.h.prep = NULL /\ g.h.mem = d.h.mem /\ g.h.read = d.h.read /\ g.h.free = d.h.free
        /\ c.op = "alloc" => g.h.buf = d.h.alloc /\ g.h.alloc = d.h.alloc + c.size
        /\ c.op = "alloc_reset" => g.h.buf = d.h.buf /\ g.h.alloc = 0
    BY <1>2 DEF StepAlloc, WithH, V, HO
  <1> HIDE DEF c
  <1>10. HostAs(g)'  BY <1>1, <1>3, <1>5, <1>6, <1>9 DEF At, HostAs
  <1>11. StatusAs(g)'  BY <1>3, <1>9 DEF At, StatusAs
  <1>12. SubcoreAs(d) => SubcoreAs(g)'
    <2>1. MayRun(d) => MayRun(g)  BY <1>9 DEF MayRun
    <2> QED  BY <1>3, <1>9, <2>1 DEF SubcoreAs
  <1>13. UnitAs(d) => UnitAs(g)'  BY <1>3, <1>9 DEF UnitAs
  <1>14. UnitAs(Ran(d)) => UnitAs(Ran(g))'
    <2>1. /\ Ran(g).unit = Ran(d).unit /\ Ran(g).ag = Ran(d).ag /\ Ran(g).gv = Ran(d).gv
          /\ Ran(g).mc = Ran(d).mc
      BY <1>9 DEF Ran, V
    <2> QED  BY <1>3, <2>1 DEF UnitAs
  <1>15. \A u \in Units : u # d.unit => UnitRests(u)'  BY <1>3 DEF At, UnitRests
  <1>16. At(g)'  BY <1>3, <1>9, <1>10, <1>11, <1>12, <1>13, <1>14, <1>15 DEF At
  <1> QED  BY <1>1, <1>3, <1>5, <1>8, <1>16 DEF Sound

(* A transfer is prepared in a buffer that holds it.                       *)
LEMMA PrepSound ==
    ASSUME BoardTypeOK, DmaInsideMap, NEW d, NEW g, At(d), StepOf(d, Head(todo), g),
           gcore_dma_prep
    PROVE  Sound(g)
  <1> DEFINE c == Head(todo)
  <1>1. c.op = "prep" /\ fault = "none" /\ prepared' = c  BY DEF gcore_dma_prep, Command, C
  <1>2. StepPrep(d, c, g)  BY <1>1, StepIs
  <1>3. UNCHANGED <<call, calls, alloc_offset, status, read_data, subcore, agent, gvpu, memcore, mem,
                    fault>>
    BY DEF gcore_dma_prep, HostOnly, boardVars
  <1>4. BoardTypeOK'  BY <1>1, <1>2, <1>3 DEF BoardTypeOK, StepPrep
  <1>5. DmaInsideMap'
    <2>1. d.h.free \/ d.h.buf + c.size <= DMA_SIZE  BY <1>2 DEF StepPrep
    <2>2. (d.h.free <=> (call.op = "config" /\ call.start # 0)) /\ call.buf = d.h.buf
      BY DEF At, HostAs
    <2> QED  BY <1>1, <1>3, <2>1, <2>2 DEF DmaInsideMap
  <1>6. /\ g.unit = d.unit /\ g.sc = d.sc /\ g.ag = d.ag /\ g.gv = d.gv /\ g.mc = d.mc /\ g.st = d.st
        /\ g.h.prep = c /\ g.h.mem = d.h.mem /\ g.h.read = d.h.read /\ g.h.free = d.h.free
        /\ g.h.buf = d.h.buf /\ g.h.alloc = d.h.alloc
    BY <1>2 DEF StepPrep, WithH, V, HO
  <1> HIDE DEF c
  <1>7. HostAs(g)'  BY <1>1, <1>3, <1>6 DEF At, HostAs
  <1>8. StatusAs(g)'  BY <1>3, <1>6 DEF At, StatusAs
  <1>9. SubcoreAs(d) => SubcoreAs(g)'
    <2>1. MayRun(d) => MayRun(g)  BY <1>6 DEF MayRun
    <2> QED  BY <1>3, <1>6, <2>1 DEF SubcoreAs
  <1>10. UnitAs(d) => UnitAs(g)'  BY <1>3, <1>6 DEF UnitAs
  <1>11. UnitAs(Ran(d)) => UnitAs(Ran(g))'
    <2>1. /\ Ran(g).unit = Ran(d).unit /\ Ran(g).ag = Ran(d).ag /\ Ran(g).gv = Ran(d).gv
          /\ Ran(g).mc = Ran(d).mc
      BY <1>6 DEF Ran, V
    <2> QED  BY <1>3, <2>1 DEF UnitAs
  <1>12. \A u \in Units : u # d.unit => UnitRests(u)'  BY <1>3 DEF At, UnitRests
  <1>13. At(g)'  BY <1>3, <1>6, <1>7, <1>8, <1>9, <1>10, <1>11, <1>12 DEF At
  <1> QED  BY <1>1, <1>3, <1>4, <1>5, <1>13 DEF Sound

(* The other unit is left alone.                                           *)
OthersKept(u) ==
    \A v \in Units : v # u =>
        agent'[v] = agent[v] /\ gvpu'[v] = gvpu[v] /\ memcore'[v] = memcore[v]

(* The units are of their types.                                           *)
UnitsOK ==
    /\ agent \in [Units -> [state : AgentStates, loaded : AgentStates, started : BOOLEAN]]
    /\ gvpu \in [Units -> [state : GvpuStates, loaded : GvpuStates]]
    /\ memcore \in [Units -> [state : MemcoreStates, loaded : MemcoreStates, addr : 0 .. MEM,
                              left : Nat, reading : BOOLEAN]]

(* IDLE is a state of each.                                                *)
LEMMA IdleIsState == "IDLE" \in AgentStates /\ "IDLE" \in GvpuStates /\ "IDLE" \in MemcoreStates
  BY DEF AgentStates, GvpuStates, MemcoreStates

(* Once subcore is about to be idle it is enough to know the unit, the     *)
(* host and the status.                                                    *)
LEMMA QuietAt ==
    ASSUME NEW d, NEW g, At(d), g.unit = d.unit, g.sc.st = "quiet",
           subcore'.phase = "finishing", subcore'.bursts = g.sc.bu,
           HostAs(g)', StatusAs(g)', UnitAs(g)', OthersKept(d.unit)
    PROVE  At(g)'
  <1>1. SubcoreAs(g)'  BY DEF SubcoreAs, Loose
  <1>2. g.unit \in Units /\ \A u \in Units : u # d.unit => UnitRests(u)  BY DEF At
  <1>3. \A u \in Units : u # d.unit => UnitRests(u)'  BY <1>2 DEF OthersKept, UnitRests
  <1> QED  BY <1>1, <1>2, <1>3 DEF At

(* Subcore runs what the view says it runs.                                *)
LEMMA RunningAt ==
    ASSUME NEW d, At(d), d.sc.st \notin Loose \cup {"CTRL_RUN"}
    PROVE  /\ Running(d.sc.st) /\ (d.sc.st # "GPIO_DNA" => subcore.unit = d.unit)
           /\ UnitAs(d) /\ d.unit \in Units
           /\ \A s : s # d.sc.st => ~Running(s)
  BY DEF At, SubcoreAs, Running

(* A control packet meets an agent that takes it.                          *)
LEMMA ControlSound ==
    ASSUME UnitsOK, NEW d, NEW g, NEW p, At(d), d.sc.st = "CTRL_WRITE", StepControl(d, p, g),
           ToAgent(d.unit, p)
    PROVE  /\ UnitsOK' /\ UNCHANGED fault /\ UnitAs(g)' /\ OthersKept(d.unit)
           /\ g.unit = d.unit /\ g.sc = SC("quiet", d.sc.bu) /\ g.st = d.st /\ g.h = d.h
  <1> DEFINE u == d.unit
  <1>1. UnitAs(d) /\ u \in Units  BY RunningAt DEF Loose
  <1>2. /\ agent[u].state = d.ag.st /\ gvpu[u].state = d.gv.st /\ memcore[u].state \in d.mc.st
        /\ memcore[u].reading = d.mc.rd
        /\ d.ag.ld # Whatever => agent[u].loaded = d.ag.ld
        /\ d.gv.ld # Whatever => gvpu[u].loaded = d.gv.ld
        /\ d.mc.ld # Whatever => memcore[u].loaded = d.mc.ld
        /\ d.mc.addr # Unknown => memcore[u].addr = d.mc.addr
        /\ d.mc.left # Unknown => memcore[u].left = d.mc.left
    BY <1>1 DEF UnitAs
  <1>3. CASE d.ag.st = "IDLE" /\ p.data \in AgentStates
             /\ g = V(d.unit, SC("quiet", d.sc.bu), AG("IDLE", p.data), d.gv, d.mc, d.st, d.h)
    <2>1. agent' = [agent EXCEPT ![u].loaded = p.data] /\ UNCHANGED <<gvpu, memcore, fault>>
      BY <1>2, <1>3 DEF ToAgent
    <2>2. /\ g.unit = u /\ g.sc = SC("quiet", d.sc.bu) /\ g.ag.st = "IDLE" /\ g.ag.ld = p.data
          /\ g.gv = d.gv /\ g.mc = d.mc /\ g.st = d.st /\ g.h = d.h
      BY <1>3 DEF V, AG
    <2>3. UnitsOK'  BY <1>1, <1>3, <2>1 DEF UnitsOK
    <2>4. UnitAs(g)'  BY <1>1, <1>2, <1>3, <2>1, <2>2, ZenonT(60) DEF UnitAs, UnitsOK
    <2>5. OthersKept(u)  BY <1>1, <2>1 DEF OthersKept, UnitsOK
    <2> QED  BY <2>1, <2>2, <2>3, <2>4, <2>5
  <1>4. CASE /\ d.ag.st = "GVPU_LOAD" /\ d.gv.st = "MEM_LOAD" /\ p.data \in MemcoreStates
             /\ g = V(d.unit, SC("quiet", d.sc.bu), AG("IDLE", d.ag.ld), GV("IDLE", d.gv.ld),
                      MC(d.mc.st, p.data, d.mc.addr, d.mc.left, d.mc.rd), d.st, d.h)
    <2>1. /\ agent' = [agent EXCEPT ![u].state = "IDLE"] /\ gvpu' = [gvpu EXCEPT ![u].state = "IDLE"]
          /\ memcore' = [memcore EXCEPT ![u].loaded = p.data] /\ UNCHANGED fault
      BY <1>2, <1>4 DEF ToAgent, Idle
    <2>2. /\ g.unit = u /\ g.sc = SC("quiet", d.sc.bu) /\ g.ag.st = "IDLE" /\ g.ag.ld = d.ag.ld
          /\ g.gv.st = "IDLE" /\ g.gv.ld = d.gv.ld /\ g.mc.st = d.mc.st /\ g.mc.ld = p.data
          /\ g.mc.addr = d.mc.addr /\ g.mc.left = d.mc.left /\ g.mc.rd = d.mc.rd
          /\ g.st = d.st /\ g.h = d.h
      BY <1>4 DEF V, AG, GV, MC
    <2>3. /\ memcore'[u] = [memcore[u] EXCEPT !.loaded = p.data]
          /\ memcore'[u].state = memcore[u].state /\ memcore'[u].loaded = p.data
          /\ memcore'[u].addr = memcore[u].addr /\ memcore'[u].left = memcore[u].left
          /\ memcore'[u].reading = memcore[u].reading
          /\ agent'[u].state = "IDLE" /\ agent'[u].loaded = agent[u].loaded
          /\ gvpu'[u].state = "IDLE" /\ gvpu'[u].loaded = gvpu[u].loaded
      BY <1>1, <2>1 DEF UnitsOK
    <2>4. UnitsOK'
      <3>1. memcore' \in [Units -> [state : MemcoreStates, loaded : MemcoreStates, addr : 0 .. MEM,
                                    left : Nat, reading : BOOLEAN]]
        BY <1>1, <1>4, <2>1 DEF UnitsOK
      <3>2. agent' \in [Units -> [state : AgentStates, loaded : AgentStates, started : BOOLEAN]]
        BY <1>1, <2>1, IdleIsState DEF UnitsOK
      <3>3. gvpu' \in [Units -> [state : GvpuStates, loaded : GvpuStates]]
        BY <1>1, <2>1, IdleIsState DEF UnitsOK
      <3> QED  BY <3>1, <3>2, <3>3 DEF UnitsOK
    <2>6. UnitAs(g)'  BY <1>2, <2>2, <2>3 DEF UnitAs
    <2>5. OthersKept(u)  BY <1>1, <2>1 DEF OthersKept, UnitsOK
    <2> QED  BY <2>1, <2>2, <2>4, <2>5, <2>6
  <1>5. CASE /\ d.ag.st = "GVPU_LOAD" /\ d.gv.st = "TEST_INIT"
             /\ g = V(d.unit, SC("quiet", d.sc.bu), AG("IDLE", d.ag.ld), GV("IDLE", d.gv.ld), d.mc,
                      d.st, d.h)
    <2>1. /\ agent' = [agent EXCEPT ![u].state = "IDLE"] /\ gvpu' = [gvpu EXCEPT ![u].state = "IDLE"]
          /\ UNCHANGED <<memcore, fault>>
      BY <1>2, <1>5 DEF ToAgent, Idle
    <2>2. /\ g.unit = u /\ g.sc = SC("quiet", d.sc.bu) /\ g.ag.st = "IDLE" /\ g.ag.ld = d.ag.ld
          /\ g.gv.st = "IDLE" /\ g.gv.ld = d.gv.ld /\ g.mc = d.mc /\ g.st = d.st /\ g.h = d.h
      BY <1>5 DEF V, AG, GV
    <2>3. UnitsOK'  BY <1>1, <2>1, IdleIsState DEF UnitsOK
    <2>4. UnitAs(g)'  BY <1>1, <1>2, <1>5, <2>1, <2>2, ZenonT(60) DEF UnitAs, UnitsOK
    <2>5. OthersKept(u)  BY <1>1, <2>1 DEF OthersKept, UnitsOK
    <2> QED  BY <2>1, <2>2, <2>3, <2>4, <2>5
  <1>6. CASE /\ d.ag.st = "GVPU_LOAD" /\ d.gv.st \notin {"MEM_LOAD", "TEST_INIT"}
             /\ p.data \in GvpuStates
             /\ g = V(d.unit, SC("quiet", d.sc.bu), AG("IDLE", d.ag.ld), GV(d.gv.st, p.data), d.mc,
                      d.st, d.h)
    <2>1. /\ agent' = [agent EXCEPT ![u].state = "IDLE"]
          /\ gvpu' = [gvpu EXCEPT ![u].loaded = p.data]
          /\ UNCHANGED <<memcore, fault>>
      BY <1>2, <1>6 DEF ToAgent, Idle
    <2>2. /\ g.unit = u /\ g.sc = SC("quiet", d.sc.bu) /\ g.ag.st = "IDLE" /\ g.ag.ld = d.ag.ld
          /\ g.gv.st = d.gv.st /\ g.gv.ld = p.data /\ g.mc = d.mc /\ g.st = d.st /\ g.h = d.h
      BY <1>6 DEF V, AG, GV
    <2>3. UnitsOK'  BY <1>1, <1>6, <2>1, IdleIsState DEF UnitsOK
    <2>4. UnitAs(g)'  BY <1>1, <1>2, <1>6, <2>1, <2>2, ZenonT(60) DEF UnitAs, UnitsOK
    <2>5. OthersKept(u)  BY <1>1, <2>1 DEF OthersKept, UnitsOK
    <2> QED  BY <2>1, <2>2, <2>3, <2>4, <2>5
  <1>7. CASE /\ d.ag.st = "BURST_LOAD" /\ d.gv.st = "MEM_BURST"
             /\ d.mc.st = {"MEMCORE_SETUP_BURST"} /\ p.data \in Nat /\ p.addr \in 0 .. MEM
             /\ g = V(d.unit, SC("quiet", d.sc.bu), AG("IDLE", d.ag.ld), GV("IDLE", d.gv.ld),
                      MC({"IDLE"}, d.mc.ld, p.addr, p.data, d.mc.rd), d.st, d.h)
    <2>1. /\ agent' = [agent EXCEPT ![u].state = "IDLE"] /\ gvpu' = [gvpu EXCEPT ![u].state = "IDLE"]
          /\ memcore' = [memcore EXCEPT ![u].state = "IDLE", ![u].addr = p.addr, ![u].left = p.data]
          /\ UNCHANGED fault
      BY <1>2, <1>7 DEF ToAgent, Idle
    <2>2. /\ g.unit = u /\ g.sc = SC("quiet", d.sc.bu) /\ g.ag.st = "IDLE" /\ g.ag.ld = d.ag.ld
          /\ g.gv.st = "IDLE" /\ g.gv.ld = d.gv.ld /\ g.mc.st = {"IDLE"} /\ g.mc.ld = d.mc.ld
          /\ g.mc.addr = p.addr /\ g.mc.left = p.data /\ g.mc.rd = d.mc.rd
          /\ g.st = d.st /\ g.h = d.h
      BY <1>7 DEF V, AG, GV, MC
    <2>3. /\ memcore'[u].state = "IDLE" /\ memcore'[u].loaded = memcore[u].loaded
          /\ memcore'[u].addr = p.addr /\ memcore'[u].left = p.data
          /\ memcore'[u].reading = memcore[u].reading
          /\ agent'[u].state = "IDLE" /\ agent'[u].loaded = agent[u].loaded
          /\ gvpu'[u].state = "IDLE" /\ gvpu'[u].loaded = gvpu[u].loaded
      BY <1>1, <2>1 DEF UnitsOK
    <2>4. UnitsOK'
      <3>1. memcore' \in [Units -> [state : MemcoreStates, loaded : MemcoreStates, addr : 0 .. MEM,
                                    left : Nat, reading : BOOLEAN]]
        <4> DEFINE r == [state |-> "IDLE", loaded |-> memcore[u].loaded, addr |-> p.addr,
                         left |-> p.data, reading |-> memcore[u].reading]
        <4>1. r \in [state : MemcoreStates, loaded : MemcoreStates, addr : 0 .. MEM, left : Nat,
                     reading : BOOLEAN]
          BY <1>1, <1>7, IdleIsState DEF UnitsOK
        <4> DEFINE m1 == [memcore EXCEPT ![u].state = "IDLE"]
                   m2 == [m1 EXCEPT ![u].addr = p.addr]
                   m3 == [m2 EXCEPT ![u].left = p.data]
        <4>2. memcore' = m3  BY <2>1
        <4>3. m3[u] = r  BY <1>1, ZenonT(60) DEF UnitsOK
        <4>4. memcore' = [memcore EXCEPT ![u] = r]  BY <1>1, <4>2, <4>3 DEF UnitsOK
        <4> HIDE DEF r
        <4> QED  BY <1>1, <4>1, <4>4 DEF UnitsOK
      <3>2. agent' \in [Units -> [state : AgentStates, loaded : AgentStates, started : BOOLEAN]]
        BY <1>1, <2>1, IdleIsState DEF UnitsOK
      <3>3. gvpu' \in [Units -> [state : GvpuStates, loaded : GvpuStates]]
        BY <1>1, <2>1, IdleIsState DEF UnitsOK
      <3> QED  BY <3>1, <3>2, <3>3 DEF UnitsOK
    <2>6. UnitAs(g)'  BY <1>2, <2>2, <2>3 DEF UnitAs
    <2>5. OthersKept(u)  BY <1>1, <2>1 DEF OthersKept, UnitsOK
    <2> QED  BY <2>1, <2>2, <2>4, <2>5, <2>6
  <1>8. CASE d.ag.st = "GVPU_STATUS" /\ g = WithSC(d, "quiet")
    <2>1. UNCHANGED <<agent, gvpu, memcore, fault>>  BY <1>2, <1>8 DEF ToAgent
    <2>2. /\ g.unit = u /\ g.sc = SC("quiet", d.sc.bu) /\ g.ag = d.ag /\ g.gv = d.gv
          /\ g.mc = d.mc /\ g.st = d.st /\ g.h = d.h
      BY <1>8 DEF WithSC, V
    <2>3. UnitsOK'  BY <2>1 DEF UnitsOK
    <2>4. UnitAs(g)'  BY <1>2, <2>1, <2>2 DEF UnitAs
    <2>5. OthersKept(u)  BY <2>1 DEF OthersKept
    <2> QED  BY <2>1, <2>2, <2>3, <2>4, <2>5
  <1> QED  BY <1>3, <1>4, <1>5, <1>6, <1>7, <1>8 DEF StepControl

(* A packet meets subcore in a state that takes it.                        *)
LEMMA WriteSound ==
    ASSUME BoardTypeOK, DmaInsideMap, NEW d, NEW g, At(d), StepOf(d, Head(todo), g), IssueWrite
    PROVE  Sound(g)
  <1> DEFINE c == Head(todo)
             p == c.packet
             u == d.unit
  <1>1. StepWrite(d, p, g)  BY StepIs DEF IssueWrite, Command
  <1>2. fault = "none" /\ PacketToBoard(p) /\ UNCHANGED <<call, calls, alloc_offset, prepared>>
    BY DEF IssueWrite, Command, C
  <1>3. UnitsOK  BY DEF BoardTypeOK, UnitsOK
  <1> HIDE DEF c, p
  <1>4. CASE d.sc.st = "CTRL_WRITE" /\ StepControl(d, p, g)
    <2>1. Running("CTRL_WRITE") /\ subcore.unit = u /\ UnitAs(d)
          /\ ~Running("SETUP_BURST") /\ ~Running("GPIO_DNA")
      BY <1>4, RunningAt DEF Loose
    <2>2. AgentTakes(u)
      <3>1. /\ agent[u].state = d.ag.st /\ gvpu[u].state = d.gv.st /\ memcore[u].state \in d.mc.st
        BY <2>1 DEF UnitAs
      <3> QED  BY <1>4, <3>1 DEF StepControl, AgentTakes
    <2>3. /\ ToAgent(u, p) /\ subcore' = Finishing /\ UNCHANGED <<mem, status, read_data>>
      BY <1>2, <2>1, <2>2 DEF PacketToBoard
    <2>4. /\ UnitsOK' /\ UNCHANGED fault /\ UnitAs(g)' /\ OthersKept(u)
          /\ g.unit = u /\ g.sc = SC("quiet", d.sc.bu) /\ g.st = d.st /\ g.h = d.h
      BY <1>3, <1>4, <2>3, ControlSound
    <2>5. /\ subcore' \in [phase : {"idle", "running", "finishing"}, state : SubcoreStates,
                           unit : Units \cup {NULL}, bursts : Nat]
          /\ subcore'.phase = "finishing" /\ subcore'.bursts = subcore.bursts
      BY <2>3 DEF Finishing, BoardTypeOK
    <2>6. BoardTypeOK' /\ DmaInsideMap'
      BY <1>2, <2>3, <2>4, <2>5 DEF BoardTypeOK, UnitsOK, DmaInsideMap
    <2>7. HostAs(g)' /\ StatusAs(g)'  BY <1>2, <2>3, <2>4 DEF At, HostAs, StatusAs
    <2>8. subcore'.bursts = g.sc.bu /\ g.sc.st = "quiet"  BY <2>4, <2>5 DEF At, SC
    <2>9. At(g)'  BY <2>4, <2>5, <2>7, <2>8, QuietAt
    <2> QED  BY <1>2, <2>4, <2>6, <2>9 DEF Sound
  <1>5. CASE /\ d.sc.st = "SETUP_BURST" /\ p.data \in Nat
             /\ g = V(d.unit, SC("quiet", p.data), d.ag, d.gv, d.mc, d.st, d.h)
    <2>1. Running("SETUP_BURST") /\ UnitAs(d) /\ ~Running("CTRL_WRITE") /\ ~Running("GPIO_DNA")
      BY <1>5, RunningAt DEF Loose
    <2>2. /\ subcore' = [Finishing EXCEPT !.bursts = p.data]
          /\ UNCHANGED <<agent, gvpu, memcore, mem, status, read_data, fault>>
      BY <1>2, <2>1 DEF PacketToBoard
    <2>3. /\ subcore' \in [phase : {"idle", "running", "finishing"}, state : SubcoreStates,
                           unit : Units \cup {NULL}, bursts : Nat]
          /\ subcore'.phase = "finishing" /\ subcore'.bursts = p.data
      BY <1>5, <2>2 DEF Finishing, BoardTypeOK
    <2>4. BoardTypeOK' /\ DmaInsideMap'  BY <1>2, <2>2, <2>3 DEF BoardTypeOK, DmaInsideMap
    <2>5. /\ g.unit = u /\ g.sc.st = "quiet" /\ g.sc.bu = p.data /\ g.ag = d.ag /\ g.gv = d.gv
          /\ g.mc = d.mc /\ g.st = d.st /\ g.h = d.h
      BY <1>5 DEF V, SC
    <2>6. HostAs(g)' /\ StatusAs(g)'  BY <1>2, <2>2, <2>5 DEF At, HostAs, StatusAs
    <2>7. UnitAs(g)'  BY <2>1, <2>2, <2>5 DEF UnitAs
    <2>8. OthersKept(u)  BY <2>2 DEF OthersKept
    <2>9. At(g)'  BY <2>3, <2>5, <2>6, <2>7, <2>8, QuietAt
    <2> QED  BY <1>2, <2>2, <2>4, <2>9 DEF Sound
  <1>6. CASE d.sc.st = "GPIO_DNA" /\ g = (IF p.data = "GET_DNA" THEN d ELSE WithSC(d, "quiet"))
    <2>1. Running("GPIO_DNA") /\ UnitAs(d) /\ ~Running("CTRL_WRITE") /\ ~Running("SETUP_BURST")
      BY <1>6, RunningAt DEF Loose
    <2>2. /\ subcore' = IF p.data = "GET_DNA" THEN subcore ELSE Finishing
          /\ UNCHANGED <<agent, gvpu, memcore, mem, status, read_data, fault>>
      BY <1>2, <2>1 DEF PacketToBoard
    <2>3. /\ subcore' \in [phase : {"idle", "running", "finishing"}, state : SubcoreStates,
                           unit : Units \cup {NULL}, bursts : Nat]
          /\ subcore'.bursts = subcore.bursts
      BY <2>2 DEF Finishing, BoardTypeOK
    <2>4. BoardTypeOK' /\ DmaInsideMap'  BY <1>2, <2>2, <2>3 DEF BoardTypeOK, DmaInsideMap
    <2>5. CASE p.data = "GET_DNA"
      <3>1. g = d /\ subcore' = subcore  BY <1>6, <2>2, <2>5
      <3>2. SubcoreAs(d)'  BY <1>6, <2>1, <2>2, <3>1 DEF SubcoreAs, Running, Loose
      <3>3. UnitAs(d)'  BY <2>1, <2>2 DEF UnitAs
      <3>4. HostAs(d)' /\ StatusAs(d)'  BY <1>2, <2>2 DEF At, HostAs, StatusAs
      <3>5. \A v \in Units : v # u => UnitRests(v)'  BY <2>2 DEF At, UnitRests
      <3>6. At(d)'  BY <2>3, <3>2, <3>3, <3>4, <3>5 DEF At
      <3> QED  BY <1>2, <2>2, <2>4, <3>1, <3>6 DEF Sound
    <2>6. CASE p.data # "GET_DNA"
      <3>1. subcore'.phase = "finishing"  BY <2>2, <2>6 DEF Finishing, BoardTypeOK
      <3>2. g = WithSC(d, "quiet")  BY <1>6, <2>6
      <3>3. /\ g.unit = u /\ g.sc.st = "quiet" /\ g.sc.bu = d.sc.bu /\ g.ag = d.ag /\ g.gv = d.gv
            /\ g.mc = d.mc /\ g.st = d.st /\ g.h = d.h
        BY <3>2, WithSCParts
      <3>4. HostAs(g)' /\ StatusAs(g)'  BY <1>2, <2>2, <3>3 DEF At, HostAs, StatusAs
      <3>5. UnitAs(g)'  BY <2>1, <2>2, <3>3 DEF UnitAs
      <3>6. OthersKept(u)  BY <2>2 DEF OthersKept
      <3>7. subcore'.bursts = g.sc.bu  BY <2>3, <3>3 DEF At
      <3>8. At(g)'  BY <3>1, <3>3, <3>4, <3>5, <3>6, <3>7, QuietAt
      <3> QED  BY <1>2, <2>2, <2>4, <3>8 DEF Sound
    <2> QED  BY <2>5, <2>6
  <1> QED  BY <1>1, <1>4, <1>5, <1>6 DEF StepWrite

(* A packet is read from a subcore that has one.                           *)
LEMMA ReadSound ==
    ASSUME BoardTypeOK, DmaInsideMap, NEW d, NEW g, At(d), StepOf(d, Head(todo), g), IssueRead
    PROVE  Sound(g)
  <1> DEFINE u == d.unit
  <1>1. StepRead(d, g)  BY StepIs DEF IssueRead, Command
  <1>2. fault = "none" /\ PacketFromBoard /\ UNCHANGED <<call, calls, alloc_offset, prepared>>
    BY DEF IssueRead, Command
  <1>3. UnitsOK  BY DEF BoardTypeOK, UnitsOK
  <1>4. ASSUME subcore' = Finishing
        PROVE  /\ subcore' \in [phase : {"idle", "running", "finishing"}, state : SubcoreStates,
                                unit : Units \cup {NULL}, bursts : Nat]
               /\ subcore'.phase = "finishing" /\ subcore'.bursts = subcore.bursts
    BY <1>4 DEF Finishing, BoardTypeOK
  <1>5. CASE /\ d.sc.st = "CTRL_READ" /\ d.ag.st \in {"STATUS", "GVPU_STATUS"}
             /\ g = V(d.unit, SC("quiet", d.sc.bu), AG("IDLE", d.ag.ld), d.gv, d.mc,
                      ST(d.gv.st, d.mc.st), d.h)
    <2>1. /\ Running("CTRL_READ") /\ subcore.unit = u /\ UnitAs(d) /\ u \in Units
          /\ ~Running("AGENT_STARTUP") /\ ~Running("GPIO_DNA")
      BY <1>5, RunningAt DEF Loose
    <2>2. AgentTells(u)  BY <1>5, <2>1 DEF UnitAs, AgentTells
    <2>3. /\ status' = [gvpu |-> gvpu[u].state, memcore |-> memcore[u].state]
          /\ agent' = [agent EXCEPT ![u].state = "IDLE"] /\ subcore' = Finishing
          /\ UNCHANGED <<gvpu, memcore, mem, read_data, fault>>
      BY <1>2, <2>1, <2>2 DEF PacketFromBoard, Idle
    <2>4. /\ agent' \in [Units -> [state : AgentStates, loaded : AgentStates, started : BOOLEAN]]
          /\ agent'[u].state = "IDLE" /\ agent'[u].loaded = agent[u].loaded
          /\ \A v \in Units : v # u => agent'[v] = agent[v]
      BY <1>3, <2>1, <2>3, IdleIsState DEF UnitsOK
    <2>5. /\ status' \in [gvpu : GvpuStates, memcore : MemcoreStates]
          /\ status'.gvpu = gvpu[u].state /\ status'.memcore = memcore[u].state
      BY <1>3, <2>1, <2>3 DEF UnitsOK
    <2>6. BoardTypeOK' /\ DmaInsideMap'
      BY <1>2, <1>4, <2>3, <2>4, <2>5 DEF BoardTypeOK, DmaInsideMap
    <2>7. /\ g.unit = u /\ g.sc.st = "quiet" /\ g.sc.bu = d.sc.bu /\ g.ag.st = "IDLE"
          /\ g.ag.ld = d.ag.ld /\ g.gv = d.gv /\ g.mc = d.mc /\ g.st.gvpu = d.gv.st
          /\ g.st.memcore = d.mc.st /\ g.h = d.h
      BY <1>5 DEF V, SC, AG, ST
    <2>8. UnitAs(g)'  BY <2>1, <2>3, <2>4, <2>7 DEF UnitAs
    <2>9. StatusAs(g)'  BY <2>1, <2>5, <2>7 DEF UnitAs, StatusAs
    <2>10. HostAs(g)'  BY <1>2, <2>3, <2>7 DEF At, HostAs
    <2>11. OthersKept(u)  BY <2>3, <2>4 DEF OthersKept
    <2>12. subcore'.bursts = g.sc.bu  BY <1>4, <2>3, <2>7 DEF At
    <2>13. At(g)'  BY <1>4, <2>3, <2>7, <2>8, <2>9, <2>10, <2>11, <2>12, QuietAt
    <2> QED  BY <1>2, <2>3, <2>6, <2>13 DEF Sound
  <1>6. CASE d.sc.st \in {"AGENT_STARTUP", "GPIO_DNA"} /\ g = WithSC(d, "quiet")
    <2>1. /\ Running(d.sc.st) /\ UnitAs(d) /\ u \in Units
          /\ d.sc.st = "AGENT_STARTUP" => subcore.unit = u
          /\ \A s : s # d.sc.st => ~Running(s)
      BY <1>6, RunningAt DEF Loose
    <2>2. /\ \/ d.sc.st = "AGENT_STARTUP" /\ agent' = [agent EXCEPT ![u].started = TRUE]
             \/ d.sc.st = "GPIO_DNA" /\ agent' = agent
          /\ subcore' = Finishing
          /\ UNCHANGED <<gvpu, memcore, mem, status, read_data, fault>>
      BY <1>2, <1>6, <2>1 DEF PacketFromBoard
    <2>3. /\ agent' \in [Units -> [state : AgentStates, loaded : AgentStates, started : BOOLEAN]]
          /\ agent'[u].state = agent[u].state /\ agent'[u].loaded = agent[u].loaded
          /\ \A v \in Units : v # u => agent'[v] = agent[v]
      <3>1. CASE agent' = [agent EXCEPT ![u].started = TRUE]
        <4>1. agent' \in [Units -> [state : AgentStates, loaded : AgentStates, started : BOOLEAN]]
          BY <1>3, <2>1, <3>1 DEF UnitsOK
        <4>2. agent'[u].state = agent[u].state /\ agent'[u].loaded = agent[u].loaded
          BY <1>3, <2>1, <3>1 DEF UnitsOK
        <4>3. \A v \in Units : v # u => agent'[v] = agent[v]  BY <1>3, <3>1 DEF UnitsOK
        <4> QED  BY <4>1, <4>2, <4>3
      <3>2. CASE agent' = agent  BY <1>3, <3>2 DEF UnitsOK
      <3> QED  BY <2>2, <3>1, <3>2
    <2>4. BoardTypeOK' /\ DmaInsideMap'
      BY <1>2, <1>4, <2>2, <2>3 DEF BoardTypeOK, DmaInsideMap
    <2>5. /\ g.unit = u /\ g.sc.st = "quiet" /\ g.sc.bu = d.sc.bu /\ g.ag = d.ag /\ g.gv = d.gv
          /\ g.mc = d.mc /\ g.st = d.st /\ g.h = d.h
      BY <1>6, WithSCParts
    <2>6. UnitAs(g)'  BY <2>1, <2>2, <2>3, <2>5 DEF UnitAs
    <2>7. HostAs(g)' /\ StatusAs(g)'  BY <1>2, <2>2, <2>5 DEF At, HostAs, StatusAs
    <2>8. OthersKept(u)  BY <2>2, <2>3 DEF OthersKept
    <2>9. subcore'.bursts = g.sc.bu  BY <1>4, <2>2, <2>5 DEF At
    <2>10. At(g)'  BY <1>4, <2>2, <2>5, <2>6, <2>7, <2>8, <2>9, QuietAt
    <2> QED  BY <1>2, <2>2, <2>4, <2>10 DEF Sound
  <1> QED  BY <1>1, <1>5, <1>6 DEF StepRead

-----------------------------------------------------------------------------
(* Transfers do to the board what they do to the view                      *)

(* A transfer that starts is the one prepared.                             *)
LEMMA StartIs ==
    ASSUME BoardTypeOK, NEW d, At(d), d.h.prep \in Transfers, IssueStart
    PROVE  /\ fault = "none" /\ prepared' = NULL
           /\ UNCHANGED <<call, calls, alloc_offset, status>>
           /\ d.h.prep.dir = "tx" =>
                  /\ DmaToBoard(d.h.prep.data) /\ UNCHANGED read_data
                  /\ d.h.prep.data \in Seq(Words)
           /\ d.h.prep.dir = "rx" =>
                  /\ DmaFromBoard(d.h.prep.size, d.h.prep.to)
                  /\ d.h.prep.size \in Nat /\ d.h.prep.to \in Nat
  <1>1. prepared = d.h.prep  BY DEF At, HostAs
  <1>2. prepared # NULL  BY <1>1, BoardAssumption
  <1>3. /\ fault = "none" /\ prepared' = NULL /\ UNCHANGED <<call, calls, alloc_offset, status>>
        /\ \/ prepared.dir = "tx" /\ DmaToBoard(prepared.data) /\ UNCHANGED read_data
           \/ prepared.dir = "rx" /\ DmaFromBoard(prepared.size, prepared.to)
    BY <1>2 DEF IssueStart, Command
  <1>4. /\ prepared.dir = "tx" => prepared.data \in Seq(Words)
        /\ prepared.dir = "rx" => prepared.size \in Nat /\ prepared.to \in Nat
    BY <1>1 DEF Transfers
  <1> HIDE DEF DmaToBoard, DmaFromBoard
  <1> QED  BY <1>1, <1>3, <1>4

(* What the host knows after a transfer.                                   *)
LEMMA StartHost ==
    ASSUME NEW d, NEW g, NEW m, NEW r, At(d), g.h = NoPrep(d.h, m, r), g.st = d.st,
           prepared' = NULL, UNCHANGED <<call, calls, alloc_offset, status>>, mem' = m,
           read_data' = r
    PROVE  HostAs(g)' /\ StatusAs(g)' /\ DmaInsideMap'
  <1>1. /\ g.h.alloc = d.h.alloc /\ g.h.buf = d.h.buf /\ g.h.prep = NULL /\ g.h.mem = m
        /\ g.h.read = r /\ g.h.free = d.h.free
    BY DEF NoPrep, HO
  <1>2. HostAs(g)'  BY <1>1 DEF At, HostAs
  <1>3. StatusAs(g)'  BY DEF At, StatusAs
  <1> QED  BY <1>2, <1>3 DEF DmaInsideMap

(* artix_config: the unit starts anew.                                     *)
LEMMA ConfigSound ==
    ASSUME BoardTypeOK, NEW d, NEW g, At(d), d.h.prep \in Transfers, StepConfig(d, g), IssueStart
    PROVE  Sound(g)
  <1> DEFINE u == d.unit
             dirt == [state |-> "IDLE", loaded |-> "IDLE", started |-> FALSE]
  <1>1. /\ d.sc.st = "CONFIG_SETUP" /\ d.h.prep.dir = "tx"
        /\ g = V(d.unit, SC("quiet", d.sc.bu), AG("IDLE", "IDLE"), GV("IDLE", d.gv.ld),
                 MC({"IDLE"}, d.mc.ld, d.mc.addr, d.mc.left, d.mc.rd), d.st,
                 NoPrep(d.h, d.h.mem, d.h.read))
    BY DEF StepConfig
  <1>2. /\ fault = "none" /\ prepared' = NULL /\ UNCHANGED <<call, calls, alloc_offset, status>>
        /\ DmaToBoard(d.h.prep.data) /\ UNCHANGED read_data
    BY <1>1, StartIs
  <1>3. /\ Running("CONFIG_SETUP") /\ subcore.unit = u /\ UnitAs(d) /\ u \in Units
        /\ ~Running("DMA_WRITE")
    BY <1>1, RunningAt DEF Loose
  <1>4. /\ subcore' = Finishing /\ agent' = [agent EXCEPT ![u] = dirt]
        /\ gvpu' = [gvpu EXCEPT ![u].state = "IDLE"]
        /\ memcore' = [memcore EXCEPT ![u].state = "IDLE"]
        /\ UNCHANGED <<mem, fault>>
    BY <1>2, <1>3 DEF DmaToBoard, Idle
  <1>5. UnitsOK  BY DEF BoardTypeOK, UnitsOK
  <1>6. /\ agent' \in [Units -> [state : AgentStates, loaded : AgentStates, started : BOOLEAN]]
        /\ agent'[u].state = "IDLE" /\ agent'[u].loaded = "IDLE"
        /\ \A v \in Units : v # u => agent'[v] = agent[v]
    <2>1. dirt \in [state : AgentStates, loaded : AgentStates, started : BOOLEAN]
      BY IdleIsState
    <2>2. dirt.state = "IDLE" /\ dirt.loaded = "IDLE"  OBVIOUS
    <2> HIDE DEF dirt
    <2> QED  BY <1>3, <1>4, <1>5, <2>1, <2>2 DEF UnitsOK
  <1>7. /\ gvpu' \in [Units -> [state : GvpuStates, loaded : GvpuStates]]
        /\ gvpu'[u].state = "IDLE" /\ gvpu'[u].loaded = gvpu[u].loaded
        /\ \A v \in Units : v # u => gvpu'[v] = gvpu[v]
    BY <1>3, <1>4, <1>5, IdleIsState DEF UnitsOK
  <1>8. /\ memcore' \in [Units -> [state : MemcoreStates, loaded : MemcoreStates, addr : 0 .. MEM,
                                   left : Nat, reading : BOOLEAN]]
        /\ memcore'[u].state = "IDLE" /\ memcore'[u].loaded = memcore[u].loaded
        /\ memcore'[u].addr = memcore[u].addr /\ memcore'[u].left = memcore[u].left
        /\ memcore'[u].reading = memcore[u].reading
        /\ \A v \in Units : v # u => memcore'[v] = memcore[v]
    BY <1>3, <1>4, <1>5, IdleIsState DEF UnitsOK
  <1>9. /\ subcore' \in [phase : {"idle", "running", "finishing"}, state : SubcoreStates,
                         unit : Units \cup {NULL}, bursts : Nat]
        /\ subcore'.phase = "finishing" /\ subcore'.bursts = subcore.bursts
    BY <1>4 DEF Finishing, BoardTypeOK
  <1>10. BoardTypeOK'
    BY <1>2, <1>4, <1>6, <1>7, <1>8, <1>9 DEF BoardTypeOK
  <1>11. /\ g.unit = u /\ g.sc.st = "quiet" /\ g.sc.bu = d.sc.bu /\ g.ag.st = "IDLE"
         /\ g.ag.ld = "IDLE" /\ g.gv.st = "IDLE" /\ g.gv.ld = d.gv.ld /\ g.mc.st = {"IDLE"}
         /\ g.mc.ld = d.mc.ld /\ g.mc.addr = d.mc.addr /\ g.mc.left = d.mc.left
         /\ g.mc.rd = d.mc.rd /\ g.st = d.st /\ g.h = NoPrep(d.h, d.h.mem, d.h.read)
    BY <1>1 DEF V, SC, AG, GV, MC
  <1>12. UnitAs(g)'  BY <1>3, <1>6, <1>7, <1>8, <1>11 DEF UnitAs
  <1>13. mem' = d.h.mem /\ read_data' = d.h.read  BY <1>2, <1>4 DEF At, HostAs
  <1>14. HostAs(g)' /\ StatusAs(g)' /\ DmaInsideMap'  BY <1>2, <1>11, <1>13, StartHost
  <1>15. OthersKept(u)  BY <1>6, <1>7, <1>8 DEF OthersKept
  <1>16. subcore'.bursts = g.sc.bu  BY <1>9, <1>11 DEF At
  <1>17. At(g)'  BY <1>9, <1>11, <1>12, <1>14, <1>15, <1>16, QuietAt
  <1> QED  BY <1>2, <1>4, <1>10, <1>14, <1>17 DEF Sound

(* The bursts counted and the phase entered.                               *)
LEMMA SubcoreMoves ==
    ASSUME BoardTypeOK, NEW b \in Nat, NEW f \in {"idle", "running", "finishing"},
           subcore' = [subcore EXCEPT !.bursts = b, !.phase = f]
    PROVE  /\ subcore' \in [phase : {"idle", "running", "finishing"}, state : SubcoreStates,
                            unit : Units \cup {NULL}, bursts : Nat]
           /\ subcore'.phase = f /\ subcore'.bursts = b
           /\ subcore'.state = subcore.state /\ subcore'.unit = subcore.unit
  <1>1. subcore' = [phase |-> f, state |-> subcore.state, unit |-> subcore.unit, bursts |-> b]
    BY DEF BoardTypeOK
  <1> QED  BY <1>1 DEF BoardTypeOK

(* artix_setup_stim: the test takes the burst.                             *)
LEMMA SetupSound ==
    ASSUME BoardTypeOK, NEW d, NEW g, At(d), d.h.prep \in Transfers, StepSetup(d, g), IssueStart
    PROVE  Sound(g)
  <1> DEFINE u == d.unit
             data == d.h.prep.data
             n == Len(data) \div BURST
  <1>1. /\ d.sc.st = "DMA_WRITE" /\ d.h.prep.dir = "tx"
        /\ d.ag.st = "GVPU_WRITE" /\ d.gv.st = "TEST_SETUP" /\ d.sc.bu = n
        /\ g = V(d.unit, SC("quiet", 0), AG("IDLE", d.ag.ld), GV("IDLE", d.gv.ld), d.mc, d.st,
                 NoPrep(d.h, d.h.mem, d.h.read))
    BY DEF StepSetup
  <1>2. /\ fault = "none" /\ prepared' = NULL /\ UNCHANGED <<call, calls, alloc_offset, status>>
        /\ DmaToBoard(data) /\ UNCHANGED read_data
    BY <1>1, StartIs
  <1>3. /\ Running("DMA_WRITE") /\ subcore.unit = u /\ UnitAs(d) /\ u \in Units
        /\ ~Running("CONFIG_SETUP")
    BY <1>1, RunningAt DEF Loose
  <1>4. agent[u].state = "GVPU_WRITE" /\ gvpu[u].state = "TEST_SETUP" /\ subcore.bursts = n
    BY <1>1, <1>3 DEF UnitAs, At
  <1> HIDE DEF data, n
  <1>5. /\ subcore' = [subcore EXCEPT !.bursts = @ - n, !.phase = "finishing"]
        /\ agent' = [agent EXCEPT ![u].state = "IDLE"]
        /\ gvpu' = [gvpu EXCEPT ![u].state = "IDLE"]
        /\ UNCHANGED <<memcore, mem, fault>>
    BY <1>2, <1>3, <1>4 DEF DmaToBoard, Idle, n
  <1>6. UnitsOK  BY DEF BoardTypeOK, UnitsOK
  <1>7. /\ agent' \in [Units -> [state : AgentStates, loaded : AgentStates, started : BOOLEAN]]
        /\ agent'[u].state = "IDLE" /\ agent'[u].loaded = agent[u].loaded
        /\ \A v \in Units : v # u => agent'[v] = agent[v]
    BY <1>3, <1>5, <1>6, IdleIsState DEF UnitsOK
  <1>8. /\ gvpu' \in [Units -> [state : GvpuStates, loaded : GvpuStates]]
        /\ gvpu'[u].state = "IDLE" /\ gvpu'[u].loaded = gvpu[u].loaded
        /\ \A v \in Units : v # u => gvpu'[v] = gvpu[v]
    BY <1>3, <1>5, <1>6, IdleIsState DEF UnitsOK
  <1>9. /\ subcore' \in [phase : {"idle", "running", "finishing"}, state : SubcoreStates,
                         unit : Units \cup {NULL}, bursts : Nat]
        /\ subcore'.phase = "finishing" /\ subcore'.bursts = 0
    <2>1. n \in Nat /\ n - n = 0  BY <1>4 DEF BoardTypeOK
    <2>2. subcore' = [subcore EXCEPT !.bursts = 0, !.phase = "finishing"]
      BY <1>4, <1>5, <2>1 DEF BoardTypeOK
    <2> QED  BY <2>2, SubcoreMoves
  <1>10. BoardTypeOK'  BY <1>2, <1>5, <1>7, <1>8, <1>9 DEF BoardTypeOK
  <1>11. /\ g.unit = u /\ g.sc.st = "quiet" /\ g.sc.bu = 0 /\ g.ag.st = "IDLE"
         /\ g.ag.ld = d.ag.ld /\ g.gv.st = "IDLE" /\ g.gv.ld = d.gv.ld /\ g.mc = d.mc
         /\ g.st = d.st /\ g.h = NoPrep(d.h, d.h.mem, d.h.read)
    BY <1>1 DEF V, SC, AG, GV
  <1>12. UnitAs(g)'  BY <1>3, <1>5, <1>7, <1>8, <1>11 DEF UnitAs
  <1>13. mem' = d.h.mem /\ read_data' = d.h.read  BY <1>2, <1>5 DEF At, HostAs
  <1>14. HostAs(g)' /\ StatusAs(g)' /\ DmaInsideMap'  BY <1>2, <1>11, <1>13, StartHost
  <1>15. OthersKept(u)  BY <1>5, <1>7, <1>8 DEF OthersKept
  <1>16. At(g)'  BY <1>9, <1>11, <1>12, <1>14, <1>15, QuietAt
  <1> QED  BY <1>2, <1>5, <1>10, <1>14, <1>16 DEF Sound

(* A unit that takes words goes on at the next ones.                       *)
LEMMA MemcoreMoves ==
    ASSUME UnitsOK, NEW u \in Units, NEW a \in 0 .. MEM, NEW k \in Nat,
           NEW s \in MemcoreStates, NEW b \in BOOLEAN,
           memcore' = [memcore EXCEPT ![u] = [state |-> s, loaded |-> memcore[u].loaded, addr |-> a,
                                              left |-> k, reading |-> b]]
    PROVE  /\ memcore' \in [Units -> [state : MemcoreStates, loaded : MemcoreStates,
                                      addr : 0 .. MEM, left : Nat, reading : BOOLEAN]]
           /\ memcore'[u].state = s /\ memcore'[u].loaded = memcore[u].loaded
           /\ memcore'[u].addr = a /\ memcore'[u].left = k /\ memcore'[u].reading = b
           /\ \A v \in Units : v # u => memcore'[v] = memcore[v]
  <1> DEFINE r == [state |-> s, loaded |-> memcore[u].loaded, addr |-> a, left |-> k, reading |-> b]
  <1>1. r \in [state : MemcoreStates, loaded : MemcoreStates, addr : 0 .. MEM, left : Nat,
               reading : BOOLEAN]
    BY DEF UnitsOK
  <1>2. r.state = s /\ r.loaded = memcore[u].loaded /\ r.addr = a /\ r.left = k /\ r.reading = b
    OBVIOUS
  <1>3. memcore' = [memcore EXCEPT ![u] = r]  OBVIOUS
  <1> HIDE DEF r
  <1> QED  BY <1>1, <1>2, <1>3 DEF UnitsOK

(* Agent and gvpu of a unit come to rest.                                  *)
LEMMA UnitIdles ==
    ASSUME UnitsOK, NEW u \in Units, agent' = [agent EXCEPT ![u].state = "IDLE"],
           gvpu' = [gvpu EXCEPT ![u].state = "IDLE"]
    PROVE  /\ agent' \in [Units -> [state : AgentStates, loaded : AgentStates, started : BOOLEAN]]
           /\ gvpu' \in [Units -> [state : GvpuStates, loaded : GvpuStates]]
           /\ agent'[u].state = "IDLE" /\ agent'[u].loaded = agent[u].loaded
           /\ gvpu'[u].state = "IDLE" /\ gvpu'[u].loaded = gvpu[u].loaded
           /\ \A v \in Units : v # u => agent'[v] = agent[v] /\ gvpu'[v] = gvpu[v]
  <1>1. /\ agent' \in [Units -> [state : AgentStates, loaded : AgentStates, started : BOOLEAN]]
        /\ agent'[u].state = "IDLE" /\ agent'[u].loaded = agent[u].loaded
        /\ \A v \in Units : v # u => agent'[v] = agent[v]
    BY IdleIsState DEF UnitsOK
  <1>2. /\ gvpu' \in [Units -> [state : GvpuStates, loaded : GvpuStates]]
        /\ gvpu'[u].state = "IDLE" /\ gvpu'[u].loaded = gvpu[u].loaded
        /\ \A v \in Units : v # u => gvpu'[v] = gvpu[v]
    BY IdleIsState DEF UnitsOK
  <1> QED  BY <1>1, <1>2

(* Words put into memory leave a memory.                                   *)
LEMMA PutIsMemory ==
    ASSUME NEW m \in Memory, NEW u \in Units, NEW a \in Nat, NEW data \in Seq(Words)
    PROVE  Put(m, u, a, data) \in Memory
  <1> DEFINE row == [w \in DOMAIN m[u] |->
                       IF w \in a .. a + Len(data) - 1 THEN data[w - a + 1] ELSE m[u][w]]
  <1>1. m[u] \in [0 .. MEM - 1 -> Words]  BY DEF Memory
  <1>2. \A w \in 0 .. MEM - 1 : w \in a .. a + Len(data) - 1 => data[w - a + 1] \in Words
    <2> SUFFICES ASSUME NEW w \in 0 .. MEM - 1, w \in a .. a + Len(data) - 1
                 PROVE  data[w - a + 1] \in Words
      OBVIOUS
    <2>1. w - a + 1 \in 1 .. Len(data)  OBVIOUS
    <2> QED  BY <2>1
  <1>3. row \in [0 .. MEM - 1 -> Words]  BY <1>1, <1>2
  <1>4. Put(m, u, a, data) = [m EXCEPT ![u] = row]  BY DEF Put, Memory
  <1> HIDE DEF row
  <1> QED  BY <1>3, <1>4 DEF Memory

(* artix_mem_write: memcore takes the words, and counts their bursts.      *)
LEMMA SendSound ==
    ASSUME BoardTypeOK, NEW d, NEW g, At(d), d.h.prep \in Transfers, StepSend(d, g), IssueStart
    PROVE  Sound(g)
  <1> DEFINE u == d.unit
             data == d.h.prep.data
             n == Len(data) \div BURST
             last == n = d.sc.bu
             k == d.sc.bu
             a == d.mc.addr
  <1>1. /\ d.sc.st = "DMA_WRITE" /\ d.h.prep.dir = "tx"
        /\ d.ag.st = "GVPU_WRITE" /\ d.gv.st = "MEM_WRITE"
        /\ d.mc.st = {"MEMCORE_WRITE_BURST"}
        /\ k \in Nat /\ n <= k /\ d.mc.left = k
        /\ a \in 0 .. MEM /\ a + Len(data) <= MEM
        /\ g = V(u, SC(IF last THEN "quiet" ELSE "DMA_WRITE", k - n),
                 AG(IF last THEN "IDLE" ELSE "GVPU_WRITE", d.ag.ld),
                 GV(IF last THEN "IDLE" ELSE "MEM_WRITE", d.gv.ld),
                 MC(IF last THEN {"IDLE"} ELSE {"MEMCORE_WRITE_BURST"}, d.mc.ld,
                    a + Len(data), k - n, d.mc.rd),
                 d.st, NoPrep(d.h, Put(d.h.mem, u, a, data), d.h.read))
    BY DEF StepSend
  <1>2. /\ fault = "none" /\ prepared' = NULL /\ UNCHANGED <<call, calls, alloc_offset, status>>
        /\ DmaToBoard(data) /\ UNCHANGED read_data /\ data \in Seq(Words)
    BY <1>1, StartIs
  <1>3. /\ Running("DMA_WRITE") /\ subcore.unit = u /\ UnitAs(d) /\ u \in Units
        /\ ~Running("CONFIG_SETUP")
    BY <1>1, RunningAt DEF Loose
  <1>4. /\ agent[u].state = "GVPU_WRITE" /\ gvpu[u].state = "MEM_WRITE" /\ subcore.bursts = k
        /\ memcore[u].state = "MEMCORE_WRITE_BURST" /\ memcore[u].left = k /\ memcore[u].addr = a
        /\ memcore[u].reading = d.mc.rd /\ mem = d.h.mem /\ read_data = d.h.read
    <2>1. k # Unknown /\ a # Unknown  BY <1>1 DEF Unknown
    <2> QED  BY <1>1, <1>3, <2>1 DEF UnitAs, At, HostAs
  <1>5. /\ n \in Nat /\ k - n \in Nat /\ Len(data) \in Nat /\ a \in Nat
        /\ a + Len(data) \in 0 .. MEM /\ (last <=> k = n)
    <2>1. Len(data) \in Nat /\ BURST \in Nat \ {0} /\ MEM \in Nat  BY <1>2, BoardAssumption
    <2>2. n \in Nat  BY <2>1, DivMod
    <2>3. last <=> k = n  OBVIOUS
    <2> HIDE DEF data, n, k, a, last
    <2> QED  BY <1>1, <2>1, <2>2, <2>3
  <1> HIDE DEF data, n, k, a
  <1>6. /\ subcore' = [subcore EXCEPT !.bursts = @ - n, !.phase = IF last THEN "finishing" ELSE @]
        /\ agent' = IF last THEN [agent EXCEPT ![u].state = "IDLE"] ELSE agent
        /\ gvpu'  = IF last THEN [gvpu EXCEPT ![u].state = "IDLE"] ELSE gvpu
        /\ memcore' = [memcore EXCEPT ![u].addr = @ + Len(data), ![u].left = @ - n,
                                      ![u].state = IF last THEN "IDLE" ELSE @]
        /\ mem' = Put(mem, u, a, data)
        /\ UNCHANGED fault
    <2> DEFINE q == Len(data) \div BURST
    <2>1. q = n  BY DEF n
    <2> HIDE DEF q
    <2>2. /\ subcore' = [subcore EXCEPT !.bursts = @ - q,
                                        !.phase = IF q = subcore.bursts THEN "finishing" ELSE @]
          /\ agent' = IF q = subcore.bursts THEN [agent EXCEPT ![u].state = "IDLE"] ELSE agent
          /\ gvpu'  = IF q = subcore.bursts THEN [gvpu EXCEPT ![u].state = "IDLE"] ELSE gvpu
          /\ memcore' = [memcore EXCEPT ![u].addr = @ + Len(data), ![u].left = @ - q,
                                        ![u].state = IF memcore[u].left = q THEN "IDLE" ELSE @]
          /\ UNCHANGED fault
      BY <1>2, <1>3, <1>4 DEF DmaToBoard, Idle, q
    <2>3. mem' = [mem EXCEPT ![u] = [w \in DOMAIN @ |->
                    IF w \in a .. a + Len(data) - 1 THEN data[w - a + 1] ELSE @[w]]]
      BY <1>2, <1>3, <1>4 DEF DmaToBoard
    <2>4. mem' = Put(mem, u, a, data)  BY <2>3 DEF Put
    <2>5. (q = subcore.bursts <=> last) /\ (memcore[u].left = q <=> last)  BY <1>4, <1>5, <2>1
    <2> HIDE DEF last
    <2> QED  BY <2>1, <2>2, <2>4, <2>5
  <1>7. UnitsOK  BY DEF BoardTypeOK, UnitsOK
  <1> DEFINE s == IF last THEN "IDLE" ELSE "MEMCORE_WRITE_BURST"
  <1>8. /\ memcore' \in [Units -> [state : MemcoreStates, loaded : MemcoreStates, addr : 0 .. MEM,
                                   left : Nat, reading : BOOLEAN]]
        /\ memcore'[u].state = s /\ memcore'[u].loaded = memcore[u].loaded
        /\ memcore'[u].addr = a + Len(data) /\ memcore'[u].left = k - n
        /\ memcore'[u].reading = memcore[u].reading
        /\ \A v \in Units : v # u => memcore'[v] = memcore[v]
    <2> DEFINE r == [state |-> s, loaded |-> memcore[u].loaded, addr |-> a + Len(data),
                     left |-> k - n, reading |-> memcore[u].reading]
               m1 == [memcore EXCEPT ![u].addr = a + Len(data)]
               m2 == [m1 EXCEPT ![u].left = k - n]
               m3 == [m2 EXCEPT ![u].state = s]
    <2>1. s \in MemcoreStates  BY DEF MemcoreStates
    <2>2. memcore[u].reading \in BOOLEAN  BY <1>3, <1>7 DEF UnitsOK
    <2>3. memcore' = m3
      <3>1. DOMAIN memcore = Units  BY <1>7 DEF UnitsOK
      <3>2. CASE last  BY <1>3, <1>4, <1>6, <1>7, <3>1, <3>2 DEF UnitsOK
      <3>3. CASE ~last  BY <1>3, <1>4, <1>6, <1>7, <3>1, <3>3 DEF UnitsOK
      <3> QED  BY <3>2, <3>3
    <2> HIDE DEF s
    <2>4. m3[u] = r  BY <1>3, <1>7, ZenonT(60) DEF UnitsOK
    <2>5. memcore' = [memcore EXCEPT ![u] = r]  BY <1>3, <1>7, <2>3, <2>4 DEF UnitsOK
    <2> QED  BY <1>3, <1>5, <1>7, <2>1, <2>2, <2>5, MemcoreMoves, ZenonT(60)
  <1>9. /\ subcore' \in [phase : {"idle", "running", "finishing"}, state : SubcoreStates,
                         unit : Units \cup {NULL}, bursts : Nat]
        /\ subcore'.phase = (IF last THEN "finishing" ELSE "running") /\ subcore'.bursts = k - n
        /\ subcore'.state = subcore.state /\ subcore'.unit = subcore.unit
    <2>1. subcore' = [subcore EXCEPT !.bursts = k - n,
                                     !.phase = IF last THEN "finishing" ELSE "running"]
      BY <1>3, <1>4, <1>6 DEF BoardTypeOK, Running
    <2>2. (IF last THEN "finishing" ELSE "running") \in {"idle", "running", "finishing"}  OBVIOUS
    <2> QED  BY <1>5, <2>1, <2>2, SubcoreMoves
  <1>10. /\ agent' \in [Units -> [state : AgentStates, loaded : AgentStates, started : BOOLEAN]]
         /\ gvpu' \in [Units -> [state : GvpuStates, loaded : GvpuStates]]
         /\ agent'[u].state = (IF last THEN "IDLE" ELSE "GVPU_WRITE")
         /\ agent'[u].loaded = agent[u].loaded
         /\ gvpu'[u].state = (IF last THEN "IDLE" ELSE "MEM_WRITE")
         /\ gvpu'[u].loaded = gvpu[u].loaded
         /\ \A v \in Units : v # u => agent'[v] = agent[v] /\ gvpu'[v] = gvpu[v]
    <2>1. CASE last  BY <1>3, <1>6, <1>7, <2>1, UnitIdles, ZenonT(60)
    <2>2. CASE ~last  BY <1>3, <1>4, <1>6, <1>7, <2>2 DEF UnitsOK
    <2> QED  BY <2>1, <2>2
  <1>11. mem' \in Memory
    BY <1>2, <1>3, <1>5, <1>6, PutIsMemory DEF BoardTypeOK
  <1>12. BoardTypeOK'  BY <1>2, <1>6, <1>8, <1>9, <1>10, <1>11 DEF BoardTypeOK
  <1>13. /\ g.unit = u /\ g.sc.st = (IF last THEN "quiet" ELSE "DMA_WRITE") /\ g.sc.bu = k - n
         /\ g.ag.st = (IF last THEN "IDLE" ELSE "GVPU_WRITE")
         /\ g.ag.ld = d.ag.ld /\ g.gv.st = (IF last THEN "IDLE" ELSE "MEM_WRITE")
         /\ g.gv.ld = d.gv.ld
         /\ g.mc.st = (IF last THEN {"IDLE"} ELSE {"MEMCORE_WRITE_BURST"}) /\ g.mc.ld = d.mc.ld
         /\ g.mc.addr = a + Len(data) /\ g.mc.left = k - n /\ g.mc.rd = d.mc.rd
         /\ g.st = d.st /\ g.h = NoPrep(d.h, Put(d.h.mem, u, a, data), d.h.read)
    BY <1>1 DEF V, SC, AG, GV, MC
  <1>14. UnitAs(g)'
    <2>1. memcore'[u].state \in g.mc.st  BY <1>8, <1>13
    <2> HIDE DEF s, last
    <2>2. agent'[u].state = g.ag.st /\ gvpu'[u].state = g.gv.st  BY <1>10, <1>13
    <2> QED  BY <1>3, <1>4, <1>8, <1>10, <1>13, <2>1, <2>2 DEF UnitAs
  <1>15. HostAs(g)' /\ StatusAs(g)' /\ DmaInsideMap'
    <2>1. mem' = Put(d.h.mem, u, a, data) /\ read_data' = d.h.read  BY <1>2, <1>4, <1>6
    <2> QED  BY <1>2, <1>13, <2>1, StartHost
  <1>16. OthersKept(u)  BY <1>8, <1>10 DEF OthersKept
  <1>17. At(g)'
    <2>1. CASE last  BY <1>9, <1>13, <1>14, <1>15, <1>16, <2>1, QuietAt
    <2>2. CASE ~last
      <3>1. g.sc.st = "DMA_WRITE" /\ subcore'.phase = "running"  BY <1>9, <1>13, <2>2
      <3>2. SubcoreAs(g)'  BY <1>3, <1>9, <1>13, <3>1 DEF SubcoreAs, Running, Loose
      <3>3. \A v \in Units : v # u => UnitRests(v)'  BY <1>16 DEF At, UnitRests, OthersKept
      <3> QED  BY <1>3, <1>9, <1>13, <1>14, <1>15, <3>1, <3>2, <3>3 DEF At
    <2> QED  BY <2>1, <2>2
  <1> QED  BY <1>2, <1>6, <1>12, <1>15, <1>17 DEF Sound

(* The fail pins: the test gives its burst.                                *)
LEMMA PinsSound ==
    ASSUME BoardTypeOK, NEW d, NEW g, At(d), d.h.prep \in Transfers, StepPins(d, g), IssueStart
    PROVE  Sound(g)
  <1> DEFINE u == d.unit
             size == d.h.prep.size
  <1>1. /\ d.sc.st = "DMA_READ" /\ d.h.prep.dir = "rx"
        /\ d.ag.st = "GVPU_READ" /\ d.gv.st = "TEST_FAIL_PINS"
        /\ d.sc.bu \in Nat /\ d.sc.bu * BURST >= size
        /\ g = V(d.unit, SC("quiet", 0), AG("IDLE", d.ag.ld), GV("IDLE", d.gv.ld), d.mc, d.st,
                 NoPrep(d.h, d.h.mem, d.h.read))
    BY DEF StepPins
  <1>2. /\ fault = "none" /\ prepared' = NULL /\ UNCHANGED <<call, calls, alloc_offset, status>>
        /\ DmaFromBoard(size, d.h.prep.to) /\ size \in Nat
    BY <1>1, StartIs
  <1>3. Running("DMA_READ") /\ subcore.unit = u /\ UnitAs(d) /\ u \in Units
    BY <1>1, RunningAt DEF Loose
  <1>4. /\ agent[u].state = "GVPU_READ" /\ gvpu[u].state = "TEST_FAIL_PINS"
        /\ subcore.bursts = d.sc.bu /\ mem = d.h.mem /\ read_data = d.h.read
    BY <1>1, <1>3 DEF UnitAs, At, HostAs
  <1>5. subcore.bursts * BURST >= size /\ ~(subcore.bursts * BURST < size)
    <2>1. subcore.bursts * BURST \in Nat  BY <1>1, <1>4, BoardAssumption
    <2> HIDE DEF size
    <2> QED  BY <1>1, <1>2, <1>4, <2>1
  <1> HIDE DEF size
  <1>6. /\ subcore' = [Finishing EXCEPT !.bursts = 0]
        /\ agent' = [agent EXCEPT ![u].state = "IDLE"]
        /\ gvpu' = [gvpu EXCEPT ![u].state = "IDLE"]
        /\ UNCHANGED <<memcore, read_data, mem, fault>>
    BY <1>2, <1>3, <1>4, <1>5 DEF DmaFromBoard, Idle
  <1>7. UnitsOK  BY DEF BoardTypeOK, UnitsOK
  <1>8. /\ agent' \in [Units -> [state : AgentStates, loaded : AgentStates, started : BOOLEAN]]
        /\ gvpu' \in [Units -> [state : GvpuStates, loaded : GvpuStates]]
        /\ agent'[u].state = "IDLE" /\ agent'[u].loaded = agent[u].loaded
        /\ gvpu'[u].state = "IDLE" /\ gvpu'[u].loaded = gvpu[u].loaded
        /\ \A v \in Units : v # u => agent'[v] = agent[v] /\ gvpu'[v] = gvpu[v]
    BY <1>3, <1>6, <1>7, UnitIdles
  <1>9. /\ subcore' \in [phase : {"idle", "running", "finishing"}, state : SubcoreStates,
                         unit : Units \cup {NULL}, bursts : Nat]
        /\ subcore'.phase = "finishing" /\ subcore'.bursts = 0
    <2>1. subcore' = [subcore EXCEPT !.bursts = 0, !.phase = "finishing"]
      BY <1>6 DEF Finishing, BoardTypeOK
    <2> QED  BY <2>1, SubcoreMoves
  <1>10. BoardTypeOK'  BY <1>2, <1>6, <1>8, <1>9 DEF BoardTypeOK
  <1>11. /\ g.unit = u /\ g.sc.st = "quiet" /\ g.sc.bu = 0 /\ g.ag.st = "IDLE"
         /\ g.ag.ld = d.ag.ld /\ g.gv.st = "IDLE" /\ g.gv.ld = d.gv.ld /\ g.mc = d.mc
         /\ g.st = d.st /\ g.h = NoPrep(d.h, d.h.mem, d.h.read)
    BY <1>1 DEF V, SC, AG, GV
  <1>12. UnitAs(g)'  BY <1>3, <1>6, <1>8, <1>11 DEF UnitAs
  <1>13. mem' = d.h.mem /\ read_data' = d.h.read  BY <1>4, <1>6
  <1>14. HostAs(g)' /\ StatusAs(g)' /\ DmaInsideMap'  BY <1>2, <1>11, <1>13, StartHost
  <1>15. OthersKept(u)  BY <1>6, <1>8 DEF OthersKept
  <1>16. At(g)'  BY <1>9, <1>11, <1>12, <1>14, <1>15, QuietAt
  <1> QED  BY <1>2, <1>6, <1>10, <1>14, <1>16 DEF Sound

(* artix_mem_read: memcore gives its words; when there are fewer than the  *)
(* driver waits for, the call ends at its time limit.                      *)
LEMMA FetchSound ==
    ASSUME BoardTypeOK, NEW d, NEW g, At(d), d.h.prep \in Transfers, StepFetch(d, g), IssueStart
    PROVE  Sound(g)
  <1> DEFINE u == d.unit
             n == d.sc.bu
             k == d.mc.left
             a == d.mc.addr
             last == k = n
             size == d.h.prep.size
             to == d.h.prep.to
             q == n * BURST
  <1>1. /\ d.sc.st = "DMA_READ" /\ d.h.prep.dir = "rx"
        /\ d.ag.st = "GVPU_READ" /\ d.gv.st = "MEM_READ" /\ d.mc.rd = TRUE
        /\ n \in Nat /\ k \in Nat /\ n <= k /\ a \in 0 .. MEM /\ a + q <= MEM
        /\ \/ q < size
           \/ /\ q >= size
              /\ g = V(u, SC("quiet", 0), AG(IF last THEN "IDLE" ELSE "GVPU_READ", d.ag.ld),
                       GV(IF last THEN "IDLE" ELSE "MEM_READ", d.gv.ld),
                       MC(IF last THEN {"IDLE"} ELSE d.mc.st, d.mc.ld,
                          a + q, k - n, IF last THEN FALSE ELSE TRUE), d.st,
                       NoPrep(d.h, d.h.mem, Got(d.h.read, d.h.mem, u, a, size, to)))
    BY DEF StepFetch
  <1>2. /\ fault = "none" /\ prepared' = NULL /\ UNCHANGED <<call, calls, alloc_offset, status>>
        /\ DmaFromBoard(size, to) /\ size \in Nat /\ to \in Nat
    BY <1>1, StartIs
  <1>3. Running("DMA_READ") /\ subcore.unit = u /\ UnitAs(d) /\ u \in Units
    BY <1>1, RunningAt DEF Loose
  <1>4. /\ agent[u].state = "GVPU_READ" /\ gvpu[u].state = "MEM_READ" /\ subcore.bursts = n
        /\ memcore[u].state \in d.mc.st /\ memcore[u].left = k /\ memcore[u].addr = a
        /\ memcore[u].reading = TRUE /\ mem = d.h.mem /\ read_data = d.h.read
    <2>1. k # Unknown /\ a # Unknown  BY <1>1 DEF Unknown
    <2> QED  BY <1>1, <1>3, <2>1 DEF UnitAs, At, HostAs
  <1>5. /\ q \in Nat /\ k - n \in Nat /\ a \in Nat /\ a + q \in 0 .. MEM
        /\ (last <=> k = n) /\ subcore.bursts * BURST = q
    <2>1. q \in Nat /\ MEM \in Nat  BY <1>1, BoardAssumption
    <2>2. (last <=> k = n) /\ subcore.bursts * BURST = q  BY <1>4
    <2> HIDE DEF n, k, a, q, last
    <2> QED  BY <1>1, <2>1, <2>2
  <1>6. UnitsOK  BY DEF BoardTypeOK, UnitsOK
  <1> HIDE DEF n, k, a, size, to, q
  <1>7. CASE q < size
    <2>1. fault' = "timeout" /\ UNCHANGED <<boardVars, read_data>>
      <3>1. ~(subcore.bursts * BURST >= size) /\ subcore.bursts * BURST < size
        BY <1>2, <1>5, <1>7
      <3> QED  BY <1>2, <1>3, <1>4, <3>1 DEF DmaFromBoard
    <2>2. BoardTypeOK' /\ DmaInsideMap'
      BY <1>2, <2>1 DEF BoardTypeOK, boardVars, DmaInsideMap
    <2> QED  BY <2>1, <2>2 DEF Sound
  <1>8. CASE q >= size /\ ~(q < size)
    <2>1. /\ subcore' = [Finishing EXCEPT !.bursts = 0]
          /\ agent' = IF last THEN [agent EXCEPT ![u].state = "IDLE"] ELSE agent
          /\ gvpu'  = IF last THEN [gvpu EXCEPT ![u].state = "IDLE"] ELSE gvpu
          /\ memcore' = [memcore EXCEPT ![u].addr = @ + q, ![u].left = @ - n,
                            ![u].state = IF last THEN "IDLE" ELSE @, ![u].reading = ~last]
          /\ read_data' = Got(d.h.read, d.h.mem, u, a, size, to)
          /\ UNCHANGED <<mem, fault>>
      <3>1. subcore.bursts * BURST >= size /\ ~(subcore.bursts * BURST < size)
        BY <1>5, <1>8
      <3> DEFINE w == subcore.bursts * BURST
                 l == memcore[u].left = subcore.bursts
      <3>2. /\ subcore' = [Finishing EXCEPT !.bursts = 0]
            /\ agent' = IF l THEN [agent EXCEPT ![u].state = "IDLE"] ELSE agent
            /\ gvpu'  = IF l THEN [gvpu EXCEPT ![u].state = "IDLE"] ELSE gvpu
            /\ UNCHANGED <<mem, fault>>
        BY <1>2, <1>3, <1>4, <3>1 DEF DmaFromBoard, Idle
      <3>3. memcore' = [memcore EXCEPT ![u].addr = @ + w, ![u].left = @ - subcore.bursts,
                              ![u].state = IF l THEN "IDLE" ELSE @, ![u].reading = ~l]
        BY <1>2, <1>3, <1>4, <3>1, ZenonT(60) DEF DmaFromBoard
      <3>4. read_data' = [i \in DOMAIN read_data |->
                            IF i \in to .. to + size - 1 THEN mem[u][a + i - to] ELSE read_data[i]]
        BY <1>2, <1>3, <1>4, <3>1, ZenonT(60) DEF DmaFromBoard
      <3>5. read_data' = Got(d.h.read, d.h.mem, u, a, size, to)  BY <1>4, <3>4 DEF Got
      <3>6. w = q /\ (l <=> last) /\ l \in BOOLEAN /\ last \in BOOLEAN  BY <1>4, <1>5
      <3>7. l = last  BY <3>6
      <3> HIDE DEF w, l, last
      <3> QED  BY <1>4, <3>2, <3>3, <3>5, <3>6, <3>7
    <2> DEFINE s == IF last THEN "IDLE" ELSE memcore[u].state
    <2>2. /\ memcore' \in [Units -> [state : MemcoreStates, loaded : MemcoreStates, addr : 0 .. MEM,
                                     left : Nat, reading : BOOLEAN]]
          /\ memcore'[u].state = s /\ memcore'[u].loaded = memcore[u].loaded
          /\ memcore'[u].addr = a + q /\ memcore'[u].left = k - n
          /\ memcore'[u].reading = ~last
          /\ \A v \in Units : v # u => memcore'[v] = memcore[v]
      <3> DEFINE b == ~last
                 r == [state |-> s, loaded |-> memcore[u].loaded, addr |-> a + q,
                       left |-> k - n, reading |-> b]
                 m1 == [memcore EXCEPT ![u].addr = a + q]
                 m2 == [m1 EXCEPT ![u].left = k - n]
                 m3 == [m2 EXCEPT ![u].state = s]
                 m4 == [m3 EXCEPT ![u].reading = b]
      <3>1. s \in MemcoreStates  BY <1>3, <1>6, IdleIsState DEF UnitsOK
      <3>2. b \in BOOLEAN  OBVIOUS
      <3>4. memcore' = m4
        <4>1. memcore' = [memcore EXCEPT ![u].addr = @ + q, ![u].left = @ - n,
                              ![u].state = IF last THEN "IDLE" ELSE @, ![u].reading = b]
          BY <2>1
        <4>2. DOMAIN memcore = Units  BY <1>6 DEF UnitsOK
        <4> HIDE DEF b
        <4>3. CASE last  BY <1>3, <1>4, <1>6, <4>1, <4>2, <4>3 DEF UnitsOK
        <4>4. CASE ~last  BY <1>3, <1>4, <1>6, <4>1, <4>2, <4>4 DEF UnitsOK
        <4> QED  BY <4>3, <4>4
      <3> HIDE DEF s, b
      <3>5. m4[u] = r  BY <1>3, <1>6, ZenonT(60) DEF UnitsOK
      <3>6. memcore' = [memcore EXCEPT ![u] = r]  BY <1>3, <1>6, <3>4, <3>5 DEF UnitsOK
      <3>7. /\ memcore' \in [Units -> [state : MemcoreStates, loaded : MemcoreStates,
                                       addr : 0 .. MEM, left : Nat, reading : BOOLEAN]]
            /\ memcore'[u].state = s /\ memcore'[u].loaded = memcore[u].loaded
            /\ memcore'[u].addr = a + q /\ memcore'[u].left = k - n
            /\ memcore'[u].reading = b
            /\ \A v \in Units : v # u => memcore'[v] = memcore[v]
        BY <1>3, <1>5, <1>6, <3>1, <3>2, <3>6, MemcoreMoves, ZenonT(60)
      <3> QED  BY <3>7 DEF b
    <2>3. /\ subcore' \in [phase : {"idle", "running", "finishing"}, state : SubcoreStates,
                           unit : Units \cup {NULL}, bursts : Nat]
          /\ subcore'.phase = "finishing" /\ subcore'.bursts = 0
      <3>1. subcore' = [subcore EXCEPT !.bursts = 0, !.phase = "finishing"]
        BY <2>1 DEF Finishing, BoardTypeOK
      <3> QED  BY <3>1, SubcoreMoves
    <2>4. /\ agent' \in [Units -> [state : AgentStates, loaded : AgentStates, started : BOOLEAN]]
          /\ gvpu' \in [Units -> [state : GvpuStates, loaded : GvpuStates]]
          /\ agent'[u].state = (IF last THEN "IDLE" ELSE "GVPU_READ")
          /\ agent'[u].loaded = agent[u].loaded
          /\ gvpu'[u].state = (IF last THEN "IDLE" ELSE "MEM_READ")
          /\ gvpu'[u].loaded = gvpu[u].loaded
          /\ \A v \in Units : v # u => agent'[v] = agent[v] /\ gvpu'[v] = gvpu[v]
      <3>1. CASE last  BY <1>3, <1>6, <2>1, <3>1, UnitIdles
      <3>2. CASE ~last  BY <1>3, <1>4, <1>6, <2>1, <3>2 DEF UnitsOK
      <3> QED  BY <3>1, <3>2
    <2>5. BoardTypeOK'  BY <1>2, <2>1, <2>2, <2>3, <2>4 DEF BoardTypeOK
    <2>6. /\ g.unit = u /\ g.sc.st = "quiet" /\ g.sc.bu = 0
          /\ g.ag.st = (IF last THEN "IDLE" ELSE "GVPU_READ")
          /\ g.ag.ld = d.ag.ld /\ g.gv.st = (IF last THEN "IDLE" ELSE "MEM_READ")
          /\ g.gv.ld = d.gv.ld
          /\ g.mc.st = (IF last THEN {"IDLE"} ELSE d.mc.st) /\ g.mc.ld = d.mc.ld
          /\ g.mc.addr = a + q /\ g.mc.left = k - n /\ g.mc.rd = (IF last THEN FALSE ELSE TRUE)
          /\ g.st = d.st /\ g.h = NoPrep(d.h, d.h.mem, Got(d.h.read, d.h.mem, u, a, size, to))
      <3>1. /\ g.unit = u /\ g.sc = SC("quiet", 0)
            /\ g.ag = AG(IF last THEN "IDLE" ELSE "GVPU_READ", d.ag.ld)
            /\ g.gv = GV(IF last THEN "IDLE" ELSE "MEM_READ", d.gv.ld)
            /\ g.mc = MC(IF last THEN {"IDLE"} ELSE d.mc.st, d.mc.ld,
                         a + q, k - n, IF last THEN FALSE ELSE TRUE)
            /\ g.st = d.st /\ g.h = NoPrep(d.h, d.h.mem, Got(d.h.read, d.h.mem, u, a, size, to))
        <4>1. g = V(u, SC("quiet", 0), AG(IF last THEN "IDLE" ELSE "GVPU_READ", d.ag.ld),
                    GV(IF last THEN "IDLE" ELSE "MEM_READ", d.gv.ld),
                    MC(IF last THEN {"IDLE"} ELSE d.mc.st, d.mc.ld,
                       a + q, k - n, IF last THEN FALSE ELSE TRUE), d.st,
                    NoPrep(d.h, d.h.mem, Got(d.h.read, d.h.mem, u, a, size, to)))
          BY <1>1, <1>8
        <4> HIDE DEF last
        <4> QED  BY <4>1 DEF V
      <3>2. /\ g.mc.st = (IF last THEN {"IDLE"} ELSE d.mc.st) /\ g.mc.ld = d.mc.ld
            /\ g.mc.addr = a + q /\ g.mc.left = k - n
            /\ g.mc.rd = (IF last THEN FALSE ELSE TRUE)
        BY <3>1 DEF MC
      <3>3. /\ g.sc.st = "quiet" /\ g.sc.bu = 0
            /\ g.ag.st = (IF last THEN "IDLE" ELSE "GVPU_READ")
            /\ g.ag.ld = d.ag.ld /\ g.gv.st = (IF last THEN "IDLE" ELSE "MEM_READ")
            /\ g.gv.ld = d.gv.ld
        BY <3>1 DEF SC, AG, GV
      <3> QED  BY <3>1, <3>2, <3>3
    <2>7. UnitAs(g)'
      <3>1. memcore'[u].state \in g.mc.st  BY <1>4, <2>2, <2>6
      <3>2. memcore'[u].reading = g.mc.rd  BY <2>2, <2>6
      <3> HIDE DEF s, last
      <3>3. agent'[u].state = g.ag.st /\ gvpu'[u].state = g.gv.st  BY <2>4, <2>6
      <3>4. /\ g.unit = u /\ g.ag.ld = d.ag.ld /\ g.gv.ld = d.gv.ld /\ g.mc.ld = d.mc.ld
            /\ memcore'[u].addr = g.mc.addr /\ memcore'[u].left = g.mc.left
            /\ agent'[u].loaded = agent[u].loaded /\ gvpu'[u].loaded = gvpu[u].loaded
            /\ memcore'[u].loaded = memcore[u].loaded
        BY <2>2, <2>4, <2>6
      <3> QED  BY <1>3, <3>1, <3>2, <3>3, <3>4 DEF UnitAs
    <2>8. HostAs(g)' /\ StatusAs(g)' /\ DmaInsideMap'
      <3>1. mem' = d.h.mem /\ read_data' = Got(d.h.read, d.h.mem, u, a, size, to)
        BY <1>4, <2>1
      <3> QED  BY <1>2, <2>6, <3>1, StartHost
    <2>9. OthersKept(u)  BY <2>2, <2>4 DEF OthersKept
    <2>10. At(g)'  BY <2>3, <2>6, <2>7, <2>8, <2>9, QuietAt
    <2> QED  BY <1>2, <2>1, <2>5, <2>8, <2>10 DEF Sound
  <1>9. q < size \/ (q >= size /\ ~(q < size))  BY <1>2, <1>5
  <1> QED  BY <1>7, <1>8, <1>9

(* Every transfer started.                                                 *)
LEMMA StartSound ==
    ASSUME BoardTypeOK, NEW d, NEW g, At(d), StepOf(d, Head(todo), g), IssueStart
    PROVE  Sound(g)
  <1>1. StepStart(d, g)  BY StepIs DEF IssueStart, Command
  <1>2. d.h.prep \in Transfers  BY <1>1 DEF StepStart
  <1> QED
    BY <1>1, <1>2, ConfigSound, SetupSound, SendSound, PinsSound, FetchSound DEF StepStart

-----------------------------------------------------------------------------
(* The startup of a unit, which adds commands                              *)

(* A unit not yet started is started and then goes on as one that is.      *)
LEMMA StartupGoes ==
    ASSUME NEW d
    PROVE  Walk(WithSC(d, "down"), StartupCommands(d.unit), WithSC(d, "quiet"))
  <1> DEFINE dn == WithSC(d, "down")
             di == WithSC(d, "down_idle")
             ds == WithSC(d, "AGENT_STARTUP")
             dq == WithSC(d, "quiet")
             ld == [op |-> "load", unit |-> d.unit, state |-> "AGENT_STARTUP"]
  <1>1. \A s, r : WithSC(WithSC(d, s), r) = WithSC(d, r)  BY DEF WithSC, V, SC
  <1>2. /\ dn.sc.st = "down" /\ di.sc.st = "down_idle" /\ ds.sc.st = "AGENT_STARTUP"
        /\ di.unit = d.unit
    BY WithSCParts
  <1>3. WithSC(dn, "down_idle") = di /\ WithSC(di, "AGENT_STARTUP") = ds /\ WithSC(ds, "quiet") = dq
    BY <1>1
  <1> HIDE DEF dn, di, ds, dq
  <1>4. StepOf(dn, [op |-> "idle"], di)  BY <1>2, <1>3 DEF StepOf, StepIdle
  <1>5. StepOf(di, ld, ds)  BY <1>2, <1>3 DEF StepOf, StepLoad, SubcoreStates
  <1>6. StepOf(ds, [op |-> "read"], dq)  BY <1>2, <1>3 DEF StepOf, StepRead
  <1>7. StepOf(dq, [op |-> "check_init"], dq)  BY DEF StepOf
  <1>8. Walk(dn, subcore_idle, di)  BY <1>4, WalkOne DEF subcore_idle
  <1>9. Walk(di, subcore_load(d.unit, "AGENT_STARTUP"), ds)  BY <1>5, WalkOne DEF subcore_load
  <1>10. Walk(ds, subcore_read_packet, dq)  BY <1>6, WalkOne DEF subcore_read_packet
  <1>11. Walk(dq, CheckInit, dq)  BY <1>7, WalkOne DEF CheckInit
  <1>12. Walk(dn, helper_subcore_load(d.unit, "AGENT_STARTUP"), ds)
    BY <1>8, <1>9, WalkBoth DEF helper_subcore_load
  <1>13. Walk(dn, helper_subcore_load(d.unit, "AGENT_STARTUP") \o subcore_read_packet, dq)
    BY <1>10, <1>12, WalkBoth
  <1> QED  BY <1>11, <1>13, WalkBoth DEF StartupCommands, dn, dq

(* While subcore waits for bursts the startup waits as well.               *)
LEMMA StartupStuck ==
    ASSUME NEW d, d.sc.st = "DMA_WRITE"
    PROVE  Walk(d, StartupCommands(d.unit), Stuck)
  <1>1. StepOf(d, [op |-> "idle"], Stuck)  BY DEF StepOf, StepIdle
  <1>2. Walk(d, subcore_idle, Stuck)  BY <1>1, WalkOne DEF subcore_idle
  <1>3. /\ IsSeq(subcore_load(d.unit, "AGENT_STARTUP")) /\ IsSeq(subcore_read_packet)
        /\ IsSeq(CheckInit)
    <2>1. \A c : <<c>> \in Seq({c})  OBVIOUS
    <2>2. \A c : IsSeq(<<c>>)  BY <2>1 DEF IsSeq
    <2> QED  BY <2>2 DEF subcore_load, subcore_read_packet, CheckInit
  <1>4. Walk(d, helper_subcore_load(d.unit, "AGENT_STARTUP"), Stuck)
    BY <1>2, <1>3, StuckOn DEF helper_subcore_load
  <1>5. Walk(d, helper_subcore_load(d.unit, "AGENT_STARTUP") \o subcore_read_packet, Stuck)
    BY <1>3, <1>4, StuckOn
  <1> QED  BY <1>3, <1>5, StuckOn DEF StartupCommands

(* A quiet view of a unit not started may be taken for a down one.         *)
LEMMA DownAt ==
    ASSUME NEW d, At(d), d.sc.st \in {"quiet", "idle"}
    PROVE  /\ At(WithSC(d, "quiet"))
           /\ agent[d.unit].started = FALSE => At(WithSC(d, "down"))
  <1>1. ASSUME NEW s \in {"quiet", "down"}, s = "down" => agent[d.unit].started = FALSE
        PROVE  At(WithSC(d, s))
    <2> DEFINE g == WithSC(d, s)
    <2>1. /\ g.unit = d.unit /\ g.sc.st = s /\ g.sc.bu = d.sc.bu /\ g.ag = d.ag /\ g.gv = d.gv
          /\ g.mc = d.mc /\ g.st = d.st /\ g.h = d.h
      BY WithSCParts
    <2> HIDE DEF g
    <2>2. SubcoreAs(d) /\ UnitAs(d)  BY DEF At
    <2>3. SubcoreAs(g)  BY <1>1, <2>1, <2>2 DEF SubcoreAs, Loose
    <2>4. UnitAs(g)  BY <2>1, <2>2 DEF UnitAs
    <2>5. HostAs(g) /\ StatusAs(g)  BY <2>1 DEF At, HostAs, StatusAs
    <2> QED  BY <2>1, <2>3, <2>4, <2>5 DEF At, g
  <1> QED  BY <1>1

(* When the unit rests, so may be said of either unit.                     *)
LEMMA SwitchAt ==
    ASSUME NEW d, At(d), d.sc.st \in {"quiet", "idle"}, Resting(d), NEW u \in Units, u # d.unit,
           NEW g, g = V(u, SC("quiet", d.sc.bu), AG("IDLE", Whatever), GV("IDLE", Whatever),
                        MC({"IDLE"}, Whatever, Unknown, Unknown, FALSE), d.st, d.h)
    PROVE  At(g)
  <1>1. /\ g.unit = u /\ g.sc.st = "quiet" /\ g.sc.bu = d.sc.bu /\ g.ag.st = "IDLE"
        /\ g.ag.ld = Whatever /\ g.gv.st = "IDLE" /\ g.gv.ld = Whatever /\ g.mc.st = {"IDLE"}
        /\ g.mc.ld = Whatever /\ g.mc.addr = Unknown /\ g.mc.left = Unknown /\ g.mc.rd = FALSE
        /\ g.st = d.st /\ g.h = d.h
    BY DEF V, SC, AG, GV, MC
  <1>2. SubcoreAs(d) /\ UnitAs(d) /\ UnitRests(u)  BY DEF At
  <1>3. UnitRests(d.unit)  BY <1>2 DEF UnitAs, UnitRests, Resting
  <1>4. \A v \in Units : v # u => UnitRests(v)  BY <1>3 DEF At
  <1>5. UnitAs(g)  BY <1>1, <1>2 DEF UnitAs, UnitRests
  <1>6. SubcoreAs(g)  BY <1>1, <1>2 DEF SubcoreAs, Loose
  <1>7. HostAs(g) /\ StatusAs(g)  BY <1>1 DEF At, HostAs, StatusAs
  <1> QED  BY <1>1, <1>4, <1>5, <1>6, <1>7 DEF At

(* Whether or not the unit is to be started, the commands lead on.         *)
LEMMA StartupSound ==
    ASSUME BoardTypeOK, DmaInsideMap, NEW d, NEW g, NEW e, At(d), StepOf(d, Head(todo), g),
           IsSeq(Tail(todo)), Walk(g, Tail(todo), e), CheckStartup
    PROVE  /\ BoardTypeOK' /\ DmaInsideMap' /\ fault = "none"
           /\ UNCHANGED <<fault, call, calls>>
           /\ \E f : At(f)' /\ (Walk(f, todo', e) \/ Walk(f, todo', Stuck))
  <1> DEFINE c == Head(todo)
             t == Tail(todo)
  <1>1. /\ fault = "none"
        /\ todo' = (IF ~agent[c.unit].started THEN StartupCommands(c.unit) ELSE <<>>) \o t
        /\ UNCHANGED <<call, calls, alloc_offset, prepared, status, read_data, subcore, agent, gvpu,
                       memcore, mem, fault>>
    BY DEF CheckStartup, Command, HostOnly, boardVars, C, StartupMissing
  <1>2. StepStartup(d, c, g)  BY StepIs DEF CheckStartup, Command
  <1>3. BoardTypeOK' /\ DmaInsideMap'  BY <1>1 DEF BoardTypeOK, DmaInsideMap
  <1>4. <<>> \o t = t  BY DEF IsSeq
  <1> HIDE DEF c, t
  <1>5. c.unit \in Units /\ agent[c.unit].started \in BOOLEAN
    <2>1. c.unit \in Units  BY <1>2 DEF StepStartup, At
    <2> QED  BY <2>1 DEF BoardTypeOK
  <1>6. \A f : At(f) => At(f)'  BY <1>1, AtKept
  <1>7. Walk(g, t, e) /\ IsSeq(t)  BY DEF t
  <1>8. ASSUME NEW q, At(q), q.sc.st \in {"quiet", "idle"}, q.unit = c.unit, g = WithSC(q, "quiet")
        PROVE  \E f : At(f)' /\ Walk(f, todo', e)
    <2>1. CASE agent[c.unit].started = TRUE
      <3>1. At(g)'  BY <1>6, <1>8, DownAt
      <3>2. todo' = t  BY <1>1, <1>4, <2>1
      <3> QED  BY <1>7, <3>1, <3>2
    <2>2. CASE agent[c.unit].started = FALSE
      <3> DEFINE f == WithSC(q, "down")
      <3>1. At(f)'  BY <1>6, <1>8, <2>2, DownAt
      <3>2. todo' = StartupCommands(q.unit) \o t  BY <1>1, <1>8, <2>2
      <3>3. Walk(f, StartupCommands(q.unit), g)  BY <1>8, StartupGoes
      <3> HIDE DEF f
      <3> QED  BY <1>7, <3>1, <3>2, <3>3, WalkBoth
    <2> QED  BY <1>5, <2>1, <2>2
  <1>9. CASE d.unit = c.unit /\ d.sc.st \in {"quiet", "idle"} /\ g = WithSC(d, "quiet")
    BY <1>1, <1>3, <1>8, <1>9
  <1>10. CASE d.unit = c.unit /\ d.sc.st = "DMA_WRITE" /\ g = d
    <2>1. CASE agent[c.unit].started = TRUE
      <3>1. todo' = t  BY <1>1, <1>4, <2>1
      <3> QED  BY <1>1, <1>3, <1>6, <1>7, <1>10, <3>1
    <2>2. CASE agent[c.unit].started = FALSE
      <3>1. todo' = StartupCommands(d.unit) \o t  BY <1>1, <1>10, <2>2
      <3>2. Walk(d, todo', Stuck)  BY <1>7, <1>10, <3>1, StartupStuck, StuckOn
      <3> QED  BY <1>1, <1>3, <1>6, <3>2
    <2> QED  BY <1>5, <2>1, <2>2
  <1>11. CASE /\ d.unit # c.unit /\ d.sc.st \in {"quiet", "idle"} /\ Resting(d)
              /\ g = V(c.unit, SC("quiet", d.sc.bu), AG("IDLE", Whatever), GV("IDLE", Whatever),
                       MC({"IDLE"}, Whatever, Unknown, Unknown, FALSE), d.st, d.h)
    <2>1. At(g)  BY <1>5, <1>11, SwitchAt
    <2>2. g.unit = c.unit /\ g.sc.st = "quiet" /\ g = WithSC(g, "quiet")
      BY <1>11 DEF V, SC, WithSC
    <2> QED  BY <1>1, <1>3, <1>8, <2>1, <2>2
  <1> QED  BY <1>2, <1>9, <1>10, <1>11 DEF StepStartup

-----------------------------------------------------------------------------
(* The board goes on by itself                                             *)

(* MEM_RUN: memcore enters the state loaded.                               *)
LEMMA MemcoreRuns ==
    ASSUME UnitsOK, NEW u \in Units, RunMemcore(u)
    PROVE  /\ memcore' \in [Units -> [state : MemcoreStates, loaded : MemcoreStates,
                                      addr : 0 .. MEM, left : Nat, reading : BOOLEAN]]
           /\ memcore'[u].loaded = memcore[u].loaded /\ memcore'[u].addr = memcore[u].addr
           /\ memcore'[u].left = memcore[u].left
           /\ memcore'[u].reading = (memcore[u].loaded = "MEMCORE_READ_BURST")
           /\ memcore'[u].state \in
                 IF memcore[u].loaded = "MEMCORE_READ_BURST" /\ memcore[u].left * BURST <= FIFO
                 THEN {"IDLE", "MEMCORE_READ_BURST"} ELSE {memcore[u].loaded}
           /\ \A v \in Units : v # u => memcore'[v] = memcore[v]
  <1> DEFINE b == memcore[u].loaded = "MEMCORE_READ_BURST"
             S == IF memcore[u].loaded = "MEMCORE_READ_BURST" /\ memcore[u].left * BURST <= FIFO
                  THEN {"IDLE", "MEMCORE_READ_BURST"} ELSE {memcore[u].loaded}
  <1>1. PICK s \in S : memcore' = [memcore EXCEPT ![u].state = s, ![u].reading = b]
    BY DEF RunMemcore
  <1>2. s \in MemcoreStates
    <2>1. memcore[u].loaded \in MemcoreStates  BY DEF UnitsOK
    <2> QED  BY <1>1, <2>1 DEF MemcoreStates
  <1>3. b \in BOOLEAN  OBVIOUS
  <1> DEFINE r == [state |-> s, loaded |-> memcore[u].loaded, addr |-> memcore[u].addr,
                   left |-> memcore[u].left, reading |-> b]
             m1 == [memcore EXCEPT ![u].state = s]
             m2 == [m1 EXCEPT ![u].reading = b]
  <1>4. memcore' = m2  BY <1>1
  <1> HIDE DEF b, S
  <1>5. m2[u] = r  BY DEF UnitsOK
  <1>6. memcore' = [memcore EXCEPT ![u] = r]  BY <1>4, <1>5 DEF UnitsOK
  <1>7. memcore[u].addr \in 0 .. MEM /\ memcore[u].left \in Nat  BY DEF UnitsOK
  <1>8. /\ memcore' \in [Units -> [state : MemcoreStates, loaded : MemcoreStates,
                                   addr : 0 .. MEM, left : Nat, reading : BOOLEAN]]
        /\ memcore'[u].state = s /\ memcore'[u].loaded = memcore[u].loaded
        /\ memcore'[u].addr = memcore[u].addr /\ memcore'[u].left = memcore[u].left
        /\ memcore'[u].reading = b
        /\ \A v \in Units : v # u => memcore'[v] = memcore[v]
    BY <1>2, <1>3, <1>6, <1>7, MemcoreMoves
  <1> QED  BY <1>1, <1>8 DEF b, S

(* A step of the board leaves everything of its type.                      *)
LEMMA BoardTypeStep ==
    ASSUME BoardTypeOK, Board
    PROVE  BoardTypeOK'
  <1>1. UNCHANGED <<call, prepared, calls, alloc_offset, status, mem, fault>>
    BY DEF Board, SubcoreRunsAgent, SubcoreIdles, hostVars
  <1>2. subcore' \in [phase : {"idle", "running", "finishing"}, state : SubcoreStates,
                      unit : Units \cup {NULL}, bursts : Nat]
    BY DEF Board, SubcoreRunsAgent, SubcoreIdles, BoardTypeOK
  <1>3. UnitsOK  BY DEF BoardTypeOK, UnitsOK
  <1>4. UnitsOK'
    <2> DEFINE u == subcore.unit
    <2>1. CASE UNCHANGED <<agent, gvpu, memcore>>  BY <1>3, <2>1 DEF UnitsOK
    <2>2. CASE u \notin Units /\ SubcoreRunsAgent
      <3>1. \A x : [agent EXCEPT ![u].state = x] = agent  BY <1>3, <2>2 DEF UnitsOK
      <3>2. \A x : [gvpu EXCEPT ![u].state = x] = gvpu  BY <1>3, <2>2 DEF UnitsOK
      <3>3. \A x, y : [memcore EXCEPT ![u].state = x, ![u].reading = y] = memcore
        BY <1>3, <2>2 DEF UnitsOK
      <3>4. CASE /\ agent' = [agent EXCEPT ![u].state = agent[u].loaded]
                 /\ UNCHANGED <<gvpu, memcore>>
        BY <2>1, <3>1, <3>4
      <3>5. CASE RunMemcore(u) /\ UNCHANGED <<agent, gvpu>>
        <4>1. PICK x, y : memcore' = [memcore EXCEPT ![u].state = x, ![u].reading = y]
          BY <3>5 DEF RunMemcore
        <4> QED  BY <2>1, <3>3, <3>5, <4>1
      <3>6. CASE /\ gvpu' = [gvpu EXCEPT ![u].state =
                              IF gvpu[u].loaded = "TEST_CLEANUP" THEN "IDLE" ELSE gvpu[u].loaded]
                 /\ UNCHANGED <<agent, memcore>>
        BY <2>1, <3>2, <3>6
      <3> QED  BY <2>2, <3>4, <3>5, <3>6 DEF SubcoreRunsAgent
    <2>3. CASE /\ u \in Units /\ agent' = [agent EXCEPT ![u].state = agent[u].loaded]
               /\ UNCHANGED <<gvpu, memcore>>
      BY <1>3, <2>3 DEF UnitsOK
    <2>4. CASE /\ u \in Units /\ UNCHANGED <<agent, memcore>>
               /\ gvpu' = [gvpu EXCEPT ![u].state =
                              IF gvpu[u].loaded = "TEST_CLEANUP" THEN "IDLE" ELSE gvpu[u].loaded]
      <3>1. (IF gvpu[u].loaded = "TEST_CLEANUP" THEN "IDLE" ELSE gvpu[u].loaded) \in GvpuStates
        BY <1>3, <2>4, IdleIsState DEF UnitsOK
      <3> QED  BY <1>3, <2>4, <3>1 DEF UnitsOK
    <2>5. CASE u \in Units /\ RunMemcore(u) /\ UNCHANGED <<agent, gvpu>>
      <3>1. memcore' \in [Units -> [state : MemcoreStates, loaded : MemcoreStates,
                                    addr : 0 .. MEM, left : Nat, reading : BOOLEAN]]
        BY <1>3, <2>5, MemcoreRuns
      <3> QED  BY <1>3, <2>5, <3>1 DEF UnitsOK
    <2> QED  BY <2>1, <2>2, <2>3, <2>4, <2>5 DEF Board, SubcoreRunsAgent, SubcoreIdles
  <1> QED  BY <1>1, <1>2, <1>4 DEF BoardTypeOK, UnitsOK

(* CTRL_RUN makes of a unit what the view says, at once or later.          *)
LEMMA RunsSound ==
    ASSUME BoardTypeOK, NEW d, At(d), SubcoreRunsAgent
    PROVE  At(d)'
  <1> DEFINE u == d.unit
             e == Ran(d)
  <1>1. subcore.phase = "running" /\ subcore.state = "CTRL_RUN"  BY DEF SubcoreRunsAgent, Running
  <1>2. SubcoreAs(d) /\ UnitAs(d) /\ d.unit \in Units  BY <1>1 DEF At
  <1>3. d.sc.st = "CTRL_RUN" /\ subcore.unit = u /\ MayRun(d)
    BY <1>1, <1>2 DEF SubcoreAs, Loose
  <1>4. UnitsOK  BY DEF BoardTypeOK, UnitsOK
  <1>5. /\ UNCHANGED <<call, prepared, calls, alloc_offset, status, read_data, mem, fault>>
        /\ subcore' = [subcore EXCEPT !.phase = "idle"]
    BY DEF SubcoreRunsAgent, hostVars
  <1>6. subcore'.phase = "idle" /\ subcore'.bursts = subcore.bursts  BY <1>5 DEF BoardTypeOK
  <1>7. /\ agent[u].state = d.ag.st /\ gvpu[u].state = d.gv.st /\ memcore[u].state \in d.mc.st
        /\ memcore[u].reading = d.mc.rd
        /\ d.ag.ld # Whatever => agent[u].loaded = d.ag.ld
        /\ d.gv.ld # Whatever => gvpu[u].loaded = d.gv.ld
        /\ d.mc.ld # Whatever => memcore[u].loaded = d.mc.ld
        /\ d.mc.addr # Unknown => memcore[u].addr = d.mc.addr
        /\ d.mc.left # Unknown => memcore[u].left = d.mc.left
    BY <1>2 DEF UnitAs
  <1>8. agent[u].loaded = d.ag.ld  BY <1>3, <1>7 DEF MayRun
  <1>9. UnitAs(e)' /\ OthersKept(u)
    <2>1. CASE d.ag.ld # "GVPU_RUN"
      <3>1. agent' = [agent EXCEPT ![u].state = agent[u].loaded] /\ UNCHANGED <<gvpu, memcore>>
        BY <1>3, <1>8, <2>1 DEF SubcoreRunsAgent
      <3>2. /\ e.unit = u /\ e.ag.st = d.ag.ld /\ e.ag.ld = d.ag.ld /\ e.gv = d.gv /\ e.mc = d.mc
        BY <2>1 DEF Ran, V, AG
      <3>3. /\ agent'[u].state = agent[u].loaded /\ agent'[u].loaded = agent[u].loaded
            /\ \A v \in Units : v # u => agent'[v] = agent[v]
        BY <1>2, <1>4, <3>1 DEF UnitsOK
      <3> HIDE DEF e
      <3>4. OthersKept(u)  BY <3>1, <3>3 DEF OthersKept
      <3>5. UnitAs(e)'  BY <1>7, <1>8, <3>1, <3>2, <3>3 DEF UnitAs
      <3> QED  BY <3>4, <3>5
    <2>2. CASE d.ag.ld = "GVPU_RUN" /\ d.gv.ld # "MEM_RUN"
      <3>1. gvpu[u].loaded = d.gv.ld  BY <1>3, <1>7, <2>2 DEF MayRun
      <3>2. /\ gvpu' = [gvpu EXCEPT ![u].state =
                          IF gvpu[u].loaded = "TEST_CLEANUP" THEN "IDLE" ELSE gvpu[u].loaded]
            /\ UNCHANGED <<agent, memcore>>
        BY <1>3, <1>8, <2>2, <3>1 DEF SubcoreRunsAgent
      <3>3. /\ e.unit = u /\ e.ag = d.ag /\ e.mc = d.mc
            /\ e.gv.st = (IF d.gv.ld = "TEST_CLEANUP" THEN "IDLE" ELSE d.gv.ld)
            /\ e.gv.ld = d.gv.ld
        BY <2>2 DEF Ran, V, GV
      <3>4. /\ gvpu'[u].state = (IF d.gv.ld = "TEST_CLEANUP" THEN "IDLE" ELSE d.gv.ld)
            /\ gvpu'[u].loaded = gvpu[u].loaded
            /\ \A v \in Units : v # u => gvpu'[v] = gvpu[v]
        BY <1>2, <1>4, <3>1, <3>2 DEF UnitsOK
      <3> HIDE DEF e
      <3>5. OthersKept(u)  BY <3>2, <3>4 DEF OthersKept
      <3>6. UnitAs(e)'  BY <1>7, <3>1, <3>2, <3>3, <3>4 DEF UnitAs
      <3> QED  BY <3>5, <3>6
    <2>3. CASE d.ag.ld = "GVPU_RUN" /\ d.gv.ld = "MEM_RUN"
      <3>1. gvpu[u].loaded = "MEM_RUN"  BY <1>3, <1>7, <2>3 DEF MayRun, Whatever
      <3>2. RunMemcore(u) /\ UNCHANGED <<agent, gvpu>>
        BY <1>3, <1>8, <2>3, <3>1 DEF SubcoreRunsAgent
      <3>3. /\ memcore[u].loaded = d.mc.ld
            /\ d.mc.ld = "MEMCORE_READ_BURST" => memcore[u].left = d.mc.left
        BY <1>3, <1>7, <2>3 DEF MayRun
      <3>4. e.unit = u /\ e.ag = d.ag /\ e.gv = d.gv /\ e.mc = RanMemcore(d.mc)
        BY <2>3 DEF Ran, V
      <3> DEFINE b == IF d.mc.ld = "MEMCORE_READ_BURST" THEN TRUE ELSE FALSE
      <3>5. /\ e.mc.st = (IF d.mc.ld = "MEMCORE_READ_BURST" /\ d.mc.left * BURST <= FIFO
                          THEN {"IDLE", "MEMCORE_READ_BURST"} ELSE {d.mc.ld})
            /\ e.mc.ld = d.mc.ld /\ e.mc.addr = d.mc.addr /\ e.mc.left = d.mc.left
            /\ e.mc.rd = b
        BY <3>4 DEF RanMemcore, MC
      <3>6. /\ memcore'[u].loaded = memcore[u].loaded /\ memcore'[u].addr = memcore[u].addr
            /\ memcore'[u].left = memcore[u].left
            /\ memcore'[u].reading = (memcore[u].loaded = "MEMCORE_READ_BURST")
            /\ memcore'[u].state \in
                  IF memcore[u].loaded = "MEMCORE_READ_BURST" /\ memcore[u].left * BURST <= FIFO
                  THEN {"IDLE", "MEMCORE_READ_BURST"} ELSE {memcore[u].loaded}
            /\ \A v \in Units : v # u => memcore'[v] = memcore[v]
        BY <1>2, <1>4, <3>2, MemcoreRuns
      <3>7. memcore'[u].state \in e.mc.st
        <4>1. CASE d.mc.ld = "MEMCORE_READ_BURST"  BY <3>3, <3>5, <3>6, <4>1
        <4>2. CASE d.mc.ld # "MEMCORE_READ_BURST"  BY <3>3, <3>5, <3>6, <4>2
        <4> QED  BY <4>1, <4>2
      <3>8. memcore'[u].reading = e.mc.rd  BY <3>3, <3>5, <3>6
      <3> HIDE DEF e, b
      <3>9. OthersKept(u)  BY <3>2, <3>6 DEF OthersKept
      <3>10. /\ agent' = agent /\ gvpu' = gvpu /\ e.unit = u /\ e.ag = d.ag /\ e.gv = d.gv
             /\ e.mc.ld = d.mc.ld /\ e.mc.addr = d.mc.addr /\ e.mc.left = d.mc.left
             /\ memcore'[u].loaded = memcore[u].loaded /\ memcore'[u].addr = memcore[u].addr
             /\ memcore'[u].left = memcore[u].left
        BY <3>2, <3>4, <3>5, <3>6
      <3>11. UnitAs(e)'  BY <1>7, <3>7, <3>8, <3>10 DEF UnitAs
      <3> QED  BY <3>9, <3>11
    <2> QED  BY <2>1, <2>2, <2>3
  <1> HIDE DEF e
  <1>10. HostAs(d)' /\ StatusAs(d)'  BY <1>5 DEF At, HostAs, StatusAs
  <1>11. \A v \in Units : v # u => UnitRests(v)'  BY <1>9 DEF At, OthersKept, UnitRests
  <1> QED  BY <1>3, <1>6, <1>9, <1>10, <1>11 DEF At, e

(* Subcore becomes idle only when the view allows it.                      *)
LEMMA IdlesSound ==
    ASSUME BoardTypeOK, NEW d, At(d), SubcoreIdles
    PROVE  At(d)'
  <1>1. /\ subcore.phase = "finishing" /\ subcore' = [subcore EXCEPT !.phase = "idle"]
        /\ UNCHANGED <<call, prepared, calls, alloc_offset, status, read_data, agent, gvpu, memcore,
                       mem, fault>>
    BY DEF SubcoreIdles, hostVars
  <1>2. /\ subcore'.phase = "idle" /\ subcore'.bursts = subcore.bursts
    BY <1>1 DEF BoardTypeOK
  <1>3. SubcoreAs(d) /\ UnitAs(d)  BY <1>1 DEF At
  <1>4. SubcoreAs(d)'  BY <1>1, <1>2, <1>3 DEF SubcoreAs, Loose
  <1>5. UnitAs(d)'  BY <1>1, <1>3 DEF UnitAs
  <1>6. HostAs(d)' /\ StatusAs(d)'  BY <1>1 DEF At, HostAs, StatusAs
  <1>7. \A v \in Units : v # d.unit => UnitRests(v)'  BY <1>1 DEF At, UnitRests
  <1> QED  BY <1>2, <1>4, <1>5, <1>6, <1>7 DEF At

-----------------------------------------------------------------------------
(* Calls begin and return                                                  *)

(* The state is at the first view of a unit, the words to be read are r.   *)
Begun(op, v, r) ==
    \E b, st, o, m, f : /\ At(FirstView(v, b, st, HO(o, 0, NULL, m, r, f)))'
                        /\ call'.before = m /\ m \in Memory
                        /\ (f <=> (op = "config" /\ o # 0))

(* A call begins at the first view of any unit.                            *)
LEMMA BeginSound ==
    ASSUME BoardInv, NEW op \in {"write", "read", "setup", "fail_pins", "config", "gpio"},
           NEW u \in Units \cup {NULL}, NEW v \in Units, NEW a \in Nat, NEW s \in Nat, NEW c,
           Begin(op, u, a, s, c)
    PROVE  /\ BoardTypeOK' /\ DmaInsideMap' /\ fault' = "none" /\ call' # NULL
           /\ todo' = c /\ calls' = calls + 1 /\ calls' \in 0 .. MaxCalls
           /\ call'.op = op /\ call'.unit = u /\ call'.addr = a /\ call'.size = s
           /\ Begun(op, v, [i \in 0 .. s - 1 |-> ZERO])
  <1> DEFINE r == [i \in 0 .. s - 1 |-> ZERO]
  <1>1. /\ call = NULL /\ fault = "none" /\ calls < MaxCalls
        /\ call' = [op |-> op, unit |-> u, addr |-> a, size |-> s, buf |-> 0, before |-> mem,
                    start |-> alloc_offset]
        /\ todo' = c /\ calls' = calls + 1 /\ read_data' = r
        /\ UNCHANGED <<alloc_offset, prepared, status, subcore, agent, gvpu, memcore, mem, fault>>
    BY DEF Begin, boardVars
  <1>2. BoardTypeOK /\ AtRest  BY <1>1 DEF BoardInv
  <1>3. /\ prepared = NULL /\ subcore.phase \in {"idle", "finishing"}
        /\ \A x \in Units : UnitRests(x)
    BY <1>2 DEF AtRest
  <1>4. PICK b : b = subcore.bursts  OBVIOUS
  <1>5. PICK sg : sg = status.gvpu  OBVIOUS
  <1>6. PICK sm : sm = status.memcore  OBVIOUS
  <1>7. PICK o : o = alloc_offset  OBVIOUS
  <1>8. PICK m : m = mem  OBVIOUS
  <1>9. PICK f \in BOOLEAN : f <=> (op = "config" /\ o # 0)  OBVIOUS
  <1>10. m \in Memory /\ o \in Nat  BY <1>2, <1>7, <1>8 DEF BoardTypeOK
  <1>11. /\ call' \in Calls /\ call'.op = op /\ call'.unit = u /\ call'.addr = a /\ call'.size = s
         /\ call'.buf = 0 /\ call'.before = m /\ call'.start = o
    BY <1>1, <1>7, <1>8, <1>10 DEF Calls
  <1>12. call' # NULL  BY <1>11, BoardAssumption
  <1>13. calls' \in 0 .. MaxCalls  BY <1>1, <1>2, BoardAssumption DEF BoardTypeOK
  <1>14. BoardTypeOK' /\ DmaInsideMap'
    BY <1>1, <1>2, <1>3, <1>11, <1>13 DEF BoardTypeOK, DmaInsideMap
  <1> HIDE DEF r
  <1> DEFINE h == HO(o, 0, NULL, m, r, f)
             d == FirstView(v, b, ST(sg, {sm}), h)
  <1>15. /\ d.unit = v /\ d.sc = SC("quiet", b) /\ d.ag = AG("IDLE", Whatever)
         /\ d.gv = GV("IDLE", Whatever)
         /\ d.mc = MC({"IDLE"}, Whatever, Unknown, Unknown, FALSE)
         /\ d.st = ST(sg, {sm}) /\ d.h = h
    BY DEF FirstView, V
  <1>16. /\ d.sc.st = "quiet" /\ d.sc.bu = b /\ d.ag.st = "IDLE" /\ d.ag.ld = Whatever
         /\ d.gv.st = "IDLE" /\ d.gv.ld = Whatever /\ d.st.gvpu = sg /\ d.st.memcore = {sm}
    BY <1>15 DEF SC, AG, GV, ST
  <1>17. /\ d.mc.st = {"IDLE"} /\ d.mc.ld = Whatever /\ d.mc.addr = Unknown /\ d.mc.left = Unknown
         /\ d.mc.rd = FALSE
    BY <1>15 DEF MC
  <1>18. /\ d.h.alloc = o /\ d.h.buf = 0 /\ d.h.prep = NULL /\ d.h.mem = m /\ d.h.read = r
         /\ d.h.free = f
    BY <1>15 DEF HO
  <1> HIDE DEF d
  <1>19. HostAs(d)'  BY <1>1, <1>3, <1>7, <1>8, <1>9, <1>11, <1>18 DEF HostAs
  <1>20. StatusAs(d)'  BY <1>1, <1>5, <1>6, <1>16 DEF StatusAs
  <1>21. UnitAs(d)'  BY <1>1, <1>3, <1>15, <1>16, <1>17 DEF UnitAs, UnitRests
  <1>22. SubcoreAs(d)'  BY <1>1, <1>3, <1>16 DEF SubcoreAs, Loose
  <1>23. \A x \in Units : UnitRests(x)'  BY <1>1, <1>3 DEF UnitRests
  <1>24. At(d)'  BY <1>1, <1>4, <1>15, <1>16, <1>19, <1>20, <1>21, <1>22, <1>23 DEF At
  <1> QED  BY <1>1, <1>9, <1>10, <1>11, <1>12, <1>13, <1>14, <1>24 DEF d, r, Begun

(* What a call that begins wants of the memory.                            *)
LEMMA WantedIs ==
    ASSUME NEW m \in Memory, call'.before = m
    PROVE  /\ call'.op # "write" => Wanted' = m
           /\ call'.op = "write" /\ call'.size \in Nat =>
                  Wanted' = Written(m, call'.unit, call'.addr, calls', call'.size)
  <1>1. CASE call'.op # "write"
    <2>1. Wanted' = [x \in Units |-> [w \in 0 .. MEM - 1 |-> m[x][w]]]  BY <1>1 DEF Wanted
    <2>2. \A x \in Units : m[x] = [w \in 0 .. MEM - 1 |-> m[x][w]]  BY DEF Memory
    <2>3. m = [x \in Units |-> m[x]]  BY DEF Memory
    <2> QED  BY <1>1, <2>1, <2>2, <2>3
  <1>2. CASE call'.op = "write" /\ call'.size \in Nat
    <2>1. (call'.size + BURST - 1) \div BURST = NumBursts(call'.size)  BY <1>2, Bursts
    <2>2. Region(call.size)' = call'.addr .. call'.addr + (NumBursts(call'.size) * BURST) - 1
      BY <2>1 DEF Region
    <2> QED  BY <1>2, <2>2 DEF Wanted, Written
  <1> QED  BY <1>1, <1>2

(* A call that moves no data.                                              *)
LEMMA OtherBegins ==
    ASSUME BoardInv, NEW op \in {"setup", "fail_pins", "config", "gpio"},
           NEW u \in Units \cup {NULL}, NEW v \in Units, NEW c, Begin(op, u, 0, 0, c),
           \A b, st, o, m, r, f :
               (f <=> (op = "config" /\ o # 0)) =>
                   \E e : Walk(FirstView(v, b, st, HO(o, 0, NULL, m, r, f)), c, e) /\ Done(e, m, r)
    PROVE  BoardInv'
  <1> DEFINE r == [i \in 0 .. 0 - 1 |-> ZERO]
  <1>1. /\ BoardTypeOK' /\ DmaInsideMap' /\ fault' = "none" /\ call' # NULL /\ todo' = c
        /\ call'.op = op /\ Begun(op, v, r)
    <2>1. 0 \in Nat /\ op \in {"write", "read", "setup", "fail_pins", "config", "gpio"}  OBVIOUS
    <2> QED  BY <2>1, BeginSound
  <1> HIDE DEF r
  <1>2. PICK b, st, o, m, f : /\ At(FirstView(v, b, st, HO(o, 0, NULL, m, r, f)))'
                              /\ call'.before = m /\ m \in Memory
                              /\ (f <=> (op = "config" /\ o # 0))
    BY <1>1 DEF Begun
  <1>3. PICK e : Walk(FirstView(v, b, st, HO(o, 0, NULL, m, r, f)), c, e) /\ Done(e, m, r)
    BY <1>2
  <1>5. Wanted' = m  BY <1>1, <1>2, WantedIs
  <1>6. Reached(e)'  BY <1>1, <1>3, <1>5 DEF Reached
  <1>7. Going'  BY <1>1, <1>2, <1>3, <1>6 DEF Going
  <1> QED  BY <1>1, <1>7 DEF BoardInv

(* A write, which wants its words in the memory.                           *)
LEMMA WriteBegins ==
    ASSUME BoardInv, NEW u \in Units, NEW a \in Addrs, NEW s \in Sizes,
           Begin("write", u, a, s, artix_mem_write(u, a, s, calls + 1))
    PROVE  BoardInv'
  <1>1. PICK n : n = calls + 1  OBVIOUS
  <1> DEFINE r == [i \in 0 .. s - 1 |-> ZERO]
             c == artix_mem_write(u, a, s, n)
  <1>2. a \in Nat /\ s \in Nat \ {0} /\ s \in Nat /\ a + s + BURST <= MEM  BY BoardAssumption
  <1>3. Begin("write", u, a, s, c)  BY <1>1
  <1>4. /\ BoardTypeOK' /\ DmaInsideMap' /\ fault' = "none" /\ call' # NULL /\ todo' = c
        /\ calls' = calls + 1 /\ calls' \in 0 .. MaxCalls
        /\ call'.op = "write" /\ call'.unit = u /\ call'.addr = a /\ call'.size = s
        /\ Begun("write", u, r)
    <2> HIDE DEF c
    <2> QED  BY <1>2, <1>3, BeginSound
  <1> HIDE DEF r
  <1>5. PICK b, st, o, m, f : /\ At(FirstView(u, b, st, HO(o, 0, NULL, m, r, f)))'
                              /\ call'.before = m /\ m \in Memory
    BY <1>4 DEF Begun
  <1>6. n \in 0 .. MaxCalls /\ calls' = n  BY <1>1, <1>4
  <1>7. PICK e : /\ Walk(FirstView(u, b, st, HO(o, 0, NULL, m, r, f)), c, e)
                 /\ Done(e, Written(m, u, a, n, s), r)
    BY <1>2, <1>5, <1>6, MemWriteWalk
  <1> HIDE DEF c
  <1>8. Wanted' = Written(m, u, a, n, s)  BY <1>2, <1>4, <1>5, <1>6, WantedIs
  <1>9. Reached(e)'  BY <1>4, <1>7, <1>8 DEF Reached
  <1>10. Going'  BY <1>4, <1>5, <1>7, <1>9 DEF Going
  <1> QED  BY <1>4, <1>10 DEF BoardInv

(* A read, which wants the words of the memory.                            *)
LEMMA ReadBegins ==
    ASSUME BoardInv, NEW u \in Units, NEW a \in Addrs, NEW s \in Sizes,
           Begin("read", u, a, s, artix_mem_read(u, a, s))
    PROVE  BoardInv'
  <1> DEFINE r == [i \in 0 .. s - 1 |-> ZERO]
             c == artix_mem_read(u, a, s)
  <1>1. a \in Nat /\ s \in Nat \ {0} /\ s \in Nat /\ a + s + BURST <= MEM  BY BoardAssumption
  <1>2. /\ BoardTypeOK' /\ DmaInsideMap' /\ fault' = "none" /\ call' # NULL /\ todo' = c
        /\ call'.op = "read" /\ call'.unit = u /\ call'.addr = a /\ call'.size = s
        /\ Begun("read", u, r)
    <2>1. Begin("read", u, a, s, c)  OBVIOUS
    <2> HIDE DEF c
    <2> QED  BY <1>1, <2>1, BeginSound
  <1>3. PICK b, st, o, m, f : /\ At(FirstView(u, b, st, HO(o, 0, NULL, m, r, f)))'
                              /\ call'.before = m /\ m \in Memory
    BY <1>2 DEF Begun
  <1>4. r = Fetched(s, m, u, a, 0)
    <2>1. \A i \in 0 .. s - 1 : ~(i < 0)  BY <1>1
    <2> QED  BY <2>1 DEF Fetched
  <1> HIDE DEF r
  <1>5. PICK e : /\ Walk(FirstView(u, b, st, HO(o, 0, NULL, m, r, f)), c, e)
                 /\ Done(e, m, ReadOf(m, u, a, s))
    BY <1>1, <1>4, MemReadWalk
  <1> HIDE DEF c
  <1>6. Wanted' = m  BY <1>2, <1>3, WantedIs
  <1>7. Reached(e)'  BY <1>2, <1>5, <1>6 DEF Reached
  <1>8. Going'  BY <1>2, <1>3, <1>5, <1>7 DEF Going
  <1> QED  BY <1>2, <1>8 DEF BoardInv

(* Every call begins on a walk to its end.                                 *)
LEMMA CallBegins ==
    ASSUME BoardInv, CallMemWrite \/ CallMemRead \/ CallSetupStim \/ CallFailPins \/ CallConfig
                     \/ CallGpio
    PROVE  BoardInv'
  <1>1. CASE CallMemWrite
    <2>1. PICK u \in Units, a \in Addrs, s \in Sizes :
              Begin("write", u, a, s, artix_mem_write(u, a, s, calls + 1))
      BY <1>1 DEF CallMemWrite
    <2> QED  BY <2>1, WriteBegins
  <1>2. CASE CallMemRead
    <2>1. PICK u \in Units, a \in Addrs, s \in Sizes :
              Begin("read", u, a, s, artix_mem_read(u, a, s))
      BY <1>2 DEF CallMemRead
    <2> QED  BY <2>1, ReadBegins
  <1>3. CASE CallSetupStim
    <2>1. PICK u \in Units : Begin("setup", u, 0, 0, artix_setup_stim(u))
      BY <1>3 DEF CallSetupStim
    <2>2. \A b, st, o, m, r, f :
              \E e : /\ Walk(FirstView(u, b, st, HO(o, 0, NULL, m, r, f)), artix_setup_stim(u), e)
                     /\ Done(e, m, r)
      BY SetupStimWalk
    <2>3. "setup" \in {"setup", "fail_pins", "config", "gpio"}  OBVIOUS
    <2> QED  BY <2>1, <2>2, <2>3, OtherBegins
  <1>4. CASE CallFailPins
    <2>1. Begin("fail_pins", NULL, 0, 0, artix_get_stim_fail_pins)  BY <1>4 DEF CallFailPins
    <2>2. \A b, st, o, m, r, f :
              \E e : /\ Walk(FirstView("a1", b, st, HO(o, 0, NULL, m, r, f)),
                             artix_get_stim_fail_pins, e)
                     /\ Done(e, m, r)
      BY FailPinsCallWalk
    <2>3. "fail_pins" \in {"setup", "fail_pins", "config", "gpio"} /\ "a1" \in Units  BY DEF Units
    <2> QED  BY <2>1, <2>2, <2>3, OtherBegins
  <1>5. CASE CallConfig
    <2>1. PICK u \in Units : Begin("config", u, 0, 0, artix_config(u, DMA_SIZE))
      BY <1>5 DEF CallConfig
    <2>2. \A b, st, o, m, r, f :
              (f <=> ("config" = "config" /\ o # 0)) =>
                 \E e : /\ Walk(FirstView(u, b, st, HO(o, 0, NULL, m, r, f)),
                                artix_config(u, DMA_SIZE), e)
                        /\ Done(e, m, r)
      <3> SUFFICES ASSUME NEW b, NEW st, NEW o, NEW m, NEW r, NEW f, f <=> o # 0
                   PROVE  \E e : /\ Walk(FirstView(u, b, st, HO(o, 0, NULL, m, r, f)),
                                         artix_config(u, DMA_SIZE), e)
                                 /\ Done(e, m, r)
        OBVIOUS
      <3>1. f \/ o = 0  OBVIOUS
      <3> QED  BY <3>1, ConfigWalk
    <2>3. "config" \in {"setup", "fail_pins", "config", "gpio"}  OBVIOUS
    <2> QED  BY <2>1, <2>2, <2>3, OtherBegins
  <1>6. CASE CallGpio
    <2>1. PICK c \in {helper_subcore_set_boot_done, helper_subcore_set_led,
                      helper_subcore_get_dna_id} : Begin("gpio", NULL, 0, 0, c)
      BY <1>6 DEF CallGpio
    <2>2. \A b, st, o, m, r, f :
              \E e : /\ Walk(FirstView("a1", b, st, HO(o, 0, NULL, m, r, f)), c, e)
                     /\ Done(e, m, r)
      BY <2>1, GpioCallWalk
    <2>3. "gpio" \in {"setup", "fail_pins", "config", "gpio"} /\ "a1" \in Units  BY DEF Units
    <2> QED  BY <2>1, <2>2, <2>3, OtherBegins
  <1> QED  BY <1>1, <1>2, <1>3, <1>4, <1>5, <1>6

(* When nothing is left to issue the call has done what it is for.         *)
LEMMA GoneThere ==
    ASSUME BoardInv, call # NULL, fault = "none", todo = <<>>
    PROVE  \E d : /\ At(d) /\ Resting(d) /\ d.sc.st \in {"quiet", "idle"} /\ d.h.prep = NULL
                  /\ d.h.mem = Wanted
                  /\ call.op = "read" =>
                         d.h.read = ReadOf(Wanted, call.unit, call.addr, call.size)
  <1>1. PICK d, e : At(d) /\ Walk(d, todo, e) /\ Reached(e)  BY DEF BoardInv, Going
  <1>2. Walk(d, <<>>, e)  BY <1>1
  <1>3. d = e  BY <1>2, WalkNowhere
  <1>4. Stuck.sc.st = "stuck"  BY DEF Stuck, V, SC
  <1>5. e # Stuck  BY <1>1, <1>3, <1>4 DEF At
  <1>6. PICK r : /\ Done(e, Wanted, r)
                 /\ call.op = "read" => r = ReadOf(Wanted, call.unit, call.addr, call.size)
    BY <1>1 DEF Reached
  <1> QED  BY <1>1, <1>3, <1>5, <1>6 DEF Done

(* The board rests when a call returns.                                    *)
LEMMA ReturnSound ==
    ASSUME BoardInv, Return
    PROVE  BoardInv'
  <1>1. /\ call # NULL /\ todo = <<>> /\ fault = "none" /\ call' = NULL
        /\ UNCHANGED <<todo, calls, alloc_offset, prepared, status, read_data, subcore, agent, gvpu,
                       memcore, mem, fault>>
    BY DEF Return, boardVars
  <1>2. PICK d : At(d) /\ Resting(d) /\ d.sc.st \in {"quiet", "idle"} /\ d.h.prep = NULL
    BY <1>1, GoneThere
  <1>3. prepared = NULL  BY <1>2 DEF At, HostAs
  <1>4. SubcoreAs(d) /\ UnitAs(d)  BY <1>2 DEF At
  <1>5. subcore.phase \in {"idle", "finishing"}  BY <1>2, <1>4 DEF SubcoreAs
  <1>6. UnitRests(d.unit)  BY <1>2, <1>4 DEF UnitAs, UnitRests, Resting
  <1>7. \A u \in Units : UnitRests(u)  BY <1>2, <1>6 DEF At
  <1>8. \A u \in Units : UnitRests(u)'  BY <1>1, <1>7 DEF UnitRests
  <1>9. AtRest'  BY <1>1, <1>3, <1>5, <1>8 DEF AtRest
  <1>10. BoardTypeOK'  BY <1>1 DEF BoardInv, BoardTypeOK
  <1>11. DmaInsideMap'  BY <1>1, <1>3 DEF DmaInsideMap
  <1> QED  BY <1>1, <1>9, <1>10, <1>11 DEF BoardInv

(* The end to reach does not depend on the buffer.                         *)
LEMMA ReachedKept ==
    ASSUME NEW e, Reached(e), call \in Calls, call' \in Calls,
           call' = [call EXCEPT !.buf = call'.buf], UNCHANGED calls
    PROVE  Reached(e)'
  <1>1. /\ call'.op = call.op /\ call'.unit = call.unit /\ call'.addr = call.addr
        /\ call'.size = call.size /\ call'.before = call.before
    BY DEF Calls
  <1>2. Region(call.size)' = Region(call.size)  BY <1>1 DEF Region
  <1>3. Wanted' = Wanted  BY <1>1, <1>2 DEF Wanted
  <1> QED  BY <1>1, <1>3 DEF Reached

(* A command that is issued leads on.                                      *)
LEMMA IssueSound ==
    ASSUME BoardInv, Issue
    PROVE  BoardInv'
  <1>1. fault = "none" /\ todo # <<>>
    BY DEF Issue, IssueIdle, IssueLoad, CheckStartup, IssueWrite, IssueRead, CheckStatus,
           CheckInitError, Alloc, gcore_dma_prep, IssueStart, Command
  <1>2. call # NULL /\ Going  BY <1>1 DEF BoardInv, AtRest
  <1>3. BoardTypeOK /\ DmaInsideMap  BY DEF BoardInv
  <1>4. PICK d, e : At(d) /\ Walk(d, todo, e) /\ Reached(e)  BY <1>2 DEF Going
  <1>5. IsSeq(Tail(todo)) /\ \E f : StepOf(d, Head(todo), f) /\ Walk(f, Tail(todo), e)
    BY <1>1, <1>4, WalkOn
  <1>6. PICK g : StepOf(d, Head(todo), g) /\ Walk(g, Tail(todo), e)  BY <1>5
  <1>7. call \in Calls  BY <1>2, <1>3 DEF BoardTypeOK
  <1>8. call = [call EXCEPT !.buf = call.buf]  BY <1>7 DEF Calls
  <1>9. CASE CheckStartup
    <2>1. /\ BoardTypeOK' /\ DmaInsideMap' /\ fault = "none" /\ UNCHANGED <<fault, call, calls>>
          /\ \E f : At(f)' /\ (Walk(f, todo', e) \/ Walk(f, todo', Stuck))
      BY <1>3, <1>4, <1>5, <1>6, <1>9, StartupSound
    <2>2. Reached(e)'  BY <1>4, <1>7, <1>8, <2>1, ReachedKept
    <2>3. Reached(Stuck)'
      <3>1. Done(Stuck, Wanted, ReadOf(Wanted, call.unit, call.addr, call.size))'  BY DEF Done
      <3> QED  BY <3>1 DEF Reached
    <2>4. Going'  BY <2>1, <2>2, <2>3 DEF Going
    <2> QED  BY <1>2, <2>1, <2>4 DEF BoardInv
  <1>10. CASE ~CheckStartup
    <2>1. /\ todo' = Tail(todo) /\ UNCHANGED calls
          /\ Alloc \/ UNCHANGED call
      BY <1>10 DEF Issue, IssueIdle, IssueLoad, IssueWrite, IssueRead, CheckStatus,
                   CheckInitError, Alloc, gcore_dma_prep, IssueStart, Issued, HostOnly
    <2>2. Sound(g) /\ (Alloc => call' \in Calls /\ call' = [call EXCEPT !.buf = call'.buf])
      BY <1>2, <1>3, <1>4, <1>6, <1>10, IdleSound, LoadSound, WriteSound, ReadSound, CheckSound,
         AllocSound, PrepSound, StartSound DEF Issue
    <2>3. BoardTypeOK' /\ DmaInsideMap' /\ fault' \in {"none", "init_error", "timeout"}
          /\ (fault' = "none" => At(g)')
      BY <2>2 DEF Sound
    <2>4. call' = [call EXCEPT !.buf = call'.buf]  BY <1>8, <2>1, <2>2
    <2>5. call' \in Calls /\ call' # NULL  BY <1>7, <2>1, <2>2, BoardAssumption
    <2>6. Reached(e)'  BY <1>4, <1>7, <2>1, <2>4, <2>5, ReachedKept
    <2>7. fault' = "none" => Going'  BY <1>6, <2>1, <2>3, <2>6 DEF Going
    <2> QED  BY <2>3, <2>5, <2>7 DEF BoardInv
  <1> QED  BY <1>9, <1>10

-----------------------------------------------------------------------------
(* The theorems                                                            *)

(* Everything rests before the first call.                                 *)
LEMMA BoardInvInit ==
    Init => BoardInv
  <1> SUFFICES ASSUME Init  PROVE BoardInv
    OBVIOUS
  <1>1. mem \in Memory
    <2>1. MEM \in Nat /\ MaxCalls \in Nat  BY BoardAssumption
    <2>2. \A w \in 0 .. MEM - 1 : Word(-1, w) \in Words  BY <2>1 DEF Word, Words
    <2> QED  BY <2>2 DEF Init, Memory
  <1>2. /\ subcore \in [phase : {"idle", "running", "finishing"}, state : SubcoreStates,
                        unit : Units \cup {NULL}, bursts : Nat]
        /\ status \in [gvpu : GvpuStates, memcore : MemcoreStates]
    BY IdleIsState DEF Init, SubcoreStates
  <1>3. UnitsOK
    <2>1. MEM \in Nat  BY BoardAssumption
    <2> QED  BY <2>1, IdleIsState DEF Init, UnitsOK
  <1>4. /\ call = NULL /\ prepared = NULL /\ calls \in 0 .. MaxCalls /\ alloc_offset \in Nat
        /\ fault = "none"
    BY BoardAssumption DEF Init
  <1>5. BoardTypeOK  BY <1>1, <1>2, <1>3, <1>4 DEF BoardTypeOK, UnitsOK
  <1>6. \A u \in Units : UnitRests(u)  BY DEF Init, UnitRests
  <1>7. AtRest  BY <1>4, <1>6 DEF AtRest, Init
  <1> QED  BY <1>4, <1>5, <1>7 DEF BoardInv, DmaInsideMap

(* A step of the board while a call is under way, after it has failed and  *)
(* between two calls.                                                      *)
LEMMA BoardSound ==
    ASSUME BoardInv, Board
    PROVE  BoardInv'
  <1>1. UNCHANGED <<call, todo, calls, alloc_offset, prepared, status, read_data, mem, fault>>
    BY DEF Board, SubcoreRunsAgent, SubcoreIdles, hostVars
  <1>2. BoardTypeOK /\ DmaInsideMap  BY DEF BoardInv
  <1>3. BoardTypeOK'  BY <1>2, BoardTypeStep
  <1>4. DmaInsideMap'  BY <1>1, <1>2 DEF DmaInsideMap
  <1>5. ASSUME call = NULL  PROVE AtRest'
    <2>1. AtRest  BY <1>5 DEF BoardInv
    <2>2. SubcoreIdles  BY <2>1 DEF AtRest, Board, SubcoreRunsAgent, Running
    <2>3. /\ subcore' = [subcore EXCEPT !.phase = "idle"] /\ UNCHANGED <<agent, gvpu, memcore>>
      BY <2>2 DEF SubcoreIdles
    <2>4. subcore'.phase = "idle"  BY <1>2, <2>3 DEF BoardTypeOK
    <2>5. \A u \in Units : UnitRests(u)'  BY <2>1, <2>3 DEF AtRest, UnitRests
    <2> QED  BY <1>1, <2>1, <2>4, <2>5 DEF AtRest
  <1>6. ASSUME call # NULL, fault = "none"  PROVE Going'
    <2>1. PICK d, e : At(d) /\ Walk(d, todo, e) /\ Reached(e)  BY <1>6 DEF BoardInv, Going
    <2>2. At(d)'  BY <1>2, <2>1, RunsSound, IdlesSound DEF Board
    <2>3. call \in Calls  BY <1>2, <1>6 DEF BoardTypeOK
    <2>4. call = [call EXCEPT !.buf = call.buf]  BY <2>3 DEF Calls
    <2>5. Reached(e)'  BY <1>1, <2>1, <2>3, <2>4, ReachedKept
    <2>6. Walk(d, todo', e)  BY <1>1, <2>1
    <2> QED  BY <2>2, <2>5, <2>6 DEF Going
  <1> QED  BY <1>1, <1>3, <1>4, <1>5, <1>6 DEF BoardInv

(* The invariant is inductive.                                             *)
LEMMA BoardInvNext ==
    BoardInv /\ [Next]_vars => BoardInv'
  <1> SUFFICES ASSUME BoardInv, [Next]_vars  PROVE BoardInv'
    OBVIOUS
  <1>1. CASE UNCHANGED vars
    <2>1. UNCHANGED <<call, todo, calls, alloc_offset, prepared, status, read_data, subcore, agent,
                      gvpu, memcore, mem, fault>>
      BY <1>1 DEF vars
    <2>2. BoardTypeOK /\ DmaInsideMap  BY DEF BoardInv
    <2>3. BoardTypeOK' /\ DmaInsideMap'  BY <2>1, <2>2 DEF BoardTypeOK, DmaInsideMap
    <2>4. AtRest => AtRest'
      <3>1. \A u \in Units : UnitRests(u) => UnitRests(u)'  BY <2>1 DEF UnitRests
      <3> QED  BY <2>1, <3>1 DEF AtRest
    <2>5. ASSUME call # NULL, fault = "none"  PROVE Going'
      <3>1. PICK d, e : At(d) /\ Walk(d, todo, e) /\ Reached(e)  BY <2>5 DEF BoardInv, Going
      <3>2. At(d)'  BY <2>1, <3>1, AtKept
      <3>3. call \in Calls  BY <2>2, <2>5 DEF BoardTypeOK
      <3>4. call = [call EXCEPT !.buf = call.buf]  BY <3>3 DEF Calls
      <3>5. Reached(e)'  BY <2>1, <3>1, <3>3, <3>4, ReachedKept
      <3>6. Walk(d, todo', e)  BY <2>1, <3>1
      <3> QED  BY <3>2, <3>5, <3>6 DEF Going
    <2> QED  BY <2>1, <2>3, <2>4, <2>5 DEF BoardInv
  <1>2. CASE Next
    BY <1>2, CallBegins, IssueSound, ReturnSound, BoardSound DEF Next
  <1> QED  BY <1>1, <1>2

(* The commands still to be issued always lead to the end of the call.     *)
THEOREM BoardAlways == Spec => []BoardInv
  BY BoardInvInit, BoardInvNext, PTL DEF Spec

(* Host and board stay of their types.                                     *)
THEOREM BoardTypes == Spec => []BoardTypeOK
  <1>1. BoardInv => BoardTypeOK  BY DEF BoardInv
  <1> QED  BY <1>1, BoardAlways, PTL

(* No command is refused: for every size and address, and however long the *)
(* board takes, each command of every call meets subcore, agent, gvpu and  *)
(* memcore in a state that takes it (helper.c:38, subcore.c:139).          *)
THEOREM NoCommandRefused == Spec => []CommandsTaken
  <1>1. BoardInv => CommandsTaken  BY DEF BoardInv, CommandsTaken
  <1> QED  BY <1>1, BoardAlways, PTL

(* The checks of the status that end the process are never met             *)
(* (helper.c:303, helper.c:334).                                           *)
THEOREM ChecksPass == Spec => []ChecksHold
  <1>1. BoardInv => ChecksHold  BY DEF BoardInv, ChecksHold
  <1> QED  BY <1>1, BoardAlways, PTL

(* A write that returns has written its words, and zeros up to the end of  *)
(* the last burst, and nothing else; a read that returns has copied what   *)
(* is there (artix.c:65-199, artix.c:237-362).                             *)
THEOREM TransfersDone == Spec => []TransferDone
  <1>1. BoardInv => TransferDone
    <2> SUFFICES ASSUME BoardInv, call # NULL, todo = <<>>, fault = "none"
                 PROVE  /\ mem = Wanted
                        /\ call.op = "read" =>
                             read_data = [i \in 0 .. call.size - 1 |-> mem[call.unit][call.addr + i]]
      BY DEF TransferDone, Wanted
    <2>1. PICK d : /\ At(d) /\ d.h.mem = Wanted
                   /\ call.op = "read" =>
                          d.h.read = ReadOf(Wanted, call.unit, call.addr, call.size)
      BY GoneThere
    <2>2. mem = Wanted /\ read_data = d.h.read  BY <2>1 DEF At, HostAs
    <2> QED  BY <2>1, <2>2 DEF ReadOf
  <1> QED  BY <1>1, BoardAlways, PTL

(* Every buffer handed to the DMA lies inside the map, but for one of a    *)
(* configuration that does not start at its beginning (artix.c:1352).      *)
THEOREM BuffersInMap == Spec => []DmaInsideMap
  <1>1. BoardInv => DmaInsideMap  BY DEF BoardInv
  <1> QED  BY <1>1, BoardAlways, PTL

=============================================================================
