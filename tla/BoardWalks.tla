----------------------------- MODULE BoardWalks -----------------------------
(***************************************************************************)
(* For the proofs about BoardMem: what each helper of helper.c, subcore.c  *)
(* and dma.c needs of the board and what it leaves, as a walk from one     *)
(* view to another, and from these the walks of whole calls.               *)
(***************************************************************************)
EXTENDS BoardView, Counting

-----------------------------------------------------------------------------
(* Walks                                                                   *)

(* The sequence of no command goes nowhere.                                *)
LEMMA WalkNone ==
    ASSUME NEW d
    PROVE  Walk(d, <<>>, d)
  <1> DEFINE ds == [i \in {0} |-> d]
  <1>1. ds[0] = d  OBVIOUS
  <1>2. Len(<<>>) = 0 /\ <<>> \in Seq({})  OBVIOUS
  <1>3. \A i \in 1 .. 0 : StepOf(ds[i - 1], <<>>[i], ds[i])  OBVIOUS
  <1> HIDE DEF ds
  <1> QED  BY <1>1, <1>2, <1>3 DEF Walk, IsSeq

(* ... and a walk of no command has not gone anywhere.                     *)
LEMMA WalkNowhere ==
    ASSUME NEW d, NEW e, Walk(d, <<>>, e)
    PROVE  d = e
  <1>1. Len(<<>>) = 0  OBVIOUS
  <1> QED  BY <1>1 DEF Walk

(* One command.                                                            *)
LEMMA WalkOne ==
    ASSUME NEW d, NEW c, NEW e, StepOf(d, c, e)
    PROVE  Walk(d, <<c>>, e)
  <1> DEFINE ds == [i \in {0, 1} |-> IF i = 0 THEN d ELSE e]
  <1>1. ds[0] = d /\ ds[1] = e  OBVIOUS
  <1>2. Len(<<c>>) = 1 /\ <<c>> \in Seq({c}) /\ <<c>>[1] = c  OBVIOUS
  <1> HIDE DEF ds
  <1>3. \A i \in 1 .. 1 : StepOf(ds[i - 1], <<c>>[i], ds[i])
    <2>1. \A i \in 1 .. 1 : i = 1 /\ i - 1 = 0  OBVIOUS
    <2> QED  BY <1>1, <1>2, <2>1
  <1> QED  BY <1>1, <1>2, <1>3 DEF Walk, IsSeq

(* Walks compose.                                                          *)
LEMMA WalkBoth ==
    ASSUME NEW d, NEW b, NEW e, NEW c, NEW f, Walk(d, b, e), Walk(e, c, f)
    PROVE  Walk(d, b \o c, f)
  <1>1. PICK ds : /\ ds[0] = d /\ ds[Len(b)] = e
                  /\ \A i \in 1 .. Len(b) : StepOf(ds[i - 1], b[i], ds[i])
    BY DEF Walk
  <1>2. PICK es : /\ es[0] = e /\ es[Len(c)] = f
                  /\ \A i \in 1 .. Len(c) : StepOf(es[i - 1], c[i], es[i])
    BY DEF Walk
  <1>3. PICK S, T : b \in Seq(S) /\ c \in Seq(T)  BY DEF Walk, IsSeq
  <1>4. b \in Seq(S \cup T) /\ c \in Seq(S \cup T)  BY <1>3
  <1> DEFINE m == Len(b)
             n == Len(c)
  <1>5. /\ b \o c \in Seq(S \cup T) /\ Len(b \o c) = m + n /\ m \in Nat /\ n \in Nat
        /\ \A i \in 1 .. m : (b \o c)[i] = b[i]
        /\ \A i \in m + 1 .. m + n : (b \o c)[i] = c[i - m]
    BY <1>4
  <1> HIDE DEF m, n
  <1> DEFINE fs == [i \in 0 .. m + n |-> IF i < m THEN ds[i] ELSE es[i - m]]
  <1>6. \A i \in 0 .. m + n : fs[i] = IF i < m THEN ds[i] ELSE es[i - m]  OBVIOUS
  <1>7. 0 \in 0 .. m + n /\ m + n \in 0 .. m + n /\ ~(m + n < m) /\ (m + n) - m = n  BY <1>5
  <1> HIDE DEF fs
  <1>8. fs[0] = d
    <2>1. CASE m = 0  BY <1>1, <1>2, <1>6, <1>7, <2>1 DEF m
    <2>2. CASE m # 0
      <3>1. 0 < m  BY <1>5, <2>2
      <3> QED  BY <1>1, <1>6, <1>7, <3>1
    <2> QED  BY <2>1, <2>2
  <1>9. fs[m + n] = f  BY <1>2, <1>6, <1>7 DEF n
  <1>10. ASSUME NEW i \in 1 .. m + n  PROVE StepOf(fs[i - 1], (b \o c)[i], fs[i])
    <2>1. i \in 0 .. m + n /\ i - 1 \in 0 .. m + n /\ i \in Int  BY <1>5
    <2>2. CASE i < m
      <3>1. i \in 1 .. m /\ i - 1 < m  BY <1>5, <2>1, <2>2
      <3>2. fs[i] = ds[i] /\ fs[i - 1] = ds[i - 1]  BY <1>6, <2>1, <2>2, <3>1
      <3> QED  BY <1>1, <1>5, <3>1, <3>2 DEF m
    <2>3. CASE i = m
      <3>1. i \in 1 .. m /\ i - 1 < m /\ ~(i < m) /\ i - m = 0  BY <1>5, <2>1, <2>3
      <3>2. fs[i] = es[0] /\ fs[i - 1] = ds[i - 1]  BY <1>6, <2>1, <3>1
      <3>3. es[0] = ds[m]  BY <1>1, <1>2 DEF m
      <3> QED  BY <1>1, <1>5, <2>3, <3>1, <3>2, <3>3 DEF m
    <2>4. CASE i > m
      <3>1. /\ i \in m + 1 .. m + n /\ ~(i < m) /\ ~(i - 1 < m)
            /\ i - m \in 1 .. n /\ (i - 1) - m = (i - m) - 1
        BY <1>5, <2>1, <2>4
      <3>2. fs[i] = es[i - m] /\ fs[i - 1] = es[(i - m) - 1]  BY <1>6, <2>1, <3>1
      <3>3. (b \o c)[i] = c[i - m]  BY <1>5, <3>1
      <3> QED  BY <1>2, <3>1, <3>2, <3>3 DEF n
    <2> QED  BY <1>5, <2>1, <2>2, <2>3, <2>4
  <1> QED  BY <1>5, <1>8, <1>9, <1>10 DEF Walk, IsSeq

(* A walk goes on with the rest of its commands.                           *)
LEMMA WalkOn ==
    ASSUME NEW d, NEW c, NEW e, Walk(d, c, e), c # <<>>
    PROVE  /\ IsSeq(Tail(c))
           /\ \E f : StepOf(d, Head(c), f) /\ Walk(f, Tail(c), e)
  <1>1. PICK ds : /\ ds[0] = d /\ ds[Len(c)] = e
                  /\ \A i \in 1 .. Len(c) : StepOf(ds[i - 1], c[i], ds[i])
    BY DEF Walk
  <1>2. PICK S : c \in Seq(S)  BY DEF Walk, IsSeq
  <1> DEFINE n == Len(c)
  <1>3. /\ n \in Nat \ {0} /\ Head(c) = c[1] /\ Tail(c) \in Seq(S) /\ Len(Tail(c)) = n - 1
        /\ \A i \in 1 .. n - 1 : Tail(c)[i] = c[i + 1]
    BY <1>2
  <1> DEFINE es == [i \in 0 .. n - 1 |-> ds[i + 1]]
  <1>4. \A i \in 0 .. n - 1 : es[i] = ds[i + 1]  OBVIOUS
  <1> HIDE DEF es, n
  <1>5. es[0] = ds[1] /\ es[n - 1] = ds[n]
    <2>1. 0 \in 0 .. n - 1 /\ n - 1 \in 0 .. n - 1 /\ 0 + 1 = 1 /\ (n - 1) + 1 = n  BY <1>3
    <2> QED  BY <1>4, <2>1
  <1>6. ASSUME NEW i \in 1 .. n - 1  PROVE StepOf(es[i - 1], Tail(c)[i], es[i])
    <2>1. /\ i - 1 \in 0 .. n - 1 /\ i \in 0 .. n - 1 /\ (i - 1) + 1 = i /\ i + 1 \in 1 .. n
          /\ (i + 1) - 1 = i
      BY <1>3
    <2>2. StepOf(ds[(i + 1) - 1], c[i + 1], ds[i + 1])  BY <1>1, <2>1 DEF n
    <2> QED  BY <1>3, <1>4, <2>1, <2>2
  <1>7. StepOf(d, Head(c), ds[1])
    <2>1. 1 \in 1 .. n /\ 1 - 1 = 0  BY <1>3
    <2>2. StepOf(ds[1 - 1], c[1], ds[1])  BY <1>1, <2>1 DEF n
    <2> QED  BY <1>1, <1>3, <2>1, <2>2
  <1>8. Walk(ds[1], Tail(c), e)
    <2>1. es[0] = ds[1] /\ es[Len(Tail(c))] = e  BY <1>1, <1>3, <1>5 DEF n
    <2>2. \A i \in 1 .. Len(Tail(c)) : StepOf(es[i - 1], Tail(c)[i], es[i])  BY <1>3, <1>6
    <2> QED  BY <1>3, <2>1, <2>2 DEF Walk, IsSeq
  <1> QED  BY <1>3, <1>7, <1>8 DEF IsSeq

(* Behind a command that is never issued there is nothing to show.         *)
LEMMA WalkStuck ==
    ASSUME NEW c, IsSeq(c)
    PROVE  Walk(Stuck, c, Stuck)
  <1> DEFINE ds == [i \in 0 .. Len(c) |-> Stuck]
  <1>1. Len(c) \in Nat  BY DEF IsSeq
  <1>2. \A i \in 0 .. Len(c) : ds[i] = Stuck  OBVIOUS
  <1> HIDE DEF ds
  <1>3. 0 \in 0 .. Len(c) /\ Len(c) \in 0 .. Len(c)  BY <1>1
  <1>4. \A i \in 1 .. Len(c) : StepOf(ds[i - 1], c[i], ds[i])
    <2> SUFFICES ASSUME NEW i \in 1 .. Len(c)  PROVE StepOf(ds[i - 1], c[i], ds[i])
      OBVIOUS
    <2>1. i - 1 \in 0 .. Len(c) /\ i \in 0 .. Len(c)  BY <1>1
    <2>2. ds[i - 1] = Stuck /\ ds[i] = Stuck  BY <1>2, <2>1
    <2> QED  BY <2>2 DEF StepOf
  <1> QED  BY <1>2, <1>3, <1>4 DEF Walk

-----------------------------------------------------------------------------
(* Single commands                                                         *)

(* subcore_idle waits until subcore, idle or about to be, is idle.         *)
LEMMA IdleWalk ==
    ASSUME NEW u, NEW q \in {"quiet", "idle"}, NEW b, NEW ag, NEW gv, NEW mc, NEW st, NEW h
    PROVE  Walk(V(u, SC(q, b), ag, gv, mc, st, h), subcore_idle,
                V(u, SC("idle", b), ag, gv, mc, st, h))
  <1>1. StepOf(V(u, SC(q, b), ag, gv, mc, st, h), [op |-> "idle"],
               V(u, SC("idle", b), ag, gv, mc, st, h))
    BY DEF StepOf, StepIdle, WithSC, V, SC
  <1> QED  BY <1>1, WalkOne DEF subcore_idle

(* Subcore that has been told to run a DMA_WRITE is not idle before all    *)
(* the bursts it was told of have come.                                    *)
LEMMA IdleStuck ==
    ASSUME NEW u, NEW b, NEW ag, NEW gv, NEW mc, NEW st, NEW h
    PROVE  Walk(V(u, SC("DMA_WRITE", b), ag, gv, mc, st, h), subcore_idle, Stuck)
  <1>1. StepOf(V(u, SC("DMA_WRITE", b), ag, gv, mc, st, h), [op |-> "idle"], Stuck)
    BY DEF StepOf, StepIdle, V, SC
  <1> QED  BY <1>1, WalkOne DEF subcore_idle

(* The states the helpers load without running the agent.                  *)
Loads == {"CTRL_WRITE", "CTRL_READ", "SETUP_BURST", "DMA_WRITE", "DMA_READ", "CONFIG_SETUP"}

(* helper_subcore_load waits for subcore and makes it run the state.       *)
LEMMA LoadWalk ==
    ASSUME NEW u, NEW q \in {"quiet", "idle"}, NEW b, NEW ag, NEW gv, NEW mc, NEW st, NEW h,
           NEW s \in Loads
    PROVE  Walk(V(u, SC(q, b), ag, gv, mc, st, h), helper_subcore_load(u, s),
                V(u, SC(s, b), ag, gv, mc, st, h))
  <1>1. StepOf(V(u, SC("idle", b), ag, gv, mc, st, h),
               [op |-> "load", unit |-> u, state |-> s],
               V(u, SC(s, b), ag, gv, mc, st, h))
    <2> DEFINE c == [op |-> "load", unit |-> u, state |-> s]
    <2>1. s \in SubcoreStates  BY DEF Loads, SubcoreStates
    <2>2. c.op = "load" /\ c.unit = u /\ c.state = s  OBVIOUS
    <2>3. s # "AGENT_STARTUP" /\ s # "GPIO_DNA" /\ s # "CTRL_RUN"  BY DEF Loads
    <2> HIDE DEF c
    <2>4. StepLoad(V(u, SC("idle", b), ag, gv, mc, st, h), c, V(u, SC(s, b), ag, gv, mc, st, h))
      BY <2>1, <2>2, <2>3 DEF StepLoad, WithSC, V, SC
    <2> QED  BY <2>2, <2>4 DEF StepOf, c
  <1>2. Walk(V(u, SC("idle", b), ag, gv, mc, st, h), subcore_load(u, s),
             V(u, SC(s, b), ag, gv, mc, st, h))
    BY <1>1, WalkOne DEF subcore_load
  <1> QED  BY <1>2, IdleWalk, WalkBoth DEF helper_subcore_load

(* The same for GPIO_DNA, which addresses no unit.                         *)
LEMMA GpioWalk ==
    ASSUME NEW u, NEW q \in {"quiet", "idle"}, NEW b, NEW ag, NEW gv, NEW mc, NEW st, NEW h
    PROVE  Walk(V(u, SC(q, b), ag, gv, mc, st, h), helper_subcore_load(NULL, "GPIO_DNA"),
                V(u, SC("GPIO_DNA", b), ag, gv, mc, st, h))
  <1>1. StepOf(V(u, SC("idle", b), ag, gv, mc, st, h),
               [op |-> "load", unit |-> NULL, state |-> "GPIO_DNA"],
               V(u, SC("GPIO_DNA", b), ag, gv, mc, st, h))
    BY DEF StepOf, StepLoad, WithSC, V, SC, SubcoreStates
  <1>2. Walk(V(u, SC("idle", b), ag, gv, mc, st, h), subcore_load(NULL, "GPIO_DNA"),
             V(u, SC("GPIO_DNA", b), ag, gv, mc, st, h))
    BY <1>1, WalkOne DEF subcore_load
  <1> QED  BY <1>2, IdleWalk, WalkBoth DEF helper_subcore_load

(* CTRL_RUN: subcore runs the agent, which is loaded,                      *)
LEMMA RunLoad ==
    ASSUME NEW u, NEW q \in {"quiet", "idle"}, NEW b, NEW ag, NEW gv, NEW mc, NEW st, NEW h,
           MayRun(V(u, SC("idle", b), ag, gv, mc, st, h))
    PROVE  Walk(V(u, SC(q, b), ag, gv, mc, st, h), helper_subcore_load(u, "CTRL_RUN"),
                V(u, SC("CTRL_RUN", b), ag, gv, mc, st, h))
  <1>1. StepOf(V(u, SC("idle", b), ag, gv, mc, st, h),
               [op |-> "load", unit |-> u, state |-> "CTRL_RUN"],
               V(u, SC("CTRL_RUN", b), ag, gv, mc, st, h))
    BY DEF StepOf, StepLoad, WithSC, V, SC, SubcoreStates
  <1>2. Walk(V(u, SC("idle", b), ag, gv, mc, st, h), subcore_load(u, "CTRL_RUN"),
             V(u, SC("CTRL_RUN", b), ag, gv, mc, st, h))
    BY <1>1, WalkOne DEF subcore_load
  <1> QED  BY <1>2, IdleWalk, WalkBoth DEF helper_subcore_load

(* and the wait for it: the agent has entered the state.                   *)
LEMMA RunIdle ==
    ASSUME NEW u, NEW b, NEW ag, NEW gv, NEW mc, NEW st, NEW h
    PROVE  Walk(V(u, SC("CTRL_RUN", b), ag, gv, mc, st, h), subcore_idle,
                Ran(V(u, SC("CTRL_RUN", b), ag, gv, mc, st, h)))
  <1>1. V(u, SC("CTRL_RUN", b), ag, gv, mc, st, h).sc.st = "CTRL_RUN"  BY DEF V, SC
  <1>2. StepOf(V(u, SC("CTRL_RUN", b), ag, gv, mc, st, h), [op |-> "idle"],
               Ran(V(u, SC("CTRL_RUN", b), ag, gv, mc, st, h)))
    BY <1>1 DEF StepOf, StepIdle
  <1> QED  BY <1>2, WalkOne DEF subcore_idle

(* The status of the unit is looked at before it is commanded.             *)
LEMMA StartupWalk ==
    ASSUME NEW u, NEW q \in {"quiet", "idle"}, NEW b, NEW ag, NEW gv, NEW mc, NEW st, NEW h
    PROVE  Walk(V(u, SC(q, b), ag, gv, mc, st, h), Startup(u),
                V(u, SC("quiet", b), ag, gv, mc, st, h))
  <1>1. StepOf(V(u, SC(q, b), ag, gv, mc, st, h), [op |-> "startup", unit |-> u],
               V(u, SC("quiet", b), ag, gv, mc, st, h))
    BY DEF StepOf, StepStartup, WithSC, V, SC
  <1> QED  BY <1>1, WalkOne DEF Startup

(* A control packet reaches an agent that waits for a state ...            *)
LEMMA AgentPacket ==
    ASSUME NEW u, NEW b, NEW al, NEW gv, NEW mc, NEW st, NEW h, NEW s \in AgentStates
    PROVE  Walk(V(u, SC("CTRL_WRITE", b), AG("IDLE", al), gv, mc, st, h),
                subcore_write_packet(Data(s)),
                V(u, SC("quiet", b), AG("IDLE", s), gv, mc, st, h))
  <1>1. StepControl(V(u, SC("CTRL_WRITE", b), AG("IDLE", al), gv, mc, st, h), Data(s),
                    V(u, SC("quiet", b), AG("IDLE", s), gv, mc, st, h))
    BY DEF StepControl, V, SC, AG, Data
  <1>2. StepOf(V(u, SC("CTRL_WRITE", b), AG("IDLE", al), gv, mc, st, h),
               [op |-> "write", packet |-> Data(s)],
               V(u, SC("quiet", b), AG("IDLE", s), gv, mc, st, h))
    <2>1. V(u, SC("CTRL_WRITE", b), AG("IDLE", al), gv, mc, st, h).sc.st = "CTRL_WRITE"
      BY DEF V, SC
    <2> QED  BY <1>1, <2>1 DEF StepOf, StepWrite
  <1> QED  BY <1>2, WalkOne DEF subcore_write_packet

(* ... and is passed on by one that is told to: to the gvpu, which takes   *)
(* it as the state to enter,                                               *)
LEMMA GvpuPacket ==
    ASSUME NEW u, NEW b, NEW al, NEW g, NEW gl, NEW mc, NEW st, NEW h, NEW s \in GvpuStates,
           g \notin {"MEM_LOAD", "TEST_INIT"}
    PROVE  Walk(V(u, SC("CTRL_WRITE", b), AG("GVPU_LOAD", al), GV(g, gl), mc, st, h),
                subcore_write_packet(Data(s)),
                V(u, SC("quiet", b), AG("IDLE", al), GV(g, s), mc, st, h))
  <1> DEFINE d == V(u, SC("CTRL_WRITE", b), AG("GVPU_LOAD", al), GV(g, gl), mc, st, h)
             e == V(u, SC("quiet", b), AG("IDLE", al), GV(g, s), mc, st, h)
  <1>1. StepControl(d, Data(s), e)  BY DEF StepControl, V, SC, AG, GV, Data
  <1>2. d.sc.st = "CTRL_WRITE"  BY DEF V, SC
  <1> HIDE DEF d, e
  <1>3. StepOf(d, [op |-> "write", packet |-> Data(s)], e)  BY <1>1, <1>2 DEF StepOf, StepWrite
  <1> QED  BY <1>3, WalkOne DEF subcore_write_packet, d, e

(* in MEM_LOAD to the memcore,                                             *)
LEMMA MemcorePacket ==
    ASSUME NEW u, NEW b, NEW al, NEW gl, NEW ms, NEW ml, NEW a, NEW n, NEW r, NEW st, NEW h,
           NEW s \in MemcoreStates
    PROVE  Walk(V(u, SC("CTRL_WRITE", b), AG("GVPU_LOAD", al), GV("MEM_LOAD", gl),
                  MC(ms, ml, a, n, r), st, h),
                subcore_write_packet(Data(s)),
                V(u, SC("quiet", b), AG("IDLE", al), GV("IDLE", gl), MC(ms, s, a, n, r), st, h))
  <1> DEFINE d == V(u, SC("CTRL_WRITE", b), AG("GVPU_LOAD", al), GV("MEM_LOAD", gl),
                    MC(ms, ml, a, n, r), st, h)
             e == V(u, SC("quiet", b), AG("IDLE", al), GV("IDLE", gl), MC(ms, s, a, n, r), st, h)
  <1>1. StepControl(d, Data(s), e)  BY DEF StepControl, V, SC, AG, GV, MC, Data
  <1>2. d.sc.st = "CTRL_WRITE"  BY DEF V, SC
  <1> HIDE DEF d, e
  <1>3. StepOf(d, [op |-> "write", packet |-> Data(s)], e)  BY <1>1, <1>2 DEF StepOf, StepWrite
  <1> QED  BY <1>3, WalkOne DEF subcore_write_packet, d, e

(* in TEST_INIT to the test.                                               *)
LEMMA TestPacket ==
    ASSUME NEW u, NEW b, NEW al, NEW gl, NEW mc, NEW st, NEW h, NEW s
    PROVE  Walk(V(u, SC("CTRL_WRITE", b), AG("GVPU_LOAD", al), GV("TEST_INIT", gl), mc, st, h),
                subcore_write_packet(Data(s)),
                V(u, SC("quiet", b), AG("IDLE", al), GV("IDLE", gl), mc, st, h))
  <1> DEFINE d == V(u, SC("CTRL_WRITE", b), AG("GVPU_LOAD", al), GV("TEST_INIT", gl), mc, st, h)
             e == V(u, SC("quiet", b), AG("IDLE", al), GV("IDLE", gl), mc, st, h)
  <1>1. StepControl(d, Data(s), e)  BY DEF StepControl, V, SC, AG, GV, Data
  <1>2. d.sc.st = "CTRL_WRITE"  BY DEF V, SC
  <1> HIDE DEF d, e
  <1>3. StepOf(d, [op |-> "write", packet |-> Data(s)], e)  BY <1>1, <1>2 DEF StepOf, StepWrite
  <1> QED  BY <1>3, WalkOne DEF subcore_write_packet, d, e

(* Address and number of bursts reach a memcore in MEMCORE_SETUP_BURST.    *)
LEMMA BurstPacket ==
    ASSUME NEW u, NEW b, NEW al, NEW gl, NEW ml, NEW a, NEW n, NEW r, NEW st, NEW h,
           NEW addr \in 0 .. MEM, NEW num \in Nat
    PROVE  Walk(V(u, SC("CTRL_WRITE", b), AG("BURST_LOAD", al), GV("MEM_BURST", gl),
                  MC({"MEMCORE_SETUP_BURST"}, ml, a, n, r), st, h),
                subcore_write_packet([addr |-> addr, data |-> num]),
                V(u, SC("quiet", b), AG("IDLE", al), GV("IDLE", gl),
                  MC({"IDLE"}, ml, addr, num, r), st, h))
  <1> DEFINE d == V(u, SC("CTRL_WRITE", b), AG("BURST_LOAD", al), GV("MEM_BURST", gl),
                    MC({"MEMCORE_SETUP_BURST"}, ml, a, n, r), st, h)
             e == V(u, SC("quiet", b), AG("IDLE", al), GV("IDLE", gl),
                    MC({"IDLE"}, ml, addr, num, r), st, h)
  <1>1. StepControl(d, [addr |-> addr, data |-> num], e)  BY DEF StepControl, V, SC, AG, GV, MC
  <1>2. d.sc.st = "CTRL_WRITE"  BY DEF V, SC
  <1> HIDE DEF d, e
  <1>3. StepOf(d, [op |-> "write", packet |-> [addr |-> addr, data |-> num]], e)
    BY <1>1, <1>2 DEF StepOf, StepWrite
  <1> QED  BY <1>3, WalkOne DEF subcore_write_packet, d, e

(* A packet that asks for the status changes nothing.                      *)
LEMMA StatusPacket ==
    ASSUME NEW u, NEW b, NEW al, NEW gv, NEW mc, NEW st, NEW h, NEW s
    PROVE  Walk(V(u, SC("CTRL_WRITE", b), AG("GVPU_STATUS", al), gv, mc, st, h),
                subcore_write_packet(Data(s)),
                V(u, SC("quiet", b), AG("GVPU_STATUS", al), gv, mc, st, h))
  <1> DEFINE d == V(u, SC("CTRL_WRITE", b), AG("GVPU_STATUS", al), gv, mc, st, h)
             e == V(u, SC("quiet", b), AG("GVPU_STATUS", al), gv, mc, st, h)
  <1>1. StepControl(d, Data(s), e)  BY DEF StepControl, WithSC, V, SC, AG
  <1>2. d.sc.st = "CTRL_WRITE"  BY DEF V, SC
  <1> HIDE DEF d, e
  <1>3. StepOf(d, [op |-> "write", packet |-> Data(s)], e)  BY <1>1, <1>2 DEF StepOf, StepWrite
  <1> QED  BY <1>3, WalkOne DEF subcore_write_packet, d, e

(* The status packet.                                                      *)
LEMMA StatusRead ==
    ASSUME NEW u, NEW b, NEW s \in {"STATUS", "GVPU_STATUS"}, NEW al, NEW g, NEW gl, NEW ms,
           NEW ml, NEW a, NEW n, NEW r, NEW st, NEW h
    PROVE  Walk(V(u, SC("CTRL_READ", b), AG(s, al), GV(g, gl), MC(ms, ml, a, n, r), st, h),
                subcore_read_packet,
                V(u, SC("quiet", b), AG("IDLE", al), GV(g, gl), MC(ms, ml, a, n, r),
                  ST(g, ms), h))
  <1>1. StepRead(V(u, SC("CTRL_READ", b), AG(s, al), GV(g, gl), MC(ms, ml, a, n, r), st, h),
                 V(u, SC("quiet", b), AG("IDLE", al), GV(g, gl), MC(ms, ml, a, n, r),
                   ST(g, ms), h))
    BY DEF StepRead, V, SC, AG, GV, MC
  <1> QED  BY <1>1, WalkOne DEF subcore_read_packet, StepOf

(* SETUP_BURST takes the number of bursts.                                 *)
LEMMA BurstsPacket ==
    ASSUME NEW u, NEW b, NEW ag, NEW gv, NEW mc, NEW st, NEW h, NEW n \in Nat
    PROVE  Walk(V(u, SC("SETUP_BURST", b), ag, gv, mc, st, h),
                subcore_write_packet(Data(n)),
                V(u, SC("quiet", n), ag, gv, mc, st, h))
  <1>1. StepWrite(V(u, SC("SETUP_BURST", b), ag, gv, mc, st, h), Data(n),
                  V(u, SC("quiet", n), ag, gv, mc, st, h))
    BY DEF StepWrite, V, SC, Data
  <1> QED  BY <1>1, WalkOne DEF subcore_write_packet, StepOf

-----------------------------------------------------------------------------
(* The helpers                                                             *)

(* helper_agent_load: the agent, waiting for a state, is loaded with it    *)
(* and runs it.                                                            *)
LEMMA AgentRuns ==
    ASSUME NEW u, NEW q \in {"quiet", "idle"}, NEW b, NEW al, NEW gv, NEW mc, NEW st, NEW h,
           NEW s \in AgentStates,
           MayRun(V(u, SC("idle", b), AG("IDLE", s), gv, mc, st, h))
    PROVE  Walk(V(u, SC(q, b), AG("IDLE", al), gv, mc, st, h), helper_agent_load(u, s),
                Ran(V(u, SC("CTRL_RUN", b), AG("IDLE", s), gv, mc, st, h)))
  <1> DEFINE W(x, l) == V(u, SC(x, b), AG("IDLE", l), gv, mc, st, h)
  <1>1. Walk(W(q, al), Startup(u), W("quiet", al))  BY StartupWalk
  <1>2. Walk(W("quiet", al), helper_subcore_load(u, "CTRL_WRITE"), W("CTRL_WRITE", al))
    BY LoadWalk DEF Loads
  <1>3. Walk(W("CTRL_WRITE", al), subcore_write_packet(Data(s)), W("quiet", s))  BY AgentPacket
  <1>4. Walk(W("quiet", s), subcore_idle, W("idle", s))  BY IdleWalk
  <1>5. Walk(W("idle", s), helper_subcore_load(u, "CTRL_RUN"), W("CTRL_RUN", s))  BY RunLoad
  <1>6. Walk(W("CTRL_RUN", s), subcore_idle, Ran(W("CTRL_RUN", s)))  BY RunIdle
  <1> QED
    <2> HIDE DEF W
    <2>1. Walk(W(q, al), Startup(u) \o helper_subcore_load(u, "CTRL_WRITE"), W("CTRL_WRITE", al))
      BY <1>1, <1>2, WalkBoth
    <2>2. Walk(W(q, al), Startup(u) \o helper_subcore_load(u, "CTRL_WRITE")
                         \o subcore_write_packet(Data(s)), W("quiet", s))
      BY <1>3, <2>1, WalkBoth
    <2>3. Walk(W(q, al), Startup(u) \o helper_subcore_load(u, "CTRL_WRITE")
                         \o subcore_write_packet(Data(s)) \o subcore_idle, W("idle", s))
      BY <1>4, <2>2, WalkBoth
    <2>4. Walk(W(q, al), Startup(u) \o helper_subcore_load(u, "CTRL_WRITE")
                         \o subcore_write_packet(Data(s)) \o subcore_idle
                         \o helper_subcore_load(u, "CTRL_RUN"), W("CTRL_RUN", s))
      BY <1>5, <2>3, WalkBoth
    <2> QED  BY <1>6, <2>4, WalkBoth DEF helper_agent_load, W

(* The agent enters a state of its own ...                                 *)
LEMMA AgentEnters ==
    ASSUME NEW u, NEW q \in {"quiet", "idle"}, NEW b, NEW al, NEW gv, NEW mc, NEW st, NEW h,
           NEW s \in AgentStates \ {"GVPU_RUN"}
    PROVE  Walk(V(u, SC(q, b), AG("IDLE", al), gv, mc, st, h), helper_agent_load(u, s),
                V(u, SC("idle", b), AG(s, s), gv, mc, st, h))
  <1>1. s # Whatever  BY DEF AgentStates, Whatever
  <1>2. MayRun(V(u, SC("idle", b), AG("IDLE", s), gv, mc, st, h))
    BY <1>1 DEF MayRun, V, SC, AG
  <1>3. Ran(V(u, SC("CTRL_RUN", b), AG("IDLE", s), gv, mc, st, h))
            = V(u, SC("idle", b), AG(s, s), gv, mc, st, h)
    BY DEF Ran, V, SC, AG
  <1> QED  BY <1>2, <1>3, AgentRuns

(* The state a gvpu is in once it has entered s: cleaning up is over at    *)
(* once.                                                                   *)
Entered(s) == IF s = "TEST_CLEANUP" THEN "IDLE" ELSE s

(* ... or makes the gvpu enter the one loaded there ...                    *)
LEMMA GvpuEnters ==
    ASSUME NEW u, NEW q \in {"quiet", "idle"}, NEW b, NEW al, NEW g, NEW mc, NEW st, NEW h,
           NEW s \in GvpuStates \ {"MEM_RUN"}
    PROVE  Walk(V(u, SC(q, b), AG("IDLE", al), GV(g, s), mc, st, h),
                helper_agent_load(u, "GVPU_RUN"),
                V(u, SC("idle", b), AG("IDLE", "GVPU_RUN"), GV(Entered(s), s), mc, st, h))
  <1>1. s # Whatever /\ "GVPU_RUN" # Whatever /\ "GVPU_RUN" \in AgentStates
    BY DEF GvpuStates, AgentStates, Whatever
  <1>2. MayRun(V(u, SC("idle", b), AG("IDLE", "GVPU_RUN"), GV(g, s), mc, st, h))
    BY <1>1 DEF MayRun, V, SC, AG, GV
  <1>3. Ran(V(u, SC("CTRL_RUN", b), AG("IDLE", "GVPU_RUN"), GV(g, s), mc, st, h))
            = V(u, SC("idle", b), AG("IDLE", "GVPU_RUN"), GV(Entered(s), s), mc, st, h)
    BY DEF Ran, V, SC, AG, GV, Entered
  <1> QED  BY <1>1, <1>2, <1>3, AgentRuns

(* ... and the gvpu in turn the memcore.                                   *)
LEMMA MemcoreEnters ==
    ASSUME NEW u, NEW q \in {"quiet", "idle"}, NEW b, NEW al, NEW g, NEW st, NEW h,
           NEW ms, NEW s \in MemcoreStates, NEW a, NEW n, NEW r,
           s = "MEMCORE_READ_BURST" => n \in Nat
    PROVE  Walk(V(u, SC(q, b), AG("IDLE", al), GV(g, "MEM_RUN"), MC(ms, s, a, n, r), st, h),
                helper_agent_load(u, "GVPU_RUN"),
                V(u, SC("idle", b), AG("IDLE", "GVPU_RUN"), GV(g, "MEM_RUN"),
                  RanMemcore(MC(ms, s, a, n, r)), st, h))
  <1> DEFINE mc == MC(ms, s, a, n, r)
  <1>1. /\ s # Whatever /\ "GVPU_RUN" # Whatever /\ "MEM_RUN" # Whatever
        /\ "GVPU_RUN" \in AgentStates
    BY DEF MemcoreStates, AgentStates, Whatever
  <1>2. mc.ld = s /\ mc.left = n  BY DEF MC
  <1>3. s = "MEMCORE_READ_BURST" => n # Unknown  BY DEF Unknown
  <1> HIDE DEF mc
  <1>4. MayRun(V(u, SC("idle", b), AG("IDLE", "GVPU_RUN"), GV(g, "MEM_RUN"), mc, st, h))
    BY <1>1, <1>2, <1>3 DEF MayRun, V, SC, AG, GV
  <1>5. Ran(V(u, SC("CTRL_RUN", b), AG("IDLE", "GVPU_RUN"), GV(g, "MEM_RUN"), mc, st, h))
            = V(u, SC("idle", b), AG("IDLE", "GVPU_RUN"), GV(g, "MEM_RUN"), RanMemcore(mc), st, h)
    BY DEF Ran, V, SC, AG, GV
  <1> QED  BY <1>1, <1>4, <1>5, AgentRuns DEF mc

(* helper_gvpu_packet_write up to the packet: the agent passes it on.      *)
LEMMA Passes ==
    ASSUME NEW u, NEW q \in {"quiet", "idle"}, NEW b, NEW al, NEW gv, NEW mc, NEW st, NEW h
    PROVE  Walk(V(u, SC(q, b), AG("IDLE", al), gv, mc, st, h),
                helper_agent_load(u, "GVPU_LOAD") \o helper_subcore_load(u, "CTRL_WRITE"),
                V(u, SC("CTRL_WRITE", b), AG("GVPU_LOAD", "GVPU_LOAD"), gv, mc, st, h))
  <1>1. Walk(V(u, SC(q, b), AG("IDLE", al), gv, mc, st, h), helper_agent_load(u, "GVPU_LOAD"),
             V(u, SC("idle", b), AG("GVPU_LOAD", "GVPU_LOAD"), gv, mc, st, h))
    BY AgentEnters DEF AgentStates
  <1>2. Walk(V(u, SC("idle", b), AG("GVPU_LOAD", "GVPU_LOAD"), gv, mc, st, h),
             helper_subcore_load(u, "CTRL_WRITE"),
             V(u, SC("CTRL_WRITE", b), AG("GVPU_LOAD", "GVPU_LOAD"), gv, mc, st, h))
    BY LoadWalk DEF Loads
  <1> QED  BY <1>1, <1>2, WalkBoth

(* helper_gvpu_packet_write: a state for the gvpu,                         *)
LEMMA GvpuLoaded ==
    ASSUME NEW u, NEW q \in {"quiet", "idle"}, NEW b, NEW al, NEW g, NEW gl, NEW mc, NEW st,
           NEW h, NEW s \in GvpuStates, g \notin {"MEM_LOAD", "TEST_INIT"}
    PROVE  Walk(V(u, SC(q, b), AG("IDLE", al), GV(g, gl), mc, st, h),
                helper_gvpu_packet_write(u, Data(s)),
                V(u, SC("idle", b), AG("IDLE", "GVPU_LOAD"), GV(g, s), mc, st, h))
  <1> DEFINE d == V(u, SC(q, b), AG("IDLE", al), GV(g, gl), mc, st, h)
             e == V(u, SC("quiet", b), AG("IDLE", "GVPU_LOAD"), GV(g, s), mc, st, h)
             f == V(u, SC("idle", b), AG("IDLE", "GVPU_LOAD"), GV(g, s), mc, st, h)
             c == helper_agent_load(u, "GVPU_LOAD") \o helper_subcore_load(u, "CTRL_WRITE")
  <1>1. Walk(d, c \o subcore_write_packet(Data(s)), e)  BY Passes, GvpuPacket, WalkBoth
  <1>2. Walk(e, subcore_idle, f)  BY IdleWalk
  <1> QED  BY <1>1, <1>2, WalkBoth DEF helper_gvpu_packet_write

(* for the memcore,                                                        *)
LEMMA MemcoreLoaded ==
    ASSUME NEW u, NEW q \in {"quiet", "idle"}, NEW b, NEW al, NEW gl, NEW st, NEW h,
           NEW ms, NEW ml, NEW a, NEW n, NEW r, NEW s \in MemcoreStates
    PROVE  Walk(V(u, SC(q, b), AG("IDLE", al), GV("MEM_LOAD", gl), MC(ms, ml, a, n, r), st, h),
                helper_gvpu_packet_write(u, Data(s)),
                V(u, SC("idle", b), AG("IDLE", "GVPU_LOAD"), GV("IDLE", gl),
                  MC(ms, s, a, n, r), st, h))
  <1> DEFINE d == V(u, SC(q, b), AG("IDLE", al), GV("MEM_LOAD", gl), MC(ms, ml, a, n, r), st, h)
             e == V(u, SC("quiet", b), AG("IDLE", "GVPU_LOAD"), GV("IDLE", gl),
                    MC(ms, s, a, n, r), st, h)
             f == V(u, SC("idle", b), AG("IDLE", "GVPU_LOAD"), GV("IDLE", gl),
                    MC(ms, s, a, n, r), st, h)
             c == helper_agent_load(u, "GVPU_LOAD") \o helper_subcore_load(u, "CTRL_WRITE")
  <1>1. Walk(d, c \o subcore_write_packet(Data(s)), e)  BY Passes, MemcorePacket, WalkBoth
  <1>2. Walk(e, subcore_idle, f)  BY IdleWalk
  <1> QED  BY <1>1, <1>2, WalkBoth DEF helper_gvpu_packet_write

(* or for the test.                                                        *)
LEMMA TestTold ==
    ASSUME NEW u, NEW q \in {"quiet", "idle"}, NEW b, NEW al, NEW gl, NEW mc, NEW st, NEW h, NEW s
    PROVE  Walk(V(u, SC(q, b), AG("IDLE", al), GV("TEST_INIT", gl), mc, st, h),
                helper_gvpu_packet_write(u, Data(s)),
                V(u, SC("idle", b), AG("IDLE", "GVPU_LOAD"), GV("IDLE", gl), mc, st, h))
  <1> DEFINE d == V(u, SC(q, b), AG("IDLE", al), GV("TEST_INIT", gl), mc, st, h)
             e == V(u, SC("quiet", b), AG("IDLE", "GVPU_LOAD"), GV("IDLE", gl), mc, st, h)
             f == V(u, SC("idle", b), AG("IDLE", "GVPU_LOAD"), GV("IDLE", gl), mc, st, h)
             c == helper_agent_load(u, "GVPU_LOAD") \o helper_subcore_load(u, "CTRL_WRITE")
  <1>1. Walk(d, c \o subcore_write_packet(Data(s)), e)  BY Passes, TestPacket, WalkBoth
  <1>2. Walk(e, subcore_idle, f)  BY IdleWalk
  <1> QED  BY <1>1, <1>2, WalkBoth DEF helper_gvpu_packet_write

(* helper_gvpu_load: the gvpu is loaded with a state and enters it.        *)
LEMMA GvpuLoad ==
    ASSUME NEW u, NEW q \in {"quiet", "idle"}, NEW b, NEW al, NEW g, NEW gl, NEW mc, NEW st,
           NEW h, NEW s \in GvpuStates \ {"MEM_RUN"}, g \notin {"MEM_LOAD", "TEST_INIT"}
    PROVE  Walk(V(u, SC(q, b), AG("IDLE", al), GV(g, gl), mc, st, h), helper_gvpu_load(u, s),
                V(u, SC("idle", b), AG("IDLE", "GVPU_RUN"), GV(Entered(s), s), mc, st, h))
  <1> DEFINE d == V(u, SC(q, b), AG("IDLE", al), GV(g, gl), mc, st, h)
             e == V(u, SC("idle", b), AG("IDLE", "GVPU_LOAD"), GV(g, s), mc, st, h)
             f == V(u, SC("idle", b), AG("IDLE", "GVPU_RUN"), GV(Entered(s), s), mc, st, h)
  <1>1. Walk(d, helper_gvpu_packet_write(u, Data(s)), e)  BY GvpuLoaded
  <1>2. Walk(e, helper_agent_load(u, "GVPU_RUN"), f)  BY GvpuEnters
  <1>3. Walk(f, subcore_idle, f)  BY IdleWalk
  <1> HIDE DEF d, e, f
  <1>4. Walk(d, helper_gvpu_packet_write(u, Data(s)) \o helper_agent_load(u, "GVPU_RUN"), f)
    BY <1>1, <1>2, WalkBoth
  <1> QED  BY <1>3, <1>4, WalkBoth DEF helper_gvpu_load, d, f

(* helper_gvpu_load with MEM_RUN: the memcore enters the state loaded.     *)
LEMMA GvpuRunsMemcore ==
    ASSUME NEW u, NEW q \in {"quiet", "idle"}, NEW b, NEW al, NEW g, NEW gl, NEW st,
           NEW h, NEW ms, NEW s \in MemcoreStates, NEW a, NEW n, NEW r,
           g \notin {"MEM_LOAD", "TEST_INIT"}, s = "MEMCORE_READ_BURST" => n \in Nat
    PROVE  Walk(V(u, SC(q, b), AG("IDLE", al), GV(g, gl), MC(ms, s, a, n, r), st, h),
                helper_gvpu_load(u, "MEM_RUN"),
                V(u, SC("idle", b), AG("IDLE", "GVPU_RUN"), GV(g, "MEM_RUN"),
                  RanMemcore(MC(ms, s, a, n, r)), st, h))
  <1> DEFINE mc == MC(ms, s, a, n, r)
             d == V(u, SC(q, b), AG("IDLE", al), GV(g, gl), mc, st, h)
             e == V(u, SC("idle", b), AG("IDLE", "GVPU_LOAD"), GV(g, "MEM_RUN"), mc, st, h)
             f == V(u, SC("idle", b), AG("IDLE", "GVPU_RUN"), GV(g, "MEM_RUN"),
                    RanMemcore(mc), st, h)
  <1>1. Walk(d, helper_gvpu_packet_write(u, Data("MEM_RUN")), e)  BY GvpuLoaded DEF GvpuStates
  <1>2. Walk(e, helper_agent_load(u, "GVPU_RUN"), f)  BY MemcoreEnters
  <1>3. Walk(f, subcore_idle, f)  BY IdleWalk
  <1> HIDE DEF d, e, f
  <1>4. Walk(d, helper_gvpu_packet_write(u, Data("MEM_RUN")) \o helper_agent_load(u, "GVPU_RUN"), f)
    BY <1>1, <1>2, WalkBoth
  <1> QED  BY <1>3, <1>4, WalkBoth DEF helper_gvpu_load, d, f

(* helper_get_agent_status: the states of gvpu and memcore are read.       *)
LEMMA AgentStatus ==
    ASSUME NEW u, NEW q \in {"quiet", "idle"}, NEW b, NEW al, NEW g, NEW gl, NEW ms, NEW ml,
           NEW a, NEW n, NEW r, NEW st, NEW h
    PROVE  Walk(V(u, SC(q, b), AG("IDLE", al), GV(g, gl), MC(ms, ml, a, n, r), st, h),
                helper_get_agent_status(u),
                V(u, SC("idle", b), AG("IDLE", "STATUS"), GV(g, gl), MC(ms, ml, a, n, r),
                  ST(g, ms), h))
  <1> DEFINE W(x, ag, s) == V(u, SC(x, b), ag, GV(g, gl), MC(ms, ml, a, n, r), s, h)
             c1 == helper_agent_load(u, "STATUS")
             c2 == c1 \o helper_subcore_load(u, "CTRL_READ")
             c3 == c2 \o subcore_read_packet
  <1>1. Walk(W(q, AG("IDLE", al), st), c1, W("idle", AG("STATUS", "STATUS"), st))
    BY AgentEnters DEF AgentStates
  <1>2. Walk(W("idle", AG("STATUS", "STATUS"), st), helper_subcore_load(u, "CTRL_READ"),
             W("CTRL_READ", AG("STATUS", "STATUS"), st))
    BY LoadWalk DEF Loads
  <1>3. Walk(W("CTRL_READ", AG("STATUS", "STATUS"), st), subcore_read_packet,
             W("quiet", AG("IDLE", "STATUS"), ST(g, ms)))
    BY StatusRead
  <1>4. Walk(W("quiet", AG("IDLE", "STATUS"), ST(g, ms)), subcore_idle,
             W("idle", AG("IDLE", "STATUS"), ST(g, ms)))
    BY IdleWalk
  <1> HIDE DEF W
  <1>5. Walk(W(q, AG("IDLE", al), st), c2, W("CTRL_READ", AG("STATUS", "STATUS"), st))
    BY <1>1, <1>2, WalkBoth
  <1>6. Walk(W(q, AG("IDLE", al), st), c3, W("quiet", AG("IDLE", "STATUS"), ST(g, ms)))
    BY <1>3, <1>5, WalkBoth
  <1> QED  BY <1>4, <1>6, WalkBoth DEF helper_get_agent_status, W

(* helper_get_agent_gvpu_status.                                           *)
LEMMA AgentGvpuStatus ==
    ASSUME NEW u, NEW q \in {"quiet", "idle"}, NEW b, NEW al, NEW g, NEW gl, NEW ms, NEW ml,
           NEW a, NEW n, NEW r, NEW st, NEW h
    PROVE  Walk(V(u, SC(q, b), AG("IDLE", al), GV(g, gl), MC(ms, ml, a, n, r), st, h),
                helper_get_agent_gvpu_status(u),
                V(u, SC("idle", b), AG("IDLE", "GVPU_STATUS"), GV(g, gl), MC(ms, ml, a, n, r),
                  ST(g, ms), h))
  <1> DEFINE W(x, ag, s) == V(u, SC(x, b), ag, GV(g, gl), MC(ms, ml, a, n, r), s, h)
             asked == AG("GVPU_STATUS", "GVPU_STATUS")
             told  == AG("IDLE", "GVPU_STATUS")
             c1 == helper_agent_load(u, "GVPU_STATUS")
             c2 == c1 \o helper_subcore_load(u, "CTRL_WRITE")
             c3 == c2 \o subcore_write_packet(Data("GET_CYCLE"))
             c4 == c3 \o helper_subcore_load(u, "CTRL_READ")
             c5 == c4 \o subcore_read_packet
  <1>1. Walk(W(q, AG("IDLE", al), st), c1, W("idle", asked, st))  BY AgentEnters DEF AgentStates
  <1>2. Walk(W("idle", asked, st), helper_subcore_load(u, "CTRL_WRITE"), W("CTRL_WRITE", asked, st))
    BY LoadWalk DEF Loads
  <1>3. Walk(W("CTRL_WRITE", asked, st), subcore_write_packet(Data("GET_CYCLE")),
             W("quiet", asked, st))
    BY StatusPacket
  <1>4. Walk(W("quiet", asked, st), helper_subcore_load(u, "CTRL_READ"), W("CTRL_READ", asked, st))
    BY LoadWalk DEF Loads
  <1>5. Walk(W("CTRL_READ", asked, st), subcore_read_packet, W("quiet", told, ST(g, ms)))
    BY StatusRead
  <1>6. Walk(W("quiet", told, ST(g, ms)), subcore_idle, W("idle", told, ST(g, ms)))  BY IdleWalk
  <1> HIDE DEF W, asked, told
  <1>7. Walk(W(q, AG("IDLE", al), st), c2, W("CTRL_WRITE", asked, st))  BY <1>1, <1>2, WalkBoth
  <1>8. Walk(W(q, AG("IDLE", al), st), c3, W("quiet", asked, st))  BY <1>3, <1>7, WalkBoth
  <1>9. Walk(W(q, AG("IDLE", al), st), c4, W("CTRL_READ", asked, st))  BY <1>4, <1>8, WalkBoth
  <1>10. Walk(W(q, AG("IDLE", al), st), c5, W("quiet", told, ST(g, ms)))  BY <1>5, <1>9, WalkBoth
  <1> QED  BY <1>6, <1>10, WalkBoth DEF helper_get_agent_gvpu_status, W, told

(* helper_memcore_load: through the gvpu, which is in MEM_LOAD when it is  *)
(* looked at, the memcore is loaded with a state and enters it.            *)
LEMMA MemcoreLoad ==
    ASSUME NEW u, NEW q \in {"quiet", "idle"}, NEW b, NEW al, NEW g, NEW gl, NEW ms, NEW ml,
           NEW a, NEW n, NEW r, NEW st, NEW h, NEW s \in MemcoreStates,
           g \notin {"MEM_LOAD", "TEST_INIT"}, s = "MEMCORE_READ_BURST" => n \in Nat
    PROVE  Walk(V(u, SC(q, b), AG("IDLE", al), GV(g, gl), MC(ms, ml, a, n, r), st, h),
                helper_memcore_load(u, s),
                V(u, SC("idle", b), AG("IDLE", "GVPU_RUN"), GV("IDLE", "MEM_RUN"),
                  RanMemcore(MC(ms, s, a, n, r)), ST("MEM_LOAD", ms), h))
  <1> DEFINE W(l, gv, x, s1) == V(u, SC("idle", b), AG("IDLE", l), gv, MC(ms, x, a, n, r), s1, h)
             d  == V(u, SC(q, b), AG("IDLE", al), GV(g, gl), MC(ms, ml, a, n, r), st, h)
             f  == V(u, SC("idle", b), AG("IDLE", "GVPU_RUN"), GV("IDLE", "MEM_RUN"),
                     RanMemcore(MC(ms, s, a, n, r)), ST("MEM_LOAD", ms), h)
             gv == GV("MEM_LOAD", "MEM_LOAD")
             s2 == ST("MEM_LOAD", ms)
             c1 == helper_gvpu_load(u, "MEM_LOAD")
             c2 == c1 \o helper_print_agent_status(u)
             c3 == c2 \o helper_get_agent_status(u)
             c4 == c3 \o CheckGvpu(u, "MEM_LOAD")
             c5 == c4 \o helper_gvpu_packet_write(u, Data(s))
  <1>1. Walk(d, c1, W("GVPU_RUN", gv, ml, st))
    <2>1. "MEM_LOAD" \in GvpuStates \ {"MEM_RUN"} /\ Entered("MEM_LOAD") = "MEM_LOAD"
      BY DEF GvpuStates, Entered
    <2>2. Walk(d, c1, V(u, SC("idle", b), AG("IDLE", "GVPU_RUN"), GV(Entered("MEM_LOAD"), "MEM_LOAD"),
                        MC(ms, ml, a, n, r), st, h))
      BY <2>1, GvpuLoad
    <2> QED  BY <2>1, <2>2
  <1>2. Walk(W("GVPU_RUN", gv, ml, st), helper_print_agent_status(u), W("STATUS", gv, ml, s2))
    BY AgentStatus DEF helper_print_agent_status
  <1>3. Walk(W("STATUS", gv, ml, s2), helper_get_agent_status(u), W("STATUS", gv, ml, s2))
    BY AgentStatus
  <1>4. Walk(W("STATUS", gv, ml, s2), CheckGvpu(u, "MEM_LOAD"), W("STATUS", gv, ml, s2))
    <2>1. StepOf(W("STATUS", gv, ml, s2), [op |-> "check_gvpu", unit |-> u, state |-> "MEM_LOAD"],
                 W("STATUS", gv, ml, s2))
      BY DEF StepOf, V, ST
    <2> QED  BY <2>1, WalkOne DEF CheckGvpu
  <1>5. Walk(W("STATUS", gv, ml, s2), helper_gvpu_packet_write(u, Data(s)),
             W("GVPU_LOAD", GV("IDLE", "MEM_LOAD"), s, s2))
    BY MemcoreLoaded
  <1>6. Walk(W("GVPU_LOAD", GV("IDLE", "MEM_LOAD"), s, s2), helper_gvpu_load(u, "MEM_RUN"), f)
    BY GvpuRunsMemcore
  <1> HIDE DEF W, d, f, gv, s2
  <1>7. Walk(d, c2, W("STATUS", gv, ml, s2))  BY <1>1, <1>2, WalkBoth
  <1>8. Walk(d, c3, W("STATUS", gv, ml, s2))  BY <1>3, <1>7, WalkBoth
  <1>9. Walk(d, c4, W("STATUS", gv, ml, s2))  BY <1>4, <1>8, WalkBoth
  <1>10. Walk(d, c5, W("GVPU_LOAD", GV("IDLE", "MEM_LOAD"), s, s2))  BY <1>5, <1>9, WalkBoth
  <1> QED  BY <1>6, <1>10, WalkBoth DEF helper_memcore_load, d, f

(* helper_burst_setup: the memcore knows address and number of bursts.     *)
LEMMA BurstSetup ==
    ASSUME NEW u, NEW q \in {"quiet", "idle"}, NEW b, NEW al, NEW g, NEW gl, NEW ms, NEW ml,
           NEW a, NEW n, NEW r, NEW st, NEW h, g \notin {"MEM_LOAD", "TEST_INIT"},
           NEW addr \in 0 .. MEM, NEW num \in Nat
    PROVE  Walk(V(u, SC(q, b), AG("IDLE", al), GV(g, gl), MC(ms, ml, a, n, r), st, h),
                helper_burst_setup(u, addr, num),
                V(u, SC("idle", b), AG("IDLE", "BURST_LOAD"), GV("IDLE", "MEM_BURST"),
                  MC({"IDLE"}, "MEMCORE_SETUP_BURST", addr, num, FALSE), ST("MEM_LOAD", ms), h))
  <1> DEFINE S  == "MEMCORE_SETUP_BURST"
             W(x, ag, gv, mc) == V(u, SC(x, b), ag, gv, mc, ST("MEM_LOAD", ms), h)
             d  == V(u, SC(q, b), AG("IDLE", al), GV(g, gl), MC(ms, ml, a, n, r), st, h)
             m1 == MC({S}, S, a, n, FALSE)
             m2 == MC({"IDLE"}, S, addr, num, FALSE)
             bl == AG("BURST_LOAD", "BURST_LOAD")
             mb == GV("MEM_BURST", "MEM_BURST")
             c1 == helper_memcore_load(u, S)
             c2 == c1 \o helper_gvpu_load(u, "MEM_BURST")
             c3 == c2 \o helper_agent_load(u, "BURST_LOAD")
             c4 == c3 \o helper_subcore_load(u, "CTRL_WRITE")
             c5 == c4 \o subcore_write_packet([addr |-> addr, data |-> num])
  <1>1. Walk(d, c1, W("idle", AG("IDLE", "GVPU_RUN"), GV("IDLE", "MEM_RUN"), m1))
    <2>1. S \in MemcoreStates /\ S # "MEMCORE_READ_BURST"  BY DEF MemcoreStates
    <2>2. RanMemcore(MC(ms, S, a, n, r)) = m1  BY DEF RanMemcore, MC
    <2> HIDE DEF S, m1
    <2>3. Walk(d, c1, W("idle", AG("IDLE", "GVPU_RUN"), GV("IDLE", "MEM_RUN"),
                        RanMemcore(MC(ms, S, a, n, r))))
      BY <2>1, MemcoreLoad
    <2> QED  BY <2>2, <2>3
  <1>2. Walk(W("idle", AG("IDLE", "GVPU_RUN"), GV("IDLE", "MEM_RUN"), m1),
             helper_gvpu_load(u, "MEM_BURST"), W("idle", AG("IDLE", "GVPU_RUN"), mb, m1))
    <2>1. "MEM_BURST" \in GvpuStates \ {"MEM_RUN"} /\ Entered("MEM_BURST") = "MEM_BURST"
      BY DEF GvpuStates, Entered
    <2> HIDE DEF m1
    <2>2. Walk(W("idle", AG("IDLE", "GVPU_RUN"), GV("IDLE", "MEM_RUN"), m1),
               helper_gvpu_load(u, "MEM_BURST"),
               W("idle", AG("IDLE", "GVPU_RUN"), GV(Entered("MEM_BURST"), "MEM_BURST"), m1))
      BY <2>1, GvpuLoad
    <2> QED  BY <2>1, <2>2
  <1>3. Walk(W("idle", AG("IDLE", "GVPU_RUN"), mb, m1), helper_agent_load(u, "BURST_LOAD"),
             W("idle", bl, mb, m1))
    BY AgentEnters DEF AgentStates
  <1>4. Walk(W("idle", bl, mb, m1), helper_subcore_load(u, "CTRL_WRITE"),
             W("CTRL_WRITE", bl, mb, m1))
    BY LoadWalk DEF Loads
  <1>5. Walk(W("CTRL_WRITE", bl, mb, m1), subcore_write_packet([addr |-> addr, data |-> num]),
             W("quiet", AG("IDLE", "BURST_LOAD"), GV("IDLE", "MEM_BURST"), m2))
    BY BurstPacket
  <1>6. Walk(W("quiet", AG("IDLE", "BURST_LOAD"), GV("IDLE", "MEM_BURST"), m2), subcore_idle,
             W("idle", AG("IDLE", "BURST_LOAD"), GV("IDLE", "MEM_BURST"), m2))
    BY IdleWalk
  <1> HIDE DEF W, d, m1, m2, bl, mb
  <1>7. Walk(d, c2, W("idle", AG("IDLE", "GVPU_RUN"), mb, m1))  BY <1>1, <1>2, WalkBoth
  <1>8. Walk(d, c3, W("idle", bl, mb, m1))  BY <1>3, <1>7, WalkBoth
  <1>9. Walk(d, c4, W("CTRL_WRITE", bl, mb, m1))  BY <1>4, <1>8, WalkBoth
  <1>10. Walk(d, c5, W("quiet", AG("IDLE", "BURST_LOAD"), GV("IDLE", "MEM_BURST"), m2))
    BY <1>5, <1>9, WalkBoth
  <1> QED  BY <1>6, <1>10, WalkBoth DEF helper_burst_setup, W, d, m2

-----------------------------------------------------------------------------
(* Transfers one after the other                                           *)

(* The function that Concat is defined with exists.                        *)
LEMMA ConcatExists ==
    ASSUME NEW f, NEW N \in Nat
    PROVE  \E F : F = [i \in 0 .. N |-> IF i = 0 THEN <<>> ELSE F[i - 1] \o f[i - 1]]
  <1> DEFINE Good(F, n) == F = [i \in 0 .. n |-> IF i = 0 THEN <<>> ELSE F[i - 1] \o f[i - 1]]
             S == {n \in Nat : \E F : Good(F, n)}
  <1>1. 0 \in S
    <2>1. Good([i \in 0 .. 0 |-> <<>>], 0)  OBVIOUS
    <2> QED  BY <2>1
  <1>2. ASSUME NEW n \in S  PROVE n + 1 \in S
    <2>1. n \in Nat  OBVIOUS
    <2>2. PICK F : Good(F, n)  OBVIOUS
    <2> DEFINE g == [i \in 0 .. n + 1 |-> IF i = n + 1 THEN F[n] \o f[n] ELSE F[i]]
    <2>3. ASSUME NEW i \in 0 .. n + 1
          PROVE  g[i] = IF i = 0 THEN <<>> ELSE g[i - 1] \o f[i - 1]
      <3>1. \A j \in 0 .. n + 1 : g[j] = IF j = n + 1 THEN F[n] \o f[n] ELSE F[j]  OBVIOUS
      <3> HIDE DEF g
      <3>2. CASE i = n + 1
        <4>1. i # 0 /\ i - 1 = n /\ n \in 0 .. n + 1 /\ n # n + 1  BY <2>1, <3>2
        <4>2. g[n] = F[n]  BY <3>1, <4>1
        <4> QED  BY <3>1, <3>2, <4>1, <4>2
      <3>3. CASE i # n + 1 /\ i = 0
        <4>1. 0 \in 0 .. n  BY <2>1
        <4>2. F[0] = <<>>  BY <2>2, <4>1
        <4> QED  BY <3>1, <3>3, <4>2
      <3>4. CASE i # n + 1 /\ i # 0
        <4>1. i \in 0 .. n /\ i - 1 \in 0 .. n + 1 /\ i - 1 # n + 1  BY <2>1, <3>4
        <4>2. F[i] = F[i - 1] \o f[i - 1]  BY <2>2, <3>4, <4>1
        <4>3. g[i] = F[i] /\ g[i - 1] = F[i - 1]  BY <3>1, <3>4, <4>1
        <4> QED  BY <3>4, <4>2, <4>3
      <3> QED  BY <3>2, <3>3, <3>4
    <2>4. Good(g, n + 1)
      <3>1. g = [i \in 0 .. n + 1 |-> g[i]]  OBVIOUS
      <3> HIDE DEF g
      <3> QED  BY <2>3, <3>1
    <2>5. n + 1 \in Nat  BY <2>1
    <2>6. \E D : Good(D, n + 1)
      <3> HIDE DEF g, Good
      <3> QED  BY <2>4
    <2> HIDE DEF Good, g
    <2> QED  BY <2>5, <2>6
  <1>3. S \in SUBSET Nat  OBVIOUS
  <1> HIDE DEF S
  <1>4. N \in S  BY <1>1, <1>2, <1>3, Induct
  <1> QED  BY <1>4 DEF S

(* Where each piece is a walk from one view to the next, so is the whole.  *)
LEMMA ConcatWalk ==
    ASSUME NEW N \in Nat, NEW f, NEW D, \A i \in 0 .. N - 1 : Walk(D[i], f[i], D[i + 1])
    PROVE  Walk(D[0], Concat(f, N), D[N])
  <1> DEFINE F == CHOOSE F : F = [i \in 0 .. N |-> IF i = 0 THEN <<>> ELSE F[i - 1] \o f[i - 1]]
             S == {i \in Nat : i <= N => Walk(D[0], F[i], D[i])}
  <1>1. F = [i \in 0 .. N |-> IF i = 0 THEN <<>> ELSE F[i - 1] \o f[i - 1]]  BY ConcatExists
  <1>2. Concat(f, N) = F[N]  BY DEF Concat
  <1> HIDE DEF F
  <1>3. \A i \in 0 .. N : F[i] = IF i = 0 THEN <<>> ELSE F[i - 1] \o f[i - 1]  BY <1>1
  <1>4. 0 \in S
    <2>1. 0 \in 0 .. N  OBVIOUS
    <2>2. F[0] = <<>>  BY <1>3, <2>1
    <2> QED  BY <2>2, WalkNone
  <1>5. ASSUME NEW i \in S  PROVE i + 1 \in S
    <2>1. i \in Nat /\ i + 1 \in Nat  OBVIOUS
    <2>2. CASE i + 1 <= N
      <3>1. i <= N /\ i \in 0 .. N - 1 /\ i + 1 \in 0 .. N /\ i + 1 # 0 /\ (i + 1) - 1 = i
        BY <2>1, <2>2
      <3>2. Walk(D[0], F[i], D[i])  BY <3>1
      <3>3. Walk(D[i], f[i], D[i + 1])  BY <3>1
      <3>4. F[i + 1] = F[i] \o f[i]
        <4>1. F[i + 1] = F[(i + 1) - 1] \o f[(i + 1) - 1]  BY <1>3, <3>1
        <4> QED  BY <3>1, <4>1
      <3>5. Walk(D[0], F[i + 1], D[i + 1])  BY <3>2, <3>3, <3>4, WalkBoth
      <3> QED  BY <2>1, <3>5
    <2> QED  BY <2>1, <2>2
  <1>6. S \in SUBSET Nat  OBVIOUS
  <1>7. N \in S
    <2> HIDE DEF S
    <2> QED  BY <1>4, <1>5, <1>6, Induct
  <1> QED  BY <1>2, <1>7

-----------------------------------------------------------------------------
(* Transfers                                                               *)

(* SETUP_BURST with its number of bursts.                                  *)
LEMMA SetupBurstWalk ==
    ASSUME NEW u, NEW q \in {"quiet", "idle"}, NEW b, NEW ag, NEW gv, NEW mc, NEW st, NEW h,
           NEW n \in Nat
    PROVE  Walk(V(u, SC(q, b), ag, gv, mc, st, h), SetupBurst(u, n),
                V(u, SC("idle", n), ag, gv, mc, st, h))
  <1> DEFINE W(x, k) == V(u, SC(x, k), ag, gv, mc, st, h)
             c1 == subcore_idle \o helper_subcore_load(u, "SETUP_BURST")
             c2 == c1 \o subcore_write_packet(Data(n))
  <1>1. Walk(W(q, b), subcore_idle, W("idle", b))  BY IdleWalk
  <1>2. Walk(W("idle", b), helper_subcore_load(u, "SETUP_BURST"), W("SETUP_BURST", b))
    BY LoadWalk DEF Loads
  <1>3. Walk(W("SETUP_BURST", b), subcore_write_packet(Data(n)), W("quiet", n))  BY BurstsPacket
  <1>4. Walk(W("quiet", n), subcore_idle, W("idle", n))  BY IdleWalk
  <1> HIDE DEF W
  <1>5. Walk(W(q, b), c1, W("SETUP_BURST", b))  BY <1>1, <1>2, WalkBoth
  <1>6. Walk(W(q, b), c2, W("quiet", n))  BY <1>3, <1>5, WalkBoth
  <1> QED  BY <1>4, <1>6, WalkBoth DEF SetupBurst, W

(* subcore_prep_dma_write and subcore_prep_dma_read.                       *)
LEMMA PrepDmaWalk ==
    ASSUME NEW u, NEW q \in {"quiet", "idle"}, NEW b, NEW ag, NEW gv, NEW mc, NEW st, NEW h,
           NEW n \in Nat
    PROVE  /\ Walk(V(u, SC(q, b), ag, gv, mc, st, h), subcore_prep_dma_write(u, n),
                   V(u, SC("DMA_WRITE", n), ag, gv, mc, st, h))
           /\ Walk(V(u, SC(q, b), ag, gv, mc, st, h), subcore_prep_dma_read(u, n),
                   V(u, SC("DMA_READ", n), ag, gv, mc, st, h))
  <1> DEFINE W(x, k) == V(u, SC(x, k), ag, gv, mc, st, h)
  <1>1. Walk(W(q, b), SetupBurst(u, n), W("idle", n))  BY SetupBurstWalk
  <1>2. Walk(W("idle", n), helper_subcore_load(u, "DMA_WRITE"), W("DMA_WRITE", n))
    BY LoadWalk DEF Loads
  <1>3. Walk(W("idle", n), helper_subcore_load(u, "DMA_READ"), W("DMA_READ", n))
    BY LoadWalk DEF Loads
  <1> HIDE DEF W
  <1> QED  BY <1>1, <1>2, <1>3, WalkBoth DEF subcore_prep_dma_write, subcore_prep_dma_read, W

(* gcore_dma_alloc_reset and gcore_dma_alloc.                              *)
LEMMA AllocWalk ==
    ASSUME NEW u, NEW sc, NEW ag, NEW gv, NEW mc, NEW st, NEW o, NEW bf, NEW m, NEW r, NEW f,
           NEW n \in Nat
    PROVE  /\ Walk(V(u, sc, ag, gv, mc, st, HO(o, bf, NULL, m, r, f)), gcore_dma_alloc_reset,
                   V(u, sc, ag, gv, mc, st, HO(0, bf, NULL, m, r, f)))
           /\ Walk(V(u, sc, ag, gv, mc, st, HO(o, bf, NULL, m, r, f)), gcore_dma_alloc(n),
                   V(u, sc, ag, gv, mc, st, HO(o + n, o, NULL, m, r, f)))
  <1>1. StepAlloc(V(u, sc, ag, gv, mc, st, HO(o, bf, NULL, m, r, f)), [op |-> "alloc_reset"],
                  V(u, sc, ag, gv, mc, st, HO(0, bf, NULL, m, r, f)))
    BY DEF StepAlloc, WithH, V, HO
  <1>2. StepAlloc(V(u, sc, ag, gv, mc, st, HO(o, bf, NULL, m, r, f)), [op |-> "alloc", size |-> n],
                  V(u, sc, ag, gv, mc, st, HO(o + n, o, NULL, m, r, f)))
    BY DEF StepAlloc, WithH, V, HO
  <1> QED  BY <1>1, <1>2, WalkOne DEF gcore_dma_alloc_reset, gcore_dma_alloc, StepOf

-----------------------------------------------------------------------------
(* Bursts and buffers                                                      *)

(* A size of whole bursts.                                                 *)
LEMMA WholeBursts ==
    ASSUME NEW n \in Nat
    PROVE  n * BURST \in Nat /\ (n * BURST) \div BURST = n /\ (n * BURST) % BURST = 0
  <1>1. BURST \in Nat \ {0}  BY BoardAssumption
  <1>2. n * BURST \in Nat /\ n * BURST = (BURST * n) + 0 /\ 0 \in 0 .. BURST - 1  BY <1>1
  <1> QED  BY <1>1, <1>2, DivModIs

(* The bursts of a size hold it, and less than a burst more.               *)
LEMMA Bursts ==
    ASSUME NEW s \in Nat
    PROVE  /\ NumBursts(s) \in Nat
           /\ NumBursts(s) * BURST \in Nat
           /\ s <= NumBursts(s) * BURST /\ NumBursts(s) * BURST < s + BURST
           /\ (s + BURST - 1) \div BURST = NumBursts(s)
           /\ s # 0 => NumBursts(s) # 0
  <1> DEFINE q == s \div BURST
             r == s % BURST
             n == NumBursts(s)
  <1>1. BURST \in Nat \ {0}  BY BoardAssumption
  <1>2. q \in Nat /\ r \in 0 .. BURST - 1 /\ s = (BURST * q) + r  BY <1>1, DivMod
  <1>3. n = q + (IF r # 0 THEN 1 ELSE 0)  BY DEF NumBursts
  <1> HIDE DEF q, r, n
  <1>4. q * BURST = BURST * q /\ BURST * q \in Nat /\ (q + 1) * BURST = (BURST * q) + BURST
    BY <1>1, <1>2
  <1>5. CASE r = 0
    <2>1. n = q /\ n * BURST = s  BY <1>2, <1>3, <1>4, <1>5
    <2>2. s + BURST - 1 = (BURST * q) + (BURST - 1) /\ BURST - 1 \in 0 .. BURST - 1
      BY <1>1, <1>2, <1>5
    <2>3. s + BURST - 1 \in Nat  BY <1>1
    <2>4. (s + BURST - 1) \div BURST = q  BY <1>1, <1>2, <2>2, <2>3, DivModIs
    <2>5. s # 0 => q # 0  BY <1>1, <1>2, <1>5
    <2> QED  BY <1>1, <1>2, <2>1, <2>4, <2>5 DEF n
  <1>6. CASE r # 0
    <2>1. n = q + 1 /\ n * BURST = (BURST * q) + BURST  BY <1>2, <1>3, <1>4, <1>6
    <2>2. /\ s + BURST - 1 = (BURST * (q + 1)) + (r - 1) /\ r - 1 \in 0 .. BURST - 1
          /\ q + 1 \in Nat
      BY <1>1, <1>2, <1>4, <1>6
    <2>3. s + BURST - 1 \in Nat  BY <1>1
    <2>4. (s + BURST - 1) \div BURST = q + 1  BY <1>1, <2>2, <2>3, DivModIs
    <2> QED  BY <1>1, <1>2, <1>4, <1>6, <2>1, <2>2, <2>4 DEF n
  <1> QED  BY <1>5, <1>6

(* The DMA map holds a whole number of bursts, ...                         *)
LEMMA MapBursts ==
    /\ DMA_SIZE \div BURST \in Nat \ {0}
    /\ DMA_SIZE = (DMA_SIZE \div BURST) * BURST
  <1>1. /\ BURST \in Nat \ {0} /\ DMA_SIZE \in Nat \ {0} /\ DMA_SIZE % BURST = 0
    BY BoardAssumption
  <1> DEFINE k == DMA_SIZE \div BURST
  <1>2. k \in Nat /\ DMA_SIZE = (BURST * k) + (DMA_SIZE % BURST)  BY <1>1, DivMod
  <1> HIDE DEF k
  <1>3. BURST * k = k * BURST /\ BURST * k \in Nat  BY <1>1, <1>2
  <1>4. k # 0  BY <1>1, <1>2, <1>3
  <1> QED  BY <1>1, <1>2, <1>3, <1>4 DEF k

(* ... so that a size that fits is still inside with its last burst.       *)
LEMMA FitsMap ==
    ASSUME NEW s \in Nat, s <= DMA_SIZE
    PROVE  NumBursts(s) * BURST <= DMA_SIZE
  <1> DEFINE k == DMA_SIZE \div BURST
             n == NumBursts(s)
  <1>1. BURST \in Nat \ {0} /\ DMA_SIZE \in Nat  BY BoardAssumption
  <1>2. k \in Nat /\ DMA_SIZE = k * BURST  BY MapBursts
  <1>3. n \in Nat /\ n * BURST < s + BURST /\ n * BURST \in Nat  BY Bursts
  <1> HIDE DEF k, n
  <1>4. n * BURST < (k * BURST) + BURST  BY <1>1, <1>2, <1>3
  <1>5. CASE n > k
    <2>1. n >= k + 1  BY <1>2, <1>3, <1>5
    <2>2. n * BURST >= (k + 1) * BURST  BY <1>1, <1>2, <1>3, <2>1
    <2>3. (k + 1) * BURST = (k * BURST) + BURST  BY <1>1, <1>2
    <2> QED  BY <1>1, <1>2, <1>3, <1>4, <2>2, <2>3
  <1>6. CASE n <= k
    <2>1. n * BURST <= k * BURST  BY <1>1, <1>2, <1>3, <1>6
    <2> QED  BY <1>2, <2>1 DEF n
  <1> QED  BY <1>2, <1>3, <1>5, <1>6

(* A size in full buffers and a rest, counted in bursts: a rest that ends  *)
(* inside a burst needs one more.                                          *)
LEMMA Buffers ==
    ASSUME NEW s \in Nat
    PROVE  LET K == DMA_SIZE \div BURST
               c == s \div DMA_SIZE
               d == s % DMA_SIZE
           IN  /\ c \in Nat /\ d \in Nat /\ d < DMA_SIZE /\ s = (c * DMA_SIZE) + d
               /\ c * DMA_SIZE = (c * K) * BURST /\ c * DMA_SIZE \in Nat /\ c * K \in Nat
               /\ d \div BURST \in Nat /\ (d \div BURST) * BURST <= d
               /\ s % BURST = d % BURST
               /\ NumBursts(s) = (c * K) + (d \div BURST) + (IF d % BURST # 0 THEN 1 ELSE 0)
               /\ d % BURST = 0 => (d \div BURST) * BURST = d
               /\ d % BURST # 0 => (d \div BURST) * BURST < d
               /\ s > DMA_SIZE => c # 0
  <1> DEFINE K == DMA_SIZE \div BURST
             c == s \div DMA_SIZE
             d == s % DMA_SIZE
             e == d \div BURST
             x == d % BURST
  <1>1. BURST \in Nat \ {0} /\ DMA_SIZE \in Nat \ {0}  BY BoardAssumption
  <1>2. K \in Nat \ {0} /\ DMA_SIZE = K * BURST  BY MapBursts
  <1>3. c \in Nat /\ d \in 0 .. DMA_SIZE - 1 /\ s = (DMA_SIZE * c) + d  BY <1>1, DivMod
  <1>4. d \in Nat  BY <1>1, <1>3
  <1>5. e \in Nat /\ x \in 0 .. BURST - 1 /\ d = (BURST * e) + x
    <2> HIDE DEF d
    <2> QED  BY <1>1, <1>4, DivMod
  <1>6. NumBursts(s) = (s \div BURST) + (IF s % BURST # 0 THEN 1 ELSE 0)  BY DEF NumBursts
  <1> HIDE DEF K, c, d, e, x
  <1>7. /\ c * DMA_SIZE = DMA_SIZE * c /\ DMA_SIZE * c \in Nat /\ c * K \in Nat
        /\ e * BURST = BURST * e /\ BURST * e \in Nat
    BY <1>1, <1>2, <1>3, <1>5
  <1>8. c * DMA_SIZE = (c * K) * BURST /\ c * DMA_SIZE = BURST * (c * K)
    <2>1. c * (K * BURST) = (c * K) * BURST /\ (c * K) * BURST = BURST * (c * K)
      BY <1>1, <1>2, <1>3, <1>7
    <2> QED  BY <1>2, <2>1
  <1>9. s = (BURST * ((c * K) + e)) + x /\ (c * K) + e \in Nat
    <2>1. BURST * ((c * K) + e) = (BURST * (c * K)) + (BURST * e)  BY <1>1, <1>5, <1>7
    <2>2. (c * K) + e \in Nat  BY <1>5, <1>7
    <2>3. s = (BURST * (c * K)) + (BURST * e) + x  BY <1>1, <1>3, <1>5, <1>7, <1>8
    <2> QED  BY <2>1, <2>2, <2>3
  <1>10. s \div BURST = (c * K) + e /\ s % BURST = x
    <2> DEFINE z == (c * K) + e
    <2>1. z \in Nat /\ s = (BURST * z) + x  BY <1>9
    <2> HIDE DEF z
    <2>2. s \div BURST = z /\ s % BURST = x  BY <1>1, <1>5, <2>1, DivModIs
    <2> QED  BY <2>2 DEF z
  <1>11. s > DMA_SIZE => c # 0
    <2>1. CASE c = 0
      <3>1. DMA_SIZE * c = 0  BY <1>1, <2>1
      <3> QED  BY <1>1, <1>3, <3>1
    <2> QED  BY <2>1
  <1>12. e * BURST <= d /\ (x = 0 => e * BURST = d) /\ (x # 0 => e * BURST < d)
    BY <1>1, <1>4, <1>5, <1>7
  <1>13. d < DMA_SIZE /\ s = (c * DMA_SIZE) + d  BY <1>1, <1>3, <1>7
  <1> QED  BY <1>3, <1>4, <1>5, <1>6, <1>7, <1>8, <1>10, <1>11, <1>12, <1>13 DEF K, c, d, e, x

-----------------------------------------------------------------------------
(* artix_mem_write: the bursts                                             *)

(* Subcore and memcore wait for k more bursts, to be written from a on;    *)
(* with the last one they are through.                                     *)
WriteView(u, k, a, st, h) ==
    LET on == k # 0
    IN  V(u, SC(IF on THEN "DMA_WRITE" ELSE "quiet", k),
          AG(IF on THEN "GVPU_WRITE" ELSE "IDLE", "GVPU_WRITE"),
          GV(IF on THEN "MEM_WRITE" ELSE "IDLE", "MEM_WRITE"),
          MC(IF on THEN {"MEMCORE_WRITE_BURST"} ELSE {"IDLE"}, "MEMCORE_WRITE_BURST", a, k, FALSE),
          st, h)

(* One buffer: prepared and sent.                                          *)
LEMMA SendWalk ==
    ASSUME NEW u, NEW k \in Nat \ {0}, NEW a \in Nat, NEW st, NEW o, NEW bf \in Nat, NEW m, NEW r,
           NEW f, NEW data \in Seq(Words), NEW n \in Nat, n = Len(data) \div BURST,
           n <= k, a + Len(data) <= MEM, bf + Len(data) <= DMA_SIZE
    PROVE  Walk(WriteView(u, k, a, st, HO(o, bf, NULL, m, r, f)),
                prep_tx(data) \o gcore_dma_start,
                WriteView(u, k - n, a + Len(data), st, HO(o, bf, NULL, Put(m, u, a, data), r, f)))
  <1> DEFINE L == Len(data)
             p == [op |-> "prep", dir |-> "tx", data |-> data, size |-> L]
             h == HO(o, bf, p, m, r, f)
             h2 == HO(o, bf, NULL, Put(m, u, a, data), r, f)
             d == WriteView(u, k, a, st, HO(o, bf, NULL, m, r, f))
             e == WriteView(u, k, a, st, h)
             g == WriteView(u, k - n, a + L, st, h2)
  <1>1. L \in Nat  OBVIOUS
  <1>2. p \in Transfers  BY <1>1 DEF Transfers
  <1>3. p.op = "prep" /\ p.dir = "tx" /\ p.data = data /\ p.size = L  OBVIOUS
  <1> HIDE DEF L, p
  <1>4. StepPrep(d, p, e)
    BY <1>1, <1>2, <1>3 DEF StepPrep, WithH, WriteView, V, HO, L
  <1>5. Walk(d, prep_tx(data), e)
    <2>1. StepOf(d, p, e)  BY <1>3, <1>4 DEF StepOf
    <2> QED  BY <2>1, WalkOne DEF prep_tx, p, L
  <1>6. StepSend(e, g)
    <2>1. MEM \in Nat /\ a \in 0 .. MEM /\ a + L <= MEM  BY <1>1, BoardAssumption DEF L
    <2>2. /\ e.unit = u /\ e.sc = SC("DMA_WRITE", k) /\ e.ag = AG("GVPU_WRITE", "GVPU_WRITE")
          /\ e.gv = GV("MEM_WRITE", "MEM_WRITE")
          /\ e.mc = MC({"MEMCORE_WRITE_BURST"}, "MEMCORE_WRITE_BURST", a, k, FALSE)
          /\ e.st = st /\ e.h = h
      BY DEF WriteView, V
    <2>3. h.prep = p /\ NoPrep(h, Put(h.mem, u, a, data), h.read) = h2  BY DEF HO, NoPrep
    <2> DEFINE last == n = k
    <2>4. g = V(u, SC(IF last THEN "quiet" ELSE "DMA_WRITE", k - n),
                AG(IF last THEN "IDLE" ELSE "GVPU_WRITE", "GVPU_WRITE"),
                GV(IF last THEN "IDLE" ELSE "MEM_WRITE", "MEM_WRITE"),
                MC(IF last THEN {"IDLE"} ELSE {"MEMCORE_WRITE_BURST"}, "MEMCORE_WRITE_BURST",
                   a + L, k - n, FALSE), st, h2)
      <3>1. k - n # 0 <=> ~last  OBVIOUS
      <3> HIDE DEF h2
      <3>2. CASE last  BY <3>1, <3>2 DEF WriteView
      <3>3. CASE ~last  BY <3>1, <3>3 DEF WriteView
      <3> QED  BY <3>2, <3>3
    <2> HIDE DEF e, g, h, h2
    <2>5. /\ e.sc.st = "DMA_WRITE" /\ e.sc.bu = k /\ e.ag.st = "GVPU_WRITE"
          /\ e.ag.ld = "GVPU_WRITE" /\ e.gv.st = "MEM_WRITE" /\ e.gv.ld = "MEM_WRITE"
          /\ e.mc.st = {"MEMCORE_WRITE_BURST"} /\ e.mc.ld = "MEMCORE_WRITE_BURST"
          /\ e.mc.addr = a /\ e.mc.left = k /\ e.mc.rd = FALSE
      BY <2>2 DEF SC, AG, GV, MC
    <2> QED  BY <1>3, <2>1, <2>2, <2>3, <2>4, <2>5 DEF StepSend, L
  <1>7. Walk(e, gcore_dma_start, g)
    <2>1. e.h.prep \in Transfers  BY <1>2 DEF WriteView, V, HO
    <2> HIDE DEF e, g
    <2>2. StepOf(e, [op |-> "start"], g)  BY <1>6, <2>1 DEF StepOf, StepStart
    <2> QED  BY <2>2, WalkOne DEF gcore_dma_start
  <1> HIDE DEF d, e, g
  <1>8. Walk(d, prep_tx(data) \o gcore_dma_start, g)  BY <1>5, <1>7, WalkBoth
  <1> QED  BY <1>8 DEF d, g, L, h2

(* The memory m with the first j words of the n-th call at address a of    *)
(* the unit.                                                               *)
Filled(m, u, a, n, j) ==
    [v \in Units |-> [w \in 0 .. MEM - 1 |->
        IF v = u /\ w \in a .. a + j - 1 THEN Word(n, w - a) ELSE m[v][w]]]

(* Nothing is nothing, and the words that follow go on where the ones      *)
(* before end.                                                             *)
LEMMA Fills ==
    ASSUME NEW m \in Memory, NEW u \in Units, NEW a \in Nat, NEW n, NEW i \in Nat, NEW j \in Nat,
           i <= j
    PROVE  /\ Filled(m, u, a, n, 0) = m
           /\ Put(Filled(m, u, a, n, i), u, a + i, Part(n, i, j)) = Filled(m, u, a, n, j)
  <1>0. MEM \in Nat  BY BoardAssumption
  <1>1. m = [v \in Units |-> [w \in 0 .. MEM - 1 |-> m[v][w]]]
    BY DEF Memory
  <1>2. Filled(m, u, a, n, 0) = m
    <2>1. \A w \in 0 .. MEM - 1 : w \notin a .. a + 0 - 1  BY <1>0
    <2> QED  BY <1>1, <2>1 DEF Filled
  <1> DEFINE F  == Filled(m, u, a, n, i)
             p  == Part(n, i, j)
             G(w) == IF w \in a + i .. a + i + Len(p) - 1 THEN p[w - (a + i) + 1] ELSE F[u][w]
  <1>3. /\ F = [v \in Units |-> F[v]] /\ DOMAIN F[u] = 0 .. MEM - 1
        /\ \A v \in Units, w \in 0 .. MEM - 1 :
              F[v][w] = IF v = u /\ w \in a .. a + i - 1 THEN Word(n, w - a) ELSE m[v][w]
    BY DEF Filled
  <1>4. Len(p) = j - i /\ \A k \in 1 .. j - i : p[k] = Word(n, i + k - 1)
    <2>1. j - i \in Nat  OBVIOUS
    <2>2. p = [k \in 1 .. j - i |-> Word(n, i + k - 1)]  BY DEF Part
    <2> HIDE DEF p
    <2>3. Len([k \in 1 .. j - i |-> Word(n, i + k - 1)]) = j - i  BY <2>1
    <2> QED  BY <2>2, <2>3
  <1> HIDE DEF p, F
  <1>5. Put(F, u, a + i, p) = [v \in Units |-> [w \in 0 .. MEM - 1 |->
             IF v = u THEN G(w) ELSE F[v][w]]]
    <2>1. Put(F, u, a + i, p) = [F EXCEPT ![u] = [w \in 0 .. MEM - 1 |-> G(w)]]
      BY <1>3 DEF Put
    <2>2. \A v \in Units : F[v] = [w \in 0 .. MEM - 1 |-> F[v][w]]  BY DEF F, Filled
    <2> HIDE DEF G
    <2> QED  BY <1>3, <2>1, <2>2
  <1>6. ASSUME NEW v \in Units, NEW w \in 0 .. MEM - 1
        PROVE  (IF v = u THEN G(w) ELSE F[v][w])
                 = IF v = u /\ w \in a .. a + j - 1 THEN Word(n, w - a) ELSE m[v][w]
    <2>1. w \in Int /\ a \in Int /\ i \in Int /\ j \in Int  OBVIOUS
    <2>2. CASE v # u  BY <1>3, <2>2
    <2>3. CASE v = u /\ w \in a .. a + i - 1
      <3>1. w \notin a + i .. a + i + Len(p) - 1 /\ w \in a .. a + j - 1  BY <1>4, <2>1, <2>3
      <3> QED  BY <1>3, <2>3, <3>1
    <2>4. CASE v = u /\ w \in a + i .. a + j - 1
      <3>1. /\ w \in a + i .. a + i + Len(p) - 1 /\ w - (a + i) + 1 \in 1 .. j - i
            /\ i + (w - (a + i) + 1) - 1 = w - a /\ w \in a .. a + j - 1
        BY <1>4, <2>1, <2>4
      <3>2. p[w - (a + i) + 1] = Word(n, w - a)  BY <1>4, <3>1
      <3> QED  BY <2>4, <3>1, <3>2
    <2>5. CASE v = u /\ w \notin a .. a + i - 1 /\ w \notin a + i .. a + j - 1
      <3>1. w \notin a .. a + j - 1 /\ w \notin a + i .. a + i + Len(p) - 1  BY <1>4, <2>1, <2>5
      <3> QED  BY <1>3, <2>5, <3>1
    <2> QED  BY <2>2, <2>3, <2>4, <2>5
  <1>7. Put(F, u, a + i, p) = Filled(m, u, a, n, j)
    <2> HIDE DEF G
    <2> QED  BY <1>5, <1>6, ZenonT(60) DEF Filled
  <1> QED  BY <1>2, <1>7 DEF F, p

(* A part of the data of a call is a sequence of words.                    *)
LEMMA PartIs ==
    ASSUME NEW n \in 0 .. MaxCalls, NEW i \in Nat, NEW j \in Nat, i <= j, j <= MEM
    PROVE  Part(n, i, j) \in Seq(Words) /\ Len(Part(n, i, j)) = j - i
  <1>0. MEM \in Nat /\ MaxCalls \in Nat  BY BoardAssumption
  <1>1. j - i \in Nat  OBVIOUS
  <1>2. \A k \in 1 .. j - i : Word(n, i + k - 1) \in Words
    <2> SUFFICES ASSUME NEW k \in 1 .. j - i  PROVE Word(n, i + k - 1) \in Words
      OBVIOUS
    <2>1. i + k - 1 \in 0 .. MEM /\ n \in -1 .. MaxCalls  BY <1>0
    <2> QED  BY <2>1 DEF Word, Words
  <1>3. [k \in 1 .. j - i |-> Word(n, i + k - 1)] \in Seq(Words)  BY <1>1, <1>2
  <1>4. Len([k \in 1 .. j - i |-> Word(n, i + k - 1)]) = j - i  BY <1>1
  <1> QED  BY <1>3, <1>4 DEF Part

(* What artix_mem_write makes of the memory: the data and zeros up to the  *)
(* end of the last burst.                                                  *)
Written(m, u, a, n, s) ==
    [v \in Units |-> [w \in 0 .. MEM - 1 |->
        IF v = u /\ w \in a .. a + (NumBursts(s) * BURST) - 1
        THEN IF w < a + s THEN Word(n, w - a) ELSE ZERO ELSE m[v][w]]]

(* The data padded to whole bursts, as it is copied to the DMA buffer.     *)
Padded(n, s) == [k \in 1 .. NumBursts(s) * BURST |-> IF k <= s THEN Word(n, k - 1) ELSE ZERO]

(* It is a sequence of words, and put to memory it is what is written.     *)
LEMMA PaddedIs ==
    ASSUME NEW n \in 0 .. MaxCalls, NEW s \in Nat, NEW a \in Nat, NEW m \in Memory, NEW u \in Units,
           a + s + BURST <= MEM
    PROVE  /\ Padded(n, s) \in Seq(Words) /\ Len(Padded(n, s)) = NumBursts(s) * BURST
           /\ Put(m, u, a, Padded(n, s)) = Written(m, u, a, n, s)
  <1> DEFINE L == NumBursts(s) * BURST
             p == Padded(n, s)
  <1>0. MEM \in Nat /\ MaxCalls \in Nat /\ BURST \in Nat  BY BoardAssumption
  <1>1. L \in Nat /\ s <= L /\ L < s + BURST  BY Bursts
  <1>2. p = [k \in 1 .. L |-> IF k <= s THEN Word(n, k - 1) ELSE ZERO]  BY DEF Padded
  <1> HIDE DEF L, p
  <1>3. \A k \in 1 .. L : (IF k <= s THEN Word(n, k - 1) ELSE ZERO) \in Words
    <2> SUFFICES ASSUME NEW k \in 1 .. L
                 PROVE  (IF k <= s THEN Word(n, k - 1) ELSE ZERO) \in Words
      OBVIOUS
    <2>1. k - 1 \in 0 .. MEM /\ n \in -1 .. MaxCalls /\ 0 \in -1 .. MaxCalls /\ 0 \in 0 .. MEM
      BY <1>0, <1>1
    <2> QED  BY <2>1 DEF Word, Words, ZERO
  <1>4. [k \in 1 .. L |-> IF k <= s THEN Word(n, k - 1) ELSE ZERO] \in Seq(Words)  BY <1>1, <1>3
  <1>5. Len([k \in 1 .. L |-> IF k <= s THEN Word(n, k - 1) ELSE ZERO]) = L  BY <1>1
  <1>6. /\ m = [v \in Units |-> m[v]] /\ DOMAIN m[u] = 0 .. MEM - 1
        /\ \A v \in Units : m[v] = [w \in 0 .. MEM - 1 |-> m[v][w]]
    BY DEF Memory
  <1>7. Len(p) = L  BY <1>2, <1>5
  <1> DEFINE G(w) == IF w \in a .. a + L - 1 THEN p[w - a + 1] ELSE m[u][w]
  <1>8. Put(m, u, a, p) = [v \in Units |-> [w \in 0 .. MEM - 1 |->
             IF v = u THEN G(w) ELSE m[v][w]]]
    <2>1. Put(m, u, a, p) = [m EXCEPT ![u] = [w \in 0 .. MEM - 1 |-> G(w)]]
      BY <1>6, <1>7 DEF Put
    <2> HIDE DEF G
    <2> QED  BY <1>6, <2>1
  <1>9. ASSUME NEW v \in Units, NEW w \in 0 .. MEM - 1
        PROVE  (IF v = u THEN G(w) ELSE m[v][w])
                 = IF v = u /\ w \in a .. a + L - 1
                   THEN IF w < a + s THEN Word(n, w - a) ELSE ZERO ELSE m[v][w]
    <2>1. CASE v = u /\ w \in a .. a + L - 1
      <3>1. /\ w - a + 1 \in 1 .. L /\ (w - a + 1) - 1 = w - a
            /\ (w - a + 1 <= s) <=> (w < a + s)
        BY <1>1, <2>1
      <3>2. p[w - a + 1] = IF w - a + 1 <= s THEN Word(n, w - a) ELSE ZERO  BY <1>2, <3>1
      <3> QED  BY <2>1, <3>1, <3>2
    <2>2. CASE ~(v = u /\ w \in a .. a + L - 1)  BY <2>2
    <2> QED  BY <2>1, <2>2
  <1>10. Put(m, u, a, p) = Written(m, u, a, n, s)
    <2> HIDE DEF G
    <2> QED  BY <1>8, <1>9 DEF Written, L
  <1> QED  BY <1>2, <1>4, <1>7, <1>10 DEF L, p

(* A size of whole bursts needs no zeros.                                  *)
LEMMA WrittenWhole ==
    ASSUME NEW n, NEW s \in Nat, NEW a \in Nat, NEW m, NEW u, NumBursts(s) * BURST = s
    PROVE  Filled(m, u, a, n, s) = Written(m, u, a, n, s)
  <1>1. \A w \in a .. a + s - 1 : w < a + s  OBVIOUS
  <1> QED  BY <1>1 DEF Filled, Written

(* The transfers of a size that fits the DMA map: one buffer.              *)
LEMMA WriteSmall ==
    ASSUME NEW u \in Units, NEW a \in Nat, NEW s \in Nat \ {0}, NEW n \in 0 .. MaxCalls,
           NEW m \in Memory, NEW st, NEW bf, NEW r, NEW f, a + s + BURST <= MEM, s <= DMA_SIZE
    PROVE  Walk(WriteView(u, NumBursts(s), a, st, HO(0, bf, NULL, m, r, f)), WriteTransfers(n, s),
                WriteView(u, 0, a + (NumBursts(s) * BURST), st,
                          HO(NumBursts(s) * BURST, 0, NULL, Written(m, u, a, n, s), r, f)))
  <1> DEFINE N == NumBursts(s)
             L == N * BURST
             p == Padded(n, s)
             W(o, bb) == WriteView(u, N, a, st, HO(o, bb, NULL, m, r, f))
             g == WriteView(u, 0, a + L, st, HO(L, 0, NULL, Written(m, u, a, n, s), r, f))
  <1>0. MEM \in Nat /\ BURST \in Nat /\ DMA_SIZE \in Nat  BY BoardAssumption
  <1>1. N \in Nat \ {0} /\ L \in Nat /\ L < s + BURST  BY Bursts
  <1>2. L <= DMA_SIZE  BY FitsMap
  <1>3. L \div BURST = N
    <2> HIDE DEF N
    <2> QED  BY <1>1, WholeBursts
  <1>4. p \in Seq(Words) /\ Len(p) = L /\ Put(m, u, a, p) = Written(m, u, a, n, s)  BY PaddedIs
  <1>5. a + L <= MEM /\ 0 + L <= DMA_SIZE /\ 0 + L = L  BY <1>0, <1>1, <1>2
  <1>6. WriteTransfers(n, s) = gcore_dma_alloc(L) \o prep_tx(p) \o gcore_dma_start
    <2>1. ~(s > DMA_SIZE)  BY <1>0
    <2> QED  BY <2>1 DEF WriteTransfers, Padded
  <1> HIDE DEF N, L, p
  <1>7. Walk(W(0, bf), gcore_dma_alloc(L), W(L, 0))
    <2> DEFINE on == N # 0
               sc == SC(IF on THEN "DMA_WRITE" ELSE "quiet", N)
               ag == AG(IF on THEN "GVPU_WRITE" ELSE "IDLE", "GVPU_WRITE")
               gv == GV(IF on THEN "MEM_WRITE" ELSE "IDLE", "MEM_WRITE")
               mc == MC(IF on THEN {"MEMCORE_WRITE_BURST"} ELSE {"IDLE"}, "MEMCORE_WRITE_BURST",
                        a, N, FALSE)
    <2>1. Walk(V(u, sc, ag, gv, mc, st, HO(0, bf, NULL, m, r, f)), gcore_dma_alloc(L),
               V(u, sc, ag, gv, mc, st, HO(0 + L, 0, NULL, m, r, f)))
      <3> HIDE DEF sc, ag, gv, mc
      <3> QED  BY <1>1, AllocWalk
    <2> QED  BY <1>5, <2>1 DEF WriteView
  <1>8. Walk(W(L, 0), prep_tx(p) \o gcore_dma_start, g)
    <2>1. N - N = 0 /\ N <= N /\ 0 \in Nat  BY <1>1
    <2>2. a + Len(p) <= MEM /\ 0 + Len(p) <= DMA_SIZE /\ N = Len(p) \div BURST
      BY <1>3, <1>4, <1>5
    <2>3. Walk(W(L, 0), prep_tx(p) \o gcore_dma_start,
               WriteView(u, N - N, a + Len(p), st, HO(L, 0, NULL, Put(m, u, a, p), r, f)))
      BY <1>1, <1>4, <2>1, <2>2, SendWalk
    <2> QED  BY <1>4, <2>1, <2>3
  <1>9. gcore_dma_alloc(L) \o prep_tx(p) \o gcore_dma_start
          = gcore_dma_alloc(L) \o (prep_tx(p) \o gcore_dma_start)
    BY DEF gcore_dma_alloc, prep_tx, gcore_dma_start
  <1> HIDE DEF W, g
  <1>10. Walk(W(0, bf), WriteTransfers(n, s), g)  BY <1>6, <1>7, <1>8, <1>9, WalkBoth
  <1> QED  BY <1>10 DEF W, g, N, L

(* The transfers of a larger size: full buffers and a rest.  A rest that   *)
(* ends inside a burst leaves the board waiting for the rest of the burst. *)
LEMMA WriteLarge ==
    ASSUME NEW u \in Units, NEW a \in Nat, NEW s \in Nat \ {0}, NEW n \in 0 .. MaxCalls,
           NEW m \in Memory, NEW st, NEW bf, NEW r, NEW f, a + s + BURST <= MEM, s > DMA_SIZE
    PROVE  \E k, b :
               /\ k \in Nat
               /\ Walk(WriteView(u, NumBursts(s), a, st, HO(0, bf, NULL, m, r, f)),
                       WriteTransfers(n, s),
                       WriteView(u, k, b, st, HO(DMA_SIZE, 0, NULL, Filled(m, u, a, n, s), r, f)))
               /\ k = 0 => Filled(m, u, a, n, s) = Written(m, u, a, n, s)
  <1> DEFINE N  == NumBursts(s)
             K  == DMA_SIZE \div BURST
             c  == s \div DMA_SIZE
             dm == s % DMA_SIZE
             e  == dm \div BURST
             W(k, b, o, bb, j) == WriteView(u, k, b, st, HO(o, bb, NULL, Filled(m, u, a, n, j), r, f))
             D  == [i \in 0 .. c |-> W(N - (i * K), a + (i * DMA_SIZE), DMA_SIZE, 0, i * DMA_SIZE)]
             F  == [i \in 0 .. c - 1 |-> prep_tx(Chunk(n, i)) \o gcore_dma_start]
             R  == prep_tx(Part(n, s - dm, s)) \o gcore_dma_start
  <1>0. MEM \in Nat /\ BURST \in Nat \ {0} /\ DMA_SIZE \in Nat \ {0}  BY BoardAssumption
  <1>1. N \in Nat /\ N * BURST < s + BURST  BY Bursts
  <1>2. /\ c \in Nat /\ dm \in Nat /\ dm < DMA_SIZE /\ s = (c * DMA_SIZE) + dm
        /\ c * DMA_SIZE \in Nat /\ c * K \in Nat /\ e \in Nat /\ c # 0
        /\ e * BURST <= dm
        /\ N = (c * K) + e + (IF dm % BURST # 0 THEN 1 ELSE 0)
        /\ dm % BURST = 0 => e * BURST = dm
        /\ c * DMA_SIZE = (c * K) * BURST
    BY Buffers
  <1>3. K \in Nat \ {0}  BY MapBursts
  <1>4. WriteTransfers(n, s)
          = gcore_dma_alloc(DMA_SIZE) \o Concat(F, c) \o IF dm = 0 THEN <<>> ELSE R
    BY DEF WriteTransfers
  <1>5. \A j \in Nat : Filled(m, u, a, n, 0) = m  BY Fills
  <1>x. e = dm \div BURST  OBVIOUS
  <1> HIDE DEF N, K, c, dm, e
  <1>6. Walk(WriteView(u, N, a, st, HO(0, bf, NULL, m, r, f)), gcore_dma_alloc(DMA_SIZE), D[0])
    <2> DEFINE on == N # 0
               sc == SC(IF on THEN "DMA_WRITE" ELSE "quiet", N)
               ag == AG(IF on THEN "GVPU_WRITE" ELSE "IDLE", "GVPU_WRITE")
               gv == GV(IF on THEN "MEM_WRITE" ELSE "IDLE", "MEM_WRITE")
               mc == MC(IF on THEN {"MEMCORE_WRITE_BURST"} ELSE {"IDLE"}, "MEMCORE_WRITE_BURST",
                        a, N, FALSE)
    <2>1. Walk(V(u, sc, ag, gv, mc, st, HO(0, bf, NULL, m, r, f)), gcore_dma_alloc(DMA_SIZE),
               V(u, sc, ag, gv, mc, st, HO(0 + DMA_SIZE, 0, NULL, m, r, f)))
      <3> HIDE DEF sc, ag, gv, mc
      <3> QED  BY <1>0, AllocWalk
    <2>2. D[0] = W(N, a, DMA_SIZE, 0, 0)
      <3>1. /\ 0 \in 0 .. c /\ N - (0 * K) = N /\ a + (0 * DMA_SIZE) = a /\ 0 * DMA_SIZE = 0
        BY <1>0, <1>1, <1>2, <1>3
      <3> HIDE DEF W
      <3> QED  BY <3>1
    <2>3. 0 + DMA_SIZE = DMA_SIZE  BY <1>0
    <2> HIDE DEF D
    <2> QED  BY <1>5, <2>1, <2>2, <2>3 DEF WriteView
  <1>7. ASSUME NEW i \in 0 .. c - 1  PROVE Walk(D[i], F[i], D[i + 1])
    <2> DEFINE x == i * DMA_SIZE
               y == (i + 1) * DMA_SIZE
               k == N - (i * K)
               p == Part(n, x, y)
    <2>1. i \in Nat /\ i \in 0 .. c /\ i + 1 \in 0 .. c /\ i + 1 \in Nat  BY <1>2
    <2>2. x \in Nat /\ y \in Nat /\ y = x + DMA_SIZE /\ x <= y /\ y - x = DMA_SIZE
      BY <1>0, <2>1
    <2>3. y <= s
      <3>1. y <= c * DMA_SIZE  BY <1>0, <1>2, <2>1
      <3> QED  BY <1>2, <2>2, <3>1
    <2>4. y <= MEM /\ a + y <= MEM  BY <1>0, <2>2, <2>3
    <2>5. k \in Nat \ {0} /\ K <= k /\ N - ((i + 1) * K) = k - K
      <3>1. (i + 1) * K <= c * K /\ (i + 1) * K = (i * K) + K /\ i * K \in Nat
        BY <1>2, <1>3, <2>1
      <3>2. c * K <= N  BY <1>2
      <3> QED  BY <1>1, <1>2, <1>3, <3>1, <3>2
    <2>6. p \in Seq(Words) /\ Len(p) = DMA_SIZE  BY <2>2, <2>4, PartIs
    <2>7. F[i] = prep_tx(p) \o gcore_dma_start  BY DEF Chunk
    <2>8. D[i] = W(k, a + x, DMA_SIZE, 0, x) /\ D[i + 1] = W(k - K, a + y, DMA_SIZE, 0, y)
      <3> HIDE DEF W
      <3> QED  BY <2>1, <2>5
    <2>9. Put(Filled(m, u, a, n, x), u, a + x, p) = Filled(m, u, a, n, y)
      BY <2>2, Fills
    <2> HIDE DEF x, y, k, p, D, F
    <2>10. (a + x) + DMA_SIZE = a + y /\ a + x \in Nat /\ 0 + DMA_SIZE <= DMA_SIZE /\ 0 \in Nat
      BY <1>0, <2>2
    <2>11. Walk(W(k, a + x, DMA_SIZE, 0, x), prep_tx(p) \o gcore_dma_start,
                WriteView(u, k - K, (a + x) + Len(p), st,
                          HO(DMA_SIZE, 0, NULL, Put(Filled(m, u, a, n, x), u, a + x, p), r, f)))
      <3>1. K = Len(p) \div BURST  BY <2>6 DEF K
      <3>2. (a + x) + Len(p) <= MEM /\ 0 + Len(p) <= DMA_SIZE  BY <2>4, <2>6, <2>10
      <3> QED  BY <1>3, <2>5, <2>6, <2>10, <3>1, <3>2, SendWalk
    <2> QED  BY <2>6, <2>7, <2>8, <2>9, <2>10, <2>11
  <1>8. Walk(D[0], Concat(F, c), D[c])
    <2> HIDE DEF D, F
    <2> QED  BY <1>2, <1>7, ConcatWalk
  <1>9. D[c] = W(N - (c * K), a + (c * DMA_SIZE), DMA_SIZE, 0, c * DMA_SIZE)
    <2>1. c \in 0 .. c  BY <1>2
    <2> HIDE DEF W
    <2> QED  BY <2>1
  <1> DEFINE w0 == WriteView(u, N, a, st, HO(0, bf, NULL, m, r, f))
  <1>10. Walk(w0, gcore_dma_alloc(DMA_SIZE) \o Concat(F, c), D[c])
    <2> HIDE DEF D, F, w0
    <2> QED  BY <1>6, <1>8, WalkBoth DEF w0
  <1>11. CASE dm = 0
    <2>1. e = 0 /\ dm % BURST = 0
      <3>1. 0 \div BURST = 0 /\ 0 % BURST = 0
        <4>1. 0 = (BURST * 0) + 0 /\ 0 \in 0 .. BURST - 1  BY <1>0
        <4> QED  BY <1>0, <4>1, DivModIs
      <3> QED  BY <1>11, <3>1, <1>x
    <2>2. N - (c * K) = 0 /\ c * DMA_SIZE = s  BY <1>1, <1>2, <1>11, <2>1
    <2>3. N = c * K /\ N * BURST = s  BY <1>1, <1>2, <1>11, <2>1, <2>2
    <2>4. Filled(m, u, a, n, s) = Written(m, u, a, n, s)  BY <2>3, WrittenWhole DEF N
    <2>5. D[c] = WriteView(u, 0, a + s, st, HO(DMA_SIZE, 0, NULL, Filled(m, u, a, n, s), r, f))
      BY <1>9, <2>2
    <2> HIDE DEF D, F, W, w0
    <2>6. Walk(w0, WriteTransfers(n, s), D[c])
      <3>1. Walk(D[c], <<>>, D[c])  BY WalkNone
      <3> QED  BY <1>4, <1>10, <1>11, <3>1, WalkBoth
    <2> QED  BY <2>4, <2>5, <2>6 DEF w0, N
  <1>12. CASE dm # 0
    <2> DEFINE k == N - (c * K)
               x == c * DMA_SIZE
               p == Part(n, x, s)
               b == (a + x) + dm
    <2>1. s - dm = x /\ x \in Nat /\ x <= s /\ s - x = dm  BY <1>2
    <2>2. k \in Nat \ {0} /\ e <= k
      <3>1. CASE dm % BURST = 0
        <4>1. e # 0
          <5>1. CASE e = 0
            <6>1. e * BURST = 0  BY <1>0, <5>1
            <6> QED  BY <1>2, <1>12, <3>1, <6>1
          <5> QED  BY <5>1
        <4>2. k = e  BY <1>2, <3>1
        <4> QED  BY <1>2, <4>1, <4>2
      <3>2. CASE dm % BURST # 0
        <4>1. k = e + 1  BY <1>2, <3>2
        <4> QED  BY <1>2, <4>1
      <3> QED  BY <3>1, <3>2
    <2>3. p \in Seq(Words) /\ Len(p) = dm
      <3>1. s <= MEM  BY <1>0
      <3> QED  BY <2>1, <3>1, PartIs
    <2>4. Put(Filled(m, u, a, n, x), u, a + x, p) = Filled(m, u, a, n, s)  BY <2>1, Fills
    <2>5. k - e \in Nat /\ a + x \in Nat /\ (a + x) + dm <= MEM /\ 0 + dm <= DMA_SIZE /\ 0 \in Nat
      BY <1>0, <1>2, <2>1, <2>2
    <2>6. Walk(D[c], R, WriteView(u, k - e, b, st,
                                  HO(DMA_SIZE, 0, NULL, Filled(m, u, a, n, s), r, f)))
      <3>1. R = prep_tx(p) \o gcore_dma_start  BY <2>1
      <3>2. D[c] = WriteView(u, k, a + x, st, HO(DMA_SIZE, 0, NULL, Filled(m, u, a, n, x), r, f))
        BY <1>9
      <3> HIDE DEF k, x, p, D, R
      <3>3. Walk(WriteView(u, k, a + x, st, HO(DMA_SIZE, 0, NULL, Filled(m, u, a, n, x), r, f)),
                 prep_tx(p) \o gcore_dma_start,
                 WriteView(u, k - e, (a + x) + Len(p), st,
                           HO(DMA_SIZE, 0, NULL, Put(Filled(m, u, a, n, x), u, a + x, p), r, f)))
        <4>1. e = Len(p) \div BURST  BY <1>x, <2>3
        <4> QED  BY <1>2, <2>2, <2>3, <2>5, <4>1, SendWalk
      <3> QED  BY <2>3, <2>4, <3>1, <3>2, <3>3
    <2>7. ASSUME k - e = 0  PROVE Filled(m, u, a, n, s) = Written(m, u, a, n, s)
      <3>1. dm % BURST = 0  BY <1>2, <2>7
      <3>2. N = (c * K) + e /\ e * BURST = dm  BY <1>1, <1>2, <3>1
      <3>3. N * BURST = ((c * K) * BURST) + (e * BURST)  BY <1>0, <1>2, <3>2
      <3>4. N * BURST = s  BY <1>2, <3>2, <3>3
      <3> QED  BY <3>4, WrittenWhole DEF N
    <2>8. Walk(w0, WriteTransfers(n, s),
               WriteView(u, k - e, b, st, HO(DMA_SIZE, 0, NULL, Filled(m, u, a, n, s), r, f)))
      <3> HIDE DEF D, F, R, w0, k, b
      <3> QED  BY <1>4, <1>10, <1>12, <2>6, WalkBoth
    <2> HIDE DEF k, b
    <2> QED  BY <2>5, <2>7, <2>8 DEF N
  <1> QED  BY <1>11, <1>12

-----------------------------------------------------------------------------
(* Where nothing follows                                                   *)

(* One command is a sequence, and two sequences make one.                  *)
LEMMA SeqBoth ==
    /\ \A c : IsSeq(<<c>>)
    /\ \A b, c : IsSeq(b) /\ IsSeq(c) => IsSeq(b \o c)
  <1>1. ASSUME NEW c  PROVE IsSeq(<<c>>)
    <2>1. <<c>> \in Seq({c})  OBVIOUS
    <2> QED  BY <2>1 DEF IsSeq
  <1>2. ASSUME NEW b, NEW c, IsSeq(b), IsSeq(c)  PROVE IsSeq(b \o c)
    <2>1. PICK S, T : b \in Seq(S) /\ c \in Seq(T)  BY <1>2 DEF IsSeq
    <2>2. b \in Seq(S \cup T) /\ c \in Seq(S \cup T)  BY <2>1
    <2>3. b \o c \in Seq(S \cup T)  BY <2>2
    <2> QED  BY <2>3 DEF IsSeq
  <1> QED  BY <1>1, <1>2

(* The helpers are sequences of commands.                                  *)
LEMMA HelpersAreSeqs ==
    ASSUME NEW u, NEW s
    PROVE  /\ IsSeq(subcore_idle) /\ IsSeq(subcore_load(u, s)) /\ IsSeq(subcore_write_packet(s))
           /\ IsSeq(subcore_read_packet) /\ IsSeq(CheckInit)
           /\ IsSeq(helper_subcore_load(u, s)) /\ IsSeq(StartupCommands(u))
           /\ IsSeq(helper_agent_load(u, s)) /\ IsSeq(helper_gvpu_load(u, s))
           /\ IsSeq(helper_get_agent_status(u)) /\ IsSeq(helper_get_agent_gvpu_status(u))
  <1>1. \A v, x : IsSeq(subcore_idle) /\ IsSeq(subcore_load(v, x))
                  /\ IsSeq(subcore_write_packet(x)) /\ IsSeq(subcore_read_packet)
                  /\ IsSeq(CheckInit) /\ IsSeq(Startup(v))
    BY SeqBoth DEF subcore_idle, subcore_load, subcore_write_packet, subcore_read_packet,
                   CheckInit, Startup
  <1>2. \A x : IsSeq(helper_subcore_load(u, x))  BY <1>1, SeqBoth DEF helper_subcore_load
  <1>3. IsSeq(StartupCommands(u))  BY <1>1, <1>2, SeqBoth DEF StartupCommands
  <1>4. ASSUME NEW x  PROVE IsSeq(helper_agent_load(u, x))
    <2> DEFINE c1 == Startup(u) \o helper_subcore_load(u, "CTRL_WRITE")
               c2 == c1 \o subcore_write_packet(Data(x))
               c3 == c2 \o subcore_idle
               c4 == c3 \o helper_subcore_load(u, "CTRL_RUN")
    <2>1. IsSeq(c1)  BY <1>1, <1>2, SeqBoth
    <2>2. IsSeq(c2)  BY <1>1, <2>1, SeqBoth
    <2>3. IsSeq(c3)  BY <1>1, <2>2, SeqBoth
    <2>4. IsSeq(c4)  BY <1>2, <2>3, SeqBoth
    <2> QED  BY <1>1, <2>4, SeqBoth DEF helper_agent_load
  <1>5. ASSUME NEW p  PROVE IsSeq(helper_gvpu_packet_write(u, p))
    <2> DEFINE c1 == helper_agent_load(u, "GVPU_LOAD") \o helper_subcore_load(u, "CTRL_WRITE")
               c2 == c1 \o subcore_write_packet(p)
    <2>1. IsSeq(c1)  BY <1>2, <1>4, SeqBoth
    <2>2. IsSeq(c2)  BY <1>1, <2>1, SeqBoth
    <2> QED  BY <1>1, <2>2, SeqBoth DEF helper_gvpu_packet_write
  <1>6. IsSeq(helper_gvpu_load(u, s))
    <2>1. IsSeq(helper_gvpu_packet_write(u, Data(s)) \o helper_agent_load(u, "GVPU_RUN"))
      BY <1>4, <1>5, SeqBoth
    <2> QED  BY <1>1, <2>1, SeqBoth DEF helper_gvpu_load
  <1>7. IsSeq(helper_get_agent_status(u))
    <2> DEFINE c1 == helper_agent_load(u, "STATUS") \o helper_subcore_load(u, "CTRL_READ")
               c2 == c1 \o subcore_read_packet
    <2>1. IsSeq(c1)  BY <1>2, <1>4, SeqBoth
    <2>2. IsSeq(c2)  BY <1>1, <2>1, SeqBoth
    <2> QED  BY <1>1, <2>2, SeqBoth DEF helper_get_agent_status
  <1>8. IsSeq(helper_get_agent_gvpu_status(u))
    <2> DEFINE c1 == helper_agent_load(u, "GVPU_STATUS") \o helper_subcore_load(u, "CTRL_WRITE")
               c2 == c1 \o subcore_write_packet(Data("GET_CYCLE"))
               c3 == c2 \o helper_subcore_load(u, "CTRL_READ")
               c4 == c3 \o subcore_read_packet
    <2>1. IsSeq(c1)  BY <1>2, <1>4, SeqBoth
    <2>2. IsSeq(c2)  BY <1>1, <2>1, SeqBoth
    <2>3. IsSeq(c3)  BY <1>2, <2>2, SeqBoth
    <2>4. IsSeq(c4)  BY <1>1, <2>3, SeqBoth
    <2> QED  BY <1>1, <2>4, SeqBoth DEF helper_get_agent_gvpu_status
  <1> QED  BY <1>1, <1>2, <1>3, <1>4, <1>6, <1>7, <1>8

(* What follows a command that is never issued is not issued either.       *)
LEMMA StuckOn ==
    ASSUME NEW d, NEW b, NEW c, Walk(d, b, Stuck), IsSeq(c)
    PROVE  Walk(d, b \o c, Stuck)
  <1> QED  BY WalkStuck, WalkBoth

(* While subcore waits for bursts that do not come no helper that loads it *)
(* goes on: helper_subcore_load waits for ever.                            *)
LEMMA AgentStuck ==
    ASSUME NEW u, NEW b, NEW ag, NEW gv, NEW mc, NEW st, NEW h
    PROVE  Walk(V(u, SC("DMA_WRITE", b), ag, gv, mc, st, h),
                helper_get_agent_gvpu_status(u), Stuck)
  <1> DEFINE d == V(u, SC("DMA_WRITE", b), ag, gv, mc, st, h)
             c1 == Startup(u) \o helper_subcore_load(u, "CTRL_WRITE")
             c2 == c1 \o subcore_write_packet(Data("GVPU_STATUS"))
             c3 == c2 \o subcore_idle
             c4 == c3 \o helper_subcore_load(u, "CTRL_RUN")
             c5 == c4 \o subcore_idle
             c6 == c5 \o helper_subcore_load(u, "CTRL_WRITE")
             c7 == c6 \o subcore_write_packet(Data("GET_CYCLE"))
             c8 == c7 \o helper_subcore_load(u, "CTRL_READ")
             c9 == c8 \o subcore_read_packet
  <1>1. Walk(d, Startup(u), d)
    <2>1. d.unit = u /\ d.sc.st = "DMA_WRITE"  BY DEF V, SC
    <2> HIDE DEF d
    <2>2. StepOf(d, [op |-> "startup", unit |-> u], d)  BY <2>1 DEF StepOf, StepStartup
    <2> QED  BY <2>2, WalkOne DEF Startup
  <1>2. Walk(d, helper_subcore_load(u, "CTRL_WRITE"), Stuck)
    BY IdleStuck, StuckOn, HelpersAreSeqs DEF helper_subcore_load
  <1> HIDE DEF d
  <1>3. Walk(d, c1, Stuck)  BY <1>1, <1>2, WalkBoth
  <1>4. Walk(d, c2, Stuck)  BY <1>3, StuckOn, HelpersAreSeqs
  <1>5. Walk(d, c3, Stuck)  BY <1>4, StuckOn, HelpersAreSeqs
  <1>6. Walk(d, c4, Stuck)  BY <1>5, StuckOn, HelpersAreSeqs
  <1>7. Walk(d, c5, Stuck)  BY <1>6, StuckOn, HelpersAreSeqs
  <1>8. Walk(d, c6, Stuck)  BY <1>7, StuckOn, HelpersAreSeqs
  <1>9. Walk(d, c7, Stuck)  BY <1>8, StuckOn, HelpersAreSeqs
  <1>10. Walk(d, c8, Stuck)  BY <1>9, StuckOn, HelpersAreSeqs
  <1>11. Walk(d, c9, Stuck)  BY <1>10, StuckOn, HelpersAreSeqs
  <1> QED  BY <1>11, StuckOn, HelpersAreSeqs
           DEF helper_get_agent_gvpu_status, helper_agent_load, d

-----------------------------------------------------------------------------
(* Whole calls                                                             *)

(* The view at the start of a call: the unit rests.                        *)
FirstView(u, b, st, h) ==
    V(u, SC("quiet", b), AG("IDLE", Whatever), GV("IDLE", Whatever),
      MC({"IDLE"}, Whatever, Unknown, Unknown, FALSE), st, h)

(* The view at its end: the unit rests again, memory and what was read are *)
(* m and r; or the call never ends.                                        *)
Done(e, m, r) ==
    \/ e = Stuck
    \/ /\ e.sc.st \in {"quiet", "idle"} /\ Resting(e)
       /\ e.h.prep = NULL /\ e.h.mem = m /\ e.h.read = r

(* helper_memcore_check_state finds the memcore writing.                   *)
LEMMA CheckWriting ==
    ASSUME NEW u, NEW b, NEW al, NEW g, NEW gl, NEW a, NEW n, NEW st, NEW h
    PROVE  LET mc == MC({"MEMCORE_WRITE_BURST"}, "MEMCORE_WRITE_BURST", a, n, FALSE)
           IN  Walk(V(u, SC("idle", b), AG("IDLE", al), GV(g, gl), mc, st, h),
                    helper_memcore_check_state(u, "MEMCORE_WRITE_BURST", n),
                    V(u, SC("idle", b), AG("IDLE", "STATUS"), GV(g, gl), mc,
                      ST(g, {"MEMCORE_WRITE_BURST"}), h))
  <1> DEFINE mc == MC({"MEMCORE_WRITE_BURST"}, "MEMCORE_WRITE_BURST", a, n, FALSE)
             d == V(u, SC("idle", b), AG("IDLE", al), GV(g, gl), mc, st, h)
             e == V(u, SC("idle", b), AG("IDLE", "STATUS"), GV(g, gl), mc,
                    ST(g, {"MEMCORE_WRITE_BURST"}), h)
  <1>1. Walk(d, helper_get_agent_status(u), e)  BY AgentStatus
  <1>2. e.st.memcore = {"MEMCORE_WRITE_BURST"}  BY DEF V, ST
  <1> HIDE DEF d, e
  <1>3. StepOf(e, [op |-> "check_memcore", unit |-> u, state |-> "MEMCORE_WRITE_BURST"], e)
    BY <1>2 DEF StepOf
  <1>4. Walk(e, CheckMemcore(u, "MEMCORE_WRITE_BURST"), e)  BY <1>3, WalkOne DEF CheckMemcore
  <1>5. Walk(d, helper_get_agent_status(u) \o CheckMemcore(u, "MEMCORE_WRITE_BURST"), e)
    BY <1>1, <1>4, WalkBoth
  <1> QED  BY <1>5 DEF helper_memcore_check_state, d, e

(* artix_mem_write up to its transfers.                                    *)
LEMMA WriteHead ==
    ASSUME NEW u, NEW a \in 0 .. MEM, NEW n \in Nat \ {0}, NEW b, NEW st, NEW o, NEW bf, NEW m,
           NEW r, NEW f
    PROVE  Walk(FirstView(u, b, st, HO(o, bf, NULL, m, r, f)),
                helper_burst_setup(u, a, n)
                \o helper_print_agent_status(u)
                \o helper_memcore_load(u, "MEMCORE_WRITE_BURST")
                \o helper_memcore_check_state(u, "MEMCORE_WRITE_BURST", n)
                \o helper_print_agent_status(u)
                \o helper_gvpu_load(u, "MEM_WRITE") \o helper_print_agent_status(u)
                \o helper_agent_load(u, "GVPU_WRITE")
                \o gcore_dma_alloc_reset
                \o subcore_prep_dma_write(u, n),
                WriteView(u, n, a, ST("MEM_WRITE", {"MEMCORE_WRITE_BURST"}),
                          HO(0, bf, NULL, m, r, f)))
  <1> DEFINE B  == "MEMCORE_WRITE_BURST"
             h  == HO(o, bf, NULL, m, r, f)
             h0 == HO(0, bf, NULL, m, r, f)
             m0 == MC({"IDLE"}, "MEMCORE_SETUP_BURST", a, n, FALSE)
             m1 == MC({B}, B, a, n, FALSE)
             W(l, gv, mc, s) == V(u, SC("idle", b), AG("IDLE", l), gv, mc, s, h)
             S  == ST("MEM_WRITE", {B})
             mw == GV("MEM_WRITE", "MEM_WRITE")
             d  == FirstView(u, b, st, h)
             X(x, k, hh) == V(u, SC(x, k), AG("GVPU_WRITE", "GVPU_WRITE"), mw, m1, S, hh)
             c1 == helper_burst_setup(u, a, n)
             c2 == c1 \o helper_print_agent_status(u)
             c3 == c2 \o helper_memcore_load(u, B)
             c4 == c3 \o helper_memcore_check_state(u, B, n)
             c5 == c4 \o helper_print_agent_status(u)
             c6 == c5 \o helper_gvpu_load(u, "MEM_WRITE")
             c7 == c6 \o helper_print_agent_status(u)
             c8 == c7 \o helper_agent_load(u, "GVPU_WRITE")
             c9 == c8 \o gcore_dma_alloc_reset
  <1>1. Walk(d, c1, W("BURST_LOAD", GV("IDLE", "MEM_BURST"), m0, ST("MEM_LOAD", {"IDLE"})))
    BY BurstSetup DEF FirstView
  <1>2. Walk(W("BURST_LOAD", GV("IDLE", "MEM_BURST"), m0, ST("MEM_LOAD", {"IDLE"})),
             helper_print_agent_status(u),
             W("STATUS", GV("IDLE", "MEM_BURST"), m0, ST("IDLE", {"IDLE"})))
    BY AgentStatus DEF helper_print_agent_status
  <1>3. Walk(W("STATUS", GV("IDLE", "MEM_BURST"), m0, ST("IDLE", {"IDLE"})),
             helper_memcore_load(u, B),
             W("GVPU_RUN", GV("IDLE", "MEM_RUN"), m1, ST("MEM_LOAD", {"IDLE"})))
    <2>1. B \in MemcoreStates /\ B # "MEMCORE_READ_BURST"  BY DEF MemcoreStates
    <2>2. RanMemcore(MC({"IDLE"}, B, a, n, FALSE)) = m1  BY DEF RanMemcore, MC
    <2> HIDE DEF B, m1
    <2>3. Walk(W("STATUS", GV("IDLE", "MEM_BURST"), m0, ST("IDLE", {"IDLE"})),
               helper_memcore_load(u, B),
               W("GVPU_RUN", GV("IDLE", "MEM_RUN"), RanMemcore(MC({"IDLE"}, B, a, n, FALSE)),
                 ST("MEM_LOAD", {"IDLE"})))
      BY <2>1, MemcoreLoad
    <2> QED  BY <2>2, <2>3
  <1>4. Walk(W("GVPU_RUN", GV("IDLE", "MEM_RUN"), m1, ST("MEM_LOAD", {"IDLE"})),
             helper_memcore_check_state(u, B, n),
             W("STATUS", GV("IDLE", "MEM_RUN"), m1, ST("IDLE", {B})))
    BY CheckWriting
  <1>5. Walk(W("STATUS", GV("IDLE", "MEM_RUN"), m1, ST("IDLE", {B})), helper_print_agent_status(u),
             W("STATUS", GV("IDLE", "MEM_RUN"), m1, ST("IDLE", {B})))
    BY AgentStatus DEF helper_print_agent_status
  <1>6. Walk(W("STATUS", GV("IDLE", "MEM_RUN"), m1, ST("IDLE", {B})),
             helper_gvpu_load(u, "MEM_WRITE"), W("GVPU_RUN", mw, m1, ST("IDLE", {B})))
    <2>1. "MEM_WRITE" \in GvpuStates \ {"MEM_RUN"} /\ Entered("MEM_WRITE") = "MEM_WRITE"
      BY DEF GvpuStates, Entered
    <2> HIDE DEF m1
    <2>2. Walk(W("STATUS", GV("IDLE", "MEM_RUN"), m1, ST("IDLE", {B})),
               helper_gvpu_load(u, "MEM_WRITE"),
               W("GVPU_RUN", GV(Entered("MEM_WRITE"), "MEM_WRITE"), m1, ST("IDLE", {B})))
      BY <2>1, GvpuLoad
    <2> QED  BY <2>1, <2>2
  <1>7. Walk(W("GVPU_RUN", mw, m1, ST("IDLE", {B})), helper_print_agent_status(u),
             W("STATUS", mw, m1, S))
    BY AgentStatus DEF helper_print_agent_status
  <1>8. Walk(W("STATUS", mw, m1, S), helper_agent_load(u, "GVPU_WRITE"), X("idle", b, h))
    BY AgentEnters DEF AgentStates
  <1>9. Walk(X("idle", b, h), gcore_dma_alloc_reset, X("idle", b, h0))  BY AllocWalk
  <1>10. Walk(X("idle", b, h0), subcore_prep_dma_write(u, n), X("DMA_WRITE", n, h0))
    BY PrepDmaWalk
  <1>11. X("DMA_WRITE", n, h0) = WriteView(u, n, a, S, h0)  BY DEF WriteView
  <1> HIDE DEF W, d, X, S, m0, m1, mw, h0
  <1>12. Walk(d, c2, W("STATUS", GV("IDLE", "MEM_BURST"), m0, ST("IDLE", {"IDLE"})))
    BY <1>1, <1>2, WalkBoth
  <1>13. Walk(d, c3, W("GVPU_RUN", GV("IDLE", "MEM_RUN"), m1, ST("MEM_LOAD", {"IDLE"})))
    BY <1>3, <1>12, WalkBoth
  <1>14. Walk(d, c4, W("STATUS", GV("IDLE", "MEM_RUN"), m1, ST("IDLE", {B})))
    BY <1>4, <1>13, WalkBoth
  <1>15. Walk(d, c5, W("STATUS", GV("IDLE", "MEM_RUN"), m1, ST("IDLE", {B})))
    BY <1>5, <1>14, WalkBoth
  <1>16. Walk(d, c6, W("GVPU_RUN", mw, m1, ST("IDLE", {B})))  BY <1>6, <1>15, WalkBoth
  <1>17. Walk(d, c7, W("STATUS", mw, m1, S))  BY <1>7, <1>16, WalkBoth
  <1>18. Walk(d, c8, X("idle", b, h))  BY <1>8, <1>17, WalkBoth
  <1>19. Walk(d, c9, X("idle", b, h0))  BY <1>9, <1>18, WalkBoth
  <1>20. Walk(d, c9 \o subcore_prep_dma_write(u, n), WriteView(u, n, a, S, h0))
    BY <1>10, <1>11, <1>19, WalkBoth
  <1> QED  BY <1>20 DEF d, S, h0

(* What follows the transfers of a write or a read.                        *)
LEMMA TailWalk ==
    ASSUME NEW d, NEW c, NEW u, NEW b, NEW al, NEW gl, NEW ml, NEW a, NEW n, NEW st, NEW h,
           Walk(d, c, V(u, SC("quiet", b), AG("IDLE", al), GV("IDLE", gl),
                        MC({"IDLE"}, ml, a, n, FALSE), st, h))
    PROVE  Walk(d, c \o helper_get_agent_gvpu_status(u) \o subcore_idle
                     \o helper_gvpu_load(u, "TEST_CLEANUP") \o helper_print_agent_status(u),
                V(u, SC("idle", b), AG("IDLE", "STATUS"), GV("IDLE", "TEST_CLEANUP"),
                  MC({"IDLE"}, ml, a, n, FALSE), ST("IDLE", {"IDLE"}), h))
  <1> DEFINE mc == MC({"IDLE"}, ml, a, n, FALSE)
             W(l, g, s) == V(u, SC("idle", b), AG("IDLE", l), GV("IDLE", g), mc, s, h)
             I  == ST("IDLE", {"IDLE"})
             d0 == V(u, SC("quiet", b), AG("IDLE", al), GV("IDLE", gl), mc, st, h)
             c1 == c \o helper_get_agent_gvpu_status(u)
             c2 == c1 \o subcore_idle
             c3 == c2 \o helper_gvpu_load(u, "TEST_CLEANUP")
  <1>1. Walk(d0, helper_get_agent_gvpu_status(u), W("GVPU_STATUS", gl, I))  BY AgentGvpuStatus
  <1>2. Walk(W("GVPU_STATUS", gl, I), subcore_idle, W("GVPU_STATUS", gl, I))  BY IdleWalk
  <1>3. Walk(W("GVPU_STATUS", gl, I), helper_gvpu_load(u, "TEST_CLEANUP"),
             W("GVPU_RUN", "TEST_CLEANUP", I))
    <2>1. "TEST_CLEANUP" \in GvpuStates \ {"MEM_RUN"} /\ Entered("TEST_CLEANUP") = "IDLE"
      BY DEF GvpuStates, Entered
    <2> HIDE DEF mc
    <2>2. Walk(W("GVPU_STATUS", gl, I), helper_gvpu_load(u, "TEST_CLEANUP"),
               V(u, SC("idle", b), AG("IDLE", "GVPU_RUN"), GV(Entered("TEST_CLEANUP"), "TEST_CLEANUP"),
                 mc, I, h))
      BY <2>1, GvpuLoad
    <2> QED  BY <2>1, <2>2
  <1>4. Walk(W("GVPU_RUN", "TEST_CLEANUP", I), helper_print_agent_status(u),
             W("STATUS", "TEST_CLEANUP", I))
    BY AgentStatus DEF helper_print_agent_status
  <1>5. Walk(d, c, d0)  OBVIOUS
  <1> HIDE DEF W, d0, I
  <1>6. Walk(d, c1, W("GVPU_STATUS", gl, I))  BY <1>1, <1>5, WalkBoth
  <1>7. Walk(d, c2, W("GVPU_STATUS", gl, I))  BY <1>2, <1>6, WalkBoth
  <1>8. Walk(d, c3, W("GVPU_RUN", "TEST_CLEANUP", I))  BY <1>3, <1>7, WalkBoth
  <1>9. Walk(d, c3 \o helper_print_agent_status(u), W("STATUS", "TEST_CLEANUP", I))
    BY <1>4, <1>8, WalkBoth
  <1> QED  BY <1>9 DEF W, I

(* ... which is not reached when they never end.                           *)
LEMMA TailStuck ==
    ASSUME NEW d, NEW c, NEW u, Walk(d, c \o helper_get_agent_gvpu_status(u), Stuck)
    PROVE  Walk(d, c \o helper_get_agent_gvpu_status(u) \o subcore_idle
                     \o helper_gvpu_load(u, "TEST_CLEANUP") \o helper_print_agent_status(u),
                Stuck)
  <1> DEFINE c1 == c \o helper_get_agent_gvpu_status(u)
             c2 == c1 \o subcore_idle
             c3 == c2 \o helper_gvpu_load(u, "TEST_CLEANUP")
  <1>1. Walk(d, c2, Stuck)  BY StuckOn, HelpersAreSeqs
  <1>2. Walk(d, c3, Stuck)  BY <1>1, StuckOn, HelpersAreSeqs
  <1> QED  BY <1>2, StuckOn, HelpersAreSeqs DEF helper_print_agent_status

(* artix_mem_write: every command meets the board in a state that takes    *)
(* it, and a write that ends has written its data and nothing else.        *)
LEMMA MemWriteWalk ==
    ASSUME NEW u \in Units, NEW a \in Nat, NEW s \in Nat \ {0}, NEW n \in 0 .. MaxCalls,
           NEW m \in Memory, NEW b, NEW st, NEW o, NEW r, NEW f, a + s + BURST <= MEM
    PROVE  \E e : /\ Walk(FirstView(u, b, st, HO(o, 0, NULL, m, r, f)), artix_mem_write(u, a, s, n), e)
                  /\ Done(e, Written(m, u, a, n, s), r)
  <1> DEFINE N  == NumBursts(s)
             d  == FirstView(u, b, st, HO(o, 0, NULL, m, r, f))
             S  == ST("MEM_WRITE", {"MEMCORE_WRITE_BURST"})
             w0 == WriteView(u, N, a, S, HO(0, 0, NULL, m, r, f))
             M  == Written(m, u, a, n, s)
             c0 == helper_burst_setup(u, a, N)
                   \o helper_print_agent_status(u)
                   \o helper_memcore_load(u, "MEMCORE_WRITE_BURST")
                   \o helper_memcore_check_state(u, "MEMCORE_WRITE_BURST", N)
                   \o helper_print_agent_status(u)
                   \o helper_gvpu_load(u, "MEM_WRITE") \o helper_print_agent_status(u)
                   \o helper_agent_load(u, "GVPU_WRITE")
                   \o gcore_dma_alloc_reset
                   \o subcore_prep_dma_write(u, N)
             c1 == c0 \o WriteTransfers(n, s)
             c2 == c1 \o helper_get_agent_gvpu_status(u) \o subcore_idle
                      \o helper_gvpu_load(u, "TEST_CLEANUP") \o helper_print_agent_status(u)
  <1>0. MEM \in Nat /\ BURST \in Nat /\ DMA_SIZE \in Nat  BY BoardAssumption
  <1>1. Walk(d, c0, w0)
    <2>1. a \in 0 .. MEM  BY <1>0
    <2>2. N \in Nat \ {0}  BY Bursts
    <2> HIDE DEF N
    <2> QED  BY <2>1, <2>2, WriteHead
  <1>2. artix_mem_write(u, a, s, n) = c2  BY DEF artix_mem_write
  <1>3. PICK k, x, y, z :
            /\ k \in Nat
            /\ Walk(w0, WriteTransfers(n, s), WriteView(u, k, x, S, HO(y, 0, NULL, z, r, f)))
            /\ k = 0 => z = M
    <2>1. CASE s <= DMA_SIZE
      <3>1. Walk(w0, WriteTransfers(n, s),
                 WriteView(u, 0, a + (N * BURST), S, HO(N * BURST, 0, NULL, M, r, f)))
        BY <2>1, WriteSmall
      <3> HIDE DEF w0, S, M, N
      <3> QED  BY <3>1
    <2>2. CASE s > DMA_SIZE
      <3> DEFINE z == Filled(m, u, a, n, s)
      <3>1. \E k, x :
               /\ k \in Nat
               /\ Walk(w0, WriteTransfers(n, s), WriteView(u, k, x, S, HO(DMA_SIZE, 0, NULL, z, r, f)))
               /\ k = 0 => z = M
        <4> HIDE DEF S
        <4> QED  BY <2>2, WriteLarge
      <3> HIDE DEF w0, S, M, N, z
      <3> QED  BY <3>1
    <2> QED  BY <1>0, <2>1, <2>2
  <1> DEFINE h == HO(y, 0, NULL, z, r, f)
             g == WriteView(u, k, x, S, h)
  <1>4. Walk(d, c1, g)
    <2> HIDE DEF d, c0, w0, S
    <2> QED  BY <1>1, <1>3, WalkBoth DEF w0, S
  <1>5. CASE k = 0
    <2> DEFINE e == V(u, SC("idle", 0), AG("IDLE", "STATUS"), GV("IDLE", "TEST_CLEANUP"),
                      MC({"IDLE"}, "MEMCORE_WRITE_BURST", x, 0, FALSE), ST("IDLE", {"IDLE"}), h)
    <2>1. g = V(u, SC("quiet", 0), AG("IDLE", "GVPU_WRITE"), GV("IDLE", "MEM_WRITE"),
                MC({"IDLE"}, "MEMCORE_WRITE_BURST", x, 0, FALSE), S, h)
      BY <1>5 DEF WriteView
    <2>2. Walk(d, c2, e)
      <3> HIDE DEF c1, d, S, h, g
      <3> QED  BY <1>4, <2>1, TailWalk
    <2>3. Done(e, M, r)
      <3> HIDE DEF M
      <3> QED  BY <1>3, <1>5 DEF Done, Resting, V, SC, AG, GV, MC, HO
    <2> HIDE DEF d, c2, e, M
    <2> QED  BY <1>2, <2>2, <2>3 DEF d, M
  <1>6. CASE k # 0
    <2>1. g = V(u, SC("DMA_WRITE", k), AG("GVPU_WRITE", "GVPU_WRITE"), GV("MEM_WRITE", "MEM_WRITE"),
                MC({"MEMCORE_WRITE_BURST"}, "MEMCORE_WRITE_BURST", x, k, FALSE), S, h)
      BY <1>6 DEF WriteView
    <2>2. Walk(g, helper_get_agent_gvpu_status(u), Stuck)
      <3> HIDE DEF g, S, h
      <3> QED  BY <2>1, AgentStuck
    <2>3. Walk(d, c2, Stuck)
      <3> HIDE DEF c1, d, g
      <3> QED  BY <1>4, <2>2, WalkBoth, TailStuck
    <2>4. Done(Stuck, M, r)  BY DEF Done
    <2> HIDE DEF d, c2, M
    <2> QED  BY <1>2, <2>3, <2>4 DEF d, M
  <1> QED  BY <1>5, <1>6

-----------------------------------------------------------------------------
(* artix_mem_read                                                          *)

(* The memcore has k more bursts to give, from address a on; with the last *)
(* one gvpu and agent are through.                                         *)
ReadView(u, q, b, k, a, ms, st, h) ==
    LET on == k # 0
    IN  V(u, SC(q, b),
          AG(IF on THEN "GVPU_READ" ELSE "IDLE", "GVPU_READ"),
          GV(IF on THEN "MEM_READ" ELSE "IDLE", "MEM_READ"),
          MC(IF on THEN ms ELSE {"IDLE"}, "MEMCORE_READ_BURST", a, k, IF on THEN TRUE ELSE FALSE),
          st, h)

(* The commands of one buffer.                                             *)
ReadOne(u, n, bursts, to) ==
    prep_rx(n, to) \o subcore_prep_dma_read(u, bursts) \o gcore_dma_start

(* ... and what they do: the buffer is received or, if subcore has been    *)
(* told of fewer words than are waited for, waited for in vain.            *)
Fetching(u, q, b, k, a, ms, st, o, bf, m, r, f, n, size, to) ==
    /\ n * BURST >= size =>
          Walk(ReadView(u, q, b, k, a, ms, st, HO(o, bf, NULL, m, r, f)),
               ReadOne(u, size, n, to),
               ReadView(u, "quiet", 0, k - n, a + (n * BURST), ms, st,
                        HO(o, bf, NULL, m, Got(r, m, u, a, size, to), f)))
    /\ n * BURST < size =>
          Walk(ReadView(u, q, b, k, a, ms, st, HO(o, bf, NULL, m, r, f)),
               ReadOne(u, size, n, to), Stuck)

(* One buffer of a read.                                                   *)
LEMMA FetchWalk ==
    ASSUME NEW u, NEW q \in {"quiet", "idle"}, NEW b, NEW k \in Nat \ {0}, NEW a \in Nat, NEW ms,
           NEW st, NEW o, NEW bf \in Nat, NEW m, NEW r, NEW f, NEW n \in Nat, NEW size \in Nat,
           NEW to \in Nat, n <= k, a + (n * BURST) <= MEM, bf + size <= DMA_SIZE
    PROVE  Fetching(u, q, b, k, a, ms, st, o, bf, m, r, f, n, size, to)
  <1> DEFINE p == [op |-> "prep", dir |-> "rx", to |-> to, size |-> size]
             h == HO(o, bf, p, m, r, f)
             h2 == HO(o, bf, NULL, m, Got(r, m, u, a, size, to), f)
             d == ReadView(u, q, b, k, a, ms, st, HO(o, bf, NULL, m, r, f))
             e == ReadView(u, q, b, k, a, ms, st, h)
             x == ReadView(u, "DMA_READ", n, k, a, ms, st, h)
             g == ReadView(u, "quiet", 0, k - n, a + (n * BURST), ms, st, h2)
  <1>0. BURST \in Nat /\ MEM \in Nat  BY BoardAssumption
  <1>1. n * BURST \in Nat  BY <1>0
  <1>2. p \in Transfers  BY DEF Transfers
  <1>3. p.op = "prep" /\ p.dir = "rx" /\ p.to = to /\ p.size = size  OBVIOUS
  <1> HIDE DEF p
  <1>4. StepPrep(d, p, e)  BY <1>2, <1>3 DEF StepPrep, WithH, ReadView, V, HO
  <1>5. Walk(d, prep_rx(size, to), e)
    <2> HIDE DEF d, e
    <2>1. StepOf(d, p, e)  BY <1>3, <1>4 DEF StepOf
    <2> QED  BY <2>1, WalkOne DEF prep_rx, p
  <1>6. Walk(e, subcore_prep_dma_read(u, n), x)
    <2> HIDE DEF h
    <2> QED  BY PrepDmaWalk DEF ReadView
  <1>7. /\ x.unit = u /\ x.sc = SC("DMA_READ", n) /\ x.ag = AG("GVPU_READ", "GVPU_READ")
        /\ x.gv = GV("MEM_READ", "MEM_READ")
        /\ x.mc = MC(ms, "MEMCORE_READ_BURST", a, k, TRUE)
        /\ x.st = st /\ x.h = h
    <2> HIDE DEF h
    <2> QED  BY DEF ReadView, V
  <1>8. /\ x.sc.st = "DMA_READ" /\ x.sc.bu = n /\ x.ag.st = "GVPU_READ" /\ x.ag.ld = "GVPU_READ"
        /\ x.gv.st = "MEM_READ" /\ x.gv.ld = "MEM_READ" /\ x.mc.st = ms
        /\ x.mc.ld = "MEMCORE_READ_BURST" /\ x.mc.addr = a /\ x.mc.left = k /\ x.mc.rd = TRUE
    <2> HIDE DEF x
    <2> QED  BY <1>7 DEF SC, AG, GV, MC
  <1>9. h.prep = p /\ NoPrep(h, h.mem, Got(h.read, h.mem, u, a, size, to)) = h2
    BY DEF HO, NoPrep
  <1>10. x.h.prep \in Transfers /\ x.h.prep.dir = "rx"
    <2> HIDE DEF x, h
    <2> QED  BY <1>2, <1>3, <1>7, <1>9
  <1>11. a \in 0 .. MEM /\ a + (n * BURST) <= MEM  BY <1>0, <1>1
  <1>12. ASSUME n * BURST >= size  PROVE StepFetch(x, g)
    <2> DEFINE last == k = n
    <2>1. g = V(u, SC("quiet", 0), AG(IF last THEN "IDLE" ELSE "GVPU_READ", "GVPU_READ"),
                GV(IF last THEN "IDLE" ELSE "MEM_READ", "MEM_READ"),
                MC(IF last THEN {"IDLE"} ELSE ms, "MEMCORE_READ_BURST", a + (n * BURST), k - n,
                   IF last THEN FALSE ELSE TRUE), st, h2)
      <3>1. k - n # 0 <=> ~last  OBVIOUS
      <3> HIDE DEF h2
      <3>2. CASE last  BY <3>1, <3>2 DEF ReadView
      <3>3. CASE ~last  BY <3>1, <3>3 DEF ReadView
      <3> QED  BY <3>2, <3>3
    <2> HIDE DEF x, g, h, h2
    <2> QED  BY <1>3, <1>7, <1>8, <1>9, <1>11, <1>12, <2>1 DEF StepFetch
  <1>13. ASSUME n * BURST < size  PROVE StepFetch(x, Stuck)
    <2> HIDE DEF x, h
    <2> QED  BY <1>3, <1>7, <1>8, <1>9, <1>11, <1>13 DEF StepFetch
  <1> HIDE DEF d, e, x, g, h, h2
  <1>14. Walk(d, prep_rx(size, to) \o subcore_prep_dma_read(u, n), x)  BY <1>5, <1>6, WalkBoth
  <1>15. ASSUME n * BURST >= size
         PROVE  Walk(d, prep_rx(size, to) \o subcore_prep_dma_read(u, n) \o gcore_dma_start, g)
    <2>1. StepOf(x, [op |-> "start"], g)  BY <1>10, <1>12, <1>15 DEF StepOf, StepStart
    <2>2. Walk(x, gcore_dma_start, g)  BY <2>1, WalkOne DEF gcore_dma_start
    <2> QED  BY <1>14, <2>2, WalkBoth
  <1>16. ASSUME n * BURST < size
         PROVE  Walk(d, prep_rx(size, to) \o subcore_prep_dma_read(u, n) \o gcore_dma_start, Stuck)
    <2>1. StepOf(x, [op |-> "start"], Stuck)  BY <1>10, <1>13, <1>16 DEF StepOf, StepStart
    <2>2. Walk(x, gcore_dma_start, Stuck)  BY <2>1, WalkOne DEF gcore_dma_start
    <2> QED  BY <1>14, <2>2, WalkBoth
  <1> QED  BY <1>15, <1>16 DEF Fetching, ReadOne, d, g, h2

(* What has been copied of s words once the ones before j have,            *)
Fetched(s, m, u, a, j) == [i \in 0 .. s - 1 |-> IF i < j THEN m[u][a + i] ELSE ZERO]

(* and in the end.                                                         *)
ReadOf(m, u, a, s) == [i \in 0 .. s - 1 |-> m[u][a + i]]

(* The words that follow the ones before j.                                *)
GoesOn(s, m, u, a, j, size) ==
    Got(Fetched(s, m, u, a, j), m, u, a + j, size, j) = Fetched(s, m, u, a, j + size)

(* They go on where the ones before end, and all of them are all.          *)
LEMMA Fetches ==
    ASSUME NEW s \in Nat, NEW m, NEW u, NEW a \in Nat, NEW j \in Nat, NEW size \in Nat
    PROVE  /\ GoesOn(s, m, u, a, j, size)
           /\ s <= j => Fetched(s, m, u, a, j) = ReadOf(m, u, a, s)
  <1> DEFINE F == Fetched(s, m, u, a, j)
  <1>1. ASSUME s <= j  PROVE F = ReadOf(m, u, a, s)
    <2>1. \A i \in 0 .. s - 1 : i < j  BY <1>1
    <2> QED  BY <2>1 DEF Fetched, ReadOf
  <1>2. DOMAIN F = 0 .. s - 1 /\ \A i \in 0 .. s - 1 : F[i] = IF i < j THEN m[u][a + i] ELSE ZERO
    BY DEF Fetched
  <1> HIDE DEF F
  <1>3. ASSUME NEW i \in 0 .. s - 1
        PROVE  (IF i \in j .. j + size - 1 THEN m[u][(a + j) + i - j] ELSE F[i])
                  = IF i < j + size THEN m[u][a + i] ELSE ZERO
    <2>1. (a + j) + i - j = a + i  OBVIOUS
    <2>2. CASE i < j
      <3>1. i \notin j .. j + size - 1 /\ i < j + size  BY <2>2
      <3> QED  BY <1>2, <2>2, <3>1
    <2>3. CASE i \in j .. j + size - 1
      <3>1. i < j + size  BY <2>3
      <3> QED  BY <2>1, <2>3, <3>1
    <2>4. CASE i >= j + size
      <3>1. i \notin j .. j + size - 1 /\ ~(i < j) /\ ~(i < j + size)  BY <2>4
      <3> QED  BY <1>2, <3>1
    <2> QED  BY <2>2, <2>3, <2>4
  <1>4. Got(F, m, u, a + j, size, j) = Fetched(s, m, u, a, j + size)
    BY <1>2, <1>3 DEF Got, Fetched
  <1> QED  BY <1>1, <1>4 DEF F, GoesOn

(* gcore_dma_alloc before the transfers of a read.                         *)
LEMMA ReadAlloc ==
    ASSUME NEW u, NEW q, NEW b, NEW k, NEW a, NEW ms, NEW st, NEW bf, NEW m, NEW r, NEW f,
           NEW n \in Nat
    PROVE  Walk(ReadView(u, q, b, k, a, ms, st, HO(0, bf, NULL, m, r, f)), gcore_dma_alloc(n),
                ReadView(u, q, b, k, a, ms, st, HO(n, 0, NULL, m, r, f)))
  <1> DEFINE on == k # 0
             sc == SC(q, b)
             ag == AG(IF on THEN "GVPU_READ" ELSE "IDLE", "GVPU_READ")
             gv == GV(IF on THEN "MEM_READ" ELSE "IDLE", "MEM_READ")
             mc == MC(IF on THEN ms ELSE {"IDLE"}, "MEMCORE_READ_BURST", a, k,
                      IF on THEN TRUE ELSE FALSE)
  <1>1. Walk(V(u, sc, ag, gv, mc, st, HO(0, bf, NULL, m, r, f)), gcore_dma_alloc(n),
             V(u, sc, ag, gv, mc, st, HO(0 + n, 0, NULL, m, r, f)))
    <2> HIDE DEF sc, ag, gv, mc
    <2> QED  BY AllocWalk
  <1>2. 0 + n = n  OBVIOUS
  <1> QED  BY <1>1, <1>2 DEF ReadView

(* The transfers of a size that fits the DMA map: one buffer.              *)
LEMMA ReadSmall ==
    ASSUME NEW u, NEW q \in {"quiet", "idle"}, NEW b, NEW a \in Nat, NEW s \in Nat \ {0}, NEW ms,
           NEW m, NEW st, NEW bf, NEW r, r = Fetched(s, m, u, a, 0), NEW f,
           a + s + BURST <= MEM, s <= DMA_SIZE
    PROVE  Walk(ReadView(u, q, b, NumBursts(s), a, ms, st, HO(0, bf, NULL, m, r, f)),
                ReadTransfers(u, s),
                ReadView(u, "quiet", 0, 0, a + (NumBursts(s) * BURST), ms, st,
                         HO(NumBursts(s) * BURST, 0, NULL, m, ReadOf(m, u, a, s), f)))
  <1> DEFINE N == NumBursts(s)
             L == N * BURST
             R == ReadOf(m, u, a, s)
             d == ReadView(u, q, b, N, a, ms, st, HO(0, bf, NULL, m, r, f))
             e == ReadView(u, q, b, N, a, ms, st, HO(L, 0, NULL, m, r, f))
             g == ReadView(u, "quiet", 0, 0, a + L, ms, st, HO(L, 0, NULL, m, R, f))
  <1>0. MEM \in Nat /\ BURST \in Nat /\ DMA_SIZE \in Nat  BY BoardAssumption
  <1>1. N \in Nat \ {0} /\ L \in Nat /\ L < s + BURST /\ s <= L  BY Bursts
  <1>2. L <= DMA_SIZE  BY FitsMap
  <1>3. a + L <= MEM /\ 0 + L <= DMA_SIZE /\ L >= L /\ N - N = 0 /\ N <= N /\ 0 \in Nat
        /\ a + 0 = a /\ 0 + L = L
    BY <1>0, <1>1, <1>2
  <1>4. ReadTransfers(u, s) = gcore_dma_alloc(L) \o ReadOne(u, L, N, 0)
    <2>1. ~(s > DMA_SIZE)  BY <1>0
    <2> QED  BY <2>1 DEF ReadTransfers, ReadOne
  <1>5. Got(r, m, u, a, L, 0) = R
    <2> HIDE DEF L
    <2>1. Fetched(s, m, u, a, L) = R  BY <1>1, Fetches
    <2>3. L \in Nat /\ 0 \in Nat  BY <1>1
    <2>4. Got(Fetched(s, m, u, a, 0), m, u, a + 0, L, 0) = Fetched(s, m, u, a, 0 + L)
      <3>1. GoesOn(s, m, u, a, 0, L)  BY <2>3, Fetches
      <3> QED  BY <3>1 DEF GoesOn
    <2> QED  BY <1>3, <2>1, <2>4
  <1>6. Walk(d, gcore_dma_alloc(L), e)
    <2> HIDE DEF L, N
    <2> QED  BY <1>1, ReadAlloc
  <1>7. Walk(e, ReadOne(u, L, N, 0), g)
    <2> HIDE DEF N
    <2>1. L = N * BURST  OBVIOUS
    <2> HIDE DEF L, R
    <2>2. Fetching(u, q, b, N, a, ms, st, L, 0, m, r, f, N, L, 0)
      BY <1>1, <1>3, <2>1, FetchWalk
    <2> QED  BY <1>1, <1>3, <1>5, <2>1, <2>2 DEF Fetching
  <1> HIDE DEF d, e, g, L, N
  <1>8. Walk(d, ReadTransfers(u, s), g)  BY <1>4, <1>6, <1>7, WalkBoth
  <1> QED  BY <1>8 DEF d, g, L, N, R

(* The transfers of a larger size: full buffers and a rest.  Of a rest     *)
(* that ends inside a burst only the whole bursts are asked for, and the   *)
(* wait for it ends in the time limit.                                     *)
LEMMA ReadLarge ==
    ASSUME NEW u, NEW q \in {"quiet", "idle"}, NEW b, NEW a \in Nat, NEW s \in Nat \ {0}, NEW ms,
           NEW m, NEW st, NEW bf, NEW r, r = Fetched(s, m, u, a, 0), NEW f,
           a + s + BURST <= MEM, s > DMA_SIZE
    PROVE  LET d == ReadView(u, q, b, NumBursts(s), a, ms, st, HO(0, bf, NULL, m, r, f))
           IN  \/ Walk(d, ReadTransfers(u, s),
                       ReadView(u, "quiet", 0, 0, a + s, ms, st,
                                HO(DMA_SIZE, 0, NULL, m, ReadOf(m, u, a, s), f)))
               \/ Walk(d, ReadTransfers(u, s), Stuck)
  <1> DEFINE N  == NumBursts(s)
             K  == DMA_SIZE \div BURST
             c  == s \div DMA_SIZE
             dm == s % DMA_SIZE
             e  == dm \div BURST
             R  == ReadOf(m, u, a, s)
             W(x, z, k, y, o, bb, j) ==
                 ReadView(u, x, z, k, y, ms, st, HO(o, bb, NULL, m, Fetched(s, m, u, a, j), f))
             first(i) == IF i = 0 THEN q ELSE "quiet"
             left(i)  == IF i = 0 THEN b ELSE 0
             D  == [i \in 0 .. c |-> W(first(i), left(i), N - (i * K), a + (i * DMA_SIZE), DMA_SIZE, 0,
                                       i * DMA_SIZE)]
             F  == [i \in 0 .. c - 1 |-> ReadOne(u, DMA_SIZE, K, i * DMA_SIZE)]
             T  == ReadOne(u, dm, e, s - dm)
  <1>0. MEM \in Nat /\ BURST \in Nat \ {0} /\ DMA_SIZE \in Nat \ {0}  BY BoardAssumption
  <1>1. N \in Nat /\ N * BURST < s + BURST  BY Bursts
  <1>2. /\ c \in Nat /\ dm \in Nat /\ dm < DMA_SIZE /\ s = (c * DMA_SIZE) + dm
        /\ c * DMA_SIZE \in Nat /\ c * K \in Nat /\ e \in Nat /\ c # 0
        /\ e * BURST <= dm
        /\ N = (c * K) + e + (IF dm % BURST # 0 THEN 1 ELSE 0)
        /\ dm % BURST = 0 => e * BURST = dm
        /\ dm % BURST # 0 => e * BURST < dm
        /\ c * DMA_SIZE = (c * K) * BURST
    BY Buffers
  <1>3. K \in Nat \ {0} /\ DMA_SIZE = K * BURST  BY MapBursts
  <1>4. ReadTransfers(u, s)
          = gcore_dma_alloc(DMA_SIZE) \o Concat(F, c) \o IF dm = 0 THEN <<>> ELSE T
    BY DEF ReadTransfers, ReadOne
  <1>5. Fetched(s, m, u, a, 0) = r  OBVIOUS
  <1>x. e = dm \div BURST  OBVIOUS
  <1> HIDE DEF N, K, c, dm, e
  <1> DEFINE d == ReadView(u, q, b, N, a, ms, st, HO(0, bf, NULL, m, r, f))
  <1>6. Walk(d, gcore_dma_alloc(DMA_SIZE), D[0])
    <2>1. D[0] = W(q, b, N, a, DMA_SIZE, 0, 0)
      <3>1. 0 \in 0 .. c /\ N - (0 * K) = N /\ a + (0 * DMA_SIZE) = a /\ 0 * DMA_SIZE = 0
        BY <1>0, <1>1, <1>2, <1>3
      <3> HIDE DEF W
      <3> QED  BY <3>1
    <2> HIDE DEF D
    <2> QED  BY <1>0, <1>5, <2>1, ReadAlloc
  <1>7. ASSUME NEW i \in 0 .. c - 1  PROVE Walk(D[i], F[i], D[i + 1])
    <2> DEFINE x == i * DMA_SIZE
               y == (i + 1) * DMA_SIZE
               k == N - (i * K)
               q1 == first(i)
               b1 == left(i)
               G == Fetched(s, m, u, a, x)
    <2>1. i \in Nat /\ i \in 0 .. c /\ i + 1 \in 0 .. c /\ i + 1 \in Nat /\ i + 1 # 0  BY <1>2
    <2>2. x \in Nat /\ y \in Nat /\ y = x + DMA_SIZE  BY <1>0, <2>1
    <2>3. y <= s
      <3>1. y <= c * DMA_SIZE  BY <1>0, <1>2, <2>1
      <3> QED  BY <1>2, <2>2, <3>1
    <2>4. a + y <= MEM  BY <1>0, <2>2, <2>3
    <2>5. k \in Nat \ {0} /\ K <= k /\ N - ((i + 1) * K) = k - K
      <3>1. (i + 1) * K <= c * K /\ (i + 1) * K = (i * K) + K /\ i * K \in Nat
        BY <1>2, <1>3, <2>1
      <3>2. c * K <= N  BY <1>2
      <3> DEFINE z == i * K
                 y1 == (i + 1) * K
                 x1 == c * K
      <3>3. y1 = z + K /\ z \in Nat /\ y1 <= x1 /\ x1 <= N /\ x1 \in Nat  BY <1>2, <3>1, <3>2
      <3> HIDE DEF z, y1, x1
      <3>4. N - z \in Nat \ {0} /\ K <= N - z /\ N - y1 = (N - z) - K  BY <1>1, <1>3, <3>3
      <3> QED  BY <3>4 DEF z, y1
    <2>6. q1 \in {"quiet", "idle"}  OBVIOUS
    <2>7. D[i] = W(q1, b1, k, a + x, DMA_SIZE, 0, x) /\ D[i + 1] = W("quiet", 0, k - K, a + y, DMA_SIZE, 0, y)
      <3> HIDE DEF W
      <3> QED  BY <2>1, <2>5
    <2>8. F[i] = ReadOne(u, DMA_SIZE, K, x)  OBVIOUS
    <2> HIDE DEF x, y, k, D, F, q1, b1
    <2>9. Got(G, m, u, a + x, DMA_SIZE, x) = Fetched(s, m, u, a, y)
      <3>1. DMA_SIZE \in Nat /\ x \in Nat  BY <1>0, <2>2
      <3>2. Got(Fetched(s, m, u, a, x), m, u, a + x, DMA_SIZE, x) = Fetched(s, m, u, a, x + DMA_SIZE)
        <4>1. GoesOn(s, m, u, a, x, DMA_SIZE)  BY <3>1, Fetches
        <4> QED  BY <4>1 DEF GoesOn
      <3> QED  BY <2>2, <3>2
    <2>10. /\ (a + x) + (K * BURST) = a + y /\ a + x \in Nat /\ 0 + DMA_SIZE <= DMA_SIZE /\ 0 \in Nat
           /\ K * BURST >= DMA_SIZE /\ (a + x) + (K * BURST) <= MEM
      BY <1>0, <1>3, <2>2, <2>4
    <2> HIDE DEF G
    <2>11. Fetching(u, q1, b1, k, a + x, ms, st, DMA_SIZE, 0, m, G, f, K, DMA_SIZE, x)
      BY <1>0, <1>3, <2>2, <2>5, <2>6, <2>10, FetchWalk
    <2> QED  BY <2>7, <2>8, <2>9, <2>10, <2>11 DEF Fetching, G
  <1>8. Walk(D[0], Concat(F, c), D[c])
    <2> HIDE DEF D, F
    <2> QED  BY <1>2, <1>7, ConcatWalk
  <1>9. D[c] = W("quiet", 0, N - (c * K), a + (c * DMA_SIZE), DMA_SIZE, 0, c * DMA_SIZE)
    <2>1. c \in 0 .. c /\ c # 0  BY <1>2
    <2> HIDE DEF W
    <2> QED  BY <2>1
  <1>10. Walk(d, gcore_dma_alloc(DMA_SIZE) \o Concat(F, c), D[c])
    <2> HIDE DEF D, F, d
    <2> QED  BY <1>6, <1>8, WalkBoth
  <1>11. Fetched(s, m, u, a, s) = R  BY Fetches
  <1> DEFINE g == ReadView(u, "quiet", 0, 0, a + s, ms, st, HO(DMA_SIZE, 0, NULL, m, R, f))
  <1>12. CASE dm = 0
    <2>1. e = 0 /\ dm % BURST = 0
      <3>1. 0 \div BURST = 0 /\ 0 % BURST = 0
        <4>1. 0 = (BURST * 0) + 0 /\ 0 \in 0 .. BURST - 1  BY <1>0
        <4> QED  BY <1>0, <4>1, DivModIs
      <3> QED  BY <1>12, <3>1, <1>x
    <2>2. N - (c * K) = 0 /\ c * DMA_SIZE = s  BY <1>1, <1>2, <1>12, <2>1
    <2>3. D[c] = g  BY <1>9, <1>11, <2>2
    <2> HIDE DEF D, F, W, d, g
    <2>4. Walk(D[c], <<>>, D[c])  BY WalkNone
    <2>5. Walk(d, ReadTransfers(u, s), g)  BY <1>4, <1>10, <1>12, <2>3, <2>4, WalkBoth
    <2> QED  BY <2>5 DEF d, g, R, N
  <1>13. CASE dm # 0
    <2> DEFINE k == N - (c * K)
               x == c * DMA_SIZE
               G == Fetched(s, m, u, a, x)
    <2>1. s - dm = x /\ x \in Nat /\ x + dm = s  BY <1>2
    <2>2. k \in Nat \ {0} /\ e <= k
      <3>1. CASE dm % BURST = 0
        <4>1. e # 0
          <5>1. CASE e = 0
            <6>1. e * BURST = 0  BY <1>0, <5>1
            <6> QED  BY <1>2, <1>13, <3>1, <6>1
          <5> QED  BY <5>1
        <4>2. k = e  BY <1>2, <3>1
        <4> QED  BY <1>2, <4>1, <4>2
      <3>2. CASE dm % BURST # 0
        <4>1. k = e + 1  BY <1>2, <3>2
        <4> QED  BY <1>2, <4>1
      <3> QED  BY <3>1, <3>2
    <2>3. /\ a + x \in Nat /\ (a + x) + (e * BURST) <= MEM /\ 0 + dm <= DMA_SIZE /\ 0 \in Nat
          /\ e * BURST \in Nat
      BY <1>0, <1>2, <2>1
    <2>4. D[c] = ReadView(u, "quiet", 0, k, a + x, ms, st, HO(DMA_SIZE, 0, NULL, m, G, f))
      BY <1>9
    <2>5. T = ReadOne(u, dm, e, x)  BY <2>1
    <2>6. Got(G, m, u, a + x, dm, x) = R
      <3> HIDE DEF x
      <3>1. dm \in Nat /\ x \in Nat  BY <1>2, <2>1
      <3>2. Got(G, m, u, a + x, dm, x) = Fetched(s, m, u, a, x + dm)
        <4>1. GoesOn(s, m, u, a, x, dm)  BY <3>1, Fetches
        <4> QED  BY <4>1 DEF GoesOn
      <3> QED  BY <1>11, <2>1, <3>2
    <2> HIDE DEF k, x, G, D, F, T, R, d, W
    <2>x. Fetching(u, "quiet", 0, k, a + x, ms, st, DMA_SIZE, 0, m, G, f, e, dm, x)
      BY <1>2, <2>1, <2>2, <2>3, FetchWalk
    <2>7. CASE dm % BURST = 0
      <3>1. e * BURST >= dm /\ k - e = 0 /\ (a + x) + (e * BURST) = a + s
        BY <1>0, <1>1, <1>2, <2>1, <2>3, <2>7 DEF k
      <3>2. Walk(ReadView(u, "quiet", 0, k, a + x, ms, st, HO(DMA_SIZE, 0, NULL, m, G, f)),
                 ReadOne(u, dm, e, x), g)
        BY <2>6, <2>x, <3>1 DEF Fetching
      <3>3. Walk(D[c], T, g)  BY <2>4, <2>5, <3>2
      <3> HIDE DEF g
      <3>4. Walk(d, ReadTransfers(u, s), g)  BY <1>4, <1>10, <1>13, <3>3, WalkBoth
      <3> QED  BY <3>4 DEF d, g, R, N
    <2>8. CASE dm % BURST # 0
      <3>1. e * BURST < dm  BY <1>2, <2>8
      <3>2. Walk(ReadView(u, "quiet", 0, k, a + x, ms, st, HO(DMA_SIZE, 0, NULL, m, G, f)),
                 ReadOne(u, dm, e, x), Stuck)
        BY <2>x, <3>1 DEF Fetching
      <3>3. Walk(d, ReadTransfers(u, s), Stuck)  BY <1>4, <1>10, <1>13, <2>4, <2>5, <3>2, WalkBoth
      <3> QED  BY <3>3 DEF d, N
    <2> QED  BY <2>7, <2>8
  <1> QED  BY <1>12, <1>13

(* The states the memcore may be in once it reads n bursts: what fits its  *)
(* FIFO may have been read.                                                *)
Reading(n) == IF n * BURST <= FIFO THEN {"IDLE", "MEMCORE_READ_BURST"} ELSE {"MEMCORE_READ_BURST"}

(* helper_memcore_check_state finds the memcore reading or does not look.  *)
LEMMA CheckReading ==
    ASSUME NEW u, NEW b, NEW al, NEW g, NEW gl, NEW a, NEW n \in Nat, NEW st, NEW h
    PROVE  LET mc == MC(Reading(n), "MEMCORE_READ_BURST", a, n, TRUE)
           IN  \E l, s : Walk(V(u, SC("idle", b), AG("IDLE", al), GV(g, gl), mc, st, h),
                              helper_memcore_check_state(u, "MEMCORE_READ_BURST", n),
                              V(u, SC("idle", b), AG("IDLE", l), GV(g, gl), mc, s, h))
  <1> DEFINE B  == "MEMCORE_READ_BURST"
             mc == MC(Reading(n), B, a, n, TRUE)
             d  == V(u, SC("idle", b), AG("IDLE", al), GV(g, gl), mc, st, h)
             E(l, s) == V(u, SC("idle", b), AG("IDLE", l), GV(g, gl), mc, s, h)
             c  == helper_memcore_check_state(u, B, n)
  <1>0. n * BURST \in Nat /\ FIFO \in Nat  BY BoardAssumption
  <1>1. CASE n * BURST <= FIFO
    <2>1. c = <<>>
      <3>1. ~(n * BURST > FIFO)  BY <1>0, <1>1
      <3> QED  BY <3>1 DEF helper_memcore_check_state
    <2>2. Walk(d, c, E(al, st))  BY <2>1, WalkNone
    <2> HIDE DEF d, E, c
    <2>3. \E l, s : Walk(d, c, E(l, s))  BY <2>2
    <2> QED  BY <2>3 DEF d, E, c
  <1>2. CASE n * BURST > FIFO
    <2> DEFINE e == E("STATUS", ST(g, {B}))
    <2>1. c = helper_get_agent_status(u) \o CheckMemcore(u, B)
      BY <1>2 DEF helper_memcore_check_state
    <2>2. Reading(n) = {B}
      <3>1. ~(n * BURST <= FIFO)  BY <1>0, <1>2
      <3> QED  BY <3>1 DEF Reading
    <2>3. Walk(d, helper_get_agent_status(u), e)  BY <2>2, AgentStatus
    <2>4. e.st.memcore = {B}  BY DEF V, ST
    <2> HIDE DEF d, e, B
    <2>5. StepOf(e, [op |-> "check_memcore", unit |-> u, state |-> B], e)  BY <2>4 DEF StepOf
    <2>6. Walk(e, CheckMemcore(u, B), e)  BY <2>5, WalkOne DEF CheckMemcore
    <2>7. Walk(d, c, e)
      <3> HIDE DEF c
      <3> QED  BY <2>1, <2>3, <2>6, WalkBoth
    <2> HIDE DEF E, c
    <2>8. \E l, s : Walk(d, c, E(l, s))  BY <2>7 DEF e
    <2> QED  BY <2>8 DEF d, E, c, B
  <1>3. n * BURST <= FIFO \/ n * BURST > FIFO  BY <1>0
  <1> QED  BY <1>1, <1>2, <1>3, Zenon

(* artix_mem_read up to its transfers.                                     *)
LEMMA ReadHead ==
    ASSUME NEW u, NEW a \in 0 .. MEM, NEW n \in Nat \ {0}, NEW b, NEW st, NEW o, NEW bf, NEW m,
           NEW r, NEW f
    PROVE  Walk(FirstView(u, b, st, HO(o, bf, NULL, m, r, f)),
                helper_burst_setup(u, a, n)
                \o helper_print_agent_status(u)
                \o helper_memcore_load(u, "MEMCORE_READ_BURST")
                \o helper_memcore_check_state(u, "MEMCORE_READ_BURST", n)
                \o helper_print_agent_status(u)
                \o helper_gvpu_load(u, "MEM_READ") \o helper_agent_load(u, "GVPU_READ")
                \o gcore_dma_alloc_reset,
                ReadView(u, "idle", b, n, a, Reading(n), ST("IDLE", Reading(n)),
                         HO(0, bf, NULL, m, r, f)))
  <1> DEFINE B  == "MEMCORE_READ_BURST"
             h  == HO(o, bf, NULL, m, r, f)
             h0 == HO(0, bf, NULL, m, r, f)
             m0 == MC({"IDLE"}, "MEMCORE_SETUP_BURST", a, n, FALSE)
             m1 == MC(Reading(n), B, a, n, TRUE)
             W(l, gv, mc, s) == V(u, SC("idle", b), AG("IDLE", l), gv, mc, s, h)
             S  == ST("IDLE", Reading(n))
             mr == GV("MEM_READ", "MEM_READ")
             d  == FirstView(u, b, st, h)
             X(hh) == V(u, SC("idle", b), AG("GVPU_READ", "GVPU_READ"), mr, m1, S, hh)
             c1 == helper_burst_setup(u, a, n)
             c2 == c1 \o helper_print_agent_status(u)
             c3 == c2 \o helper_memcore_load(u, B)
             c4 == c3 \o helper_memcore_check_state(u, B, n)
             c5 == c4 \o helper_print_agent_status(u)
             c6 == c5 \o helper_gvpu_load(u, "MEM_READ")
             c7 == c6 \o helper_agent_load(u, "GVPU_READ")
  <1>1. Walk(d, c1, W("BURST_LOAD", GV("IDLE", "MEM_BURST"), m0, ST("MEM_LOAD", {"IDLE"})))
    BY BurstSetup DEF FirstView
  <1>2. Walk(W("BURST_LOAD", GV("IDLE", "MEM_BURST"), m0, ST("MEM_LOAD", {"IDLE"})),
             helper_print_agent_status(u),
             W("STATUS", GV("IDLE", "MEM_BURST"), m0, ST("IDLE", {"IDLE"})))
    BY AgentStatus DEF helper_print_agent_status
  <1>3. Walk(W("STATUS", GV("IDLE", "MEM_BURST"), m0, ST("IDLE", {"IDLE"})),
             helper_memcore_load(u, B),
             W("GVPU_RUN", GV("IDLE", "MEM_RUN"), m1, ST("MEM_LOAD", {"IDLE"})))
    <2>1. B \in MemcoreStates  BY DEF MemcoreStates
    <2>2. RanMemcore(MC({"IDLE"}, B, a, n, FALSE)) = m1  BY DEF RanMemcore, MC, Reading
    <2> HIDE DEF B, m1
    <2>3. Walk(W("STATUS", GV("IDLE", "MEM_BURST"), m0, ST("IDLE", {"IDLE"})),
               helper_memcore_load(u, B),
               W("GVPU_RUN", GV("IDLE", "MEM_RUN"), RanMemcore(MC({"IDLE"}, B, a, n, FALSE)),
                 ST("MEM_LOAD", {"IDLE"})))
      BY <2>1, MemcoreLoad
    <2> QED  BY <2>2, <2>3
  <1>4. PICK l, s :
             Walk(W("GVPU_RUN", GV("IDLE", "MEM_RUN"), m1, ST("MEM_LOAD", {"IDLE"})),
                  helper_memcore_check_state(u, B, n), W(l, GV("IDLE", "MEM_RUN"), m1, s))
    BY CheckReading
  <1>5. Walk(W(l, GV("IDLE", "MEM_RUN"), m1, s), helper_print_agent_status(u),
             W("STATUS", GV("IDLE", "MEM_RUN"), m1, S))
    BY AgentStatus DEF helper_print_agent_status
  <1>6. Walk(W("STATUS", GV("IDLE", "MEM_RUN"), m1, S), helper_gvpu_load(u, "MEM_READ"),
             W("GVPU_RUN", mr, m1, S))
    <2>1. "MEM_READ" \in GvpuStates \ {"MEM_RUN"} /\ Entered("MEM_READ") = "MEM_READ"
      BY DEF GvpuStates, Entered
    <2> HIDE DEF m1, S
    <2>2. Walk(W("STATUS", GV("IDLE", "MEM_RUN"), m1, S), helper_gvpu_load(u, "MEM_READ"),
               W("GVPU_RUN", GV(Entered("MEM_READ"), "MEM_READ"), m1, S))
      BY <2>1, GvpuLoad
    <2> QED  BY <2>1, <2>2
  <1>7. Walk(W("GVPU_RUN", mr, m1, S), helper_agent_load(u, "GVPU_READ"), X(h))
    BY AgentEnters DEF AgentStates
  <1>8. Walk(X(h), gcore_dma_alloc_reset, X(h0))  BY AllocWalk
  <1>9. X(h0) = ReadView(u, "idle", b, n, a, Reading(n), S, h0)  BY DEF ReadView
  <1> HIDE DEF W, d, X, S, m0, m1, mr, h0
  <1>12. Walk(d, c2, W("STATUS", GV("IDLE", "MEM_BURST"), m0, ST("IDLE", {"IDLE"})))
    BY <1>1, <1>2, WalkBoth
  <1>13. Walk(d, c3, W("GVPU_RUN", GV("IDLE", "MEM_RUN"), m1, ST("MEM_LOAD", {"IDLE"})))
    BY <1>3, <1>12, WalkBoth
  <1>14. Walk(d, c4, W(l, GV("IDLE", "MEM_RUN"), m1, s))  BY <1>4, <1>13, WalkBoth
  <1>15. Walk(d, c5, W("STATUS", GV("IDLE", "MEM_RUN"), m1, S))  BY <1>5, <1>14, WalkBoth
  <1>16. Walk(d, c6, W("GVPU_RUN", mr, m1, S))  BY <1>6, <1>15, WalkBoth
  <1>17. Walk(d, c7, X(h))  BY <1>7, <1>16, WalkBoth
  <1>18. Walk(d, c7 \o gcore_dma_alloc_reset, X(h0))  BY <1>8, <1>17, WalkBoth
  <1> QED  BY <1>9, <1>18 DEF d, S, h0

(* artix_mem_read: every command meets the board in a state that takes it, *)
(* and a read that ends has copied what is in memory.                      *)
LEMMA MemReadWalk ==
    ASSUME NEW u \in Units, NEW a \in Nat, NEW s \in Nat \ {0}, NEW m, NEW b, NEW st, NEW o,
           NEW f, a + s + BURST <= MEM
    PROVE  \E e : /\ Walk(FirstView(u, b, st, HO(o, 0, NULL, m, Fetched(s, m, u, a, 0), f)),
                          artix_mem_read(u, a, s), e)
                  /\ Done(e, m, ReadOf(m, u, a, s))
  <1> DEFINE N  == NumBursts(s)
             r  == Fetched(s, m, u, a, 0)
             R  == ReadOf(m, u, a, s)
             d  == FirstView(u, b, st, HO(o, 0, NULL, m, r, f))
             ms == Reading(N)
             S  == ST("IDLE", ms)
             w0 == ReadView(u, "idle", b, N, a, ms, S, HO(0, 0, NULL, m, r, f))
             c0 == helper_burst_setup(u, a, N)
                   \o helper_print_agent_status(u)
                   \o helper_memcore_load(u, "MEMCORE_READ_BURST")
                   \o helper_memcore_check_state(u, "MEMCORE_READ_BURST", N)
                   \o helper_print_agent_status(u)
                   \o helper_gvpu_load(u, "MEM_READ") \o helper_agent_load(u, "GVPU_READ")
                   \o gcore_dma_alloc_reset
             c1 == c0 \o ReadTransfers(u, s)
             c2 == c1 \o helper_get_agent_gvpu_status(u) \o subcore_idle
                      \o helper_gvpu_load(u, "TEST_CLEANUP") \o helper_print_agent_status(u)
  <1>0. MEM \in Nat /\ BURST \in Nat /\ DMA_SIZE \in Nat  BY BoardAssumption
  <1>1. Walk(d, c0, w0)
    <2>1. a \in 0 .. MEM  BY <1>0
    <2>2. N \in Nat \ {0}  BY Bursts
    <2> HIDE DEF N, r
    <2> QED  BY <2>1, <2>2, ReadHead
  <1>2. artix_mem_read(u, a, s) = c2  BY DEF artix_mem_read
  <1>3. \/ \E x, y : Walk(w0, ReadTransfers(u, s),
                          ReadView(u, "quiet", 0, 0, x, ms, S, HO(y, 0, NULL, m, R, f)))
        \/ Walk(w0, ReadTransfers(u, s), Stuck)
    <2>0. r = Fetched(s, m, u, a, 0) /\ "idle" \in {"quiet", "idle"}  OBVIOUS
    <2>1. CASE s <= DMA_SIZE
      <3> HIDE DEF r
      <3>1. Walk(w0, ReadTransfers(u, s),
                 ReadView(u, "quiet", 0, 0, a + (N * BURST), ms, S, HO(N * BURST, 0, NULL, m, R, f)))
        BY <2>0, <2>1, ReadSmall
      <3> HIDE DEF w0, S, R, N, ms
      <3> QED  BY <3>1
    <2>2. CASE s > DMA_SIZE
      <3> HIDE DEF r
      <3>1. \/ Walk(w0, ReadTransfers(u, s),
                    ReadView(u, "quiet", 0, 0, a + s, ms, S, HO(DMA_SIZE, 0, NULL, m, R, f)))
            \/ Walk(w0, ReadTransfers(u, s), Stuck)
        BY <2>0, <2>2, ReadLarge
      <3> HIDE DEF w0, S, R, N, ms
      <3> QED  BY <3>1
    <2> QED  BY <1>0, <2>1, <2>2
  <1>4. CASE Walk(w0, ReadTransfers(u, s), Stuck)
    <2>1. Walk(d, c1 \o helper_get_agent_gvpu_status(u), Stuck)
      <3> HIDE DEF d, c0, w0
      <3>1. Walk(d, c1, Stuck)  BY <1>1, <1>4, WalkBoth DEF w0
      <3> HIDE DEF c1
      <3> QED  BY <3>1, StuckOn, HelpersAreSeqs
    <2>2. Walk(d, c2, Stuck)
      <3> HIDE DEF c1, d
      <3> QED  BY <2>1, TailStuck
    <2>3. Done(Stuck, m, R)  BY DEF Done
    <2> HIDE DEF d, c2, R
    <2> QED  BY <1>2, <2>2, <2>3 DEF d, R
  <1>5. ASSUME NEW x, NEW y,
               Walk(w0, ReadTransfers(u, s),
                    ReadView(u, "quiet", 0, 0, x, ms, S, HO(y, 0, NULL, m, R, f)))
        PROVE  \E e : Walk(d, artix_mem_read(u, a, s), e) /\ Done(e, m, R)
    <2> DEFINE h == HO(y, 0, NULL, m, R, f)
               g == ReadView(u, "quiet", 0, 0, x, ms, S, h)
               e == V(u, SC("idle", 0), AG("IDLE", "STATUS"), GV("IDLE", "TEST_CLEANUP"),
                      MC({"IDLE"}, "MEMCORE_READ_BURST", x, 0, FALSE), ST("IDLE", {"IDLE"}), h)
    <2>1. g = V(u, SC("quiet", 0), AG("IDLE", "GVPU_READ"), GV("IDLE", "MEM_READ"),
                MC({"IDLE"}, "MEMCORE_READ_BURST", x, 0, FALSE), S, h)
      BY DEF ReadView
    <2>2. Walk(d, c1, g)
      <3> HIDE DEF d, c0, w0, S, ms, R
      <3> QED  BY <1>1, <1>5, WalkBoth
    <2>3. Walk(d, c2, e)
      <3> HIDE DEF c1, d, S, h, g
      <3> QED  BY <2>1, <2>2, TailWalk
    <2>4. Done(e, m, R)
      <3> HIDE DEF R
      <3> QED  BY DEF Done, Resting, V, SC, AG, GV, MC, HO
    <2> HIDE DEF d, c2, e, R
    <2> QED  BY <1>2, <2>3, <2>4
  <1> QED  BY <1>3, <1>4, <1>5

-----------------------------------------------------------------------------
(* The other calls                                                         *)

(* A transfer of zeros.                                                    *)
Zeros(size) == [k \in 1 .. size |-> ZERO]
ZeroTx(size) == [op |-> "prep", dir |-> "tx", data |-> Zeros(size), size |-> size]

(* It is prepared in a buffer that holds it.                               *)
LEMMA PrepZeros ==
    ASSUME NEW u, NEW sc, NEW ag, NEW gv, NEW mc, NEW st, NEW o, NEW bf, NEW m, NEW r,
           NEW f, NEW size \in Nat, f \/ bf + size <= DMA_SIZE
    PROVE  /\ ZeroTx(size) \in Transfers /\ Len(ZeroTx(size).data) = size
           /\ Walk(V(u, sc, ag, gv, mc, st, HO(o, bf, NULL, m, r, f)), prep_tx(Zeros(size)),
                   V(u, sc, ag, gv, mc, st, HO(o, bf, ZeroTx(size), m, r, f)))
  <1> DEFINE p == ZeroTx(size)
             d == V(u, sc, ag, gv, mc, st, HO(o, bf, NULL, m, r, f))
             e == V(u, sc, ag, gv, mc, st, HO(o, bf, p, m, r, f))
  <1>1. ZERO \in Words  BY BoardAssumption DEF ZERO, Words
  <1>2. Zeros(size) \in Seq(Words) /\ Len(Zeros(size)) = size  BY <1>1 DEF Zeros
  <1>3. p \in Transfers  BY <1>2 DEF Transfers, ZeroTx
  <1>4. p.op = "prep" /\ p.data = Zeros(size) /\ p.size = size  BY DEF ZeroTx
  <1> HIDE DEF p
  <1>5. StepPrep(d, p, e)  BY <1>3, <1>4 DEF StepPrep, WithH, V, HO
  <1> HIDE DEF d, e
  <1>6. StepOf(d, p, e)  BY <1>4, <1>5 DEF StepOf
  <1>7. prep_tx(Zeros(size)) = <<p>>  BY <1>2 DEF prep_tx, p, ZeroTx
  <1>8. Walk(d, prep_tx(Zeros(size)), e)  BY <1>6, <1>7, WalkOne
  <1> QED  BY <1>2, <1>3, <1>4, <1>8 DEF d, e, p

(* A burst fits the DMA map.                                               *)
LEMMA BurstFits ==
    /\ BURST \in Nat /\ DMA_SIZE \in Nat /\ BURST <= DMA_SIZE
    /\ BURST \div BURST = 1
  <1>1. BURST \in Nat \ {0} /\ DMA_SIZE \in Nat  BY BoardAssumption
  <1>2. 1 * BURST = BURST /\ (1 * BURST) \div BURST = 1  BY <1>1, WholeBursts
  <1> DEFINE k == DMA_SIZE \div BURST
  <1>3. k \in Nat \ {0} /\ DMA_SIZE = k * BURST  BY MapBursts
  <1> HIDE DEF k
  <1>4. BURST <= k * BURST  BY <1>1, <1>3
  <1> QED  BY <1>1, <1>2, <1>3, <1>4

(* artix_setup_stim: the burst it sends is the one the test waits for.     *)
LEMMA SetupStimWalk ==
    ASSUME NEW u, NEW b, NEW st, NEW o, NEW m, NEW r, NEW f
    PROVE  \E e : /\ Walk(FirstView(u, b, st, HO(o, 0, NULL, m, r, f)), artix_setup_stim(u), e)
                  /\ Done(e, m, r)
  <1> DEFINE mc == MC({"IDLE"}, Whatever, Unknown, Unknown, FALSE)
             h  == HO(o, 0, NULL, m, r, f)
             h0 == HO(0, 0, NULL, m, r, f)
             h1 == HO(0 + BURST, 0, NULL, m, r, f)
             h2 == HO(0 + BURST, 0, ZeroTx(BURST), m, r, f)
             d  == FirstView(u, b, st, h)
             W(l, gv) == V(u, SC("idle", b), AG("IDLE", l), gv, mc, st, h)
             ts == GV("TEST_SETUP", "TEST_SETUP")
             X(x, k, hh) == V(u, SC(x, k), AG("GVPU_WRITE", "GVPU_WRITE"), ts, mc, st, hh)
             Y  == V(u, SC("quiet", 0), AG("IDLE", "GVPU_WRITE"), GV("IDLE", "TEST_SETUP"), mc, st,
                     h1)
             Z  == V(u, SC("idle", 0), AG("IDLE", "GVPU_RUN"), GV("IDLE", "TEST_CLEANUP"), mc, st,
                     h1)
             c1 == helper_gvpu_load(u, "TEST_INIT")
             c2 == c1 \o helper_gvpu_packet_write(u, Data("NUM_VECS"))
             c3 == c2 \o helper_gvpu_load(u, "TEST_SETUP")
             c4 == c3 \o helper_agent_load(u, "GVPU_WRITE")
             c5 == c4 \o gcore_dma_alloc_reset
             c6 == c5 \o subcore_prep_dma_write(u, 1)
             c7 == c6 \o gcore_dma_alloc(BURST)
             c8 == c7 \o prep_tx(Zeros(BURST))
             c9 == c8 \o gcore_dma_start
             c10 == c9 \o helper_gvpu_load(u, "TEST_CLEANUP")
  <1>0. artix_setup_stim(u) = c10  BY DEF artix_setup_stim, Zeros
  <1>1. Walk(d, c1, W("GVPU_RUN", GV("TEST_INIT", "TEST_INIT")))
    <2>1. "TEST_INIT" \in GvpuStates \ {"MEM_RUN"} /\ Entered("TEST_INIT") = "TEST_INIT"
      BY DEF GvpuStates, Entered
    <2> HIDE DEF h, mc
    <2>2. Walk(d, c1, W("GVPU_RUN", GV(Entered("TEST_INIT"), "TEST_INIT")))
      BY <2>1, GvpuLoad DEF FirstView, mc
    <2> QED  BY <2>1, <2>2
  <1>2. Walk(W("GVPU_RUN", GV("TEST_INIT", "TEST_INIT")),
             helper_gvpu_packet_write(u, Data("NUM_VECS")), W("GVPU_LOAD", GV("IDLE", "TEST_INIT")))
    BY TestTold
  <1>3. Walk(W("GVPU_LOAD", GV("IDLE", "TEST_INIT")), helper_gvpu_load(u, "TEST_SETUP"),
             W("GVPU_RUN", ts))
    <2>1. "TEST_SETUP" \in GvpuStates \ {"MEM_RUN"} /\ Entered("TEST_SETUP") = "TEST_SETUP"
      BY DEF GvpuStates, Entered
    <2> HIDE DEF h, mc
    <2>2. Walk(W("GVPU_LOAD", GV("IDLE", "TEST_INIT")), helper_gvpu_load(u, "TEST_SETUP"),
               W("GVPU_RUN", GV(Entered("TEST_SETUP"), "TEST_SETUP")))
      BY <2>1, GvpuLoad
    <2> QED  BY <2>1, <2>2
  <1>4. Walk(W("GVPU_RUN", ts), helper_agent_load(u, "GVPU_WRITE"), X("idle", b, h))
    BY AgentEnters DEF AgentStates
  <1>5. Walk(X("idle", b, h), gcore_dma_alloc_reset, X("idle", b, h0))  BY AllocWalk
  <1>6. Walk(X("idle", b, h0), subcore_prep_dma_write(u, 1), X("DMA_WRITE", 1, h0))
    <2>1. "idle" \in {"quiet", "idle"} /\ 1 \in Nat  OBVIOUS
    <2> HIDE DEF h0, mc, ts
    <2> QED  BY <2>1, PrepDmaWalk
  <1>7. Walk(X("DMA_WRITE", 1, h0), gcore_dma_alloc(BURST), X("DMA_WRITE", 1, h1))
    <2> HIDE DEF mc, ts
    <2> QED  BY AllocWalk, BurstFits
  <1>8. /\ ZeroTx(BURST) \in Transfers /\ Len(ZeroTx(BURST).data) = BURST
        /\ Walk(X("DMA_WRITE", 1, h1), prep_tx(Zeros(BURST)), X("DMA_WRITE", 1, h2))
    <2>1. 0 + BURST <= DMA_SIZE  BY BurstFits
    <2> HIDE DEF mc, ts
    <2> QED  BY <2>1, PrepZeros, BurstFits
  <1>9. Walk(X("DMA_WRITE", 1, h2), gcore_dma_start, Y)
    <2> DEFINE x == X("DMA_WRITE", 1, h2)
    <2>1. /\ x.unit = u /\ x.sc.st = "DMA_WRITE" /\ x.sc.bu = 1 /\ x.ag.st = "GVPU_WRITE"
          /\ x.ag.ld = "GVPU_WRITE" /\ x.gv.st = "TEST_SETUP" /\ x.gv.ld = "TEST_SETUP"
          /\ x.mc = mc /\ x.st = st /\ x.h = h2
      <3> HIDE DEF mc, h2
      <3> QED  BY DEF V, SC, AG, GV
    <2>2. h2.prep = ZeroTx(BURST) /\ NoPrep(h2, h2.mem, h2.read) = h1  BY DEF HO, NoPrep
    <2>3. ZeroTx(BURST).dir = "tx"  BY DEF ZeroTx
    <2> HIDE DEF x, mc, h1, h2
    <2>4. StepSetup(x, Y)  BY <1>8, <2>1, <2>2, <2>3, BurstFits DEF StepSetup
    <2>5. StepStart(x, Y)  BY <1>8, <2>1, <2>2, <2>4 DEF StepStart
    <2> HIDE DEF Y
    <2>6. StepOf(x, [op |-> "start"], Y)  BY <2>5 DEF StepOf
    <2> QED  BY <2>6, WalkOne DEF gcore_dma_start, x
  <1>10. Walk(Y, helper_gvpu_load(u, "TEST_CLEANUP"), Z)
    <2>1. "TEST_CLEANUP" \in GvpuStates \ {"MEM_RUN"} /\ Entered("TEST_CLEANUP") = "IDLE"
      BY DEF GvpuStates, Entered
    <2> HIDE DEF h1, mc
    <2>2. Walk(Y, helper_gvpu_load(u, "TEST_CLEANUP"),
               V(u, SC("idle", 0), AG("IDLE", "GVPU_RUN"), GV(Entered("TEST_CLEANUP"), "TEST_CLEANUP"),
                 mc, st, h1))
      BY <2>1, GvpuLoad
    <2> QED  BY <2>1, <2>2
  <1>11. Done(Z, m, r)  BY DEF Done, Resting, V, SC, AG, GV, MC, HO
  <1> HIDE DEF W, X, Y, Z, d, h, h0, h1, h2, mc, ts
  <1>12. Walk(d, c2, W("GVPU_LOAD", GV("IDLE", "TEST_INIT")))  BY <1>1, <1>2, WalkBoth
  <1>13. Walk(d, c3, W("GVPU_RUN", ts))  BY <1>3, <1>12, WalkBoth
  <1>14. Walk(d, c4, X("idle", b, h))  BY <1>4, <1>13, WalkBoth
  <1>15. Walk(d, c5, X("idle", b, h0))  BY <1>5, <1>14, WalkBoth
  <1>16. Walk(d, c6, X("DMA_WRITE", 1, h0))  BY <1>6, <1>15, WalkBoth
  <1>17. Walk(d, c7, X("DMA_WRITE", 1, h1))  BY <1>7, <1>16, WalkBoth
  <1>18. Walk(d, c8, X("DMA_WRITE", 1, h2))  BY <1>8, <1>17, WalkBoth
  <1>19. Walk(d, c9, Y)  BY <1>9, <1>18, WalkBoth
  <1>20. Walk(d, c10, Z)  BY <1>10, <1>19, WalkBoth
  <1> QED  BY <1>0, <1>11, <1>20 DEF d, h

(* The fail pins of one unit.                                              *)
LEMMA FailPinsWalk ==
    ASSUME NEW u, NEW b, NEW st, NEW o, NEW bf, NEW m, NEW r, NEW f
    PROVE  Walk(FirstView(u, b, st, HO(o, bf, NULL, m, r, f)), FailPins(u),
                V(u, SC("quiet", 0), AG("IDLE", "GVPU_READ"), GV("IDLE", "TEST_FAIL_PINS"),
                  MC({"IDLE"}, Whatever, Unknown, Unknown, FALSE), st,
                  HO(BURST, 0, NULL, m, r, f)))
  <1> DEFINE mc == MC({"IDLE"}, Whatever, Unknown, Unknown, FALSE)
             p  == [op |-> "prep", dir |-> "rx", to |-> 0, size |-> BURST]
             h  == HO(o, bf, NULL, m, r, f)
             h0 == HO(0, bf, NULL, m, r, f)
             h1 == HO(0 + BURST, 0, NULL, m, r, f)
             h2 == HO(0 + BURST, 0, p, m, r, f)
             d  == FirstView(u, b, st, h)
             fp == GV("TEST_FAIL_PINS", "TEST_FAIL_PINS")
             W  == V(u, SC("idle", b), AG("IDLE", "GVPU_RUN"), fp, mc, st, h)
             X(x, k, hh) == V(u, SC(x, k), AG("GVPU_READ", "GVPU_READ"), fp, mc, st, hh)
             Y  == V(u, SC("quiet", 0), AG("IDLE", "GVPU_READ"), GV("IDLE", "TEST_FAIL_PINS"), mc,
                     st, h1)
             c1 == helper_gvpu_load(u, "TEST_FAIL_PINS")
             c2 == c1 \o helper_agent_load(u, "GVPU_READ")
             c3 == c2 \o gcore_dma_alloc_reset
             c4 == c3 \o subcore_prep_dma_read(u, 1)
             c5 == c4 \o gcore_dma_alloc(BURST)
             c6 == c5 \o prep_rx(BURST, 0)
             c7 == c6 \o gcore_dma_start
  <1>1. Walk(d, c1, W)
    <2>1. /\ "TEST_FAIL_PINS" \in GvpuStates \ {"MEM_RUN"}
          /\ Entered("TEST_FAIL_PINS") = "TEST_FAIL_PINS"
      BY DEF GvpuStates, Entered
    <2> HIDE DEF h, mc
    <2>2. Walk(d, c1, V(u, SC("idle", b), AG("IDLE", "GVPU_RUN"),
                        GV(Entered("TEST_FAIL_PINS"), "TEST_FAIL_PINS"), mc, st, h))
      BY <2>1, GvpuLoad DEF FirstView, mc
    <2> QED  BY <2>1, <2>2
  <1>2. Walk(W, helper_agent_load(u, "GVPU_READ"), X("idle", b, h))
    BY AgentEnters DEF AgentStates
  <1>3. Walk(X("idle", b, h), gcore_dma_alloc_reset, X("idle", b, h0))  BY AllocWalk
  <1>4. Walk(X("idle", b, h0), subcore_prep_dma_read(u, 1), X("DMA_READ", 1, h0))
    <2>1. "idle" \in {"quiet", "idle"} /\ 1 \in Nat  OBVIOUS
    <2> HIDE DEF h0, mc, fp
    <2> QED  BY <2>1, PrepDmaWalk
  <1>5. Walk(X("DMA_READ", 1, h0), gcore_dma_alloc(BURST), X("DMA_READ", 1, h1))
    <2> HIDE DEF mc, fp
    <2> QED  BY AllocWalk, BurstFits
  <1>6. p \in Transfers /\ p.op = "prep" /\ p.dir = "rx" /\ p.size = BURST
    BY BurstFits DEF Transfers
  <1>7. Walk(X("DMA_READ", 1, h1), prep_rx(BURST, 0), X("DMA_READ", 1, h2))
    <2> DEFINE x == X("DMA_READ", 1, h1)
               y == X("DMA_READ", 1, h2)
    <2>1. 0 + BURST <= DMA_SIZE  BY BurstFits
    <2> HIDE DEF mc, fp, p
    <2>2. StepPrep(x, p, y)  BY <1>6, <2>1 DEF StepPrep, WithH, V, HO
    <2> HIDE DEF x, y
    <2>3. StepOf(x, p, y)  BY <1>6, <2>2 DEF StepOf
    <2> QED  BY <2>3, WalkOne DEF prep_rx, x, y, p
  <1>8. Walk(X("DMA_READ", 1, h2), gcore_dma_start, Y)
    <2> DEFINE x == X("DMA_READ", 1, h2)
    <2>1. /\ x.unit = u /\ x.sc.st = "DMA_READ" /\ x.sc.bu = 1 /\ x.ag.st = "GVPU_READ"
          /\ x.ag.ld = "GVPU_READ" /\ x.gv.st = "TEST_FAIL_PINS" /\ x.gv.ld = "TEST_FAIL_PINS"
          /\ x.mc = mc /\ x.st = st /\ x.h = h2
      <3> HIDE DEF mc, h2
      <3> QED  BY DEF V, SC, AG, GV
    <2>2. h2.prep = p /\ NoPrep(h2, h2.mem, h2.read) = h1
      <3> HIDE DEF p
      <3> QED  BY DEF HO, NoPrep
    <2>3. 1 * BURST >= BURST /\ 1 \in Nat  BY BurstFits
    <2> HIDE DEF x, mc, h1, h2, p
    <2>4. StepPins(x, Y)  BY <1>6, <2>1, <2>2, <2>3 DEF StepPins
    <2>5. StepStart(x, Y)  BY <1>6, <2>1, <2>2, <2>4 DEF StepStart
    <2> HIDE DEF Y
    <2>6. StepOf(x, [op |-> "start"], Y)  BY <2>5 DEF StepOf
    <2> QED  BY <2>6, WalkOne DEF gcore_dma_start, x
  <1>9. 0 + BURST = BURST  BY BurstFits
  <1> HIDE DEF W, X, Y, d, h, h0, h1, h2, mc, fp
  <1>10. Walk(d, c2, X("idle", b, h))  BY <1>1, <1>2, WalkBoth
  <1>11. Walk(d, c3, X("idle", b, h0))  BY <1>3, <1>10, WalkBoth
  <1>12. Walk(d, c4, X("DMA_READ", 1, h0))  BY <1>4, <1>11, WalkBoth
  <1>13. Walk(d, c5, X("DMA_READ", 1, h1))  BY <1>5, <1>12, WalkBoth
  <1>14. Walk(d, c6, X("DMA_READ", 1, h2))  BY <1>7, <1>13, WalkBoth
  <1>15. Walk(d, c7, Y)  BY <1>8, <1>14, WalkBoth
  <1> QED  BY <1>9, <1>15 DEF FailPins, d, h, Y, h1, mc

(* The sequence c starts with the command k.                               *)
StartsWith(c, k) == IsSeq(c) /\ c # <<>> /\ Head(c) = k

(* So does what is longer.                                                 *)
LEMMA StartsOn ==
    ASSUME NEW b, NEW c, NEW k, StartsWith(b, k), IsSeq(c)
    PROVE  StartsWith(b \o c, k)
  <1>1. PICK S, T : b \in Seq(S) /\ c \in Seq(T)  BY DEF StartsWith, IsSeq
  <1>2. b \in Seq(S \cup T) /\ c \in Seq(S \cup T)  BY <1>1
  <1>3. b \o c \in Seq(S \cup T) /\ Len(b) # 0 /\ Head(b) = b[1]  BY <1>2 DEF StartsWith
  <1>4. Len(b \o c) # 0 /\ (b \o c)[1] = b[1]  BY <1>2, <1>3
  <1>5. b \o c # <<>> /\ Head(b \o c) = (b \o c)[1]  BY <1>3, <1>4
  <1> QED  BY <1>3, <1>4, <1>5 DEF StartsWith, IsSeq

(* The fail pins begin with a look at the status of the unit.              *)
LEMMA FailPinsStarts ==
    ASSUME NEW u
    PROVE  StartsWith(FailPins(u), [op |-> "startup", unit |-> u])
  <1> DEFINE k == [op |-> "startup", unit |-> u]
  <1>1. \A c : IsSeq(<<c>>) /\ StartsWith(<<c>>, c)
    <2> TAKE c
    <2>1. <<c>> \in Seq({c}) /\ <<c>> # <<>> /\ Head(<<c>>) = c  OBVIOUS
    <2> QED  BY <2>1 DEF IsSeq, StartsWith
  <1>2. \A p, q, n, v, x :
            /\ IsSeq(gcore_dma_alloc_reset) /\ IsSeq(gcore_dma_alloc(n)) /\ IsSeq(prep_rx(n, q))
            /\ IsSeq(gcore_dma_start)
    BY <1>1 DEF gcore_dma_alloc_reset, gcore_dma_alloc, prep_rx, gcore_dma_start
  <1>3. ASSUME NEW s  PROVE StartsWith(helper_agent_load(u, s), k)
    <2> DEFINE c0 == Startup(u)
               c1 == c0 \o helper_subcore_load(u, "CTRL_WRITE")
               c2 == c1 \o subcore_write_packet(Data(s))
               c3 == c2 \o subcore_idle
               c4 == c3 \o helper_subcore_load(u, "CTRL_RUN")
    <2>0. StartsWith(c0, k)  BY <1>1 DEF Startup
    <2> HIDE DEF k
    <2>1. StartsWith(c1, k)  BY <2>0, StartsOn, HelpersAreSeqs
    <2>2. StartsWith(c2, k)  BY <2>1, StartsOn, HelpersAreSeqs
    <2>3. StartsWith(c3, k)  BY <2>2, StartsOn, HelpersAreSeqs
    <2>4. StartsWith(c4, k)  BY <2>3, StartsOn, HelpersAreSeqs
    <2> QED  BY <2>4, StartsOn, HelpersAreSeqs DEF helper_agent_load
  <1>4. ASSUME NEW s  PROVE StartsWith(helper_gvpu_load(u, s), k)
    <2> DEFINE c0 == helper_agent_load(u, "GVPU_LOAD")
               c1 == c0 \o helper_subcore_load(u, "CTRL_WRITE")
               c2 == c1 \o subcore_write_packet(Data(s))
               c3 == c2 \o subcore_idle
               c4 == c3 \o helper_agent_load(u, "GVPU_RUN")
    <2> HIDE DEF k
    <2>1. StartsWith(c1, k)  BY <1>3, StartsOn, HelpersAreSeqs
    <2>2. StartsWith(c2, k)  BY <2>1, StartsOn, HelpersAreSeqs
    <2>3. StartsWith(c3, k)  BY <2>2, StartsOn, HelpersAreSeqs
    <2>4. StartsWith(c4, k)  BY <2>3, StartsOn, HelpersAreSeqs
    <2> QED  BY <2>4, StartsOn, HelpersAreSeqs DEF helper_gvpu_load, helper_gvpu_packet_write
  <1>5. \A n : IsSeq(subcore_prep_dma_read(u, n))
    <2> TAKE n
    <2> DEFINE c1 == subcore_idle \o helper_subcore_load(u, "SETUP_BURST")
               c2 == c1 \o subcore_write_packet(Data(n))
               c3 == c2 \o subcore_idle
    <2>1. IsSeq(c1)  BY HelpersAreSeqs, SeqBoth
    <2>2. IsSeq(c2)  BY <2>1, HelpersAreSeqs, SeqBoth
    <2>3. IsSeq(c3)  BY <2>2, HelpersAreSeqs, SeqBoth
    <2> QED  BY <2>3, HelpersAreSeqs, SeqBoth DEF subcore_prep_dma_read, SetupBurst
  <1> DEFINE c1 == helper_gvpu_load(u, "TEST_FAIL_PINS")
             c2 == c1 \o helper_agent_load(u, "GVPU_READ")
             c3 == c2 \o gcore_dma_alloc_reset
             c4 == c3 \o subcore_prep_dma_read(u, 1)
             c5 == c4 \o gcore_dma_alloc(BURST)
             c6 == c5 \o prep_rx(BURST, 0)
  <1> HIDE DEF k
  <1>6. StartsWith(c2, k)  BY <1>4, StartsOn, HelpersAreSeqs
  <1>7. StartsWith(c3, k)  BY <1>2, <1>6, StartsOn
  <1>8. StartsWith(c4, k)  BY <1>5, <1>7, StartsOn
  <1>9. StartsWith(c5, k)  BY <1>2, <1>8, StartsOn
  <1>10. StartsWith(c6, k)  BY <1>2, <1>9, StartsOn
  <1> QED  BY <1>2, <1>10, StartsOn DEF FailPins, k

(* A walk that begins with the status of a unit may begin while the other  *)
(* unit is addressed, if that one rests.                                   *)
LEMMA SwitchWalk ==
    ASSUME NEW u \in Units, NEW b, NEW st, NEW h, NEW c, NEW e, NEW d,
           Walk(FirstView(u, b, st, h), c, e), StartsWith(c, [op |-> "startup", unit |-> u]),
           d.unit # u, d.sc.st \in {"quiet", "idle"}, d.sc.bu = b, Resting(d), d.st = st, d.h = h
    PROVE  Walk(d, c, e)
  <1> DEFINE k == [op |-> "startup", unit |-> u]
             v == FirstView(u, b, st, h)
  <1>1. c # <<>> /\ Head(c) = k /\ IsSeq(c)  BY DEF StartsWith
  <1>2. PICK g : StepOf(v, k, g) /\ Walk(g, Tail(c), e)
    <2> HIDE DEF v, k
    <2> QED  BY <1>1, WalkOn DEF v
  <1>3. v.sc = SC("quiet", b) /\ v.unit = u /\ WithSC(v, "quiet") = v
    BY DEF FirstView, WithSC, V, SC
  <1>4. v.sc.st = "quiet" /\ v # Stuck
    <2>1. v.sc.st = "quiet"  BY <1>3 DEF SC
    <2>2. Stuck.sc.st = "stuck"  BY DEF Stuck, V, SC
    <2> QED  BY <2>1, <2>2
  <1>5. k.op = "startup" /\ k.unit = u  OBVIOUS
  <1> HIDE DEF v, k
  <1>6. g = v
    BY <1>2, <1>3, <1>4, <1>5 DEF StepOf, StepStartup, StepAlloc
  <1>7. StepStartup(d, k, v)  BY <1>5 DEF StepStartup, v, FirstView
  <1>8. StepOf(d, k, v)  BY <1>5, <1>7 DEF StepOf
  <1>9. Walk(d, <<k>>, v)  BY <1>8, WalkOne
  <1>10. Walk(d, <<k>> \o Tail(c), e)  BY <1>2, <1>6, <1>9, WalkBoth
  <1>11. <<k>> \o Tail(c) = c
    <2>1. PICK S : c \in Seq(S)  BY <1>1 DEF IsSeq
    <2>2. /\ Tail(c) \in Seq(S) /\ Len(Tail(c)) = Len(c) - 1 /\ Len(c) \in Nat \ {0} /\ c[1] = k
          /\ \A i \in 1 .. Len(c) - 1 : Tail(c)[i] = c[i + 1]
          /\ k \in S
      BY <1>1, <2>1
    <2>3. <<k>> \in Seq(S) /\ Len(<<k>>) = 1 /\ <<k>>[1] = k  BY <2>2
    <2> DEFINE t == Tail(c)
               l == <<k>>
    <2> HIDE DEF t, l
    <2>4. /\ l \o t \in Seq(S) /\ Len(l \o t) = Len(c)
          /\ \A i \in 1 .. Len(c) : (l \o t)[i] = IF i = 1 THEN l[1] ELSE t[i - 1]
      BY <2>2, <2>3 DEF t, l
    <2>5. \A i \in 1 .. Len(c) : (l \o t)[i] = c[i]
      <3> TAKE i \in 1 .. Len(c)
      <3>1. CASE i = 1  BY <2>2, <2>3, <2>4, <3>1 DEF l
      <3>2. CASE i # 1
        <4>1. i - 1 \in 1 .. Len(c) - 1 /\ (i - 1) + 1 = i  BY <2>2, <3>2
        <4> QED  BY <2>2, <2>4, <3>2, <4>1 DEF t
      <3> QED  BY <3>1, <3>2
    <2> DEFINE x == l \o t
    <2>6. x = c
      <3> HIDE DEF x
      <3>1. x \in Seq(S) /\ Len(x) = Len(c) /\ \A i \in 1 .. Len(c) : x[i] = c[i]
        BY <2>4, <2>5 DEF x
      <3> QED  BY <2>1, <3>1
    <2> QED  BY <2>6 DEF l, t
  <1> QED  BY <1>10, <1>11

(* artix_get_stim_fail_pins: one unit after the other.                     *)
LEMMA FailPinsCallWalk ==
    ASSUME NEW b, NEW st, NEW o, NEW m, NEW r, NEW f
    PROVE  \E e : /\ Walk(FirstView("a1", b, st, HO(o, 0, NULL, m, r, f)),
                          artix_get_stim_fail_pins, e)
                  /\ Done(e, m, r)
  <1> DEFINE E(u) == V(u, SC("quiet", 0), AG("IDLE", "GVPU_READ"), GV("IDLE", "TEST_FAIL_PINS"),
                       MC({"IDLE"}, Whatever, Unknown, Unknown, FALSE), st,
                       HO(BURST, 0, NULL, m, r, f))
             d == FirstView("a1", b, st, HO(o, 0, NULL, m, r, f))
             h == HO(BURST, 0, NULL, m, r, f)
             x == FirstView("a2", 0, st, h)
  <1>1. Walk(d, FailPins("a1"), E("a1"))  BY FailPinsWalk
  <1>2. Walk(x, FailPins("a2"), E("a2"))  BY FailPinsWalk
  <1>3. /\ E("a1").unit # "a2" /\ E("a1").sc.st \in {"quiet", "idle"} /\ E("a1").sc.bu = 0
        /\ Resting(E("a1")) /\ E("a1").st = st /\ E("a1").h = h
    BY DEF Resting, V, SC, AG, GV, MC
  <1>4. Done(E("a2"), m, r)  BY DEF Done, Resting, V, SC, AG, GV, MC, HO
  <1>5. "a2" \in Units  BY DEF Units
  <1> HIDE DEF E, d, h
  <1>6. Walk(E("a1"), FailPins("a2"), E("a2"))  BY <1>2, <1>3, <1>5, FailPinsStarts, SwitchWalk
  <1>7. Walk(d, artix_get_stim_fail_pins, E("a2"))
    BY <1>1, <1>6, WalkBoth DEF artix_get_stim_fail_pins
  <1> QED  BY <1>4, <1>7 DEF d

(* artix_config: the buffer lies in the DMA map if it is the first one.    *)
LEMMA ConfigWalk ==
    ASSUME NEW u, NEW b, NEW st, NEW o, NEW m, NEW r, NEW f, f \/ o = 0
    PROVE  \E e : /\ Walk(FirstView(u, b, st, HO(o, 0, NULL, m, r, f)),
                          artix_config(u, DMA_SIZE), e)
                  /\ Done(e, m, r)
  <1> DEFINE mc == MC({"IDLE"}, Whatever, Unknown, Unknown, FALSE)
             h  == HO(o, 0, NULL, m, r, f)
             h1 == HO(o + DMA_SIZE, o, NULL, m, r, f)
             h2 == HO(o + DMA_SIZE, o, ZeroTx(DMA_SIZE), m, r, f)
             d  == FirstView(u, b, st, h)
             W(x, hh) == V(u, SC(x, b), AG("IDLE", Whatever), GV("IDLE", Whatever), mc, st, hh)
             Y(x) == V(u, SC(x, b), AG("IDLE", "IDLE"), GV("IDLE", Whatever), mc, st, h1)
             c1 == gcore_dma_alloc(DMA_SIZE)
             c2 == c1 \o helper_subcore_load(u, "CONFIG_SETUP")
             c3 == c2 \o CheckInit
             c4 == c3 \o prep_tx(Zeros(DMA_SIZE))
             c5 == c4 \o gcore_dma_start
             c6 == c5 \o subcore_idle
  <1>0. artix_config(u, DMA_SIZE) = c6  BY DEF artix_config, Zeros
  <1>1. Walk(d, c1, W("quiet", h1))
    <2> HIDE DEF mc
    <2> QED  BY AllocWalk, BurstFits DEF FirstView, mc
  <1>2. Walk(W("quiet", h1), helper_subcore_load(u, "CONFIG_SETUP"), W("CONFIG_SETUP", h1))
    BY LoadWalk DEF Loads
  <1>3. Walk(W("CONFIG_SETUP", h1), CheckInit, W("CONFIG_SETUP", h1))
    <2> DEFINE x == W("CONFIG_SETUP", h1)
    <2>1. x.h.prep = NULL  BY DEF V, HO
    <2> HIDE DEF x
    <2>2. StepOf(x, [op |-> "check_init"], x)  BY <2>1 DEF StepOf
    <2> QED  BY <2>2, WalkOne DEF CheckInit, x
  <1>4. /\ ZeroTx(DMA_SIZE) \in Transfers
        /\ Walk(W("CONFIG_SETUP", h1), prep_tx(Zeros(DMA_SIZE)), W("CONFIG_SETUP", h2))
    <2>1. f \/ o + DMA_SIZE <= DMA_SIZE  BY BurstFits
    <2> HIDE DEF mc
    <2> QED  BY <2>1, PrepZeros, BurstFits
  <1>5. Walk(W("CONFIG_SETUP", h2), gcore_dma_start, Y("quiet"))
    <2> DEFINE x == W("CONFIG_SETUP", h2)
               y == Y("quiet")
    <2>1. /\ x.unit = u /\ x.sc.st = "CONFIG_SETUP" /\ x.sc.bu = b
          /\ x.gv.ld = Whatever /\ x.mc = mc /\ x.st = st /\ x.h = h2
      <3> HIDE DEF mc, h2
      <3> QED  BY DEF V, SC, AG, GV
    <2>2. MC({"IDLE"}, mc.ld, mc.addr, mc.left, mc.rd) = mc  BY DEF MC
    <2>3. h2.prep = ZeroTx(DMA_SIZE) /\ NoPrep(h2, h2.mem, h2.read) = h1  BY DEF HO, NoPrep
    <2>4. ZeroTx(DMA_SIZE).dir = "tx"  BY DEF ZeroTx
    <2> HIDE DEF x, mc, h1, h2
    <2>5. StepConfig(x, y)  BY <2>1, <2>2, <2>3, <2>4 DEF StepConfig
    <2>6. StepStart(x, y)  BY <1>4, <2>1, <2>3, <2>5 DEF StepStart
    <2> HIDE DEF y
    <2>7. StepOf(x, [op |-> "start"], y)  BY <2>6 DEF StepOf
    <2> QED  BY <2>7, WalkOne DEF gcore_dma_start, x, y
  <1>6. Walk(Y("quiet"), subcore_idle, Y("idle"))  BY IdleWalk
  <1>7. Done(Y("idle"), m, r)  BY DEF Done, Resting, V, SC, AG, GV, MC, HO
  <1> HIDE DEF W, Y, d, h, h1, h2, mc
  <1>8. Walk(d, c2, W("CONFIG_SETUP", h1))  BY <1>1, <1>2, WalkBoth
  <1>9. Walk(d, c3, W("CONFIG_SETUP", h1))  BY <1>3, <1>8, WalkBoth
  <1>10. Walk(d, c4, W("CONFIG_SETUP", h2))  BY <1>4, <1>9, WalkBoth
  <1>11. Walk(d, c5, Y("quiet"))  BY <1>5, <1>10, WalkBoth
  <1>12. Walk(d, c6, Y("idle"))  BY <1>6, <1>11, WalkBoth
  <1> QED  BY <1>0, <1>7, <1>12 DEF d, h

(* The GPIO calls.                                                         *)
LEMMA GpioCallWalk ==
    ASSUME NEW u, NEW b, NEW st, NEW o, NEW m, NEW r, NEW f,
           NEW c \in {helper_subcore_set_boot_done, helper_subcore_set_led,
                      helper_subcore_get_dna_id}
    PROVE  \E e : /\ Walk(FirstView(u, b, st, HO(o, 0, NULL, m, r, f)), c, e)
                  /\ Done(e, m, r)
  <1> DEFINE h == HO(o, 0, NULL, m, r, f)
             d == FirstView(u, b, st, h)
             W(x) == V(u, SC(x, b), AG("IDLE", Whatever), GV("IDLE", Whatever),
                       MC({"IDLE"}, Whatever, Unknown, Unknown, FALSE), st, h)
             g == helper_subcore_load(NULL, "GPIO_DNA")
  <1>1. Walk(d, g, W("GPIO_DNA"))  BY GpioWalk DEF FirstView
  <1>2. Walk(W("quiet"), subcore_idle, W("idle"))  BY IdleWalk
  <1>3. W("GPIO_DNA").sc.st = "GPIO_DNA" /\ WithSC(W("GPIO_DNA"), "quiet") = W("quiet")
    BY DEF WithSC, V, SC
  <1>4. Done(W("idle"), m, r)  BY DEF Done, Resting, V, SC, AG, GV, MC, HO
  <1> HIDE DEF d, W, g
  <1>5. ASSUME NEW s, s # "GET_DNA"  PROVE Walk(d, Gpio(s) \o subcore_idle, W("idle"))
    <2>1. StepWrite(W("GPIO_DNA"), Data(s), W("quiet"))
      BY <1>3, <1>5 DEF StepWrite, Data
    <2>2. StepOf(W("GPIO_DNA"), [op |-> "write", packet |-> Data(s)], W("quiet"))
      BY <2>1 DEF StepOf
    <2>3. Walk(W("GPIO_DNA"), subcore_write_packet(Data(s)), W("quiet"))
      BY <2>2, WalkOne DEF subcore_write_packet
    <2>4. Walk(d, Gpio(s), W("quiet"))  BY <1>1, <2>3, WalkBoth DEF Gpio, g
    <2> QED  BY <1>2, <2>4, WalkBoth
  <1>6. Walk(d, helper_subcore_get_dna_id, W("idle"))
    <2>1. StepWrite(W("GPIO_DNA"), Data("GET_DNA"), W("GPIO_DNA"))
      BY <1>3 DEF StepWrite, Data
    <2>2. StepOf(W("GPIO_DNA"), [op |-> "write", packet |-> Data("GET_DNA")], W("GPIO_DNA"))
      BY <2>1 DEF StepOf
    <2>3. Walk(W("GPIO_DNA"), subcore_write_packet(Data("GET_DNA")), W("GPIO_DNA"))
      BY <2>2, WalkOne DEF subcore_write_packet
    <2>4. Walk(d, Gpio("GET_DNA"), W("GPIO_DNA"))  BY <1>1, <2>3, WalkBoth DEF Gpio, g
    <2>5. StepOf(W("GPIO_DNA"), [op |-> "read"], W("quiet"))  BY <1>3 DEF StepOf, StepRead
    <2>6. Walk(W("GPIO_DNA"), subcore_read_packet, W("quiet"))
      BY <2>5, WalkOne DEF subcore_read_packet
    <2>7. Walk(d, Gpio("GET_DNA") \o subcore_read_packet, W("quiet"))  BY <2>4, <2>6, WalkBoth
    <2> QED  BY <1>2, <2>7, WalkBoth DEF helper_subcore_get_dna_id
  <1>7. Walk(d, c, W("idle"))
    BY <1>5, <1>6 DEF helper_subcore_set_boot_done, helper_subcore_set_led
  <1> QED  BY <1>4, <1>7 DEF d, h

=============================================================================
