---------------------------- MODULE StimUse_proofs ----------------------------
(***************************************************************************)
(* Proofs about StimUse, for every pattern length, chunk size, selection   *)
(* of units and set of load addresses: the library's two users of the      *)
(* chunk reader keep to its rules, and what they write is the pattern.     *)
(***************************************************************************)
EXTENDS StimUse, StimChunks_proofs

-----------------------------------------------------------------------------
(* The inductive invariant                                                 *)

(* The stim and the file are never shorter than the pattern, longer than   *)
(* the dots has grown, or past the limit of init_stim.                     *)
Lengths ==
    /\ NumVecs <= num_vecs /\ num_vecs <= MAX_NUM_VECS
    /\ file # NULL => /\ file.num_vecs \in NumVecs .. num_dots_vecs
                      /\ file.num_vecs <= MAX_NUM_VECS

(* The units whose chunks the call under way has finished.                 *)
Finished(u) == u = "a1" /\ call.unit = "a2"

(* During a call only its unit is part way through, and the chunks still   *)
(* to come are read on a first pass if they come from a dots.              *)
ReadsAlone ==
    call.op # "none" =>
        /\ call.unit \in Selected
        /\ cur_vec_chunk_id[Other(call.unit)] = -1
        /\ stim_type = "dots" => \A u \in Selected : ~Finished(u) => pass[u] = 0

(* artix_load_stim has counted what the reader has handed out.             *)
LoadCounts ==
    call.op = "load" =>
        /\ call = [op |-> "load", unit |-> call.unit, addr |-> call.addr,
                   num_loaded |-> call.num_loaded]
        /\ call.addr \in [Units -> Addrs]
        /\ call.num_loaded = Delivered(call.unit)

(* stim_serialize_to_path has every chunk handed out so far in its message.*)
MessageGrows ==
    call.op = "serialize" =>
        /\ call = [op |-> "serialize", unit |-> call.unit, images |-> call.images]
        /\ call.images = [u \in Units |-> call.images[u]]
        /\ \A u \in Units :
              /\ DOMAIN call.images[u] = UnitChunkIds(num_vecs, u)
              /\ \A i \in UnitChunkIds(num_vecs, u) :
                    \/ Finished(u)
                    \/ u = call.unit /\ i <= cur_vec_chunk_id[u]
                    => call.images[u][i] = LZ4_compress(PatternChunk(num_vecs, i))

(* The reader is at rest between calls, as its chunk ids say it.           *)
AtRest == call.op = "none" => \A u \in Units : cur_vec_chunk_id[u] = -1

(* Tester memory holds vectors.                                            *)
MemType == mem \in [Units -> [0 .. MemVecs - 1 -> Vec]]

CallOps == call.op \in {"none", "load", "serialize"}

UseInv ==
    /\ IInv
    /\ CallOps
    /\ Lengths
    /\ AtRest
    /\ ReadsAlone
    /\ LoadCounts
    /\ MessageGrows
    /\ FileIsPattern
    /\ MemType

-----------------------------------------------------------------------------
(* What the calls see of the reader                                        *)

(* The first unit of a call is selected, and a unit that is not the last   *)
(* is a1 and followed by a2.                                               *)
LEMMA UnitOrder ==
    /\ FirstUnit \in Selected
    /\ \A u \in Selected : /\ u \in Units
                           /\ ~IsLastUnit(u) => u = "a1" /\ "a2" \in Selected
                           /\ IsLastUnit(u) => u = "a2" \/ Selected = {"a1"}
    /\ FirstUnit = "a2" => "a1" \notin Selected
  <1>1. Selected \subseteq Units /\ Selected # {}  BY StimAssumption
  <1> QED  BY <1>1 DEF FirstUnit, IsLastUnit, Units

(* A turn of stim_load_next_chunk that ends the pass over unit u: all of   *)
(* the padded pattern has been handed out.                                 *)
TurnEnds(u) ==
    /\ alive' /\ cur_vec_chunk_id'[u] = -1
    /\ cur_vec_chunk_id' = [cur_vec_chunk_id EXCEPT ![u] = -1]
    /\ cur_vec_chunk_id[u] = NumVecChunks(num_vecs) - 1
    /\ Delivered(u) = PaddedVecs(num_vecs)
    /\ pass' = [pass EXCEPT ![u] = @ + 1]
    /\ UNCHANGED <<num_dots_vecs, stim_type, num_vecs>>

(* A turn that hands out chunk i, the next slice of the padded pattern.    *)
TurnLoads(u, i) ==
    /\ alive' /\ cur_vec_chunk_id'[u] = i /\ i # -1
    /\ i = cur_vec_chunk_id[u] + 1
    /\ cur_vec_chunk_id' = [cur_vec_chunk_id EXCEPT ![u] = i]
    /\ vec_chunks'[u][i].vec_data = PatternChunk(num_vecs, i)
    /\ vec_chunks'[u][i].num_vecs = ChunkNumVecs(num_vecs, i)
    /\ Delivered(u) = i * VecsPerChunk
    /\ Delivered(u)' = Delivered(u) + ChunkNumVecs(num_vecs, i)
    /\ num_dots_vecs <= num_dots_vecs'
    /\ UNCHANGED <<stim_type, num_vecs, pass>>

(* stim_load_next_chunk as a call meets it, when the other unit is at rest *)
(* and the pass is a first one: it dies, ends the pass or hands out the    *)
(* next chunk.                                                             *)
LEMMA ReaderTurn ==
    ASSUME IInv, NEW u \in Selected, cur_vec_chunk_id[Other(u)] = -1,
           stim_type = "dots" => pass[u] = 0, stim_load_next_chunk(u)
    PROVE  \/ die
           \/ TurnEnds(u)
           \/ \E i \in UnitChunkIds(num_vecs, u) : TurnLoads(u, i)
  <1>1. /\ u \in Units /\ TypeOK /\ num_vecs \in Nat \ {0} /\ alive
        /\ cur_vec_chunk_id \in [Units -> Int]
    BY StimAssumption, SMTT(30) DEF IInv, TypeOK, stim_load_next_chunk
  <1>2. /\ NumChunks(u) \in Nat \ {0} /\ NumChunks(u) = NumVecChunks(num_vecs)
        /\ UnitChunkIds(num_vecs, u) = 0 .. NumChunks(u) - 1
    BY <1>1, UnitChunks, Geometry
  <1>3. CASE EndPass(u)
    <2>1. /\ cur_vec_chunk_id[u] = NumChunks(u) - 1 /\ NextChunkId(u) = -1
          /\ cur_vec_chunk_id' = [cur_vec_chunk_id EXCEPT ![u] = NextChunkId(u)]
          /\ pass' = [pass EXCEPT ![u] = @ + 1]
          /\ UNCHANGED <<num_dots_vecs, stim_type, num_vecs, alive>>
      BY <1>3 DEF EndPass, dotsVars, NextChunkId
    <2>2. Delivered(u) = PaddedVecs(num_vecs)
      <3>1. cur_vec_chunk_id[u] # -1  BY <2>1, <1>2, SMT
      <3> QED  BY <3>1, <2>1 DEF Delivered
    <2>3. cur_vec_chunk_id'[u] = -1  BY <2>1, <1>1
    <2> QED  BY <2>1, <2>2, <2>3, <1>1, <1>2 DEF TurnEnds
  <1>4. CASE LoadChunk(u)
    <2> DEFINE i == NextChunkId(u)
    <2>1. /\ cur_vec_chunk_id[u] # NumChunks(u) - 1
          /\ cur_vec_chunk_id' = [cur_vec_chunk_id EXCEPT ![u] = i]
          /\ UNCHANGED <<stim_type, num_vecs, pass, alive>>
      BY <1>4 DEF LoadChunk
    <2>2. /\ i = cur_vec_chunk_id[u] + 1 /\ i \in Nat
          /\ i \in UnitChunkIds(num_vecs, u) /\ i \in ChunkIds(num_vecs)
          /\ (i * VecsPerChunk) + ChunkNumVecs(num_vecs, i)
                = IF i = NumChunks(u) - 1 THEN PaddedVecs(num_vecs)
                  ELSE (i + 1) * VecsPerChunk
      BY <2>1, <1>1, NextChunkFacts
    <2>3. /\ vec_chunks'[u][i] \in VecChunk(num_vecs, i)
          /\ vec_chunks'[u][i].vec_data = PatternChunk(num_vecs, i)
          /\ num_dots_vecs <= num_dots_vecs'
      BY <1>1, <1>4, LoadedChunk
    <2>4. vec_chunks'[u][i].num_vecs = ChunkNumVecs(num_vecs, i)
      BY <2>3 DEF VecChunk
    <2>5. cur_vec_chunk_id'[u] = i /\ i # -1
      <3>1. cur_vec_chunk_id'[u] = i  BY <2>1, <1>1
      <3>2. i # -1  BY <2>2, SMT
      <3> QED  BY <3>1, <3>2
    <2>6. Delivered(u) = i * VecsPerChunk
      <3>1. CASE cur_vec_chunk_id[u] = -1
        <4>1. i = 0  BY <3>1, <2>2, SMT
        <4>2. i * VecsPerChunk = 0
          <5> HIDE DEF i
          <5> QED  BY <4>1, ChunkSizeType, SMT
        <4> QED  BY <4>2, <3>1 DEF Delivered
      <3>2. CASE cur_vec_chunk_id[u] # -1
        BY <3>2, <2>1, <2>2 DEF Delivered
      <3> QED  BY <3>1, <3>2
    <2>7. Delivered(u)' = Delivered(u) + ChunkNumVecs(num_vecs, i)
      <3>1. NumChunks(u)' = NumChunks(u) /\ num_vecs' = num_vecs
        BY <2>1 DEF NumChunks
      <3>2. Delivered(u)' = IF i = NumChunks(u) - 1 THEN PaddedVecs(num_vecs)
                            ELSE (i + 1) * VecsPerChunk
        <4> HIDE DEF i
        <4> QED  BY <3>1, <2>5 DEF Delivered
      <3> QED  BY <3>2, <2>2, <2>6
    <2> HIDE DEF i
    <2>8. TurnLoads(u, i)
      BY <2>1, <2>2, <2>3, <2>4, <2>5, <2>6, <2>7, <1>1 DEF TurnLoads
    <2> QED  BY <2>2, <2>8
  <1>5. CASE LoadRefused(u) \/ FillDies(u)
    BY <1>5, <1>1 DEF LoadRefused, FillDies
  <1> QED  BY <1>3, <1>4, <1>5 DEF stim_load_next_chunk

-----------------------------------------------------------------------------
(* The library is a client of the reader                                   *)

(* A stim opened from a file the library wrote has the chunks StimChunks   *)
(* gives a raw stim.                                                       *)
LEMMA FileOpens ==
    ASSUME FileIsPattern, file # NULL
    PROVE  deserialize_chunk = stim_deserialize(file.num_vecs)
  <1>1. ASSUME NEW u \in Units
        PROVE  [i \in DOMAIN file.images[u] |->
                   create_vec_chunk(ChunkNumVecs(file.num_vecs, i), file.images[u][i])]
               = [i \in UnitChunkIds(file.num_vecs, u) |->
                     create_vec_chunk(ChunkNumVecs(file.num_vecs, i),
                                      LZ4_compress(PatternChunk(file.num_vecs, i)))]
    <2>1. /\ DOMAIN file.images[u] = UnitChunkIds(file.num_vecs, u)
          /\ \A i \in UnitChunkIds(file.num_vecs, u) :
                file.images[u][i] = LZ4_compress(PatternChunk(file.num_vecs, i))
      BY DEF FileIsPattern
    <2> QED  BY <2>1
  <1> QED  BY <1>1 DEF deserialize_chunk, stim_deserialize

(* Every step of the library is a step of StimChunks' client, or the end   *)
(* of the process, or leaves the reader alone.                             *)
LEMMA ReaderStep ==
    ASSUME UseInv, [UseNext]_useVars
    PROVE  [Next \/ die]_vars
  <1>1. ASSUME NEW addr \in [Units -> Addrs], BeginLoad(addr)  PROVE [Next \/ die]_vars
    BY <1>1 DEF BeginLoad
  <1>2. CASE LoadStep \/ stim_serialize_chunk
    <2>1. call.op # "none" /\ stim_load_next_chunk(call.unit)
      BY <1>2 DEF LoadStep, stim_serialize_chunk
    <2>2. call.unit \in Units  BY <2>1, StimAssumption DEF UseInv, ReadsAlone
    <2> QED  BY <2>1, <2>2 DEF Next
  <1>3. CASE BeginSerialize
    BY <1>3 DEF BeginSerialize
  <1>4. CASE OpenFile
    <2>1. file.num_vecs \in NumVecs .. num_dots_vecs
      BY <1>4 DEF OpenFile, UseInv, Lengths
    <2>2. deserialize_chunk = stim_deserialize(file.num_vecs)
      BY <1>4, FileOpens DEF OpenFile, UseInv
    <2>3. get_stim_by_path(file.num_vecs)
      BY <1>4, <2>2 DEF OpenFile, get_stim_by_path
    <2> QED  BY <2>1, <2>3 DEF Next
  <1>5. CASE RemakeStim
    BY <1>5 DEF RemakeStim, Next
  <1>6. CASE UNCHANGED useVars
    BY <1>6 DEF useVars
  <1> QED  BY <1>1, <1>2, <1>3, <1>4, <1>5, <1>6 DEF UseNext

(* So the invariant of StimChunks is kept.                                 *)
LEMMA ReaderInv ==
    ASSUME IInv, [Next \/ die]_vars
    PROVE  IInv'
  <1>1. CASE die
    BY <1>1, StutterStep DEF die, dotsVars, stimVars
  <1> QED  BY <1>1, NextInv

-----------------------------------------------------------------------------
(* The steps between and at the edges of calls                             *)

(* Steps that leave the stim, the call and the file alone.                 *)
LEMMA QuietUse ==
    ASSUME UseInv, IInv', UNCHANGED <<num_dots_vecs, stimVars, pass, call, file, mem>>
    PROVE  UseInv'
  <1>1. Lengths' /\ AtRest' /\ ReadsAlone' /\ CallOps' /\ MemType'
    BY DEF UseInv, Lengths, AtRest, ReadsAlone, CallOps, MemType, stimVars, Finished
  <1>2. LoadCounts' /\ MessageGrows' /\ FileIsPattern'
    BY DEF UseInv, LoadCounts, MessageGrows, FileIsPattern, stimVars, Finished,
           Delivered, NumChunks
  <1> QED  BY <1>1, <1>2 DEF UseInv

(* The start of a call: the reader is at rest and nothing is counted yet.  *)
LEMMA BeginStep ==
    ASSUME UseInv, IInv', UNCHANGED <<vars, mem>>, call.op = "none", MayRead,
           \/ /\ UNCHANGED file
              /\ \E addr \in [Units -> Addrs] :
                    call' = [op |-> "load", unit |-> FirstUnit, addr |-> addr,
                             num_loaded |-> 0]
           \/ /\ file' = NULL
              /\ call' = [op |-> "serialize", unit |-> FirstUnit, images |-> NoImages]
    PROVE  UseInv'
  <1>1. \A u \in Units : cur_vec_chunk_id[u] = -1  BY DEF UseInv, AtRest
  <1>2. /\ num_vecs' = num_vecs /\ cur_vec_chunk_id' = cur_vec_chunk_id
        /\ pass' = pass /\ stim_type' = stim_type /\ num_dots_vecs' = num_dots_vecs
    BY DEF vars
  <1>3. call'.unit = FirstUnit /\ FirstUnit \in Selected /\ FirstUnit \in Units
    BY UnitOrder
  <1>4. CallOps' /\ AtRest' /\ MemType' /\ call'.op # "none"
    BY DEF CallOps, AtRest, MemType, UseInv
  <1>5. FileIsPattern' /\ Lengths'
    BY <1>2 DEF UseInv, FileIsPattern, Lengths
  <1>6. ReadsAlone'
    <2>1. ASSUME stim_type = "dots", NEW u \in Selected  PROVE pass[u] = 0
      <3>1. pass[u] < 1 /\ pass[u] \in Nat
        BY <2>1, StimAssumption DEF MayRead, UseInv, IInv, TypeOK
      <3> QED  BY <3>1, SMT
    <2>2. Other(FirstUnit) \in Units  BY <1>3, OtherFacts
    <2> QED  BY <1>1, <1>2, <1>3, <2>1, <2>2 DEF ReadsAlone
  <1>7. LoadCounts'
    <2>1. Delivered(FirstUnit) = 0  BY <1>1, <1>3 DEF Delivered
    <2>2. Delivered(FirstUnit)' = 0  BY <2>1, <1>2 DEF Delivered, NumChunks
    <2>3. ASSUME call'.op = "load"
          PROVE  \E addr \in [Units -> Addrs] :
                    call' = [op |-> "load", unit |-> FirstUnit, addr |-> addr,
                             num_loaded |-> 0]
      BY <2>3
    <2>4. ASSUME call'.op = "load"
          PROVE  /\ call' = [op |-> "load", unit |-> call'.unit, addr |-> call'.addr,
                             num_loaded |-> call'.num_loaded]
                 /\ call'.addr \in [Units -> Addrs]
                 /\ call'.num_loaded = 0
      BY <2>3, <2>4
    <2>5. Delivered(call.unit)' = 0
      <3>1. cur_vec_chunk_id'[call'.unit] = -1  BY <1>1, <1>2, <1>3
      <3> QED  BY <3>1 DEF Delivered
    <2> QED  BY <2>4, <2>5 DEF LoadCounts
  <1>8. MessageGrows'
    <2> SUFFICES ASSUME call' = [op |-> "serialize", unit |-> FirstUnit,
                                 images |-> NoImages]
                 PROVE  MessageGrows'
      BY DEF MessageGrows
    <2>1. ASSUME NEW u \in Units
          PROVE  /\ DOMAIN NoImages[u] = UnitChunkIds(num_vecs, u)
                 /\ \A i \in UnitChunkIds(num_vecs, u) :
                       ~Finished(u)' /\ ~(u = FirstUnit /\ i <= cur_vec_chunk_id[u])
      <3>1. DOMAIN NoImages[u] = UnitChunkIds(num_vecs, u)  BY DEF NoImages
      <3>2. ASSUME NEW i \in UnitChunkIds(num_vecs, u)
            PROVE  ~Finished(u)' /\ ~(i <= cur_vec_chunk_id[u])
        <4>1. u \in Selected  BY DEF UnitChunkIds
        <4>2. ~Finished(u)'  BY <4>1, UnitOrder DEF Finished
        <4>3. num_vecs \in Nat \ {0}  BY SMT DEF UseInv, IInv, TypeOK
        <4>4. i \in Nat
          <5>1. NumChunks(u) \in Nat /\ i \in 0 .. NumChunks(u) - 1  BY <4>3, UnitChunks
          <5> QED  BY <5>1, SMT
        <4>5. ~(i <= -1)  BY <4>4, SMT
        <4> QED  BY <4>2, <4>5, <1>1
      <3> QED  BY <3>1, <3>2
    <2>2. NoImages = [u \in Units |-> NoImages[u]]  BY DEF NoImages
    <2> QED  BY <2>1, <2>2, <1>2 DEF MessageGrows
  <1> QED  BY <1>4, <1>5, <1>6, <1>7, <1>8 DEF UseInv

(* A new stim between two calls.                                           *)
LEMMA RenewStep ==
    ASSUME UseInv, IInv', call.op = "none", NEW type, NEW n, NEW chunks,
           NewStim(type, n, chunks), UNCHANGED <<num_dots_vecs, mem, call, file>>,
           NumVecs <= n, n <= MAX_NUM_VECS
    PROVE  UseInv'
  <1>1. num_vecs' = n /\ cur_vec_chunk_id' = [u \in Units |-> -1]  BY DEF NewStim
  <1>2. Lengths' /\ AtRest'  BY <1>1 DEF UseInv, Lengths, AtRest
  <1>3. CallOps' /\ ReadsAlone' /\ LoadCounts' /\ MessageGrows' /\ MemType'
    BY DEF UseInv, CallOps, ReadsAlone, LoadCounts, MessageGrows, MemType
  <1>4. FileIsPattern'  BY DEF UseInv, FileIsPattern
  <1> QED  BY <1>2, <1>3, <1>4 DEF UseInv

-----------------------------------------------------------------------------
(* The turns of the two loops                                              *)

(* What a turn of either loop starts from.                                 *)
LEMMA TurnFacts ==
    ASSUME UseInv, call.op # "none", stim_load_next_chunk(call.unit)
    PROVE  /\ IInv /\ call.unit \in Selected /\ call.unit \in Units
           /\ cur_vec_chunk_id[Other(call.unit)] = -1
           /\ stim_type = "dots" => pass[call.unit] = 0
           /\ cur_vec_chunk_id \in [Units -> Int] /\ pass \in [Units -> Nat]
           /\ num_dots_vecs \in Nat /\ num_vecs \in Nat \ {0}
  <1>1. /\ IInv /\ call.unit \in Selected /\ cur_vec_chunk_id[Other(call.unit)] = -1
        /\ stim_type = "dots" => \A u \in Selected : ~Finished(u) => pass[u] = 0
    BY DEF UseInv, ReadsAlone
  <1>2. ~Finished(call.unit)  BY DEF Finished
  <1>3. call.unit \in Units  BY <1>1, StimAssumption
  <1>4. num_vecs \in Nat \ {0} /\ num_dots_vecs \in Nat  BY <1>1, SMT DEF IInv, TypeOK
  <1> QED  BY <1>1, <1>2, <1>3, <1>4 DEF IInv, TypeOK

(* A turn keeps the lengths and the file, and only its unit moves.         *)
LEMMA TurnKeeps ==
    ASSUME UseInv, UNCHANGED <<num_vecs>>, num_dots_vecs \in Nat,
           num_dots_vecs' \in Nat, num_dots_vecs <= num_dots_vecs', UNCHANGED file
    PROVE  Lengths' /\ FileIsPattern'
  <1>1. ASSUME file # NULL
        PROVE  file.num_vecs \in NumVecs .. num_dots_vecs'
    <2>1. file.num_vecs \in NumVecs .. num_dots_vecs /\ NumVecs \in Nat
      BY <1>1, StimAssumption DEF UseInv, Lengths
    <2> QED  BY <2>1, SMT
  <1> QED  BY <1>1 DEF UseInv, Lengths, FileIsPattern

(* The turn that reaches the end of a unit's chunks.                       *)
LEMMA UnitDone ==
    ASSUME UseInv, call.op # "none", NEW u \in Selected, u = call.unit,
           cur_vec_chunk_id[Other(u)] = -1,
           cur_vec_chunk_id' = [cur_vec_chunk_id EXCEPT ![u] = -1],
           pass' = [pass EXCEPT ![u] = @ + 1], UNCHANGED stim_type
    PROVE  /\ \A v \in Units : cur_vec_chunk_id'[v] = -1
           /\ ~IsLastUnit(u) /\ call'.op # "none" /\ call'.unit = "a2" => ReadsAlone'
  <1>1. /\ u \in Units /\ cur_vec_chunk_id \in [Units -> Int]
        /\ pass \in [Units -> Nat]
    BY StimAssumption DEF UseInv, IInv, TypeOK
  <1>2. \A v \in Units : cur_vec_chunk_id'[v] = -1
    BY <1>1, OtherFacts
  <1>3. ASSUME ~IsLastUnit(u), call'.op # "none", call'.unit = "a2"  PROVE ReadsAlone'
    <2>1. u = "a1" /\ "a2" \in Selected /\ Other("a2") \in Units
      BY <1>3, UnitOrder DEF Other, Units
    <2>2. ASSUME stim_type = "dots", NEW v \in Selected, v # "a1"  PROVE pass'[v] = 0
      <3>1. pass[v] = 0  BY <2>1, <2>2 DEF UseInv, ReadsAlone, Finished
      <3> QED  BY <3>1, <1>1, <2>1, <2>2, StimAssumption
    <2> QED  BY <1>2, <1>3, <2>1, <2>2 DEF ReadsAlone, Finished
  <1> QED  BY <1>2, <1>3

(* The record of a load that moves to the other unit.                      *)
LEMMA NextUnitRecord ==
    ASSUME call = [op |-> "load", unit |-> call.unit, addr |-> call.addr,
                   num_loaded |-> call.num_loaded]
    PROVE  NextUnit = [op |-> "load", unit |-> "a2", addr |-> call.addr, num_loaded |-> 0]
  <1> DEFINE S == [op : {"load"}, unit : {call.unit, "a2"}, addr : {call.addr},
                   num_loaded : {call.num_loaded, 0}]
  <1>1. call \in S  OBVIOUS
  <1>2. /\ NextUnit \in S /\ NextUnit.op = "load" /\ NextUnit.unit = "a2"
        /\ NextUnit.addr = call.addr /\ NextUnit.num_loaded = 0
    BY <1>1 DEF NextUnit
  <1> QED  BY <1>2

(* Updating the images of one unit in the record of a serialization.       *)
LEMMA ImagesRecord ==
    ASSUME NEW c, NEW U, NEW u \in U, NEW a, NEW z,
           c = [op |-> "serialize", unit |-> u, images |-> a], a = [v \in U |-> a[v]]
    PROVE  [c EXCEPT !.images[u] = z]
              = [op |-> "serialize", unit |-> u, images |-> [a EXCEPT ![u] = z]]
  <1> DEFINE S == [op : {"serialize"}, unit : {u}, images : {a, [a EXCEPT ![u] = z]}]
             d == [c EXCEPT !.images[u] = z]
  <1>1. c \in S  OBVIOUS
  <1>2. /\ d \in S /\ d.op = "serialize" /\ d.unit = u
        /\ d.images = [a EXCEPT ![u] = z]
    BY <1>1
  <1> QED  BY <1>2

(* Moving the record of a serialization to the other unit.                 *)
LEMMA SerializeRecord ==
    ASSUME NEW c, NEW u, NEW a, NEW v,
           c = [op |-> "serialize", unit |-> u, images |-> a]
    PROVE  [c EXCEPT !.unit = v] = [op |-> "serialize", unit |-> v, images |-> a]
  <1> DEFINE S == [op : {"serialize"}, unit : {u, v}, images : {a}]
             d == [c EXCEPT !.unit = v]
  <1>1. c \in S /\ c.images = a  OBVIOUS
  <1>2. d \in S /\ d.op = "serialize" /\ d.unit = v /\ d.images = a  BY <1>1
  <1> HIDE DEF d
  <1>3. d = [op |-> "serialize", unit |-> v, images |-> a]  BY <1>2
  <1> QED  BY <1>3 DEF d

(* One turn of the loop of artix_load_stim keeps the invariant.            *)
LEMMA LoadTurn ==
    ASSUME UseInv, IInv', LoadStep
    PROVE  UseInv'
  <1> DEFINE u == call.unit
  <1>1. /\ call.op = "load" /\ stim_load_next_chunk(u) /\ UNCHANGED file
    BY DEF LoadStep
  <1>2. /\ IInv /\ u \in Selected /\ u \in Units /\ cur_vec_chunk_id[Other(u)] = -1
        /\ stim_type = "dots" => pass[u] = 0
        /\ cur_vec_chunk_id \in [Units -> Int] /\ pass \in [Units -> Nat]
        /\ num_dots_vecs \in Nat /\ num_vecs \in Nat \ {0}
    BY <1>1, TurnFacts
  <1>3. /\ call = [op |-> "load", unit |-> u, addr |-> call.addr,
                   num_loaded |-> call.num_loaded]
        /\ call.addr \in [Units -> Addrs]
        /\ call.num_loaded = Delivered(u)
    BY <1>1 DEF UseInv, LoadCounts
  <1>4. num_dots_vecs' \in Nat  BY DEF IInv, TypeOK
  <1>5. CASE die
    <2>1. ~alive'  BY <1>5 DEF die
    <2>2. UNCHANGED <<mem, call>>  BY <2>1 DEF LoadStep
    <2> QED  BY <1>1, <1>5, <2>2, QuietUse DEF die, dotsVars
  <1>6. CASE TurnEnds(u)
    <2> USE <1>6 DEF TurnEnds
    <2>1. num_dots_vecs <= num_dots_vecs'  BY <1>2, SMT
    <2>2. Lengths' /\ FileIsPattern'  BY <1>1, <1>2, <1>4, <1>6, <2>1, TurnKeeps
    <2>3. /\ \A v \in Units : cur_vec_chunk_id'[v] = -1
          /\ ~IsLastUnit(u) /\ call'.op # "none" /\ call'.unit = "a2" => ReadsAlone'
      BY <1>1, <1>2, <1>6, UnitDone
    <2>4. CASE ~IsLastUnit(u)
      <3>1. call' = NextUnit /\ UNCHANGED mem  BY <1>6, <2>4 DEF LoadStep
      <3>2. call' = [op |-> "load", unit |-> "a2", addr |-> call.addr, num_loaded |-> 0]
        BY <3>1, <1>3, NextUnitRecord
      <3>3. ReadsAlone'  BY <2>3, <2>4, <3>2
      <3>4. LoadCounts'
        <4>1. Delivered(call.unit)' = 0  BY <2>3, <3>2 DEF Delivered, Units
        <4> QED  BY <3>2, <4>1, <1>3 DEF LoadCounts
      <3>5. CallOps' /\ AtRest' /\ MessageGrows'
        BY <3>2 DEF CallOps, AtRest, MessageGrows
      <3>6. MemType'  BY <3>1 DEF UseInv, MemType
      <3> QED  BY <2>2, <3>3, <3>4, <3>5, <3>6 DEF UseInv
    <2>5. CASE IsLastUnit(u)
      <3>1. call' = [op |-> "none", returned |-> call.num_loaded] /\ UNCHANGED mem
        BY <1>6, <2>5 DEF LoadStep
      <3>2. CallOps' /\ AtRest' /\ MessageGrows' /\ ReadsAlone' /\ LoadCounts'
        BY <2>3, <3>1 DEF CallOps, AtRest, MessageGrows, ReadsAlone, LoadCounts
      <3>3. MemType'  BY <3>1 DEF UseInv, MemType
      <3> QED  BY <2>2, <3>2, <3>3 DEF UseInv
    <2> QED  BY <2>4, <2>5
  <1>7. ASSUME NEW i \in UnitChunkIds(num_vecs, u), TurnLoads(u, i)
        PROVE  UseInv'
    <2> USE <1>7 DEF TurnLoads
    <2>1. /\ mem' = [mem EXCEPT ![u] = artix_mem_write(@, load_addr,
                                           PatternChunk(num_vecs, i))]
          /\ call' = [call EXCEPT !.num_loaded = @ + ChunkNumVecs(num_vecs, i)]
      BY <1>7 DEF LoadStep
    <2>2. call' = [op |-> "load", unit |-> u, addr |-> call.addr,
                   num_loaded |-> Delivered(u)']
      BY <2>1, <1>3, <1>7
    <2>3. Lengths' /\ FileIsPattern'  BY <1>1, <1>2, <1>4, <1>7, TurnKeeps
    <2>4. CallOps' /\ AtRest' /\ MessageGrows'
      BY <2>2 DEF CallOps, AtRest, MessageGrows
    <2>5. ReadsAlone'
      <3>1. Other(u) # u /\ Other(u) \in Units  BY <1>2, OtherFacts
      <3>2. cur_vec_chunk_id'[Other(u)] = -1  BY <3>1, <1>2, <1>7
      <3> QED  BY <3>2, <2>2, <1>1, <1>2, <1>7 DEF UseInv, ReadsAlone, Finished
    <2>6. LoadCounts'
      <3>1. call'.unit = u /\ Delivered(call.unit)' = Delivered(u)'
        BY <2>2
      <3> QED  BY <2>2, <3>1, <1>3 DEF LoadCounts
    <2>7. MemType'
      <3>1. i \in ChunkIds(num_vecs)  BY <1>2, UnitChunks
      <3>2. PatternChunk(num_vecs, i) \in [0 .. ChunkNumVecs(num_vecs, i) - 1 -> Vec]
        BY <3>1, <1>2, PatternChunkType
      <3>3. artix_mem_write(mem[u], load_addr, PatternChunk(num_vecs, i))
               \in [0 .. MemVecs - 1 -> Vec]
        BY <3>2, <1>2 DEF UseInv, MemType, artix_mem_write
      <3> QED  BY <2>1, <3>3 DEF UseInv, MemType
    <2> QED  BY <2>3, <2>4, <2>5, <2>6, <2>7 DEF UseInv
  <1>8. die \/ TurnEnds(u) \/ \E i \in UnitChunkIds(num_vecs, u) : TurnLoads(u, i)
    <2> HIDE DEF u
    <2> QED  BY <1>1, <1>2, ReaderTurn
  <1> QED  BY <1>5, <1>6, <1>7, <1>8

(* One turn of the loop of stim_serialize_to_path keeps the invariant; the *)
(* last one leaves a whole file.                                           *)
LEMMA SerializeTurn ==
    ASSUME UseInv, IInv', stim_serialize_chunk
    PROVE  UseInv'
  <1> DEFINE u == call.unit
             msg == call.images
  <1>1. call.op = "serialize" /\ stim_load_next_chunk(u) /\ UNCHANGED mem
    BY DEF stim_serialize_chunk
  <1>2. /\ IInv /\ u \in Selected /\ u \in Units /\ cur_vec_chunk_id[Other(u)] = -1
        /\ stim_type = "dots" => pass[u] = 0
        /\ cur_vec_chunk_id \in [Units -> Int] /\ pass \in [Units -> Nat]
        /\ num_dots_vecs \in Nat /\ num_vecs \in Nat \ {0}
    BY <1>1, TurnFacts
  <1>3. /\ call = [op |-> "serialize", unit |-> u, images |-> msg]
        /\ msg = [v \in Units |-> msg[v]]
        /\ \A v \in Units :
              /\ DOMAIN msg[v] = UnitChunkIds(num_vecs, v)
              /\ \A i \in UnitChunkIds(num_vecs, v) :
                    \/ Finished(v)
                    \/ v = u /\ i <= cur_vec_chunk_id[v]
                    => msg[v][i] = LZ4_compress(PatternChunk(num_vecs, i))
    BY <1>1 DEF UseInv, MessageGrows
  <1>4. num_dots_vecs' \in Nat  BY DEF IInv, TypeOK
  <1>5. MemType'  BY <1>1 DEF UseInv, MemType
  <1>6. CASE die
    <2>1. ~alive'  BY <1>6 DEF die
    <2>2. UNCHANGED <<call, file>>  BY <2>1 DEF stim_serialize_chunk
    <2> QED  BY <1>1, <1>6, <2>2, QuietUse DEF die, dotsVars
  <1>7. CASE TurnEnds(u)
    <2> USE <1>7 DEF TurnEnds
    <2>1. num_dots_vecs <= num_dots_vecs'  BY <1>2, SMT
    <2>2. /\ \A v \in Units : cur_vec_chunk_id'[v] = -1
          /\ ~IsLastUnit(u) /\ call'.op # "none" /\ call'.unit = "a2" => ReadsAlone'
      BY <1>1, <1>2, UnitDone
    <2>3. ASSUME NEW v \in Units, v = u \/ Finished(v), NEW i \in UnitChunkIds(num_vecs, v)
          PROVE  msg[v][i] = LZ4_compress(PatternChunk(num_vecs, i))
      <3>1. CASE v = u
        <4>1. i \in 0 .. NumVecChunks(num_vecs) - 1
          BY <3>1, <1>2 DEF UnitChunkIds, ChunkIds
        <4>2. NumVecChunks(num_vecs) \in Nat  BY <1>2, Geometry
        <4>3. i <= cur_vec_chunk_id[v]  BY <3>1, <4>1, <4>2, SMT
        <4> QED  BY <3>1, <4>3, <1>3
      <3>2. CASE Finished(v)
        BY <3>2, <1>3
      <3> QED  BY <2>3, <3>1, <3>2
    <2>4. CASE ~IsLastUnit(u)
      <3>1. call' = [call EXCEPT !.unit = "a2"] /\ UNCHANGED file
        BY <2>4 DEF stim_serialize_chunk
      <3>2. call' = [op |-> "serialize", unit |-> "a2", images |-> msg]
        BY <3>1, <1>3, SerializeRecord
      <3>3. ReadsAlone'  BY <2>2, <2>4, <3>2
      <3>4. u = "a1"  BY <1>2, <2>4, UnitOrder
      <3>5. MessageGrows'
        <4>1. ASSUME NEW v \in Units, NEW i \in UnitChunkIds(num_vecs, v),
                     Finished(v)' \/ (v = "a2" /\ i <= cur_vec_chunk_id'[v])
              PROVE  msg[v][i] = LZ4_compress(PatternChunk(num_vecs, i))
          <5>1. CASE v = u
            BY <5>1, <2>3
          <5>2. CASE v # u
            <6>1. i <= -1  BY <2>2, <3>4, <4>1, <5>2 DEF Finished
            <6>2. NumChunks(v) \in Nat /\ i \in 0 .. NumChunks(v) - 1
              BY <1>2, UnitChunks
            <6> QED  BY <6>1, <6>2, SMT
          <5> QED  BY <5>1, <5>2
        <4> QED  BY <3>2, <4>1, <1>3 DEF MessageGrows
      <3>6. CallOps' /\ AtRest' /\ LoadCounts'
        BY <3>2 DEF CallOps, AtRest, LoadCounts
      <3>7. Lengths' /\ FileIsPattern'  BY <3>1, <1>2, <1>4, <2>1, TurnKeeps
      <3> QED  BY <3>3, <3>5, <3>6, <3>7, <1>5 DEF UseInv
    <2>5. CASE IsLastUnit(u)
      <3>1. call' = NoCall /\ file' = [num_vecs |-> num_vecs, images |-> msg]
        BY <2>5 DEF stim_serialize_chunk
      <3>2. CallOps' /\ AtRest' /\ MessageGrows' /\ ReadsAlone' /\ LoadCounts'
        BY <2>2, <3>1 DEF NoCall, CallOps, AtRest, MessageGrows, ReadsAlone, LoadCounts
      <3>3. FileIsPattern'
        <4>1. ASSUME NEW v \in Units, NEW i \in UnitChunkIds(num_vecs, v)
              PROVE  v = u \/ Finished(v)
          <5>1. v \in Selected  BY DEF UnitChunkIds
          <5> QED  BY <5>1, <1>2, <2>5, UnitOrder DEF Finished, Units
        <4> QED  BY <3>1, <4>1, <2>3, <1>3 DEF FileIsPattern
      <3>4. Lengths'
        <4>1. /\ num_vecs \in 1 .. num_dots_vecs /\ NumVecs \in Nat
              /\ NumVecs <= num_vecs /\ num_vecs <= MAX_NUM_VECS
          BY StimAssumption DEF UseInv, Lengths, IInv, TypeOK
        <4>2. num_vecs \in NumVecs .. num_dots_vecs  BY <4>1, <1>2, SMT
        <4> QED  BY <3>1, <4>1, <4>2 DEF Lengths
      <3> QED  BY <3>2, <3>3, <3>4, <1>5 DEF UseInv
    <2> QED  BY <2>4, <2>5
  <1>8. ASSUME NEW i \in UnitChunkIds(num_vecs, u), TurnLoads(u, i)
        PROVE  UseInv'
    <2> USE <1>8 DEF TurnLoads
    <2> DEFINE image == LZ4_compress(PatternChunk(num_vecs, i))
               new == [j \in DOMAIN msg[u] |-> IF j = i THEN image ELSE msg[u][j]]
    <2>1. /\ call' = [call EXCEPT !.images[u] = new]
          /\ UNCHANGED file
      BY DEF stim_serialize_chunk, ChunkSlot
    <2>2. call' = [op |-> "serialize", unit |-> u, images |-> [msg EXCEPT ![u] = new]]
      BY <2>1, <1>2, <1>3, ImagesRecord
    <2>3. Lengths' /\ FileIsPattern'  BY <2>1, <1>2, <1>4, TurnKeeps
    <2>4. CallOps' /\ AtRest' /\ LoadCounts'
      BY <2>2 DEF CallOps, AtRest, LoadCounts
    <2>5. ReadsAlone'
      <3>1. Other(u) # u /\ Other(u) \in Units  BY <1>2, OtherFacts
      <3>2. cur_vec_chunk_id'[Other(u)] = -1  BY <3>1, <1>2
      <3> QED  BY <3>2, <2>2, <1>1, <1>2 DEF UseInv, ReadsAlone, Finished
    <2>6. MessageGrows'
      <3>1. DOMAIN [msg EXCEPT ![u] = new] = Units  BY <1>3
      <3>2. ASSUME NEW v \in Units, NEW j \in UnitChunkIds(num_vecs, v),
                   Finished(v) \/ (v = u /\ j <= i)
            PROVE  [msg EXCEPT ![u] = new][v][j] = LZ4_compress(PatternChunk(num_vecs, j))
        <4>1. CASE v = u /\ j = i
          BY <4>1, <1>2, <1>3
        <4>2. CASE v = u /\ j # i
          <5>1. j <= cur_vec_chunk_id[u]
            <6>1. j <= i  BY <3>2, <4>2 DEF Finished
            <6>2. j \in Int
              <7>1. NumChunks(v) \in Nat /\ j \in 0 .. NumChunks(v) - 1
                BY <1>2, UnitChunks
              <7> QED  BY <7>1, SMT
            <6> QED  BY <6>1, <6>2, <4>2, <1>2, SMT
          <5>2. msg[u][j] = LZ4_compress(PatternChunk(num_vecs, j))
            BY <5>1, <4>2, <1>2, <1>3
          <5>3. [msg EXCEPT ![u] = new][v][j] = msg[u][j]
            BY <4>2, <1>2, <1>3
          <5> QED  BY <5>2, <5>3
        <4>3. CASE v # u
          <5>1. [msg EXCEPT ![u] = new][v] = msg[v]  BY <4>3, <1>3
          <5> QED  BY <5>1, <4>3, <3>2, <1>3
        <4> QED  BY <4>1, <4>2, <4>3
      <3>3. \A v \in Units : DOMAIN [msg EXCEPT ![u] = new][v] = UnitChunkIds(num_vecs, v)
        BY <1>2, <1>3
      <3>4. \A v \in Units : Finished(v)' = Finished(v)  BY <2>2 DEF Finished
      <3>5. [msg EXCEPT ![u] = new] = [v \in Units |-> [msg EXCEPT ![u] = new][v]]
        BY <3>1
      <3> HIDE DEF new, msg
      <3> QED  BY <2>2, <3>2, <3>3, <3>4, <3>5 DEF MessageGrows
    <2> QED  BY <2>3, <2>4, <2>5, <2>6, <1>5 DEF UseInv
  <1>9. die \/ TurnEnds(u) \/ \E i \in UnitChunkIds(num_vecs, u) : TurnLoads(u, i)
    <2> HIDE DEF u
    <2> QED  BY <1>1, <1>2, ReaderTurn
  <1> QED  BY <1>6, <1>7, <1>8, <1>9

-----------------------------------------------------------------------------
(* The theorems                                                            *)

(* Before the first call nothing has been read or written.                 *)
LEMMA UseInitInv == UseInit => UseInv
  <1> SUFFICES ASSUME UseInit  PROVE UseInv  OBVIOUS
  <1> USE DEF UseInit
  <1>1. IInv  BY InitInv
  <1>2. call.op = "none" /\ file = NULL  BY DEF NoCall
  <1>3. CallOps /\ ReadsAlone /\ LoadCounts /\ MessageGrows /\ FileIsPattern
    BY <1>2 DEF CallOps, ReadsAlone, LoadCounts, MessageGrows, FileIsPattern
  <1>4. AtRest  BY DEF AtRest, Init
  <1>5. Lengths
    <2>1. num_vecs = NumVecs /\ NumVecs \in Nat /\ NumVecs <= MAX_NUM_VECS
      BY StimAssumption DEF Init
    <2>2. NumVecs <= NumVecs  BY <2>1, SMT
    <2> QED  BY <2>1, <2>2, <1>2 DEF Lengths
  <1>6. MemType
    <2>1. EMPTY \in Vec  BY SMT DEF EMPTY, Vec
    <2> QED  BY <2>1 DEF MemType
  <1> QED  BY <1>1, <1>2, <1>3, <1>4, <1>5, <1>6 DEF UseInv

(* Every step of the library keeps the invariant.                          *)
LEMMA UseNextInv == UseInv /\ [UseNext]_useVars => UseInv'
  <1> SUFFICES ASSUME UseInv, [UseNext]_useVars  PROVE UseInv'  OBVIOUS
  <1>0. IInv'  BY ReaderStep, ReaderInv DEF UseInv
  <1>1. ASSUME NEW addr \in [Units -> Addrs], BeginLoad(addr)  PROVE UseInv'
    <2>1. CASE die /\ UNCHANGED call
      BY <1>0, <1>1, <2>1, QuietUse DEF BeginLoad, die, dotsVars
    <2>2. CASE /\ call' = [op |-> "load", unit |-> FirstUnit, addr |-> addr,
                           num_loaded |-> 0]
               /\ UNCHANGED vars
      <3>1. call.op = "none" /\ MayRead /\ UNCHANGED <<mem, file>>
        BY <1>1 DEF BeginLoad
      <3> QED  BY <1>0, <2>2, <3>1, BeginStep
    <2> QED  BY <1>1, <2>1, <2>2 DEF BeginLoad
  <1>2. CASE LoadStep
    BY <1>0, <1>2, LoadTurn
  <1>3. CASE BeginSerialize
    BY <1>0, <1>3, BeginStep DEF BeginSerialize
  <1>4. CASE stim_serialize_chunk
    BY <1>0, <1>4, SerializeTurn
  <1>5. CASE OpenFile
    <2>1. /\ NewStim("raw", file.num_vecs, deserialize_chunk) /\ call.op = "none"
          /\ UNCHANGED <<num_dots_vecs, mem, call, file>>
      BY <1>5 DEF OpenFile, dotsVars
    <2>2. NumVecs <= file.num_vecs /\ file.num_vecs <= MAX_NUM_VECS
      <3>1. /\ file.num_vecs \in NumVecs .. num_dots_vecs
            /\ file.num_vecs <= MAX_NUM_VECS
        BY <1>5 DEF OpenFile, UseInv, Lengths
      <3>2. NumVecs \in Nat /\ num_dots_vecs \in Nat
        BY StimAssumption DEF UseInv, IInv, TypeOK
      <3> QED  BY <3>1, <3>2, SMT
    <2> QED  BY <1>0, <2>1, <2>2, RenewStep
  <1>6. CASE RemakeStim
    <2>1. call.op = "none" /\ get_stim_by_dots /\ UNCHANGED <<mem, call, file>>
      BY <1>6 DEF RemakeStim
    <2>2. CASE die
      BY <1>0, <2>1, <2>2, QuietUse DEF die, dotsVars
    <2>3. CASE ~die
      <3>1. /\ num_dots_vecs <= MAX_NUM_VECS
            /\ NewStim("dots", num_dots_vecs, init_stim(num_dots_vecs))
            /\ UNCHANGED num_dots_vecs
        BY <2>1, <2>3 DEF get_stim_by_dots
      <3>2. NumVecs <= num_dots_vecs  BY DEF UseInv, IInv, DotsInv
      <3> QED  BY <1>0, <2>1, <3>1, <3>2, RenewStep
    <2> QED  BY <2>2, <2>3
  <1>7. CASE UNCHANGED useVars
    BY <1>0, <1>7, QuietUse DEF useVars, vars, stimVars
  <1> QED  BY <1>1, <1>2, <1>3, <1>4, <1>5, <1>6, <1>7 DEF UseNext

(* The inductive invariant holds in every reachable state.                 *)
THEOREM UseInvariance == UseSpec => []UseInv
  BY UseInitInv, UseNextInv, PTL DEF UseSpec

(* Between two calls no unit is part way through its chunks and no chunk   *)
(* buffer is allocated, so the library never meets the die of its own      *)
(* one-unit-at-a-time rule (stim.c:578-589).                               *)
THEOREM RestsBetweenCalls == UseSpec => []ReaderAtRest
  <1>1. UseInv => ReaderAtRest
    <2> SUFFICES ASSUME UseInv, call.op = "none", NEW u \in Units,
                        NEW i \in DOMAIN vec_chunks[u]
                 PROVE  cur_vec_chunk_id[u] = -1 /\ ~vec_chunks[u][i].is_loaded
      BY DEF ReaderAtRest, UseInv, AtRest
    <2>1. cur_vec_chunk_id[u] = -1  BY DEF UseInv, AtRest
    <2>2. /\ ChunkInv(vec_chunks[u][i], u, i, cur_vec_chunk_id, pass)
          /\ i \in UnitChunkIds(num_vecs, u) /\ num_vecs \in Nat \ {0}
      BY ChunkInvHolds DEF UseInv
    <2>3. i # -1
      <3>1. NumChunks(u) \in Nat /\ i \in 0 .. NumChunks(u) - 1  BY <2>2, UnitChunks
      <3> QED  BY <3>1, SMT
    <2> QED  BY <2>1, <2>2, <2>3 DEF ChunkInv
  <1> QED  BY <1>1, UseInvariance, PTL

(* Every file the library leaves on disk holds the whole pattern, chunk by *)
(* chunk, also when it was written from a stim read from such a file.      *)
THEOREM FilesAreWhole == UseSpec => []FileIsPattern
  <1>1. UseInv => FileIsPattern  BY DEF UseInv
  <1> QED  BY <1>1, UseInvariance, PTL

(* The library's calls taken together implement a client of StimChunks:    *)
(* each of their steps is one of its steps, the end of the process, or a   *)
(* stutter, so what is proved of the reader holds under them.              *)
THEOREM UsesTheReader == UseSpec => UsesReader
  <1>1. UseInit => Init  BY DEF UseInit
  <1>2. UseInv /\ [UseNext]_useVars => [Next \/ die]_vars  BY ReaderStep
  <1> QED  BY <1>1, <1>2, UseInvariance, PTL DEF UseSpec, UsesReader

-----------------------------------------------------------------------------
(* What a load does to tester memory                                       *)

(* The steps that touch neither tester memory nor a load.                  *)
LEMMA LeavesMemory ==
    ASSUME UseInv, [UseNext]_useVars, ~LoadStep
    PROVE  /\ UNCHANGED mem
           /\ call.op # "load" \/ UNCHANGED <<call, num_vecs>>
           /\ call'.op = "load" =>
                 \/ call.op = "load"
                 \/ /\ call.op = "none" /\ UNCHANGED num_vecs
                    /\ \E addr \in [Units -> Addrs] :
                          call' = [op |-> "load", unit |-> FirstUnit, addr |-> addr,
                                   num_loaded |-> 0]
  <1>1. ASSUME NEW addr \in [Units -> Addrs], BeginLoad(addr)
        PROVE  /\ UNCHANGED mem /\ call.op = "none"
               /\ \/ UNCHANGED call
                  \/ /\ UNCHANGED num_vecs
                     /\ call' = [op |-> "load", unit |-> FirstUnit, addr |-> addr,
                                 num_loaded |-> 0]
    BY <1>1 DEF BeginLoad, vars
  <1>2. CASE BeginSerialize
    BY <1>2 DEF BeginSerialize
  <1>3. CASE stim_serialize_chunk
    <2>1. call.op = "serialize" /\ UNCHANGED mem  BY <1>3 DEF stim_serialize_chunk
    <2>2. call'.op # "load"
      <3>1. call = [op |-> "serialize", unit |-> call.unit, images |-> call.images]
        BY <2>1 DEF UseInv, MessageGrows
      <3>2. ASSUME NEW z  PROVE [call EXCEPT !.images[call.unit] = z].op = "serialize"
        BY <3>1
      <3>3. [call EXCEPT !.unit = "a2"].op = "serialize"  BY <3>1
      <3>4. \/ call' = call \/ call' = NoCall \/ call' = [call EXCEPT !.unit = "a2"]
            \/ \E z : call' = [call EXCEPT !.images[call.unit] = z]
        BY <1>3, Zenon DEF stim_serialize_chunk
      <3>5. NoCall.op = "none"  BY DEF NoCall
      <3> QED  BY <2>1, <3>2, <3>3, <3>4, <3>5
    <2> QED  BY <2>1, <2>2
  <1>4. CASE OpenFile \/ RemakeStim
    BY <1>4 DEF OpenFile, RemakeStim
  <1>5. CASE UNCHANGED useVars
    BY <1>5 DEF useVars, vars
  <1> QED  BY <1>1, <1>2, <1>3, <1>4, <1>5 DEF UseNext

(* What a turn of the load loop does: it dies and leaves memory and call   *)
(* alone, ends the unit's pass, or writes the next slice of the pattern    *)
(* from the unit's load address on.                                        *)
LEMMA LoadTurnFacts ==
    ASSUME UseInv, LoadStep
    PROVE  LET u == call.unit
           IN  /\ call.op = "load" /\ u \in Selected /\ u \in Units
               /\ num_vecs \in Nat \ {0} /\ num_vecs' = num_vecs
               /\ \/ UNCHANGED <<mem, call>>
                  \/ /\ UNCHANGED mem /\ Delivered(u) = PaddedVecs(num_vecs)
                     /\ call' = IF IsLastUnit(u)
                                THEN [op |-> "none", returned |-> call.num_loaded]
                                ELSE NextUnit
                  \/ \E i \in UnitChunkIds(num_vecs, u) :
                     /\ i \in ChunkIds(num_vecs)
                     /\ TurnLoads(u, i)
                     /\ mem' = [mem EXCEPT ![u] = artix_mem_write(@, call.addr[u],
                                                      PatternChunk(num_vecs, i))]
                     /\ call' = [call EXCEPT !.num_loaded = @ + ChunkNumVecs(num_vecs, i)]
  <1> DEFINE u == call.unit
  <1>1. call.op = "load" /\ stim_load_next_chunk(u)  BY DEF LoadStep
  <1>2. /\ IInv /\ u \in Selected /\ u \in Units /\ cur_vec_chunk_id[Other(u)] = -1
        /\ stim_type = "dots" => pass[u] = 0
        /\ num_vecs \in Nat \ {0}
    BY <1>1, TurnFacts
  <1>3. die \/ TurnEnds(u) \/ \E i \in UnitChunkIds(num_vecs, u) : TurnLoads(u, i)
    <2> HIDE DEF u
    <2> QED  BY <1>1, <1>2, ReaderTurn
  <1>4. CASE die
    BY <1>1, <1>2, <1>4 DEF die, stimVars, LoadStep
  <1>5. CASE TurnEnds(u)
    BY <1>1, <1>2, <1>5 DEF TurnEnds, LoadStep
  <1>6. ASSUME NEW i \in UnitChunkIds(num_vecs, u), TurnLoads(u, i)
        PROVE  /\ i \in ChunkIds(num_vecs)
               /\ mem' = [mem EXCEPT ![u] = artix_mem_write(@, call.addr[u],
                                                PatternChunk(num_vecs, i))]
               /\ call' = [call EXCEPT !.num_loaded = @ + ChunkNumVecs(num_vecs, i)]
               /\ num_vecs' = num_vecs
    BY <1>2, <1>6, UnitChunks DEF TurnLoads, LoadStep, load_addr
  <1> QED  BY <1>1, <1>2, <1>3, <1>4, <1>5, <1>6

(* A chunk lies inside the padded pattern.                                 *)
LEMMA ChunkInside ==
    ASSUME NEW n \in Nat \ {0}, NEW i \in ChunkIds(n)
    PROVE  ChunkNumVecs(n, i) \in Nat \ {0} /\ ChunkNumVecs(n, i) <= PaddedVecs(n)
           /\ PaddedVecs(n) \in Nat
  <1> DEFINE V == ChunkNumVecs(n, i)
             last == NumVecChunks(n) - 1
             C == VecsPerChunk
  <1>1. /\ V \in Nat \ {0} /\ C \in Nat \ {0} /\ PaddedVecs(n) \in Nat \ {0}
    BY PatternChunkType, ChunkSizeType, Padding
  <1>2. /\ V <= C
        /\ i # last => V = C /\ (i + 1) * C <= n
        /\ last * C + ChunkNumVecs(n, last) = PaddedVecs(n)
        /\ last \in Nat /\ i \in Nat
    <2>1. NumVecChunks(n) \in Nat \ {0}  BY Geometry
    <2>2. last \in Nat /\ i \in Nat  BY <2>1, SMT DEF ChunkIds
    <2> QED  BY <2>2, <1>1, Geometry, SMT
  <1>3. n <= PaddedVecs(n)
    <2>1. calc_num_padding_vecs(n) \in Nat
      <3>1. VecsPerBurst \in Nat \ {0}  BY StimAssumption
      <3> QED  BY <3>1, Padding, SMT
    <2> QED  BY <2>1, SMT DEF PaddedVecs
  <1>4. CASE i = last
    <2>1. last * C \in Nat  BY <1>1, <1>2, SMT
    <2> HIDE DEF last, C
    <2> QED  BY <2>1, <1>1, <1>2, <1>4, SMT
  <1>5. CASE i # last
    <2> HIDE DEF last, C, V
    <2>1. C <= (i + 1) * C  BY <1>1, <1>2, SMT
    <2>2. (i + 1) * C \in Nat  BY <1>1, <1>2, SMT
    <2>3. V <= PaddedVecs(n)  BY <2>1, <2>2, <1>1, <1>2, <1>3, <1>5, SMT
    <2> QED  BY <2>3, <1>1 DEF V
  <1> QED  BY <1>4, <1>5

(* artix_load_stim writes only inside the padded pattern's room behind the *)
(* load address of the unit it is loading.                                 *)
THEOREM StaysInRegion == UseSpec => WritesInsideRegion
  <1> DEFINE A == \A u \in Units : \A k \in DOMAIN mem[u] :
                     mem'[u][k] # mem[u][k] =>
                        /\ call.op = "load" /\ u = call.unit
                        /\ k - call.addr[u] \in 0 .. PaddedVecs(num_vecs) - 1
  <1>1. ASSUME UseInv, [UseNext]_useVars  PROVE A
    <2>1. CASE ~LoadStep
      <3>1. mem' = mem  BY <1>1, <2>1, LeavesMemory
      <3> QED  BY <3>1
    <2>2. CASE LoadStep
      <3> DEFINE u == call.unit
      <3>1. CASE UNCHANGED mem
        BY <3>1
      <3>2. ASSUME NEW i \in ChunkIds(num_vecs),
                   mem' = [mem EXCEPT ![u] = artix_mem_write(@, call.addr[u],
                                                 PatternChunk(num_vecs, i))]
            PROVE  A
        <4>1. call.op = "load" /\ u \in Units /\ num_vecs \in Nat \ {0}
          BY <1>1, <2>2, LoadTurnFacts
        <4>2. /\ ChunkNumVecs(num_vecs, i) \in Nat \ {0} /\ PaddedVecs(num_vecs) \in Nat
              /\ ChunkNumVecs(num_vecs, i) <= PaddedVecs(num_vecs)
          BY <4>1, ChunkInside
        <4>3. DOMAIN PatternChunk(num_vecs, i) = 0 .. ChunkNumVecs(num_vecs, i) - 1
          BY DEF PatternChunk
        <4>4. DOMAIN mem = Units  BY <1>1 DEF UseInv, MemType
        <4>5. ASSUME NEW v \in Units, NEW k \in DOMAIN mem[v], mem'[v][k] # mem[v][k]
              PROVE  v = u /\ k - call.addr[u] \in 0 .. ChunkNumVecs(num_vecs, i) - 1
          <5>1. v = u  BY <4>5, <4>4, <3>2
          <5>2. mem'[u] = artix_mem_write(mem[u], call.addr[u], PatternChunk(num_vecs, i))
            BY <3>2, <4>1, <4>4
          <5>3. k - call.addr[u] \in DOMAIN PatternChunk(num_vecs, i)
            BY <5>1, <5>2, <4>5 DEF artix_mem_write
          <5> QED  BY <5>1, <5>3, <4>3
        <4>6. 0 .. ChunkNumVecs(num_vecs, i) - 1 \subseteq 0 .. PaddedVecs(num_vecs) - 1
          BY <4>2, SMT
        <4> QED  BY <4>1, <4>5, <4>6
      <3> QED  BY <1>1, <2>2, <3>1, <3>2, LoadTurnFacts
    <2> QED  BY <2>1, <2>2
  <1>2. UseInv /\ [UseNext]_useVars => [A]_useVars  BY <1>1
  <1> QED  BY <1>2, UseInvariance, PTL DEF UseSpec, WritesInsideRegion

(* "Returns number of bytes loaded per artix unit" (artix.c:840): it is    *)
(* the padded size of the stim, whatever the number of its chunks.         *)
THEOREM ReturnsSize == UseSpec => ReturnsPaddedSize
  <1> DEFINE A == call.op = "load" /\ call'.op = "none"
                     => call'.returned = PaddedVecs(num_vecs)
  <1>1. ASSUME UseInv, [UseNext]_useVars, call.op = "load", call'.op = "none"
        PROVE  call'.returned = PaddedVecs(num_vecs)
    <2> DEFINE u == call.unit
    <2>1. LoadStep  BY <1>1, LeavesMemory
    <2>2. /\ call = [op |-> "load", unit |-> u, addr |-> call.addr,
                     num_loaded |-> call.num_loaded]
          /\ call.num_loaded = Delivered(u)
      BY <1>1 DEF UseInv, LoadCounts
    <2>3. NextUnit.op = "load"  BY <2>2, NextUnitRecord
    <2>4. ASSUME NEW n  PROVE [call EXCEPT !.num_loaded = n].op = "load"  BY <2>2
    <2>5. call' = [op |-> "none", returned |-> call.num_loaded]
          /\ Delivered(u) = PaddedVecs(num_vecs)
      BY <1>1, <2>1, <2>3, <2>4, LoadTurnFacts
    <2> QED  BY <2>2, <2>5
  <1>2. UseInv /\ [UseNext]_useVars => [A]_useVars  BY <1>1
  <1> QED  BY <1>2, UseInvariance, PTL DEF UseSpec, ReturnsPaddedSize

-----------------------------------------------------------------------------
(* A load of one chunk is the load PatternLoader promises                  *)

(* A stim of at most a chunk of vectors is one chunk.                      *)
LEMMA FitsOneChunk ==
    ASSUME NEW n \in Nat \ {0}, n <= VecsPerChunk
    PROVE  NumVecChunks(n) = 1
  <1> DEFINE B == VecsPerBurst
             K == BurstsPerChunk
             S == PaddedVecs(n)
             P == calc_num_padding_vecs(n)
  <1>1. B \in Nat \ {0} /\ K \in Nat \ {0} /\ VecsPerChunk = B * K
    BY StimAssumption DEF VecsPerChunk
  <1>2. P \in 0 .. B - 1 /\ S = n + P /\ S \in Nat  BY Padding DEF PaddedVecs
  <1>3. PICK t \in Nat \ {0} : S = B * t  BY Padding
  <1>4. B * K \in Nat /\ n <= B * K  BY <1>1, ChunkSizeType
  <1> HIDE DEF B, K, S, P
  <1>5. ~(B * K < B * t)
    <2>1. ASSUME B * K < B * t  PROVE FALSE
      <3>1. (B * K) + B <= B * t  BY <2>1, <1>1, <1>3, MultipleGap
      <3>2. (B * K) + B <= n + P  BY <3>1, <1>2, <1>3
      <3> QED  BY <3>2, <1>1, <1>2, <1>4, SMT
    <2> QED  BY <2>1
  <1>6. ~(S > VecsPerChunk)
    <2>1. ~(B * K < S)  BY <1>3, <1>5
    <2> QED  BY <2>1, <1>1, <1>2, <1>4, SMT
  <1> QED  BY <1>6 DEF S, NumVecChunks

(* The load as PatternLoader sees it, while there is one.                  *)
LEMMA JobOfLoad ==
    ASSUME call.op = "load"
    PROVE  /\ LoadJob = [active |-> TRUE, addr |-> call.addr,
                         len |-> PaddedVecs(num_vecs), done |-> LoadJob.done]
           /\ LoadJob.done = [u \in Units |->
                 IF u = call.unit THEN call.num_loaded
                 ELSE IF u = "a1" /\ u \in Selected THEN PaddedVecs(num_vecs) ELSE 0]
  BY DEF LoadJob

(* A turn that places the only chunk of a unit.                            *)
LEMMA PlaceStep ==
    ASSUME UseInv, LoadStep, num_vecs <= VecsPerChunk,
           NEW i \in UnitChunkIds(num_vecs, call.unit), i \in ChunkIds(num_vecs),
           TurnLoads(call.unit, i),
           mem' = [mem EXCEPT ![call.unit] =
                      artix_mem_write(@, call.addr[call.unit], PatternChunk(num_vecs, i))],
           call' = [call EXCEPT !.num_loaded = @ + ChunkNumVecs(num_vecs, i)]
    PROVE  \E n \in 1 .. VecsPerChunk : Loader!Place(call.unit, n)
  <1> DEFINE u == call.unit
             n == ChunkNumVecs(num_vecs, i)
  <1>1. call.op = "load" /\ u \in Selected /\ u \in Units /\ num_vecs \in Nat \ {0}
        /\ num_vecs' = num_vecs
    BY LoadTurnFacts
  <1>2. i = 0
    <2>1. NumVecChunks(num_vecs) = 1  BY <1>1, FitsOneChunk
    <2> QED  BY <2>1, SMT DEF ChunkIds
  <1>3. /\ n \in 1 .. VecsPerChunk /\ n \in Nat \ {0}
        /\ n <= PaddedVecs(num_vecs)
    BY <1>1, Geometry, ChunkInside
  <1>4. /\ call = [op |-> "load", unit |-> u, addr |-> call.addr,
                   num_loaded |-> call.num_loaded]
        /\ call.num_loaded = 0
    <2>1. /\ call = [op |-> "load", unit |-> u, addr |-> call.addr,
                     num_loaded |-> call.num_loaded]
          /\ call.num_loaded = Delivered(u)
      BY <1>1 DEF UseInv, LoadCounts
    <2>2. Delivered(u) = i * VecsPerChunk  BY DEF TurnLoads
    <2>3. i * VecsPerChunk = 0  BY <1>2, ChunkSizeType, SMT
    <2> QED  BY <2>1, <2>2, <2>3
  <1>5. 0 + n = n /\ 0 + (n - 1) = n - 1 /\ (0 + n) - 1 = n - 1  BY <1>3, SMT
  <1>6. call' = [op |-> "load", unit |-> u, addr |-> call.addr, num_loaded |-> n]
    <2> HIDE DEF n, u
    <2> QED  BY <1>4, <1>5 DEF n, u
  <1>7. /\ LoadJob.active /\ LoadJob.addr = call.addr /\ LoadJob.len = PaddedVecs(num_vecs)
        /\ LoadJob.done[u] = 0
    BY <1>1, <1>4, JobOfLoad
  <1>8. LoadJob' = [LoadJob EXCEPT !.done[u] = @ + n]
    <2> DEFINE before == [v \in Units |->
                   IF v = u THEN 0
                   ELSE IF v = "a1" /\ v \in Selected THEN PaddedVecs(num_vecs) ELSE 0]
               after == [v \in Units |->
                   IF v = u THEN n
                   ELSE IF v = "a1" /\ v \in Selected THEN PaddedVecs(num_vecs) ELSE 0]
    <2>1. LoadJob = [active |-> TRUE, addr |-> call.addr, len |-> PaddedVecs(num_vecs),
                     done |-> before]
      BY <1>1, <1>4 DEF LoadJob
    <2>2. LoadJob' = [active |-> TRUE, addr |-> call.addr, len |-> PaddedVecs(num_vecs),
                      done |-> after]
      <3>1. /\ call'.op = "load" /\ call'.unit = u /\ call'.addr = call.addr
            /\ call'.num_loaded = n
        BY <1>6
      <3> QED  BY <3>1, <1>1 DEF LoadJob
    <2>3. [before EXCEPT ![u] = @ + n] = after
      <3> HIDE DEF n, u
      <3> QED  BY <1>1, <1>5
    <2> HIDE DEF before, after, n, u
    <2>4. ASSUME NEW J, NEW a, NEW l, NEW b,
                 J = [active |-> TRUE, addr |-> a, len |-> l, done |-> b]
          PROVE  [J EXCEPT !.done[u] = @ + n]
                    = [active |-> TRUE, addr |-> a, len |-> l,
                       done |-> [b EXCEPT ![u] = @ + n]]
      <3> DEFINE T == [active : {TRUE}, addr : {a}, len : {l},
                       done : {b, [b EXCEPT ![u] = @ + n]}]
                 K == [J EXCEPT !.done[u] = @ + n]
      <3>1. J \in T /\ J.done = b /\ J.addr = a /\ J.len = l /\ J.active = TRUE
        BY <2>4
      <3>2. /\ K \in T /\ K.active = TRUE /\ K.addr = a /\ K.len = l
            /\ K.done = [b EXCEPT ![u] = @ + n]
        BY <3>1
      <3> HIDE DEF K
      <3>3. K = [active |-> TRUE, addr |-> a, len |-> l, done |-> [b EXCEPT ![u] = @ + n]]
        BY <3>2
      <3> QED  BY <3>3 DEF K
    <2> QED  BY <2>1, <2>2, <2>3, <2>4
  <1>9. mem' = [mem EXCEPT ![u] = [k \in DOMAIN @ |->
           IF k - LoadJob.addr[u] \in LoadJob.done[u] .. LoadJob.done[u] + n - 1
           THEN Loader!PatternAt(k - LoadJob.addr[u]) ELSE @[k]]]
    <2> DEFINE a == call.addr[u]
               data == PatternChunk(num_vecs, i)
    <2>1. DOMAIN data = 0 .. n - 1  BY DEF PatternChunk
    <2>2. ASSUME NEW j \in 0 .. n - 1  PROVE data[j] = Loader!PatternAt(j)
      <3>1. (i * VecsPerChunk) + j = j
        <4>1. i * VecsPerChunk = 0  BY <1>2, ChunkSizeType, SMT
        <4> QED  BY <4>1, <1>3, SMT
      <3>2. data[j] = Pattern(j)  BY <3>1 DEF PatternChunk
      <3> QED  BY <3>2 DEF Pattern, Loader!PatternAt
    <2>3. artix_mem_write(mem[u], a, data) = [k \in DOMAIN mem[u] |->
             IF k - a \in 0 .. n - 1 THEN Loader!PatternAt(k - a) ELSE mem[u][k]]
      <3> HIDE DEF data, n, u, a
      <3> QED  BY <2>1, <2>2 DEF artix_mem_write
    <2> HIDE DEF n, data
    <2> QED  BY <2>3, <1>5, <1>7 DEF data
  <1>10. Loader!Place(u, n)
    <2>1. LoadJob.done[u] + n <= LoadJob.len  BY <1>3, <1>5, <1>7
    <2> HIDE DEF n
    <2> QED  BY <1>1, <1>7, <1>8, <1>9, <2>1 DEF Loader!Place
  <1> HIDE DEF n
  <1> QED  BY <1>3, <1>10

(* Every step of the library on a stim that fits one chunk is a step of    *)
(* PatternLoader, or leaves tester memory and the load alone.              *)
LEMMA LoaderStep ==
    ASSUME UseInv, [UseNext]_useVars, num_vecs <= VecsPerChunk
    PROVE  [LoaderNext]_(Loader!pvars)
  <1>1. CASE ~LoadStep
    <2>1. /\ mem' = mem
          /\ call.op # "load" \/ UNCHANGED <<call, num_vecs>>
      BY <1>1, LeavesMemory
    <2>2. CASE call.op = "load"
      <3>1. call' = call /\ num_vecs' = num_vecs  BY <2>1, <2>2
      <3>2. LoadJob' = LoadJob  BY <3>1 DEF LoadJob
      <3> QED  BY <2>1, <3>2 DEF Loader!pvars
    <2>3. CASE call.op # "load" /\ call'.op # "load"
      <3>1. LoadJob' = LoadJob  BY <2>3 DEF LoadJob
      <3> QED  BY <2>1, <3>1 DEF Loader!pvars
    <2>4. CASE call.op # "load" /\ call'.op = "load"
      <3>1. PICK addr \in [Units -> Addrs] :
               /\ call' = [op |-> "load", unit |-> FirstUnit, addr |-> addr,
                           num_loaded |-> 0]
               /\ UNCHANGED num_vecs
        BY <1>1, <2>4, LeavesMemory
      <3>2. /\ call'.op = "load" /\ call'.unit = FirstUnit /\ call'.addr = addr
            /\ call'.num_loaded = 0 /\ num_vecs' = num_vecs
        BY <3>1
      <3>3. LoadJob' = [active |-> TRUE, addr |-> addr, len |-> PaddedVecs(num_vecs),
                        done |-> [u \in Units |-> 0]]
        <4>1. \A u \in Units : u # FirstUnit => ~(u = "a1" /\ u \in Selected)
          BY DEF FirstUnit
        <4> QED  BY <3>2, <4>1 DEF LoadJob
      <3>4. ~LoadJob.active  BY <2>4 DEF LoadJob
      <3>5. Loader!Start(addr, PaddedVecs(num_vecs))
        BY <2>1, <3>3, <3>4 DEF Loader!Start
      <3> QED  BY <3>5 DEF LoaderNext
    <2> QED  BY <2>2, <2>3, <2>4
  <1>2. CASE LoadStep
    <2> DEFINE u == call.unit
    <2>1. call.op = "load" /\ u \in Selected /\ u \in Units /\ num_vecs' = num_vecs
      BY <1>2, LoadTurnFacts
    <2>2. /\ call = [op |-> "load", unit |-> u, addr |-> call.addr,
                     num_loaded |-> call.num_loaded]
          /\ call.num_loaded = Delivered(u)
      BY <2>1 DEF UseInv, LoadCounts
    <2>3. CASE UNCHANGED <<mem, call>>
      <3>1. LoadJob' = LoadJob  BY <2>1, <2>3 DEF LoadJob
      <3> QED  BY <2>3, <3>1 DEF Loader!pvars
    <2>4. CASE /\ UNCHANGED mem /\ Delivered(u) = PaddedVecs(num_vecs)
               /\ ~IsLastUnit(u) /\ call' = NextUnit
      <3>1. u = "a1"  BY <2>1, <2>4, UnitOrder
      <3>2. call' = [op |-> "load", unit |-> "a2", addr |-> call.addr, num_loaded |-> 0]
        BY <2>2, <2>4, NextUnitRecord
      <3>3. /\ call'.op = "load" /\ call'.unit = "a2" /\ call'.addr = call.addr
            /\ call'.num_loaded = 0
        BY <3>2
      <3>4. call.num_loaded = PaddedVecs(num_vecs)  BY <2>2, <2>4
      <3>5. [v \in Units |-> IF v = "a2" THEN 0
                ELSE IF v = "a1" /\ v \in Selected THEN PaddedVecs(num_vecs) ELSE 0]
            = [v \in Units |-> IF v = u THEN call.num_loaded
                ELSE IF v = "a1" /\ v \in Selected THEN PaddedVecs(num_vecs) ELSE 0]
        BY <3>1, <3>4, <2>1 DEF Units
      <3>6. LoadJob' = LoadJob  BY <3>3, <3>5, <2>1 DEF LoadJob
      <3> QED  BY <2>4, <3>6 DEF Loader!pvars
    <2>5. CASE /\ UNCHANGED mem /\ Delivered(u) = PaddedVecs(num_vecs)
               /\ IsLastUnit(u)
               /\ call' = [op |-> "none", returned |-> call.num_loaded]
      <3>1. LoadJob' = [active |-> FALSE]  BY <2>5 DEF LoadJob
      <3>2. call.num_loaded = PaddedVecs(num_vecs)  BY <2>2, <2>5
      <3>3. \A v \in Selected : v = u \/ v = "a1"
        BY <2>1, <2>5, UnitOrder DEF Units
      <3>4. /\ LoadJob.active /\ LoadJob.len = PaddedVecs(num_vecs)
            /\ \A v \in Selected : LoadJob.done[v] = PaddedVecs(num_vecs)
        BY <2>1, <3>2, <3>3, UnitOrder, JobOfLoad
      <3>5. Loader!Finish  BY <2>5, <3>1, <3>4 DEF Loader!Finish, Loader!NoJob
      <3> QED  BY <3>5 DEF LoaderNext
    <2>6. ASSUME NEW i \in UnitChunkIds(num_vecs, u), i \in ChunkIds(num_vecs),
                 TurnLoads(u, i),
                 mem' = [mem EXCEPT ![u] = artix_mem_write(@, call.addr[u],
                                               PatternChunk(num_vecs, i))],
                 call' = [call EXCEPT !.num_loaded = @ + ChunkNumVecs(num_vecs, i)]
          PROVE  [LoaderNext]_(Loader!pvars)
      <3>1. \E n \in 1 .. VecsPerChunk : Loader!Place(u, n)
        BY <1>2, <2>6, PlaceStep
      <3> QED  BY <2>1, <3>1 DEF LoaderNext
    <2> QED  BY <1>2, <2>3, <2>4, <2>5, <2>6, LoadTurnFacts
  <1> QED  BY <1>1, <1>2

(* Where init_stim allows no stim longer than a chunk, artix_load_stim     *)
(* implements PatternLoader: every unit gets the whole padded pattern from *)
(* its address on.  (With more than one chunk it does not: each chunk goes *)
(* to the same address, artix.c:911, which run load_many_chunks shows.)    *)
THEOREM OneChunkLoads == MAX_NUM_VECS <= VecsPerChunk => (UseSpec => LoadsPattern)
  <1> SUFFICES ASSUME MAX_NUM_VECS <= VecsPerChunk  PROVE UseSpec => LoadsPattern
    OBVIOUS
  <1>1. ASSUME UseInv, [UseNext]_useVars  PROVE [LoaderNext]_(Loader!pvars)
    <2>1. num_vecs <= VecsPerChunk
      <3>1. num_vecs <= MAX_NUM_VECS  BY <1>1 DEF UseInv, Lengths
      <3>2. num_vecs \in Nat  BY <1>1, SMT DEF UseInv, IInv, TypeOK
      <3> QED  BY <3>1, <3>2, StimAssumption, ChunkSizeType, SMT
    <2> QED  BY <1>1, <2>1, LoaderStep
  <1>2. UseInv /\ [UseNext]_useVars => [LoaderNext]_(Loader!pvars)  BY <1>1
  <1> QED  BY <1>2, UseInvariance, PTL DEF UseSpec, LoadsPattern

=============================================================================
