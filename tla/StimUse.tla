------------------------------- MODULE StimUse -------------------------------
(***************************************************************************)
(* The library's own users of the chunk reader, and what they do with the  *)
(* chunks: artix_load_stim (src/board/artix.c) writes them to the memory   *)
(* of the artix units, stim_serialize_to_path (src/stim.c) writes them to  *)
(* a raw file, from which get_stim_by_path makes a new stim.  Each call    *)
(* runs to its end before the next begins; one step is one turn of its     *)
(* loop over the chunks.  Addresses and sizes count vectors (128 bytes).   *)
(***************************************************************************)
EXTENDS StimChunks

CONSTANTS
    Addrs,    \* load addresses the client uses
    MaxAddr,  \* the highest load address artix_load_stim accepts
    MemVecs   \* bound: vectors of tester memory modelled per unit

ASSUME UseAssumption ==
    /\ Addrs \subseteq Nat
    /\ MaxAddr \in Nat
    /\ MemVecs \in Nat

VARIABLES
    mem,   \* memory of each unit (external: the device behind artix_mem_write)
    call,  \* the call under way: its loop variables
    file   \* the raw file on disk, NULL if there is none

useVars == <<vars, mem, call, file>>

EMPTY == -3    \* memory never written

NoCall == [op |-> "none"]

(* The units in the order both loops take them.                            *)
FirstUnit == IF "a1" \in Selected THEN "a1" ELSE "a2"
IsLastUnit(u) == u = "a2" \/ "a2" \notin Selected

(* A stim made from a dots is read once: a second pass over it is blank    *)
(* (StimChunks, LoadedIsFilled).  A raw stim is read MaxPasses times.      *)
MayRead ==
    \A u \in Selected : pass[u] < (IF stim_type = "dots" THEN 1 ELSE MaxPasses)

-----------------------------------------------------------------------------
(* artix_load_stim                                                         *)

BadAddr(a) == a > MaxAddr \/ a % VecsPerBurst # 0

(* artix_load_stim up to its loop: an address out of range or not aligned  *)
(* to a burst ends the process (bye).                                      *)
BeginLoad(addr) ==
    /\ alive /\ call.op = "none" /\ MayRead
    /\ \/ /\ \E u \in Units : BadAddr(addr[u])
          /\ die /\ UNCHANGED call
       \/ /\ ~\E u \in Units : BadAddr(addr[u])
          /\ call' = [op |-> "load", unit |-> FirstUnit, addr |-> addr, num_loaded |-> 0]
          /\ UNCHANGED vars
    /\ UNCHANGED <<mem, file>>

(* What artix_mem_write leaves in memory: data from address a on, in whole *)
(* bursts, the rest untouched. The fabric commands and the DMA slices that *)
(* bring it there are abstracted.                                          *)
artix_mem_write(m, a, data) ==
    [k \in DOMAIN m |-> IF k - a \in DOMAIN data THEN data[k - a] ELSE m[k]]

(* Mutant: the load address of unit a1 serves both units.                  *)
LoadAddrOfA1 == call.addr["a1"]

(* load_addr: set once per unit, before the loop over its chunks.          *)
load_addr == call.addr[call.unit]

(* Mutant: the byte count runs on from unit a1 into unit a2.               *)
NextUnitKeepsCount == [call EXCEPT !.unit = "a2"]

(* Mutant: the loop goes on with the unit it has just finished.            *)
NextUnitStays == [call EXCEPT !.num_loaded = 0]

NextUnit == [call EXCEPT !.unit = "a2", !.num_loaded = 0]

(* One turn of the loop: the next chunk goes to memory; at the end of a    *)
(* unit's chunks the loop moves to the other unit or returns.              *)
LoadStep ==
    /\ call.op = "load"
    /\ stim_load_next_chunk(call.unit)
    /\ LET u == call.unit
           i == cur_vec_chunk_id'[u]
       IN  \/ /\ ~alive'
              /\ UNCHANGED <<mem, call>>
           \/ /\ alive' /\ i # -1
              /\ mem' = [mem EXCEPT ![u] =
                     artix_mem_write(@, load_addr, vec_chunks'[u][i].vec_data)]
              /\ call' = [call EXCEPT !.num_loaded = @ + vec_chunks'[u][i].num_vecs]
           \/ /\ alive' /\ i = -1 /\ ~IsLastUnit(u)
              /\ call' = NextUnit
              /\ UNCHANGED mem
           \/ /\ alive' /\ i = -1 /\ IsLastUnit(u)
              /\ call' = [op |-> "none", returned |-> call.num_loaded]
              /\ UNCHANGED mem
    /\ UNCHANGED file

-----------------------------------------------------------------------------
(* stim_serialize_to_path and get_stim_by_path                             *)

NoImages == [u \in Units |-> [i \in UnitChunkIds(num_vecs, u) |-> NULL]]

(* The file is truncated when it is opened and written at the end.         *)
BeginSerialize ==
    /\ alive /\ call.op = "none" /\ MayRead
    /\ call' = [op |-> "serialize", unit |-> FirstUnit, images |-> NoImages]
    /\ file' = NULL
    /\ UNCHANGED <<vars, mem>>

(* Mutant: the images are stored one chunk too late.                       *)
SlotAfter(i) == i + 1

(* set_VecChunk stores a chunk's image under the chunk's id.               *)
ChunkSlot(i) == i

(* One turn of the loop: the next chunk's image joins the message; behind  *)
(* the last chunk of the last unit the message is written to the file.     *)
stim_serialize_chunk ==
    /\ call.op = "serialize"
    /\ stim_load_next_chunk(call.unit)
    /\ LET u == call.unit
           i == cur_vec_chunk_id'[u]
       IN  \/ /\ ~alive'
              /\ UNCHANGED <<call, file>>
           \/ /\ alive' /\ i # -1
              /\ call' = [call EXCEPT !.images[u] = [j \in DOMAIN @ |->
                     IF j = ChunkSlot(i) THEN LZ4_compress(vec_chunks'[u][i].vec_data)
                                         ELSE @[j]]]
              /\ UNCHANGED file
           \/ /\ alive' /\ i = -1 /\ ~IsLastUnit(u)
              /\ call' = [call EXCEPT !.unit = "a2"]
              /\ UNCHANGED file
           \/ /\ alive' /\ i = -1 /\ IsLastUnit(u)
              /\ file' = [num_vecs |-> num_vecs, images |-> call.images]
              /\ call' = NoCall
    /\ UNCHANGED mem

(* Mutant: every chunk gets the image of the first.                        *)
deserialize_first_chunk ==
    [u \in Units |-> [i \in DOMAIN file.images[u] |->
        create_vec_chunk(ChunkNumVecs(file.num_vecs, i), file.images[u][0])]]

(* get_stim_by_path on the file: the chunks of the new stim are cut as the *)
(* file says and carry its images.                                         *)
deserialize_chunk ==
    [u \in Units |-> [i \in DOMAIN file.images[u] |->
        create_vec_chunk(ChunkNumVecs(file.num_vecs, i), file.images[u][i])]]

OpenFile ==
    /\ alive /\ call.op = "none" /\ file # NULL /\ "raw" \in StimTypes
    /\ NewStim("raw", file.num_vecs, deserialize_chunk)
    /\ UNCHANGED <<dotsVars, mem, call, file>>

(* get_stim_by_dots between two calls.                                     *)
RemakeStim ==
    /\ call.op = "none" /\ get_stim_by_dots
    /\ UNCHANGED <<mem, call, file>>

-----------------------------------------------------------------------------

UseInit ==
    /\ Init
    /\ mem = [u \in Units |-> [k \in 0 .. MemVecs - 1 |-> EMPTY]]
    /\ call = NoCall
    /\ file = NULL

UseNext ==
    \/ \E addr \in [Units -> Addrs] : BeginLoad(addr)
    \/ LoadStep
    \/ BeginSerialize
    \/ stim_serialize_chunk
    \/ OpenFile
    \/ RemakeStim

(* A call that has begun is run to its end by the thread that made it.     *)
UseFairness == WF_useVars(LoadStep) /\ WF_useVars(stim_serialize_chunk)

UseSpec == UseInit /\ [][UseNext]_useVars /\ UseFairness

-----------------------------------------------------------------------------
(* Properties                                                              *)

(* Between two calls the reader is at rest: no unit is part way through    *)
(* its chunks and no chunk buffer is left allocated, whatever the calls    *)
(* did, so the library never trips over its own one-unit-at-a-time rule    *)
(* (stim.c:578-589).                                                       *)
ReaderAtRest ==
    call.op = "none" =>
        \A u \in Units : /\ cur_vec_chunk_id[u] = -1
                         /\ \A i \in DOMAIN vec_chunks[u] : ~vec_chunks[u][i].is_loaded

(* A file on disk holds every chunk of both units, each image being the    *)
(* chunk's slice of the pattern (stim.c:1520-1599), also when the stim it  *)
(* was written from came from such a file and was loaded before.           *)
FileIsPattern ==
    file # NULL =>
        \A u \in Units :
            /\ DOMAIN file.images[u] = UnitChunkIds(file.num_vecs, u)
            /\ \A i \in DOMAIN file.images[u] :
                  file.images[u][i] = LZ4_compress(PatternChunk(file.num_vecs, i))

(* The library's users of the reader, taken together, are a client of      *)
(* StimChunks (or end the process): in particular a stim opened from a     *)
(* file the library wrote is the raw stim that StimChunks assumes.         *)
UsesReader == Init /\ [][Next \/ die]_vars

(* artix_load_stim writes only inside [load_addr, load_addr + padded size) *)
(* of the unit it is loading: other patterns are not clobbered.            *)
WritesInsideRegion ==
    [][\A u \in Units : \A k \in DOMAIN mem[u] :
          mem'[u][k] # mem[u][k] =>
              /\ call.op = "load" /\ u = call.unit
              /\ k - call.addr[u] \in 0 .. PaddedVecs(num_vecs) - 1]_useVars

(* "Returns number of bytes loaded per artix unit" (artix.c:840): what     *)
(* artix_load_stim returns is the padded size of the stim.                 *)
ReturnsPaddedSize ==
    [][call.op = "load" /\ call'.op = "none" => call'.returned = PaddedVecs(num_vecs)]_useVars

(* Every call that begins returns, or the process ends.                    *)
CallsReturn == call.op # "none" ~> (call.op = "none" \/ ~alive)

-----------------------------------------------------------------------------
(* Refinement: a load is the load PatternLoader promises                   *)

LoadJob ==
    IF call.op = "load"
    THEN [active |-> TRUE, addr |-> call.addr, len |-> PaddedVecs(num_vecs),
          done |-> [u \in Units |->
              IF u = call.unit THEN call.num_loaded
              ELSE IF u = "a1" /\ u \in Selected THEN PaddedVecs(num_vecs) ELSE 0]]
    ELSE [active |-> FALSE]

Loader == INSTANCE PatternLoader WITH Loaded <- Selected, job <- LoadJob

(* Every step of the library is a step of PatternLoader or leaves tester   *)
(* memory and the load alone.                                              *)
LoaderNext ==
    \/ \E addr \in [Units -> Addrs] : Loader!Start(addr, PaddedVecs(num_vecs))
    \/ \E u \in Units : \E n \in 1 .. VecsPerChunk : Loader!Place(u, n)
    \/ Loader!Finish

LoadsPattern == [][LoaderNext]_(Loader!pvars)

=============================================================================
