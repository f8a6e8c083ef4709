----------------------------- MODULE StimChunks -----------------------------
(***************************************************************************)
(* The chunked reader of a stimulus (src/stim.c): a stim cuts its padded   *)
(* vectors into chunks, one list of chunks per artix unit it drives, and   *)
(* stim_load_next_chunk hands them out one at a time, filling each from a  *)
(* dots (whose read cursors outlive a pass over the chunks) or from the    *)
(* compressed image of a raw file; a stim made from a bitstream (rbt, bit  *)
(* or bin file) dies when it is filled.  The client of this module is any  *)
(* single-threaded caller of the public functions of stim.h: the calls are *)
(* atomic, their order is free.                                            *)
(*                                                                         *)
(* A vector is abstracted to its identity: vector k of the pattern is the  *)
(* number k.  die() ends the process: the specification then stops.        *)
(***************************************************************************)
EXTENDS Integers

CONSTANTS
    Selected,        \* the units the stim's pins select (get_artix_select_by_profile_pins)
    StimTypes,       \* the kinds of stim the run starts from
    NumVecs,         \* vectors appended to the dots before the stim is made
    VecsPerBurst,    \* STIM_NUM_VECS_PER_BURST
    BurstsPerChunk,  \* STIM_CHUNK_SIZE / BURST_BYTES
    MAX_NUM_VECS,    \* the limit init_stim enforces
    MaxPasses,       \* bound: passes over one unit's chunks of one stim
    NULL             \* the null pointer

Units == {"a1", "a2"}

ASSUME StimAssumption ==
    /\ Selected \subseteq Units /\ Selected # {}
    /\ StimTypes \subseteq {"dots", "raw", "bitstream"}
    /\ NumVecs \in Nat \ {0}
    /\ VecsPerBurst \in Nat \ {0}
    /\ BurstsPerChunk \in Nat \ {0}
    /\ MAX_NUM_VECS \in Nat /\ NumVecs <= MAX_NUM_VECS
    /\ MaxPasses \in Nat

VARIABLES
    num_dots_vecs,     \* dots->num_dots_vecs
    dots_vecs,         \* dots->dots_vecs, every entry appended
    cur_dots_vec_id,   \* dots->cur_a1_dots_vec_id, dots->cur_a2_dots_vec_id
    stim_type,         \* stim->type
    num_vecs,          \* stim->num_vecs, without the padding
    cur_vec_chunk_id,  \* stim->cur_a1_vec_chunk_id, stim->cur_a2_vec_chunk_id
    vec_chunks,        \* stim->a1_vec_chunks, stim->a2_vec_chunks
    pass,              \* history: passes completed over a unit's chunks
    alive              \* FALSE once die() has been called

dotsVars == <<num_dots_vecs, dots_vecs, cur_dots_vec_id>>
stimVars == <<stim_type, num_vecs, cur_vec_chunk_id, vec_chunks>>
vars == <<num_dots_vecs, dots_vecs, cur_dots_vec_id, stim_type, num_vecs,
          cur_vec_chunk_id, vec_chunks, pass, alive>>

-----------------------------------------------------------------------------
(* Vectors                                                                 *)

NOP   == -1    \* a padding vector: all pins don't-care
BLANK == -2    \* 128 bytes of 0xff: what memset leaves in an unfilled slot

Vec == Int

(* What the pattern asks for at position k: its vectors, then padding.     *)
Pattern(k) == IF k < NumVecs THEN k ELSE NOP

Other(u) == IF u = "a1" THEN "a2" ELSE "a1"

-----------------------------------------------------------------------------
(* Geometry: how init_stim cuts n vectors into chunks                      *)

VecsPerChunk == VecsPerBurst * BurstsPerChunk

(* Mutant: the remainder itself instead of what is missing to a burst.     *)
calc_num_padding_vecs_remainder(n) == n % VecsPerBurst

calc_num_padding_vecs(n) ==
    IF n % VecsPerBurst # 0 THEN VecsPerBurst - (n % VecsPerBurst) ELSE 0

PaddedVecs(n) == n + calc_num_padding_vecs(n)

NumVecChunks(n) ==
    LET size == PaddedVecs(n)
    IN  IF size > VecsPerChunk
        THEN (size \div VecsPerChunk) + (IF size % VecsPerChunk # 0 THEN 1 ELSE 0)
        ELSE 1

ChunkNumVecs(n, i) ==
    LET size == PaddedVecs(n)
    IN  IF i # NumVecChunks(n) - 1 THEN VecsPerChunk
        ELSE IF size <= VecsPerChunk THEN size
        ELSE IF size % VecsPerChunk # 0 THEN size % VecsPerChunk
        ELSE VecsPerChunk

ChunkIds(n) == 0 .. NumVecChunks(n) - 1

(* The lz4 library, external: an opaque image that decompresses to what    *)
(* was compressed.                                                         *)
LZ4_compress(data)    == [lz4 |-> data]
LZ4_decompress(image) == image.lz4

(* Pattern data of chunk i of a stim with n vectors.                       *)
PatternChunk(n, i) ==
    [j \in 0 .. ChunkNumVecs(n, i) - 1 |-> Pattern(i * VecsPerChunk + j)]

create_vec_chunk(size, image) ==
    [num_vecs |-> size, is_loaded |-> FALSE, is_filled |-> FALSE,
     cur_vec_id |-> 0, vec_data |-> NULL, vec_data_compressed |-> image]

(* The chunks of a new stim: a unit that is not selected has none.         *)
UnitChunkIds(n, u) == IF u \in Selected THEN ChunkIds(n) ELSE {}

init_stim(n) ==
    [u \in Units |-> [i \in UnitChunkIds(n, u) |->
        create_vec_chunk(ChunkNumVecs(n, i), NULL)]]

(* The chunks of a raw file that holds the pattern: StimUse shows that the *)
(* files the library writes do.                                            *)
stim_deserialize(n) ==
    [u \in Units |-> [i \in UnitChunkIds(n, u) |->
        create_vec_chunk(ChunkNumVecs(n, i), LZ4_compress(PatternChunk(n, i)))]]

-----------------------------------------------------------------------------
(* Loading and filling                                                     *)

die == /\ alive' = FALSE
       /\ UNCHANGED <<dotsVars, stimVars, pass>>

(* Mutant: the fill position survives the unload.                          *)
stim_unload_chunk_keeps_position(c) ==
    IF c.is_loaded
    THEN [c EXCEPT !.is_loaded = FALSE, !.is_filled = FALSE, !.vec_data = NULL]
    ELSE c

stim_unload_chunk(c) ==
    IF c.is_loaded
    THEN [c EXCEPT !.is_loaded = FALSE, !.is_filled = FALSE,
                   !.cur_vec_id = 0, !.vec_data = NULL]
    ELSE c

(* Mutant: the previous chunk is never unloaded.                           *)
KeepCurrent(u) == vec_chunks[u]

(* The unit's chunks once stim_load_next_chunk has let go of the current.  *)
UnloadCurrent(u) ==
    [i \in DOMAIN vec_chunks[u] |->
        IF i = cur_vec_chunk_id[u] THEN stim_unload_chunk(vec_chunks[u][i])
                                   ELSE vec_chunks[u][i]]

(* A freshly allocated buffer, memset to 0xff.                             *)
AllocChunk(c) ==
    [c EXCEPT !.vec_data = [j \in 0 .. c.num_vecs - 1 |-> BLANK], !.is_loaded = TRUE]

append_dots_vec_by_nop_vecs(dv, n, nops) ==
    [k \in 0 .. n + nops - 1 |-> IF k < n THEN dv[k] ELSE NOP]

(* How many vectors one fill copies: until the dots or the chunk runs out. *)
NumCopied(c, cursor, n) ==
    IF cursor >= n THEN 0
    ELSE IF n - cursor <= c.num_vecs - c.cur_vec_id THEN n - cursor
    ELSE c.num_vecs - c.cur_vec_id

stim_fill_chunk_by_dots(c, dv, cursor, n) ==
    LET copied == NumCopied(c, cursor, n)
        last   == c.cur_vec_id + copied
    IN  [c EXCEPT
           !.vec_data = [j \in 0 .. c.num_vecs - 1 |->
                            IF j \in c.cur_vec_id .. last - 1
                            THEN dv[cursor + (j - c.cur_vec_id)] ELSE c.vec_data[j]],
           !.cur_vec_id = last,
           !.is_filled = (last + 1 >= c.num_vecs)]

stim_decompress_vec_chunk(c) ==
    [c EXCEPT !.vec_data = LZ4_decompress(c.vec_data_compressed)]

NumChunks(u) == IF u \in Selected THEN NumVecChunks(num_vecs) ELSE 0

(* The padding goes behind the dots when the unit's last chunk is filled.  *)
PaddingFor(u, i) ==
    IF i = NumChunks(u) - 1 THEN calc_num_padding_vecs(num_vecs) ELSE 0

(* Mutant: one read cursor for both units.                                 *)
SharedCursor(u) == cur_dots_vec_id["a1"]

(* Each unit's chunks are filled from the same dots, each at its own place.*)
ReadCursor(u) == cur_dots_vec_id[u]

(* stim_fill_chunk on c, the loaded chunk i of unit u, for a dots stim.    *)
FillFromDots(u, i, c, chunks) ==
    LET n  == num_dots_vecs + PaddingFor(u, i)
        dv == append_dots_vec_by_nop_vecs(dots_vecs, num_dots_vecs, PaddingFor(u, i))
    IN  /\ stim_type = "dots"
        /\ num_dots_vecs' = n
        /\ dots_vecs' = dv
        /\ cur_dots_vec_id' = [cur_dots_vec_id EXCEPT
               ![u] = ReadCursor(u) + NumCopied(c, ReadCursor(u), n)]
        /\ vec_chunks' = [vec_chunks EXCEPT ![u] = [chunks EXCEPT
               ![i] = stim_fill_chunk_by_dots(c, dv, ReadCursor(u), n)]]

(* stim_fill_chunk on c for a raw stim.                                    *)
FillFromImage(u, i, c, chunks) ==
    /\ stim_type = "raw"
    /\ vec_chunks' = [vec_chunks EXCEPT ![u] = [chunks EXCEPT
           ![i] = stim_decompress_vec_chunk(c)]]
    /\ UNCHANGED dotsVars

(* Mutant: a unit that holds its first chunk does not count as busy.       *)
OtherUnitPastFirst(u) == cur_vec_chunk_id[Other(u)] > 0

OtherUnitBusy(u) == cur_vec_chunk_id[Other(u)] >= 0

(* stim_load_next_chunk while the other unit is part way through.          *)
LoadRefused(u) == OtherUnitBusy(u) /\ die

(* Mutant: the chunk id is not reset behind the last chunk.                *)
NextChunkIdNoReset(u) == cur_vec_chunk_id[u] + 1

NextChunkId(u) ==
    IF cur_vec_chunk_id[u] = NumChunks(u) - 1 THEN -1 ELSE cur_vec_chunk_id[u] + 1

(* stim_load_next_chunk past the last chunk: it returns NULL.              *)
EndPass(u) ==
    /\ ~OtherUnitBusy(u)
    /\ cur_vec_chunk_id[u] = NumChunks(u) - 1
    /\ cur_vec_chunk_id' = [cur_vec_chunk_id EXCEPT ![u] = NextChunkId(u)]
    /\ vec_chunks' = [vec_chunks EXCEPT ![u] = UnloadCurrent(u)]
    /\ pass' = [pass EXCEPT ![u] = @ + 1]
    /\ UNCHANGED <<dotsVars, stim_type, num_vecs, alive>>

(* stim_load_next_chunk with a chunk left: unload, allocate, fill.         *)
LoadChunk(u) ==
    LET i == NextChunkId(u)
        chunks == UnloadCurrent(u)
        c == AllocChunk(chunks[i])
    IN  /\ ~OtherUnitBusy(u)
        /\ cur_vec_chunk_id[u] # NumChunks(u) - 1
        /\ cur_vec_chunk_id' = [cur_vec_chunk_id EXCEPT ![u] = i]
        /\ \/ FillFromDots(u, i, c, chunks)
           \/ FillFromImage(u, i, c, chunks)
        /\ UNCHANGED <<stim_type, num_vecs, pass, alive>>

(* stim_fill_chunk on the first chunk of a bitstream: the vectors of the   *)
(* configuration header are shorter than its list of pins, and             *)
(* expand_dots_vec_subvecs dies on the first of them (dots.c:251).         *)
FillDies(u) ==
    /\ ~OtherUnitBusy(u)
    /\ cur_vec_chunk_id[u] # NumChunks(u) - 1
    /\ stim_type = "bitstream"
    /\ die

stim_load_next_chunk(u) ==
    /\ alive /\ pass[u] < MaxPasses
    /\ LoadRefused(u) \/ EndPass(u) \/ LoadChunk(u) \/ FillDies(u)

(* stim_unload_chunk called by the client ("Don't unload manually").       *)
ClientUnload(u, i) ==
    /\ alive
    /\ vec_chunks' = [vec_chunks EXCEPT ![u][i] = stim_unload_chunk(@)]
    /\ UNCHANGED <<dotsVars, stim_type, num_vecs, cur_vec_chunk_id, pass, alive>>

(* A new stim replaces the one in use.                                     *)
NewStim(type, n, chunks) ==
    /\ stim_type' = type
    /\ num_vecs' = n
    /\ vec_chunks' = chunks
    /\ cur_vec_chunk_id' = [u \in Units |-> -1]
    /\ pass' = [u \in Units |-> 0]
    /\ UNCHANGED alive

(* get_stim_by_dots again on the dots as earlier passes left it.           *)
get_stim_by_dots ==
    /\ alive /\ "dots" \in StimTypes
    /\ \/ /\ num_dots_vecs > MAX_NUM_VECS
          /\ die
       \/ /\ num_dots_vecs <= MAX_NUM_VECS
          /\ cur_dots_vec_id' = [u \in Units |-> 0]
          /\ NewStim("dots", num_dots_vecs, init_stim(num_dots_vecs))
          /\ UNCHANGED <<num_dots_vecs, dots_vecs>>

(* get_stim_by_path on a raw file that holds the pattern with n vectors.   *)
get_stim_by_path(n) ==
    /\ alive /\ "raw" \in StimTypes
    /\ NewStim("raw", n, stim_deserialize(n))
    /\ UNCHANGED dotsVars

(* get_stim_by_path on a bitstream whose data, header and footer make n    *)
(* vectors.                                                                *)
get_stim_by_bitstream(n) ==
    /\ alive /\ "bitstream" \in StimTypes
    /\ NewStim("bitstream", n, init_stim(n))
    /\ UNCHANGED dotsVars

-----------------------------------------------------------------------------

Init ==
    /\ num_dots_vecs = NumVecs
    /\ dots_vecs = [k \in 0 .. NumVecs - 1 |-> k]
    /\ cur_dots_vec_id = [u \in Units |-> 0]
    /\ stim_type \in StimTypes
    /\ num_vecs = NumVecs
    /\ cur_vec_chunk_id = [u \in Units |-> -1]
    /\ vec_chunks = IF stim_type = "raw" THEN stim_deserialize(NumVecs)
                                         ELSE init_stim(NumVecs)
    /\ pass = [u \in Units |-> 0]
    /\ alive = TRUE

Next ==
    \/ \E u \in Units : stim_load_next_chunk(u)
    \/ \E u \in Units : \E i \in DOMAIN vec_chunks[u] : ClientUnload(u, i)
    \/ get_stim_by_dots
    \/ \E n \in NumVecs .. num_dots_vecs : get_stim_by_path(n) \/ get_stim_by_bitstream(n)

Spec == Init /\ [][Next]_vars

-----------------------------------------------------------------------------
(* Properties                                                              *)

VecChunk(n, i) ==
    [num_vecs : {ChunkNumVecs(n, i)}, is_loaded : BOOLEAN, is_filled : BOOLEAN,
     cur_vec_id : 0 .. ChunkNumVecs(n, i),
     vec_data : {NULL} \cup [0 .. ChunkNumVecs(n, i) - 1 -> Vec],
     vec_data_compressed : {NULL, LZ4_compress(PatternChunk(n, i))}]

(* The structs of stim.h and dots.h hold values of their types; each read  *)
(* cursor stays within the dots (the index stim_fill_chunk_by_dots reads). *)
TypeOK ==
    /\ num_dots_vecs \in Nat
    /\ dots_vecs \in [0 .. num_dots_vecs - 1 -> Vec]
    /\ cur_dots_vec_id \in [Units -> 0 .. num_dots_vecs]
    /\ stim_type \in StimTypes
    /\ num_vecs \in 1 .. num_dots_vecs
    /\ cur_vec_chunk_id \in [Units -> Int]
    /\ \A u \in Units : cur_vec_chunk_id[u] \in -1 .. NumChunks(u) - 1
    /\ DOMAIN vec_chunks = Units
    /\ \A u \in Units : DOMAIN vec_chunks[u] = UnitChunkIds(num_vecs, u)
    /\ \A u \in Units : \A i \in UnitChunkIds(num_vecs, u) :
          vec_chunks[u][i] \in VecChunk(num_vecs, i)
    /\ pass \in [Units -> Nat]
    /\ alive \in BOOLEAN

(* stim_load_next_chunk never lets the two units be part way through at    *)
(* the same time, whatever order the client calls it in (stim.c:578-589).  *)
UnitExclusion == \E u \in Units : cur_vec_chunk_id[u] = -1

(* At most one chunk buffer (256 MB) is allocated at a time: a loaded      *)
(* chunk is the current chunk of its unit, and with UnitExclusion the only *)
(* one of the stim (stim.c:598-605).                                       *)
OnlyCurrentLoaded ==
    \A u \in Units : \A i \in DOMAIN vec_chunks[u] :
        vec_chunks[u][i].is_loaded => /\ i = cur_vec_chunk_id[u]
                                      /\ cur_vec_chunk_id[Other(u)] = -1

(* A chunk that is not loaded is clean, so that loading it again starts at *)
(* slot 0 and the "cannot refill before calling unload" die of             *)
(* stim_fill_chunk is out of reach (stim.c:714).                           *)
UnloadedIsClean ==
    \A u \in Units : \A i \in DOMAIN vec_chunks[u] :
        LET c == vec_chunks[u][i]
        IN  ~c.is_loaded => ~c.is_filled /\ c.cur_vec_id = 0 /\ c.vec_data = NULL

(* init_stim's chunks are whole bursts, none empty or larger than a chunk, *)
(* and chunk i starts where chunk i-1 ends up to the padded length: the    *)
(* two dies of create_vec_chunk cannot fire (stim.c:306, stim.c:328) for   *)
(* any number of vectors the dots may have grown to.                       *)
ChunkGeometry ==
    \A u \in Selected :
        LET chunks == vec_chunks[u]
            last == NumVecChunks(num_vecs) - 1
        IN  /\ \A i \in DOMAIN chunks :
                  /\ chunks[i].num_vecs \in 1 .. VecsPerChunk
                  /\ chunks[i].num_vecs % VecsPerBurst = 0
                  /\ i # last => chunks[i].num_vecs = VecsPerChunk
            /\ last * VecsPerChunk + chunks[last].num_vecs
                  = num_vecs + calc_num_padding_vecs(num_vecs)

(* On the first pass over a unit's chunks of a dots stim, and on every     *)
(* pass of a raw stim, the loaded chunk holds exactly its slice of the     *)
(* padded pattern: nothing skipped, repeated or left blank, for either     *)
(* unit, in any order of the units' passes, and also for a stim made again *)
(* from a dots that earlier passes have padded.                            *)
LoadedIsPattern ==
    \A u \in Units : \A i \in DOMAIN vec_chunks[u] :
        /\ vec_chunks[u][i].is_loaded
        /\ stim_type = "dots" => pass[u] = 0
        => vec_chunks[u][i].vec_data = PatternChunk(num_vecs, i)

(* "Calling this will also fill the chunk" (stim.c:550): a loaded chunk of *)
(* a dots stim is filled.                                                  *)
LoadedIsFilled ==
    \A u \in Units : \A i \in DOMAIN vec_chunks[u] :
        stim_type = "dots" /\ vec_chunks[u][i].is_loaded => vec_chunks[u][i].is_filled

=============================================================================
