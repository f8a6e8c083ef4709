-------------------------- MODULE StimChunks_proofs --------------------------
(***************************************************************************)
(* Proofs about StimChunks, for every pattern length, burst and chunk size *)
(* and every order of the calls.                                           *)
(***************************************************************************)
EXTENDS StimChunks, Counting

-----------------------------------------------------------------------------
(* Arithmetic                                                              *)

(* A multiple of d leaves no remainder.                                    *)
LEMMA MultipleMod ==
    ASSUME NEW t \in Nat, NEW d \in Nat \ {0}
    PROVE  (d * t) % d = 0
  BY SMT

(* Two different multiples of d are at least d apart.                      *)
LEMMA MultipleGap ==
    ASSUME NEW a \in Nat, NEW b \in Nat, NEW d \in Nat \ {0}, d * a < d * b
    PROVE  (d * a) + d <= d * b
  <1>1. a < b  BY SMT
  <1>2. a + 1 <= b  BY <1>1, SMT
  <1>3. d * (a + 1) <= d * b  BY <1>2, SMT
  <1>4. d * (a + 1) = (d * a) + d  BY SMT
  <1> QED  BY <1>3, <1>4, SMT

(* A chunk is a positive number of vectors.                                *)
LEMMA ChunkSizeType == VecsPerChunk \in Nat \ {0}
  <1>1. VecsPerBurst \in Nat \ {0} /\ BurstsPerChunk \in Nat \ {0}
    BY StimAssumption
  <1> QED  BY <1>1, SMT DEF VecsPerChunk

(* calc_num_padding_vecs adds less than a burst and completes the last one *)
(* (stim.c:77-83).                                                         *)
LEMMA Padding ==
    ASSUME NEW n \in Nat \ {0}
    PROVE  /\ calc_num_padding_vecs(n) \in 0 .. VecsPerBurst - 1
           /\ PaddedVecs(n) \in Nat \ {0}
           /\ \E t \in Nat \ {0} : PaddedVecs(n) = VecsPerBurst * t
  <1> DEFINE B == VecsPerBurst
             q == n \div B
             r == n % B
  <1>0. B \in Nat \ {0}  BY StimAssumption
  <1>1. q \in Nat /\ r \in 0 .. B - 1 /\ n = (B * q) + r
    BY <1>0, DivMod
  <1>2. CASE r = 0
    <2>1. calc_num_padding_vecs(n) = 0  BY <1>2 DEF calc_num_padding_vecs
    <2>2. PaddedVecs(n) = n /\ n = B * q
      BY <2>1, <1>1, <1>2, <1>0, SMT DEF PaddedVecs
    <2>3. q # 0  BY <2>2, <1>0, SMT
    <2>4. 0 \in 0 .. B - 1  BY <1>0, SMT
    <2>5. q \in Nat \ {0}  BY <1>1, <2>3
    <2>6. PaddedVecs(n) \in Nat \ {0} /\ PaddedVecs(n) = B * q  BY <2>2
    <2> HIDE DEF q
    <2> QED  BY <2>1, <2>4, <2>5, <2>6
  <1>3. CASE r # 0
    <2>1. calc_num_padding_vecs(n) = B - r  BY <1>3 DEF calc_num_padding_vecs
    <2>2. B - r \in 1 .. B - 1  BY <1>0, <1>1, <1>3, SMT
    <2>3. PaddedVecs(n) = B * (q + 1)
      <3> HIDE DEF q, r, B
      <3>1. PaddedVecs(n) = n + (B - r)  BY <2>1 DEF PaddedVecs
      <3>2. B * (q + 1) = (B * q) + B  BY <1>0, <1>1, SMT
      <3> QED  BY <3>1, <3>2, <1>0, <1>1, SMT
    <2>4. q + 1 \in Nat \ {0}  BY <1>1, SMT
    <2>5. PaddedVecs(n) \in Nat \ {0}
      <3> HIDE DEF q, r, B
      <3> QED  BY <2>1, <2>2, <1>0, SMT DEF PaddedVecs
    <2>6. calc_num_padding_vecs(n) \in 0 .. B - 1  BY <2>1, <2>2, <1>0, SMT
    <2> QED  BY <2>3, <2>4, <2>5, <2>6
  <1> QED  BY <1>2, <1>3

(* init_stim's cut (stim.c:471-540): chunks are nonempty whole bursts, all *)
(* but the last are full and lie before the padding, and together they are *)
(* exactly the padded pattern.                                             *)
LEMMA Geometry ==
    ASSUME NEW n \in Nat \ {0}
    PROVE  /\ NumVecChunks(n) \in Nat \ {0}
           /\ \A i \in ChunkIds(n) :
                 /\ ChunkNumVecs(n, i) \in 1 .. VecsPerChunk
                 /\ ChunkNumVecs(n, i) % VecsPerBurst = 0
                 /\ i # NumVecChunks(n) - 1 =>
                       /\ ChunkNumVecs(n, i) = VecsPerChunk
                       /\ (i + 1) * VecsPerChunk <= n
           /\ ((NumVecChunks(n) - 1) * VecsPerChunk)
                 + ChunkNumVecs(n, NumVecChunks(n) - 1) = PaddedVecs(n)
  <1> DEFINE B == VecsPerBurst
             K == BurstsPerChunk
             C == VecsPerChunk
             S == PaddedVecs(n)
             P == calc_num_padding_vecs(n)
             N == NumVecChunks(n)
             q == S \div C
             r == S % C
  <1>0. B \in Nat \ {0} /\ K \in Nat \ {0} /\ C \in Nat \ {0} /\ C = B * K
    BY StimAssumption, ChunkSizeType DEF VecsPerChunk
  <1>1. P \in 0 .. B - 1 /\ S \in Nat \ {0} /\ S = n + P
    BY Padding DEF PaddedVecs
  <1>2. PICK t \in Nat \ {0} : S = B * t
    BY Padding
  <1>3. q \in Nat /\ r \in 0 .. C - 1 /\ S = (C * q) + r
    BY <1>0, <1>1, DivMod
  <1>4. r % B = 0 /\ S % B = 0 /\ C % B = 0
    <2> HIDE DEF B, K, C, S, P, N, q, r
    <2>1. r = B * (t - (K * q))
      <3>1. C * q = B * (K * q)  BY <1>0, <1>3, SMT
      <3>2. B * (t - (K * q)) = (B * t) - (B * (K * q))  BY <1>0, <1>2, <1>3, SMT
      <3> QED  BY <3>1, <3>2, <1>0, <1>2, <1>3, SMT
    <2>2. t - (K * q) \in Nat  BY <2>1, <1>0, <1>2, <1>3, SMT
    <2>3. r % B = 0  BY <2>1, <2>2, <1>0, MultipleMod
    <2>4. S % B = 0  BY <1>0, <1>2, MultipleMod
    <2>5. C % B = 0  BY <1>0, MultipleMod
    <2> QED  BY <2>3, <2>4, <2>5
  <1>5. /\ N \in Nat \ {0}
        /\ ((N - 1) * C) + ChunkNumVecs(n, N - 1) = S
        /\ ChunkNumVecs(n, N - 1) \in 1 .. C
        /\ ChunkNumVecs(n, N - 1) % B = 0
    <2>1. CASE S <= C
      <3>1. N = 1  BY <2>1, <1>0, <1>1, SMT DEF NumVecChunks
      <3>2. ChunkNumVecs(n, N - 1) = S  BY <2>1, <3>1 DEF ChunkNumVecs
      <3> HIDE DEF B, K, C, S, P, N, q, r
      <3> QED  BY <3>1, <3>2, <2>1, <1>0, <1>1, <1>4, SMT
    <2>2. CASE S > C /\ r # 0
      <3>1. N = q + 1  BY <2>2, <1>0, <1>1 DEF NumVecChunks
      <3>2. ChunkNumVecs(n, N - 1) = r
        <4>1. ~(S <= C)  BY <2>2, <1>0, <1>1, SMT
        <4> QED  BY <2>2, <4>1 DEF ChunkNumVecs
      <3> HIDE DEF B, K, C, S, P, N, q, r
      <3>3. N - 1 = q /\ q * C = C * q  BY <3>1, <1>0, <1>3, SMT
      <3> QED  BY <3>1, <3>2, <3>3, <2>2, <1>0, <1>1, <1>3, <1>4, SMT
    <2>3. CASE S > C /\ r = 0
      <3>0. q \in Nat /\ q + 0 = q BY <1>3, SMT
      <3>1. N = q  BY <2>3, <1>0, <1>1, <3>0 DEF NumVecChunks
      <3>2. ChunkNumVecs(n, N - 1) = C
        <4>1. ~(S <= C)  BY <2>3, <1>0, <1>1, SMT
        <4> QED  BY <2>3, <4>1 DEF ChunkNumVecs
      <3> HIDE DEF B, K, C, S, P, N, q, r
      <3>3. q \in Nat \ {0}
        <4>1. q # 0  BY <2>3, <1>0, <1>3, SMT
        <4> QED  BY <4>1, <1>3
      <3>4. (q - 1) * C = (C * q) - C  BY <3>3, <1>0, SMT
      <3> QED  BY <3>1, <3>2, <3>3, <3>4, <2>3, <1>0, <1>1, <1>3, <1>4, SMT
    <2>4. S <= C \/ (S > C /\ r # 0) \/ (S > C /\ r = 0)
      <3> HIDE DEF C, S, r
      <3> QED  BY <1>0, <1>1, <1>3, SMT
    <2> QED  BY <2>1, <2>2, <2>3, <2>4
  <1>6. ASSUME NEW i \in 0 .. N - 1, i # N - 1
        PROVE  ChunkNumVecs(n, i) = C /\ (i + 1) * C <= n
    <2>1. ChunkNumVecs(n, i) = C  BY <1>6 DEF ChunkNumVecs
    <2> HIDE DEF B, K, C, S, P, N, q, r
    <2>2. i + 1 <= N - 1 /\ i + 1 \in Nat /\ N - 1 \in Nat  BY <1>5, <1>6, SMT
    <2>3. (i + 1) * C <= (N - 1) * C  BY <2>2, <1>0, SMT
    <2>4. (i + 1) * C < S  BY <2>3, <2>2, <1>0, <1>1, <1>5, SMT
    <2>5. (i + 1) * C = B * (K * (i + 1))  BY <2>2, <1>0, SMT
    <2>6. B * (K * (i + 1)) + B <= B * t
      <3>1. K * (i + 1) \in Nat  BY <2>2, <1>0, SMT
      <3>2. B * (K * (i + 1)) < B * t  BY <2>4, <2>5, <1>2
      <3> QED  BY <3>1, <3>2, <1>0, <1>2, MultipleGap
    <2>7. (i + 1) * C \in Nat  BY <2>2, <1>0, SMT
    <2>8. (i + 1) * C + B <= S  BY <2>5, <2>6, <1>2
    <2>9. (i + 1) * C <= n  BY <2>7, <2>8, <1>0, <1>1, SMT
    <2> QED  BY <2>1, <2>9
  <1>7. C \in 1 .. C  BY <1>0, SMT
  <1> HIDE DEF B, K, C, S, P, N, q, r
  <1>8. \A i \in 0 .. N - 1 :
           /\ ChunkNumVecs(n, i) \in 1 .. C
           /\ ChunkNumVecs(n, i) % B = 0
           /\ i # N - 1 => /\ ChunkNumVecs(n, i) = C
                           /\ (i + 1) * C <= n
    BY <1>4, <1>5, <1>6, <1>7
  <1> QED  BY <1>5, <1>8 DEF ChunkIds, B, C, S, N

-----------------------------------------------------------------------------
(* The inductive invariant                                                 *)

(* How far the unit's read cursor has come when its current chunk is the   *)
(* cur-th: the end of that chunk.                                          *)
Delivered(u) ==
    IF cur_vec_chunk_id[u] = -1 THEN 0
    ELSE IF cur_vec_chunk_id[u] = NumChunks(u) - 1 THEN PaddedVecs(num_vecs)
    ELSE (cur_vec_chunk_id[u] + 1) * VecsPerChunk

(* The dots only ever grows by padding.                                    *)
DotsInv ==
    /\ NumVecs <= num_dots_vecs
    /\ \A k \in 0 .. num_dots_vecs - 1 : dots_vecs[k] = Pattern(k)

(* On a first pass the cursor is where the chunks handed out so far end.   *)
CursorInv ==
    stim_type = "dots" =>
        \A u \in Units : pass[u] = 0 => cur_dots_vec_id[u] = Delivered(u)

(* The image of a raw chunk is never touched.                              *)
ImageInv ==
    stim_type = "raw" =>
        \A u \in Units : \A i \in UnitChunkIds(num_vecs, u) :
            vec_chunks[u][i].vec_data_compressed = LZ4_compress(PatternChunk(num_vecs, i))

IInv ==
    /\ TypeOK
    /\ UnitExclusion
    /\ OnlyCurrentLoaded
    /\ UnloadedIsClean
    /\ DotsInv
    /\ CursorInv
    /\ ImageInv
    /\ LoadedIsPattern

-----------------------------------------------------------------------------
(* What the operators on one chunk do                                      *)

(* A chunk that holds no buffer and starts its next fill at slot 0.        *)
Clean(c) == ~c.is_loaded /\ ~c.is_filled /\ c.cur_vec_id = 0 /\ c.vec_data = NULL

(* The pattern slice of a chunk has the type of its buffer.                *)
LEMMA PatternChunkType ==
    ASSUME NEW n \in Nat \ {0}, NEW i \in ChunkIds(n)
    PROVE  /\ ChunkNumVecs(n, i) \in Nat \ {0}
           /\ PatternChunk(n, i) \in [0 .. ChunkNumVecs(n, i) - 1 -> Vec]
  <1>1. ChunkNumVecs(n, i) \in 1 .. VecsPerChunk /\ VecsPerChunk \in Nat
    BY Geometry, ChunkSizeType
  <1>2. ChunkNumVecs(n, i) \in Nat \ {0}  BY <1>1, SMT
  <1>3. i \in Nat /\ NumVecs \in Nat
    <2>1. NumVecChunks(n) \in Nat \ {0}  BY Geometry
    <2> QED  BY <2>1, StimAssumption, SMT DEF ChunkIds
  <1>4. ASSUME NEW j \in 0 .. ChunkNumVecs(n, i) - 1
        PROVE  Pattern((i * VecsPerChunk) + j) \in Int
    <2>1. (i * VecsPerChunk) + j \in Int  BY <1>1, <1>2, <1>3, SMT
    <2> QED  BY <2>1 DEF Pattern, NOP
  <1>5. PatternChunk(n, i) \in [0 .. ChunkNumVecs(n, i) - 1 -> Int]
    BY <1>4 DEF PatternChunk
  <1> QED  BY <1>2, <1>5 DEF Vec

(* stim_unload_chunk leaves a chunk clean, or as it was if not loaded.     *)
LEMMA Unload ==
    ASSUME NEW n \in Nat \ {0}, NEW i \in ChunkIds(n), NEW c \in VecChunk(n, i)
    PROVE  LET d == stim_unload_chunk(c)
           IN  /\ d \in VecChunk(n, i)
               /\ ~d.is_loaded
               /\ d.vec_data_compressed = c.vec_data_compressed
               /\ c.is_loaded => Clean(d)
               /\ ~c.is_loaded => d = c
  <1>1. ChunkNumVecs(n, i) \in Nat \ {0}  BY PatternChunkType
  <1>2. 0 \in 0 .. ChunkNumVecs(n, i)  BY <1>1, SMT
  <1> QED  BY <1>2 DEF stim_unload_chunk, VecChunk, Clean

(* A chunk allocated from a clean one: blank, loaded and empty.            *)
LEMMA Alloc ==
    ASSUME NEW n \in Nat \ {0}, NEW i \in ChunkIds(n), NEW c \in VecChunk(n, i),
           Clean(c)
    PROVE  LET d == AllocChunk(c)
           IN  /\ d \in VecChunk(n, i)
               /\ d.is_loaded
               /\ d.num_vecs = ChunkNumVecs(n, i)
               /\ d.cur_vec_id = 0
               /\ d.vec_data \in [0 .. ChunkNumVecs(n, i) - 1 -> Vec]
               /\ d.vec_data_compressed = c.vec_data_compressed
  <1>1. c.num_vecs = ChunkNumVecs(n, i)  BY DEF VecChunk
  <1>2. [j \in 0 .. c.num_vecs - 1 |-> BLANK] \in [0 .. ChunkNumVecs(n, i) - 1 -> Vec]
    BY <1>1 DEF BLANK, Vec
  <1> QED  BY <1>1, <1>2 DEF AllocChunk, VecChunk, Clean

(* One fill stays within the chunk and within the dots, and copies the     *)
(* whole chunk when the dots has enough left.                              *)
LEMMA Copied ==
    ASSUME NEW c, c.num_vecs \in Nat, c.cur_vec_id = 0,
           NEW n \in Nat, NEW cursor \in 0 .. n
    PROVE  /\ NumCopied(c, cursor, n) \in 0 .. c.num_vecs
           /\ cursor + NumCopied(c, cursor, n) \in 0 .. n
           /\ cursor + c.num_vecs <= n => NumCopied(c, cursor, n) = c.num_vecs
  BY SMT DEF NumCopied

(* stim_fill_chunk_by_dots on a freshly allocated chunk.                   *)
LEMMA FillByDots ==
    ASSUME NEW n \in Nat \ {0}, NEW i \in ChunkIds(n), NEW c \in VecChunk(n, i),
           c.is_loaded, c.cur_vec_id = 0,
           c.vec_data \in [0 .. ChunkNumVecs(n, i) - 1 -> Vec],
           NEW m \in Nat, NEW dv \in [0 .. m - 1 -> Vec], NEW cursor \in 0 .. m
    PROVE  LET d == stim_fill_chunk_by_dots(c, dv, cursor, m)
           IN  /\ d \in VecChunk(n, i)
               /\ d.is_loaded
               /\ d.vec_data_compressed = c.vec_data_compressed
               /\ cursor + ChunkNumVecs(n, i) <= m =>
                     d.vec_data = [j \in 0 .. ChunkNumVecs(n, i) - 1 |-> dv[cursor + j]]
  <1> DEFINE V == ChunkNumVecs(n, i)
             k == NumCopied(c, cursor, m)
             d == stim_fill_chunk_by_dots(c, dv, cursor, m)
             data == [j \in 0 .. V - 1 |->
                        IF j \in 0 .. k - 1 THEN dv[cursor + j] ELSE c.vec_data[j]]
  <1>1. V \in Nat \ {0} /\ c.num_vecs = V  BY PatternChunkType DEF VecChunk
  <1>2. /\ k \in 0 .. V
        /\ cursor + k \in 0 .. m
        /\ cursor + V <= m => k = V
    <2>1. c.num_vecs \in Nat  BY <1>1
    <2> QED  BY <1>1, <2>1, Copied
  <1>3. c.cur_vec_id + k = k  BY <1>2, SMT
  <1>4. /\ d.num_vecs = V
        /\ d.is_loaded = c.is_loaded
        /\ d.vec_data_compressed = c.vec_data_compressed
        /\ d.cur_vec_id = k
        /\ d.is_filled = (k + 1 >= V)
        /\ d = [c EXCEPT !.vec_data = d.vec_data, !.cur_vec_id = k, !.is_filled = d.is_filled]
    BY <1>1, <1>3 DEF stim_fill_chunk_by_dots, VecChunk
  <1>5. d.vec_data = data
    <2>1. d.vec_data = [j \in 0 .. c.num_vecs - 1 |->
                            IF j \in c.cur_vec_id .. (c.cur_vec_id + k) - 1
                            THEN dv[cursor + (j - c.cur_vec_id)] ELSE c.vec_data[j]]
      BY DEF stim_fill_chunk_by_dots, VecChunk
    <2>2. ASSUME NEW j \in 0 .. V - 1  PROVE  j - 0 = j
      BY <1>1, SMT
    <2> QED  BY <2>1, <2>2, <1>1, <1>3
  <1>6. data \in [0 .. V - 1 -> Vec]
    <2>1. ASSUME NEW j \in 0 .. V - 1, j \in 0 .. k - 1  PROVE dv[cursor + j] \in Vec
      <3>1. cursor + j \in 0 .. m - 1  BY <2>1, <1>1, <1>2, SMT
      <3> QED  BY <3>1
    <2> QED  BY <2>1
  <1>7. (k + 1 >= V) \in BOOLEAN  BY <1>1, <1>2, SMT
  <1>8. d \in VecChunk(n, i)
    <2> HIDE DEF d, k, data
    <2> QED  BY <1>1, <1>2, <1>4, <1>5, <1>6, <1>7 DEF VecChunk
  <1>9. ASSUME cursor + V <= m
        PROVE  d.vec_data = [j \in 0 .. V - 1 |-> dv[cursor + j]]
    BY <1>9, <1>2, <1>5
  <1> HIDE DEF d
  <1>10. QED  BY <1>4, <1>8, <1>9 DEF d

-----------------------------------------------------------------------------
(* Initial states and the steps that load nothing                          *)

(* A new chunk, with the image of a raw chunk or without one.              *)
LEMMA NewChunk ==
    ASSUME NEW n \in Nat \ {0}, NEW i \in ChunkIds(n),
           NEW image \in {NULL, LZ4_compress(PatternChunk(n, i))}
    PROVE  LET c == create_vec_chunk(ChunkNumVecs(n, i), image)
           IN  c \in VecChunk(n, i) /\ Clean(c) /\ c.vec_data_compressed = image
  <1>1. 0 \in 0 .. ChunkNumVecs(n, i)  BY PatternChunkType, SMT
  <1> QED  BY <1>1 DEF create_vec_chunk, VecChunk, Clean

(* The number of chunks of a unit is the size of its chunk array.          *)
LEMMA UnitChunks ==
    ASSUME num_vecs \in Nat \ {0}, NEW u \in Units
    PROVE  /\ NumChunks(u) \in Nat
           /\ UnitChunkIds(num_vecs, u) = 0 .. NumChunks(u) - 1
           /\ UnitChunkIds(num_vecs, u) \subseteq ChunkIds(num_vecs)
           /\ u \in Selected => NumChunks(u) = NumVecChunks(num_vecs)
           /\ u \notin Selected => NumChunks(u) = 0
  <1>1. NumVecChunks(num_vecs) \in Nat \ {0}  BY Geometry
  <1>2. 0 .. 0 - 1 = {}  BY SMT
  <1> QED  BY <1>1, <1>2 DEF NumChunks, UnitChunkIds, ChunkIds

(* The first stim satisfies the invariant.                                 *)
LEMMA InitInv == Init => IInv
  <1> SUFFICES ASSUME Init  PROVE IInv  OBVIOUS
  <1> USE DEF Init
  <1>1. num_vecs = NumVecs /\ num_dots_vecs = NumVecs /\ NumVecs \in Nat \ {0}
    BY StimAssumption
  <1>2. \A u \in Units : cur_vec_chunk_id[u] = -1 /\ pass[u] = 0 /\ cur_dots_vec_id[u] = 0
    OBVIOUS
  <1>3. /\ DOMAIN vec_chunks = Units
        /\ \A u \in Units :
              /\ DOMAIN vec_chunks[u] = UnitChunkIds(num_vecs, u)
              /\ \A i \in UnitChunkIds(num_vecs, u) :
                    /\ vec_chunks[u][i] \in VecChunk(num_vecs, i)
                    /\ Clean(vec_chunks[u][i])
                    /\ stim_type = "raw" => vec_chunks[u][i].vec_data_compressed
                                               = LZ4_compress(PatternChunk(num_vecs, i))
    <2>1. CASE stim_type # "raw"
      <3>1. vec_chunks = init_stim(NumVecs)  BY <2>1
      <3>2. ASSUME NEW u \in Units, NEW i \in UnitChunkIds(NumVecs, u)
            PROVE  /\ vec_chunks[u][i] = create_vec_chunk(ChunkNumVecs(NumVecs, i), NULL)
                   /\ i \in ChunkIds(NumVecs)
        BY <3>1 DEF init_stim, UnitChunkIds
      <3>3. ASSUME NEW u \in Units, NEW i \in UnitChunkIds(NumVecs, u)
            PROVE  vec_chunks[u][i] \in VecChunk(NumVecs, i) /\ Clean(vec_chunks[u][i])
        BY <3>2, <1>1, NewChunk
      <3>4. DOMAIN vec_chunks = Units
            /\ \A u \in Units : DOMAIN vec_chunks[u] = UnitChunkIds(NumVecs, u)
        BY <3>1 DEF init_stim
      <3> QED  BY <3>3, <3>4, <1>1, <2>1
    <2>2. CASE stim_type = "raw"
      <3>1. vec_chunks = stim_deserialize(NumVecs)  BY <2>2
      <3>2. ASSUME NEW u \in Units, NEW i \in UnitChunkIds(NumVecs, u)
            PROVE  /\ vec_chunks[u][i] = create_vec_chunk(ChunkNumVecs(NumVecs, i),
                                             LZ4_compress(PatternChunk(NumVecs, i)))
                   /\ i \in ChunkIds(NumVecs)
        BY <3>1 DEF stim_deserialize, UnitChunkIds
      <3>3. ASSUME NEW u \in Units, NEW i \in UnitChunkIds(NumVecs, u)
            PROVE  /\ vec_chunks[u][i] \in VecChunk(NumVecs, i)
                   /\ Clean(vec_chunks[u][i])
                   /\ vec_chunks[u][i].vec_data_compressed
                         = LZ4_compress(PatternChunk(NumVecs, i))
        BY <3>2, <1>1, NewChunk
      <3>4. DOMAIN vec_chunks = Units
            /\ \A u \in Units : DOMAIN vec_chunks[u] = UnitChunkIds(NumVecs, u)
        BY <3>1 DEF stim_deserialize
      <3> QED  BY <3>3, <3>4, <1>1
    <2> QED  BY <2>1, <2>2
  <1>4. TypeOK
    <2>1. \A u \in Units : cur_vec_chunk_id[u] \in -1 .. NumChunks(u) - 1
      BY <1>1, <1>2, UnitChunks, SMT
    <2>2. dots_vecs \in [0 .. num_dots_vecs - 1 -> Vec]  BY <1>1, SMT DEF Vec
    <2>3. cur_dots_vec_id \in [Units -> 0 .. num_dots_vecs]  BY <1>1, SMT
    <2>4. num_vecs \in 1 .. num_dots_vecs  BY <1>1, SMT
    <2>5. cur_vec_chunk_id \in [Units -> Int] /\ pass \in [Units -> Nat]  BY SMT
    <2> QED  BY <2>1, <2>2, <2>3, <2>4, <2>5, <1>1, <1>3 DEF TypeOK
  <1>5. UnitExclusion  BY <1>2 DEF UnitExclusion, Units
  <1>6. OnlyCurrentLoaded /\ UnloadedIsClean /\ LoadedIsPattern
    BY <1>3 DEF OnlyCurrentLoaded, UnloadedIsClean, LoadedIsPattern, Clean
  <1>7. DotsInv  BY <1>1, SMT DEF DotsInv, Pattern
  <1>8. CursorInv  BY <1>2 DEF CursorInv, Delivered
  <1>9. ImageInv  BY <1>3 DEF ImageInv
  <1> QED  BY <1>4, <1>5, <1>6, <1>7, <1>8, <1>9 DEF IInv

(* The parts of the invariant about one chunk, d, in chunk slot i of unit  *)
(* u with current ids cur and completed passes p.                          *)
ChunkInv(d, u, i, cur, p) ==
    /\ d \in VecChunk(num_vecs, i)
    /\ d.is_loaded => i = cur[u] /\ cur[Other(u)] = -1
    /\ ~d.is_loaded => Clean(d)
    /\ stim_type = "raw" => d.vec_data_compressed = LZ4_compress(PatternChunk(num_vecs, i))
    /\ d.is_loaded /\ (stim_type = "dots" => p[u] = 0)
          => d.vec_data = PatternChunk(num_vecs, i)

(* The invariant gives ChunkInv of every chunk.                            *)
LEMMA ChunkInvHolds ==
    ASSUME IInv, NEW u \in Units, NEW i \in DOMAIN vec_chunks[u]
    PROVE  /\ ChunkInv(vec_chunks[u][i], u, i, cur_vec_chunk_id, pass)
           /\ i \in ChunkIds(num_vecs) /\ i \in UnitChunkIds(num_vecs, u)
           /\ num_vecs \in Nat \ {0}
  <1>1. num_vecs \in Nat \ {0}  BY SMT DEF IInv, TypeOK
  <1>2. i \in UnitChunkIds(num_vecs, u)  BY DEF IInv, TypeOK
  <1>3. i \in ChunkIds(num_vecs)  BY <1>1, <1>2, UnitChunks
  <1>4. vec_chunks[u][i] \in VecChunk(num_vecs, i)  BY <1>2 DEF IInv, TypeOK
  <1> QED
    BY <1>1, <1>2, <1>3, <1>4
    DEF IInv, ChunkInv, OnlyCurrentLoaded, UnloadedIsClean, ImageInv, LoadedIsPattern, Clean

(* What is left to show of a step that keeps the stim: the dots, the       *)
(* cursors and every chunk.                                                *)
LEMMA Reassemble ==
    ASSUME IInv,
           UNCHANGED <<stim_type, num_vecs>>,
           num_dots_vecs' \in Nat, num_dots_vecs <= num_dots_vecs',
           dots_vecs' \in [0 .. num_dots_vecs' - 1 -> Vec],
           cur_dots_vec_id' \in [Units -> 0 .. num_dots_vecs'],
           cur_vec_chunk_id' \in [Units -> Int],
           \A u \in Units : cur_vec_chunk_id'[u] \in -1 .. NumChunks(u) - 1,
           pass' \in [Units -> Nat], alive' \in BOOLEAN,
           DOMAIN vec_chunks' = Units,
           \A u \in Units : DOMAIN vec_chunks'[u] = UnitChunkIds(num_vecs, u),
           \A u \in Units : \A i \in UnitChunkIds(num_vecs, u) :
               ChunkInv(vec_chunks'[u][i], u, i, cur_vec_chunk_id', pass'),
           UnitExclusion', DotsInv', CursorInv'
    PROVE  IInv'
  <1>1. num_vecs' = num_vecs /\ stim_type' = stim_type  OBVIOUS
  <1>2. \A u \in Units : NumChunks(u)' = NumChunks(u)  BY <1>1 DEF NumChunks
  <1>3. num_vecs' \in 1 .. num_dots_vecs'  BY <1>1, SMT DEF IInv, TypeOK
  <1>4. TypeOK'  BY <1>1, <1>2, <1>3 DEF IInv, TypeOK, ChunkInv
  <1>5. OnlyCurrentLoaded' /\ UnloadedIsClean' /\ ImageInv' /\ LoadedIsPattern'
    BY <1>1 DEF OnlyCurrentLoaded, UnloadedIsClean, ImageInv, LoadedIsPattern, ChunkInv, Clean
  <1> QED  BY <1>4, <1>5 DEF IInv

(* The client's unload preserves the invariant.                            *)
LEMMA ClientUnloadStep ==
    ASSUME IInv, NEW u \in Units, NEW i \in DOMAIN vec_chunks[u], ClientUnload(u, i)
    PROVE  IInv'
  <1> USE DEF ClientUnload, dotsVars
  <1>1. TypeOK  BY DEF IInv
  <1>2. /\ DOMAIN vec_chunks' = Units
        /\ \A v \in Units : DOMAIN vec_chunks'[v] = UnitChunkIds(num_vecs, v)
        /\ \A v \in Units : \A j \in UnitChunkIds(num_vecs, v) :
              vec_chunks'[v][j] = IF v = u /\ j = i THEN stim_unload_chunk(vec_chunks[v][j])
                                                   ELSE vec_chunks[v][j]
    BY <1>1 DEF TypeOK
  <1>3. ASSUME NEW v \in Units, NEW j \in UnitChunkIds(num_vecs, v)
        PROVE  ChunkInv(vec_chunks'[v][j], v, j, cur_vec_chunk_id', pass')
    <2>1. j \in DOMAIN vec_chunks[v]  BY <1>1 DEF TypeOK
    <2>2. /\ ChunkInv(vec_chunks[v][j], v, j, cur_vec_chunk_id, pass)
          /\ j \in ChunkIds(num_vecs) /\ num_vecs \in Nat \ {0}
      BY <2>1, ChunkInvHolds
    <2>3. CASE v = u /\ j = i
      <3>1. vec_chunks'[v][j] = stim_unload_chunk(vec_chunks[v][j])  BY <1>2, <2>3
      <3> QED  BY <3>1, <2>2, Unload DEF ChunkInv
    <2>4. CASE ~(v = u /\ j = i)
      BY <2>2, <2>4, <1>2
    <2> QED  BY <2>3, <2>4
  <1>4. UnitExclusion' /\ DotsInv' /\ CursorInv'
    BY DEF IInv, UnitExclusion, DotsInv, CursorInv, Delivered, NumChunks
  <1>5. num_dots_vecs <= num_dots_vecs'  BY <1>1, SMT DEF TypeOK
  <1>6. UNCHANGED <<stim_type, num_vecs>>  OBVIOUS
  <1>7. /\ num_dots_vecs' \in Nat
        /\ dots_vecs' \in [0 .. num_dots_vecs' - 1 -> Vec]
        /\ cur_dots_vec_id' \in [Units -> 0 .. num_dots_vecs']
        /\ cur_vec_chunk_id' \in [Units -> Int]
        /\ \A v \in Units : cur_vec_chunk_id'[v] \in -1 .. NumChunks(v) - 1
        /\ pass' \in [Units -> Nat] /\ alive' \in BOOLEAN
    BY <1>1 DEF TypeOK
  <1> HIDE DEF ClientUnload
  <1> QED  BY <1>2, <1>3, <1>4, <1>5, <1>6, <1>7, Reassemble

-----------------------------------------------------------------------------
(* The steps of stim_load_next_chunk                                       *)

(* After unloading the current chunk of a unit, none of its chunks is      *)
(* loaded, and the rest of ChunkInv is untouched.                          *)
LEMMA UnloadCurrentFacts ==
    ASSUME IInv, NEW u \in Units
    PROVE  /\ DOMAIN UnloadCurrent(u) = UnitChunkIds(num_vecs, u)
           /\ \A i \in UnitChunkIds(num_vecs, u) :
                 LET d == UnloadCurrent(u)[i]
                 IN  /\ d \in VecChunk(num_vecs, i)
                     /\ Clean(d)
                     /\ stim_type = "raw" => d.vec_data_compressed
                                              = LZ4_compress(PatternChunk(num_vecs, i))
  <1>1. DOMAIN UnloadCurrent(u) = UnitChunkIds(num_vecs, u)
    BY DEF UnloadCurrent, IInv, TypeOK
  <1>2. ASSUME NEW i \in UnitChunkIds(num_vecs, u)
        PROVE  LET d == UnloadCurrent(u)[i]
               IN  /\ d \in VecChunk(num_vecs, i)
                   /\ Clean(d)
                   /\ stim_type = "raw" => d.vec_data_compressed
                                            = LZ4_compress(PatternChunk(num_vecs, i))
    <2>1. i \in DOMAIN vec_chunks[u]  BY DEF IInv, TypeOK
    <2>2. /\ ChunkInv(vec_chunks[u][i], u, i, cur_vec_chunk_id, pass)
          /\ i \in ChunkIds(num_vecs) /\ num_vecs \in Nat \ {0}
      BY <2>1, ChunkInvHolds
    <2>3. CASE i = cur_vec_chunk_id[u]
      <3>1. UnloadCurrent(u)[i] = stim_unload_chunk(vec_chunks[u][i])
        BY <2>1, <2>3 DEF UnloadCurrent
      <3> QED  BY <3>1, <2>2, Unload DEF ChunkInv
    <2>4. CASE i # cur_vec_chunk_id[u]
      <3>1. UnloadCurrent(u)[i] = vec_chunks[u][i]
        BY <2>1, <2>4 DEF UnloadCurrent
      <3> QED  BY <3>1, <2>2, <2>4 DEF ChunkInv
    <2> QED  BY <2>3, <2>4
  <1> QED  BY <1>1, <1>2

(* The other unit is not the unit, and Other is an involution on Units.    *)
LEMMA OtherFacts ==
    ASSUME NEW u \in Units
    PROVE  /\ Other(u) \in Units /\ Other(u) # u /\ Other(Other(u)) = u
           /\ \A v \in Units : v # u => v = Other(u)
  BY DEF Other, Units

(* Returning NULL behind the last chunk preserves the invariant.           *)
LEMMA EndPassStep ==
    ASSUME IInv, NEW u \in Units, EndPass(u)
    PROVE  IInv'
  <1> USE DEF EndPass, dotsVars
  <1>1. TypeOK /\ num_vecs \in Nat \ {0}  BY SMT DEF IInv, TypeOK
  <1>2. /\ cur_vec_chunk_id' = [cur_vec_chunk_id EXCEPT ![u] = -1]
        /\ pass' = [pass EXCEPT ![u] = pass[u] + 1]
    BY <1>1 DEF NextChunkId, TypeOK
  <1>3. /\ DOMAIN vec_chunks' = Units
        /\ vec_chunks'[u] = UnloadCurrent(u)
        /\ \A v \in Units : v # u => vec_chunks'[v] = vec_chunks[v]
    BY <1>1 DEF TypeOK
  <1>4. \A v \in Units : DOMAIN vec_chunks'[v] = UnitChunkIds(num_vecs, v)
    BY <1>1, <1>3, UnloadCurrentFacts DEF TypeOK
  <1>5. ASSUME NEW v \in Units, NEW j \in UnitChunkIds(num_vecs, v)
        PROVE  ChunkInv(vec_chunks'[v][j], v, j, cur_vec_chunk_id', pass')
    <2>1. CASE v = u
      <3>1. vec_chunks'[v][j] = UnloadCurrent(u)[j]  BY <1>3, <2>1
      <3> QED  BY <3>1, <2>1, UnloadCurrentFacts DEF ChunkInv, Clean
    <2>2. CASE v # u
      <3>1. j \in DOMAIN vec_chunks[v]  BY <1>1 DEF TypeOK
      <3>2. ChunkInv(vec_chunks[v][j], v, j, cur_vec_chunk_id, pass)
        BY <3>1, ChunkInvHolds
      <3>3. vec_chunks'[v][j] = vec_chunks[v][j]  BY <1>3, <2>2
      <3>4. v = Other(u) /\ Other(v) = u  BY <2>2, OtherFacts
      <3>5. /\ cur_vec_chunk_id'[v] = cur_vec_chunk_id[v]
            /\ cur_vec_chunk_id'[u] = -1
            /\ pass'[v] = pass[v]
        BY <1>1, <1>2, <2>2 DEF TypeOK
      <3> QED  BY <3>2, <3>3, <3>4, <3>5 DEF ChunkInv
    <2> QED  BY <2>1, <2>2
  <1>6. UnitExclusion'  BY <1>1, <1>2 DEF UnitExclusion, TypeOK
  <1>7. DotsInv'  BY DEF IInv, DotsInv
  <1>8. CursorInv'
    <2>1. ASSUME NEW v \in Units, pass'[v] = 0, stim_type = "dots"
          PROVE  cur_dots_vec_id'[v] = Delivered(v)'
      <3>1. v # u
        <4>1. pass'[u] = pass[u] + 1 /\ pass[u] \in Nat  BY <1>1, <1>2 DEF TypeOK
        <4>2. pass'[u] # 0  BY <4>1, SMT
        <4> QED  BY <4>2, <2>1
      <3>2. /\ cur_vec_chunk_id'[v] = cur_vec_chunk_id[v]
            /\ pass'[v] = pass[v]
        BY <1>1, <1>2, <3>1 DEF TypeOK
      <3>3. Delivered(v)' = Delivered(v)  BY <3>2 DEF Delivered, NumChunks
      <3> QED  BY <3>2, <3>3, <2>1 DEF IInv, CursorInv
    <2> QED  BY <2>1 DEF CursorInv
  <1>9. /\ num_dots_vecs' \in Nat /\ num_dots_vecs <= num_dots_vecs'
        /\ dots_vecs' \in [0 .. num_dots_vecs' - 1 -> Vec]
        /\ cur_dots_vec_id' \in [Units -> 0 .. num_dots_vecs']
        /\ alive' \in BOOLEAN
    BY <1>1, SMT DEF TypeOK
  <1>10. /\ cur_vec_chunk_id' \in [Units -> Int]
         /\ \A v \in Units : cur_vec_chunk_id'[v] \in -1 .. NumChunks(v) - 1
    <2>1. NumChunks(u) \in Nat  BY <1>1, UnitChunks
    <2>2. -1 \in -1 .. NumChunks(u) - 1  BY <2>1, SMT
    <2> QED  BY <1>1, <1>2, <2>2 DEF TypeOK
  <1>11. pass' \in [Units -> Nat]  BY <1>1, <1>2 DEF TypeOK
  <1>12. UNCHANGED <<stim_type, num_vecs>>  OBVIOUS
  <1> HIDE DEF EndPass
  <1> QED
    BY <1>3, <1>4, <1>5, <1>6, <1>7, <1>8, <1>9, <1>10, <1>11, <1>12, Reassemble

(* Appending the padding keeps the dots equal to the pattern.              *)
LEMMA AppendNops ==
    ASSUME IInv, NEW nops \in Nat
    PROVE  LET n  == num_dots_vecs + nops
               dv == append_dots_vec_by_nop_vecs(dots_vecs, num_dots_vecs, nops)
           IN  /\ n \in Nat /\ num_dots_vecs <= n /\ NumVecs <= n
               /\ dv \in [0 .. n - 1 -> Vec]
               /\ \A k \in 0 .. n - 1 : dv[k] = Pattern(k)
  <1> DEFINE n  == num_dots_vecs + nops
             dv == append_dots_vec_by_nop_vecs(dots_vecs, num_dots_vecs, nops)
  <1>1. /\ num_dots_vecs \in Nat /\ dots_vecs \in [0 .. num_dots_vecs - 1 -> Vec]
        /\ NumVecs \in Nat /\ NumVecs <= num_dots_vecs
        /\ \A k \in 0 .. num_dots_vecs - 1 : dots_vecs[k] = Pattern(k)
    BY StimAssumption DEF IInv, TypeOK, DotsInv
  <1>2. n \in Nat /\ num_dots_vecs <= n /\ NumVecs <= n  BY <1>1, SMT
  <1>3. dv = [k \in 0 .. n - 1 |-> IF k < num_dots_vecs THEN dots_vecs[k] ELSE NOP]
    <2>1. num_dots_vecs + (nops - 1) = n - 1  BY <1>1, SMT
    <2> QED  BY <2>1 DEF append_dots_vec_by_nop_vecs
  <1>4. ASSUME NEW k \in 0 .. n - 1  PROVE dv[k] = Pattern(k) /\ dv[k] \in Vec
    <2>1. CASE k < num_dots_vecs
      <3>1. k \in 0 .. num_dots_vecs - 1  BY <1>1, <1>2, <2>1, SMT
      <3> QED  BY <3>1, <2>1, <1>1, <1>3
    <2>2. CASE ~(k < num_dots_vecs)
      <3>1. ~(k < NumVecs)  BY <1>1, <1>2, <2>2, SMT
      <3> QED  BY <3>1, <2>2, <1>3 DEF Pattern, NOP, Vec
    <2> QED  BY <2>1, <2>2
  <1>5. dv \in [0 .. n - 1 -> Vec]  BY <1>3, <1>4
  <1> QED  BY <1>2, <1>4, <1>5

(* Where stim_load_next_chunk goes when a chunk is left, where that chunk  *)
(* ends, and that on a first pass the dots holds all of it, from where the *)
(* cursor is.                                                              *)
LEMMA NextChunkFacts ==
    ASSUME IInv, NEW u \in Units, cur_vec_chunk_id[u] # NumChunks(u) - 1
    PROVE  LET i == NextChunkId(u)
           IN  /\ u \in Selected
               /\ i = cur_vec_chunk_id[u] + 1 /\ i \in Nat
               /\ i \in UnitChunkIds(num_vecs, u) /\ i \in ChunkIds(num_vecs)
               /\ PaddingFor(u, i) \in Nat
               /\ (i * VecsPerChunk) + ChunkNumVecs(num_vecs, i)
                      = IF i = NumChunks(u) - 1 THEN PaddedVecs(num_vecs)
                        ELSE (i + 1) * VecsPerChunk
               /\ (i * VecsPerChunk) + ChunkNumVecs(num_vecs, i)
                      <= num_dots_vecs + PaddingFor(u, i)
               /\ stim_type = "dots" /\ pass[u] = 0 =>
                     cur_dots_vec_id[u] = i * VecsPerChunk
  <1> DEFINE i == NextChunkId(u)
             cur == cur_vec_chunk_id[u]
             C == VecsPerChunk
             V == ChunkNumVecs(num_vecs, i)
  <1>1. /\ num_vecs \in Nat \ {0} /\ num_dots_vecs \in Nat /\ num_vecs <= num_dots_vecs
        /\ cur \in -1 .. NumChunks(u) - 1
    BY SMT DEF IInv, TypeOK
  <1>2. i = cur + 1  BY DEF NextChunkId
  <1>3. /\ NumChunks(u) \in Nat
        /\ UnitChunkIds(num_vecs, u) = 0 .. NumChunks(u) - 1
        /\ UnitChunkIds(num_vecs, u) \subseteq ChunkIds(num_vecs)
        /\ u \in Selected => NumChunks(u) = NumVecChunks(num_vecs)
        /\ u \notin Selected => NumChunks(u) = 0
    BY <1>1, UnitChunks
  <1>4. i \in 0 .. NumChunks(u) - 1 /\ i \in Nat  BY <1>1, <1>2, <1>3, SMT
  <1>5. u \in Selected  BY <1>3, <1>4, SMT
  <1>6. i \in ChunkIds(num_vecs) /\ i \in UnitChunkIds(num_vecs, u)  BY <1>3, <1>4
  <1>7. C \in Nat \ {0}  BY ChunkSizeType
  <1>8. /\ V \in 1 .. C
        /\ i # NumChunks(u) - 1 => V = C /\ (i + 1) * C <= num_vecs
        /\ i = NumChunks(u) - 1 => (i * C) + V = PaddedVecs(num_vecs)
    BY <1>1, <1>3, <1>5, <1>6, Geometry
  <1>9. /\ calc_num_padding_vecs(num_vecs) \in Nat
        /\ PaddedVecs(num_vecs) = num_vecs + calc_num_padding_vecs(num_vecs)
    <2>1. calc_num_padding_vecs(num_vecs) \in 0 .. VecsPerBurst - 1
      BY <1>1, Padding
    <2> QED  BY <2>1, SMT DEF PaddedVecs
  <1>10. PaddingFor(u, i) \in Nat  BY <1>9 DEF PaddingFor
  <1>11. (i * C) + V = IF i = NumChunks(u) - 1 THEN PaddedVecs(num_vecs) ELSE (i + 1) * C
    <2> HIDE DEF i, C, V
    <2>1. (i + 1) * C = (i * C) + C  BY <1>4, <1>7, SMT
    <2> QED  BY <2>1, <1>8
  <1>12. (i * C) + V <= num_dots_vecs + PaddingFor(u, i)
    <2>1. CASE i = NumChunks(u) - 1
      <3>1. PaddingFor(u, i) = calc_num_padding_vecs(num_vecs)
        BY <2>1 DEF PaddingFor
      <3>2. (i * C) + V = num_vecs + calc_num_padding_vecs(num_vecs)
        BY <2>1, <1>11, <1>9
      <3> HIDE DEF i, C, V
      <3> QED  BY <3>1, <3>2, <1>1, <1>9, SMT
    <2>2. CASE i # NumChunks(u) - 1
      <3>1. PaddingFor(u, i) = 0  BY <2>2 DEF PaddingFor
      <3>2. (i * C) + V = (i + 1) * C  BY <2>2, <1>11
      <3>3. (i + 1) * C <= num_vecs  BY <2>2, <1>8
      <3> HIDE DEF i, C, V
      <3>4. (i + 1) * C \in Nat  BY <1>4, <1>7, SMT
      <3> QED  BY <3>1, <3>2, <3>3, <3>4, <1>1, SMT
    <2> QED  BY <2>1, <2>2
  <1>13. ASSUME stim_type = "dots", pass[u] = 0
         PROVE  cur_dots_vec_id[u] = i * C
    <2>1. cur_dots_vec_id[u] = Delivered(u)  BY <1>13 DEF IInv, CursorInv
    <2>2. CASE cur = -1
      <3>1. Delivered(u) = 0  BY <2>2 DEF Delivered
      <3>2. i = 0  BY <2>2, <1>2, SMT
      <3>3. i * C = 0  BY <3>2, <1>7, SMT
      <3> QED  BY <2>1, <3>1, <3>3
    <2>3. CASE cur # -1
      <3>1. Delivered(u) = (cur + 1) * C  BY <2>3 DEF Delivered
      <3> QED  BY <2>1, <3>1, <1>2
    <2> QED  BY <2>2, <2>3
  <1> HIDE DEF i, C, V
  <1> QED  BY <1>2, <1>4, <1>5, <1>6, <1>10, <1>11, <1>12, <1>13 DEF i, C, V, cur

(* What LoadChunk makes of the chunk it loads, and of the dots.            *)
LEMMA LoadedChunk ==
    ASSUME IInv, NEW u \in Units, LoadChunk(u)
    PROVE  LET i == NextChunkId(u)
           IN  /\ vec_chunks' = [vec_chunks EXCEPT ![u] =
                     [UnloadCurrent(u) EXCEPT ![i] = vec_chunks'[u][i]]]
               /\ vec_chunks'[u][i] \in VecChunk(num_vecs, i)
               /\ vec_chunks'[u][i].is_loaded
               /\ stim_type = "raw" => vec_chunks'[u][i].vec_data_compressed
                                         = LZ4_compress(PatternChunk(num_vecs, i))
               /\ (stim_type = "dots" => pass[u] = 0)
                     => vec_chunks'[u][i].vec_data = PatternChunk(num_vecs, i)
               /\ num_dots_vecs' \in Nat /\ num_dots_vecs <= num_dots_vecs'
               /\ dots_vecs' \in [0 .. num_dots_vecs' - 1 -> Vec]
               /\ DotsInv'
               /\ cur_dots_vec_id' \in [Units -> 0 .. num_dots_vecs']
               /\ \A v \in Units : v # u => cur_dots_vec_id'[v] = cur_dots_vec_id[v]
               /\ stim_type = "dots" /\ pass[u] = 0 => cur_dots_vec_id'[u] =
                     IF i = NumChunks(u) - 1 THEN PaddedVecs(num_vecs)
                     ELSE (i + 1) * VecsPerChunk
  <1> DEFINE i == NextChunkId(u)
             old == UnloadCurrent(u)
             c == AllocChunk(old[i])
             V == ChunkNumVecs(num_vecs, i)
  <1>1. /\ TypeOK /\ num_vecs \in Nat \ {0} /\ num_dots_vecs \in Nat
        /\ cur_dots_vec_id \in [Units -> 0 .. num_dots_vecs]
    BY SMT DEF IInv, TypeOK
  <1>2. cur_vec_chunk_id[u] # NumChunks(u) - 1  BY DEF LoadChunk
  <1>3. /\ i \in UnitChunkIds(num_vecs, u) /\ i \in ChunkIds(num_vecs) /\ i \in Nat
        /\ PaddingFor(u, i) \in Nat
        /\ stim_type = "dots" /\ pass[u] = 0 =>
              /\ cur_dots_vec_id[u] = i * VecsPerChunk
              /\ (i * VecsPerChunk) + V <= num_dots_vecs + PaddingFor(u, i)
              /\ (i * VecsPerChunk) + V = IF i = NumChunks(u) - 1 THEN PaddedVecs(num_vecs)
                                           ELSE (i + 1) * VecsPerChunk
    BY <1>2, NextChunkFacts
  <1>4. /\ DOMAIN old = UnitChunkIds(num_vecs, u)
        /\ old[i] \in VecChunk(num_vecs, i) /\ Clean(old[i])
        /\ stim_type = "raw" => old[i].vec_data_compressed
                                  = LZ4_compress(PatternChunk(num_vecs, i))
    BY <1>3, UnloadCurrentFacts
  <1>5. /\ c \in VecChunk(num_vecs, i)
        /\ c.is_loaded /\ c.num_vecs = V /\ c.cur_vec_id = 0
        /\ c.vec_data \in [0 .. V - 1 -> Vec]
        /\ c.vec_data_compressed = old[i].vec_data_compressed
    BY <1>1, <1>3, <1>4, Alloc
  <1>6. V \in Nat \ {0} /\ PatternChunk(num_vecs, i) \in [0 .. V - 1 -> Vec]
    BY <1>1, <1>3, PatternChunkType
  <1>7. FillFromDots(u, i, c, old) \/ FillFromImage(u, i, c, old)
    BY DEF LoadChunk
  <1>8. CASE FillFromDots(u, i, c, old)
    <2> DEFINE nops == PaddingFor(u, i)
               n  == num_dots_vecs + nops
               dv == append_dots_vec_by_nop_vecs(dots_vecs, num_dots_vecs, nops)
               cursor == cur_dots_vec_id[u]
               d  == stim_fill_chunk_by_dots(c, dv, cursor, n)
    <2>1. /\ stim_type = "dots" /\ num_dots_vecs' = n /\ dots_vecs' = dv
          /\ cur_dots_vec_id' = [cur_dots_vec_id EXCEPT ![u] = cursor + NumCopied(c, cursor, n)]
          /\ vec_chunks' = [vec_chunks EXCEPT ![u] = [old EXCEPT ![i] = d]]
      BY <1>8 DEF FillFromDots, ReadCursor
    <2>2. /\ n \in Nat /\ num_dots_vecs <= n /\ NumVecs <= n
          /\ dv \in [0 .. n - 1 -> Vec]
          /\ \A k \in 0 .. n - 1 : dv[k] = Pattern(k)
      BY <1>3, AppendNops
    <2>3. cursor \in 0 .. n  BY <1>1, <2>2, SMT
    <2>4. /\ d \in VecChunk(num_vecs, i) /\ d.is_loaded
          /\ cursor + V <= n => d.vec_data = [j \in 0 .. V - 1 |-> dv[cursor + j]]
      <3>1. /\ num_vecs \in Nat \ {0} /\ i \in ChunkIds(num_vecs)
            /\ c \in VecChunk(num_vecs, i) /\ c.is_loaded /\ c.cur_vec_id = 0
            /\ c.vec_data \in [0 .. V - 1 -> Vec]
        BY <1>1, <1>3, <1>5
      <3>2. n \in Nat /\ dv \in [0 .. n - 1 -> Vec]  BY <2>2
      <3> HIDE DEF i, c, old, n, dv, cursor
      <3> QED  BY <3>1, <3>2, <2>3, FillByDots, SMT DEF V
    <2>5. /\ cursor + NumCopied(c, cursor, n) \in 0 .. n
          /\ cursor + V <= n => NumCopied(c, cursor, n) = V
      <3> HIDE DEF i, c, old, n, dv, cursor, V
      <3>1. c.num_vecs \in Nat  BY <1>5, <1>6
      <3> QED  BY <3>1, <1>5, <2>2, <2>3, Copied
    <2>6. vec_chunks'[u] = [old EXCEPT ![i] = d] /\ vec_chunks'[u][i] = d
      BY <2>1, <1>1, <1>3, <1>4 DEF TypeOK
    <2>7. ASSUME pass[u] = 0
          PROVE  /\ d.vec_data = PatternChunk(num_vecs, i)
                 /\ cur_dots_vec_id'[u] = IF i = NumChunks(u) - 1 THEN PaddedVecs(num_vecs)
                                          ELSE (i + 1) * VecsPerChunk
      <3>1. /\ cursor = i * VecsPerChunk /\ cursor + V <= n
            /\ cursor + V = IF i = NumChunks(u) - 1 THEN PaddedVecs(num_vecs)
                             ELSE (i + 1) * VecsPerChunk
        BY <1>3, <2>1, <2>7
      <3>2. ASSUME NEW j \in 0 .. V - 1
            PROVE  dv[cursor + j] = Pattern((i * VecsPerChunk) + j)
        <4>1. cursor + j \in 0 .. n - 1
          <5> HIDE DEF i, n, cursor, V
          <5> QED  BY <3>1, <2>2, <2>3, <1>6, SMT
        <4> QED  BY <4>1, <3>1, <2>2
      <3>3. d.vec_data = [j \in 0 .. V - 1 |-> dv[cursor + j]]  BY <3>1, <2>4
      <3>4. d.vec_data = PatternChunk(num_vecs, i)
        <4> HIDE DEF d, dv, cursor
        <4> QED  BY <3>2, <3>3 DEF PatternChunk
      <3>5. cur_dots_vec_id'[u] = cursor + V  BY <2>1, <2>5, <3>1, <1>1
      <3> QED  BY <3>1, <3>4, <3>5
    <2>8. cur_dots_vec_id' \in [Units -> 0 .. num_dots_vecs']
      <3>1. \A v \in Units : cur_dots_vec_id[v] \in 0 .. n  BY <1>1, <2>2, SMT
      <3> HIDE DEF n, cursor, c
      <3> QED  BY <2>1, <2>5, <3>1, <1>1
    <2>9. DotsInv'  BY <2>1, <2>2 DEF DotsInv
    <2>10. \A v \in Units : v # u => cur_dots_vec_id'[v] = cur_dots_vec_id[v]
      BY <2>1, <1>1
    <2> HIDE DEF d, n, dv, i, old
    <2> QED  BY <2>1, <2>2, <2>4, <2>6, <2>7, <2>8, <2>9, <2>10 DEF i, old
  <1>9. CASE FillFromImage(u, i, c, old)
    <2> DEFINE d == stim_decompress_vec_chunk(c)
    <2>1. /\ stim_type = "raw"
          /\ vec_chunks' = [vec_chunks EXCEPT ![u] = [old EXCEPT ![i] = d]]
          /\ UNCHANGED <<num_dots_vecs, dots_vecs, cur_dots_vec_id>>
      BY <1>9 DEF FillFromImage, dotsVars
    <2>2. c.vec_data_compressed = LZ4_compress(PatternChunk(num_vecs, i))
      BY <2>1, <1>4, <1>5
    <2>3. LZ4_decompress(c.vec_data_compressed) = PatternChunk(num_vecs, i)
      BY <2>2 DEF LZ4_compress, LZ4_decompress
    <2>4. /\ d \in VecChunk(num_vecs, i) /\ d.is_loaded
          /\ d.vec_data_compressed = c.vec_data_compressed
          /\ d.vec_data = PatternChunk(num_vecs, i)
      <3> HIDE DEF c, i
      <3> QED  BY <1>5, <1>6, <2>3 DEF stim_decompress_vec_chunk, VecChunk
    <2>5. vec_chunks'[u] = [old EXCEPT ![i] = d] /\ vec_chunks'[u][i] = d
      BY <2>1, <1>1, <1>3, <1>4 DEF TypeOK
    <2>6. DotsInv'  BY <2>1 DEF IInv, DotsInv
    <2>7. num_dots_vecs <= num_dots_vecs'  BY <2>1, <1>1, SMT
    <2>8. /\ num_dots_vecs' \in Nat /\ dots_vecs' \in [0 .. num_dots_vecs' - 1 -> Vec]
          /\ cur_dots_vec_id' \in [Units -> 0 .. num_dots_vecs']
      BY <2>1, <1>1 DEF TypeOK
    <2>9. stim_type # "dots"  BY <2>1
    <2> HIDE DEF d, i, old
    <2> QED  BY <2>1, <2>2, <2>4, <2>5, <2>6, <2>7, <2>8, <2>9 DEF i, old
  <1> QED  BY <1>7, <1>8, <1>9

(* Loading and filling the next chunk preserves the invariant.             *)
LEMMA LoadChunkStep ==
    ASSUME IInv, NEW u \in Units, LoadChunk(u)
    PROVE  IInv'
  <1> DEFINE i == NextChunkId(u)
             d == vec_chunks'[u][i]
  <1>1. TypeOK /\ num_vecs \in Nat \ {0}  BY SMT DEF IInv, TypeOK
  <1>2. /\ cur_vec_chunk_id[u] # NumChunks(u) - 1
        /\ ~OtherUnitBusy(u)
        /\ cur_vec_chunk_id' = [cur_vec_chunk_id EXCEPT ![u] = i]
        /\ UNCHANGED <<stim_type, num_vecs, pass, alive>>
    BY DEF LoadChunk
  <1>3. i \in UnitChunkIds(num_vecs, u) /\ i \in ChunkIds(num_vecs) /\ i \in Nat
    BY <1>2, NextChunkFacts
  <1>4. /\ vec_chunks' = [vec_chunks EXCEPT ![u] = [UnloadCurrent(u) EXCEPT ![i] = d]]
        /\ d \in VecChunk(num_vecs, i) /\ d.is_loaded
        /\ stim_type = "raw" => d.vec_data_compressed
                                  = LZ4_compress(PatternChunk(num_vecs, i))
        /\ (stim_type = "dots" => pass[u] = 0)
              => d.vec_data = PatternChunk(num_vecs, i)
    BY LoadedChunk
  <1>5. /\ num_dots_vecs' \in Nat /\ num_dots_vecs <= num_dots_vecs'
        /\ dots_vecs' \in [0 .. num_dots_vecs' - 1 -> Vec]
        /\ DotsInv'
        /\ cur_dots_vec_id' \in [Units -> 0 .. num_dots_vecs']
        /\ \A v \in Units : v # u => cur_dots_vec_id'[v] = cur_dots_vec_id[v]
        /\ stim_type = "dots" /\ pass[u] = 0 => cur_dots_vec_id'[u] =
              IF i = NumChunks(u) - 1 THEN PaddedVecs(num_vecs)
              ELSE (i + 1) * VecsPerChunk
    BY LoadedChunk
  <1>6. /\ cur_vec_chunk_id[Other(u)] = -1 /\ Other(u) \in Units /\ Other(u) # u
        /\ Other(Other(u)) = u
    <2>1. Other(u) \in Units /\ Other(u) # u /\ Other(Other(u)) = u  BY OtherFacts
    <2>2. cur_vec_chunk_id[Other(u)] \in -1 .. NumChunks(Other(u)) - 1
      BY <1>1, <2>1 DEF TypeOK
    <2>3. NumChunks(Other(u)) \in Nat  BY <1>1, <2>1, UnitChunks
    <2>4. ~(cur_vec_chunk_id[Other(u)] >= 0)  BY <1>2 DEF OtherUnitBusy
    <2> QED  BY <2>1, <2>2, <2>3, <2>4, SMT
  <1>7. cur_vec_chunk_id'[u] = i /\ cur_vec_chunk_id'[Other(u)] = -1
    BY <1>1, <1>2, <1>6 DEF TypeOK
  <1>8. /\ DOMAIN vec_chunks' = Units
        /\ vec_chunks'[u] = [UnloadCurrent(u) EXCEPT ![i] = d]
        /\ \A v \in Units : v # u => vec_chunks'[v] = vec_chunks[v]
    <2> HIDE DEF d
    <2> QED  BY <1>1, <1>4 DEF TypeOK
  <1>9. /\ DOMAIN UnloadCurrent(u) = UnitChunkIds(num_vecs, u)
        /\ \A j \in UnitChunkIds(num_vecs, u) :
              LET e == UnloadCurrent(u)[j]
              IN  /\ e \in VecChunk(num_vecs, j)
                  /\ Clean(e)
                  /\ stim_type = "raw" => e.vec_data_compressed
                                           = LZ4_compress(PatternChunk(num_vecs, j))
    BY UnloadCurrentFacts
  <1>10. \A v \in Units : DOMAIN vec_chunks'[v] = UnitChunkIds(num_vecs, v)
    <2>1. DOMAIN vec_chunks'[u] = UnitChunkIds(num_vecs, u)
      <3> HIDE DEF d, i
      <3> QED  BY <1>8, <1>9
    <2>2. \A v \in Units : v # u => DOMAIN vec_chunks'[v] = UnitChunkIds(num_vecs, v)
      BY <1>1, <1>8 DEF TypeOK
    <2> QED  BY <2>1, <2>2
  <1>11. ASSUME NEW v \in Units, NEW j \in UnitChunkIds(num_vecs, v)
         PROVE  ChunkInv(vec_chunks'[v][j], v, j, cur_vec_chunk_id', pass')
    <2>1. CASE v = u /\ j = i
      <3>1. vec_chunks'[v][j] = d  BY <2>1
      <3> HIDE DEF d, i
      <3> QED  BY <3>1, <2>1, <1>2, <1>4, <1>7 DEF ChunkInv
    <2>2. CASE v = u /\ j # i
      <3>1. vec_chunks'[v][j] = UnloadCurrent(u)[j]
        <4> HIDE DEF d, i
        <4> QED  BY <2>2, <1>8, <1>9
      <3> QED  BY <3>1, <2>2, <1>9 DEF ChunkInv, Clean
    <2>3. CASE v # u
      <3>1. j \in DOMAIN vec_chunks[v]  BY <1>1 DEF TypeOK
      <3>2. ChunkInv(vec_chunks[v][j], v, j, cur_vec_chunk_id, pass)
        BY <3>1, ChunkInvHolds
      <3>3. vec_chunks'[v][j] = vec_chunks[v][j]  BY <1>8, <2>3
      <3>4. v = Other(u)  BY <2>3, OtherFacts
      <3>5. j # -1
        <4>1. UnitChunkIds(num_vecs, v) = 0 .. NumChunks(v) - 1 /\ NumChunks(v) \in Nat
          BY <1>1, UnitChunks
        <4> QED  BY <4>1, SMT
      <3>6. ~vec_chunks[v][j].is_loaded
        BY <3>2, <3>4, <3>5, <1>6 DEF ChunkInv
      <3> QED  BY <3>2, <3>3, <3>6 DEF ChunkInv
    <2> QED  BY <2>1, <2>2, <2>3
  <1>12. UnitExclusion'  BY <1>6, <1>7 DEF UnitExclusion
  <1>13. CursorInv'
    <2>1. ASSUME NEW v \in Units, pass[v] = 0, stim_type = "dots"
          PROVE  cur_dots_vec_id'[v] = Delivered(v)'
      <3>1. CASE v = u
        <4>1. i # -1  BY <1>3, SMT
        <4>2. NumChunks(u)' = NumChunks(u) /\ num_vecs' = num_vecs
          BY <1>2 DEF NumChunks
        <4>3. Delivered(u)' = IF i = NumChunks(u) - 1 THEN PaddedVecs(num_vecs)
                              ELSE (i + 1) * VecsPerChunk
          <5> HIDE DEF i
          <5> QED  BY <4>1, <4>2, <1>7 DEF Delivered
        <4> QED  BY <4>3, <3>1, <2>1, <1>5
      <3>2. CASE v # u
        <4>1. cur_vec_chunk_id'[v] = cur_vec_chunk_id[v]
          BY <1>1, <1>2, <3>2 DEF TypeOK
        <4>2. Delivered(v)' = Delivered(v)
          BY <4>1, <1>2 DEF Delivered, NumChunks
        <4>3. cur_dots_vec_id'[v] = cur_dots_vec_id[v]  BY <1>5, <3>2
        <4> QED  BY <4>2, <4>3, <2>1 DEF IInv, CursorInv
      <3> QED  BY <3>1, <3>2
    <2> QED  BY <2>1, <1>2 DEF CursorInv
  <1>14. /\ cur_vec_chunk_id' \in [Units -> Int]
         /\ \A v \in Units : cur_vec_chunk_id'[v] \in -1 .. NumChunks(v) - 1
    <2>1. NumChunks(u) \in Nat /\ UnitChunkIds(num_vecs, u) = 0 .. NumChunks(u) - 1
      BY <1>1, UnitChunks
    <2>2. i \in -1 .. NumChunks(u) - 1 /\ i \in Int  BY <2>1, <1>3, SMT
    <2> HIDE DEF i
    <2> QED  BY <1>1, <1>2, <2>2 DEF TypeOK
  <1>15. pass' \in [Units -> Nat] /\ alive' \in BOOLEAN  BY <1>1, <1>2 DEF TypeOK
  <1> HIDE DEF d, i
  <1> QED
    BY <1>2, <1>5, <1>8, <1>10, <1>11, <1>12, <1>13, <1>14, <1>15, Reassemble

-----------------------------------------------------------------------------
(* A new stim over the padded dots, and the step theorem                   *)

(* A new stim over the dots or over a file satisfies the invariant: it     *)
(* starts with clean chunks, at the beginning of the dots or of the image. *)
LEMMA NewStimStep ==
    ASSUME IInv, NEW type \in StimTypes, NEW n \in 1 .. num_dots_vecs, NEW chunks,
           NewStim(type, n, chunks), UNCHANGED <<num_dots_vecs, dots_vecs>>,
           \/ /\ type = "dots" /\ chunks = init_stim(n)
              /\ cur_dots_vec_id' = [u \in Units |-> 0]
           \/ /\ type = "raw" /\ chunks = stim_deserialize(n)
              /\ UNCHANGED cur_dots_vec_id
           \/ /\ type = "bitstream" /\ chunks = init_stim(n)
              /\ UNCHANGED cur_dots_vec_id
    PROVE  IInv'
  <1>1. /\ stim_type' = type /\ num_vecs' = n /\ vec_chunks' = chunks
        /\ cur_vec_chunk_id' = [u \in Units |-> -1] /\ pass' = [u \in Units |-> 0]
        /\ UNCHANGED alive
    BY DEF NewStim
  <1>2. TypeOK /\ num_dots_vecs \in Nat  BY DEF IInv, TypeOK
  <1>3. n \in Nat \ {0}  BY <1>2, SMT
  <1>4. /\ DOMAIN chunks = Units
        /\ \A u \in Units :
              /\ DOMAIN chunks[u] = UnitChunkIds(n, u)
              /\ \A i \in UnitChunkIds(n, u) :
                    /\ chunks[u][i] \in VecChunk(n, i)
                    /\ Clean(chunks[u][i])
                    /\ type = "raw" => chunks[u][i].vec_data_compressed
                                          = LZ4_compress(PatternChunk(n, i))
    <2>1. CASE type # "raw" /\ chunks = init_stim(n)
      <3>1. ASSUME NEW u \in Units, NEW i \in UnitChunkIds(n, u)
            PROVE  /\ chunks[u][i] = create_vec_chunk(ChunkNumVecs(n, i), NULL)
                   /\ i \in ChunkIds(n)
        BY <2>1 DEF init_stim, UnitChunkIds
      <3>2. ASSUME NEW u \in Units, NEW i \in UnitChunkIds(n, u)
            PROVE  chunks[u][i] \in VecChunk(n, i) /\ Clean(chunks[u][i])
        BY <3>1, <1>3, NewChunk
      <3>3. DOMAIN chunks = Units /\ \A u \in Units : DOMAIN chunks[u] = UnitChunkIds(n, u)
        BY <2>1 DEF init_stim
      <3> QED  BY <3>2, <3>3, <2>1
    <2>2. CASE type = "raw" /\ chunks = stim_deserialize(n)
      <3>1. ASSUME NEW u \in Units, NEW i \in UnitChunkIds(n, u)
            PROVE  /\ chunks[u][i] = create_vec_chunk(ChunkNumVecs(n, i),
                                                      LZ4_compress(PatternChunk(n, i)))
                   /\ i \in ChunkIds(n)
        BY <2>2 DEF stim_deserialize, UnitChunkIds
      <3>2. ASSUME NEW u \in Units, NEW i \in UnitChunkIds(n, u)
            PROVE  /\ chunks[u][i] \in VecChunk(n, i)
                   /\ Clean(chunks[u][i])
                   /\ chunks[u][i].vec_data_compressed = LZ4_compress(PatternChunk(n, i))
        BY <3>1, <1>3, NewChunk
      <3>3. DOMAIN chunks = Units /\ \A u \in Units : DOMAIN chunks[u] = UnitChunkIds(n, u)
        BY <2>2 DEF stim_deserialize
      <3> QED  BY <3>2, <3>3
    <2> QED  BY <2>1, <2>2
  <1>5. TypeOK'
    <2>1. ASSUME NEW u \in Units  PROVE cur_vec_chunk_id'[u] \in -1 .. NumChunks(u)' - 1
      <3>1. NumVecChunks(num_vecs') \in Nat \ {0}  BY <1>1, <1>3, Geometry
      <3>2. NumChunks(u)' \in Nat  BY <3>1 DEF NumChunks
      <3>3. cur_vec_chunk_id'[u] = -1  BY <1>1
      <3> QED  BY <3>2, <3>3, SMT
    <2>2. cur_dots_vec_id' \in [Units -> 0 .. num_dots_vecs']
      <3>1. [u \in Units |-> 0] \in [Units -> 0 .. num_dots_vecs]  BY <1>2, SMT
      <3> QED  BY <3>1, <1>2 DEF TypeOK
    <2>3. cur_vec_chunk_id' \in [Units -> Int] /\ pass' \in [Units -> Nat]  BY <1>1, SMT
    <2> QED  BY <2>1, <2>2, <2>3, <1>1, <1>2, <1>4 DEF TypeOK
  <1>6. UnitExclusion'  BY <1>1 DEF UnitExclusion, Units
  <1>7. OnlyCurrentLoaded' /\ UnloadedIsClean' /\ LoadedIsPattern' /\ ImageInv'
    BY <1>1, <1>4 DEF OnlyCurrentLoaded, UnloadedIsClean, LoadedIsPattern, ImageInv, Clean
  <1>8. DotsInv'  BY DEF IInv, DotsInv
  <1>9. CursorInv'  BY <1>1 DEF CursorInv, Delivered
  <1> QED  BY <1>5, <1>6, <1>7, <1>8, <1>9 DEF IInv

(* Nothing of the invariant depends on whether the process lives.          *)
LEMMA StutterStep ==
    ASSUME IInv, UNCHANGED <<num_dots_vecs, dots_vecs, cur_dots_vec_id, stim_type,
                             num_vecs, cur_vec_chunk_id, vec_chunks, pass>>,
           alive' \in BOOLEAN
    PROVE  IInv'
  <1>1. TypeOK'  BY DEF IInv, TypeOK, NumChunks
  <1>2. UnitExclusion' /\ OnlyCurrentLoaded' /\ UnloadedIsClean'
    BY DEF IInv, UnitExclusion, OnlyCurrentLoaded, UnloadedIsClean
  <1>3. DotsInv' /\ CursorInv' /\ ImageInv' /\ LoadedIsPattern'
    BY DEF IInv, DotsInv, CursorInv, Delivered, NumChunks, ImageInv, LoadedIsPattern
  <1> QED  BY <1>1, <1>2, <1>3 DEF IInv

(* Every call preserves the invariant.                                     *)
LEMMA NextInv == IInv /\ [Next]_vars => IInv'
  <1> SUFFICES ASSUME IInv, [Next]_vars  PROVE IInv'  OBVIOUS
  <1>1. CASE die
    BY <1>1, StutterStep DEF die, dotsVars, stimVars
  <1>2. CASE UNCHANGED vars
    <2>1. alive' \in BOOLEAN  BY <1>2 DEF IInv, TypeOK, vars
    <2> QED  BY <1>2, <2>1, StutterStep DEF vars
  <1>3. ASSUME NEW u \in Units, stim_load_next_chunk(u)  PROVE IInv'
    <2>1. LoadRefused(u) \/ EndPass(u) \/ LoadChunk(u) \/ FillDies(u)
      BY <1>3 DEF stim_load_next_chunk
    <2> QED  BY <2>1, <1>1, EndPassStep, LoadChunkStep DEF LoadRefused, FillDies
  <1>4. ASSUME NEW u \in Units, NEW i \in DOMAIN vec_chunks[u], ClientUnload(u, i)
        PROVE  IInv'
    BY <1>4, ClientUnloadStep
  <1>5. num_dots_vecs \in Nat \ {0} /\ NumVecs \in Nat \ {0} /\ NumVecs <= num_dots_vecs
    BY StimAssumption, SMT DEF IInv, TypeOK, DotsInv
  <1>6. CASE get_stim_by_dots
    <2>1. CASE ~die
      <3>1. /\ NewStim("dots", num_dots_vecs, init_stim(num_dots_vecs))
            /\ cur_dots_vec_id' = [u \in Units |-> 0]
            /\ UNCHANGED <<num_dots_vecs, dots_vecs>> /\ "dots" \in StimTypes
        BY <1>6, <2>1 DEF get_stim_by_dots
      <3>2. num_dots_vecs \in 1 .. num_dots_vecs  BY <1>5, SMT
      <3> QED  BY <3>1, <3>2, NewStimStep
    <2> QED  BY <2>1, <1>1
  <1>7. ASSUME NEW n \in NumVecs .. num_dots_vecs, get_stim_by_path(n)  PROVE IInv'
    <2>1. /\ NewStim("raw", n, stim_deserialize(n)) /\ "raw" \in StimTypes
          /\ UNCHANGED <<num_dots_vecs, dots_vecs, cur_dots_vec_id>>
      BY <1>7 DEF get_stim_by_path, dotsVars
    <2>2. n \in 1 .. num_dots_vecs  BY <1>5, SMT
    <2> QED  BY <2>1, <2>2, NewStimStep
  <1>8. ASSUME NEW n \in NumVecs .. num_dots_vecs, get_stim_by_bitstream(n)  PROVE IInv'
    <2>1. /\ NewStim("bitstream", n, init_stim(n)) /\ "bitstream" \in StimTypes
          /\ UNCHANGED <<num_dots_vecs, dots_vecs, cur_dots_vec_id>>
      BY <1>8 DEF get_stim_by_bitstream, dotsVars
    <2>2. n \in 1 .. num_dots_vecs  BY <1>5, SMT
    <2> QED  BY <2>1, <2>2, NewStimStep
  <1> QED  BY <1>2, <1>3, <1>4, <1>6, <1>7, <1>8 DEF Next

(* The inductive invariant holds in every reachable state.                 *)
THEOREM Invariance == Spec => []IInv
  BY InitInv, NextInv, PTL DEF Spec

(* The structs keep their types and every read cursor stays inside its     *)
(* dots, for every pattern length and every order of calls.                *)
THEOREM TypeCorrect == Spec => []TypeOK
  <1>1. IInv => TypeOK  BY DEF IInv
  <1> QED  BY <1>1, Invariance, PTL

(* Two units are never part way through their chunks together.             *)
THEOREM Exclusion == Spec => []UnitExclusion
  <1>1. IInv => UnitExclusion  BY DEF IInv
  <1> QED  BY <1>1, Invariance, PTL

(* At most one chunk buffer is allocated at any time: that of the chunk    *)
(* being read.                                                             *)
THEOREM OneBuffer == Spec => []OnlyCurrentLoaded
  <1>1. IInv => OnlyCurrentLoaded  BY DEF IInv
  <1> QED  BY <1>1, Invariance, PTL

(* A chunk without a buffer is ready to be filled from slot 0, however its *)
(* last use ended: stim_unload_chunk resets what stim_fill_chunk goes on   *)
(* from.                                                                   *)
THEOREM CleanWhenUnloaded == Spec => []UnloadedIsClean
  <1>1. IInv => UnloadedIsClean  BY DEF IInv
  <1> QED  BY <1>1, Invariance, PTL

(* Every chunk loaded on a first pass, or from a raw file, is exactly its  *)
(* slice of the padded pattern.                                            *)
THEOREM FirstPassCorrect == Spec => []LoadedIsPattern
  <1>1. IInv => LoadedIsPattern  BY DEF IInv
  <1> QED  BY <1>1, Invariance, PTL

(* The chunks a stim is cut into are whole bursts that cover the padded    *)
(* pattern, whatever the dots has grown to.                                *)
THEOREM GeometryCorrect == Spec => []ChunkGeometry
  <1>1. IInv => ChunkGeometry
    <2> SUFFICES ASSUME IInv, NEW u \in Selected
                 PROVE  LET chunks == vec_chunks[u]
                            last == NumVecChunks(num_vecs) - 1
                        IN  /\ \A i \in DOMAIN chunks :
                                  /\ chunks[i].num_vecs \in 1 .. VecsPerChunk
                                  /\ chunks[i].num_vecs % VecsPerBurst = 0
                                  /\ i # last => chunks[i].num_vecs = VecsPerChunk
                            /\ last * VecsPerChunk + chunks[last].num_vecs
                                  = num_vecs + calc_num_padding_vecs(num_vecs)
      BY DEF ChunkGeometry
    <2>1. u \in Units /\ num_vecs \in Nat \ {0}
      BY StimAssumption, SMT DEF IInv, TypeOK
    <2>2. DOMAIN vec_chunks[u] = ChunkIds(num_vecs)
      BY <2>1 DEF IInv, TypeOK, UnitChunkIds
    <2>3. ASSUME NEW i \in ChunkIds(num_vecs)
          PROVE  vec_chunks[u][i].num_vecs = ChunkNumVecs(num_vecs, i)
      <3>1. vec_chunks[u][i] \in VecChunk(num_vecs, i)
        BY <2>1 DEF IInv, TypeOK, UnitChunkIds
      <3> QED  BY <3>1 DEF VecChunk
    <2>4. NumVecChunks(num_vecs) - 1 \in ChunkIds(num_vecs)
      <3>1. NumVecChunks(num_vecs) \in Nat \ {0}  BY <2>1, Geometry
      <3> QED  BY <3>1, SMT DEF ChunkIds
    <2> QED  BY <2>1, <2>2, <2>3, <2>4, Geometry DEF PaddedVecs
  <1> QED  BY <1>1, Invariance, PTL

=============================================================================
