------------------------------ MODULE Counting ------------------------------
(***************************************************************************)
(* Natural numbers: division with remainder, and induction stated for      *)
(* sets, which is what the proofs about recursive functions use            *)
(* (ArtixRun's CyclesOf, BoardMem's Concat, the walks of UtHash).          *)
(***************************************************************************)
EXTENDS Integers, WellFoundedInduction, TLAPS

(* A set of natural numbers that is not empty has a least element.         *)
LEMMA Least ==
    ASSUME NEW T \in SUBSET Nat, T # {}
    PROVE  \E n \in T : \A m \in T : n <= m
  <1> DEFINE R == {ss \in Nat \X Nat : ss[1] < ss[2]}
  <1>1. IsWellFoundedOn(R, Nat)  BY NatLessThanWellFounded DEF OpToRel
  <1>2. PICK n \in T : \A m \in T : <<m, n>> \notin R
    <2> HIDE DEF R
    <2> QED BY <1>1, WFMin
  <1>3. ASSUME NEW m \in T  PROVE n <= m
    <2>1. m \in Nat /\ n \in Nat  OBVIOUS
    <2>2. ~(m < n)  BY <1>2, <2>1
    <2> QED BY <2>1, <2>2, SMT
  <1>. QED BY <1>3

(* A set that has 0 and with every number the next one is all of Nat.      *)
LEMMA Induct ==
    ASSUME NEW S \in SUBSET Nat, 0 \in S, \A n \in S : n + 1 \in S
    PROVE  S = Nat
  <1> DEFINE T == Nat \ S
  <1>1. CASE T # {}
    <2>1. PICK n \in T : \A m \in T : n <= m
      BY <1>1, Least
    <2>2. n \in Nat \ {0} /\ n - 1 \in Nat  BY SMT
    <2>3. n - 1 \notin T  BY <2>1, <2>2, SMT
    <2>4. n - 1 + 1 \in S  BY <2>2, <2>3
    <2>. QED BY <2>4, <2>2, SMT
  <1>. QED BY <1>1

(* Division with remainder.                                                *)
LEMMA DivMod ==
    ASSUME NEW a \in Nat, NEW d \in Nat \ {0}
    PROVE  /\ a \div d \in Nat
           /\ a % d \in 0 .. d - 1
           /\ a = d * (a \div d) + (a % d)
  BY SMT

(* ... which is unique.                                                    *)
LEMMA DivModIs ==
    ASSUME NEW a \in Nat, NEW d \in Nat \ {0}, NEW q \in Nat, NEW r \in 0 .. d - 1,
           a = (d * q) + r
    PROVE  a \div d = q /\ a % d = r
  <1> DEFINE p == a \div d
             s == a % d
  <1>1. p \in Nat /\ s \in 0 .. d - 1 /\ a = (d * p) + s  BY DivMod
  <1> HIDE DEF p, s
  <1>2. CASE p < q
    <2>1. p + 1 <= q  BY <1>1, <1>2
    <2>2. d * (p + 1) <= d * q  BY <1>1, <2>1
    <2>3. d * (p + 1) = (d * p) + d  BY <1>1
    <2> QED  BY <1>1, <2>2, <2>3
  <1>3. CASE q < p
    <2>1. q + 1 <= p  BY <1>1, <1>3
    <2>2. d * (q + 1) <= d * p  BY <1>1, <2>1
    <2>3. d * (q + 1) = (d * q) + d  OBVIOUS
    <2> QED  BY <1>1, <2>2, <2>3
  <1>4. CASE p = q
    <2>1. d * p = d * q  BY <1>4
    <2>2. d * p \in Int  BY <1>1
    <2> QED  BY <1>1, <1>4, <2>1, <2>2 DEF p, s
  <1> QED  BY <1>1, <1>2, <1>3, <1>4

=============================================================================
