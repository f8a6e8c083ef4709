----------------------------- MODULE Prgm_proofs -----------------------------
(***************************************************************************)
(* Theorems about Prgm and the hash tables it uses, for any number of      *)
(* stims, loads, buckets and addresses: programs whose stims are all of    *)
(* one unit (dual stims are what the run dual_unload refutes).             *)
(*                                                                         *)
(* A table is described by the sequence s of its items in the order they   *)
(* were added and by the sequence c[b] of each bucket.  What the macros of *)
(* uthash.h do to the links is shown once for a doubly linked list         *)
(* (Linked), and used for the list of a table and for its buckets.         *)
(***************************************************************************)
EXTENDS Prgm, Counting, FiniteSetTheorems

-----------------------------------------------------------------------------
(* Doubly linked lists                                                     *)

First(s) == IF s = <<>> THEN NULL ELSE s[1]
Last(s)  == IF s = <<>> THEN NULL ELSE s[Len(s)]

(* s lists items that are linked by nx and pv, none of them twice.         *)
Linked(s, nx, pv) ==
    /\ s \in Seq(Nat)
    /\ \A i \in 1 .. Len(s) :
          /\ s[i] \in DOMAIN nx
          /\ nx[s[i]] = IF i = Len(s) THEN NULL ELSE s[i + 1]
          /\ pv[s[i]] = IF i = 1 THEN NULL ELSE s[i - 1]
    /\ \A i, j \in 1 .. Len(s) : s[i] = s[j] => i = j

(* s without its k-th item.                                                *)
Without(s, k) == [i \in 1 .. Len(s) - 1 |-> IF i < k THEN s[i] ELSE s[i + 1]]

(* No item: no list.                                                       *)
LEMMA LinkedEmpty ==
    ASSUME NEW nx, NEW pv
    PROVE  Linked(<<>>, nx, pv) /\ ElementsOf(<<>>) = {}
  BY DEF Linked, ElementsOf

(* The items of a list are those at its positions.                         *)
LEMMA InElements ==
    ASSUME NEW s \in Seq(Nat), NEW x
    PROVE  x \in ElementsOf(s) <=> \E i \in 1 .. Len(s) : s[i] = x
  BY DEF ElementsOf

(* A list does not change when the links of its items do not.              *)
LEMMA LinkedFrame ==
    ASSUME NEW s, NEW nx, NEW pv, NEW nx2, NEW pv2, Linked(s, nx, pv),
           DOMAIN nx \subseteq DOMAIN nx2,
           \A e \in ElementsOf(s) : nx2[e] = nx[e] /\ pv2[e] = pv[e]
    PROVE  Linked(s, nx2, pv2)
  <1>1. s \in Seq(Nat)  BY DEF Linked
  <1>2. \A i \in 1 .. Len(s) : s[i] \in ElementsOf(s)  BY <1>1, InElements
  <1> QED  BY <1>1, <1>2 DEF Linked

(* An item appended at the tail.                                           *)
LEMMA LinkedAppend ==
    ASSUME NEW s, NEW nx, NEW pv, NEW nx2, NEW pv2, Linked(s, nx, pv),
           NEW e \in Nat, e \in DOMAIN nx, e \notin ElementsOf(s), NULL \notin Nat,
           DOMAIN nx2 = DOMAIN nx, DOMAIN nx \subseteq Nat,
           \A x \in DOMAIN nx : nx2[x] = IF x = Last(s) THEN e ELSE IF x = e THEN NULL ELSE nx[x],
           \A x \in DOMAIN nx : pv2[x] = IF x = e THEN Last(s) ELSE pv[x]
    PROVE  /\ Linked(Append(s, e), nx2, pv2)
           /\ ElementsOf(Append(s, e)) = ElementsOf(s) \cup {e}
           /\ First(Append(s, e)) = (IF s = <<>> THEN e ELSE First(s))
           /\ Last(Append(s, e)) = e
  <1> DEFINE r == Append(s, e)
             n == Len(s)
  <1>1. s \in Seq(Nat) /\ n \in Nat /\ (s = <<>> <=> n = 0)  BY DEF Linked
  <1>2. /\ r \in Seq(Nat) /\ Len(r) = n + 1 /\ r[n + 1] = e
        /\ \A i \in 1 .. n : r[i] = s[i]
    BY <1>1
  <1>3. r # <<>>  BY <1>1, <1>2
  <1> HIDE DEF r
  <1>4. \A i \in 1 .. n : s[i] # e /\ s[i] \in DOMAIN nx /\ s[i] \in Nat
    BY <1>1, InElements DEF Linked
  <1>5. \A i, j \in 1 .. n : s[i] = s[j] => i = j  BY DEF Linked
  <1>6. \A i \in 1 .. n : /\ nx[s[i]] = IF i = n THEN NULL ELSE s[i + 1]
                          /\ pv[s[i]] = IF i = 1 THEN NULL ELSE s[i - 1]
    BY DEF Linked
  <1>7. Last(s) = IF n = 0 THEN NULL ELSE s[n]  BY <1>1 DEF Last
  <1>8. ASSUME NEW i \in 1 .. Len(r)
        PROVE  /\ r[i] \in DOMAIN nx2
               /\ nx2[r[i]] = IF i = Len(r) THEN NULL ELSE r[i + 1]
               /\ pv2[r[i]] = IF i = 1 THEN NULL ELSE r[i - 1]
    <2>1. CASE i = n + 1
      <3>1. e # Last(s)  BY <1>1, <1>4, <1>7
      <3>2. n # 0 => n \in 1 .. n  BY <1>1
      <3> QED  BY <1>1, <1>2, <1>7, <2>1, <3>1, <3>2
    <2>2. CASE i \in 1 .. n - 1
      <3>1. i \in 1 .. n /\ i + 1 \in 1 .. n /\ i # n /\ n \in 1 .. n /\ n # 0  BY <1>1, <2>2
      <3>2. s[i] # Last(s)  BY <1>5, <1>7, <3>1
      <3>3. r[i] = s[i] /\ r[i + 1] = s[i + 1]  BY <1>2, <3>1
      <3>4. nx2[s[i]] = nx[s[i]] /\ pv2[s[i]] = pv[s[i]]  BY <1>4, <3>1, <3>2
      <3>5. nx[s[i]] = s[i + 1]  BY <1>6, <3>1
      <3>6. i # 1 => r[i - 1] = s[i - 1]
        <4>1. i # 1 => i - 1 \in 1 .. n  BY <3>1
        <4> QED  BY <1>2, <4>1
      <3>7. i # Len(r)  BY <1>1, <1>2, <2>2
      <3> QED  BY <1>4, <1>6, <3>1, <3>3, <3>4, <3>5, <3>6, <3>7
    <2>3. CASE i = n /\ n > 0
      <3>1. i \in 1 .. n /\ n # 0  BY <1>1, <2>3
      <3>2. s[i] = Last(s)  BY <1>7, <2>3
      <3>3. r[i] = s[i] /\ r[i + 1] = e  BY <1>2, <2>3, <3>1
      <3>4. nx2[s[i]] = e /\ pv2[s[i]] = pv[s[i]]  BY <1>4, <3>1, <3>2
      <3>5. i # 1 => r[i - 1] = s[i - 1]
        <4>1. i # 1 => i - 1 \in 1 .. n  BY <3>1
        <4> QED  BY <1>2, <4>1
      <3>6. i # Len(r)  BY <1>1, <1>2, <2>3
      <3> QED  BY <1>4, <1>6, <3>1, <3>3, <3>4, <3>5, <3>6
    <2> QED  BY <1>1, <1>2, <2>1, <2>2, <2>3
  <1>9. \A i, j \in 1 .. Len(r) : r[i] = r[j] => i = j
    <2>1. \A i \in 1 .. Len(r) : i \in 1 .. n \/ i = n + 1  BY <1>1, <1>2
    <2> SUFFICES ASSUME NEW i \in 1 .. Len(r), NEW j \in 1 .. Len(r), r[i] = r[j]
                 PROVE  i = j
      OBVIOUS
    <2>2. CASE i \in 1 .. n /\ j \in 1 .. n
      <3>1. r[i] = s[i] /\ r[j] = s[j]  BY <1>2, <2>2
      <3> QED  BY <1>5, <2>2, <3>1
    <2>3. CASE i \in 1 .. n /\ j = n + 1  BY <1>2, <1>4, <2>3
    <2>4. CASE j \in 1 .. n /\ i = n + 1  BY <1>2, <1>4, <2>4
    <2> QED  BY <2>1, <2>2, <2>3, <2>4
  <1>10. Linked(r, nx2, pv2)  BY <1>2, <1>8, <1>9 DEF Linked
  <1>11. ElementsOf(r) = ElementsOf(s) \cup {e}
    <2>1. \A i \in 1 .. Len(r) : i \in 1 .. n \/ i = n + 1  BY <1>1, <1>2
    <2>2. \A x \in ElementsOf(r) : x \in ElementsOf(s) \cup {e}
      <3> SUFFICES ASSUME NEW i \in 1 .. Len(r)  PROVE r[i] \in ElementsOf(s) \cup {e}
        BY <1>2, InElements
      <3> QED  BY <1>1, <1>2, <2>1, InElements
    <2>3. \A x \in ElementsOf(s) : x \in ElementsOf(r)
      <3>1. \A i \in 1 .. n : i \in 1 .. Len(r)  BY <1>1, <1>2
      <3> QED  BY <1>1, <1>2, <3>1, InElements
    <2>4. e \in ElementsOf(r)
      <3>1. n + 1 \in 1 .. Len(r)  BY <1>1, <1>2
      <3> QED  BY <1>2, <3>1, InElements
    <2> QED  BY <2>2, <2>3, <2>4
  <1>12. First(r) = (IF s = <<>> THEN e ELSE First(s))
    <2>1. n # 0 => 1 \in 1 .. n  BY <1>1
    <2> QED  BY <1>1, <1>2, <1>3, <2>1 DEF First
  <1>13. Last(r) = e  BY <1>2, <1>3 DEF Last
  <1> QED  BY <1>10, <1>11, <1>12, <1>13 DEF r

(* An item put in front.                                                   *)
Push(e, s) == [i \in 1 .. Len(s) + 1 |-> IF i = 1 THEN e ELSE s[i - 1]]

(* A list with an item put in front.                                       *)
LEMMA LinkedPush ==
    ASSUME NEW s, NEW nx, NEW pv, NEW nx2, NEW pv2, Linked(s, nx, pv),
           NEW e \in Nat, e \in DOMAIN nx, e \notin ElementsOf(s), NULL \notin Nat,
           DOMAIN nx2 = DOMAIN nx, DOMAIN nx \subseteq Nat,
           \A x \in DOMAIN nx : nx2[x] = IF x = e THEN First(s) ELSE nx[x],
           \A x \in DOMAIN nx : pv2[x] = IF x = First(s) THEN e ELSE IF x = e THEN NULL ELSE pv[x]
    PROVE  /\ Linked(Push(e, s), nx2, pv2)
           /\ ElementsOf(Push(e, s)) = ElementsOf(s) \cup {e}
           /\ First(Push(e, s)) = e
  <1> DEFINE r == Push(e, s)
             n == Len(s)
  <1>1. s \in Seq(Nat) /\ n \in Nat /\ (s = <<>> <=> n = 0)  BY DEF Linked
  <1>2. /\ r \in Seq(Nat) /\ Len(r) = n + 1 /\ r[1] = e
        /\ \A i \in 2 .. n + 1 : r[i] = s[i - 1]
    <2>1. \A i \in 1 .. n + 1 : i = 1 \/ i - 1 \in 1 .. n  BY <1>1
    <2>2. \A i \in 1 .. n + 1 : r[i] = IF i = 1 THEN e ELSE s[i - 1]  BY DEF Push
    <2>3. \A i \in 1 .. n + 1 : r[i] \in Nat  BY <1>1, <2>1, <2>2
    <2>4. r = [i \in 1 .. n + 1 |-> r[i]]  BY DEF Push
    <2> HIDE DEF r
    <2>5. n + 1 \in Nat  BY <1>1
    <2>6. r \in Seq(Nat) /\ Len(r) = n + 1  BY <2>3, <2>4, <2>5
    <2>7. 1 \in 1 .. n + 1 /\ \A i \in 2 .. n + 1 : i \in 1 .. n + 1 /\ i # 1  BY <1>1
    <2> QED  BY <2>2, <2>6, <2>7
  <1>3. r # <<>>  BY <1>1, <1>2
  <1> HIDE DEF r
  <1>4. \A i \in 1 .. n : s[i] # e /\ s[i] \in DOMAIN nx /\ s[i] \in Nat
    BY <1>1, InElements DEF Linked
  <1>5. \A i, j \in 1 .. n : s[i] = s[j] => i = j  BY DEF Linked
  <1>6. \A i \in 1 .. n : /\ nx[s[i]] = IF i = n THEN NULL ELSE s[i + 1]
                          /\ pv[s[i]] = IF i = 1 THEN NULL ELSE s[i - 1]
    BY DEF Linked
  <1>7. First(s) = IF n = 0 THEN NULL ELSE s[1]  BY <1>1 DEF First
  <1>8. ASSUME NEW i \in 1 .. Len(r)
        PROVE  /\ r[i] \in DOMAIN nx2
               /\ nx2[r[i]] = IF i = Len(r) THEN NULL ELSE r[i + 1]
               /\ pv2[r[i]] = IF i = 1 THEN NULL ELSE r[i - 1]
    <2>1. CASE i = 1
      <3>1. n # 0 => 1 \in 1 .. n /\ 2 \in 2 .. n + 1  BY <1>1
      <3>2. e # First(s)  BY <1>4, <1>7, <3>1
      <3>3. nx2[e] = First(s) /\ pv2[e] = NULL  BY <3>2
      <3>4. n # 0 => r[2] = s[1]
        <4>1. n # 0 => r[2] = s[2 - 1]  BY <1>2, <3>1
        <4> QED  BY <4>1
      <3>5. (i = Len(r)) <=> n = 0  BY <1>1, <1>2, <2>1
      <3>6. i + 1 = 2  BY <2>1
      <3> QED  BY <1>2, <1>7, <2>1, <3>3, <3>4, <3>5, <3>6
    <2>2. CASE i # 1
      <3> DEFINE j == i - 1
      <3>1. /\ i \in 2 .. n + 1 /\ j \in 1 .. n /\ n # 0 /\ 1 \in 1 .. n
            /\ (i = Len(r)) <=> (j = n)
            /\ j + 1 = i /\ j \in Int
        BY <1>1, <1>2, <2>2
      <3>2. r[i] = s[j]  BY <1>2, <3>1
      <3>3. i # Len(r) => r[i + 1] = s[j + 1]
        <4>1. i # Len(r) => i + 1 \in 2 .. n + 1 /\ (i + 1) - 1 = j + 1  BY <1>1, <1>2, <3>1
        <4>2. i # Len(r) => r[i + 1] = s[(i + 1) - 1]  BY <1>2, <4>1
        <4> QED  BY <4>1, <4>2
      <3>4. r[i - 1] = IF j = 1 THEN e ELSE s[j - 1]
        <4>1. j # 1 => j \in 2 .. n + 1  BY <1>1, <3>1
        <4> QED  BY <1>2, <4>1
      <3> HIDE DEF j
      <3>5. s[j] = First(s) <=> j = 1  BY <1>5, <1>7, <3>1
      <3>6. /\ s[j] \in DOMAIN nx /\ s[j] # e /\ nx[s[j]] = (IF j = n THEN NULL ELSE s[j + 1])
            /\ pv[s[j]] = (IF j = 1 THEN NULL ELSE s[j - 1])
        BY <1>4, <1>6, <3>1
      <3>7. nx2[s[j]] = nx[s[j]] /\ pv2[s[j]] = IF j = 1 THEN e ELSE pv[s[j]]
        BY <3>5, <3>6
      <3> QED  BY <2>2, <3>1, <3>2, <3>3, <3>4, <3>6, <3>7
    <2> QED  BY <2>1, <2>2
  <1>9. \A i, j \in 1 .. Len(r) : r[i] = r[j] => i = j
    <2> SUFFICES ASSUME NEW i \in 1 .. Len(r), NEW j \in 1 .. Len(r), r[i] = r[j]
                 PROVE  i = j
      OBVIOUS
    <2>1. \A k \in 1 .. Len(r) : k = 1 \/ (k \in 2 .. n + 1 /\ k - 1 \in 1 .. n)  BY <1>1, <1>2
    <2>2. CASE i # 1 /\ j # 1
      <3>1. r[i] = s[i - 1] /\ r[j] = s[j - 1] /\ i - 1 \in 1 .. n /\ j - 1 \in 1 .. n
        BY <1>2, <2>1, <2>2
      <3>2. i - 1 = j - 1  BY <1>5, <3>1
      <3> QED  BY <1>1, <1>2, <3>2
    <2>3. CASE i # 1 /\ j = 1
      <3>1. r[i] = s[i - 1] /\ i - 1 \in 1 .. n  BY <1>2, <2>1, <2>3
      <3> QED  BY <1>2, <1>4, <2>3, <3>1
    <2>4. CASE i = 1 /\ j # 1
      <3>1. r[j] = s[j - 1] /\ j - 1 \in 1 .. n  BY <1>2, <2>1, <2>4
      <3> QED  BY <1>2, <1>4, <2>4, <3>1
    <2> QED  BY <2>2, <2>3, <2>4
  <1>10. Linked(r, nx2, pv2)  BY <1>2, <1>8, <1>9 DEF Linked
  <1>11. ElementsOf(r) = ElementsOf(s) \cup {e}
    <2>1. \A i \in 1 .. Len(r) : i = 1 \/ (i \in 2 .. n + 1 /\ i - 1 \in 1 .. n)  BY <1>1, <1>2
    <2>2. \A x \in ElementsOf(r) : x \in ElementsOf(s) \cup {e}
      <3> SUFFICES ASSUME NEW i \in 1 .. Len(r)  PROVE r[i] \in ElementsOf(s) \cup {e}
        BY <1>2, InElements
      <3>1. i # 1 => r[i] = s[i - 1] /\ i - 1 \in 1 .. n  BY <1>2, <2>1
      <3> QED  BY <1>1, <1>2, <3>1, InElements
    <2>3. \A x \in ElementsOf(s) : x \in ElementsOf(r)
      <3> SUFFICES ASSUME NEW i \in 1 .. n  PROVE s[i] \in ElementsOf(r)
        BY <1>1, InElements
      <3>1. i + 1 \in 2 .. n + 1 /\ i + 1 \in 1 .. Len(r) /\ (i + 1) - 1 = i  BY <1>1, <1>2
      <3>2. r[i + 1] = s[(i + 1) - 1]  BY <1>2, <3>1
      <3>3. r[i + 1] = s[i]  BY <3>1, <3>2
      <3> QED  BY <1>2, <3>1, <3>3, InElements
    <2>4. e \in ElementsOf(r)
      <3>1. 1 \in 1 .. Len(r)  BY <1>1, <1>2
      <3> QED  BY <1>2, <3>1, InElements
    <2> QED  BY <2>2, <2>3, <2>4
  <1>12. First(r) = e  BY <1>2, <1>3 DEF First
  <1> QED  BY <1>10, <1>11, <1>12 DEF r

(* The k-th item taken out: nx2 and pv2 lead past it.                      *)
TakenOut(nx, pv, nx2, pv2, e) ==
    /\ DOMAIN nx2 = DOMAIN nx /\ DOMAIN nx \subseteq Nat
    /\ \A x \in DOMAIN nx : nx2[x] = IF x = pv[e] THEN nx[e] ELSE nx[x]
    /\ \A x \in DOMAIN nx : pv2[x] = IF x = nx[e] THEN pv[e] ELSE pv[x]

(* The list without it.                                                    *)
Shortened(s, k, nx, pv, nx2, pv2) ==
    /\ Linked(Without(s, k), nx2, pv2)
    /\ ElementsOf(Without(s, k)) = ElementsOf(s) \ {s[k]}
    /\ Len(Without(s, k)) = Len(s) - 1
    /\ First(Without(s, k)) = (IF s[k] = First(s) THEN nx[s[k]] ELSE First(s))
    /\ Last(Without(s, k)) = (IF s[k] = Last(s) THEN pv[s[k]] ELSE Last(s))

(* A list with an item taken out, its neighbours linked to each other.     *)
LEMMA LinkedWithout ==
    ASSUME NEW s, NEW nx, NEW pv, NEW nx2, NEW pv2, Linked(s, nx, pv),
           NEW k \in 1 .. Len(s), NULL \notin Nat, TakenOut(nx, pv, nx2, pv2, s[k])
    PROVE  Shortened(s, k, nx, pv, nx2, pv2)
  <1> DEFINE r == Without(s, k)
             n == Len(s)
             At(i) == IF i < k THEN i ELSE i + 1
  <1>0. /\ DOMAIN nx2 = DOMAIN nx /\ DOMAIN nx \subseteq Nat
        /\ \A x \in DOMAIN nx : nx2[x] = IF x = pv[s[k]] THEN nx[s[k]] ELSE nx[x]
        /\ \A x \in DOMAIN nx : pv2[x] = IF x = nx[s[k]] THEN pv[s[k]] ELSE pv[x]
    BY DEF TakenOut
  <1>1. s \in Seq(Nat) /\ n \in Nat /\ n # 0 /\ s # <<>> /\ 1 \in 1 .. n /\ n \in 1 .. n
    BY DEF Linked
  <1>2. \A i \in 1 .. n - 1 : At(i) \in 1 .. n /\ At(i) # k  BY <1>1
  <1>3. r \in Seq(Nat) /\ Len(r) = n - 1 /\ \A i \in 1 .. n - 1 : r[i] = s[At(i)]
    <2>1. \A i \in 1 .. n - 1 : r[i] = s[At(i)]  BY DEF Without
    <2>2. \A i \in 1 .. n - 1 : r[i] \in Nat  BY <1>1, <1>2, <2>1
    <2>3. r = [i \in 1 .. n - 1 |-> r[i]]  BY DEF Without
    <2>4. n - 1 \in Nat  BY <1>1
    <2> HIDE DEF r
    <2> QED  BY <2>1, <2>2, <2>3, <2>4
  <1> HIDE DEF r
  <1>4. \A i \in 1 .. n : s[i] \in DOMAIN nx /\ s[i] \in Nat /\ s[i] # NULL
    BY <1>1 DEF Linked
  <1>5. \A i, j \in 1 .. n : s[i] = s[j] => i = j  BY DEF Linked
  <1>6. \A i \in 1 .. n : /\ nx[s[i]] = IF i = n THEN NULL ELSE s[i + 1]
                          /\ pv[s[i]] = IF i = 1 THEN NULL ELSE s[i - 1]
    BY DEF Linked
  <1>7. ASSUME NEW i \in 1 .. n  PROVE s[i] = pv[s[k]] <=> i = k - 1
    <2>1. CASE k = 1  BY <1>4, <1>6, <2>1
    <2>2. CASE k # 1
      <3>1. k - 1 \in 1 .. n  BY <1>1, <2>2
      <3>2. pv[s[k]] = s[k - 1]  BY <1>6, <2>2
      <3> QED  BY <1>5, <3>1, <3>2
    <2> QED  BY <2>1, <2>2
  <1>8. ASSUME NEW i \in 1 .. n  PROVE s[i] = nx[s[k]] <=> i = k + 1
    <2>1. CASE k = n  BY <1>4, <1>6, <2>1
    <2>2. CASE k # n
      <3>1. k + 1 \in 1 .. n  BY <1>1, <2>2
      <3>2. nx[s[k]] = s[k + 1]  BY <1>6, <2>2
      <3> QED  BY <1>5, <3>1, <3>2
    <2> QED  BY <2>1, <2>2
  <1>9. ASSUME NEW i \in 1 .. n - 1
        PROVE  /\ r[i] \in DOMAIN nx2
               /\ nx2[r[i]] = IF i = n - 1 THEN NULL ELSE r[i + 1]
               /\ pv2[r[i]] = IF i = 1 THEN NULL ELSE r[i - 1]
    <2> DEFINE j == At(i)
    <2>1. j \in 1 .. n /\ j # k /\ r[i] = s[j]  BY <1>2, <1>3
    <2>2. nx2[s[j]] = (IF j = k - 1 THEN nx[s[k]] ELSE nx[s[j]])  BY <1>0, <1>4, <1>7, <2>1
    <2>3. pv2[s[j]] = (IF j = k + 1 THEN pv[s[k]] ELSE pv[s[j]])  BY <1>0, <1>4, <1>8, <2>1
    <2>4. nx2[s[j]] = IF i = n - 1 THEN NULL ELSE s[At(i + 1)]
      <3>1. CASE i = k - 1
        <4>1. j = k - 1 /\ At(i + 1) = k + 1 /\ (i = n - 1 <=> k = n)  BY <1>1, <3>1
        <4> HIDE DEF j
        <4> QED  BY <1>6, <2>2, <4>1
      <3>2. CASE i # k - 1
        <4>1. j # k - 1 /\ At(i + 1) = j + 1 /\ (i = n - 1 <=> j = n)  BY <1>1, <3>2
        <4> HIDE DEF j
        <4> QED  BY <1>6, <2>1, <2>2, <4>1
      <3> QED  BY <3>1, <3>2
    <2>5. pv2[s[j]] = IF i = 1 THEN NULL ELSE s[At(i - 1)]
      <3>1. CASE i = k
        <4>1. j = k + 1 /\ At(i - 1) = k - 1 /\ (i = 1 <=> k = 1)  BY <1>1, <3>1
        <4> HIDE DEF j
        <4> QED  BY <1>6, <2>3, <4>1
      <3>2. CASE i # k
        <4>1. j # k + 1 /\ At(i - 1) = j - 1 /\ (i = 1 <=> j = 1)  BY <1>1, <3>2
        <4> HIDE DEF j
        <4> QED  BY <1>6, <2>1, <2>3, <4>1
      <3> QED  BY <3>1, <3>2
    <2>6. i # n - 1 => r[i + 1] = s[At(i + 1)]
      <3>1. i # n - 1 => i + 1 \in 1 .. n - 1  BY <1>1
      <3> QED  BY <1>3, <3>1
    <2>7. i # 1 => r[i - 1] = s[At(i - 1)]
      <3>1. i # 1 => i - 1 \in 1 .. n - 1  BY <1>1
      <3> QED  BY <1>3, <3>1
    <2> HIDE DEF j, At
    <2> QED  BY <1>0, <1>4, <2>1, <2>4, <2>5, <2>6, <2>7
  <1>10. \A i, j \in 1 .. n - 1 : r[i] = r[j] => i = j
    <2> SUFFICES ASSUME NEW i \in 1 .. n - 1, NEW j \in 1 .. n - 1, r[i] = r[j]
                 PROVE  i = j
      OBVIOUS
    <2>1. At(i) = At(j)
      <3> HIDE DEF At
      <3> QED  BY <1>2, <1>3, <1>5
    <2> QED  BY <1>1, <2>1
  <1>11. Linked(r, nx2, pv2)  BY <1>3, <1>9, <1>10 DEF Linked
  <1>12. ElementsOf(r) = ElementsOf(s) \ {s[k]}
    <2>1. \A x \in ElementsOf(r) : x \in ElementsOf(s) \ {s[k]}
      <3> SUFFICES ASSUME NEW i \in 1 .. n - 1  PROVE r[i] \in ElementsOf(s) \ {s[k]}
        BY <1>3, InElements
      <3> HIDE DEF At
      <3>1. r[i] = s[At(i)] /\ At(i) \in 1 .. n /\ At(i) # k  BY <1>2, <1>3
      <3> QED  BY <1>1, <1>5, <3>1, InElements
    <2>2. \A x \in ElementsOf(s) \ {s[k]} : x \in ElementsOf(r)
      <3> SUFFICES ASSUME NEW i \in 1 .. n, i # k  PROVE s[i] \in ElementsOf(r)
        BY <1>1, InElements
      <3> DEFINE j == IF i < k THEN i ELSE i - 1
      <3>1. j \in 1 .. n - 1 /\ At(j) = i  BY <1>1
      <3> HIDE DEF j, At
      <3> QED  BY <1>3, <3>1, InElements
    <2> QED  BY <2>1, <2>2
  <1>13. s[k] = First(s) <=> k = 1  BY <1>1, <1>5 DEF First
  <1>14. s[k] = Last(s) <=> k = n  BY <1>1, <1>5 DEF Last
  <1>15. (r = <<>>) <=> (n = 1)
    <2>1. (r = <<>>) <=> (Len(r) = 0)  BY <1>3
    <2> QED  BY <1>1, <1>3, <2>1
  <1>16. First(r) = (IF k = 1 THEN nx[s[k]] ELSE s[1])
    <2>1. CASE n = 1
      <3>1. k = 1 /\ k = n  BY <2>1
      <3> QED  BY <1>6, <1>15, <2>1, <3>1 DEF First
    <2>2. CASE n # 1
      <3>1. 1 \in 1 .. n - 1 /\ At(1) = (IF k = 1 THEN 2 ELSE 1) /\ 1 + 1 = 2
        <4>1. k \in 1 .. n /\ n \in Nat /\ n # 0 /\ n # 1  BY <1>1, <2>2
        <4> HIDE DEF n
        <4> QED  BY <4>1
      <3>2. First(r) = s[At(1)]
        <4> HIDE DEF At
        <4> QED  BY <1>3, <1>15, <2>2, <3>1 DEF First
      <3>3. k = 1 => nx[s[k]] = s[2]  BY <1>6, <2>2, <3>1
      <3> QED  BY <3>1, <3>2, <3>3
    <2> QED  BY <2>1, <2>2
  <1>17. Last(r) = (IF k = n THEN pv[s[k]] ELSE s[n])
    <2>1. CASE n = 1
      <3>1. k = 1 /\ k = n  BY <2>1
      <3> QED  BY <1>6, <1>15, <2>1, <3>1 DEF Last
    <2>2. CASE n # 1
      <3>1. n - 1 \in 1 .. n - 1 /\ At(n - 1) = (IF k = n THEN n - 1 ELSE n)
        <4>1. k \in 1 .. n /\ n \in Nat /\ n # 0 /\ n # 1  BY <1>1, <2>2
        <4> HIDE DEF n
        <4> QED  BY <4>1
      <3>2. Last(r) = s[At(n - 1)]
        <4> HIDE DEF At
        <4> QED  BY <1>3, <1>15, <2>2, <3>1 DEF Last
      <3>3. k = n => pv[s[k]] = s[n - 1]  BY <1>6, <2>2
      <3> QED  BY <3>1, <3>2, <3>3
    <2> QED  BY <2>1, <2>2
  <1>18. First(s) = s[1] /\ Last(s) = s[n]  BY <1>1 DEF First, Last
  <1> QED  BY <1>3, <1>11, <1>12, <1>13, <1>14, <1>16, <1>17, <1>18 DEF r, Shortened

-----------------------------------------------------------------------------
(* Tables                                                                  *)

Ptr == Nat \cup {NULL}
Handles == [live : BOOLEAN, tbl : Ptr, key : Ptr, prev : Ptr, next : Ptr,
            hh_prev : Ptr, hh_next : Ptr]
TableRecords == [live : BOOLEAN, tail : Ptr, num_items : Int, buckets : [Buckets -> Ptr]]
Worlds == [head : [Units -> Ptr], hh : Seq(Handles), tbl : Seq(TableRecords), ok : BOOLEAN]

(* What is assumed of the hash function: HASH_TO_BKT gives a bucket.       *)
HashTotal == \A k \in Nat : HashBkt(k) \in Buckets

Nexts(hh)    == [e \in DOMAIN hh |-> hh[e].next]
Prevs(hh)    == [e \in DOMAIN hh |-> hh[e].prev]
BktNexts(hh) == [e \in DOMAIN hh |-> hh[e].hh_next]
BktPrevs(hh) == [e \in DOMAIN hh |-> hh[e].hh_prev]

(* The record t and its counters are those of the items s, in buckets c.   *)
RecordOf(r, s, c) ==
    /\ r.live /\ r.tail = Last(s) /\ r.num_items = Len(s)
    /\ \A b \in Buckets : r.buckets[b] = First(c[b])

(* Every item is in the list of its bucket and in no other.                *)
Sorted(hh, s, c) ==
    \A b \in Buckets :
        /\ Linked(c[b], BktNexts(hh), BktPrevs(hh))
        /\ ElementsOf(c[b]) = {e \in ElementsOf(s) : HashBkt(hh[e].key) = b}

(* The items are allocated, know their table, and have different keys.     *)
Keyed(hh, s, t) ==
    /\ \A e \in ElementsOf(s) : hh[e].live /\ hh[e].tbl = t /\ hh[e].key \in Nat
    /\ \A e, f \in ElementsOf(s) : hh[e].key = hh[f].key => e = f

(* Unit u has the table t of items s in buckets c.                         *)
Holds(v, u, t, s, c) ==
    /\ v.head[u] = First(s)
    /\ s # <<>> => t \in DOMAIN v.tbl /\ RecordOf(v.tbl[t], s, c)
    /\ Linked(s, Nexts(v.hh), Prevs(v.hh))
    /\ Sorted(v.hh, s, c)
    /\ Keyed(v.hh, s, t)

(* A list without repetition is not longer than the memory it is in.       *)
LEMMA ShortEnough ==
    ASSUME NEW hh \in Seq(Handles), NEW s \in Seq(Nat),
           \A i \in 1 .. Len(s) : s[i] \in DOMAIN hh,
           \A i, j \in 1 .. Len(s) : s[i] = s[j] => i = j
    PROVE  Len(s) <= Len(hh)
  <1> DEFINE m == Len(s)
             n == Len(hh)
  <1>1. m \in Nat /\ n \in Nat /\ DOMAIN hh = 1 .. n  OBVIOUS
  <1>2. /\ IsFiniteSet(1 .. m) /\ Cardinality(1 .. m) = m
        /\ IsFiniteSet(1 .. n) /\ Cardinality(1 .. n) = n
    <2>1. \A x \in Nat : 1 \in Int /\ x \in Int /\ (IF 1 > x THEN 0 ELSE (x - 1) + 1) = x
      OBVIOUS
    <2>2. \A x \in Nat : IsFiniteSet(1 .. x) /\ Cardinality(1 .. x) = x
      BY <2>1, FS_Interval
    <2> HIDE DEF m, n
    <2> QED  BY <1>1, <2>2
  <1>3. s \in [1 .. m -> 1 .. n]  BY <1>1
  <1>4. ASSUME n < m  PROVE FALSE
    <2> HIDE DEF m, n
    <2>1. \E x, y \in 1 .. m : x # y /\ s[x] = s[y]  BY <1>2, <1>3, <1>4, FS_PigeonHole
    <2> QED  BY <2>1 DEF m
  <1> QED  BY <1>1, <1>4

(* The links of an item that is linked.                                    *)
LEMMA LinksOf ==
    ASSUME NEW v \in Worlds, NEW s
    PROVE  /\ DOMAIN v.hh = 1 .. Len(v.hh) /\ Len(v.hh) \in Nat
           /\ DOMAIN Nexts(v.hh) = DOMAIN v.hh /\ DOMAIN BktNexts(v.hh) = DOMAIN v.hh
           /\ Linked(s, Nexts(v.hh), Prevs(v.hh)) =>
                 /\ s \in Seq(Nat) /\ Len(s) <= Len(v.hh)
                 /\ \A i \in 1 .. Len(s) :
                       /\ s[i] \in DOMAIN v.hh
                       /\ v.hh[s[i]].next = IF i = Len(s) THEN NULL ELSE s[i + 1]
                       /\ v.hh[s[i]].prev = IF i = 1 THEN NULL ELSE s[i - 1]
           /\ Linked(s, BktNexts(v.hh), BktPrevs(v.hh)) =>
                 /\ s \in Seq(Nat) /\ Len(s) <= Len(v.hh)
                 /\ \A i \in 1 .. Len(s) :
                       /\ s[i] \in DOMAIN v.hh
                       /\ v.hh[s[i]].hh_next = IF i = Len(s) THEN NULL ELSE s[i + 1]
                       /\ v.hh[s[i]].hh_prev = IF i = 1 THEN NULL ELSE s[i - 1]
  <1>1. v.hh \in Seq(Handles)  BY DEF Worlds
  <1>2. DOMAIN v.hh = 1 .. Len(v.hh) /\ Len(v.hh) \in Nat  BY <1>1
  <1>3. DOMAIN Nexts(v.hh) = DOMAIN v.hh /\ DOMAIN BktNexts(v.hh) = DOMAIN v.hh
    BY DEF Nexts, BktNexts
  <1>4. ASSUME Linked(s, Nexts(v.hh), Prevs(v.hh))
        PROVE  /\ s \in Seq(Nat) /\ Len(s) <= Len(v.hh)
               /\ \A i \in 1 .. Len(s) :
                     /\ s[i] \in DOMAIN v.hh
                     /\ v.hh[s[i]].next = IF i = Len(s) THEN NULL ELSE s[i + 1]
                     /\ v.hh[s[i]].prev = IF i = 1 THEN NULL ELSE s[i - 1]
    <2>1. /\ s \in Seq(Nat)
          /\ \A i \in 1 .. Len(s) : s[i] \in DOMAIN v.hh
          /\ \A i, j \in 1 .. Len(s) : s[i] = s[j] => i = j
      BY <1>3, <1>4 DEF Linked
    <2>2. Len(s) <= Len(v.hh)  BY <1>1, <2>1, ShortEnough
    <2>3. \A i \in 1 .. Len(s) :
              /\ v.hh[s[i]].next = IF i = Len(s) THEN NULL ELSE s[i + 1]
              /\ v.hh[s[i]].prev = IF i = 1 THEN NULL ELSE s[i - 1]
      BY <1>4, <2>1 DEF Linked, Nexts, Prevs
    <2> QED  BY <2>1, <2>2, <2>3
  <1>5. ASSUME Linked(s, BktNexts(v.hh), BktPrevs(v.hh))
        PROVE  /\ s \in Seq(Nat) /\ Len(s) <= Len(v.hh)
               /\ \A i \in 1 .. Len(s) :
                     /\ s[i] \in DOMAIN v.hh
                     /\ v.hh[s[i]].hh_next = IF i = Len(s) THEN NULL ELSE s[i + 1]
                     /\ v.hh[s[i]].hh_prev = IF i = 1 THEN NULL ELSE s[i - 1]
    <2>1. /\ s \in Seq(Nat)
          /\ \A i \in 1 .. Len(s) : s[i] \in DOMAIN v.hh
          /\ \A i, j \in 1 .. Len(s) : s[i] = s[j] => i = j
      BY <1>3, <1>5 DEF Linked
    <2>2. Len(s) <= Len(v.hh)  BY <1>1, <2>1, ShortEnough
    <2>3. \A i \in 1 .. Len(s) :
              /\ v.hh[s[i]].hh_next = IF i = Len(s) THEN NULL ELSE s[i + 1]
              /\ v.hh[s[i]].hh_prev = IF i = 1 THEN NULL ELSE s[i - 1]
      BY <1>5, <2>1 DEF Linked, BktNexts, BktPrevs
    <2> QED  BY <2>1, <2>2, <2>3
  <1> QED  BY <1>2, <1>3, <1>4, <1>5

-----------------------------------------------------------------------------
(* Walks along the links                                                   *)

(* Functions with the same domain and the same values are the same.        *)
LEMMA SameValues ==
    ASSUME NEW D, NEW f, NEW g, f = [x \in D |-> f[x]], g = [x \in D |-> g[x]],
           \A x \in D : f[x] = g[x]
    PROVE  f = g
  OBVIOUS

(* What stands at position i of a list, or behind its end.                 *)
Place(q, i) == IF i <= Len(q) THEN q[i] ELSE NULL

(* The function WalkBkt is defined with.                                   *)
WalkFrom(v, first, k) ==
    CHOOSE walk : walk = [n \in 0 .. Len(v.hh) |->
        IF n = 0 THEN first
        ELSE LET e == walk[n - 1]
             IN  IF e = NULL THEN NULL
                 ELSE IF ~Live(v, e) \/ v.hh[e].key = k THEN e
                 ELSE v.hh[e].hh_next]

(* Of the items q of a bucket the j-th is the first with key k; none has   *)
(* it if j is behind the end.                                              *)
FirstWithKey(v, q, k, j) ==
    /\ Linked(q, BktNexts(v.hh), BktPrevs(v.hh))
    /\ \A i \in 1 .. Len(q) : v.hh[q[i]].live
    /\ j \in 1 .. Len(q) + 1
    /\ j # Len(q) + 1 => v.hh[q[j]].key = k
    /\ \A i \in 1 .. j - 1 : v.hh[q[i]].key # k

(* The walk along a bucket ends at the first item that has the key, and    *)
(* behind the last one if none has.                                        *)
LEMMA WalkEnds ==
    ASSUME NULL \notin Nat, NEW v \in Worlds, NEW q, NEW k, NEW j, FirstWithKey(v, q, k, j)
    PROVE  WalkFrom(v, First(q), k)[Len(v.hh)] = Place(q, j)
  <1> SUFFICES ASSUME Linked(q, BktNexts(v.hh), BktPrevs(v.hh)),
                      \A i \in 1 .. Len(q) : v.hh[q[i]].live,
                      j \in 1 .. Len(q) + 1,
                      j # Len(q) + 1 => v.hh[q[j]].key = k,
                      \A i \in 1 .. j - 1 : v.hh[q[i]].key # k
               PROVE  WalkFrom(v, First(q), k)[Len(v.hh)] = Place(q, j)
    BY DEF FirstWithKey
  <1> DEFINE m == Len(q)
             N == Len(v.hh)
             Step(e) == IF e = NULL THEN NULL
                        ELSE IF ~Live(v, e) \/ v.hh[e].key = k THEN e
                        ELSE v.hh[e].hh_next
             At(n) == Place(q, IF n + 1 <= j THEN n + 1 ELSE j)
             g == [n \in 0 .. N |-> At(n)]
             W == WalkFrom(v, First(q), k)
  <1>1. /\ q \in Seq(Nat) /\ m \in Nat /\ N \in Nat /\ m <= N
        /\ \A i \in 1 .. m : v.hh[q[i]].hh_next = IF i = m THEN NULL ELSE q[i + 1]
    BY LinksOf
  <1>2. First(q) = Place(q, 1)  BY <1>1 DEF First, Place
  <1>3. ASSUME NEW i \in 1 .. j - 1  PROVE Step(Place(q, i)) = Place(q, i + 1)
    <2>1. i \in 1 .. m  BY <1>1
    <2>2. Place(q, i) = q[i] /\ q[i] # NULL  BY <1>1, <2>1 DEF Place
    <2>3. Step(q[i]) = v.hh[q[i]].hh_next  BY <2>1, <2>2 DEF Live
    <2>4. Place(q, i + 1) = IF i = m THEN NULL ELSE q[i + 1]  BY <1>1, <2>1 DEF Place
    <2> HIDE DEF Step
    <2> QED  BY <1>1, <2>1, <2>2, <2>3, <2>4
  <1>4. Step(Place(q, j)) = Place(q, j)
    <2>1. CASE j = m + 1
      <3>1. Place(q, j) = NULL  BY <1>1, <2>1 DEF Place
      <3> QED  BY <3>1
    <2>2. CASE j # m + 1
      <3>1. j \in 1 .. m  BY <1>1, <2>2
      <3>2. Place(q, j) = q[j] /\ q[j] # NULL  BY <1>1, <3>1 DEF Place
      <3> QED  BY <2>2, <3>2
    <2> QED  BY <2>1, <2>2
  <1>5. At(0) = First(q)
    <2>1. (IF 0 + 1 <= j THEN 0 + 1 ELSE j) = 1  BY <1>1
    <2> QED  BY <1>2, <2>1
  <1>6. ASSUME NEW n \in 0 .. N, n # 0  PROVE At(n) = Step(At(n - 1))
    <2> HIDE DEF Step
    <2>1. CASE n < j
      <3>1. n \in 1 .. j - 1 /\ (n - 1) + 1 = n /\ n + 1 <= j /\ n <= j
        <4>1. n \in Nat /\ j \in Nat /\ n # 0  BY <1>1, <1>6
        <4> QED  BY <2>1, <4>1
      <3>2. At(n) = Place(q, n + 1) /\ At(n - 1) = Place(q, n)  BY <3>1
      <3> QED  BY <1>3, <3>1, <3>2
    <2>2. CASE n >= j
      <3>1. ~(n + 1 <= j) /\ (IF (n - 1) + 1 <= j THEN (n - 1) + 1 ELSE j) = j
        <4>1. n \in Nat /\ j \in Nat  BY <1>1
        <4> QED  BY <2>2, <4>1
      <3>2. At(n) = Place(q, j) /\ At(n - 1) = Place(q, j)  BY <3>1
      <3> QED  BY <1>4, <3>2
    <2> QED  BY <1>1, <2>1, <2>2
  <1>7. ASSUME NEW n \in 0 .. N  PROVE g[n] = IF n = 0 THEN First(q) ELSE Step(g[n - 1])
    <2> HIDE DEF Step, At
    <2>1. n # 0 => n - 1 \in 0 .. N  BY <1>1
    <2> QED  BY <1>5, <1>6, <2>1
  <1>8. g = [n \in 0 .. N |-> IF n = 0 THEN First(q) ELSE Step(g[n - 1])]
    <2> DEFINE h == [n \in 0 .. N |-> IF n = 0 THEN First(q) ELSE Step(g[n - 1])]
    <2>1. g = [n \in 0 .. N |-> g[n]]  OBVIOUS
    <2> HIDE DEF g, Step
    <2>2. h = [n \in 0 .. N |-> h[n]]  OBVIOUS
    <2>3. \A n \in 0 .. N : h[n] = IF n = 0 THEN First(q) ELSE Step(g[n - 1])  OBVIOUS
    <2>4. \A n \in 0 .. N : g[n] = h[n]  BY <1>7, <2>3 DEF h
    <2> HIDE DEF h
    <2>5. g = h  BY <2>1, <2>2, <2>4, SameValues
    <2> QED  BY <2>5 DEF h
  <1>9. W = [n \in 0 .. N |-> IF n = 0 THEN First(q) ELSE Step(W[n - 1])]
    <2> DEFINE Eq(f) == f = [n \in 0 .. N |-> IF n = 0 THEN First(q) ELSE Step(f[n - 1])]
    <2>1. \E f : Eq(f)
      <3> HIDE DEF g
      <3> QED  BY <1>8
    <2>2. W = CHOOSE f : Eq(f)  BY DEF WalkFrom
    <2> HIDE DEF Eq, W, Step
    <2>3. Eq(W)  BY <2>1, <2>2
    <2> QED  BY <2>3 DEF Eq
  <1> HIDE DEF W, Step
  <1>10. \A n \in 0 .. N : W[n] = IF n = 0 THEN First(q) ELSE Step(W[n - 1])  BY <1>9
  <1> DEFINE S == {n \in Nat : n <= N => W[n] = At(n)}
  <1> HIDE DEF At
  <1>11. 0 \in S  BY <1>1, <1>5, <1>10
  <1>12. ASSUME NEW n \in S  PROVE n + 1 \in S
    <2>1. CASE n + 1 <= N
      <3>1. n + 1 \in 0 .. N /\ n + 1 # 0 /\ (n + 1) - 1 = n /\ n <= N  BY <1>1, <2>1
      <3>2. W[n + 1] = Step(W[(n + 1) - 1])  BY <1>10, <3>1
      <3>3. At(n + 1) = Step(At((n + 1) - 1))  BY <1>6, <3>1
      <3> QED  BY <3>1, <3>2, <3>3
    <2> QED  BY <2>1
  <1>13. N \in S
    <2>1. S \in SUBSET Nat  OBVIOUS
    <2> HIDE DEF S
    <2> QED  BY <1>1, <1>11, <1>12, <2>1, Induct
  <1>14. W[N] = At(N)  BY <1>1, <1>13
  <1>15. (IF N + 1 <= j THEN N + 1 ELSE j) = j  BY <1>1
  <1>16. At(N) = Place(q, j)  BY <1>15 DEF At
  <1> QED  BY <1>14, <1>16 DEF W

(* HASH_FIND gives the item with the key, or NULL if there is none, and is *)
(* defined.                                                                *)
LEMMA FindIs ==
    ASSUME NEW v \in Worlds, NEW u \in Units, NEW t, NEW s, NEW c, Holds(v, u, t, s, c),
           NEW k \in Nat, HashTotal
    PROVE  /\ FindDefined(v, v.head[u], k)
           /\ \A e \in ElementsOf(s) : v.hh[e].key = k => HASH_FIND(v, v.head[u], k) = e
           /\ (\A e \in ElementsOf(s) : v.hh[e].key # k) => HASH_FIND(v, v.head[u], k) = NULL
  <1>0. NULL \notin Nat  BY PrgmAssumption
  <1>1. CASE s = <<>>
    <2>1. v.head[u] = NULL /\ ElementsOf(s) = {}  BY <1>1, LinkedEmpty DEF Holds, First
    <2> QED  BY <2>1 DEF FindDefined, HASH_FIND
  <1>2. CASE s # <<>>
    <2> DEFINE h == v.head[u]
               b == HashBkt(k)
               q == c[b]
    <2>1. b \in Buckets  BY DEF HashTotal
    <2>2. /\ Linked(q, BktNexts(v.hh), BktPrevs(v.hh))
          /\ ElementsOf(q) = {e \in ElementsOf(s) : HashBkt(v.hh[e].key) = b}
      BY <2>1 DEF Holds, Sorted
    <2>3. s \in Seq(Nat) /\ 1 \in 1 .. Len(s) /\ h = s[1] /\ h \in ElementsOf(s) /\ h # NULL
      <3>1. s \in Seq(Nat) /\ h = s[1]  BY <1>2 DEF Holds, First, Linked
      <3>2. 1 \in 1 .. Len(s)  BY <1>2, <3>1
      <3> QED  BY <1>0, <3>1, <3>2, InElements
    <2>4. v.hh[h].live /\ v.hh[h].tbl = t /\ t \in DOMAIN v.tbl /\ RecordOf(v.tbl[t], s, c)
      BY <1>2, <2>3 DEF Holds, Keyed
    <2>5. t # NULL
      <3>1. v.tbl \in Seq(TableRecords)  BY DEF Worlds
      <3>2. t \in 1 .. Len(v.tbl) /\ Len(v.tbl) \in Nat  BY <2>4, <3>1
      <3> QED  BY <1>0, <3>2
    <2>6. Usable(v, h)  BY <2>4, <2>5 DEF Usable, Live, TblOf, Table, RecordOf
    <2>7. Table(v, h).buckets[b] = First(q)  BY <2>1, <2>4 DEF Table, TblOf, RecordOf
    <2>8. WalkBkt(v, h, k) = WalkFrom(v, First(q), k)[Len(v.hh)]
      BY <2>7 DEF WalkBkt, WalkFrom
    <2>9. HASH_FIND(v, h, k) = WalkBkt(v, h, k)  BY <2>3 DEF HASH_FIND
    <2> HIDE DEF h, q, b
    <2>10. q \in Seq(Nat) /\ Len(q) \in Nat  BY <2>2, LinksOf
    <2>11. ASSUME NEW i \in 1 .. Len(q)  PROVE q[i] \in ElementsOf(s) /\ v.hh[q[i]].live
      <3>1. q[i] \in ElementsOf(q)  BY <2>10, InElements
      <3> QED  BY <2>2, <3>1 DEF Holds, Keyed
    <2>12. ASSUME NEW j \in 1 .. Len(q) + 1, j # Len(q) + 1 => v.hh[q[j]].key = k,
                  \A i \in 1 .. j - 1 : v.hh[q[i]].key # k
           PROVE  WalkFrom(v, First(q), k)[Len(v.hh)] = Place(q, j)
      <3>1. FirstWithKey(v, q, k, j)  BY <2>2, <2>11, <2>12 DEF FirstWithKey
      <3> QED  BY <1>0, <3>1, WalkEnds
    <2>13. CASE \E e \in ElementsOf(s) : v.hh[e].key = k
      <3>1. PICK e \in ElementsOf(s) : v.hh[e].key = k  BY <2>13
      <3>2. e \in ElementsOf(q)  BY <2>2, <3>1 DEF b
      <3>3. PICK j \in 1 .. Len(q) : q[j] = e  BY <2>10, <3>2, InElements
      <3>4. \A f \in ElementsOf(s) : v.hh[f].key = k => f = e  BY <3>1 DEF Holds, Keyed
      <3>5. ASSUME NEW i \in 1 .. j - 1  PROVE v.hh[q[i]].key # k
        <4>1. i \in 1 .. Len(q) /\ i # j  BY <2>10
        <4>2. q[i] # q[j]  BY <2>2, <4>1 DEF Linked
        <4> QED  BY <2>11, <3>3, <3>4, <4>1, <4>2
      <3>6. j \in 1 .. Len(q) + 1 /\ j <= Len(q)  BY <2>10
      <3>7. WalkFrom(v, First(q), k)[Len(v.hh)] = Place(q, j)
        <4>1. \A i \in 1 .. j - 1 : v.hh[q[i]].key # k  BY <3>5
        <4>2. j # Len(q) + 1 => v.hh[q[j]].key = k  BY <3>1, <3>3
        <4> QED  BY <2>12, <3>6, <4>1, <4>2
      <3>8. WalkBkt(v, h, k) = e  BY <2>8, <3>3, <3>6, <3>7 DEF Place
      <3>9. v.hh[e].live  BY <2>11, <3>3
      <3>10. FindDefined(v, h, k)  BY <2>6, <3>1, <3>8, <3>9 DEF FindDefined, Live
      <3> QED  BY <2>9, <3>1, <3>4, <3>8, <3>10 DEF h
    <2>14. CASE \A e \in ElementsOf(s) : v.hh[e].key # k
      <3> DEFINE j == Len(q) + 1
      <3>1. j \in 1 .. Len(q) + 1 /\ ~(j <= Len(q)) /\ j - 1 = Len(q)  BY <2>10
      <3>2. \A i \in 1 .. j - 1 : v.hh[q[i]].key # k  BY <2>11, <2>14, <3>1
      <3>3. WalkFrom(v, First(q), k)[Len(v.hh)] = Place(q, j)
        <4> HIDE DEF j
        <4>1. j # Len(q) + 1 => v.hh[q[j]].key = k  BY DEF j
        <4> QED  BY <2>12, <3>1, <3>2, <4>1
      <3>4. WalkBkt(v, h, k) = NULL  BY <2>8, <3>1, <3>3 DEF Place
      <3>5. FindDefined(v, h, k)  BY <2>6, <3>4 DEF FindDefined
      <3> QED  BY <2>9, <2>14, <3>4, <3>5 DEF h
    <2> QED  BY <2>13, <2>14
  <1> QED  BY <1>1, <1>2

(* The first n items.                                                      *)
Prefix(s, n) == [i \in 1 .. n |-> s[i]]

(* The function Items is defined with.                                     *)
ItemsFrom(v, head) ==
    CHOOSE upto : upto = [n \in 0 .. Len(v.hh) |->
        IF n = 0 THEN IF head = NULL THEN <<>> ELSE <<head>>
        ELSE LET s == upto[n - 1]
             IN  IF s = <<>> \/ v.hh[s[Len(s)]].next = NULL THEN s
                 ELSE Append(s, v.hh[s[Len(s)]].next)]

(* Items lists the items of the table.                                     *)
LEMMA ItemsIs ==
    ASSUME NEW v \in Worlds, NEW s, NEW u \in Units, v.head[u] = First(s),
           Linked(s, Nexts(v.hh), Prevs(v.hh))
    PROVE  Items(v, v.head[u]) = s
  <1> DEFINE m == Len(s)
             N == Len(v.hh)
             Start == IF First(s) = NULL THEN <<>> ELSE <<First(s)>>
             Step(r) == IF r = <<>> \/ v.hh[r[Len(r)]].next = NULL THEN r
                        ELSE Append(r, v.hh[r[Len(r)]].next)
             At(n) == Prefix(s, IF n + 1 <= m THEN n + 1 ELSE m)
             g == [n \in 0 .. N |-> At(n)]
             W == ItemsFrom(v, First(s))
  <1>0. NULL \notin Nat  BY PrgmAssumption
  <1>1. /\ s \in Seq(Nat) /\ m \in Nat /\ N \in Nat /\ m <= N
        /\ \A i \in 1 .. m : v.hh[s[i]].next = IF i = m THEN NULL ELSE s[i + 1]
    BY LinksOf
  <1>2. ASSUME NEW i \in 0 .. m
        PROVE  /\ Prefix(s, i) \in Seq(Nat) /\ Len(Prefix(s, i)) = i
               /\ \A x \in 1 .. i : Prefix(s, i)[x] = s[x]
    <2>1. \A x \in 1 .. i : s[x] \in Nat  BY <1>1
    <2>2. i \in Nat  BY <1>1
    <2> QED  BY <2>1, <2>2 DEF Prefix
  <1>3. m # 0 => First(s) = s[1] /\ s[1] \in Nat  BY <1>1 DEF First
  <1>4. m = 0 => First(s) = NULL  BY <1>1 DEF First
  <1>5. At(0) = Start
    <2>1. CASE m = 0
      <3>1. (IF 0 + 1 <= m THEN 0 + 1 ELSE m) = 0  BY <2>1
      <3>2. Len(Prefix(s, 0)) = 0 /\ Prefix(s, 0) \in Seq(Nat)  BY <1>1, <1>2
      <3>3. Prefix(s, 0) = <<>>  BY <3>2
      <3> QED  BY <1>4, <2>1, <3>1, <3>3
    <2>2. CASE m # 0
      <3>1. (IF 0 + 1 <= m THEN 0 + 1 ELSE m) = 1 /\ 1 \in 0 .. m /\ 1 \in 1 .. 1  BY <1>1, <2>2
      <3>2. Prefix(s, 1) \in Seq(Nat) /\ Len(Prefix(s, 1)) = 1 /\ Prefix(s, 1)[1] = s[1]
        BY <1>2, <3>1
      <3>3. Prefix(s, 1) = <<s[1]>>  BY <3>2
      <3> QED  BY <1>0, <1>3, <2>2, <3>1, <3>3
    <2> QED  BY <2>1, <2>2
  <1>6. ASSUME NEW i \in 1 .. m - 1  PROVE Step(Prefix(s, i)) = Prefix(s, i + 1)
    <2> DEFINE r == Prefix(s, i)
               z == Prefix(s, i + 1)
    <2>1. i \in 0 .. m /\ i + 1 \in 0 .. m /\ i \in 1 .. m /\ i \in 1 .. i /\ i # 0 /\ i # m
      BY <1>1
    <2>2. r \in Seq(Nat) /\ Len(r) = i /\ r[i] = s[i]  BY <1>2, <2>1
    <2>3. z \in Seq(Nat) /\ Len(z) = i + 1  BY <1>2, <2>1
    <2>4. v.hh[r[Len(r)]].next = s[i + 1]  BY <1>1, <2>1, <2>2
    <2>5. s[i + 1] \in Nat /\ s[i + 1] # NULL
      <3>1. i + 1 \in 1 .. m  BY <1>1
      <3> QED  BY <1>0, <1>1, <3>1
    <2>6. \A x \in 1 .. i : r[x] = s[x]  BY <1>2, <2>1
    <2>7. \A x \in 1 .. i + 1 : z[x] = s[x]  BY <1>2, <2>1
    <2> HIDE DEF r, z
    <2>8. r # <<>>  BY <2>1, <2>2
    <2>9. z = Append(r, s[i + 1])
      <3> DEFINE y == Append(r, s[i + 1])
      <3>1. y \in Seq(Nat) /\ Len(y) = i + 1  BY <2>2, <2>5
      <3>2. ASSUME NEW x \in 1 .. i + 1  PROVE y[x] = z[x]
        <4>1. CASE x = i + 1  BY <2>2, <2>5, <2>7, <4>1
        <4>2. CASE x # i + 1
          <5>1. x \in 1 .. i  BY <2>1, <4>2
          <5>2. y[x] = r[x]  BY <2>2, <2>5, <5>1
          <5> QED  BY <2>6, <2>7, <5>1, <5>2
        <4> QED  BY <4>1, <4>2
      <3> HIDE DEF y
      <3>3. y = z  BY <2>3, <3>1, <3>2
      <3> QED  BY <3>3 DEF y
    <2> QED  BY <2>4, <2>5, <2>8, <2>9 DEF r, z
  <1>7. Step(Prefix(s, m)) = Prefix(s, m)
    <2>1. CASE m = 0
      <3>1. Prefix(s, m) \in Seq(Nat) /\ Len(Prefix(s, m)) = 0  BY <1>1, <1>2, <2>1
      <3>2. Prefix(s, m) = <<>>  BY <3>1
      <3> QED  BY <3>2
    <2>2. CASE m # 0
      <3>1. m \in 0 .. m /\ m \in 1 .. m  BY <1>1, <2>2
      <3>2. Len(Prefix(s, m)) = m /\ Prefix(s, m)[m] = s[m]  BY <1>2, <3>1
      <3>3. v.hh[s[m]].next = NULL  BY <1>1, <3>1
      <3> QED  BY <3>2, <3>3
    <2> QED  BY <2>1, <2>2
  <1>8. ASSUME NEW n \in 0 .. N, n # 0  PROVE At(n) = Step(At(n - 1))
    <2> HIDE DEF Step
    <2>0. n \in Nat /\ n - 1 \in Nat  BY <1>1, <1>8
    <2>1. CASE n < m
      <3>1. n \in 1 .. m - 1 /\ (n - 1) + 1 = n /\ n + 1 <= m /\ n <= m  BY <1>1, <2>0, <2>1
      <3>2. At(n) = Prefix(s, n + 1) /\ At(n - 1) = Prefix(s, n)  BY <3>1
      <3> QED  BY <1>6, <3>1, <3>2
    <2>2. CASE n >= m
      <3>1. ~(n + 1 <= m) /\ (IF (n - 1) + 1 <= m THEN (n - 1) + 1 ELSE m) = m
        <4> HIDE DEF m
        <4> QED  BY <1>1, <2>0, <2>2
      <3>2. At(n) = Prefix(s, m) /\ At(n - 1) = Prefix(s, m)  BY <3>1
      <3> QED  BY <1>7, <3>2
    <2> QED  BY <1>1, <2>0, <2>1, <2>2
  <1>9. ASSUME NEW n \in 0 .. N  PROVE g[n] = IF n = 0 THEN Start ELSE Step(g[n - 1])
    <2> HIDE DEF Step, At, Start
    <2>1. n # 0 => n - 1 \in 0 .. N  BY <1>1
    <2> QED  BY <1>5, <1>8, <2>1
  <1>10. g = [n \in 0 .. N |-> IF n = 0 THEN Start ELSE Step(g[n - 1])]
    <2>1. g = [n \in 0 .. N |-> g[n]]  OBVIOUS
    <2> HIDE DEF g, Step, Start
    <2> QED  BY <1>9, <2>1
  <1>11. W = [n \in 0 .. N |-> IF n = 0 THEN Start ELSE Step(W[n - 1])]
    <2> DEFINE Eq(f) == f = [n \in 0 .. N |-> IF n = 0 THEN Start ELSE Step(f[n - 1])]
    <2>1. \E f : Eq(f)
      <3> HIDE DEF g
      <3> QED  BY <1>10
    <2>2. W = CHOOSE f : Eq(f)  BY DEF ItemsFrom
    <2> HIDE DEF Eq, W
    <2>3. Eq(W)  BY <2>1, <2>2
    <2> QED  BY <2>3 DEF Eq
  <1>12. Items(v, v.head[u]) = W[N]  BY DEF Items, ItemsFrom
  <1> HIDE DEF W, Step, Start
  <1>13. \A n \in 0 .. N : W[n] = IF n = 0 THEN Start ELSE Step(W[n - 1])  BY <1>11
  <1> DEFINE S == {n \in Nat : n <= N => W[n] = At(n)}
  <1> HIDE DEF At
  <1>14. 0 \in S  BY <1>1, <1>5, <1>13
  <1>15. ASSUME NEW n \in S  PROVE n + 1 \in S
    <2>1. CASE n + 1 <= N
      <3>1. n + 1 \in 0 .. N /\ n + 1 # 0 /\ (n + 1) - 1 = n /\ n <= N  BY <1>1, <2>1
      <3>2. W[n + 1] = Step(W[(n + 1) - 1])  BY <1>13, <3>1
      <3>3. At(n + 1) = Step(At((n + 1) - 1))  BY <1>8, <3>1
      <3> QED  BY <3>1, <3>2, <3>3
    <2> QED  BY <2>1
  <1>16. N \in S
    <2>1. S \in SUBSET Nat  OBVIOUS
    <2> HIDE DEF S
    <2> QED  BY <1>1, <1>14, <1>15, <2>1, Induct
  <1>17. W[N] = At(N)  BY <1>1, <1>16
  <1>18. (IF N + 1 <= m THEN N + 1 ELSE m) = m  BY <1>1
  <1>19. At(N) = Prefix(s, m)  BY <1>18 DEF At
  <1>20. Prefix(s, m) = s  BY <1>1 DEF Prefix
  <1> QED  BY <1>12, <1>17, <1>19, <1>20

(* What Holds says is what the run's Sound says.                           *)
LEMMA SoundIs ==
    ASSUME NEW v \in Worlds, NEW u \in Units, NEW t, NEW s, NEW c, Holds(v, u, t, s, c), HashTotal
    PROVE  Sound(v, v.head[u]) /\ Items(v, v.head[u]) = s
  <1>0. NULL \notin Nat  BY PrgmAssumption
  <1>1. Items(v, v.head[u]) = s  BY ItemsIs DEF Holds
  <1>2. ASSUME v.head[u] # NULL
        PROVE  /\ Usable(v, v.head[u])
               /\ \A i \in 1 .. Len(s) :
                     /\ Live(v, s[i]) /\ TblOf(v, s[i]) = TblOf(v, v.head[u])
                     /\ v.hh[s[i]].prev = IF i = 1 THEN NULL ELSE s[i - 1]
                     /\ HASH_FIND(v, v.head[u], v.hh[s[i]].key) = s[i]
               /\ Table(v, v.head[u]).tail = s[Len(s)] /\ v.hh[s[Len(s)]].next = NULL
               /\ Table(v, v.head[u]).num_items = Len(s)
    <2>1. s # <<>> /\ v.head[u] = s[1]  BY <1>2 DEF Holds, First
    <2>2. /\ s \in Seq(Nat) /\ Len(s) \in Nat /\ 1 \in 1 .. Len(s) /\ Len(s) \in 1 .. Len(s)
          /\ \A i \in 1 .. Len(s) :
                /\ v.hh[s[i]].next = IF i = Len(s) THEN NULL ELSE s[i + 1]
                /\ v.hh[s[i]].prev = IF i = 1 THEN NULL ELSE s[i - 1]
      <3>1. /\ s \in Seq(Nat)
            /\ \A i \in 1 .. Len(s) :
                  /\ v.hh[s[i]].next = IF i = Len(s) THEN NULL ELSE s[i + 1]
                  /\ v.hh[s[i]].prev = IF i = 1 THEN NULL ELSE s[i - 1]
        BY LinksOf DEF Holds
      <3>2. Len(s) \in Nat /\ Len(s) # 0  BY <2>1, <3>1
      <3>3. 1 \in 1 .. Len(s) /\ Len(s) \in 1 .. Len(s)  BY <3>2
      <3> QED  BY <3>1, <3>2, <3>3
    <2>3. \A i \in 1 .. Len(s) : s[i] \in ElementsOf(s)  BY <2>2, InElements
    <2>4. \A i \in 1 .. Len(s) : v.hh[s[i]].live /\ v.hh[s[i]].tbl = t /\ v.hh[s[i]].key \in Nat
      BY <2>3 DEF Holds, Keyed
    <2>5. t \in DOMAIN v.tbl /\ RecordOf(v.tbl[t], s, c)  BY <2>1 DEF Holds
    <2>6. t # NULL
      <3>1. v.tbl \in Seq(TableRecords)  BY DEF Worlds
      <3>2. t \in 1 .. Len(v.tbl) /\ Len(v.tbl) \in Nat  BY <2>5, <3>1
      <3> QED  BY <1>0, <3>2
    <2>7. Usable(v, v.head[u])
      BY <2>1, <2>2, <2>4, <2>5, <2>6 DEF Usable, Live, TblOf, Table, RecordOf
    <2>8. \A i \in 1 .. Len(s) : HASH_FIND(v, v.head[u], v.hh[s[i]].key) = s[i]
      BY <2>3, <2>4, FindIs
    <2>9. TblOf(v, v.head[u]) = t
      <3>1. v.hh[s[1]].tbl = t  BY <2>2, <2>4
      <3> QED  BY <2>1, <3>1 DEF TblOf
    <2>10. Table(v, v.head[u]).tail = s[Len(s)] /\ Table(v, v.head[u]).num_items = Len(s)
      BY <2>1, <2>5, <2>9 DEF Table, RecordOf, Last
    <2> QED  BY <2>2, <2>4, <2>7, <2>8, <2>9, <2>10 DEF Live, TblOf
  <1> QED  BY <1>1, <1>2 DEF Sound

-----------------------------------------------------------------------------
(* Insertion                                                               *)

(* What an insertion does to the handles: z is hh with e behind tail, and  *)
(* with e in its bucket in front of first.                                 *)
ListAdded(hh, z, tail, e) ==
    /\ z \in Seq(Handles) /\ DOMAIN z = DOMAIN hh
    /\ \A x \in DOMAIN hh :
          /\ z[x].live = hh[x].live /\ z[x].tbl = hh[x].tbl /\ z[x].key = hh[x].key
          /\ z[x].next = IF x = tail THEN e ELSE IF x = e THEN NULL ELSE hh[x].next
          /\ z[x].prev = IF x = e THEN tail ELSE hh[x].prev
          /\ z[x].hh_next = hh[x].hh_next /\ z[x].hh_prev = hh[x].hh_prev

BktAdded(hh, z, first, e) ==
    /\ z \in Seq(Handles) /\ DOMAIN z = DOMAIN hh
    /\ \A x \in DOMAIN hh :
          /\ z[x].live = hh[x].live /\ z[x].tbl = hh[x].tbl /\ z[x].key = hh[x].key
          /\ z[x].next = hh[x].next /\ z[x].prev = hh[x].prev
          /\ z[x].hh_next = IF x = e THEN first ELSE hh[x].hh_next
          /\ z[x].hh_prev = IF x = first THEN e ELSE IF x = e THEN NULL ELSE hh[x].hh_prev

(* The handles after HASH_APPEND_LIST.                                     *)
LEMMA AppendListIs ==
    ASSUME NEW hh \in Seq(Handles), NEW e \in DOMAIN hh, NEW tail \in DOMAIN hh, tail # e
    PROVE  ListAdded(hh, HASH_APPEND_LIST(hh, tail, e), tail, e)
  <1> DEFINE z == HASH_APPEND_LIST(hh, tail, e)
             E == [hh[e] EXCEPT !.next = NULL, !.prev = tail]
             T == [hh[tail] EXCEPT !.next = e]
  <1>1. DOMAIN hh = 1 .. Len(hh) /\ Len(hh) \in Nat /\ e \in Ptr /\ tail \in Ptr /\ NULL \in Ptr
    BY DEF Ptr
  <1>2. \A x \in DOMAIN hh : hh[x] \in Handles  OBVIOUS
  <1>3. z = [x \in DOMAIN hh |-> z[x]]  BY DEF HASH_APPEND_LIST
  <1>4. z[e] = E /\ z[tail] = T /\ \A x \in DOMAIN hh : x # e /\ x # tail => z[x] = hh[x]
    BY DEF HASH_APPEND_LIST
  <1>5. /\ E \in Handles /\ E.live = hh[e].live /\ E.tbl = hh[e].tbl /\ E.key = hh[e].key
        /\ E.next = NULL /\ E.prev = tail /\ E.hh_next = hh[e].hh_next /\ E.hh_prev = hh[e].hh_prev
    <2>1. hh[e] \in Handles  BY <1>2
    <2> QED  BY <1>1, <2>1 DEF Handles
  <1>6. /\ T \in Handles /\ T.live = hh[tail].live /\ T.tbl = hh[tail].tbl
        /\ T.key = hh[tail].key /\ T.next = e /\ T.prev = hh[tail].prev
        /\ T.hh_next = hh[tail].hh_next /\ T.hh_prev = hh[tail].hh_prev
    <2>1. hh[tail] \in Handles  BY <1>2
    <2> QED  BY <1>1, <2>1 DEF Handles
  <1> HIDE DEF z, E, T
  <1>7. DOMAIN z = DOMAIN hh /\ \A x \in DOMAIN hh : z[x] \in Handles
    BY <1>2, <1>3, <1>4, <1>5, <1>6
  <1>8. z \in Seq(Handles)  BY <1>1, <1>3, <1>7
  <1>9. \A x \in DOMAIN hh :
           /\ z[x].live = hh[x].live /\ z[x].tbl = hh[x].tbl /\ z[x].key = hh[x].key
           /\ z[x].next = IF x = tail THEN e ELSE IF x = e THEN NULL ELSE hh[x].next
           /\ z[x].prev = IF x = e THEN tail ELSE hh[x].prev
           /\ z[x].hh_next = hh[x].hh_next /\ z[x].hh_prev = hh[x].hh_prev
    BY <1>4, <1>5, <1>6
  <1>10. ListAdded(hh, z, tail, e)  BY <1>7, <1>8, <1>9 DEF ListAdded
  <1> QED  BY <1>10 DEF z

(* The handles after HASH_ADD_TO_BKT.                                      *)
LEMMA AddToBktIs ==
    ASSUME NEW hh \in Seq(Handles), NEW e \in DOMAIN hh, NEW first,
           first = NULL \/ (first \in DOMAIN hh /\ first # e)
    PROVE  BktAdded(hh, HASH_ADD_TO_BKT(hh, first, e), first, e)
  <1>0. NULL \notin Nat  BY PrgmAssumption
  <1>1. DOMAIN hh = 1 .. Len(hh) /\ Len(hh) \in Nat /\ e \in Ptr /\ first \in Ptr /\ NULL \in Ptr
        /\ NULL \notin DOMAIN hh
    BY <1>0 DEF Ptr
  <1> DEFINE z == HASH_ADD_TO_BKT(hh, first, e)
             E == [hh[e] EXCEPT !.hh_next = first, !.hh_prev = NULL]
             F == [hh[first] EXCEPT !.hh_prev = e]
  <1>2. \A x \in DOMAIN hh : hh[x] \in Handles  OBVIOUS
  <1>3. z = [x \in DOMAIN hh |-> z[x]]  BY DEF HASH_ADD_TO_BKT
  <1>4. z[e] = E /\ \A x \in DOMAIN hh : x # e /\ x # first => z[x] = hh[x]
    <2>1. CASE first = NULL  BY <1>1, <2>1 DEF HASH_ADD_TO_BKT
    <2>2. CASE first # NULL  BY <1>1, <2>2 DEF HASH_ADD_TO_BKT
    <2> QED  BY <2>1, <2>2
  <1>5. first # NULL => z[first] = F
    <2> SUFFICES ASSUME first # NULL  PROVE z[first] = F  OBVIOUS
    <2>1. first \in DOMAIN hh /\ first # e  OBVIOUS
    <2> QED  BY <2>1 DEF HASH_ADD_TO_BKT
  <1>6. /\ E \in Handles /\ E.live = hh[e].live /\ E.tbl = hh[e].tbl /\ E.key = hh[e].key
        /\ E.next = hh[e].next /\ E.prev = hh[e].prev /\ E.hh_next = first /\ E.hh_prev = NULL
    <2>1. hh[e] \in Handles  BY <1>2
    <2> QED  BY <1>1, <2>1 DEF Handles
  <1>7. first # NULL =>
           /\ F \in Handles /\ F.live = hh[first].live /\ F.tbl = hh[first].tbl
           /\ F.key = hh[first].key /\ F.next = hh[first].next /\ F.prev = hh[first].prev
           /\ F.hh_next = hh[first].hh_next /\ F.hh_prev = e
    <2> SUFFICES ASSUME first # NULL
                 PROVE /\ F \in Handles /\ F.live = hh[first].live /\ F.tbl = hh[first].tbl
                       /\ F.key = hh[first].key /\ F.next = hh[first].next /\ F.prev = hh[first].prev
                       /\ F.hh_next = hh[first].hh_next /\ F.hh_prev = e
      OBVIOUS
    <2>1. hh[first] \in Handles  BY <1>2
    <2> QED  BY <1>1, <2>1 DEF Handles
  <1> HIDE DEF z, E, F
  <1>8. DOMAIN z = DOMAIN hh /\ \A x \in DOMAIN hh : z[x] \in Handles
    BY <1>1, <1>2, <1>3, <1>4, <1>5, <1>6, <1>7
  <1>9. z \in Seq(Handles)  BY <1>1, <1>3, <1>8
  <1>10. \A x \in DOMAIN hh :
            /\ z[x].live = hh[x].live /\ z[x].tbl = hh[x].tbl /\ z[x].key = hh[x].key
            /\ z[x].next = hh[x].next /\ z[x].prev = hh[x].prev
            /\ z[x].hh_next = IF x = e THEN first ELSE hh[x].hh_next
            /\ z[x].hh_prev = IF x = first THEN e ELSE IF x = e THEN NULL ELSE hh[x].hh_prev
    BY <1>1, <1>4, <1>5, <1>6, <1>7
  <1>11. BktAdded(hh, z, first, e)  BY <1>8, <1>9, <1>10 DEF BktAdded
  <1> QED  BY <1>11 DEF z

(* z is hh with e in table t under key k, behind last and in its bucket in *)
(* front of first.                                                         *)
HandleAdded(hh, z, e, k, t, last, first) ==
    /\ z \in Seq(Handles) /\ DOMAIN z = DOMAIN hh
    /\ \A x \in DOMAIN hh :
          /\ z[x].live = hh[x].live
          /\ z[x].tbl = IF x = e THEN t ELSE hh[x].tbl
          /\ z[x].key = IF x = e THEN k ELSE hh[x].key
          /\ z[x].next = IF x = last THEN e ELSE IF x = e THEN NULL ELSE hh[x].next
          /\ z[x].prev = IF x = e THEN last ELSE hh[x].prev
          /\ z[x].hh_next = IF x = e THEN first ELSE hh[x].hh_next
          /\ z[x].hh_prev = IF x = first THEN e ELSE IF x = e THEN NULL ELSE hh[x].hh_prev

(* The handles after the first item of a table is added.                   *)
LEMMA AddFirstHandles ==
    ASSUME NEW hh \in Seq(Handles), NEW e \in DOMAIN hh, NEW k \in Nat, NEW t \in Nat
    PROVE  HandleAdded(hh, HASH_ADD_TO_BKT([hh EXCEPT ![e].tbl = t, ![e].key = k,
                               ![e].next = NULL, ![e].prev = NULL], NULL, e), e, k, t, NULL, NULL)
  <1> DEFINE y == [hh EXCEPT ![e].tbl = t, ![e].key = k, ![e].next = NULL, ![e].prev = NULL]
             E == [hh[e] EXCEPT !.tbl = t, !.key = k, !.next = NULL, !.prev = NULL]
             z == HASH_ADD_TO_BKT(y, NULL, e)
  <1>0. NULL \notin Nat  BY PrgmAssumption
  <1>1. DOMAIN hh = 1 .. Len(hh) /\ Len(hh) \in Nat /\ k \in Ptr /\ t \in Ptr /\ NULL \in Ptr
        /\ NULL \notin DOMAIN hh
    BY <1>0 DEF Ptr
  <1>2. \A x \in DOMAIN hh : hh[x] \in Handles  OBVIOUS
  <1>3. y = [x \in DOMAIN hh |-> y[x]] /\ y[e] = E /\ \A x \in DOMAIN hh : x # e => y[x] = hh[x]
    OBVIOUS
  <1>4. /\ E \in Handles /\ E.live = hh[e].live /\ E.tbl = t /\ E.key = k /\ E.next = NULL
        /\ E.prev = NULL /\ E.hh_next = hh[e].hh_next /\ E.hh_prev = hh[e].hh_prev
    <2>1. hh[e] \in Handles  BY <1>2
    <2> QED  BY <1>1, <2>1 DEF Handles
  <1> HIDE DEF y, E
  <1>5. DOMAIN y = DOMAIN hh /\ \A x \in DOMAIN hh : y[x] \in Handles  BY <1>2, <1>3, <1>4
  <1>6. y \in Seq(Handles)  BY <1>1, <1>3, <1>5
  <1>7. BktAdded(y, z, NULL, e)  BY <1>5, <1>6, AddToBktIs
  <1> HIDE DEF z
  <1>8. HandleAdded(hh, z, e, k, t, NULL, NULL)
    BY <1>1, <1>3, <1>4, <1>5, <1>7 DEF HandleAdded, BktAdded
  <1> QED  BY <1>8 DEF y, z

(* The handles after an item is added behind the others.                   *)
LEMMA AddBehindHandles ==
    ASSUME NEW hh \in Seq(Handles), NEW e \in DOMAIN hh, NEW k \in Nat, NEW t \in Nat,
           NEW tail \in DOMAIN hh, tail # e, NEW first,
           first = NULL \/ (first \in DOMAIN hh /\ first # e)
    PROVE  HandleAdded(hh,
               HASH_ADD_TO_BKT(HASH_APPEND_LIST([hh EXCEPT ![e].tbl = t, ![e].key = k], tail, e),
                               first, e),
               e, k, t, tail, first)
  <1> DEFINE y == [hh EXCEPT ![e].tbl = t, ![e].key = k]
             E == [hh[e] EXCEPT !.tbl = t, !.key = k]
             x1 == HASH_APPEND_LIST(y, tail, e)
             z == HASH_ADD_TO_BKT(x1, first, e)
  <1>0. NULL \notin Nat  BY PrgmAssumption
  <1>1. DOMAIN hh = 1 .. Len(hh) /\ Len(hh) \in Nat /\ k \in Ptr /\ t \in Ptr /\ NULL \in Ptr
        /\ NULL \notin DOMAIN hh
    BY <1>0 DEF Ptr
  <1>2. \A x \in DOMAIN hh : hh[x] \in Handles  OBVIOUS
  <1>3. y = [x \in DOMAIN hh |-> y[x]] /\ y[e] = E /\ \A x \in DOMAIN hh : x # e => y[x] = hh[x]
    OBVIOUS
  <1>4. /\ E \in Handles /\ E.live = hh[e].live /\ E.tbl = t /\ E.key = k /\ E.next = hh[e].next
        /\ E.prev = hh[e].prev /\ E.hh_next = hh[e].hh_next /\ E.hh_prev = hh[e].hh_prev
    <2>1. hh[e] \in Handles  BY <1>2
    <2> QED  BY <1>1, <2>1 DEF Handles
  <1> HIDE DEF y, E
  <1>5. DOMAIN y = DOMAIN hh /\ \A x \in DOMAIN hh : y[x] \in Handles  BY <1>2, <1>3, <1>4
  <1>6. y \in Seq(Handles)  BY <1>1, <1>3, <1>5
  <1>7. ListAdded(y, x1, tail, e)
    <2>1. e \in DOMAIN y /\ tail \in DOMAIN y /\ tail # e  BY <1>5
    <2> QED  BY <1>6, <2>1, AppendListIs
  <1> HIDE DEF x1
  <1>8. BktAdded(x1, z, first, e)
    <2>1. x1 \in Seq(Handles) /\ DOMAIN x1 = DOMAIN hh  BY <1>5, <1>7 DEF ListAdded
    <2>2. e \in DOMAIN x1 /\ (first = NULL \/ (first \in DOMAIN x1 /\ first # e))  BY <2>1
    <2> QED  BY <2>1, <2>2, AddToBktIs
  <1> HIDE DEF z
  <1>9. HandleAdded(hh, z, e, k, t, tail, first)
    BY <1>1, <1>3, <1>4, <1>5, <1>7, <1>8 DEF HandleAdded, ListAdded, BktAdded
  <1> QED  BY <1>9 DEF y, x1, z

(* The record of the table a new item goes into.                           *)
TableFor(v, t, s) == IF s = <<>> THEN Len(v.tbl) + 1 ELSE t

(* An empty bucket list is empty.                                          *)
LEMMA NoElements ==
    ASSUME NEW q \in Seq(Nat), ElementsOf(q) = {}
    PROVE  q = <<>>
  <1>1. Len(q) \in Nat  OBVIOUS
  <1>2. CASE Len(q) # 0
    <2>1. 1 \in 1 .. Len(q)  BY <1>1, <1>2
    <2>2. q[1] \in ElementsOf(q)  BY <2>1, InElements
    <2> QED  BY <2>2
  <1> QED  BY <1>2

(* What HASH_ADD does, both for the first item and for the others.         *)
LEMMA AddFields ==
    ASSUME NEW v \in Worlds, NEW u \in Units, NEW t, NEW s, NEW c, Holds(v, u, t, s, c),
           NEW k \in Nat, NEW e \in DOMAIN v.hh, e \notin ElementsOf(s), HashTotal
    PROVE  LET a  == HASH_ADD(v, u, k, e)
               t2 == TableFor(v, t, s)
           IN  /\ a \in Worlds /\ a.ok = v.ok
               /\ a.head[u] = First(Append(s, e)) /\ \A x \in Units : x # u => a.head[x] = v.head[x]
               /\ HandleAdded(v.hh, a.hh, e, k, t2, Last(s), First(c[HashBkt(k)]))
               /\ t2 \in DOMAIN a.tbl /\ a.tbl[t2].live /\ a.tbl[t2].tail = e
               /\ a.tbl[t2].num_items = Len(s) + 1
               /\ \A b \in Buckets :
                     a.tbl[t2].buckets[b] = IF b = HashBkt(k) THEN e ELSE First(c[b])
               /\ \A x \in DOMAIN v.tbl : x \in DOMAIN a.tbl /\ (x # t2 => a.tbl[x] = v.tbl[x])
  <1> DEFINE a  == HASH_ADD(v, u, k, e)
             t2 == TableFor(v, t, s)
             bk == HashBkt(k)
             f  == First(c[bk])
  <1>0. NULL \notin Nat  BY PrgmAssumption
  <1>1. /\ v.head \in [Units -> Ptr] /\ v.hh \in Seq(Handles) /\ v.tbl \in Seq(TableRecords)
        /\ v.ok \in BOOLEAN
        /\ v = [head |-> v.head, hh |-> v.hh, tbl |-> v.tbl, ok |-> v.ok]
    BY DEF Worlds
  <1>2. bk \in Buckets /\ s \in Seq(Nat) /\ v.head[u] = First(s)
    BY DEF HashTotal, Holds, Linked
  <1>3. /\ c[bk] \in Seq(Nat)
        /\ \A x \in ElementsOf(c[bk]) : x \in ElementsOf(s)
        /\ \A i \in 1 .. Len(c[bk]) : c[bk][i] \in DOMAIN v.hh
    <2>1. Linked(c[bk], BktNexts(v.hh), BktPrevs(v.hh))  BY <1>2 DEF Holds, Sorted
    <2>2. ElementsOf(c[bk]) = {x \in ElementsOf(s) : HashBkt(v.hh[x].key) = bk}
      BY <1>2 DEF Holds, Sorted
    <2> QED  BY <2>1, <2>2, LinksOf
  <1>4. f = NULL \/ (f \in DOMAIN v.hh /\ f # e)
    <2>1. CASE c[bk] = <<>>  BY <2>1 DEF First
    <2>2. CASE c[bk] # <<>>
      <3>1. 1 \in 1 .. Len(c[bk])  BY <1>3, <2>2
      <3>2. c[bk][1] \in ElementsOf(c[bk])  BY <1>3, <3>1, InElements
      <3> QED  BY <1>3, <2>2, <3>1, <3>2 DEF First
    <2> QED  BY <2>1, <2>2
  <1>5. e \in Ptr /\ e \in Nat /\ Len(v.tbl) \in Nat /\ DOMAIN v.tbl = 1 .. Len(v.tbl)
    BY <1>1 DEF Ptr
  <1>6. CASE s = <<>>
    <2> DEFINE r == [HASH_MAKE_TABLE(e) EXCEPT !.num_items = 1, !.buckets[HashBkt(k)] = e]
               h == HASH_ADD_TO_BKT([v.hh EXCEPT ![e].tbl = Len(v.tbl) + 1, ![e].key = k,
                                        ![e].next = NULL, ![e].prev = NULL], NULL, e)
               hd == [v.head EXCEPT ![u] = e]
               tb == Append(v.tbl, r)
    <2>1. v.head[u] = NULL /\ t2 = Len(v.tbl) + 1 /\ Last(s) = NULL  BY <1>2, <1>6 DEF First, Last, TableFor
    <2>2. f = NULL
      <3>1. ElementsOf(s) = {}  BY <1>6, LinkedEmpty
      <3>2. ElementsOf(c[bk]) = {}  BY <1>3, <3>1
      <3>3. c[bk] = <<>>  BY <1>3, <3>2, NoElements
      <3> QED  BY <3>3 DEF First
    <2>3. a = AddFirst(v, u, k, e)  BY <2>1 DEF HASH_ADD
    <2>4. a = [head |-> hd, hh |-> h, tbl |-> tb, ok |-> v.ok]
      BY <1>1, <2>3 DEF AddFirst
    <2>5. HandleAdded(v.hh, h, e, k, Len(v.tbl) + 1, NULL, NULL)
      <3>1. Len(v.tbl) + 1 \in Nat  BY <1>5
      <3> QED  BY <1>1, <3>1, AddFirstHandles
    <2>6. /\ r \in TableRecords /\ r.live /\ r.tail = e /\ r.num_items = 1
          /\ \A b \in Buckets : r.buckets[b] = IF b = bk THEN e ELSE NULL
      <3> DEFINE bs == [b \in Buckets |-> IF b = bk THEN e ELSE NULL]
      <3>1. r = [live |-> TRUE, tail |-> e, num_items |-> 1, buckets |-> bs]
        <4> DEFINE none == [b \in Buckets |-> NULL]
                   m == [live |-> TRUE, tail |-> e, num_items |-> 0, buckets |-> none]
        <4>1. m \in TableRecords  BY <1>5 DEF TableRecords, Ptr
        <4>2. r = [m EXCEPT !.num_items = 1, !.buckets[bk] = e]  BY DEF HASH_MAKE_TABLE
        <4>3. [none EXCEPT ![bk] = e] = bs  BY <1>2
        <4> HIDE DEF r, bs, none
        <4>4. [m EXCEPT !.num_items = 1, !.buckets[bk] = e]
                 = [m EXCEPT !.num_items = 1, !.buckets = [none EXCEPT ![bk] = e]]
          BY <4>1 DEF TableRecords
        <4>5. r = [m EXCEPT !.num_items = 1, !.buckets = bs]  BY <4>2, <4>3, <4>4
        <4> QED  BY <4>5
      <3>2. bs \in [Buckets -> Ptr] /\ \A b \in Buckets : bs[b] = IF b = bk THEN e ELSE NULL
        BY <1>5 DEF Ptr
      <3> HIDE DEF bs, r
      <3> QED  BY <1>5, <3>1, <3>2 DEF TableRecords
    <2>7. hd \in [Units -> Ptr] /\ hd[u] = e /\ \A x \in Units : x # u => hd[x] = v.head[x]
      BY <1>1, <1>5
    <2> HIDE DEF r, h, hd
    <2>8. tb \in Seq(TableRecords) /\ Len(tb) = Len(v.tbl) + 1 /\ tb[Len(v.tbl) + 1] = r
          /\ \A x \in 1 .. Len(v.tbl) : tb[x] = v.tbl[x]
      BY <1>1, <2>6
    <2> HIDE DEF tb
    <2>9. a.head = hd /\ a.hh = h /\ a.tbl = tb /\ a.ok = v.ok  BY <2>4
    <2>10. a \in Worlds
      <3>1. h \in Seq(Handles)  BY <2>5 DEF HandleAdded
      <3> QED  BY <1>1, <2>4, <2>7, <2>8, <3>1 DEF Worlds
    <2>11. First(Append(s, e)) = e
      <3>1. Append(s, e) = <<e>>  BY <1>6
      <3> QED  BY <3>1 DEF First
    <2>12. \A b \in Buckets : First(c[b]) = NULL
      <3> SUFFICES ASSUME NEW b \in Buckets  PROVE First(c[b]) = NULL  OBVIOUS
      <3>1. Linked(c[b], BktNexts(v.hh), BktPrevs(v.hh))  BY DEF Holds, Sorted
      <3>2. ElementsOf(c[b]) = {}
        <4>1. ElementsOf(s) = {}  BY <1>6, LinkedEmpty
        <4> QED  BY <4>1 DEF Holds, Sorted
      <3>3. c[b] = <<>>  BY <3>1, <3>2, NoElements DEF Linked
      <3> QED  BY <3>3 DEF First
    <2>13. Len(s) = 0  BY <1>6
    <2>14. DOMAIN tb = 1 .. Len(v.tbl) + 1  BY <2>8
    <2>15. t2 \in DOMAIN tb /\ \A x \in DOMAIN v.tbl : x \in DOMAIN tb /\ x # t2
      BY <1>5, <2>1, <2>14
    <2> HIDE DEF a, t2, f
    <2>16. a.head[u] = First(Append(s, e)) /\ \A x \in Units : x # u => a.head[x] = v.head[x]
      BY <2>7, <2>9, <2>11
    <2>17. HandleAdded(v.hh, a.hh, e, k, t2, Last(s), f)  BY <2>1, <2>2, <2>5, <2>9
    <2>18. a.tbl[t2] = r  BY <2>1, <2>8, <2>9
    <2>19. \A x \in DOMAIN v.tbl : x \in DOMAIN a.tbl /\ (x # t2 => a.tbl[x] = v.tbl[x])
      BY <1>5, <2>8, <2>9, <2>15
    <2>20. \A b \in Buckets : a.tbl[t2].buckets[b] = IF b = bk THEN e ELSE First(c[b])
      BY <2>6, <2>12, <2>18
    <2>21. /\ t2 \in DOMAIN a.tbl /\ a.tbl[t2].live /\ a.tbl[t2].tail = e
           /\ a.tbl[t2].num_items = Len(s) + 1
      BY <2>6, <2>9, <2>13, <2>15, <2>18
    <2> QED  BY <2>9, <2>10, <2>16, <2>17, <2>19, <2>20, <2>21 DEF a, t2, f
  <1>7. CASE s # <<>>
    <2> DEFINE tab == v.tbl[t]
               r == [tab EXCEPT !.tail = e, !.num_items = @ + 1, !.buckets[HashBkt(k)] = e]
               h == HASH_ADD_TO_BKT(HASH_APPEND_LIST([v.hh EXCEPT ![e].tbl = t, ![e].key = k],
                                        tab.tail, e), tab.buckets[HashBkt(k)], e)
               tb == [v.tbl EXCEPT ![t] = r]
    <2>1. /\ t2 = t /\ t \in DOMAIN v.tbl /\ tab.live /\ tab.tail = Last(s)
          /\ tab.num_items = Len(s) /\ \A b \in Buckets : tab.buckets[b] = First(c[b])
      BY <1>7 DEF Holds, RecordOf, TableFor
    <2>2. Len(s) \in Nat /\ Len(s) \in 1 .. Len(s) /\ 1 \in 1 .. Len(s)
          /\ Last(s) = s[Len(s)] /\ v.head[u] = s[1]
      <3>1. Len(s) \in Nat /\ Len(s) # 0  BY <1>2, <1>7
      <3> QED  BY <1>2, <1>7, <3>1 DEF Last, First
    <2>3. Last(s) \in ElementsOf(s) /\ v.head[u] \in ElementsOf(s)  BY <1>2, <2>2, InElements
    <2>4. Last(s) \in DOMAIN v.hh /\ Last(s) # e /\ v.head[u] \in DOMAIN v.hh
      BY <2>2, <2>3, LinksOf DEF Holds
    <2>5. v.hh[v.head[u]].live /\ v.hh[v.head[u]].tbl = t /\ v.hh[Last(s)].live
      BY <2>3 DEF Holds, Keyed
    <2>6. t \in Nat /\ t # NULL /\ v.head[u] # NULL  BY <1>0, <1>1, <1>5, <2>1, <2>4
    <2>7. Usable(v, v.head[u]) /\ TblOf(v, v.head[u]) = t
      BY <2>1, <2>5, <2>6 DEF Usable, Live, TblOf, Table
    <2>8. Live(v, Table(v, v.head[u]).tail)  BY <2>1, <2>5, <2>7 DEF Live, Table
    <2>9. a = AddBehind(v, u, k, e)  BY <2>6, <2>7, <2>8 DEF HASH_ADD
    <2>10. a = [head |-> v.head, hh |-> h, tbl |-> tb, ok |-> v.ok]
      <3>1. AddBehind(v, u, k, e) = [v EXCEPT !.tbl[t] = r, !.hh = h]
        BY <2>7 DEF AddBehind
      <3> HIDE DEF r, h
      <3>2. [v EXCEPT !.tbl[t] = r, !.hh = h] = [v EXCEPT !.tbl = tb, !.hh = h]
        BY DEF Worlds
      <3> HIDE DEF tb
      <3> QED  BY <1>1, <2>9, <3>1, <3>2
    <2>11. HandleAdded(v.hh, h, e, k, t, Last(s), f)
      <3>1. tab.tail = Last(s) /\ tab.buckets[HashBkt(k)] = f  BY <1>2, <2>1
      <3> QED  BY <1>1, <1>4, <2>4, <2>6, <3>1, AddBehindHandles
    <2>12. tab \in TableRecords  BY <1>1, <2>1
    <2>13. /\ r \in TableRecords /\ r.live /\ r.tail = e /\ r.num_items = Len(s) + 1
           /\ \A b \in Buckets : r.buckets[b] = IF b = bk THEN e ELSE tab.buckets[b]
      <3> DEFINE bs == [tab.buckets EXCEPT ![bk] = e]
      <3> HIDE DEF tab
      <3>1. /\ tab = [live |-> tab.live, tail |-> tab.tail, num_items |-> tab.num_items,
                      buckets |-> tab.buckets]
            /\ tab.buckets \in [Buckets -> Ptr] /\ tab.live \in BOOLEAN /\ tab.num_items \in Int
        BY <2>12 DEF TableRecords
      <3>2. r = [live |-> tab.live, tail |-> e, num_items |-> tab.num_items + 1, buckets |-> bs]
        <4>1. r = [tab EXCEPT !.tail = e, !.num_items = @ + 1, !.buckets = bs]
          BY <2>12 DEF TableRecords
        <4> HIDE DEF bs, r
        <4> QED  BY <3>1, <4>1
      <3>3. bs \in [Buckets -> Ptr] /\ \A b \in Buckets : bs[b] = IF b = bk THEN e ELSE tab.buckets[b]
        BY <1>2, <1>5, <3>1
      <3> HIDE DEF bs, r
      <3> QED  BY <1>5, <2>1, <3>1, <3>2, <3>3 DEF TableRecords
    <2> HIDE DEF r, h
    <2>14. tb \in Seq(TableRecords) /\ DOMAIN tb = DOMAIN v.tbl /\ tb[t] = r
           /\ \A x \in DOMAIN v.tbl : x # t => tb[x] = v.tbl[x]
      BY <1>1, <2>1, <2>13
    <2> HIDE DEF tb
    <2>15. a.head = v.head /\ a.hh = h /\ a.tbl = tb /\ a.ok = v.ok  BY <2>10
    <2>16. a \in Worlds
      <3>1. h \in Seq(Handles)  BY <2>11 DEF HandleAdded
      <3> QED  BY <1>1, <2>10, <2>14, <3>1 DEF Worlds
    <2>17. First(Append(s, e)) = v.head[u]
      <3>1. Append(s, e) # <<>> /\ Append(s, e)[1] = s[1]  BY <1>2, <1>5, <2>2
      <3> QED  BY <2>2, <3>1 DEF First
    <2> HIDE DEF a, t2, f, tab
    <2>18. a.head[u] = First(Append(s, e)) /\ \A x \in Units : x # u => a.head[x] = v.head[x]
      BY <2>15, <2>17
    <2>19. HandleAdded(v.hh, a.hh, e, k, t2, Last(s), f)  BY <2>1, <2>11, <2>15
    <2>20. a.tbl[t2] = r  BY <2>1, <2>14, <2>15
    <2>21. \A x \in DOMAIN v.tbl : x \in DOMAIN a.tbl /\ (x # t2 => a.tbl[x] = v.tbl[x])
      BY <2>1, <2>14, <2>15
    <2>22. \A b \in Buckets : a.tbl[t2].buckets[b] = IF b = bk THEN e ELSE First(c[b])
      BY <2>1, <2>13, <2>20
    <2>23. /\ t2 \in DOMAIN a.tbl /\ a.tbl[t2].live /\ a.tbl[t2].tail = e
           /\ a.tbl[t2].num_items = Len(s) + 1
      BY <2>1, <2>13, <2>14, <2>15, <2>20
    <2> QED  BY <2>15, <2>16, <2>18, <2>19, <2>21, <2>22, <2>23 DEF a, t2, f
  <1> QED  BY <1>6, <1>7

(* The handles of the items es are in both memories the same.              *)
Unmoved(hh, z, es) ==
    \A x \in es :
        /\ z[x].live = hh[x].live /\ z[x].tbl = hh[x].tbl /\ z[x].key = hh[x].key
        /\ z[x].next = hh[x].next /\ z[x].prev = hh[x].prev
        /\ z[x].hh_next = hh[x].hh_next /\ z[x].hh_prev = hh[x].hh_prev

(* A table whose record and items do not change is the same table.         *)
LEMMA HoldsFrame ==
    ASSUME NEW v \in Worlds, NEW a \in Worlds, NEW u, NEW t, NEW s, NEW c, Holds(v, u, t, s, c),
           a.head[u] = v.head[u], DOMAIN v.hh \subseteq DOMAIN a.hh,
           s # <<>> => t \in DOMAIN a.tbl /\ a.tbl[t] = v.tbl[t],
           Unmoved(v.hh, a.hh, ElementsOf(s))
    PROVE  Holds(a, u, t, s, c)
  <1>1. Linked(s, Nexts(v.hh), Prevs(v.hh)) /\ s \in Seq(Nat)  BY DEF Holds, Linked
  <1>2. \A x \in ElementsOf(s) : x \in DOMAIN v.hh /\ x \in DOMAIN a.hh
    <2>1. \A i \in 1 .. Len(s) : s[i] \in DOMAIN v.hh  BY <1>1, LinksOf
    <2>2. \A x \in ElementsOf(s) : x \in DOMAIN v.hh  BY <1>1, <2>1, InElements
    <2> QED  BY <2>2
  <1>3. /\ DOMAIN Nexts(v.hh) = DOMAIN v.hh /\ DOMAIN BktNexts(v.hh) = DOMAIN v.hh
        /\ DOMAIN Nexts(a.hh) = DOMAIN a.hh /\ DOMAIN BktNexts(a.hh) = DOMAIN a.hh
    BY LinksOf
  <1>4. \A x \in ElementsOf(s) :
           /\ Nexts(a.hh)[x] = Nexts(v.hh)[x] /\ Prevs(a.hh)[x] = Prevs(v.hh)[x]
           /\ BktNexts(a.hh)[x] = BktNexts(v.hh)[x] /\ BktPrevs(a.hh)[x] = BktPrevs(v.hh)[x]
    BY <1>2 DEF Unmoved, Nexts, Prevs, BktNexts, BktPrevs
  <1>5. Linked(s, Nexts(a.hh), Prevs(a.hh))  BY <1>1, <1>3, <1>4, LinkedFrame
  <1>6. Sorted(a.hh, s, c)
    <2> SUFFICES ASSUME NEW b \in Buckets
                 PROVE  /\ Linked(c[b], BktNexts(a.hh), BktPrevs(a.hh))
                        /\ ElementsOf(c[b]) = {e \in ElementsOf(s) : HashBkt(a.hh[e].key) = b}
      BY DEF Sorted
    <2>1. /\ Linked(c[b], BktNexts(v.hh), BktPrevs(v.hh))
          /\ ElementsOf(c[b]) = {e \in ElementsOf(s) : HashBkt(v.hh[e].key) = b}
      BY DEF Holds, Sorted
    <2>2. Linked(c[b], BktNexts(a.hh), BktPrevs(a.hh))  BY <1>3, <1>4, <2>1, LinkedFrame
    <2>3. \A e \in ElementsOf(s) : a.hh[e].key = v.hh[e].key  BY DEF Unmoved
    <2> QED  BY <2>1, <2>2, <2>3
  <1>7. Keyed(a.hh, s, t)  BY DEF Holds, Keyed, Unmoved
  <1>8. s # <<>> => t \in DOMAIN a.tbl /\ RecordOf(a.tbl[t], s, c)  BY DEF Holds
  <1> QED  BY <1>5, <1>6, <1>7, <1>8 DEF Holds

(* The buckets after e, whose key falls into bucket b, is added.           *)
BktsWith(c, b, e) == [x \in Buckets |-> IF x = b THEN Push(e, c[x]) ELSE c[x]]

(* The table with a new item.                                              *)
LEMMA AddHolds ==
    ASSUME NEW v \in Worlds, NEW u \in Units, NEW t, NEW s, NEW c, Holds(v, u, t, s, c),
           NEW k \in Nat, NEW e \in DOMAIN v.hh, e \notin ElementsOf(s), v.hh[e].live, HashTotal,
           \A x \in ElementsOf(s) : v.hh[x].key # k
    PROVE  /\ Holds(HASH_ADD(v, u, k, e), u, TableFor(v, t, s), Append(s, e),
                    BktsWith(c, HashBkt(k), e))
           /\ ElementsOf(Append(s, e)) = ElementsOf(s) \cup {e}
  <1> DEFINE a  == HASH_ADD(v, u, k, e)
             t2 == TableFor(v, t, s)
             bk == HashBkt(k)
             f  == First(c[bk])
             c2 == BktsWith(c, bk, e)
             s2 == Append(s, e)
  <1>0. NULL \notin Nat  BY PrgmAssumption
  <1>1. /\ a \in Worlds /\ a.ok = v.ok
        /\ a.head[u] = First(s2)
        /\ HandleAdded(v.hh, a.hh, e, k, t2, Last(s), f)
        /\ t2 \in DOMAIN a.tbl /\ a.tbl[t2].live /\ a.tbl[t2].tail = e
        /\ a.tbl[t2].num_items = Len(s) + 1
        /\ \A b \in Buckets : a.tbl[t2].buckets[b] = IF b = bk THEN e ELSE First(c[b])
    BY AddFields
  <1> HIDE DEF a
  <1>2. bk \in Buckets  BY DEF HashTotal
  <1>3. /\ Linked(s, Nexts(v.hh), Prevs(v.hh)) /\ s \in Seq(Nat)
        /\ \A b \in Buckets :
              /\ Linked(c[b], BktNexts(v.hh), BktPrevs(v.hh)) /\ c[b] \in Seq(Nat)
              /\ ElementsOf(c[b]) = {x \in ElementsOf(s) : HashBkt(v.hh[x].key) = b}
    BY DEF Holds, Linked, Sorted
  <1>4. \A x \in ElementsOf(s) : x \in DOMAIN v.hh  BY <1>3, LinksOf, InElements
  <1>5. DOMAIN a.hh = DOMAIN v.hh /\ DOMAIN v.hh \subseteq Nat /\ e \in Nat
        /\ DOMAIN Nexts(v.hh) = DOMAIN v.hh /\ DOMAIN BktNexts(v.hh) = DOMAIN v.hh
        /\ DOMAIN Nexts(a.hh) = DOMAIN v.hh /\ DOMAIN BktNexts(a.hh) = DOMAIN v.hh
    BY <1>1, LinksOf DEF HandleAdded
  <1>6. \A x \in DOMAIN v.hh :
           /\ Nexts(a.hh)[x] = IF x = Last(s) THEN e ELSE IF x = e THEN NULL ELSE Nexts(v.hh)[x]
           /\ Prevs(a.hh)[x] = IF x = e THEN Last(s) ELSE Prevs(v.hh)[x]
           /\ BktNexts(a.hh)[x] = IF x = e THEN f ELSE BktNexts(v.hh)[x]
           /\ BktPrevs(a.hh)[x] = IF x = f THEN e ELSE IF x = e THEN NULL ELSE BktPrevs(v.hh)[x]
    <2> HIDE DEF f
    <2> QED  BY <1>1, <1>5 DEF HandleAdded, Nexts, Prevs, BktNexts, BktPrevs
  <1>7. /\ Linked(s2, Nexts(a.hh), Prevs(a.hh))
        /\ ElementsOf(s2) = ElementsOf(s) \cup {e} /\ Last(s2) = e
    <2> DEFINE nx == Nexts(v.hh)
               pv == Prevs(v.hh)
               nx2 == Nexts(a.hh)
               pv2 == Prevs(a.hh)
    <2> HIDE DEF f
    <2>1. /\ Linked(s, nx, pv) /\ e \in Nat /\ e \in DOMAIN nx
          /\ DOMAIN nx2 = DOMAIN nx /\ DOMAIN nx \subseteq Nat
      BY <1>3, <1>5
    <2>2. \A x \in DOMAIN nx : nx2[x] = IF x = Last(s) THEN e ELSE IF x = e THEN NULL ELSE nx[x]
      BY <1>5, <1>6
    <2>3. \A x \in DOMAIN nx : pv2[x] = IF x = e THEN Last(s) ELSE pv[x]
      BY <1>5, <1>6
    <2> HIDE DEF nx, pv, nx2, pv2
    <2>4. /\ Linked(s2, nx2, pv2)
          /\ ElementsOf(s2) = ElementsOf(s) \cup {e} /\ Last(s2) = e
      BY <1>0, <2>1, <2>2, <2>3, LinkedAppend
    <2> QED  BY <2>4 DEF nx2, pv2
  <1>8. \A x \in DOMAIN v.hh : a.hh[x].live = v.hh[x].live
           /\ a.hh[x].key = IF x = e THEN k ELSE v.hh[x].key
    BY <1>1 DEF HandleAdded
  <1>9. ASSUME NEW b \in Buckets
        PROVE  /\ Linked(c2[b], BktNexts(a.hh), BktPrevs(a.hh))
               /\ ElementsOf(c2[b]) = {x \in ElementsOf(s2) : HashBkt(a.hh[x].key) = b}
               /\ First(c2[b]) = IF b = bk THEN e ELSE First(c[b])
    <2>1. {x \in ElementsOf(s2) : HashBkt(a.hh[x].key) = b}
             = ElementsOf(c[b]) \cup (IF b = bk THEN {e} ELSE {})
      <3> HIDE DEF s2
      <3>1. \A x \in ElementsOf(s) : x # e /\ a.hh[x].key = v.hh[x].key  BY <1>4, <1>8
      <3>2. a.hh[e].key = k  BY <1>8
      <3> QED  BY <1>3, <1>7, <3>1, <3>2
    <2>2. CASE b = bk
      <3>1. c2[b] = Push(e, c[b])  BY <2>2 DEF BktsWith
      <3>2. e \notin ElementsOf(c[b])  BY <1>3
      <3>3. f = First(c[b])  BY <2>2
      <3> HIDE DEF bk, c2, f
      <3> DEFINE nx == BktNexts(v.hh)
                 pv == BktPrevs(v.hh)
                 nx2 == BktNexts(a.hh)
                 pv2 == BktPrevs(a.hh)
                 q == c[b]
      <3>4. /\ Linked(q, nx, pv) /\ e \in Nat /\ e \in DOMAIN nx /\ e \notin ElementsOf(q)
            /\ DOMAIN nx2 = DOMAIN nx /\ DOMAIN nx \subseteq Nat
        BY <1>3, <1>5, <3>2
      <3>5. \A x \in DOMAIN nx : nx2[x] = IF x = e THEN First(q) ELSE nx[x]
        BY <1>5, <1>6, <3>3
      <3>6. \A x \in DOMAIN nx : pv2[x] = IF x = First(q) THEN e ELSE IF x = e THEN NULL ELSE pv[x]
        BY <1>5, <1>6, <3>3
      <3> HIDE DEF nx, pv, nx2, pv2, q
      <3>7. Linked(Push(e, q), nx2, pv2) /\ ElementsOf(Push(e, q)) = ElementsOf(q) \cup {e}
            /\ First(Push(e, q)) = e
        BY <1>0, <3>4, <3>5, <3>6, LinkedPush
      <3> QED  BY <2>1, <2>2, <3>1, <3>7 DEF nx2, pv2, q
    <2>3. CASE b # bk
      <3>1. c2[b] = c[b]  BY <2>3 DEF BktsWith
      <3>2. f \notin ElementsOf(c[b])
        <4>1. CASE c[bk] = <<>>
          <5>1. f = NULL  BY <4>1 DEF First
          <5> QED  BY <1>0, <1>3, <1>4, <1>5, <5>1
        <4>2. CASE c[bk] # <<>>
          <5>1. 1 \in 1 .. Len(c[bk]) /\ f = c[bk][1]  BY <1>2, <1>3, <4>2 DEF First
          <5>2. f \in ElementsOf(c[bk])  BY <1>2, <1>3, <5>1, InElements
          <5> HIDE DEF bk, f
          <5> QED  BY <1>2, <1>3, <2>3, <5>2
        <4> QED  BY <4>1, <4>2
      <3>3. e \notin ElementsOf(c[b])  BY <1>3
      <3> HIDE DEF bk, c2, f, s2
      <3>4. \A x \in ElementsOf(c[b]) : BktNexts(a.hh)[x] = BktNexts(v.hh)[x]
                                        /\ BktPrevs(a.hh)[x] = BktPrevs(v.hh)[x]
        BY <1>3, <1>4, <1>6, <3>2, <3>3
      <3>5. Linked(c[b], BktNexts(a.hh), BktPrevs(a.hh))  BY <1>3, <1>5, <3>4, LinkedFrame
      <3> QED  BY <2>1, <2>3, <3>1, <3>5
    <2> QED  BY <2>2, <2>3
  <1>10. RecordOf(a.tbl[t2], s2, c2)
    <2>1. Len(s2) = Len(s) + 1  BY <1>3
    <2> HIDE DEF s2, c2, t2, bk
    <2> QED  BY <1>1, <1>7, <1>9, <2>1 DEF RecordOf
  <1>11. Keyed(a.hh, s2, t2)
    <2> HIDE DEF s2, t2
    <2>1. \A x \in ElementsOf(s) : v.hh[x].live /\ v.hh[x].tbl = t /\ v.hh[x].key \in Nat
      BY DEF Holds, Keyed
    <2>2. \A x \in ElementsOf(s) : t = t2
      <3>1. ElementsOf(<<>>) = {}  BY LinkedEmpty
      <3> QED  BY <3>1 DEF t2, TableFor
    <2>3. \A x, y \in ElementsOf(s) : v.hh[x].key = v.hh[y].key => x = y  BY DEF Holds, Keyed
    <2>4. a.hh[e].tbl = t2 /\ \A x \in ElementsOf(s) : a.hh[x].tbl = v.hh[x].tbl
      BY <1>1, <1>4 DEF HandleAdded
    <2>5. \A x \in ElementsOf(s2) : x \in DOMAIN v.hh /\ (x = e \/ x \in ElementsOf(s))
      BY <1>4, <1>7
    <2>6. \A x \in ElementsOf(s) : x # e  OBVIOUS
    <2> QED  BY <1>4, <1>8, <2>1, <2>2, <2>3, <2>4, <2>5, <2>6 DEF Keyed
  <1>12. Sorted(a.hh, s2, c2)  BY <1>9 DEF Sorted
  <1>13. Holds(a, u, t2, s2, c2)  BY <1>1, <1>7, <1>10, <1>11, <1>12 DEF Holds
  <1> QED  BY <1>7, <1>13 DEF a

-----------------------------------------------------------------------------
(* Deletion                                                                *)

(* One link set, unless it is the link of no item.                         *)
NextSet(hh, p, n)    == IF p = NULL THEN hh ELSE [hh EXCEPT ![p].next = n]
PrevSet(hh, n, p)    == IF n = NULL THEN hh ELSE [hh EXCEPT ![n].prev = p]
BktNextSet(hh, p, n) == IF p = NULL THEN hh ELSE [hh EXCEPT ![p].hh_next = n]
BktPrevSet(hh, n, p) == IF n = NULL THEN hh ELSE [hh EXCEPT ![n].hh_prev = p]

(* z is hh with the links of the list set for p and n, or those of the     *)
(* bucket for p and n.                                                     *)
Relinked(hh, z, nextOf, next, prevOf, prev, bnextOf, bnext, bprevOf, bprev) ==
    /\ z \in Seq(Handles) /\ DOMAIN z = DOMAIN hh
    /\ \A x \in DOMAIN hh :
          /\ z[x].live = hh[x].live /\ z[x].tbl = hh[x].tbl /\ z[x].key = hh[x].key
          /\ z[x].next = IF x = nextOf THEN next ELSE hh[x].next
          /\ z[x].prev = IF x = prevOf THEN prev ELSE hh[x].prev
          /\ z[x].hh_next = IF x = bnextOf THEN bnext ELSE hh[x].hh_next
          /\ z[x].hh_prev = IF x = bprevOf THEN bprev ELSE hh[x].hh_prev

(* The handles after HASH_DELETE has linked the neighbours.                *)
LEMMA SetLinks ==
    ASSUME NEW hh \in Seq(Handles), NEW p, NEW n \in Ptr, p = NULL \/ p \in DOMAIN hh
    PROVE  /\ Relinked(hh, NextSet(hh, p, n), p, n, NULL, NULL, NULL, NULL, NULL, NULL)
           /\ Relinked(hh, PrevSet(hh, p, n), NULL, NULL, p, n, NULL, NULL, NULL, NULL)
           /\ Relinked(hh, BktNextSet(hh, p, n), NULL, NULL, NULL, NULL, p, n, NULL, NULL)
           /\ Relinked(hh, BktPrevSet(hh, p, n), NULL, NULL, NULL, NULL, NULL, NULL, p, n)
  <1>0. NULL \notin Nat  BY PrgmAssumption
  <1>1. DOMAIN hh = 1 .. Len(hh) /\ Len(hh) \in Nat /\ NULL \notin DOMAIN hh  BY <1>0
  <1>2. \A x \in DOMAIN hh : hh[x] \in Handles  OBVIOUS
  <1>3. CASE p = NULL
    <2>1. NextSet(hh, p, n) = hh /\ PrevSet(hh, p, n) = hh /\ BktNextSet(hh, p, n) = hh
          /\ BktPrevSet(hh, p, n) = hh
      BY <1>3 DEF NextSet, PrevSet, BktNextSet, BktPrevSet
    <2> QED  BY <1>1, <1>3, <2>1 DEF Relinked
  <1>4. CASE p # NULL
    <2>0. p \in DOMAIN hh /\ hh[p] \in Handles  BY <1>2, <1>4
    <2>1. ASSUME NEW z, NEW P \in Handles, z = [hh EXCEPT ![p] = P]
          PROVE  /\ z \in Seq(Handles) /\ DOMAIN z = DOMAIN hh /\ z[p] = P
                 /\ \A x \in DOMAIN hh : x # p => z[x] = hh[x]
      BY <2>0, <2>1
    <2>2. Relinked(hh, NextSet(hh, p, n), p, n, NULL, NULL, NULL, NULL, NULL, NULL)
      <3> DEFINE P == [hh[p] EXCEPT !.next = n]
                 z == NextSet(hh, p, n)
      <3>1. z = [hh EXCEPT ![p] = P]  BY <1>4 DEF NextSet
      <3>2. /\ P \in Handles /\ P.live = hh[p].live /\ P.tbl = hh[p].tbl /\ P.key = hh[p].key
            /\ P.next = n /\ P.prev = hh[p].prev /\ P.hh_next = hh[p].hh_next
            /\ P.hh_prev = hh[p].hh_prev
        BY <2>0 DEF Handles
      <3> HIDE DEF P, z
      <3>3. /\ z \in Seq(Handles) /\ DOMAIN z = DOMAIN hh /\ z[p] = P
            /\ \A x \in DOMAIN hh : x # p => z[x] = hh[x]
        BY <2>1, <3>1, <3>2
      <3>4. Relinked(hh, z, p, n, NULL, NULL, NULL, NULL, NULL, NULL)
        BY <1>1, <3>2, <3>3 DEF Relinked
      <3> QED  BY <3>4 DEF z
    <2>3. Relinked(hh, PrevSet(hh, p, n), NULL, NULL, p, n, NULL, NULL, NULL, NULL)
      <3> DEFINE P == [hh[p] EXCEPT !.prev = n]
                 z == PrevSet(hh, p, n)
      <3>1. z = [hh EXCEPT ![p] = P]  BY <1>4 DEF PrevSet
      <3>2. /\ P \in Handles /\ P.live = hh[p].live /\ P.tbl = hh[p].tbl /\ P.key = hh[p].key
            /\ P.next = hh[p].next /\ P.prev = n /\ P.hh_next = hh[p].hh_next
            /\ P.hh_prev = hh[p].hh_prev
        BY <2>0 DEF Handles
      <3> HIDE DEF P, z
      <3>3. /\ z \in Seq(Handles) /\ DOMAIN z = DOMAIN hh /\ z[p] = P
            /\ \A x \in DOMAIN hh : x # p => z[x] = hh[x]
        BY <2>1, <3>1, <3>2
      <3>4. Relinked(hh, z, NULL, NULL, p, n, NULL, NULL, NULL, NULL)
        BY <1>1, <3>2, <3>3 DEF Relinked
      <3> QED  BY <3>4 DEF z
    <2>4. Relinked(hh, BktNextSet(hh, p, n), NULL, NULL, NULL, NULL, p, n, NULL, NULL)
      <3> DEFINE P == [hh[p] EXCEPT !.hh_next = n]
                 z == BktNextSet(hh, p, n)
      <3>1. z = [hh EXCEPT ![p] = P]  BY <1>4 DEF BktNextSet
      <3>2. /\ P \in Handles /\ P.live = hh[p].live /\ P.tbl = hh[p].tbl /\ P.key = hh[p].key
            /\ P.next = hh[p].next /\ P.prev = hh[p].prev /\ P.hh_next = n
            /\ P.hh_prev = hh[p].hh_prev
        BY <2>0 DEF Handles
      <3> HIDE DEF P, z
      <3>3. /\ z \in Seq(Handles) /\ DOMAIN z = DOMAIN hh /\ z[p] = P
            /\ \A x \in DOMAIN hh : x # p => z[x] = hh[x]
        BY <2>1, <3>1, <3>2
      <3>4. Relinked(hh, z, NULL, NULL, NULL, NULL, p, n, NULL, NULL)
        BY <1>1, <3>2, <3>3 DEF Relinked
      <3> QED  BY <3>4 DEF z
    <2>5. Relinked(hh, BktPrevSet(hh, p, n), NULL, NULL, NULL, NULL, NULL, NULL, p, n)
      <3> DEFINE P == [hh[p] EXCEPT !.hh_prev = n]
                 z == BktPrevSet(hh, p, n)
      <3>1. z = [hh EXCEPT ![p] = P]  BY <1>4 DEF BktPrevSet
      <3>2. /\ P \in Handles /\ P.live = hh[p].live /\ P.tbl = hh[p].tbl /\ P.key = hh[p].key
            /\ P.next = hh[p].next /\ P.prev = hh[p].prev /\ P.hh_next = hh[p].hh_next
            /\ P.hh_prev = n
        BY <2>0 DEF Handles
      <3> HIDE DEF P, z
      <3>3. /\ z \in Seq(Handles) /\ DOMAIN z = DOMAIN hh /\ z[p] = P
            /\ \A x \in DOMAIN hh : x # p => z[x] = hh[x]
        BY <2>1, <3>1, <3>2
      <3>4. Relinked(hh, z, NULL, NULL, NULL, NULL, NULL, NULL, p, n)
        BY <1>1, <3>2, <3>3 DEF Relinked
      <3> QED  BY <3>4 DEF z
    <2> QED  BY <2>2, <2>3, <2>4, <2>5
  <1> QED  BY <1>3, <1>4

(* Both links of the list, and then both links of the bucket.              *)
LEMMA SetListLinks ==
    ASSUME NEW hh \in Seq(Handles), NEW p, NEW n,
           p = NULL \/ p \in DOMAIN hh, n = NULL \/ n \in DOMAIN hh
    PROVE  /\ Relinked(hh, PrevSet(NextSet(hh, p, n), n, p), p, n, n, p, NULL, NULL, NULL, NULL)
           /\ Relinked(hh, BktPrevSet(BktNextSet(hh, p, n), n, p), NULL, NULL, NULL, NULL, p, n, n, p)
  <1>0. NULL \notin Nat  BY PrgmAssumption
  <1>1. DOMAIN hh = 1 .. Len(hh) /\ Len(hh) \in Nat /\ NULL \notin DOMAIN hh
        /\ p \in Ptr /\ n \in Ptr
    BY <1>0 DEF Ptr
  <1>2. Relinked(hh, PrevSet(NextSet(hh, p, n), n, p), p, n, n, p, NULL, NULL, NULL, NULL)
    <2> DEFINE y == NextSet(hh, p, n)
               z == PrevSet(y, n, p)
    <2>1. Relinked(hh, y, p, n, NULL, NULL, NULL, NULL, NULL, NULL)  BY <1>1, SetLinks
    <2> HIDE DEF y
    <2>2. y \in Seq(Handles) /\ DOMAIN y = DOMAIN hh  BY <2>1 DEF Relinked
    <2>3. Relinked(y, z, NULL, NULL, n, p, NULL, NULL, NULL, NULL)  BY <1>1, <2>2, SetLinks
    <2> HIDE DEF z
    <2>4. Relinked(hh, z, p, n, n, p, NULL, NULL, NULL, NULL)
      BY <1>1, <2>1, <2>2, <2>3 DEF Relinked
    <2> QED  BY <2>4 DEF y, z
  <1>3. Relinked(hh, BktPrevSet(BktNextSet(hh, p, n), n, p), NULL, NULL, NULL, NULL, p, n, n, p)
    <2> DEFINE y == BktNextSet(hh, p, n)
               z == BktPrevSet(y, n, p)
    <2>1. Relinked(hh, y, NULL, NULL, NULL, NULL, p, n, NULL, NULL)  BY <1>1, SetLinks
    <2> HIDE DEF y
    <2>2. y \in Seq(Handles) /\ DOMAIN y = DOMAIN hh  BY <2>1 DEF Relinked
    <2>3. Relinked(y, z, NULL, NULL, NULL, NULL, NULL, NULL, n, p)  BY <1>1, <2>2, SetLinks
    <2> HIDE DEF z
    <2>4. Relinked(hh, z, NULL, NULL, NULL, NULL, p, n, n, p)
      BY <1>1, <2>1, <2>2, <2>3 DEF Relinked
    <2> QED  BY <2>4 DEF y, z
  <1> QED  BY <1>2, <1>3

(* The items an item is linked to.                                         *)
LEMMA LinkedLinks ==
    ASSUME NEW s, NEW nx, NEW pv, Linked(s, nx, pv), NEW k \in 1 .. Len(s)
    PROVE  /\ s[k] \in ElementsOf(s)
           /\ nx[s[k]] = NULL \/ nx[s[k]] \in ElementsOf(s)
           /\ pv[s[k]] = NULL \/ pv[s[k]] \in ElementsOf(s)
           /\ (nx[s[k]] = NULL /\ pv[s[k]] = NULL) <=> Len(s) = 1
           /\ pv[s[k]] = NULL <=> s[k] = First(s)
  <1> DEFINE n == Len(s)
  <1>0. NULL \notin Nat  BY PrgmAssumption
  <1>1. s \in Seq(Nat) /\ n \in Nat /\ n # 0 /\ 1 \in 1 .. n /\ n \in 1 .. n  BY DEF Linked
  <1>2. /\ nx[s[k]] = IF k = n THEN NULL ELSE s[k + 1]
        /\ pv[s[k]] = IF k = 1 THEN NULL ELSE s[k - 1]
    BY DEF Linked
  <1>3. (k # n => k + 1 \in 1 .. n) /\ (k # 1 => k - 1 \in 1 .. n)  BY <1>1
  <1>4. \A i \in 1 .. n : s[i] \in ElementsOf(s) /\ s[i] \in Nat /\ s[i] # NULL
    BY <1>0, <1>1, InElements
  <1>5. (nx[s[k]] = NULL <=> k = n) /\ (pv[s[k]] = NULL <=> k = 1)  BY <1>2, <1>3, <1>4
  <1>6. (k = n /\ k = 1) <=> n = 1
    <2>1. k \in 1 .. n  OBVIOUS
    <2> HIDE DEF n
    <2> QED  BY <1>1, <2>1
  <1>7. s[k] = First(s) <=> k = 1
    <2>1. First(s) = s[1]  BY <1>1 DEF First
    <2> QED  BY <1>1, <2>1 DEF Linked
  <1> QED  BY <1>2, <1>3, <1>4, <1>5, <1>6, <1>7

(* An item and the items its handle points to are of the table.            *)
LEMMA ItemOf ==
    ASSUME NEW v \in Worlds, NEW u \in Units, NEW t, NEW s, NEW c, Holds(v, u, t, s, c),
           HashTotal, NEW k \in 1 .. Len(s)
    PROVE  LET d  == v.hh[s[k]]
               bk == HashBkt(d.key)
           IN  /\ s[k] \in ElementsOf(s) /\ s[k] \in DOMAIN v.hh /\ s[k] \in Nat /\ d \in Handles
               /\ d.live /\ d.tbl = t /\ d.key \in Nat /\ bk \in Buckets
               /\ t \in DOMAIN v.tbl /\ v.tbl[t].live
               /\ s[k] \in ElementsOf(c[bk])
               /\ \A x \in ElementsOf(s) : x \in DOMAIN v.hh /\ v.hh[x].live /\ v.hh[x].tbl = t
               /\ {d.prev, d.next, d.hh_prev, d.hh_next} \subseteq ElementsOf(s) \cup {NULL}
               /\ (d.prev = NULL /\ d.next = NULL) <=> Len(s) = 1
               /\ d.prev = NULL <=> s[k] = v.head[u]
               /\ v.head[u] \in ElementsOf(s)
  <1> DEFINE e == s[k]
             d == v.hh[e]
             bk == HashBkt(d.key)
  <1>1. Linked(s, Nexts(v.hh), Prevs(v.hh)) /\ s \in Seq(Nat)  BY DEF Holds, Linked
  <1>2. \A x \in ElementsOf(s) : x \in DOMAIN v.hh /\ v.hh[x].live /\ v.hh[x].tbl = t
                                 /\ v.hh[x].key \in Nat
    <2>1. \A x \in ElementsOf(s) : x \in DOMAIN v.hh  BY <1>1, LinksOf, InElements
    <2> QED  BY <2>1 DEF Holds, Keyed
  <1>3. /\ e \in ElementsOf(s)
        /\ Nexts(v.hh)[e] = NULL \/ Nexts(v.hh)[e] \in ElementsOf(s)
        /\ Prevs(v.hh)[e] = NULL \/ Prevs(v.hh)[e] \in ElementsOf(s)
        /\ (Nexts(v.hh)[e] = NULL /\ Prevs(v.hh)[e] = NULL) <=> Len(s) = 1
        /\ Prevs(v.hh)[e] = NULL <=> e = First(s)
    BY <1>1, LinkedLinks
  <1>4. e \in DOMAIN v.hh /\ d.key \in Nat /\ bk \in Buckets  BY <1>2, <1>3 DEF HashTotal
  <1>5. /\ Nexts(v.hh)[e] = d.next /\ Prevs(v.hh)[e] = d.prev
        /\ BktNexts(v.hh)[e] = d.hh_next /\ BktPrevs(v.hh)[e] = d.hh_prev
    BY <1>4 DEF Nexts, Prevs, BktNexts, BktPrevs
  <1>6. /\ Linked(c[bk], BktNexts(v.hh), BktPrevs(v.hh))
        /\ ElementsOf(c[bk]) = {x \in ElementsOf(s) : HashBkt(v.hh[x].key) = bk}
        /\ c[bk] \in Seq(Nat)
    BY <1>4 DEF Holds, Sorted, Linked
  <1>7. e \in ElementsOf(c[bk])  BY <1>3, <1>6
  <1>8. PICK i \in 1 .. Len(c[bk]) : c[bk][i] = e  BY <1>6, <1>7, InElements
  <1>9. /\ BktNexts(v.hh)[e] = NULL \/ BktNexts(v.hh)[e] \in ElementsOf(c[bk])
        /\ BktPrevs(v.hh)[e] = NULL \/ BktPrevs(v.hh)[e] \in ElementsOf(c[bk])
    BY <1>6, <1>8, LinkedLinks
  <1>10. d.hh_next \in ElementsOf(s) \cup {NULL} /\ d.hh_prev \in ElementsOf(s) \cup {NULL}
    BY <1>5, <1>6, <1>9
  <1>11. v.head[u] = First(s) /\ First(s) \in ElementsOf(s) /\ t \in DOMAIN v.tbl /\ v.tbl[t].live
    <2>1. s # <<>> /\ 1 \in 1 .. Len(s)  BY <1>1
    <2>2. First(s) = s[1] /\ s[1] \in ElementsOf(s)  BY <1>1, <2>1, InElements DEF First
    <2> QED  BY <2>1, <2>2 DEF Holds, RecordOf
  <1>12. d \in Handles
    <2>1. v.hh \in Seq(Handles)  BY DEF Worlds
    <2> QED  BY <1>4, <2>1
  <1>13. e \in Nat  BY <1>4, LinksOf
  <1> HIDE DEF e, d, bk
  <1>14. d.live /\ d.tbl = t  BY <1>2, <1>3 DEF d
  <1>15. {d.prev, d.next, d.hh_prev, d.hh_next} \subseteq ElementsOf(s) \cup {NULL}
    BY <1>3, <1>5, <1>10
  <1>16. (d.prev = NULL /\ d.next = NULL) <=> Len(s) = 1  BY <1>3, <1>5
  <1>17. d.prev = NULL <=> e = v.head[u]  BY <1>3, <1>5, <1>11
  <1> QED  BY <1>2, <1>3, <1>4, <1>7, <1>11, <1>12, <1>13, <1>14, <1>15, <1>16, <1>17 DEF e, d, bk

(* HASH_DEL_IN_BKT: the item leaves its bucket and the count.              *)
LEMMA DelInBktIs ==
    ASSUME NEW v \in Worlds, NEW t \in DOMAIN v.tbl, NEW e \in DOMAIN v.hh,
           HashBkt(v.hh[e].key) \in Buckets,
           v.hh[e].hh_prev = NULL \/ v.hh[e].hh_prev \in DOMAIN v.hh,
           v.hh[e].hh_next = NULL \/ v.hh[e].hh_next \in DOMAIN v.hh
    PROVE  LET a  == HASH_DEL_IN_BKT(v, t, e)
               d  == v.hh[e]
               bk == HashBkt(d.key)
           IN  /\ a \in Worlds /\ a.ok = v.ok /\ a.head = v.head
               /\ Relinked(v.hh, a.hh, NULL, NULL, NULL, NULL,
                           d.hh_prev, d.hh_next, d.hh_next, d.hh_prev)
               /\ DOMAIN a.tbl = DOMAIN v.tbl /\ \A x \in DOMAIN v.tbl : x # t => a.tbl[x] = v.tbl[x]
               /\ a.tbl[t].live = v.tbl[t].live /\ a.tbl[t].tail = v.tbl[t].tail
               /\ a.tbl[t].num_items = v.tbl[t].num_items - 1
               /\ \A b \in Buckets : a.tbl[t].buckets[b] =
                     IF b = bk /\ v.tbl[t].buckets[b] = e THEN d.hh_next ELSE v.tbl[t].buckets[b]
  <1> DEFINE a  == HASH_DEL_IN_BKT(v, t, e)
             d  == v.hh[e]
             bk == HashBkt(d.key)
             h  == BktPrevSet(BktNextSet(v.hh, d.hh_prev, d.hh_next), d.hh_next, d.hh_prev)
             tab == v.tbl[t]
             bs == [tab.buckets EXCEPT ![bk] = IF @ = e THEN d.hh_next ELSE @]
             r  == [tab EXCEPT !.buckets = bs, !.num_items = @ - 1]
             tb == [v.tbl EXCEPT ![t] = r]
  <1>1. /\ v.head \in [Units -> Ptr] /\ v.hh \in Seq(Handles) /\ v.tbl \in Seq(TableRecords)
        /\ v.ok \in BOOLEAN
        /\ v = [head |-> v.head, hh |-> v.hh, tbl |-> v.tbl, ok |-> v.ok]
    BY DEF Worlds
  <1>2. Relinked(v.hh, h, NULL, NULL, NULL, NULL, d.hh_prev, d.hh_next, d.hh_next, d.hh_prev)
    BY <1>1, SetListLinks
  <1>3. a = [v EXCEPT !.tbl[t].buckets[bk] = IF @ = e THEN d.hh_next ELSE @,
                      !.tbl[t].num_items = @ - 1, !.hh = h]
    BY DEF HASH_DEL_IN_BKT, BktNextSet, BktPrevSet
  <1> HIDE DEF h, a
  <1>4. tab \in TableRecords  BY <1>1
  <1>5. bk \in Buckets /\ d.hh_next \in Ptr
    <2>1. d \in Handles  BY <1>1
    <2> QED  BY <2>1 DEF Handles
  <1> HIDE DEF d, bk
  <1>6. a = [v EXCEPT !.tbl = tb, !.hh = h]
    <2>1. [tab EXCEPT !.buckets[bk] = IF @ = e THEN d.hh_next ELSE @, !.num_items = @ - 1] = r
      BY <1>4 DEF TableRecords
    <2>2. a = [v EXCEPT !.tbl = [v.tbl EXCEPT ![t] =
                   [v.tbl[t] EXCEPT !.buckets[bk] = IF @ = e THEN d.hh_next ELSE @,
                                    !.num_items = @ - 1]], !.hh = h]
      BY <1>3 DEF Worlds
    <2> QED  BY <2>1, <2>2
  <1>7. a = [head |-> v.head, hh |-> h, tbl |-> tb, ok |-> v.ok]
    <2> HIDE DEF tb
    <2> QED  BY <1>1, <1>6
  <1>8. /\ tab.buckets \in [Buckets -> Ptr] /\ tab.live \in BOOLEAN /\ tab.num_items \in Int
        /\ tab.tail \in Ptr
    BY <1>4 DEF TableRecords
  <1> HIDE DEF tab
  <1>9. /\ bs \in [Buckets -> Ptr]
        /\ \A b \in Buckets : bs[b] = IF b = bk /\ tab.buckets[b] = e THEN d.hh_next
                                      ELSE tab.buckets[b]
    BY <1>5, <1>8
  <1> HIDE DEF bs
  <1>11. r \in TableRecords /\ r.live = tab.live /\ r.tail = tab.tail
         /\ r.num_items = tab.num_items - 1 /\ r.buckets = bs
    <2> DEFINE num == tab.num_items - 1
    <2>1. num \in Int /\ bs \in [Buckets -> Ptr]  BY <1>8, <1>9
    <2>2. r = [tab EXCEPT !.buckets = bs, !.num_items = num]  OBVIOUS
    <2> HIDE DEF num, r
    <2>3. r \in TableRecords  BY <1>4, <2>1, <2>2 DEF TableRecords
    <2>4. r.live = tab.live /\ r.tail = tab.tail /\ r.num_items = num /\ r.buckets = bs
      BY <1>4, <2>2 DEF TableRecords
    <2> QED  BY <2>3, <2>4 DEF num
  <1> HIDE DEF r
  <1>12. tb \in Seq(TableRecords) /\ DOMAIN tb = DOMAIN v.tbl /\ tb[t] = r
         /\ \A x \in DOMAIN v.tbl : x # t => tb[x] = v.tbl[x]
    BY <1>1, <1>11
  <1> HIDE DEF tb
  <1>13. a.head = v.head /\ a.hh = h /\ a.tbl = tb /\ a.ok = v.ok  BY <1>7
  <1>14. a \in Worlds
    <2>1. h \in Seq(Handles)  BY <1>2 DEF Relinked
    <2> QED  BY <1>1, <1>7, <1>12, <2>1 DEF Worlds
  <1>15. Relinked(v.hh, a.hh, NULL, NULL, NULL, NULL, d.hh_prev, d.hh_next, d.hh_next, d.hh_prev)
    BY <1>2, <1>13 DEF d
  <1>16. \A b \in Buckets : a.tbl[t].buckets[b] =
             IF b = bk /\ tab.buckets[b] = e THEN d.hh_next ELSE tab.buckets[b]
    BY <1>9, <1>11, <1>12, <1>13
  <1>17. a.tbl[t].live = tab.live /\ a.tbl[t].tail = tab.tail /\ a.tbl[t].num_items = tab.num_items - 1
    BY <1>11, <1>12, <1>13
  <1>18. DOMAIN a.tbl = DOMAIN v.tbl /\ \A x \in DOMAIN v.tbl : x # t => a.tbl[x] = v.tbl[x]
    BY <1>12, <1>13
  <1> QED  BY <1>13, <1>14, <1>15, <1>16, <1>17, <1>18 DEF a, d, bk, tab

(* HASH_DEL of one of several items.                                       *)
LEMMA DelFields ==
    ASSUME NEW v \in Worlds, NEW u \in Units, NEW t, NEW s, NEW c, Holds(v, u, t, s, c),
           HashTotal, NEW k \in 1 .. Len(s), Len(s) # 1
    PROVE  LET e  == s[k]
               d  == v.hh[e]
               bk == HashBkt(d.key)
               a  == HASH_DEL(v, u, e)
           IN  /\ a \in Worlds /\ a.ok = v.ok
               /\ a.head[u] = (IF e = First(s) THEN d.next ELSE First(s))
               /\ \A x \in Units : x # u => a.head[x] = v.head[x]
               /\ Relinked(v.hh, a.hh, d.prev, d.next, d.next, d.prev,
                           d.hh_prev, d.hh_next, d.hh_next, d.hh_prev)
               /\ DOMAIN a.tbl = DOMAIN v.tbl /\ \A x \in DOMAIN v.tbl : x # t => a.tbl[x] = v.tbl[x]
               /\ a.tbl[t].live /\ a.tbl[t].tail = (IF e = Last(s) THEN d.prev ELSE Last(s))
               /\ a.tbl[t].num_items = Len(s) - 1
               /\ \A b \in Buckets : a.tbl[t].buckets[b] =
                     IF b = bk /\ First(c[b]) = e THEN d.hh_next ELSE First(c[b])
  <1> DEFINE e  == s[k]
             d  == v.hh[e]
             bk == HashBkt(d.key)
             a  == HASH_DEL(v, u, e)
             head == IF d.prev = NULL THEN d.next ELSE v.head[u]
             h  == PrevSet(NextSet(v.hh, d.prev, d.next), d.next, d.prev)
             tab == v.tbl[t]
             tl == IF tab.tail = e THEN d.prev ELSE tab.tail
             r  == [tab EXCEPT !.tail = tl]
             tb == [v.tbl EXCEPT ![t] = r]
             hd == [v.head EXCEPT ![u] = head]
             w1 == [v EXCEPT !.tbl = tb, !.head = hd, !.hh = h]
  <1>0. NULL \notin Nat  BY PrgmAssumption
  <1>1. /\ v.head \in [Units -> Ptr] /\ v.hh \in Seq(Handles) /\ v.tbl \in Seq(TableRecords)
        /\ v.ok \in BOOLEAN
        /\ v = [head |-> v.head, hh |-> v.hh, tbl |-> v.tbl, ok |-> v.ok]
    BY DEF Worlds
  <1>2. /\ e \in ElementsOf(s) /\ e \in DOMAIN v.hh /\ e \in Nat /\ d \in Handles
        /\ d.live /\ d.tbl = t /\ d.key \in Nat /\ bk \in Buckets
        /\ t \in DOMAIN v.tbl /\ v.tbl[t].live
        /\ \A x \in ElementsOf(s) : x \in DOMAIN v.hh /\ v.hh[x].live /\ v.hh[x].tbl = t
        /\ {d.prev, d.next, d.hh_prev, d.hh_next} \subseteq ElementsOf(s) \cup {NULL}
        /\ (d.prev = NULL /\ d.next = NULL) <=> Len(s) = 1
        /\ d.prev = NULL <=> e = v.head[u]
        /\ v.head[u] \in ElementsOf(s)
    BY ItemOf
  <1>3. DOMAIN v.hh = 1 .. Len(v.hh) /\ Len(v.hh) \in Nat /\ DOMAIN v.tbl = 1 .. Len(v.tbl)
        /\ Len(v.tbl) \in Nat /\ t \in Nat /\ t # NULL
    BY <1>0, <1>1, <1>2
  <1>4. v.head[u] = First(s) /\ v.head[u] # NULL  BY <1>0, <1>2, <1>3 DEF Holds
  <1>5. tab \in TableRecords /\ tab.tail = Last(s) /\ tab.num_items = Len(s) /\ tab.live
        /\ \A b \in Buckets : tab.buckets[b] = First(c[b])
    <2>1. s # <<>>  OBVIOUS
    <2> QED  BY <1>1, <1>2, <2>1 DEF Holds, RecordOf
  <1>6. Usable(v, v.head[u]) /\ TblOf(v, v.head[u]) = t
    BY <1>2, <1>3 DEF Usable, Live, TblOf, Table
  <1>7. a = DelLinked(v, u, e)
    <2>1. ~Alone(v, e)  BY <1>2 DEF Alone
    <2>2. \A x \in Links(v, e) : Live(v, x)  BY <1>2 DEF Links, Live
    <2>3. DelDefined(v, u, e)  BY <1>2, <1>4, <1>6, <2>2 DEF DelDefined, Live
    <2> QED  BY <2>1, <2>3 DEF HASH_DEL
  <1>8. /\ head \in ElementsOf(s)
        /\ head = IF e = First(s) THEN d.next ELSE First(s)
    BY <1>2, <1>4
  <1>9. Relinked(v.hh, h, d.prev, d.next, d.next, d.prev, NULL, NULL, NULL, NULL)
    BY <1>1, <1>2, SetListLinks
  <1>10. tl \in Ptr /\ tl = IF e = Last(s) THEN d.prev ELSE Last(s)
    BY <1>2, <1>5 DEF Handles, TableRecords
  <1>11. /\ r \in TableRecords /\ r.live /\ r.tail = tl /\ r.num_items = Len(s)
         /\ \A b \in Buckets : r.buckets[b] = First(c[b])
    <2> HIDE DEF tl, tab
    <2> QED  BY <1>5, <1>10 DEF TableRecords
  <1>12. [v EXCEPT !.tbl[t].tail = IF @ = e THEN d.prev ELSE @, !.head[u] = head, !.hh = h] = w1
    <2> HIDE DEF h, head, e, d
    <2>1. [v EXCEPT !.tbl[t].tail = IF @ = e THEN d.prev ELSE @, !.head[u] = head, !.hh = h]
             = [v EXCEPT !.tbl = [v.tbl EXCEPT ![t] = [v.tbl[t] EXCEPT !.tail = IF @ = e THEN d.prev ELSE @]],
                         !.head = [v.head EXCEPT ![u] = head], !.hh = h]
      BY DEF Worlds
    <2>2. [v.tbl EXCEPT ![t] = [v.tbl[t] EXCEPT !.tail = IF @ = e THEN d.prev ELSE @]] = tb
      OBVIOUS
    <2> QED  BY <2>1, <2>2
  <1>13. DelLinked(v, u, e) = IF Usable(w1, head) THEN HASH_DEL_IN_BKT(w1, TblOf(w1, head), e)
                              ELSE [v EXCEPT !.ok = FALSE]
    <2> DEFINE w0 == [v EXCEPT !.tbl[t].tail = IF @ = e THEN d.prev ELSE @, !.head[u] = head, !.hh = h]
    <2>1. DelLinked(v, u, e) = IF Usable(w0, head) THEN HASH_DEL_IN_BKT(w0, TblOf(w0, head), e)
                               ELSE [v EXCEPT !.ok = FALSE]
      BY <1>6 DEF DelLinked, NextSet, PrevSet
    <2>2. w0 = w1  BY <1>12
    <2> HIDE DEF w0, w1, head
    <2> QED  BY <2>1, <2>2
  <1>14. /\ h \in Seq(Handles) /\ DOMAIN h = DOMAIN v.hh
         /\ \A x \in DOMAIN v.hh :
               /\ h[x].live = v.hh[x].live /\ h[x].tbl = v.hh[x].tbl /\ h[x].key = v.hh[x].key
               /\ h[x].hh_next = v.hh[x].hh_next /\ h[x].hh_prev = v.hh[x].hh_prev
    <2> HIDE DEF h
    <2> QED  BY <1>0, <1>3, <1>9 DEF Relinked
  <1>15. hd \in [Units -> Ptr] /\ hd[u] = head /\ \A x \in Units : x # u => hd[x] = v.head[x]
    <2>1. head \in Ptr  BY <1>2, <1>3, <1>8 DEF Ptr
    <2> HIDE DEF head
    <2> QED  BY <1>1, <2>1
  <1>16. tb \in Seq(TableRecords) /\ DOMAIN tb = DOMAIN v.tbl /\ tb[t] = r
         /\ \A x \in DOMAIN v.tbl : x # t => tb[x] = v.tbl[x]
    <2> HIDE DEF r
    <2> QED  BY <1>1, <1>2, <1>11
  <1> HIDE DEF h, hd, tb, r, tl
  <1>17. w1.head = hd /\ w1.hh = h /\ w1.tbl = tb /\ w1.ok = v.ok  BY DEF Worlds
  <1>18. w1 \in Worlds  BY <1>14, <1>15, <1>16 DEF Worlds
  <1> HIDE DEF w1, head, a
  <1>19. Usable(w1, head) /\ TblOf(w1, head) = t
    <2>1. head \in DOMAIN v.hh /\ v.hh[head].live /\ v.hh[head].tbl = t  BY <1>2, <1>8
    <2>2. w1.hh[head].live /\ w1.hh[head].tbl = t  BY <1>14, <1>17, <2>1
    <2>3. w1.tbl[t].live  BY <1>11, <1>16, <1>17
    <2> QED  BY <1>3, <2>2, <2>3 DEF Usable, Live, TblOf, Table
  <1>20. a = HASH_DEL_IN_BKT(w1, t, e)  BY <1>7, <1>13, <1>19
  <1>21. /\ w1.hh[e].hh_prev = d.hh_prev /\ w1.hh[e].hh_next = d.hh_next /\ w1.hh[e].key = d.key
         /\ DOMAIN w1.hh = DOMAIN v.hh /\ DOMAIN w1.tbl = DOMAIN v.tbl
    BY <1>2, <1>14, <1>16, <1>17
  <1>22. /\ d.hh_prev = NULL \/ d.hh_prev \in DOMAIN v.hh
         /\ d.hh_next = NULL \/ d.hh_next \in DOMAIN v.hh
    BY <1>2
  <1> HIDE DEF d, e
  <1>23. /\ a \in Worlds /\ a.ok = w1.ok /\ a.head = w1.head
         /\ Relinked(w1.hh, a.hh, NULL, NULL, NULL, NULL,
                     d.hh_prev, d.hh_next, d.hh_next, d.hh_prev)
         /\ DOMAIN a.tbl = DOMAIN w1.tbl /\ \A x \in DOMAIN w1.tbl : x # t => a.tbl[x] = w1.tbl[x]
         /\ a.tbl[t].live = w1.tbl[t].live /\ a.tbl[t].tail = w1.tbl[t].tail
         /\ a.tbl[t].num_items = w1.tbl[t].num_items - 1
         /\ \A b \in Buckets : a.tbl[t].buckets[b] =
               IF b = bk /\ w1.tbl[t].buckets[b] = e THEN d.hh_next ELSE w1.tbl[t].buckets[b]
    <2>1. t \in DOMAIN w1.tbl /\ e \in DOMAIN w1.hh /\ HashBkt(w1.hh[e].key) \in Buckets
          /\ HashBkt(w1.hh[e].key) = bk
      BY <1>2, <1>21
    <2>2. /\ w1.hh[e].hh_prev = NULL \/ w1.hh[e].hh_prev \in DOMAIN w1.hh
          /\ w1.hh[e].hh_next = NULL \/ w1.hh[e].hh_next \in DOMAIN w1.hh
      BY <1>21, <1>22
    <2> HIDE DEF bk
    <2> QED  BY <1>18, <1>20, <1>21, <2>1, <2>2, DelInBktIs
  <1> HIDE DEF bk
  <1>24. Relinked(v.hh, a.hh, d.prev, d.next, d.next, d.prev,
                  d.hh_prev, d.hh_next, d.hh_next, d.hh_prev)
    BY <1>0, <1>3, <1>9, <1>14, <1>17, <1>23 DEF Relinked
  <1>25. a.head[u] = (IF e = First(s) THEN d.next ELSE First(s))
         /\ \A x \in Units : x # u => a.head[x] = v.head[x]
    BY <1>8, <1>15, <1>17, <1>23
  <1>26. DOMAIN a.tbl = DOMAIN v.tbl /\ \A x \in DOMAIN v.tbl : x # t => a.tbl[x] = v.tbl[x]
    BY <1>16, <1>17, <1>23
  <1>27. /\ a.tbl[t].live /\ a.tbl[t].tail = (IF e = Last(s) THEN d.prev ELSE Last(s))
         /\ a.tbl[t].num_items = Len(s) - 1
         /\ \A b \in Buckets : a.tbl[t].buckets[b] =
               IF b = bk /\ First(c[b]) = e THEN d.hh_next ELSE First(c[b])
    BY <1>10, <1>11, <1>16, <1>17, <1>23
  <1>28. a.ok = v.ok  BY <1>17, <1>23
  <1> QED  BY <1>23, <1>24, <1>25, <1>26, <1>27, <1>28 DEF a, e, d, bk

(* Nothing but the table t of unit u, with the items s, has changed, and   *)
(* its items have kept their keys.                                         *)
Apart(v, a, u, t, s) ==
    /\ a.ok = v.ok /\ \A x \in Units : x # u => a.head[x] = v.head[x]
    /\ DOMAIN a.hh = DOMAIN v.hh
    /\ \A x \in DOMAIN v.hh : a.hh[x].live = v.hh[x].live /\ a.hh[x].key = v.hh[x].key
    /\ Unmoved(v.hh, a.hh, DOMAIN v.hh \ ElementsOf(s))
    /\ DOMAIN a.tbl = DOMAIN v.tbl /\ \A x \in DOMAIN v.tbl : x # t => a.tbl[x] = v.tbl[x]

(* The last item goes, and the table record with it.                       *)
LEMMA DelLastHolds ==
    ASSUME NEW v \in Worlds, NEW u \in Units, NEW t, NEW s, NEW c, Holds(v, u, t, s, c),
           HashTotal, NEW k \in 1 .. Len(s), Len(s) = 1
    PROVE  LET a == HASH_DEL(v, u, s[k])
           IN  /\ a \in Worlds /\ Apart(v, a, u, t, s)
               /\ Holds(a, u, t, <<>>, [b \in Buckets |-> <<>>])
  <1> DEFINE e == s[k]
             d == v.hh[e]
             a == HASH_DEL(v, u, e)
             r == [HASH_MAKE_TABLE(NULL) EXCEPT !.live = FALSE]
             tb == [v.tbl EXCEPT ![t] = r]
             hd == [v.head EXCEPT ![u] = NULL]
  <1>0. NULL \notin Nat  BY PrgmAssumption
  <1>1. /\ v.head \in [Units -> Ptr] /\ v.hh \in Seq(Handles) /\ v.tbl \in Seq(TableRecords)
        /\ v.ok \in BOOLEAN
    BY DEF Worlds
  <1>2. /\ e \in ElementsOf(s) /\ e \in DOMAIN v.hh /\ d.live /\ d.tbl = t
        /\ t \in DOMAIN v.tbl /\ v.tbl[t].live
        /\ \A x \in ElementsOf(s) : x \in DOMAIN v.hh /\ v.hh[x].live /\ v.hh[x].tbl = t
        /\ d.prev = NULL /\ d.next = NULL
        /\ v.head[u] \in ElementsOf(s)
    BY ItemOf
  <1>3. DOMAIN v.hh = 1 .. Len(v.hh) /\ Len(v.hh) \in Nat /\ DOMAIN v.tbl = 1 .. Len(v.tbl)
        /\ Len(v.tbl) \in Nat /\ t \in Nat /\ t # NULL /\ v.head[u] # NULL
    <2>1. DOMAIN v.hh = 1 .. Len(v.hh) /\ Len(v.hh) \in Nat /\ DOMAIN v.tbl = 1 .. Len(v.tbl)
          /\ Len(v.tbl) \in Nat
      BY <1>1
    <2> QED  BY <1>0, <1>2, <2>1
  <1>4. Usable(v, v.head[u]) /\ TblOf(v, v.head[u]) = t
    BY <1>2, <1>3 DEF Usable, Live, TblOf, Table
  <1>5. a = DelLast(v, u)
    <2>1. Alone(v, e)  BY <1>2 DEF Alone
    <2>2. DelDefined(v, u, e)  BY <1>2, <1>3, <1>4, <2>1 DEF DelDefined, Live
    <2> QED  BY <2>1, <2>2 DEF HASH_DEL
  <1>6. a = [v EXCEPT !.tbl = tb, !.head = hd]
    <2>1. DelLast(v, u) = [v EXCEPT !.tbl[t] = r, !.head[u] = NULL]  BY <1>4 DEF DelLast
    <2> HIDE DEF r
    <2>2. [v EXCEPT !.tbl[t] = r, !.head[u] = NULL] = [v EXCEPT !.tbl = tb, !.head = hd]
      BY DEF Worlds
    <2> QED  BY <1>5, <2>1, <2>2
  <1>7. r \in TableRecords
    <2> DEFINE bs == [b \in Buckets |-> NULL]
    <2>1. bs \in [Buckets -> Ptr] /\ NULL \in Ptr  BY DEF Ptr
    <2> DEFINE m == [live |-> TRUE, tail |-> NULL, num_items |-> 0, buckets |-> bs]
    <2>2. r = [m EXCEPT !.live = FALSE]  BY DEF HASH_MAKE_TABLE
    <2> HIDE DEF bs, r
    <2>3. m \in TableRecords  BY <2>1 DEF TableRecords
    <2> HIDE DEF m
    <2> QED  BY <2>2, <2>3 DEF TableRecords
  <1> HIDE DEF r
  <1>8. tb \in Seq(TableRecords) /\ DOMAIN tb = DOMAIN v.tbl
        /\ \A x \in DOMAIN v.tbl : x # t => tb[x] = v.tbl[x]
    BY <1>1, <1>2, <1>7
  <1>9. hd \in [Units -> Ptr] /\ hd[u] = NULL /\ \A x \in Units : x # u => hd[x] = v.head[x]
    BY <1>1 DEF Ptr
  <1> HIDE DEF a, tb, hd
  <1>10. a \in Worlds /\ a.head = hd /\ a.hh = v.hh /\ a.tbl = tb /\ a.ok = v.ok
    BY <1>6, <1>8, <1>9 DEF Worlds
  <1>11. Apart(v, a, u, t, s)  BY <1>8, <1>9, <1>10 DEF Apart, Unmoved
  <1>12. Holds(a, u, t, <<>>, [b \in Buckets |-> <<>>])
    <2>1. \A nx, pv : Linked(<<>>, nx, pv) /\ ElementsOf(<<>>) = {}  BY LinkedEmpty
    <2>2. Linked(<<>>, Nexts(a.hh), Prevs(a.hh))  BY <2>1
    <2>3. Sorted(a.hh, <<>>, [b \in Buckets |-> <<>>])  BY <2>1 DEF Sorted
    <2>4. Keyed(a.hh, <<>>, t)  BY <2>1 DEF Keyed
    <2>5. a.head[u] = First(<<>>)  BY <1>9, <1>10 DEF First
    <2> QED  BY <2>2, <2>3, <2>4, <2>5 DEF Holds
  <1> QED  BY <1>10, <1>11, <1>12 DEF a

(* The table without its k-th item.                                        *)
LEMMA DelHolds ==
    ASSUME NEW v \in Worlds, NEW u \in Units, NEW t, NEW s, NEW c, Holds(v, u, t, s, c),
           HashTotal, NEW k \in 1 .. Len(s)
    PROVE  LET a == HASH_DEL(v, u, s[k])
           IN  /\ a \in Worlds /\ Apart(v, a, u, t, s)
               /\ \E c2 : Holds(a, u, t, Without(s, k), c2)
               /\ ElementsOf(Without(s, k)) = ElementsOf(s) \ {s[k]}
               /\ Len(Without(s, k)) = Len(s) - 1
  <1> DEFINE e  == s[k]
             d  == v.hh[e]
             bk == HashBkt(d.key)
             a  == HASH_DEL(v, u, e)
             s2 == Without(s, k)
  <1>0. NULL \notin Nat  BY PrgmAssumption
  <1>1. Linked(s, Nexts(v.hh), Prevs(v.hh)) /\ s \in Seq(Nat)  BY DEF Holds, Linked
  <1>2. /\ e \in ElementsOf(s) /\ e \in DOMAIN v.hh /\ e \in Nat
        /\ d.tbl = t /\ bk \in Buckets /\ t \in DOMAIN v.tbl
        /\ e \in ElementsOf(c[bk])
        /\ \A x \in ElementsOf(s) : x \in DOMAIN v.hh /\ v.hh[x].live /\ v.hh[x].tbl = t
        /\ {d.prev, d.next, d.hh_prev, d.hh_next} \subseteq ElementsOf(s) \cup {NULL}
        /\ (d.prev = NULL /\ d.next = NULL) <=> Len(s) = 1
    BY ItemOf
  <1>3. DOMAIN v.hh \subseteq Nat /\ NULL \notin DOMAIN v.hh
        /\ DOMAIN Nexts(v.hh) = DOMAIN v.hh /\ DOMAIN BktNexts(v.hh) = DOMAIN v.hh
    <2>1. DOMAIN v.hh = 1 .. Len(v.hh) /\ Len(v.hh) \in Nat
          /\ DOMAIN Nexts(v.hh) = DOMAIN v.hh /\ DOMAIN BktNexts(v.hh) = DOMAIN v.hh
      BY LinksOf
    <2>2. DOMAIN v.hh \subseteq Nat  BY <2>1
    <2> QED  BY <1>0, <2>1, <2>2
  <1>4. Nexts(v.hh)[e] = d.next /\ Prevs(v.hh)[e] = d.prev
        /\ BktNexts(v.hh)[e] = d.hh_next /\ BktPrevs(v.hh)[e] = d.hh_prev
    BY <1>2 DEF Nexts, Prevs, BktNexts, BktPrevs
  <1>5. CASE Len(s) = 1
    <2>1. /\ a \in Worlds /\ Apart(v, a, u, t, s)
          /\ Holds(a, u, t, <<>>, [b \in Buckets |-> <<>>])
      BY <1>5, DelLastHolds
    <2> DEFINE nx == Nexts(v.hh)
               pv == Prevs(v.hh)
    <2>2. Linked(s, nx, pv) /\ DOMAIN nx \subseteq Nat /\ nx[e] = NULL /\ pv[e] = NULL
          /\ NULL \notin DOMAIN nx
      BY <1>1, <1>2, <1>3, <1>4, <1>5
    <2> HIDE DEF nx, pv
    <2>3. Linked(s2, nx, pv) /\ ElementsOf(s2) = ElementsOf(s) \ {e} /\ Len(s2) = Len(s) - 1
      <3>1. \A x \in DOMAIN nx : nx[x] = IF x = pv[s[k]] THEN nx[s[k]] ELSE nx[x]  BY <2>2
      <3>2. \A x \in DOMAIN nx : pv[x] = IF x = nx[s[k]] THEN pv[s[k]] ELSE pv[x]  BY <2>2
      <3>3. TakenOut(nx, pv, nx, pv, s[k])  BY <2>2, <3>1, <3>2 DEF TakenOut
      <3>4. Shortened(s, k, nx, pv, nx, pv)  BY <1>0, <2>2, <3>3, LinkedWithout
      <3> QED  BY <3>4 DEF Shortened
    <2> HIDE DEF a, s2
    <2>4. s2 = <<>>  BY <1>5, <2>3 DEF Linked
    <2> QED  BY <2>1, <2>3, <2>4 DEF a, s2
  <1>6. CASE Len(s) # 1
    <2>1. /\ a \in Worlds /\ a.ok = v.ok
          /\ a.head[u] = (IF e = First(s) THEN d.next ELSE First(s))
          /\ \A x \in Units : x # u => a.head[x] = v.head[x]
          /\ Relinked(v.hh, a.hh, d.prev, d.next, d.next, d.prev,
                      d.hh_prev, d.hh_next, d.hh_next, d.hh_prev)
          /\ DOMAIN a.tbl = DOMAIN v.tbl /\ \A x \in DOMAIN v.tbl : x # t => a.tbl[x] = v.tbl[x]
          /\ a.tbl[t].live /\ a.tbl[t].tail = (IF e = Last(s) THEN d.prev ELSE Last(s))
          /\ a.tbl[t].num_items = Len(s) - 1
          /\ \A b \in Buckets : a.tbl[t].buckets[b] =
                IF b = bk /\ First(c[b]) = e THEN d.hh_next ELSE First(c[b])
      BY <1>6, DelFields
    <2> HIDE DEF a, d
    <2>2. DOMAIN a.hh = DOMAIN v.hh /\ DOMAIN Nexts(a.hh) = DOMAIN v.hh
          /\ DOMAIN BktNexts(a.hh) = DOMAIN v.hh
      BY <2>1, LinksOf DEF Relinked
    <2>3. \A x \in DOMAIN v.hh :
             /\ a.hh[x].live = v.hh[x].live /\ a.hh[x].key = v.hh[x].key /\ a.hh[x].tbl = v.hh[x].tbl
             /\ Nexts(a.hh)[x] = IF x = d.prev THEN d.next ELSE Nexts(v.hh)[x]
             /\ Prevs(a.hh)[x] = IF x = d.next THEN d.prev ELSE Prevs(v.hh)[x]
             /\ BktNexts(a.hh)[x] = IF x = d.hh_prev THEN d.hh_next ELSE BktNexts(v.hh)[x]
             /\ BktPrevs(a.hh)[x] = IF x = d.hh_next THEN d.hh_prev ELSE BktPrevs(v.hh)[x]
      BY <2>1, <2>2 DEF Relinked, Nexts, Prevs, BktNexts, BktPrevs
    <2>4. /\ Linked(s2, Nexts(a.hh), Prevs(a.hh)) /\ ElementsOf(s2) = ElementsOf(s) \ {e}
          /\ Len(s2) = Len(s) - 1
          /\ First(s2) = (IF e = First(s) THEN d.next ELSE First(s))
          /\ Last(s2) = (IF e = Last(s) THEN d.prev ELSE Last(s))
      <3> DEFINE nx == Nexts(v.hh)
                 pv == Prevs(v.hh)
                 nx2 == Nexts(a.hh)
                 pv2 == Prevs(a.hh)
      <3>1. /\ Linked(s, nx, pv) /\ DOMAIN nx \subseteq Nat /\ DOMAIN nx2 = DOMAIN nx
            /\ nx[e] = d.next /\ pv[e] = d.prev
        BY <1>1, <1>3, <1>4, <2>2
      <3>2. \A x \in DOMAIN nx : nx2[x] = IF x = d.prev THEN d.next ELSE nx[x]  BY <1>3, <2>3
      <3>3. \A x \in DOMAIN nx : pv2[x] = IF x = d.next THEN d.prev ELSE pv[x]  BY <1>3, <2>3
      <3> HIDE DEF nx, pv, nx2, pv2
      <3>4. \A x \in DOMAIN nx : nx2[x] = IF x = pv[s[k]] THEN nx[s[k]] ELSE nx[x]  BY <3>1, <3>2
      <3>5. \A x \in DOMAIN nx : pv2[x] = IF x = nx[s[k]] THEN pv[s[k]] ELSE pv[x]  BY <3>1, <3>3
      <3>6. Linked(s, nx, pv) /\ TakenOut(nx, pv, nx2, pv2, s[k])
        BY <3>1, <3>4, <3>5 DEF TakenOut
      <3>7. /\ Linked(s2, nx2, pv2) /\ ElementsOf(s2) = ElementsOf(s) \ {e}
            /\ Len(s2) = Len(s) - 1
            /\ First(s2) = (IF e = First(s) THEN nx[e] ELSE First(s))
            /\ Last(s2) = (IF e = Last(s) THEN pv[e] ELSE Last(s))
        <4>1. Shortened(s, k, nx, pv, nx2, pv2)  BY <1>0, <3>6, LinkedWithout
        <4> QED  BY <4>1 DEF Shortened
      <3> HIDE DEF s2, e
      <3> QED  BY <3>1, <3>7 DEF nx2, pv2
    <2>5. \A b \in Buckets :
             /\ Linked(c[b], BktNexts(v.hh), BktPrevs(v.hh)) /\ c[b] \in Seq(Nat)
             /\ ElementsOf(c[b]) = {x \in ElementsOf(s) : HashBkt(v.hh[x].key) = b}
      BY DEF Holds, Sorted, Linked
    <2>6. PICK i \in 1 .. Len(c[bk]) : c[bk][i] = e  BY <1>2, <2>5, InElements
    <2> DEFINE q2 == Without(c[bk], i)
    <2>7. /\ Linked(q2, BktNexts(a.hh), BktPrevs(a.hh)) /\ ElementsOf(q2) = ElementsOf(c[bk]) \ {e}
          /\ First(q2) = (IF e = First(c[bk]) THEN d.hh_next ELSE First(c[bk]))
      <3> DEFINE nx == BktNexts(v.hh)
                 pv == BktPrevs(v.hh)
                 nx2 == BktNexts(a.hh)
                 pv2 == BktPrevs(a.hh)
                 q == c[bk]
      <3>1. /\ Linked(q, nx, pv) /\ DOMAIN nx \subseteq Nat /\ DOMAIN nx2 = DOMAIN nx
            /\ nx[e] = d.hh_next /\ pv[e] = d.hh_prev /\ q[i] = e /\ i \in 1 .. Len(q)
        BY <1>2, <1>3, <1>4, <2>2, <2>5, <2>6
      <3>2. \A x \in DOMAIN nx : nx2[x] = IF x = d.hh_prev THEN d.hh_next ELSE nx[x]  BY <1>3, <2>3
      <3>3. \A x \in DOMAIN nx : pv2[x] = IF x = d.hh_next THEN d.hh_prev ELSE pv[x]  BY <1>3, <2>3
      <3> HIDE DEF nx, pv, nx2, pv2, q, e
      <3>4. \A x \in DOMAIN nx : nx2[x] = IF x = pv[q[i]] THEN nx[q[i]] ELSE nx[x]  BY <3>1, <3>2
      <3>5. \A x \in DOMAIN nx : pv2[x] = IF x = nx[q[i]] THEN pv[q[i]] ELSE pv[x]  BY <3>1, <3>3
      <3>6. /\ Linked(Without(q, i), nx2, pv2) /\ ElementsOf(Without(q, i)) = ElementsOf(q) \ {q[i]}
            /\ First(Without(q, i)) = (IF q[i] = First(q) THEN nx[q[i]] ELSE First(q))
        <4>1. Linked(q, nx, pv) /\ i \in 1 .. Len(q) /\ TakenOut(nx, pv, nx2, pv2, q[i])
          BY <3>1, <3>4, <3>5 DEF TakenOut
        <4>2. Shortened(q, i, nx, pv, nx2, pv2)  BY <1>0, <4>1, LinkedWithout
        <4> QED  BY <4>2 DEF Shortened
      <3> QED  BY <3>1, <3>6 DEF nx2, pv2, q
    <2> DEFINE c2 == [b \in Buckets |-> IF b = bk THEN q2 ELSE c[b]]
    <2> HIDE DEF q2
    <2>8. ASSUME NEW b \in Buckets
          PROVE  /\ Linked(c2[b], BktNexts(a.hh), BktPrevs(a.hh))
                 /\ ElementsOf(c2[b]) = {x \in ElementsOf(s2) : HashBkt(a.hh[x].key) = b}
                 /\ First(c2[b]) = IF b = bk /\ First(c[b]) = e THEN d.hh_next ELSE First(c[b])
      <3> HIDE DEF s2
      <3>1. {x \in ElementsOf(s2) : HashBkt(a.hh[x].key) = b} = ElementsOf(c[b]) \ {e}
        <4> HIDE DEF e
        <4>1. \A x \in ElementsOf(s) : a.hh[x].key = v.hh[x].key  BY <1>2, <2>3
        <4> QED  BY <2>4, <2>5, <4>1
      <3>2. CASE b = bk
        <4>1. c2[b] = q2  BY <3>2
        <4> HIDE DEF c2, e, bk
        <4> QED  BY <2>7, <3>1, <3>2, <4>1
      <3>3. CASE b # bk
        <4>1. c2[b] = c[b]  BY <3>3
        <4>2. e \notin ElementsOf(c[b])  BY <2>5, <3>3 DEF d
        <4>3. \A x \in ElementsOf(c[b]) : x # d.hh_prev /\ x # d.hh_next
          <5> DEFINE nx == BktNexts(v.hh)
                     pv == BktPrevs(v.hh)
          <5>1. /\ nx[c[bk][i]] = NULL \/ nx[c[bk][i]] \in ElementsOf(c[bk])
                /\ pv[c[bk][i]] = NULL \/ pv[c[bk][i]] \in ElementsOf(c[bk])
            BY <1>2, <2>5, <2>6, LinkedLinks
          <5>2. d.hh_next \in ElementsOf(c[bk]) \cup {NULL} /\ d.hh_prev \in ElementsOf(c[bk]) \cup {NULL}
            <6> HIDE DEF e, bk
            <6> QED  BY <1>4, <2>6, <5>1
          <5>3. \A x \in ElementsOf(c[b]) : x \notin ElementsOf(c[bk]) /\ x # NULL
            <6>1. \A x \in ElementsOf(s) : x # NULL  BY <1>2, <1>3
            <6> HIDE DEF bk
            <6> QED  BY <1>2, <2>5, <3>3, <6>1
          <5> HIDE DEF bk
          <5> QED  BY <5>2, <5>3
        <4> HIDE DEF c2, bk, e
        <4>4. \A x \in ElementsOf(c[b]) : BktNexts(a.hh)[x] = BktNexts(v.hh)[x]
                                          /\ BktPrevs(a.hh)[x] = BktPrevs(v.hh)[x]
          <5>1. \A x \in ElementsOf(c[b]) : x \in DOMAIN v.hh  BY <1>2, <2>5
          <5> QED  BY <2>3, <4>3, <5>1
        <4>5. Linked(c[b], BktNexts(a.hh), BktPrevs(a.hh))  BY <1>3, <2>2, <2>5, <4>4, LinkedFrame
        <4> QED  BY <3>1, <3>3, <4>1, <4>2, <4>5
      <3> QED  BY <3>2, <3>3
    <2> HIDE DEF c2
    <2>9. RecordOf(a.tbl[t], s2, c2)
      <3> HIDE DEF s2, bk, e
      <3> QED  BY <2>1, <2>4, <2>8 DEF RecordOf
    <2>10. Sorted(a.hh, s2, c2)  BY <2>8 DEF Sorted
    <2>11. Keyed(a.hh, s2, t)
      <3> HIDE DEF s2, e
      <3>1. \A x \in ElementsOf(s) : v.hh[x].live /\ v.hh[x].tbl = t /\ v.hh[x].key \in Nat
        BY DEF Holds, Keyed
      <3>2. \A x, y \in ElementsOf(s) : v.hh[x].key = v.hh[y].key => x = y  BY DEF Holds, Keyed
      <3> QED  BY <1>2, <2>3, <2>4, <3>1, <3>2 DEF Keyed
    <2>12. Holds(a, u, t, s2, c2)
      <3> HIDE DEF s2, e
      <3>1. a.head[u] = First(s2) /\ t \in DOMAIN a.tbl  BY <1>2, <2>1, <2>4
      <3> QED  BY <2>4, <2>9, <2>10, <2>11, <3>1 DEF Holds
    <2>13. Apart(v, a, u, t, s)
      <3>1. Unmoved(v.hh, a.hh, DOMAIN v.hh \ ElementsOf(s))
        <4>1. \A x \in DOMAIN v.hh \ ElementsOf(s) :
                 x # d.prev /\ x # d.next /\ x # d.hh_prev /\ x # d.hh_next
          BY <1>2, <1>3
        <4> QED  BY <2>1, <4>1 DEF Relinked, Unmoved
      <3> QED  BY <2>1, <2>2, <2>3, <3>1 DEF Apart
    <2> HIDE DEF s2
    <2> QED  BY <2>1, <2>4, <2>12, <2>13 DEF a, s2
  <1> QED  BY <1>5, <1>6

-----------------------------------------------------------------------------
(* Both tables of a program                                                *)

(* Unit u has the table T[u] of the items S[u] in the buckets C[u]; the    *)
(* two tables have nothing in common.                                      *)
Tables(v, T, S, C) ==
    /\ \A u \in Units : Holds(v, u, T[u], S[u], C[u])
    /\ \A u, x \in Units : u # x =>
          /\ ElementsOf(S[u]) \cap ElementsOf(S[x]) = {}
          /\ S[u] # <<>> /\ S[x] # <<>> => T[u] # T[x]

(* F with the value x for unit u.                                          *)
Change(F, u, x) == [y \in Units |-> IF y = u THEN x ELSE F[y]]

(* The items of a table are in memory, and its record exists.              *)
LEMMA ItemsIn ==
    ASSUME NEW v \in Worlds, NEW u \in Units, NEW t, NEW s, NEW c, Holds(v, u, t, s, c)
    PROVE  /\ s \in Seq(Nat) /\ v.head[u] = First(s)
           /\ \A x \in ElementsOf(s) : x \in DOMAIN v.hh /\ x \in Nat /\ x # NULL /\ v.hh[x].live
                                       /\ v.hh[x].key \in Nat
           /\ s # <<>> => t \in DOMAIN v.tbl
           /\ First(s) = NULL \/ First(s) \in ElementsOf(s)
           /\ Last(s) = NULL \/ Last(s) \in ElementsOf(s)
           /\ \A b \in Buckets : First(c[b]) = NULL \/ First(c[b]) \in ElementsOf(s)
           /\ \A x, y \in ElementsOf(s) : v.hh[x].key = v.hh[y].key => x = y
  <1>0. NULL \notin Nat  BY PrgmAssumption
  <1>1. s \in Seq(Nat) /\ Linked(s, Nexts(v.hh), Prevs(v.hh)) /\ v.head[u] = First(s)
    BY DEF Holds, Linked
  <1>2. \A x \in ElementsOf(s) : x \in DOMAIN v.hh /\ x \in Nat  BY <1>1, LinksOf, InElements
  <1>3. ASSUME NEW q \in Seq(Nat)
        PROVE  /\ First(q) = NULL \/ First(q) \in ElementsOf(q)
               /\ Last(q) = NULL \/ Last(q) \in ElementsOf(q)
    <2>1. CASE q = <<>>  BY <2>1 DEF First, Last
    <2>2. CASE q # <<>>
      <3>1. 1 \in 1 .. Len(q) /\ Len(q) \in 1 .. Len(q)  BY <2>2
      <3>2. q[1] \in ElementsOf(q) /\ q[Len(q)] \in ElementsOf(q)  BY <3>1, InElements
      <3> QED  BY <2>2, <3>2 DEF First, Last
    <2> QED  BY <2>1, <2>2
  <1>4. \A b \in Buckets : First(c[b]) = NULL \/ First(c[b]) \in ElementsOf(s)
    <2> SUFFICES ASSUME NEW b \in Buckets
                 PROVE  First(c[b]) = NULL \/ First(c[b]) \in ElementsOf(s)
      OBVIOUS
    <2>1. c[b] \in Seq(Nat) /\ \A x \in ElementsOf(c[b]) : x \in ElementsOf(s)
      BY DEF Holds, Sorted, Linked
    <2> QED  BY <1>3, <2>1
  <1>5. \A x \in ElementsOf(s) : v.hh[x].live /\ v.hh[x].key \in Nat  BY DEF Holds, Keyed
  <1>6. \A x, y \in ElementsOf(s) : v.hh[x].key = v.hh[y].key => x = y  BY DEF Holds, Keyed
  <1>7. s # <<>> => t \in DOMAIN v.tbl  BY DEF Holds
  <1> QED  BY <1>0, <1>1, <1>2, <1>3, <1>4, <1>5, <1>6, <1>7

(* What leaves heads, records and the handles of the items alone leaves    *)
(* both tables.                                                            *)
LEMMA TablesFrame ==
    ASSUME NEW v \in Worlds, NEW a \in Worlds, NEW T, NEW S, NEW C, Tables(v, T, S, C),
           a.head = v.head, a.tbl = v.tbl, DOMAIN v.hh \subseteq DOMAIN a.hh,
           \A u \in Units : Unmoved(v.hh, a.hh, ElementsOf(S[u]))
    PROVE  Tables(a, T, S, C)
  <1>1. ASSUME NEW u \in Units  PROVE Holds(a, u, T[u], S[u], C[u])
    <2>1. Holds(v, u, T[u], S[u], C[u])  BY DEF Tables
    <2>2. S[u] # <<>> => T[u] \in DOMAIN a.tbl /\ a.tbl[T[u]] = v.tbl[T[u]]  BY <2>1, ItemsIn
    <2> QED  BY <2>1, <2>2, HoldsFrame
  <1> QED  BY <1>1 DEF Tables

(* The tables after an insertion.                                          *)
LEMMA AddTables ==
    ASSUME NEW v \in Worlds, NEW T, NEW S, NEW C, Tables(v, T, S, C), HashTotal,
           NEW u \in Units, NEW k \in Nat, NEW e \in DOMAIN v.hh, v.hh[e].live,
           \A x \in Units : e \notin ElementsOf(S[x]),
           \A x \in ElementsOf(S[u]) : v.hh[x].key # k
    PROVE  LET a == HASH_ADD(v, u, k, e)
           IN  /\ a \in Worlds /\ a.ok = v.ok /\ DOMAIN a.hh = DOMAIN v.hh
               /\ \A x \in DOMAIN v.hh : a.hh[x].key = IF x = e THEN k ELSE v.hh[x].key
               /\ ElementsOf(Append(S[u], e)) = ElementsOf(S[u]) \cup {e}
               /\ Tables(a, Change(T, u, TableFor(v, T[u], S[u])), Change(S, u, Append(S[u], e)),
                         Change(C, u, BktsWith(C[u], HashBkt(k), e)))
  <1> DEFINE a  == HASH_ADD(v, u, k, e)
             s  == S[u]
             t2 == TableFor(v, T[u], s)
             s2 == Append(s, e)
             f  == First(C[u][HashBkt(k)])
             T2 == Change(T, u, t2)
             S2 == Change(S, u, s2)
             C2 == Change(C, u, BktsWith(C[u], HashBkt(k), e))
  <1>0. HashBkt(k) \in Buckets  BY DEF HashTotal
  <1>1. Holds(v, u, T[u], s, C[u])  BY DEF Tables
  <1>2. /\ a \in Worlds /\ a.ok = v.ok /\ \A x \in Units : x # u => a.head[x] = v.head[x]
        /\ HandleAdded(v.hh, a.hh, e, k, t2, Last(s), f)
        /\ \A x \in DOMAIN v.tbl : x \in DOMAIN a.tbl /\ (x # t2 => a.tbl[x] = v.tbl[x])
    BY <1>1, AddFields
  <1>3. /\ Holds(a, u, t2, s2, BktsWith(C[u], HashBkt(k), e))
        /\ ElementsOf(s2) = ElementsOf(s) \cup {e}
    BY <1>1, AddHolds
  <1>4. /\ Last(s) = NULL \/ Last(s) \in ElementsOf(s)
        /\ f = NULL \/ f \in ElementsOf(s)
    BY <1>0, <1>1, ItemsIn
  <1> HIDE DEF a, f, t2
  <1>5. ASSUME NEW x \in Units, x # u
        PROVE  Holds(a, x, T[x], S[x], C[x]) /\ (S[x] # <<>> => T[x] # t2)
    <2>1. Holds(v, x, T[x], S[x], C[x])  BY DEF Tables
    <2>2. ElementsOf(S[x]) \cap ElementsOf(s) = {} /\ (S[x] # <<>> /\ s # <<>> => T[x] # T[u])
      BY <1>5 DEF Tables
    <2>3. \A y \in ElementsOf(S[x]) : y \in DOMAIN v.hh /\ y # NULL  BY <2>1, ItemsIn
    <2>4. \A y \in ElementsOf(S[x]) : y # e /\ y # Last(s) /\ y # f  BY <1>4, <2>2, <2>3
    <2>5. Unmoved(v.hh, a.hh, ElementsOf(S[x]))  BY <1>2, <2>3, <2>4 DEF HandleAdded, Unmoved
    <2>6. S[x] # <<>> => T[x] \in DOMAIN v.tbl /\ T[x] # t2
      <3>1. S[x] # <<>> => T[x] \in DOMAIN v.tbl  BY <2>1, ItemsIn
      <3>2. Len(v.tbl) + 1 \notin DOMAIN v.tbl
        <4>1. v.tbl \in Seq(TableRecords)  BY DEF Worlds
        <4> QED  BY <4>1
      <3> QED  BY <2>2, <3>1, <3>2 DEF t2, TableFor
    <2>7. S[x] # <<>> => T[x] \in DOMAIN a.tbl /\ a.tbl[T[x]] = v.tbl[T[x]]  BY <1>2, <2>6
    <2>8. a.head[x] = v.head[x] /\ DOMAIN v.hh \subseteq DOMAIN a.hh
      BY <1>2, <1>5 DEF HandleAdded
    <2>9. Holds(a, x, T[x], S[x], C[x])  BY <1>2, <2>1, <2>5, <2>7, <2>8, HoldsFrame
    <2> QED  BY <2>6, <2>9
  <1>6. /\ T2[u] = t2 /\ S2[u] = s2 /\ C2[u] = BktsWith(C[u], HashBkt(k), e)
        /\ \A x \in Units : x # u => T2[x] = T[x] /\ S2[x] = S[x] /\ C2[x] = C[x]
    BY DEF Change
  <1> HIDE DEF T2, S2, C2, s2
  <1>7. \A x \in Units : Holds(a, x, T2[x], S2[x], C2[x])  BY <1>3, <1>5, <1>6
  <1>8. ASSUME NEW x \in Units, NEW y \in Units, x # y
        PROVE  /\ ElementsOf(S2[x]) \cap ElementsOf(S2[y]) = {}
               /\ S2[x] # <<>> /\ S2[y] # <<>> => T2[x] # T2[y]
    <2>1. /\ ElementsOf(S[x]) \cap ElementsOf(S[y]) = {}
          /\ S[x] # <<>> /\ S[y] # <<>> => T[x] # T[y]
      BY <1>8 DEF Tables
    <2>2. CASE x = u  BY <1>3, <1>5, <1>6, <1>8, <2>1, <2>2
    <2>3. CASE y = u  BY <1>3, <1>5, <1>6, <1>8, <2>1, <2>3
    <2>4. CASE x # u /\ y # u  BY <1>6, <2>1, <2>4
    <2> QED  BY <2>2, <2>3, <2>4
  <1>9. Tables(a, T2, S2, C2)  BY <1>7, <1>8 DEF Tables
  <1>10. DOMAIN a.hh = DOMAIN v.hh
         /\ \A x \in DOMAIN v.hh : a.hh[x].key = IF x = e THEN k ELSE v.hh[x].key
    BY <1>2 DEF HandleAdded
  <1> QED  BY <1>2, <1>3, <1>9, <1>10 DEF a, t2, T2, S2, C2, s2

(* The tables after a deletion.                                            *)
LEMMA DelTables ==
    ASSUME NEW v \in Worlds, NEW T, NEW S, NEW C, Tables(v, T, S, C), HashTotal,
           NEW u \in Units, NEW k \in 1 .. Len(S[u])
    PROVE  LET a == HASH_DEL(v, u, S[u][k])
           IN  /\ a \in Worlds /\ Apart(v, a, u, T[u], S[u])
               /\ ElementsOf(Without(S[u], k)) = ElementsOf(S[u]) \ {S[u][k]}
               /\ Len(Without(S[u], k)) = Len(S[u]) - 1
               /\ \E C2 : Tables(a, T, Change(S, u, Without(S[u], k)), C2)
  <1> DEFINE s  == S[u]
             a  == HASH_DEL(v, u, s[k])
             s2 == Without(s, k)
             S2 == Change(S, u, s2)
  <1>1. Holds(v, u, T[u], s, C[u])  BY DEF Tables
  <1>2. /\ a \in Worlds /\ Apart(v, a, u, T[u], s)
        /\ \E c2 : Holds(a, u, T[u], s2, c2)
        /\ ElementsOf(s2) = ElementsOf(s) \ {s[k]}
        /\ Len(s2) = Len(s) - 1
    BY <1>1, DelHolds
  <1>3. PICK c2 : Holds(a, u, T[u], s2, c2)  BY <1>2
  <1> DEFINE C2 == Change(C, u, c2)
  <1> HIDE DEF a
  <1>4. s # <<>>  OBVIOUS
  <1>5. ASSUME NEW x \in Units, x # u  PROVE Holds(a, x, T[x], S[x], C[x])
    <2>1. Holds(v, x, T[x], S[x], C[x])  BY DEF Tables
    <2>2. ElementsOf(S[x]) \cap ElementsOf(s) = {} /\ (S[x] # <<>> => T[x] # T[u])
      BY <1>4, <1>5 DEF Tables
    <2>3. \A y \in ElementsOf(S[x]) : y \in DOMAIN v.hh  BY <2>1, ItemsIn
    <2>4. Unmoved(v.hh, a.hh, ElementsOf(S[x]))  BY <1>2, <2>2, <2>3 DEF Apart, Unmoved
    <2>5. S[x] # <<>> => T[x] \in DOMAIN v.tbl  BY <2>1, ItemsIn
    <2>6. S[x] # <<>> => T[x] \in DOMAIN a.tbl /\ a.tbl[T[x]] = v.tbl[T[x]]
      BY <1>2, <2>2, <2>5 DEF Apart
    <2>7. a.head[x] = v.head[x] /\ DOMAIN v.hh \subseteq DOMAIN a.hh  BY <1>2, <1>5 DEF Apart
    <2> QED  BY <1>2, <2>1, <2>4, <2>6, <2>7, HoldsFrame
  <1>6. /\ S2[u] = s2 /\ C2[u] = c2
        /\ \A x \in Units : x # u => S2[x] = S[x] /\ C2[x] = C[x]
    BY DEF Change
  <1> HIDE DEF S2, C2, s2
  <1>7. \A x \in Units : Holds(a, x, T[x], S2[x], C2[x])  BY <1>3, <1>5, <1>6
  <1>8. ASSUME NEW x \in Units, NEW y \in Units, x # y
        PROVE  /\ ElementsOf(S2[x]) \cap ElementsOf(S2[y]) = {}
               /\ S2[x] # <<>> /\ S2[y] # <<>> => T[x] # T[y]
    <2>1. /\ ElementsOf(S[x]) \cap ElementsOf(S[y]) = {}
          /\ S[x] # <<>> /\ S[y] # <<>> => T[x] # T[y]
      BY <1>8 DEF Tables
    <2>2. CASE x = u  BY <1>2, <1>4, <1>6, <1>8, <2>1, <2>2
    <2>3. CASE y = u  BY <1>2, <1>4, <1>6, <1>8, <2>1, <2>3
    <2>4. CASE x # u /\ y # u  BY <1>6, <2>1, <2>4
    <2> QED  BY <2>2, <2>3, <2>4
  <1>9. Tables(a, T, S2, C2)  BY <1>7, <1>8 DEF Tables
  <1> QED  BY <1>2, <1>9 DEF a, S2, s2

-----------------------------------------------------------------------------
(* HASH_ITER with the deletion of each item                                *)

(* s without its first j items.                                            *)
Suffix(s, j) == [i \in 1 .. Len(s) - j |-> s[i + j]]

(* What is left of a list after its first j items.                         *)
LEMMA SuffixIs ==
    ASSUME NEW s \in Seq(Nat), NEW j \in 0 .. Len(s)
    PROVE  /\ Suffix(s, j) \in Seq(Nat) /\ Len(Suffix(s, j)) = Len(s) - j
           /\ \A i \in Nat \ {0} : Place(Suffix(s, j), i) = Place(s, i + j)
           /\ First(Suffix(s, j)) = Place(s, j + 1)
           /\ Suffix(s, 0) = s
           /\ j = Len(s) => Suffix(s, j) = <<>>
           /\ j # Len(s) => /\ 1 \in 1 .. Len(Suffix(s, j)) /\ Suffix(s, j)[1] = s[j + 1]
                            /\ Without(Suffix(s, j), 1) = Suffix(s, j + 1)
  <1> DEFINE n == Len(s)
             q == Suffix(s, j)
  <1>1. n \in Nat /\ j \in 0 .. n /\ n - j \in Nat  OBVIOUS
  <1>2. \A i \in 1 .. n - j : i + j \in 1 .. n  BY <1>1
  <1>3. q \in Seq(Nat) /\ Len(q) = n - j /\ \A i \in 1 .. n - j : q[i] = s[i + j]
    <2>1. \A i \in 1 .. n - j : q[i] = s[i + j]  BY DEF Suffix
    <2>2. \A i \in 1 .. n - j : q[i] \in Nat  BY <1>2, <2>1
    <2>3. q = [i \in 1 .. n - j |-> q[i]]  BY DEF Suffix
    <2> DEFINE m == n - j
    <2>4. m \in Nat  BY <1>1
    <2>5. q \in Seq(Nat) /\ Len(q) = m
      <3>1. \A i \in 1 .. m : q[i] \in Nat  BY <2>2
      <3>2. q = [i \in 1 .. m |-> q[i]]  BY <2>3
      <3> HIDE DEF q, m
      <3>3. q \in [1 .. m -> Nat]  BY <3>1, <3>2
      <3> QED  BY ONLY <2>4, <3>3
    <2> QED  BY <2>1, <2>5
  <1>4. \A i \in Nat \ {0} : Place(q, i) = Place(s, i + j)
    <2> SUFFICES ASSUME NEW i \in Nat \ {0}  PROVE Place(q, i) = Place(s, i + j)  OBVIOUS
    <2>1. (i <= n - j <=> i + j <= n) /\ (i <= n - j => i \in 1 .. n - j)
      <3> HIDE DEF n
      <3> QED  BY <1>1
    <2> HIDE DEF q
    <2> QED  BY <1>3, <2>1 DEF Place
  <1>5. First(q) = Place(s, j + 1)
    <2>1. First(q) = Place(q, 1)
      <3>1. q = <<>> <=> n - j = 0  BY <1>3
      <3>2. 1 <= n - j <=> n - j # 0
        <4> HIDE DEF n
        <4> QED  BY <1>1
      <3> HIDE DEF q
      <3> QED  BY <1>3, <3>1, <3>2 DEF First, Place
    <2>2. Place(q, 1) = Place(s, 1 + j)  BY <1>4
    <2>3. 1 + j = j + 1  OBVIOUS
    <2> QED  BY <2>1, <2>2, <2>3
  <1>6. Suffix(s, 0) = s
    <2>1. Len(s) - 0 = Len(s) /\ \A i \in 1 .. Len(s) : i + 0 = i  OBVIOUS
    <2>2. Suffix(s, 0) = [i \in 1 .. Len(s) |-> s[i]]  BY <2>1 DEF Suffix
    <2> QED  BY <2>2
  <1>7. j = n => q = <<>>
    <2>1. j = n => Len(q) = 0  BY <1>1, <1>3
    <2> HIDE DEF q
    <2> QED  BY <1>3, <2>1
  <1>8. ASSUME j # n
        PROVE  1 \in 1 .. Len(q) /\ q[1] = s[j + 1] /\ Without(q, 1) = Suffix(s, j + 1)
    <2>1. 1 \in 1 .. n - j /\ 1 + j = j + 1 /\ (n - j) - 1 = n - (j + 1)
      <3> HIDE DEF n
      <3> QED  BY <1>1, <1>8
    <2>2. \A i \in 1 .. n - (j + 1) : ~(i < 1) /\ i + 1 \in 1 .. n - j /\ (i + 1) + j = i + (j + 1)
      <3> HIDE DEF n
      <3> QED  BY <1>1, <1>8
    <2> HIDE DEF q
    <2>3. q[1] = s[1 + j]  BY <1>3, <2>1
    <2>4. Without(q, 1) = [i \in 1 .. n - (j + 1) |-> IF i < 1 THEN q[i] ELSE q[i + 1]]
      BY <1>3, <2>1 DEF Without
    <2>5. \A i \in 1 .. n - (j + 1) : (IF i < 1 THEN q[i] ELSE q[i + 1]) = s[i + (j + 1)]
      <3>1. \A i \in 1 .. n - (j + 1) : q[i + 1] = s[(i + 1) + j]  BY <1>3, <2>2
      <3>2. \A i \in 1 .. n - (j + 1) : (i + 1) + j = i + (j + 1) /\ ~(i < 1)  BY <2>2
      <3> QED  BY <3>1, <3>2
    <2> QED  BY <1>3, <2>1, <2>3, <2>4, <2>5 DEF Suffix
  <1> QED  BY <1>3, <1>4, <1>5, <1>6, <1>7, <1>8

(* The turns of the loop of ITER_DEL.                                      *)
After(v, e) == IF e = NULL THEN NULL ELSE v.hh[e].next
Start(v, u) == [w |-> v, el |-> v.head[u], tmp |-> After(v, v.head[u]), visited |-> <<>>]
Turn(x, u) ==
    IF x.el = NULL \/ ~x.w.ok THEN x
    ELSE [w |-> HASH_DEL(x.w, u, x.el), el |-> x.tmp, tmp |-> After(HASH_DEL(x.w, u, x.el), x.tmp),
          visited |-> Append(x.visited, x.el)]
Turns(v, u, N) ==
    CHOOSE turn : turn = [n \in 0 .. N |-> IF n = 0 THEN Start(v, u) ELSE Turn(turn[n - 1], u)]

(* The turns of HASH_ITER, one by one.                                     *)
LEMMA TurnsAre ==
    ASSUME NEW v, NEW u, NEW N \in Nat
    PROVE  /\ Turns(v, u, N)[0] = Start(v, u)
           /\ \A n \in 1 .. N : Turns(v, u, N)[n] = Turn(Turns(v, u, N)[n - 1], u)
  <1> DEFINE A == Start(v, u)
             F(x) == Turn(x, u)
             Eq(f, M) == f = [n \in 0 .. M |-> IF n = 0 THEN A ELSE F(f[n - 1])]
             K == {M \in Nat : \E f : Eq(f, M)}
  <1> HIDE DEF A, F
  <1>1. 0 \in K
    <2> DEFINE g == [n \in 0 .. 0 |-> A]
    <2>1. \A n \in 0 .. 0 : n = 0  OBVIOUS
    <2>2. Eq(g, 0)  BY <2>1
    <2> QED  BY <2>2
  <1>2. ASSUME NEW M \in K  PROVE M + 1 \in K
    <2>1. M \in Nat /\ M + 1 \in Nat  OBVIOUS
    <2>2. PICK f : Eq(f, M)  OBVIOUS
    <2> DEFINE g == [n \in 0 .. M + 1 |-> IF n = M + 1 THEN F(f[M]) ELSE f[n]]
    <2>3. \A n \in 0 .. M + 1 : n = M + 1 \/ n \in 0 .. M  BY <2>1
    <2>4. \A n \in 0 .. M : n \in 0 .. M + 1 /\ n # M + 1 /\ (n # 0 => n - 1 \in 0 .. M)  BY <2>1
    <2>5. \A n \in 0 .. M : g[n] = f[n]  BY <2>4
    <2>6. \A n \in 0 .. M : f[n] = IF n = 0 THEN A ELSE F(f[n - 1])  BY <2>2
    <2>7. M + 1 \in 0 .. M + 1 /\ M + 1 # 0 /\ (M + 1) - 1 = M /\ M \in 0 .. M  BY <2>1
    <2>8. g[M + 1] = F(f[M])  BY <2>7
    <2>9. \A n \in 0 .. M + 1 : g[n] = IF n = 0 THEN A ELSE F(g[n - 1])
      <3> SUFFICES ASSUME NEW n \in 0 .. M + 1  PROVE g[n] = IF n = 0 THEN A ELSE F(g[n - 1])
        OBVIOUS
      <3> HIDE DEF g
      <3>1. CASE n = M + 1  BY <2>5, <2>7, <2>8, <3>1
      <3>2. CASE n \in 0 .. M
        <4>1. n # 0 => n - 1 \in 0 .. M  BY <2>4, <3>2
        <4> QED  BY <2>5, <2>6, <3>2, <4>1
      <3> QED  BY <2>3, <3>1, <3>2
    <2>10. g = [n \in 0 .. M + 1 |-> g[n]]  OBVIOUS
    <2> HIDE DEF g
    <2>11. Eq(g, M + 1)  BY <2>9, <2>10
    <2> QED  BY <2>1, <2>11
  <1>3. K = Nat
    <2> HIDE DEF Eq
    <2>1. K \in SUBSET Nat  OBVIOUS
    <2> HIDE DEF K
    <2> QED  BY <1>1, <1>2, <2>1, Induct
  <1>4. \E f : Eq(f, N)
    <2> HIDE DEF Eq
    <2> QED  BY <1>3
  <1>5. Eq(Turns(v, u, N), N)  BY <1>4 DEF Turns, A, F
  <1> DEFINE f == Turns(v, u, N)
  <1>6. f = [n \in 0 .. N |-> IF n = 0 THEN A ELSE F(f[n - 1])]  BY <1>5
  <1> HIDE DEF f
  <1>7. 0 \in 0 .. N /\ \A n \in 1 .. N : n \in 0 .. N /\ n # 0  OBVIOUS
  <1>8. \A n \in 0 .. N : f[n] = IF n = 0 THEN A ELSE F(f[n - 1])  BY <1>6
  <1>9. f[0] = A /\ \A n \in 1 .. N : f[n] = F(f[n - 1])  BY <1>7, <1>8
  <1> QED  BY <1>9 DEF f, A, F

(* Before turn j + 1: the first j items are visited and out of the table.  *)
IterAt(x, v, u, T, S, j) ==
    /\ x.w \in Worlds /\ x.w.ok = v.ok /\ DOMAIN x.w.hh = DOMAIN v.hh
    /\ \A e \in DOMAIN v.hh : x.w.hh[e].key = v.hh[e].key
    /\ x.el = Place(S[u], j + 1) /\ x.tmp = Place(S[u], j + 2)
    /\ x.visited = Prefix(S[u], j)
    /\ \E C2 : Tables(x.w, T, Change(S, u, Suffix(S[u], j)), C2)

(* The item behind the first one.                                          *)
LEMMA AfterFirst ==
    ASSUME NEW v \in Worlds, NEW u \in Units, NEW t, NEW s, NEW c, Holds(v, u, t, s, c)
    PROVE  After(v, First(s)) = Place(s, 2) /\ First(s) = Place(s, 1)
  <1>1. s \in Seq(Nat) /\ Linked(s, Nexts(v.hh), Prevs(v.hh)) /\ Len(s) \in Nat
    BY DEF Holds, Linked
  <1>2. CASE s = <<>>
    <2>1. Len(s) = 0 /\ ~(1 <= 0) /\ ~(2 <= 0)  BY <1>2
    <2> QED  BY <1>2, <2>1 DEF First, After, Place
  <1>3. CASE s # <<>>
    <2>1. 1 \in 1 .. Len(s) /\ 1 <= Len(s) /\ (2 <= Len(s) <=> 1 # Len(s)) /\ 1 + 1 = 2
      <3>1. Len(s) \in Nat /\ Len(s) # 0  BY <1>1, <1>3
      <3>2. \A n \in Nat : n # 0 => 1 \in 1 .. n /\ 1 <= n /\ (2 <= n <=> 1 # n) /\ 1 + 1 = 2
        OBVIOUS
      <3> QED  BY <3>1, <3>2
    <2>2. First(s) = s[1]  BY <1>3 DEF First
    <2>3. v.hh[s[1]].next = IF 1 = Len(s) THEN NULL ELSE s[1 + 1]  BY <1>1, <2>1, LinksOf
    <2>4. s[1] # NULL
      <3>1. s[1] \in Nat  BY <1>1, <2>1
      <3> QED  BY <3>1, PrgmAssumption
    <2> QED  BY <2>1, <2>2, <2>3, <2>4 DEF After, Place
  <1> QED  BY <1>2, <1>3

(* Before the first turn of HASH_ITER.                                     *)
LEMMA IterStart ==
    ASSUME NEW v \in Worlds, NEW T, NEW S, NEW C, Tables(v, T, S, C), NEW u \in Units
    PROVE  IterAt(Start(v, u), v, u, T, S, 0)
  <1> DEFINE x == Start(v, u)
  <1>1. Holds(v, u, T[u], S[u], C[u])  BY DEF Tables
  <1>2. S[u] \in Seq(Nat) /\ v.head[u] = First(S[u])  BY <1>1, ItemsIn
  <1>3. After(v, First(S[u])) = Place(S[u], 2) /\ First(S[u]) = Place(S[u], 1)
    BY <1>1, AfterFirst
  <1>4. Suffix(S[u], 0) = S[u]
    <2>1. 0 \in 0 .. Len(S[u])  BY <1>2
    <2> QED  BY <1>2, <2>1, SuffixIs
  <1>5. \A y \in Units : Change(S, u, S[u])[y] = S[y]  BY DEF Change
  <1>6. Tables(v, T, Change(S, u, S[u]), C)
    <2> DEFINE S2 == Change(S, u, S[u])
    <2> HIDE DEF S2
    <2>1. \A y \in Units : S2[y] = S[y]  BY <1>5 DEF S2
    <2>2. Tables(v, T, S2, C)  BY <2>1 DEF Tables
    <2> QED  BY <2>2 DEF S2
  <1>7. x.w = v /\ x.el = v.head[u] /\ x.tmp = After(v, v.head[u]) /\ x.visited = <<>>
    BY DEF Start
  <1>8. Prefix(S[u], 0) = <<>>  BY DEF Prefix
  <1> HIDE DEF x
  <1>9. 0 + 1 = 1 /\ 0 + 2 = 2  OBVIOUS
  <1>10. IterAt(x, v, u, T, S, 0)
    BY <1>2, <1>3, <1>4, <1>6, <1>7, <1>8, <1>9 DEF IterAt
  <1> QED  BY <1>10 DEF x

(* A turn of HASH_ITER deletes the next item.                              *)
LEMMA IterTurn ==
    ASSUME NEW v \in Worlds, v.ok, NEW T, NEW S, NEW C, Tables(v, T, S, C), HashTotal,
           NEW u \in Units, NEW j \in 0 .. Len(S[u]), NEW x, IterAt(x, v, u, T, S, j)
    PROVE  IterAt(Turn(x, u), v, u, T, S, IF j = Len(S[u]) THEN j ELSE j + 1)
  <1> DEFINE s == S[u]
             q == Suffix(s, j)
             W == x.w
             a == HASH_DEL(W, u, x.el)
             S1 == Change(S, u, q)
  <1>0. NULL \notin Nat  BY PrgmAssumption
  <1>1. s \in Seq(Nat) /\ Len(s) \in Nat
    <2>1. Holds(v, u, T[u], s, C[u])  BY DEF Tables
    <2> QED  BY <2>1, ItemsIn
  <1>2. CASE j = Len(s)
    <2>1. ~(j + 1 <= Len(s))  BY <1>1, <1>2
    <2>2. x.el = NULL  BY <2>1 DEF IterAt, Place
    <2>3. Turn(x, u) = x  BY <2>2 DEF Turn
    <2> QED  BY <1>2, <2>3
  <1>3. CASE j # Len(s)
    <2>1. j \in Nat /\ j + 1 \in 1 .. Len(s) /\ j + 1 \in 0 .. Len(s) /\ j + 1 <= Len(s)
      BY <1>1, <1>3
    <2>2. /\ q \in Seq(Nat) /\ 1 \in 1 .. Len(q) /\ q[1] = s[j + 1]
          /\ Without(q, 1) = Suffix(s, j + 1)
      BY <1>1, <1>3, SuffixIs
    <2>3. x.el = s[j + 1] /\ x.el # NULL
      <3>1. x.el = s[j + 1]  BY <2>1 DEF IterAt, Place
      <3>2. s[j + 1] \in Nat  BY <1>1, <2>1
      <3> QED  BY <1>0, <3>1, <3>2
    <2>4. W \in Worlds /\ W.ok  BY DEF IterAt
    <2>5. PICK C1 : Tables(W, T, S1, C1)  BY DEF IterAt
    <2>6. S1[u] = q /\ x.el = S1[u][1] /\ 1 \in 1 .. Len(S1[u])  BY <2>2, <2>3 DEF Change
    <2>7. /\ a \in Worlds /\ Apart(W, a, u, T[u], q)
          /\ \E C2 : Tables(a, T, Change(S1, u, Without(q, 1)), C2)
      <3> HIDE DEF S1, q, W
      <3>1. LET z == HASH_DEL(W, u, S1[u][1])
            IN  /\ z \in Worlds /\ Apart(W, z, u, T[u], S1[u])
                /\ \E C2 : Tables(z, T, Change(S1, u, Without(S1[u], 1)), C2)
        BY <2>4, <2>5, <2>6, DelTables
      <3> QED  BY <2>6, <3>1
    <2>8. Change(S1, u, Without(q, 1)) = Change(S, u, Suffix(s, j + 1))
      <3>1. \A y \in Units : y # u => S1[y] = S[y]  BY DEF Change
      <3> HIDE DEF S1
      <3> QED  BY <2>2, <3>1 DEF Change
    <2>9. PICK C2 : Tables(a, T, Change(S, u, Suffix(s, j + 1)), C2)  BY <2>7, <2>8
    <2>10. Turn(x, u) = [w |-> a, el |-> x.tmp, tmp |-> After(a, x.tmp),
                         visited |-> Append(x.visited, x.el)]
      BY <2>3, <2>4 DEF Turn
    <2>11. x.tmp = Place(s, j + 2) /\ x.visited = Prefix(s, j)  BY DEF IterAt
    <2>12. After(a, x.tmp) = Place(s, j + 3)
      <3> DEFINE q2 == Suffix(s, j + 1)
      <3>1. Holds(a, u, T[u], q2, C2[u])
        <4> DEFINE S2 == Change(S, u, q2)
        <4>1. S2[u] = q2  BY DEF Change
        <4>2. Tables(a, T, S2, C2)  BY <2>9
        <4> HIDE DEF q2, a, S2
        <4> QED  BY <4>1, <4>2 DEF Tables
      <3>2. After(a, First(q2)) = Place(q2, 2) /\ First(q2) = Place(q2, 1)
        <4> HIDE DEF q2, a
        <4> QED  BY <2>7, <3>1, AfterFirst
      <3>3. Place(q2, 2) = Place(s, 2 + (j + 1)) /\ Place(q2, 1) = Place(s, 1 + (j + 1))
        <4> DEFINE j1 == j + 1
        <4>1. j1 \in 0 .. Len(s)  BY <2>1
        <4> HIDE DEF j1
        <4>2. \A i \in Nat \ {0} : Place(Suffix(s, j1), i) = Place(s, i + j1)
          BY <1>1, <4>1, SuffixIs
        <4>3. 1 \in Nat \ {0} /\ 2 \in Nat \ {0}  OBVIOUS
        <4> QED  BY <4>2, <4>3 DEF j1
      <3>4. 2 + (j + 1) = j + 3 /\ 1 + (j + 1) = j + 2  BY <2>1
      <3> HIDE DEF q2, a
      <3> QED  BY <2>11, <3>2, <3>3, <3>4
    <2>13. Append(x.visited, x.el) = Prefix(s, j + 1)
      <3> DEFINE p == Prefix(s, j)
      <3>1. p \in Seq(Nat) /\ Len(p) = j /\ \A i \in 1 .. j : p[i] = s[i]
        <4>1. \A i \in 1 .. j : i \in 1 .. Len(s)  BY <1>1, <2>1
        <4>2. \A i \in 1 .. j : p[i] = s[i] /\ p[i] \in Nat  BY <1>1, <4>1 DEF Prefix
        <4>3. p = [i \in 1 .. j |-> p[i]]  BY DEF Prefix
        <4> HIDE DEF p
        <4> QED  BY <2>1, <4>2, <4>3
      <3> HIDE DEF p
      <3>2. s[j + 1] \in Nat  BY <1>1, <2>1
      <3>3. Append(p, s[j + 1]) = [i \in 1 .. j + 1 |-> IF i = j + 1 THEN s[j + 1] ELSE p[i]]
        BY <2>1, <3>1, <3>2
      <3>4. \A i \in 1 .. j + 1 : (IF i = j + 1 THEN s[j + 1] ELSE p[i]) = s[i]
        <4>1. \A i \in 1 .. j + 1 : i = j + 1 \/ i \in 1 .. j  BY <2>1
        <4> QED  BY <3>1, <4>1
      <3>5. Append(p, s[j + 1]) = Prefix(s, j + 1)  BY <3>3, <3>4 DEF Prefix
      <3> QED  BY <2>3, <2>11, <3>5 DEF p
    <2> DEFINE z == Turn(x, u)
    <2>14. z.w = a /\ z.el = x.tmp /\ z.tmp = After(a, x.tmp) /\ z.visited = Append(x.visited, x.el)
      BY <2>10
    <2>15. a.ok = v.ok /\ DOMAIN a.hh = DOMAIN v.hh
           /\ \A e \in DOMAIN v.hh : a.hh[e].key = v.hh[e].key
      <3>1. W.ok = v.ok /\ DOMAIN W.hh = DOMAIN v.hh
            /\ \A e \in DOMAIN v.hh : W.hh[e].key = v.hh[e].key
        BY DEF IterAt
      <3> HIDE DEF a, W
      <3> QED  BY <2>7, <3>1 DEF Apart
    <2>16. (j + 1) + 1 = j + 2 /\ (j + 1) + 2 = j + 3  BY <2>1
    <2> HIDE DEF z, a
    <2>17. IterAt(z, v, u, T, S, j + 1)
      BY <2>7, <2>9, <2>11, <2>12, <2>13, <2>14, <2>15, <2>16 DEF IterAt
    <2> QED  BY <1>3, <2>17 DEF z
  <1> QED  BY <1>2, <1>3

(* The whole loop: every item is visited, in order, and the table is empty *)
(* afterwards; the table of the other unit is not touched.                 *)
LEMMA IterIs ==
    ASSUME NEW v \in Worlds, v.ok, NEW T, NEW S, NEW C, Tables(v, T, S, C), HashTotal,
           NEW u \in Units
    PROVE  LET i == ITER_DEL(v, u)
           IN  /\ i.w \in Worlds /\ i.w.ok /\ DOMAIN i.w.hh = DOMAIN v.hh
               /\ \A e \in DOMAIN v.hh : i.w.hh[e].key = v.hh[e].key
               /\ i.visited = S[u]
               /\ \E C2 : Tables(i.w, T, Change(S, u, <<>>), C2)
  <1> DEFINE m == Len(S[u])
             N == Len(v.hh) + 1
             f == Turns(v, u, N)
             At(n) == IF n <= m THEN n ELSE m
             K == {n \in Nat : n <= N => IterAt(f[n], v, u, T, S, At(n))}
  <1>0. NULL \notin Nat  BY PrgmAssumption
  <1>1. S[u] \in Seq(Nat) /\ m \in Nat /\ N \in Nat /\ m <= N
    <2>1. Linked(S[u], Nexts(v.hh), Prevs(v.hh))  BY DEF Tables, Holds
    <2>2. S[u] \in Seq(Nat) /\ m <= Len(v.hh) /\ Len(v.hh) \in Nat  BY <2>1, LinksOf
    <2> QED  BY <2>2
  <1>2. f[0] = Start(v, u) /\ \A n \in 1 .. N : f[n] = Turn(f[n - 1], u)  BY <1>1, TurnsAre
  <1>3. ITER_DEL(v, u) = IF f[N].el = NULL THEN f[N] ELSE [f[N] EXCEPT !.w.ok = FALSE]
    BY DEF ITER_DEL, Turns, Turn, Start, After
  <1> HIDE DEF f, N, m
  <1>4. 0 \in K
    <2>1. At(0) = 0  BY <1>1
    <2> QED  BY <1>2, <2>1, IterStart
  <1>5. ASSUME NEW n \in K  PROVE n + 1 \in K
    <2>1. n \in Nat /\ n + 1 \in Nat  OBVIOUS
    <2> SUFFICES ASSUME n + 1 <= N  PROVE IterAt(f[n + 1], v, u, T, S, At(n + 1))
      BY <2>1
    <2>2. n <= N /\ n + 1 \in 1 .. N /\ (n + 1) - 1 = n  BY <1>1, <2>1
    <2>3. IterAt(f[n], v, u, T, S, At(n))  BY <2>2
    <2>4. At(n) \in 0 .. m /\ (IF At(n) = m THEN At(n) ELSE At(n) + 1) = At(n + 1)
      BY <1>1, <2>1
    <2>5. f[n + 1] = Turn(f[n], u)  BY <1>2, <2>2
    <2> HIDE DEF At
    <2>6. IterAt(Turn(f[n], u), v, u, T, S, IF At(n) = m THEN At(n) ELSE At(n) + 1)
      BY <2>3, <2>4, IterTurn DEF m
    <2> QED  BY <2>4, <2>5, <2>6
  <1>6. K = Nat
    <2>1. K \in SUBSET Nat  OBVIOUS
    <2> HIDE DEF K
    <2> QED  BY <1>4, <1>5, <2>1, Induct
  <1>7. IterAt(f[N], v, u, T, S, m)
    <2>1. N \in K /\ N <= N  BY <1>1, <1>6
    <2>2. At(N) = m  BY <1>1
    <2> QED  BY <2>1, <2>2
  <1>8. f[N].el = NULL
    <2>1. ~(m + 1 <= m)  BY <1>1
    <2> QED  BY <1>7, <2>1 DEF IterAt, Place, m
  <1>9. Suffix(S[u], m) = <<>> /\ Prefix(S[u], m) = S[u]
    <2>1. m \in 0 .. m  BY <1>1
    <2> QED  BY <1>1, <2>1, SuffixIs DEF Prefix, m
  <1>10. ITER_DEL(v, u) = f[N]  BY <1>3, <1>8
  <1> QED  BY <1>7, <1>9, <1>10 DEF IterAt

-----------------------------------------------------------------------------
(* What the calls of a program do to its tables                            *)

(* A new prgm_stim, in no table yet.                                       *)
Fresh(v) == [v EXCEPT !.hh = Append(@, NewHandle)]

(* A new prgm_stim is in no table and changes none.                        *)
LEMMA FreshIs ==
    ASSUME NEW v \in Worlds, NEW T, NEW S, NEW C, Tables(v, T, S, C)
    PROVE  /\ Fresh(v) \in Worlds /\ Fresh(v).ok = v.ok
           /\ Fresh(v).head = v.head
           /\ Len(Fresh(v).hh) = Len(v.hh) + 1 /\ Fresh(v).hh[Len(v.hh) + 1].live
           /\ DOMAIN Fresh(v).hh = 1 .. Len(v.hh) + 1
           /\ \A x \in DOMAIN v.hh : Fresh(v).hh[x].key = v.hh[x].key
           /\ Tables(Fresh(v), T, S, C)
           /\ \A u \in Units : Len(v.hh) + 1 \notin ElementsOf(S[u])
  <1> DEFINE a == Fresh(v)
             h == Append(v.hh, NewHandle)
             n == Len(v.hh)
  <1>0. NULL \notin Nat  BY PrgmAssumption
  <1>1. NewHandle \in Handles /\ NewHandle.live  BY DEF NewHandle, Handles, Ptr
  <1>2. v.hh \in Seq(Handles) /\ n \in Nat /\ DOMAIN v.hh = 1 .. n  BY DEF Worlds
  <1>3. h \in Seq(Handles) /\ Len(h) = n + 1 /\ h[n + 1] = NewHandle /\ DOMAIN h = 1 .. n + 1
        /\ \A x \in 1 .. n : h[x] = v.hh[x]
    BY <1>1, <1>2
  <1>4. a = [v EXCEPT !.hh = h]  BY DEF Fresh
  <1> HIDE DEF a, h
  <1>5. a \in Worlds /\ a.ok = v.ok /\ a.head = v.head /\ a.tbl = v.tbl /\ a.hh = h
    BY <1>3, <1>4 DEF Worlds
  <1>6. ASSUME NEW u \in Units
        PROVE  n + 1 \notin ElementsOf(S[u]) /\ Unmoved(v.hh, a.hh, ElementsOf(S[u]))
    <2>1. \A x \in ElementsOf(S[u]) : x \in DOMAIN v.hh
      <3>1. Holds(v, u, T[u], S[u], C[u])  BY DEF Tables
      <3> QED  BY <3>1, ItemsIn
    <2>2. n + 1 \notin 1 .. n
      <3> HIDE DEF n
      <3> QED  BY <1>2
    <2> QED  BY <1>2, <1>3, <1>5, <2>1, <2>2 DEF Unmoved
  <1>7. DOMAIN v.hh \subseteq DOMAIN a.hh
    <2> HIDE DEF n
    <2> QED  BY <1>2, <1>3, <1>5
  <1>8. Tables(a, T, S, C)  BY <1>5, <1>6, <1>7, TablesFrame
  <1>9. \A x \in DOMAIN v.hh : a.hh[x].key = v.hh[x].key  BY <1>2, <1>3, <1>5
  <1>10. Len(a.hh) = n + 1 /\ a.hh[n + 1].live /\ DOMAIN a.hh = 1 .. n + 1  BY <1>1, <1>3, <1>5
  <1> QED  BY <1>5, <1>6, <1>8, <1>9, <1>10 DEF a

(* What run and unload find in a table.                                    *)
LEMMA FindOf ==
    ASSUME NEW v \in Worlds, NEW T, NEW S, NEW C, Tables(v, T, S, C), HashTotal,
           NEW u \in Units, NEW k \in Nat
    PROVE  /\ FindDefined(v, v.head[u], k)
           /\ \A e \in ElementsOf(S[u]) : v.hh[e].key = k <=> HASH_FIND(v, v.head[u], k) = e
           /\ HASH_FIND(v, v.head[u], k) = NULL \/ HASH_FIND(v, v.head[u], k) \in ElementsOf(S[u])
           /\ (\A e \in ElementsOf(S[u]) : v.hh[e].key # k) <=> HASH_FIND(v, v.head[u], k) = NULL
  <1> DEFINE f == HASH_FIND(v, v.head[u], k)
  <1>1. Holds(v, u, T[u], S[u], C[u])  BY DEF Tables
  <1>2. /\ FindDefined(v, v.head[u], k)
        /\ \A e \in ElementsOf(S[u]) : v.hh[e].key = k => f = e
        /\ (\A e \in ElementsOf(S[u]) : v.hh[e].key # k) => f = NULL
    BY <1>1, FindIs
  <1>3. /\ \A x \in ElementsOf(S[u]) : x # NULL
        /\ \A x, y \in ElementsOf(S[u]) : v.hh[x].key = v.hh[y].key => x = y
    BY <1>1, ItemsIn
  <1> HIDE DEF f
  <1>4. CASE \E e \in ElementsOf(S[u]) : v.hh[e].key = k  BY <1>2, <1>3, <1>4 DEF f
  <1>5. CASE \A e \in ElementsOf(S[u]) : v.hh[e].key # k  BY <1>2, <1>3, <1>5 DEF f
  <1> QED  BY <1>4, <1>5

(* An attempt to enter the new prgm_stim at address k of unit u.           *)
LEMMA TryAddIs ==
    ASSUME NEW v \in Worlds, v.ok, NEW T, NEW S, NEW C, Tables(v, T, S, C), HashTotal,
           NEW u \in Units, NEW k \in Nat
    PROVE  LET p == Len(v.hh) + 1
               r == TryAdd([w |-> Fresh(v), refused |-> FALSE], u, k, p)
           IN  /\ r.w \in Worlds /\ r.w.ok /\ r.refused \in BOOLEAN
               /\ DOMAIN r.w.hh = 1 .. p
               /\ \A x \in DOMAIN v.hh : r.w.hh[x].key = v.hh[x].key
               /\ r.refused => /\ \E e \in ElementsOf(S[u]) : v.hh[e].key = k
                               /\ Tables(r.w, T, S, C)
               /\ ~r.refused => /\ \A e \in ElementsOf(S[u]) : v.hh[e].key # k
                                /\ r.w.hh[p].key = k
                                /\ ElementsOf(Append(S[u], p)) = ElementsOf(S[u]) \cup {p}
                                /\ \E T2, C2 : Tables(r.w, T2, Change(S, u, Append(S[u], p)), C2)
  <1> DEFINE p  == Len(v.hh) + 1
             a  == Fresh(v)
             r0 == [w |-> a, refused |-> FALSE]
             r  == TryAdd(r0, u, k, p)
             f  == HASH_FIND(a, a.head[u], k)
  <1>1. /\ a \in Worlds /\ a.ok /\ a.head = v.head
        /\ Len(a.hh) = p /\ a.hh[p].live /\ DOMAIN a.hh = 1 .. p
        /\ \A x \in DOMAIN v.hh : a.hh[x].key = v.hh[x].key
        /\ Tables(a, T, S, C)
        /\ \A x \in Units : p \notin ElementsOf(S[x])
    BY FreshIs
  <1>2. p \in 1 .. p /\ p \in Nat /\ \A x \in DOMAIN v.hh : x # p
    <2>1. DOMAIN v.hh = 1 .. Len(v.hh) /\ Len(v.hh) \in Nat  BY LinksOf
    <2> QED  BY <2>1
  <1> HIDE DEF a, p
  <1>3. \A e \in ElementsOf(S[u]) : e \in DOMAIN v.hh
    <2>1. Holds(v, u, T[u], S[u], C[u])  BY DEF Tables
    <2> QED  BY <2>1, ItemsIn
  <1>4. /\ FindDefined(a, a.head[u], k)
        /\ (\A e \in ElementsOf(S[u]) : a.hh[e].key # k) <=> f = NULL
    BY <1>1, FindOf
  <1>5. (\A e \in ElementsOf(S[u]) : v.hh[e].key # k) <=> f = NULL  BY <1>1, <1>3, <1>4
  <1>6. r0.w = a /\ ~r0.refused  OBVIOUS
  <1>7. CASE f # NULL
    <2>1. r = [r0 EXCEPT !.refused = TRUE]  BY <1>1, <1>4, <1>6, <1>7 DEF TryAdd
    <2>2. r.w = a /\ r.refused  BY <2>1
    <2> HIDE DEF r
    <2> QED  BY <1>1, <1>5, <1>7, <2>2 DEF r, a, p
  <1>8. CASE f = NULL
    <2> DEFINE b == HASH_ADD(a, u, k, p)
    <2>1. r = [r0 EXCEPT !.w = b]  BY <1>1, <1>4, <1>6, <1>8 DEF TryAdd
    <2>2. r.w = b /\ r.refused = FALSE  BY <2>1
    <2>3. \A e \in ElementsOf(S[u]) : a.hh[e].key # k  BY <1>4, <1>8
    <2>4. /\ b \in Worlds /\ b.ok = a.ok /\ DOMAIN b.hh = DOMAIN a.hh
          /\ \A x \in DOMAIN a.hh : b.hh[x].key = IF x = p THEN k ELSE a.hh[x].key
          /\ ElementsOf(Append(S[u], p)) = ElementsOf(S[u]) \cup {p}
          /\ Tables(b, Change(T, u, TableFor(a, T[u], S[u])), Change(S, u, Append(S[u], p)),
                    Change(C, u, BktsWith(C[u], HashBkt(k), p)))
      <3>1. p \in DOMAIN a.hh  BY <1>1, <1>2
      <3>2. a \in Worlds  BY <1>1
      <3>3. Tables(a, T, S, C)  BY <1>1
      <3>4. a.hh[p].live  BY <1>1
      <3>5. \A x \in Units : p \notin ElementsOf(S[x])  BY <1>1
      <3> HIDE DEF r, f, r0
      <3> QED  BY <2>3, <3>1, <3>2, <3>3, <3>4, <3>5, AddTables
    <2> HIDE DEF r, b
    <2>5. \E T2, C2 : Tables(r.w, T2, Change(S, u, Append(S[u], p)), C2)  BY <2>2, <2>4
    <2>6. \A x \in DOMAIN v.hh : r.w.hh[x].key = v.hh[x].key
      <3>1. \A x \in DOMAIN v.hh : x \in DOMAIN a.hh
        <4>1. DOMAIN v.hh = 1 .. Len(v.hh) /\ Len(v.hh) \in Nat /\ p = Len(v.hh) + 1
          BY LinksOf DEF p
        <4> QED  BY <1>1, <4>1
      <3> QED  BY <1>1, <1>2, <2>2, <2>4, <3>1
    <2>7. r.w \in Worlds /\ r.w.ok /\ DOMAIN r.w.hh = 1 .. p /\ r.w.hh[p].key = k
      BY <1>1, <1>2, <2>2, <2>4
    <2>8. ElementsOf(Append(S[u], p)) = ElementsOf(S[u]) \cup {p}  BY <2>4
    <2>9. \A e \in ElementsOf(S[u]) : v.hh[e].key # k  BY <1>5, <1>8
    <2>10. r.refused = FALSE  BY <2>2
    <2> QED  BY <2>5, <2>6, <2>7, <2>8, <2>9, <2>10 DEF r, a, p
  <1> QED  BY <1>7, <1>8

(* The world after the prgm_stims ps are freed.                            *)
Freed(v, ps) == [v EXCEPT !.hh = [e \in DOMAIN @ |-> IF e \in ps THEN FreedHandle ELSE @[e]]]

NoneIn(ps, S) == \A u \in Units : ps \cap ElementsOf(S[u]) = {}

AfterFree(a, v, T, S, C) ==
    /\ a \in Worlds /\ a.ok = v.ok /\ a.head = v.head
    /\ DOMAIN a.hh = DOMAIN v.hh
    /\ \A u \in Units : \A x \in ElementsOf(S[u]) : a.hh[x].key = v.hh[x].key
    /\ Tables(a, T, S, C)

(* Freeing what is in no table changes no table.                           *)
LEMMA FreedIs ==
    ASSUME NEW v \in Worlds, NEW T, NEW S, NEW C, Tables(v, T, S, C), NEW ps, NoneIn(ps, S)
    PROVE  AfterFree(Freed(v, ps), v, T, S, C)
  <1> DEFINE a == Freed(v, ps)
             h == [e \in DOMAIN v.hh |-> IF e \in ps THEN FreedHandle ELSE v.hh[e]]
  <1>1. FreedHandle \in Handles
    <2>1. NewHandle \in Handles  BY DEF NewHandle, Handles, Ptr
    <2> QED  BY <2>1 DEF FreedHandle, Handles
  <1>2. v.hh \in Seq(Handles) /\ DOMAIN v.hh = 1 .. Len(v.hh) /\ Len(v.hh) \in Nat  BY DEF Worlds
  <1>3. DOMAIN h = DOMAIN v.hh /\ \A e \in DOMAIN v.hh : e \notin ps => h[e] = v.hh[e]  OBVIOUS
  <1>4. h \in Seq(Handles)
    <2>1. \A e \in DOMAIN v.hh : h[e] \in Handles  BY <1>1, <1>2
    <2> DEFINE n == Len(v.hh)
    <2>2. h \in [1 .. n -> Handles]  BY <1>2, <2>1
    <2>3. n \in Nat  BY <1>2
    <2> HIDE DEF h, n
    <2> QED  BY ONLY <2>2, <2>3
  <1>5. a = [v EXCEPT !.hh = h]  BY DEF Freed
  <1> HIDE DEF a, h
  <1>6. a \in Worlds /\ a.ok = v.ok /\ a.head = v.head /\ a.tbl = v.tbl /\ a.hh = h
    BY <1>4, <1>5 DEF Worlds
  <1>7. ASSUME NEW u \in Units  PROVE Unmoved(v.hh, a.hh, ElementsOf(S[u]))
    <2>1. \A x \in ElementsOf(S[u]) : x \in DOMAIN v.hh
      <3>1. Holds(v, u, T[u], S[u], C[u])  BY DEF Tables
      <3> QED  BY <3>1, ItemsIn
    <2>2. \A x \in ElementsOf(S[u]) : a.hh[x] = v.hh[x]  BY <1>3, <1>6, <2>1 DEF NoneIn
    <2> QED  BY <2>2 DEF Unmoved
  <1>8. Tables(a, T, S, C)  BY <1>3, <1>6, <1>7, TablesFrame
  <1>9. \A u \in Units : \A x \in ElementsOf(S[u]) : a.hh[x].key = v.hh[x].key
    BY <1>7 DEF Unmoved
  <1>10. AfterFree(a, v, T, S, C)  BY <1>3, <1>6, <1>8, <1>9 DEF AfterFree
  <1> QED  BY <1>10 DEF a

(* r is what unload has reached: of the tables S, with the keys of v, it   *)
(* has taken the items at addr of the units us, and S2 is left.            *)
Unloaded(r, v, T, S, addr, us, S2) ==
    /\ r.w \in Worlds /\ r.w.ok /\ r.missing \in BOOLEAN
    /\ DOMAIN r.w.hh = DOMAIN v.hh /\ \A x \in DOMAIN v.hh : r.w.hh[x].key = v.hh[x].key
    /\ \E C2 : Tables(r.w, T, S2, C2)
    /\ r.count \in [Units -> Nat] /\ \A u \in Units : r.count[u] = Len(S2[u])
    /\ us \subseteq Units
    /\ \A u \in us : addr[u] \in Nat /\ \E e \in ElementsOf(S[u]) : v.hh[e].key = addr[u]
    /\ \A u \in Units : ElementsOf(S2[u]) = {e \in ElementsOf(S[u]) : u \in us => v.hh[e].key # addr[u]}
    /\ \A u \in Units : r.found \cap ElementsOf(S2[u]) = {}
    /\ r.found \subseteq DOMAIN v.hh

UnloadRecords(v) == [w : Worlds, missing : BOOLEAN, found : SUBSET (DOMAIN v.hh), count : [Units -> Nat]]
HasUnloaded(r, v, T, S, addr, within) ==
    \E us, S2 : us \subseteq within /\ Unloaded(r, v, T, S, addr, us, S2)

(* One turn of unload: nothing, or the item at the address goes.           *)
LEMMA TryDelIs ==
    ASSUME NEW r, NEW v \in Worlds, NEW T, NEW S, NEW addr, NEW us, NEW S2,
           Unloaded(r, v, T, S, addr, us, S2), HashTotal,
           r \in UnloadRecords(v), NEW u \in Units, u \notin us, addr[u] \in Nat \cup {NULL}
    PROVE  /\ TryDel(r, u, addr[u]) \in UnloadRecords(v)
           /\ HasUnloaded(TryDel(r, u, addr[u]), v, T, S, addr, us \cup {u})
  <1> DEFINE k  == addr[u]
             r2 == TryDel(r, u, k)
             e  == HASH_FIND(r.w, r.w.head[u], k)
  <1>0. NULL \notin Nat  BY PrgmAssumption
  <1>1. PICK C2 : Tables(r.w, T, S2, C2)  BY DEF Unloaded
  <1>2. /\ r.w \in Worlds /\ r.w.ok /\ r.missing \in BOOLEAN
        /\ DOMAIN r.w.hh = DOMAIN v.hh /\ \A x \in DOMAIN v.hh : r.w.hh[x].key = v.hh[x].key
        /\ r.count \in [Units -> Nat] /\ \A x \in Units : r.count[x] = Len(S2[x])
        /\ us \subseteq Units /\ r.found \subseteq DOMAIN v.hh
        /\ \A x \in us : addr[x] \in Nat /\ \E y \in ElementsOf(S[x]) : v.hh[y].key = addr[x]
        /\ \A x \in Units :
              ElementsOf(S2[x]) = {y \in ElementsOf(S[x]) : x \in us => v.hh[y].key # addr[x]}
        /\ \A x \in Units : r.found \cap ElementsOf(S2[x]) = {}
    BY DEF Unloaded
  <1>3. CASE k = NULL \/ r.missing
    <2>1. r2 = r  BY <1>3 DEF TryDel
    <2> HIDE DEF r2
    <2>2. us \subseteq us \cup {u}  OBVIOUS
    <2> QED  BY <2>1, <2>2 DEF r2, HasUnloaded
  <1>4. CASE k # NULL /\ ~r.missing
    <2>1. k \in Nat  BY <1>4
    <2>2. /\ FindDefined(r.w, r.w.head[u], k)
          /\ \A x \in ElementsOf(S2[u]) : r.w.hh[x].key = k <=> e = x
          /\ e = NULL \/ e \in ElementsOf(S2[u])
      BY <1>1, <1>2, <2>1, FindOf
    <2>3. CASE e = NULL
      <3>1. r2 = [r EXCEPT !.missing = TRUE]  BY <1>2, <1>4, <2>2, <2>3 DEF TryDel
      <3> HIDE DEF r2
      <3>2. r2.w = r.w /\ r2.missing = TRUE /\ r2.found = r.found /\ r2.count = r.count
            /\ r2 \in UnloadRecords(v)
        BY <3>1 DEF UnloadRecords
      <3>3. Unloaded(r2, v, T, S, addr, us, S2)  BY <1>2, <3>2, ZenonT(60) DEF Unloaded
      <3>4. us \subseteq us \cup {u}  OBVIOUS
      <3> QED  BY <3>2, <3>3, <3>4 DEF r2, HasUnloaded
    <2>4. CASE e # NULL
      <3> DEFINE s  == S2[u]
                 a  == HASH_DEL(r.w, u, e)
                 us2 == us \cup {u}
      <3>1. e \in ElementsOf(s)  BY <2>2, <2>4
      <3>2. r2 = [r EXCEPT !.w = a, !.found = @ \cup {e}, !.count[u] = @ - 1]
        BY <1>2, <1>4, <2>2, <2>4 DEF TryDel
      <3>3. s \in Seq(Nat) /\ \A x \in ElementsOf(s) : x \in DOMAIN v.hh
        <4>1. Holds(r.w, u, T[u], s, C2[u])  BY <1>1 DEF Tables
        <4> QED  BY <1>2, <4>1, ItemsIn
      <3> HIDE DEF e
      <3>4. PICK j \in 1 .. Len(s) : s[j] = e  BY <3>1, <3>3, InElements
      <3> DEFINE s3 == Without(s, j)
                 S3 == Change(S2, u, s3)
      <3>5. /\ a \in Worlds /\ Apart(r.w, a, u, T[u], s)
            /\ ElementsOf(s3) = ElementsOf(s) \ {e}
            /\ Len(s3) = Len(s) - 1
            /\ \E C3 : Tables(a, T, S3, C3)
        <4> HIDE DEF r2
        <4>1. j \in 1 .. Len(S2[u])  OBVIOUS
        <4>2. r.w \in Worlds  BY <1>2
        <4> DEFINE b == HASH_DEL(r.w, u, S2[u][j])
        <4>3. /\ b \in Worlds /\ Apart(r.w, b, u, T[u], S2[u])
              /\ ElementsOf(Without(S2[u], j)) = ElementsOf(S2[u]) \ {S2[u][j]}
              /\ Len(Without(S2[u], j)) = Len(S2[u]) - 1
              /\ \E C3 : Tables(b, T, Change(S2, u, Without(S2[u], j)), C3)
          BY <1>1, <4>1, <4>2, DelTables
        <4>4. b = a  BY <3>4
        <4> HIDE DEF b
        <4> QED  BY <3>4, <4>3, <4>4
      <3> HIDE DEF a, s3, r2, s
      <3>6. S3[u] = s3 /\ \A x \in Units : x # u => S3[x] = S2[x]  BY DEF Change
      <3> HIDE DEF S3
      <3>7. a.ok /\ DOMAIN a.hh = DOMAIN v.hh /\ \A x \in DOMAIN v.hh : a.hh[x].key = v.hh[x].key
        BY <1>2, <3>5 DEF Apart
      <3>8. Len(s) \in Nat /\ Len(s) = r.count[u] /\ Len(s) - 1 \in Nat
        BY <1>2, <3>3, <3>4 DEF s
      <3> DEFINE cn == [r.count EXCEPT ![u] = @ - 1]
      <3>9. cn \in [Units -> Nat] /\ \A x \in Units : cn[x] = Len(S3[x])
        BY <1>2, <3>5, <3>6, <3>8
      <3>10. r2 = [r EXCEPT !.w = a, !.found = r.found \cup {e}, !.count = cn]
        BY <3>2
      <3> HIDE DEF cn
      <3>11. r2.w = a /\ r2.missing = r.missing /\ r2.found = r.found \cup {e} /\ r2.count = cn
             /\ r2 \in UnloadRecords(v)
        BY <3>1, <3>3, <3>5, <3>9, <3>10 DEF UnloadRecords
      <3>12. ElementsOf(S2[u]) = ElementsOf(S[u])
        <4>1. ElementsOf(S2[u]) = {y \in ElementsOf(S[u]) : u \in us => v.hh[y].key # addr[u]}
          BY <1>2
        <4> QED  BY <4>1
      <3>13. \A x \in ElementsOf(S[u]) : x # e <=> v.hh[x].key # k
        <4>1. \A x \in ElementsOf(S2[u]) : v.hh[x].key = k <=> e = x  BY <1>2, <2>2, <3>3 DEF s
        <4> QED  BY <3>12, <4>1
      <3>14. ASSUME NEW x \in Units
             PROVE  ElementsOf(S3[x]) = {y \in ElementsOf(S[x]) : x \in us2 => v.hh[y].key # addr[x]}
        <4>1. CASE x = u  BY <3>5, <3>6, <3>12, <3>13, <4>1 DEF s
        <4>2. CASE x # u  BY <1>2, <3>6, <4>2
        <4> QED  BY <4>1, <4>2
      <3>15. ASSUME NEW x \in Units  PROVE r2.found \cap ElementsOf(S3[x]) = {}
        <4>1. CASE x = u  BY <1>2, <3>5, <3>6, <3>11, <4>1 DEF s
        <4>2. CASE x # u
          <5>1. ElementsOf(S2[u]) \cap ElementsOf(S2[x]) = {}  BY <1>1, <4>2 DEF Tables
          <5> QED  BY <1>2, <3>1, <3>6, <3>11, <4>2, <5>1 DEF s
        <4> QED  BY <4>1, <4>2
      <3>16. \A x \in us2 : addr[x] \in Nat /\ \E y \in ElementsOf(S[x]) : v.hh[y].key = addr[x]
        BY <1>2, <2>1, <3>1, <3>12, <3>13 DEF s
      <3>17. Unloaded(r2, v, T, S, addr, us2, S3)
        <4> HIDE DEF us2
        <4>1. us2 \subseteq Units  BY <1>2 DEF us2
        <4>2. r2.found \subseteq DOMAIN v.hh  BY <1>2, <3>1, <3>3, <3>11
        <4> QED  BY <1>2, <3>5, <3>7, <3>9, <3>11, <3>14, <3>15, <3>16, <4>1, <4>2 DEF Unloaded
      <3> QED  BY <3>11, <3>17 DEF r2, HasUnloaded
    <2> QED  BY <2>3, <2>4
  <1> QED  BY <1>3, <1>4

-----------------------------------------------------------------------------
(* What the tables say about the stims, the counters and tester memory     *)

StimRecords     == [mode : Modes, size : Sizes, profile : Nat, live : BOOLEAN]
Hows            == {"load", "loads", "loada"}
PrgmStimRecords == [addr : [Units -> Nat], stim : Nat, how : Hows]

(* The tester memory of prgm_stim e in unit u lies below the place for the *)
(* next sequential stim, and what was loaded over it came by loada.        *)
Kept(ps, st, cur, res, u, e) ==
    LET a == ps[e].addr[u]
        n == st[ps[e].stim].size
    IN  /\ a + n <= cur[u]
        /\ \A b \in (a .. a + n - 1) \cap (0 .. MaxAddr) :
              res[u][b] = e \/ (res[u][b] \in DOMAIN ps /\ ps[res[u][b]].how = "loada")

(* An item e of the table of unit u, with the handles of world v.          *)
Entry(v, ps, st, cur, res, u, e) ==
    /\ st[ps[e].stim].mode = u
    /\ v.hh[e].key = ps[e].addr[u]
    /\ ps[e].how # "loada" => Kept(ps, st, cur, res, u, e)

(* The prgm_stims and stims refer to each other's numbers.                 *)
Objects(v, ps, st) ==
    /\ v \in Worlds /\ DOMAIN v.hh = DOMAIN ps
    /\ ps \in Seq(PrgmStimRecords) /\ st \in Seq(StimRecords)
    /\ \A e \in DOMAIN ps : ps[e].stim \in DOMAIN st

(* The tables are S, and counters, addresses and memory agree with them.   *)
Store(v, ps, st, num, cur, res, T, S, C) ==
    /\ v.ok /\ Tables(v, T, S, C)
    /\ \A u \in Units : num[u] = Len(S[u])
    /\ \A u \in Units : \A e \in ElementsOf(S[u]) : Entry(v, ps, st, cur, res, u, e)

(* More prgm_stims; the stims keep mode and size, and more of them.        *)
MorePrgmStims(ps, ps2) == DOMAIN ps \subseteq DOMAIN ps2 /\ \A e \in DOMAIN ps : ps2[e] = ps[e]
MoreStims(st, st2) ==
    /\ DOMAIN st \subseteq DOMAIN st2
    /\ \A s \in DOMAIN st : st2[s].mode = st[s].mode /\ st2[s].size = st[s].size

(* Tester memory of unit u was written behind cur, or by loada.            *)
Written(res, res2, ps2, cur, u) ==
    \A b \in 0 .. MaxAddr :
        \/ res2[u][b] = res[u][b]
        \/ b >= cur[u]
        \/ res2[u][b] \in DOMAIN ps2 /\ ps2[res2[u][b]].how = "loada"

(* An item keeps agreeing with the stims and with tester memory.           *)
LEMMA EntryFrame ==
    ASSUME NEW v, NEW v2, NEW ps, NEW ps2, NEW st, NEW st2, Objects(v, ps, st),
           NEW cur \in [Units -> Nat], NEW cur2 \in [Units -> Nat], NEW res, NEW res2,
           NEW u \in Units, NEW e \in DOMAIN ps, Entry(v, ps, st, cur, res, u, e),
           MorePrgmStims(ps, ps2), MoreStims(st, st2), v2.hh[e].key = v.hh[e].key,
           cur[u] <= cur2[u], Written(res, res2, ps2, cur, u)
    PROVE  Entry(v2, ps2, st2, cur2, res2, u, e)
  <1> DEFINE a == ps[e].addr[u]
             n == st[ps[e].stim].size
  <1>1. ps[e] \in PrgmStimRecords /\ ps[e].stim \in DOMAIN st /\ st[ps[e].stim] \in StimRecords
    BY DEF Objects
  <1>2. a \in Nat /\ n \in Nat
    <2>1. Sizes \subseteq Nat  BY PrgmAssumption
    <2> QED  BY <1>1, <2>1 DEF PrgmStimRecords, StimRecords
  <1>3. ps2[e] = ps[e] /\ e \in DOMAIN ps2  BY DEF MorePrgmStims
  <1>4. st2[ps[e].stim].mode = st[ps[e].stim].mode /\ st2[ps[e].stim].size = n
    BY <1>1 DEF MoreStims
  <1>5. st2[ps2[e].stim].mode = u /\ v2.hh[e].key = ps2[e].addr[u]
    BY <1>3, <1>4 DEF Entry
  <1>6. ASSUME ps2[e].how # "loada"
        PROVE  Kept(ps2, st2, cur2, res2, u, e)
    <2>1. Kept(ps, st, cur, res, u, e)  BY <1>3, <1>6 DEF Entry
    <2>2. /\ a + n <= cur[u]
          /\ \A b \in (a .. a + n - 1) \cap (0 .. MaxAddr) :
                res[u][b] = e \/ (res[u][b] \in DOMAIN ps /\ ps[res[u][b]].how = "loada")
      BY <2>1 DEF Kept
    <2>3. ps2[e].addr[u] = a /\ st2[ps2[e].stim].size = n  BY <1>3, <1>4
    <2> HIDE DEF a, n
    <2>4. cur[u] \in Nat /\ cur2[u] \in Nat  OBVIOUS
    <2>5. a + n <= cur2[u]  BY <1>2, <2>2, <2>4
    <2>6. ASSUME NEW b \in (a .. a + n - 1) \cap (0 .. MaxAddr)
          PROVE  res2[u][b] = e \/ (res2[u][b] \in DOMAIN ps2 /\ ps2[res2[u][b]].how = "loada")
      <3>1. ~(b >= cur[u])  BY <1>2, <2>2, <2>4
      <3>2. \/ res2[u][b] = res[u][b]
            \/ res2[u][b] \in DOMAIN ps2 /\ ps2[res2[u][b]].how = "loada"
        BY <3>1 DEF Written
      <3>3. res[u][b] = e \/ (res[u][b] \in DOMAIN ps2 /\ ps2[res[u][b]].how = "loada")
        BY <2>2 DEF MorePrgmStims
      <3> QED  BY <3>2, <3>3
    <2> QED  BY <2>3, <2>5, <2>6 DEF Kept
  <1> QED  BY <1>5, <1>6 DEF Entry

(* The items are prgm_stims of the program.                                *)
LEMMA ItemsOf ==
    ASSUME NEW v, NEW ps, NEW st, Objects(v, ps, st), NEW T, NEW S, NEW C, Tables(v, T, S, C),
           NEW u \in Units
    PROVE  /\ v.head[u] = First(S[u]) /\ S[u] \in Seq(Nat)
           /\ v.head[u] \in DOMAIN ps \cup {NULL}
           /\ \A e \in ElementsOf(S[u]) :
                 e \in DOMAIN ps /\ e # NULL /\ v.hh[e].live /\ v.hh[e].key \in Nat
           /\ \A e, f \in ElementsOf(S[u]) : v.hh[e].key = v.hh[f].key => e = f
  <1>1. Holds(v, u, T[u], S[u], C[u])  BY DEF Tables
  <1>2. v \in Worlds /\ DOMAIN v.hh = DOMAIN ps  BY DEF Objects
  <1>3. /\ S[u] \in Seq(Nat) /\ v.head[u] = First(S[u])
        /\ \A x \in ElementsOf(S[u]) : x \in DOMAIN v.hh /\ x # NULL /\ v.hh[x].live
                                       /\ v.hh[x].key \in Nat
        /\ First(S[u]) = NULL \/ First(S[u]) \in ElementsOf(S[u])
        /\ \A x, y \in ElementsOf(S[u]) : v.hh[x].key = v.hh[y].key => x = y
    BY <1>1, <1>2, ItemsIn
  <1> QED  BY <1>2, <1>3

(* What a call may do: leave fewer items in the tables, add objects, write *)
(* no memory but behind the last stim or by loada.                         *)
StoreChange(v, v2, ps, ps2, st, st2, num2, cur, cur2, res, res2, S, S2) ==
    /\ v2.ok /\ MorePrgmStims(ps, ps2) /\ MoreStims(st, st2)
    /\ \A u \in Units : num2[u] = Len(S2[u]) /\ Written(res, res2, ps2, cur, u)
    /\ \A u \in Units : ElementsOf(S2[u]) # {} => cur[u] <= cur2[u]
    /\ \A u \in Units : \A e \in ElementsOf(S2[u]) :
          IF e \in ElementsOf(S[u]) THEN v2.hh[e].key = v.hh[e].key
          ELSE Entry(v2, ps2, st2, cur2, res2, u, e)

(* Tables, counters and memory still agree after such a call.              *)
LEMMA StoreFrame ==
    ASSUME NEW v, NEW v2, NEW ps, NEW ps2, NEW st, NEW st2, Objects(v, ps, st),
           NEW num, NEW num2, NEW cur \in [Units -> Nat], NEW cur2 \in [Units -> Nat],
           NEW res, NEW res2, NEW T, NEW S, NEW C, NEW T2, NEW S2, NEW C2,
           Store(v, ps, st, num, cur, res, T, S, C), Tables(v2, T2, S2, C2),
           StoreChange(v, v2, ps, ps2, st, st2, num2, cur, cur2, res, res2, S, S2)
    PROVE  Store(v2, ps2, st2, num2, cur2, res2, T2, S2, C2)
  <1>1. ASSUME NEW u \in Units, NEW e \in ElementsOf(S2[u])
        PROVE  Entry(v2, ps2, st2, cur2, res2, u, e)
    <2>1. CASE e \in ElementsOf(S[u])
      <3>1. Tables(v, T, S, C) /\ Entry(v, ps, st, cur, res, u, e)  BY <2>1 DEF Store
      <3>2. e \in DOMAIN ps  BY <2>1, <3>1, ItemsOf
      <3>3. v2.hh[e].key = v.hh[e].key  BY <2>1 DEF StoreChange
      <3>4. /\ cur[u] <= cur2[u] /\ Written(res, res2, ps2, cur, u)
            /\ MorePrgmStims(ps, ps2) /\ MoreStims(st, st2)
        BY DEF StoreChange
      <3> QED  BY <3>1, <3>2, <3>3, <3>4, EntryFrame
    <2>2. CASE e \notin ElementsOf(S[u])  BY <2>2 DEF StoreChange
    <2> QED  BY <2>1, <2>2
  <1> QED  BY <1>1 DEF Store, StoreChange

(* What run and unload find in world v.                                    *)
FoundIn(v, ps) ==
    [u \in Units |->
        {e \in {ps[p].addr[u] : p \in DOMAIN ps} \X DOMAIN ps : HASH_FIND(v, v.head[u], e[1]) = e[2]}]

(* ... are the items, under their addresses.                               *)
LEMMA FoundIs ==
    ASSUME NEW v, NEW ps, NEW st, Objects(v, ps, st), NEW num, NEW cur, NEW res,
           NEW T, NEW S, NEW C, Store(v, ps, st, num, cur, res, T, S, C), HashTotal, NEW u \in Units
    PROVE  FoundIn(v, ps)[u] = {<<ps[e].addr[u], e>> : e \in ElementsOf(S[u])}
  <1> DEFINE A == {ps[p].addr[u] : p \in DOMAIN ps}
             F == {e \in A \X DOMAIN ps : HASH_FIND(v, v.head[u], e[1]) = e[2]}
             G == {<<ps[e].addr[u], e>> : e \in ElementsOf(S[u])}
  <1>0. NULL \notin Nat  BY PrgmAssumption
  <1>1. v \in Worlds /\ Tables(v, T, S, C) /\ \A p \in DOMAIN ps : ps[p].addr[u] \in Nat
    <2>1. \A p \in DOMAIN ps : ps[p] \in PrgmStimRecords  BY DEF Objects
    <2>2. \A p \in DOMAIN ps : ps[p].addr[u] \in Nat  BY <2>1 DEF PrgmStimRecords
    <2> QED  BY <2>2 DEF Objects, Store
  <1>2. \A e \in ElementsOf(S[u]) : e \in DOMAIN ps  BY <1>1, ItemsOf
  <1>3. \A e \in ElementsOf(S[u]) : v.hh[e].key = ps[e].addr[u]  BY DEF Store, Entry
  <1>4. \A k \in Nat :
           /\ \A e \in ElementsOf(S[u]) : v.hh[e].key = k <=> HASH_FIND(v, v.head[u], k) = e
           /\ HASH_FIND(v, v.head[u], k) = NULL \/ HASH_FIND(v, v.head[u], k) \in ElementsOf(S[u])
    BY <1>1, FindOf
  <1>5. DOMAIN ps \subseteq Nat  BY DEF Objects
  <1>6. ASSUME NEW x \in F  PROVE x \in G
    <2>1. PICK k \in A, e \in DOMAIN ps : x = <<k, e>>  OBVIOUS
    <2>2. HASH_FIND(v, v.head[u], k) = e /\ k \in Nat /\ e # NULL
      BY <1>0, <1>1, <1>5, <2>1
    <2>3. e \in ElementsOf(S[u]) /\ v.hh[e].key = k  BY <1>4, <2>2
    <2> QED  BY <1>3, <2>1, <2>3
  <1>7. ASSUME NEW e \in ElementsOf(S[u])  PROVE <<ps[e].addr[u], e>> \in F
    <2>1. e \in DOMAIN ps /\ ps[e].addr[u] \in Nat /\ ps[e].addr[u] \in A  BY <1>1, <1>2
    <2>2. HASH_FIND(v, v.head[u], ps[e].addr[u]) = e  BY <1>3, <1>4, <2>1
    <2> QED  BY <2>1, <2>2
  <1>8. F = G
    <2> HIDE DEF F
    <2> QED  BY <1>6, <1>7
  <1> QED  BY <1>8 DEF FoundIn

(* The prgm_stim and the tables after _load_stim has looked for its place  *)
(* in the table of unit m.                                                 *)
NewPrgmStim(ps, addr, s, how) == Append(ps, [addr |-> addr, stim |-> s, how |-> how])
Placed(v, m, k, p) == TryAdd([w |-> Fresh(v), refused |-> FALSE], m, k, p)

IsNew(ps, ps2, p, addr, s, how) ==
    /\ ps2 \in Seq(PrgmStimRecords) /\ MorePrgmStims(ps, ps2)
    /\ DOMAIN ps2 = 1 .. p /\ Len(ps2) = p /\ DOMAIN ps = 1 .. Len(ps)
    /\ p \notin DOMAIN ps /\ p \in DOMAIN ps2
    /\ ps2[p].addr = addr /\ ps2[p].stim = s /\ ps2[p].how = how

(* The new prgm_stim is the last one.                                      *)
LEMMA NewPrgmStimIs ==
    ASSUME NEW ps \in Seq(PrgmStimRecords), NEW addr \in [Units -> Nat], NEW s \in Nat,
           NEW how \in Hows
    PROVE  IsNew(ps, NewPrgmStim(ps, addr, s, how), Len(ps) + 1, addr, s, how)
  <1> DEFINE x   == [addr |-> addr, stim |-> s, how |-> how]
             n   == Len(ps)
             ps2 == Append(ps, x)
  <1>1. x \in PrgmStimRecords /\ x.addr = addr /\ x.stim = s /\ x.how = how  BY DEF PrgmStimRecords
  <1> HIDE DEF x
  <1>2. n \in Nat /\ DOMAIN ps = 1 .. n  OBVIOUS
  <1>3. /\ ps2 \in Seq(PrgmStimRecords) /\ Len(ps2) = n + 1 /\ DOMAIN ps2 = 1 .. n + 1
        /\ ps2[n + 1] = x /\ \A i \in 1 .. n : ps2[i] = ps[i]
    BY <1>1
  <1> HIDE DEF ps2, n
  <1>4. n + 1 \notin 1 .. n /\ n + 1 \in 1 .. n + 1 /\ 1 .. n \subseteq 1 .. n + 1  BY <1>2
  <1> QED  BY <1>1, <1>2, <1>3, <1>4 DEF IsNew, NewPrgmStim, MorePrgmStims, ps2, n, x

(* Refused because the address is taken, or entered.                       *)
PlacedAt(r, v, ps, ps2, st2, num, cur, res, T, S, C, m, k, p) ==
    /\ Objects(r.w, ps2, st2) /\ r.w.ok /\ r.refused \in BOOLEAN
    /\ \A x \in DOMAIN ps : r.w.hh[x].key = v.hh[x].key
    /\ r.refused => /\ Store(r.w, ps2, st2, num, cur, res, T, S, C)
                    /\ \E e \in ElementsOf(S[m]) : ps[e].addr[m] = k
    /\ ~r.refused => /\ \A e \in ElementsOf(S[m]) : ps[e].addr[m] # k
                     /\ r.w.hh[p].key = k
                     /\ ElementsOf(Append(S[m], p)) = ElementsOf(S[m]) \cup {p}
                     /\ \E T2, C2 : Tables(r.w, T2, Change(S, m, Append(S[m], p)), C2)

(* Both outcomes of looking for the place.                                 *)
LEMMA PlacedIs ==
    ASSUME NEW v, NEW ps, NEW st, Objects(v, ps, st), NEW num, NEW cur \in [Units -> Nat], NEW res,
           NEW T, NEW S, NEW C, Store(v, ps, st, num, cur, res, T, S, C), HashTotal,
           NEW st2 \in Seq(StimRecords), MoreStims(st, st2), NEW s \in DOMAIN st2,
           NEW m \in Units, NEW addr \in [Units -> Nat], NEW how \in Hows
    PROVE  PlacedAt(Placed(v, m, addr[m], Len(ps) + 1), v, ps, NewPrgmStim(ps, addr, s, how), st2,
                    num, cur, res, T, S, C, m, addr[m], Len(ps) + 1)
  <1> DEFINE p   == Len(ps) + 1
             k   == addr[m]
             ps2 == NewPrgmStim(ps, addr, s, how)
             r   == Placed(v, m, k, p)
  <1>1. /\ v \in Worlds /\ DOMAIN v.hh = DOMAIN ps /\ ps \in Seq(PrgmStimRecords)
        /\ st \in Seq(StimRecords) /\ \A e \in DOMAIN ps : ps[e].stim \in DOMAIN st
    BY DEF Objects
  <1>2. Len(v.hh) = Len(ps) /\ p = Len(v.hh) + 1
    <2> DEFINE i == Len(v.hh)
               j == Len(ps)
    <2>1. v.hh \in Seq(Handles)  BY <1>1 DEF Worlds
    <2>2. DOMAIN v.hh = 1 .. i /\ DOMAIN ps = 1 .. j /\ i \in Nat /\ j \in Nat  BY <1>1, <2>1
    <2>3. 1 .. i = 1 .. j  BY <1>1, <2>2
    <2> HIDE DEF i, j
    <2>4. i \in 1 .. i \/ i = 0  BY <2>2
    <2>5. j \in 1 .. j \/ j = 0  BY <2>2
    <2>6. i = j  BY <2>2, <2>3, <2>4, <2>5
    <2> QED  BY <2>6 DEF i, j
  <1>3. /\ ps2 \in Seq(PrgmStimRecords) /\ MorePrgmStims(ps, ps2)
        /\ DOMAIN ps2 = 1 .. p /\ DOMAIN ps = 1 .. Len(ps)
        /\ p \notin DOMAIN ps /\ p \in DOMAIN ps2
        /\ ps2[p].addr = addr /\ ps2[p].stim = s /\ ps2[p].how = how
    <2>1. s \in Nat  OBVIOUS
    <2>2. ps \in Seq(PrgmStimRecords)  BY <1>1
    <2> HIDE DEF r, ps2, p
    <2>3. IsNew(ps, ps2, p, addr, s, how)  BY <2>1, <2>2, NewPrgmStimIs DEF ps2, p
    <2> QED  BY <2>3 DEF IsNew
  <1>4. v.ok /\ Tables(v, T, S, C) /\ k \in Nat
        /\ \A e \in ElementsOf(S[m]) : e \in DOMAIN ps /\ v.hh[e].key = ps[e].addr[m]
    <2>1. Tables(v, T, S, C)  BY DEF Store
    <2>2. \A e \in ElementsOf(S[m]) : e \in DOMAIN ps  BY <2>1, ItemsOf
    <2> QED  BY <2>1, <2>2 DEF Store, Entry
  <1> HIDE DEF r, ps2, k, p
  <1>5. /\ r.w \in Worlds /\ r.w.ok /\ r.refused \in BOOLEAN
        /\ DOMAIN r.w.hh = 1 .. p
        /\ \A x \in DOMAIN v.hh : r.w.hh[x].key = v.hh[x].key
        /\ r.refused => /\ \E e \in ElementsOf(S[m]) : v.hh[e].key = k
                        /\ Tables(r.w, T, S, C)
        /\ ~r.refused => /\ \A e \in ElementsOf(S[m]) : v.hh[e].key # k
                         /\ r.w.hh[p].key = k
                         /\ ElementsOf(Append(S[m], p)) = ElementsOf(S[m]) \cup {p}
                         /\ \E T2, C2 : Tables(r.w, T2, Change(S, m, Append(S[m], p)), C2)
    <2> DEFINE q == Len(v.hh) + 1
               a == TryAdd([w |-> Fresh(v), refused |-> FALSE], m, k, q)
    <2>1. v \in Worlds  BY <1>1
    <2>2. v.ok  BY <1>4
    <2>3. Tables(v, T, S, C)  BY <1>4
    <2>4. k \in Nat  BY <1>4
    <2>5. /\ a.w \in Worlds /\ a.w.ok /\ a.refused \in BOOLEAN
          /\ DOMAIN a.w.hh = 1 .. q
          /\ \A x \in DOMAIN v.hh : a.w.hh[x].key = v.hh[x].key
          /\ a.refused => /\ \E e \in ElementsOf(S[m]) : v.hh[e].key = k
                          /\ Tables(a.w, T, S, C)
          /\ ~a.refused => /\ \A e \in ElementsOf(S[m]) : v.hh[e].key # k
                           /\ a.w.hh[q].key = k
                           /\ ElementsOf(Append(S[m], q)) = ElementsOf(S[m]) \cup {q}
                           /\ \E T2, C2 : Tables(a.w, T2, Change(S, m, Append(S[m], q)), C2)
      BY <2>1, <2>2, <2>3, <2>4, TryAddIs, Zenon
    <2>6. q = p /\ a = r  BY <1>2 DEF r, Placed
    <2> HIDE DEF q, a
    <2> QED  BY <2>5, <2>6
  <1>6. Objects(r.w, ps2, st2)
    <2>1. ASSUME NEW e \in DOMAIN ps2  PROVE ps2[e].stim \in DOMAIN st2
      <3>1. CASE e \in DOMAIN ps
        <4>1. ps[e].stim \in DOMAIN st  BY <1>1, <3>1
        <4> QED  BY <1>3, <3>1, <4>1 DEF MorePrgmStims, MoreStims
      <3>2. CASE e \notin DOMAIN ps
        <4>1. Len(ps) \in Nat  BY <1>1
        <4>2. e = p  BY <1>3, <3>2, <4>1 DEF p
        <4> QED  BY <1>3, <4>2
      <3> QED  BY <3>1, <3>2
    <2> QED  BY <1>3, <1>5, <2>1 DEF Objects
  <1>7. ASSUME r.refused  PROVE Store(r.w, ps2, st2, num, cur, res, T, S, C)
    <2>1. \A u \in Units : num[u] = Len(S[u]) /\ Written(res, res, ps2, cur, u)
      BY DEF Store, Written
    <2>2. \A u \in Units : ElementsOf(S[u]) # {} => cur[u] <= cur[u]  OBVIOUS
    <2>3. \A u \in Units : \A e \in ElementsOf(S[u]) :
             IF e \in ElementsOf(S[u]) THEN r.w.hh[e].key = v.hh[e].key
             ELSE Entry(r.w, ps2, st2, cur, res, u, e)
      <3>1. \A u \in Units : \A e \in ElementsOf(S[u]) : e \in DOMAIN ps  BY <1>4, ItemsOf
      <3> QED  BY <1>1, <1>5, <3>1
    <2>4. Tables(r.w, T, S, C)  BY <1>5, <1>7
    <2>5. r.w.ok  BY <1>5
    <2>6. MorePrgmStims(ps, ps2)  BY <1>3
    <2>7. StoreChange(v, r.w, ps, ps2, st, st2, num, cur, cur, res, res, S, S)
      BY <2>1, <2>2, <2>3, <2>5, <2>6 DEF StoreChange
    <2> QED  BY <2>4, <2>7, StoreFrame
  <1>8. PlacedAt(r, v, ps, ps2, st2, num, cur, res, T, S, C, m, k, p)
    BY <1>1, <1>4, <1>5, <1>6, <1>7 DEF PlacedAt
  <1> QED  BY <1>8 DEF r, k, p, ps2

(* Counters, addresses and memory once prgm_stim p, of n bursts, is loaded *)
(* into unit m.                                                            *)
NumAfter(num, m)          == [u \in Units |-> num[u] + (IF u \in {m} THEN 1 ELSE 0)]
AddrAfter(cur, m, how, n) == [u \in Units |-> IF how = "loada" \/ u \notin {m} THEN cur[u]
                                              ELSE cur[u] + n]
ResAfter(res, m, addr, n, p) ==
    [u \in Units |-> [b \in DOMAIN res[u] |->
        IF u \in {m} /\ b \in addr[u] .. addr[u] + n - 1 THEN p ELSE res[u][b]]]

Holding(v, ps, st, num, cur, res, S) == \E T, C : Store(v, ps, st, num, cur, res, T, S, C)

(* An accepted load keeps tables, counters and memory in agreement.        *)
LEMMA LoadStore ==
    ASSUME NEW v, NEW ps, NEW st, Objects(v, ps, st), NEW num, NEW cur \in [Units -> Nat],
           NEW X, NEW res \in [Units -> [0 .. MaxAddr -> X]],
           NEW T, NEW S, NEW C, Store(v, ps, st, num, cur, res, T, S, C), HashTotal,
           NEW st2 \in Seq(StimRecords), MoreStims(st, st2), NEW s \in DOMAIN st2,
           NEW m \in Units, st2[s].mode = m,
           NEW addr \in [Units -> Nat], NEW how \in Hows, how # "loada" => addr = cur,
           ~Placed(v, m, addr[m], Len(ps) + 1).refused
    PROVE  LET p == Len(ps) + 1
               n == st2[s].size
           IN  Holding(Placed(v, m, addr[m], p).w, NewPrgmStim(ps, addr, s, how), st2,
                       NumAfter(num, m), AddrAfter(cur, m, how, n), ResAfter(res, m, addr, n, p),
                       Change(S, m, Append(S[m], p)))
  <1> DEFINE p    == Len(ps) + 1
             n    == st2[s].size
             r    == Placed(v, m, addr[m], p)
             ps2  == NewPrgmStim(ps, addr, s, how)
             num2 == NumAfter(num, m)
             cur2 == AddrAfter(cur, m, how, n)
             res2 == ResAfter(res, m, addr, n, p)
             s2   == Append(S[m], p)
             S2   == Change(S, m, s2)
  <1>1. IsNew(ps, ps2, p, addr, s, how)
    <2>1. ps \in Seq(PrgmStimRecords) /\ s \in Nat  BY DEF Objects
    <2> HIDE DEF ps2, p
    <2> QED  BY <2>1, NewPrgmStimIs DEF ps2, p
  <1>2. /\ r.w.ok /\ \A x \in DOMAIN ps : r.w.hh[x].key = v.hh[x].key
        /\ r.w.hh[p].key = addr[m]
        /\ ElementsOf(s2) = ElementsOf(S[m]) \cup {p}
        /\ \E T2, C2 : Tables(r.w, T2, S2, C2)
    <2> DEFINE k == addr[m]
    <2>1. PlacedAt(r, v, ps, ps2, st2, num, cur, res, T, S, C, m, k, p)
      <3> HIDE DEF num2, cur2, res2, S2, s2, n, ps2, r, k, p
      <3> QED  BY PlacedIs DEF ps2, r, k, p
    <2> QED  BY <2>1 DEF PlacedAt
  <1>3. PICK T2, C2 : Tables(r.w, T2, S2, C2)  BY <1>2
  <1>4. n \in Nat
    <2>1. st2[s] \in StimRecords /\ Sizes \subseteq Nat  BY PrgmAssumption
    <2> QED  BY <2>1 DEF StimRecords
  <1>5. MorePrgmStims(ps, ps2) /\ p \in DOMAIN ps2 /\ p \notin DOMAIN ps
        /\ ps2[p].addr = addr /\ ps2[p].stim = s /\ ps2[p].how = how
    BY <1>1 DEF IsNew
  <1>6. \A u \in Units : \A e \in ElementsOf(S[u]) : e \in DOMAIN ps
    <2>1. Tables(v, T, S, C)  BY DEF Store
    <2> QED  BY <2>1, ItemsOf
  <1>7. \A u \in Units : S[u] \in Seq(Nat)
    <2>1. Tables(v, T, S, C)  BY DEF Store
    <2> QED  BY <2>1, ItemsOf
  <1>8. S2[m] = s2 /\ \A u \in Units : u # m => S2[u] = S[u]  BY DEF Change
  <1>9. Len(s2) = Len(S[m]) + 1
    <2> HIDE DEF p
    <2>1. S[m] \in Seq(Nat)  BY <1>7
    <2> DEFINE q == S[m]
    <2>2. q \in Seq(Nat)  BY <2>1
    <2> HIDE DEF q
    <2>3. Len(Append(q, p)) = Len(q) + 1  BY <2>2
    <2> QED  BY <2>3 DEF q
  <1> HIDE DEF r, ps2, n, S2, s2, p
  <1>10. ASSUME NEW u \in Units  PROVE num2[u] = Len(S2[u])
    <2>1. num[u] = Len(S[u])  BY DEF Store
    <2>2. CASE u = m  BY <1>8, <1>9, <2>1, <2>2 DEF NumAfter
    <2>3. CASE u # m
      <3>1. Len(S[u]) \in Nat  BY <1>7
      <3>2. num2[u] = num[u] + 0  BY <2>3 DEF NumAfter
      <3> QED  BY <1>8, <2>1, <2>3, <3>1, <3>2
    <2> QED  BY <2>2, <2>3
  <1>11. cur2 \in [Units -> Nat] /\ \A u \in Units : cur[u] <= cur2[u]  BY <1>4 DEF AddrAfter
  <1>12. \A u \in Units : \A b \in 0 .. MaxAddr :
            res2[u][b] = IF u = m /\ b \in addr[u] .. addr[u] + n - 1 THEN p ELSE res[u][b]
    BY DEF ResAfter
  <1> HIDE DEF num2, res2
  <1>13. ASSUME NEW u \in Units  PROVE Written(res, res2, ps2, cur, u)
    <2>1. ASSUME NEW b \in 0 .. MaxAddr
          PROVE  \/ res2[u][b] = res[u][b]
                 \/ b >= cur[u]
                 \/ res2[u][b] \in DOMAIN ps2 /\ ps2[res2[u][b]].how = "loada"
      <3>1. CASE u = m /\ b \in addr[u] .. addr[u] + n - 1
        <4>1. res2[u][b] = p  BY <1>12, <3>1
        <4>2. CASE how = "loada"  BY <1>5, <4>1, <4>2
        <4>3. CASE how # "loada"
          <5>1. addr[u] = cur[u] /\ cur[u] \in Nat  BY <4>3
          <5> QED  BY <1>4, <3>1, <5>1
        <4> QED  BY <4>2, <4>3
      <3>2. CASE ~(u = m /\ b \in addr[u] .. addr[u] + n - 1)  BY <1>12, <3>2
      <3> QED  BY <3>1, <3>2
    <2> QED  BY <2>1 DEF Written
  <1>14. Entry(r.w, ps2, st2, cur2, res2, m, p)
    <2>1. st2[ps2[p].stim].mode = m /\ r.w.hh[p].key = ps2[p].addr[m]  BY <1>2, <1>5
    <2>2. ASSUME ps2[p].how # "loada"  PROVE Kept(ps2, st2, cur2, res2, m, p)
      <3>1. ps2[p].addr[m] = cur[m] /\ st2[ps2[p].stim].size = n /\ how # "loada" /\ addr[m] = cur[m]
        BY <1>5, <2>2 DEF n
      <3>2. cur2[m] = cur[m] + n  BY <3>1 DEF AddrAfter
      <3>3. cur[m] + n <= cur2[m]
        <4>1. cur[m] + n \in Nat  BY <1>4
        <4> QED  BY <3>2, <4>1
      <3>4. \A b \in (cur[m] .. cur[m] + n - 1) \cap (0 .. MaxAddr) : res2[m][b] = p
        BY <1>12, <3>1
      <3> HIDE DEF cur2
      <3> QED  BY <3>1, <3>3, <3>4 DEF Kept
    <2> QED  BY <2>1, <2>2 DEF Entry
  <1> HIDE DEF cur2
  <1>15. ASSUME NEW u \in Units, NEW e \in ElementsOf(S2[u])
         PROVE  IF e \in ElementsOf(S[u]) THEN r.w.hh[e].key = v.hh[e].key
                ELSE Entry(r.w, ps2, st2, cur2, res2, u, e)
    <2>1. CASE e \in ElementsOf(S[u])  BY <1>2, <1>6, <2>1
    <2>2. CASE e \notin ElementsOf(S[u])
      <3>1. u = m /\ e = p  BY <1>2, <1>8, <2>2
      <3> QED  BY <1>14, <2>2, <3>1
    <2> QED  BY <2>1, <2>2
  <1>16. StoreChange(v, r.w, ps, ps2, st, st2, num2, cur, cur2, res, res2, S, S2)
    BY <1>2, <1>5, <1>10, <1>11, <1>13, <1>15 DEF StoreChange
  <1>17. Store(r.w, ps2, st2, num2, cur2, res2, T2, S2, C2)
    BY <1>3, <1>11, <1>16, StoreFrame
  <1>18. Holding(r.w, ps2, st2, num2, cur2, res2, S2)  BY <1>17 DEF Holding
  <1> QED  BY <1>18 DEF r, ps2, num2, cur2, res2, S2, s2, n, p

(* Items are taken from the tables of v, which become those of a.          *)
Fewer(v, a, ps, cur, cur2, num2, S, S2) ==
    /\ a \in Worlds /\ a.ok /\ DOMAIN a.hh = DOMAIN v.hh
    /\ \A x \in DOMAIN v.hh : a.hh[x].key = v.hh[x].key
    /\ \A u \in Units : /\ ElementsOf(S2[u]) \subseteq ElementsOf(S[u]) /\ num2[u] = Len(S2[u])
                        /\ ElementsOf(S2[u]) # {} => cur2[u] = cur[u]

(* Taking items out keeps the agreement.                                   *)
LEMMA FewerStore ==
    ASSUME NEW v, NEW ps, NEW st, Objects(v, ps, st), NEW num, NEW cur \in [Units -> Nat], NEW res,
           NEW T, NEW S, NEW C, Store(v, ps, st, num, cur, res, T, S, C),
           NEW a, NEW cur2 \in [Units -> Nat], NEW num2, NEW S2, NEW C2, Tables(a, T, S2, C2),
           Fewer(v, a, ps, cur, cur2, num2, S, S2)
    PROVE  Objects(a, ps, st) /\ Store(a, ps, st, num2, cur2, res, T, S2, C2)
  <1>1. /\ a \in Worlds /\ a.ok /\ DOMAIN a.hh = DOMAIN v.hh
        /\ \A x \in DOMAIN v.hh : a.hh[x].key = v.hh[x].key
        /\ \A u \in Units : /\ ElementsOf(S2[u]) \subseteq ElementsOf(S[u]) /\ num2[u] = Len(S2[u])
                            /\ ElementsOf(S2[u]) # {} => cur2[u] = cur[u]
    BY DEF Fewer
  <1>2. Objects(a, ps, st) /\ DOMAIN v.hh = DOMAIN ps  BY <1>1 DEF Objects
  <1>3. MorePrgmStims(ps, ps) /\ MoreStims(st, st)  BY DEF MorePrgmStims, MoreStims
  <1>4. \A u \in Units : Written(res, res, ps, cur, u)  BY DEF Written
  <1>5. \A u \in Units : ElementsOf(S2[u]) # {} => cur[u] <= cur2[u]
    <2>1. \A u \in Units : cur[u] <= cur[u]  OBVIOUS
    <2> QED  BY <1>1, <2>1
  <1>6. \A u \in Units : \A e \in ElementsOf(S[u]) : a.hh[e].key = v.hh[e].key
    <2>1. Tables(v, T, S, C)  BY DEF Store
    <2>2. \A u \in Units : \A e \in ElementsOf(S[u]) : e \in DOMAIN ps  BY <2>1, ItemsOf
    <2> QED  BY <1>1, <1>2, <2>2
  <1>7. StoreChange(v, a, ps, ps, st, st, num2, cur, cur2, res, res, S, S2)
    BY <1>1, <1>3, <1>4, <1>5, <1>6 DEF StoreChange
  <1>8. Store(a, ps, st, num2, cur2, res, T, S2, C2)  BY <1>7, StoreFrame
  <1> QED  BY <1>2, <1>8

(* Prgm_stims that are in no table are freed, with their stims.            *)
LEMMA FreedStore ==
    ASSUME NEW v, NEW ps, NEW st, Objects(v, ps, st), NEW num, NEW cur \in [Units -> Nat], NEW res,
           NEW T, NEW S, NEW C, Store(v, ps, st, num, cur, res, T, S, C),
           NEW st2 \in Seq(StimRecords), MoreStims(st, st2),
           NEW del, NoneIn(del, S)
    PROVE  /\ Objects(Freed(v, del), ps, st2)
           /\ Store(Freed(v, del), ps, st2, num, cur, res, T, S, C)
           /\ DOMAIN Freed(v, del).hh = DOMAIN v.hh
  <1> DEFINE a == Freed(v, del)
  <1>1. v \in Worlds /\ Tables(v, T, S, C) /\ v.ok  BY DEF Objects, Store
  <1>2. /\ a \in Worlds /\ a.ok = v.ok
        /\ DOMAIN a.hh = DOMAIN v.hh
        /\ \A u \in Units : \A x \in ElementsOf(S[u]) : a.hh[x].key = v.hh[x].key
        /\ Tables(a, T, S, C)
    <2>1. v \in Worlds  BY <1>1
    <2>2. Tables(v, T, S, C)  BY <1>1
    <2>3. AfterFree(a, v, T, S, C)  BY <2>1, <2>2, FreedIs
    <2> HIDE DEF a
    <2> QED  BY <2>3 DEF AfterFree
  <1> HIDE DEF a
  <1>3. Objects(a, ps, st2)  BY <1>2 DEF Objects, MoreStims
  <1>4. MorePrgmStims(ps, ps)  BY DEF MorePrgmStims
  <1>5. \A u \in Units : num[u] = Len(S[u]) /\ Written(res, res, ps, cur, u) /\ cur[u] <= cur[u]
    BY DEF Written, Store
  <1>6. StoreChange(v, a, ps, ps, st, st2, num, cur, cur, res, res, S, S)
    BY <1>1, <1>2, <1>4, <1>5 DEF StoreChange
  <1>7. Store(a, ps, st2, num, cur, res, T, S, C)  BY <1>2, <1>6, StoreFrame
  <1> QED  BY <1>2, <1>3, <1>7 DEF a

(* unload in the world v: both tables in turn.                             *)
Taken(v, num, addr) ==
    TryDel(TryDel([w |-> v, missing |-> FALSE, found |-> {}, count |-> num], "a1", addr["a1"]),
           "a2", addr["a2"])

(* unload takes what it finds at the two addresses.                        *)
LEMMA TakenIs ==
    ASSUME NEW v \in Worlds, v.ok, NEW T, NEW S, NEW C, Tables(v, T, S, C), HashTotal,
           NEW num \in [Units -> Nat], \A u \in Units : num[u] = Len(S[u]),
           NEW addr \in [Units -> Nat \cup {NULL}]
    PROVE  Taken(v, num, addr) \in UnloadRecords(v)
           /\ \E us, S2 : Unloaded(Taken(v, num, addr), v, T, S, addr, us, S2)
  <1> DEFINE r0 == [w |-> v, missing |-> FALSE, found |-> {}, count |-> num]
             r1 == TryDel(r0, "a1", addr["a1"])
             r2 == TryDel(r1, "a2", addr["a2"])
  <1>1. r0 \in UnloadRecords(v)  BY DEF UnloadRecords
  <1>2. Unloaded(r0, v, T, S, addr, {}, S)
    <2>1. \A u \in Units : ElementsOf(S[u]) = {e \in ElementsOf(S[u]) : u \in {} => v.hh[e].key # addr[u]}
      OBVIOUS
    <2>2. r0.w = v /\ r0.missing = FALSE /\ r0.found = {} /\ r0.count = num  OBVIOUS
    <2> HIDE DEF r0
    <2>3. \E C2 : Tables(v, T, S, C2)  OBVIOUS
    <2> QED  BY <2>1, <2>2, <2>3 DEF Unloaded
  <1> HIDE DEF r0
  <1>3. "a1" \in Units /\ "a2" \in Units /\ "a2" # "a1"  BY DEF Units
  <1>4. addr["a1"] \in Nat \cup {NULL} /\ addr["a2"] \in Nat \cup {NULL}  BY <1>3
  <1>5. "a1" \notin {}  OBVIOUS
  <1>6. r1 \in UnloadRecords(v) /\ HasUnloaded(r1, v, T, S, addr, {} \cup {"a1"})
    BY <1>1, <1>2, <1>3, <1>4, <1>5, TryDelIs
  <1>7. PICK us1, S1 : us1 \subseteq {} \cup {"a1"} /\ Unloaded(r1, v, T, S, addr, us1, S1)
    BY <1>6 DEF HasUnloaded
  <1>8. "a2" \notin us1  BY <1>3, <1>7
  <1> HIDE DEF r1
  <1>9. r2 \in UnloadRecords(v) /\ HasUnloaded(r2, v, T, S, addr, us1 \cup {"a2"})
    BY <1>3, <1>4, <1>6, <1>7, <1>8, TryDelIs
  <1>10. Taken(v, num, addr) = r2  BY DEF Taken, r1, r0
  <1> HIDE DEF r2
  <1> QED  BY <1>9, <1>10 DEF HasUnloaded

(* The tables after unload, before its stims are freed.                    *)
LEMMA UnloadStore ==
    ASSUME NEW v, NEW ps, NEW st, Objects(v, ps, st), NEW num \in [Units -> Nat],
           NEW cur \in [Units -> Nat], NEW res,
           NEW T, NEW S, NEW C, Store(v, ps, st, num, cur, res, T, S, C),
           NEW r, NEW addr, NEW us, NEW S2, Unloaded(r, v, T, S, addr, us, S2)
    PROVE  \E C2 : Objects(r.w, ps, st) /\ Store(r.w, ps, st, r.count, cur, res, T, S2, C2)
  <1>1. PICK C2 : Tables(r.w, T, S2, C2)  BY DEF Unloaded
  <1>2. Fewer(v, r.w, ps, cur, cur, r.count, S, S2)  BY DEF Unloaded, Fewer
  <1>3. Objects(r.w, ps, st) /\ Store(r.w, ps, st, r.count, cur, res, T, S2, C2)
    BY <1>1, <1>2, FewerStore
  <1> QED  BY <1>3

(* unload-all takes the items of both tables in the order they were added. *)
NoItems == [u \in Units |-> <<>>]
NoAddr  == [u \in Units |-> 0]

AllTaken(i1, i2, v, ps, st, res, T, S) ==
    /\ i1.w.ok /\ i2.w.ok /\ i1.visited = S["a1"] /\ i2.visited = S["a2"]
    /\ Objects(i2.w, ps, st)
    /\ \E C2 : Store(i2.w, ps, st, NoAddr, NoAddr, res, T, NoItems, C2)

(* Both tables are empty after unload-all.                                 *)
LEMMA AllTakenIs ==
    ASSUME NEW v, NEW ps, NEW st, Objects(v, ps, st), NEW num, NEW cur \in [Units -> Nat], NEW res,
           NEW T, NEW S, NEW C, Store(v, ps, st, num, cur, res, T, S, C), HashTotal
    PROVE  AllTaken(ITER_DEL(v, "a1"), ITER_DEL(ITER_DEL(v, "a1").w, "a2"), v, ps, st, res, T, S)
  <1> DEFINE i1 == ITER_DEL(v, "a1")
             a1 == i1.w
             S1 == Change(S, "a1", <<>>)
             i2 == ITER_DEL(a1, "a2")
             S2 == Change(S1, "a2", <<>>)
  <1>1. v \in Worlds /\ v.ok /\ Tables(v, T, S, C)  BY DEF Objects, Store
  <1>2. "a1" \in Units /\ "a2" \in Units /\ "a1" # "a2" /\ \A u \in Units : u = "a1" \/ u = "a2"
    BY DEF Units
  <1>3. /\ a1 \in Worlds /\ a1.ok /\ DOMAIN a1.hh = DOMAIN v.hh
        /\ \A e \in DOMAIN v.hh : a1.hh[e].key = v.hh[e].key
        /\ i1.visited = S["a1"]
        /\ \E C2 : Tables(a1, T, S1, C2)
    <2>1. v \in Worlds  BY <1>1
    <2>2. v.ok  BY <1>1
    <2>3. Tables(v, T, S, C)  BY <1>1
    <2>4. "a1" \in Units  BY <1>2
    <2> QED  BY <2>1, <2>2, <2>3, <2>4, IterIs, Zenon
  <1>4. PICK C1 : Tables(a1, T, S1, C1)  BY <1>3
  <1>5. S1["a2"] = S["a2"] /\ S2 = NoItems  BY <1>2 DEF Change, NoItems
  <1> HIDE DEF S1, a1, i1
  <1>6. /\ i2.w \in Worlds /\ i2.w.ok /\ DOMAIN i2.w.hh = DOMAIN a1.hh
        /\ \A e \in DOMAIN a1.hh : i2.w.hh[e].key = a1.hh[e].key
        /\ i2.visited = S1["a2"]
        /\ \E C2 : Tables(i2.w, T, S2, C2)
    <2>1. a1 \in Worlds  BY <1>3
    <2>2. a1.ok  BY <1>3
    <2>3. "a2" \in Units  BY <1>2
    <2> QED  BY <1>4, <2>1, <2>2, <2>3, IterIs, Zenon
  <1> HIDE DEF i2, S2
  <1>7. PICK C2 : Tables(i2.w, T, NoItems, C2)  BY <1>5, <1>6
  <1>8. NoAddr \in [Units -> Nat] /\ \A u \in Units : NoAddr[u] = 0 /\ NoItems[u] = <<>>
    BY DEF NoAddr, NoItems
  <1>9. ElementsOf(<<>>) = {} /\ Len(<<>>) = 0  BY LinkedEmpty
  <1>10. Fewer(v, i2.w, ps, cur, NoAddr, NoAddr, S, NoItems)
    BY <1>3, <1>6, <1>8, <1>9 DEF Fewer
  <1>11. Objects(i2.w, ps, st) /\ Store(i2.w, ps, st, NoAddr, NoAddr, res, T, NoItems, C2)
    BY <1>7, <1>8, <1>10, FewerStore
  <1>12. AllTaken(i1, i2, v, ps, st, res, T, S)
    BY <1>3, <1>5, <1>6, <1>11 DEF AllTaken, a1
  <1> QED  BY <1>12 DEF i1, i2, a1

-----------------------------------------------------------------------------
(* The inductive invariant                                                 *)

(* No stim of the program is dual.                                         *)
SoloStims == "dual" \notin Modes

Profiles(pr, pf, st) ==
    /\ pf \in Seq(BOOLEAN) /\ pr \in DOMAIN pf \cup {NULL}
    /\ \A s \in DOMAIN st : st[s].profile \in DOMAIN pf

Pointers(v, ps, last, res) ==
    /\ v.head \in [Units -> DOMAIN ps \cup {NULL}] /\ last \in DOMAIN ps \cup {NULL}
    /\ res \in [Units -> [0 .. MaxAddr -> DOMAIN ps \cup {NULL}]]

Counters(num, cur) == num \in [Units -> Nat] /\ cur \in [Units -> Nat]

Stored(v, ps, st, num, cur, res) == \E T, S, C : Store(v, ps, st, num, cur, res, T, S, C)

IInv ==
    /\ Profiles(_profile, profiles, stims)
    /\ Objects(w, prgm_stims, stims)
    /\ Pointers(w, prgm_stims, _last_prgm_stim, reserved)
    /\ Counters(_num_loaded_stims, _cur_stim_addr)
    /\ state \in {"running", "exited", "stim", "profile", "last"}
    /\ Running => Stored(w, prgm_stims, stims, _num_loaded_stims, _cur_stim_addr, reserved)

(* The heads of the tables are prgm_stims.                                 *)
LEMMA HeadsOf ==
    ASSUME NEW v, NEW ps, NEW st, Objects(v, ps, st), NEW T, NEW S, NEW C, Tables(v, T, S, C)
    PROVE  v.head \in [Units -> DOMAIN ps \cup {NULL}]
  <1>1. \A u \in Units : v.head[u] \in DOMAIN ps \cup {NULL}  BY ItemsOf
  <1>2. v.head \in [Units -> Ptr]  BY DEF Objects, Worlds
  <1> QED  BY <1>1, <1>2

(* An empty program.                                                       *)
LEMMA Created == prgm_create => IInv
  <1> SUFFICES ASSUME prgm_create  PROVE IInv  OBVIOUS
  <1> DEFINE S == NoItems
             C == [u \in Units |-> [b \in Buckets |-> <<>>]]
  <1>1. w = [head |-> [u \in Units |-> NULL], hh |-> <<>>, tbl |-> <<>>, ok |-> TRUE]
        /\ prgm_stims = <<>> /\ stims = <<>> /\ profiles = <<>> /\ _profile = NULL
        /\ _num_loaded_stims = NoAddr /\ _cur_stim_addr = NoAddr /\ _last_prgm_stim = NULL
        /\ reserved = [u \in Units |-> [b \in 0 .. MaxAddr |-> NULL]] /\ state = "running"
    BY DEF prgm_create, NoAddr
  <1>2. w.head = [u \in Units |-> NULL] /\ w.hh = <<>> /\ w.tbl = <<>> /\ w.ok = TRUE
        /\ w \in Worlds
    <2>1. <<>> \in Seq(Handles) /\ <<>> \in Seq(TableRecords)  OBVIOUS
    <2>2. [u \in Units |-> NULL] \in [Units -> Ptr]  BY DEF Ptr
    <2> QED  BY <1>1, <2>1, <2>2 DEF Worlds
  <1>3. Objects(w, prgm_stims, stims)  BY <1>1, <1>2 DEF Objects
  <1>4. Profiles(_profile, profiles, stims)  BY <1>1 DEF Profiles
  <1>5. Pointers(w, prgm_stims, _last_prgm_stim, reserved)  BY <1>1, <1>2 DEF Pointers
  <1>6. NoAddr \in [Units -> Nat] /\ \A u \in Units : NoAddr[u] = 0 /\ S[u] = <<>>
    BY DEF NoAddr, NoItems
  <1>7. Counters(_num_loaded_stims, _cur_stim_addr)  BY <1>1, <1>6 DEF Counters
  <1>8. \A nx, pv : Linked(<<>>, nx, pv) /\ ElementsOf(<<>>) = {}  BY LinkedEmpty
  <1>9. ASSUME NEW u \in Units  PROVE Holds(w, u, 0, S[u], C[u])
    <2>1. S[u] = <<>> /\ ElementsOf(<<>>) = {}  BY <1>6, <1>8
    <2>2. w.head[u] = First(S[u])  BY <1>2, <2>1 DEF First
    <2>3. Linked(S[u], Nexts(w.hh), Prevs(w.hh))  BY <1>8, <2>1
    <2>4. Sorted(w.hh, S[u], C[u])
      <3>1. \A b \in Buckets : C[u][b] = <<>>  OBVIOUS
      <3> HIDE DEF C
      <3> QED  BY <1>8, <2>1, <3>1 DEF Sorted
    <2>5. Keyed(w.hh, S[u], 0)  BY <2>1 DEF Keyed
    <2> QED  BY <2>1, <2>2, <2>3, <2>4, <2>5 DEF Holds
  <1> DEFINE T == NoAddr
  <1>10. Tables(w, T, S, C)
    <2> HIDE DEF C
    <2> QED  BY <1>6, <1>8, <1>9 DEF Tables
  <1> HIDE DEF C, S, T
  <1>11. Store(w, prgm_stims, stims, _num_loaded_stims, _cur_stim_addr, reserved, T, S, C)
    <2>1. \A u \in Units : ElementsOf(S[u]) = {} /\ Len(S[u]) = 0  BY <1>6, <1>8
    <2> QED  BY <1>1, <1>2, <1>6, <1>10, <2>1 DEF Store
  <1>12. Stored(w, prgm_stims, stims, _num_loaded_stims, _cur_stim_addr, reserved)
    BY <1>11 DEF Stored
  <1> QED  BY <1>1, <1>3, <1>4, <1>5, <1>7, <1>12 DEF IInv

(* set-profile.                                                            *)
LEMMA ProfileStep == IInv /\ f_set_profile => IInv'
  <1> SUFFICES ASSUME IInv, f_set_profile  PROVE IInv'  OBVIOUS
  <1>1. Profiles(_profile', profiles', stims')
    <2>1. profiles \in Seq(BOOLEAN) /\ \A s \in DOMAIN stims : stims[s].profile \in DOMAIN profiles
      BY DEF IInv, Profiles
    <2>2. profiles' = Append(profiles, TRUE) /\ _profile' = Len(profiles) + 1 /\ stims' = stims
      BY DEF f_set_profile
    <2> DEFINE n == Len(profiles)
    <2>3. n \in Nat /\ profiles' \in Seq(BOOLEAN) /\ DOMAIN profiles' = 1 .. n + 1
          /\ DOMAIN profiles = 1 .. n
      BY <2>1, <2>2
    <2> HIDE DEF n
    <2>4. n + 1 \in 1 .. n + 1 /\ 1 .. n \subseteq 1 .. n + 1  BY <2>3
    <2> QED  BY <2>1, <2>2, <2>3, <2>4 DEF Profiles, n
  <1> QED  BY <1>1 DEF IInv, f_set_profile, Return, Running

(* The action properties DirectoryKept and SequentialAccepted, of one step. *)
DirectoryStep ==
    state' = "running" =>
        \/ Found' = Found
        \/ Loading /\ Dir!Load(Len(prgm_stims'), UnitsOf(stims'[Loaded.stim].mode), Loaded.addr)
        \/ \E addr \in AddrPairs : \E us \in SUBSET Units :
               (\A u \in us : addr[u] # NULL) /\ Dir!Unload(us, addr)
        \/ Dir!UnloadAll

AcceptedStep ==
    Loading /\ Loaded.how # "loada" /\ state' = "running"
       /\ _num_loaded_stims' = _num_loaded_stims
    => \E p \in PrgmStims : prgm_stims[p].how = "loada" /\ Live(w, p)
          /\ \E u \in Units : prgm_stims[p].addr[u] = Loaded.addr[u]

(* A step creates no prgm_stim, and so is no load.                         *)
LEMMA NoLoad ==
    ASSUME IInv, prgm_stims' = prgm_stims
    PROVE  ~Loading /\ AcceptedStep
  <1>1. prgm_stims \in Seq(PrgmStimRecords)  BY DEF IInv, Objects
  <1>2. Len(prgm_stims) \in Nat  BY <1>1
  <1> DEFINE n == Len(prgm_stims)
  <1>3. Len(prgm_stims') = n /\ n \in Nat  BY <1>2
  <1> HIDE DEF n
  <1>4. ~(Len(prgm_stims') > n)  BY <1>3
  <1>5. ~Loading  BY <1>4 DEF Loading, n
  <1> QED  BY <1>5 DEF AcceptedStep

(* A step that changes neither tables nor prgm_stims.                      *)
LEMMA Quiet ==
    ASSUME IInv, prgm_stims' = prgm_stims, w' = w
    PROVE  DirectoryStep /\ AcceptedStep
  <1>1. AcceptedStep  BY NoLoad
  <1>2. Found' = Found  BY DEF Found, PrgmStims
  <1>3. DirectoryStep  BY <1>2 DEF DirectoryStep
  <1> QED  BY <1>1, <1>3

(* A stim made from a file.                                                *)
LEMMA StimAdded ==
    ASSUME IInv, ProfileUsable, NEW mode \in Modes, NEW size \in Sizes,
           stims' = Append(stims, NewStimRecord(mode, size))
    PROVE  /\ stims' \in Seq(StimRecords) /\ MoreStims(stims, stims')
           /\ Profiles(_profile, profiles, stims')
           /\ Len(stims) + 1 \in DOMAIN stims' /\ stims'[Len(stims) + 1] = NewStimRecord(mode, size)
  <1> DEFINE x == NewStimRecord(mode, size)
             n == Len(stims)
  <1>1. stims \in Seq(StimRecords)  BY DEF IInv, Objects
  <1>2. /\ profiles \in Seq(BOOLEAN) /\ _profile \in DOMAIN profiles
        /\ \A s \in DOMAIN stims : stims[s].profile \in DOMAIN profiles
    BY DEF IInv, Profiles, ProfileUsable
  <1>3. x \in StimRecords /\ x.profile = _profile
    <2>1. _profile \in Nat  BY <1>2
    <2> QED  BY <2>1 DEF NewStimRecord, StimRecords
  <1> HIDE DEF x
  <1>4. /\ n \in Nat /\ stims' \in Seq(StimRecords) /\ DOMAIN stims' = 1 .. n + 1
        /\ DOMAIN stims = 1 .. n /\ stims'[n + 1] = x /\ \A i \in 1 .. n : stims'[i] = stims[i]
    BY <1>1, <1>3 DEF x
  <1>5. n + 1 \in 1 .. n + 1 /\ 1 .. n \subseteq 1 .. n + 1
        /\ \A i \in 1 .. n + 1 : i \in 1 .. n \/ i = n + 1
    <2> HIDE DEF n
    <2> QED  BY <1>4
  <1>6. MoreStims(stims, stims')  BY <1>4, <1>5 DEF MoreStims
  <1>7. Profiles(_profile, profiles, stims')  BY <1>2, <1>3, <1>4, <1>5 DEF Profiles
  <1> QED  BY <1>4, <1>5, <1>6, <1>7 DEF x

(* The tables with more stims.                                             *)
LEMMA StoredWithStims ==
    ASSUME NEW v, NEW ps, NEW st, Objects(v, ps, st), NEW num, NEW cur \in [Units -> Nat], NEW res,
           Stored(v, ps, st, num, cur, res), NEW st2 \in Seq(StimRecords), MoreStims(st, st2)
    PROVE  Objects(v, ps, st2) /\ Stored(v, ps, st2, num, cur, res)
  <1>1. PICK T, S, C : Store(v, ps, st, num, cur, res, T, S, C)  BY DEF Stored
  <1>2. Tables(v, T, S, C) /\ v.ok /\ MorePrgmStims(ps, ps)  BY <1>1 DEF Store, MorePrgmStims
  <1>3. \A u \in Units : num[u] = Len(S[u]) /\ Written(res, res, ps, cur, u) /\ cur[u] <= cur[u]
    BY <1>1 DEF Store, Written
  <1>4. StoreChange(v, v, ps, ps, st, st2, num, cur, cur, res, res, S, S)
    BY <1>2, <1>3 DEF StoreChange
  <1>5. Store(v, ps, st2, num, cur, res, T, S, C)  BY <1>1, <1>2, <1>4, StoreFrame
  <1>6. Objects(v, ps, st2)  BY DEF Objects, MoreStims
  <1> QED  BY <1>5, <1>6 DEF Stored

(* reads.                                                                  *)
LEMMA ReadsStep ==
    ASSUME IInv, NEW mode \in Modes, NEW size \in Sizes, f_reads(mode, size)
    PROVE  IInv' /\ DirectoryStep /\ AcceptedStep
  <1>1. /\ Running /\ _profile' = _profile /\ profiles' = profiles /\ prgm_stims' = prgm_stims /\ w' = w
        /\ _num_loaded_stims' = _num_loaded_stims /\ _cur_stim_addr' = _cur_stim_addr
        /\ _last_prgm_stim' = _last_prgm_stim /\ reserved' = reserved
    BY DEF f_reads
  <1>2. DirectoryStep /\ AcceptedStep  BY <1>1, Quiet
  <1>3. CASE _profile = NULL /\ UNCHANGED <<state, stims>>
    BY <1>1, <1>2, <1>3 DEF IInv, Running
  <1>4. CASE state' = "profile" /\ UNCHANGED stims
    BY <1>1, <1>2, <1>4 DEF IInv, Running
  <1>5. CASE ProfileUsable /\ stims' = Append(stims, NewStimRecord(mode, size)) /\ UNCHANGED state
    <2>1. stims' \in Seq(StimRecords) /\ MoreStims(stims, stims') /\ Profiles(_profile, profiles, stims')
      BY <1>5, StimAdded
    <2>2. Objects(w, prgm_stims, stims) /\ _cur_stim_addr \in [Units -> Nat]
          /\ Stored(w, prgm_stims, stims, _num_loaded_stims, _cur_stim_addr, reserved)
      BY <1>1 DEF IInv, Counters
    <2>3. Objects(w, prgm_stims, stims')
          /\ Stored(w, prgm_stims, stims', _num_loaded_stims, _cur_stim_addr, reserved)
      BY <2>1, <2>2, StoredWithStims
    <2> QED  BY <1>1, <1>2, <1>5, <2>1, <2>3 DEF IInv
  <1> QED  BY <1>3, <1>4, <1>5 DEF f_reads, fe_error, Undefined, Return

(* A solo stim is entered in the table of its unit only.                   *)
LEMMA OneTable ==
    ASSUME NEW m \in Units, NEW addr, NEW p
    PROVE  AddToTables({m}, addr, p) = Placed(w, m, addr[m], p)
  <1> DEFINE r0 == [w |-> [w EXCEPT !.hh = Append(@, NewHandle)], refused |-> FALSE]
  <1>1. CASE m = "a1"
    <2>1. "a1" \in {m} /\ "a2" \notin {m}  BY <1>1
    <2> QED  BY <1>1, <2>1 DEF AddToTables, Placed, Fresh
  <1>2. CASE m = "a2"
    <2>1. "a2" \in {m} /\ "a1" \notin {m}  BY <1>2
    <2> QED  BY <1>2, <2>1 DEF AddToTables, Placed, Fresh
  <1> QED  BY <1>1, <1>2 DEF Units

(* A solo stim has one unit.                                               *)
LEMMA SoloUnit ==
    ASSUME SoloStims, NEW m \in Modes
    PROVE  m \in Units /\ UnitsOf(m) = {m}
  BY PrgmAssumption DEF SoloStims, Units, UnitsOf

(* _load_stim of the stim st, number s.                                    *)
LEMMA LoadStep ==
    ASSUME IInv, Running, SoloStims, HashTotal, NEW how \in Hows, NEW addr \in [Units -> Nat],
           how # "loada" => addr = _cur_stim_addr,
           stims' \in Seq(StimRecords), MoreStims(stims, stims'), Profiles(_profile, profiles, stims'),
           NEW s \in DOMAIN stims', NEW st, st = stims'[s], _load_stim(how, s, st, addr)
    PROVE  IInv' /\ DirectoryStep /\ AcceptedStep
  <1> DEFINE p   == Len(prgm_stims) + 1
             m   == st.mode
             k   == addr[m]
             r   == Placed(w, m, k, p)
             ps2 == NewPrgmStim(prgm_stims, addr, s, how)
             n   == st.size
  <1>1. st \in StimRecords /\ m \in Modes /\ m \in Units /\ UnitsOf(m) = {m} /\ n \in Nat \ {0}
    <2>1. st \in StimRecords /\ Sizes \subseteq Nat \ {0}  BY PrgmAssumption
    <2>2. m \in Modes /\ n \in Nat \ {0}  BY <2>1 DEF StimRecords
    <2> QED  BY <2>1, <2>2, SoloUnit
  <1>2. AddToTables(UnitsOf(m), addr, p) = r  BY <1>1, OneTable
  <1>3. /\ prgm_stims' = ps2 /\ w' = r.w
        /\ _profile' = _profile /\ profiles' = profiles /\ _last_prgm_stim' = _last_prgm_stim
        /\ \/ ~r.w.ok
           \/ r.refused /\ state' = state /\ UNCHANGED <<_num_loaded_stims, _cur_stim_addr, reserved>>
           \/ /\ ~r.refused /\ state' = "exited"
              /\ UNCHANGED <<_num_loaded_stims, _cur_stim_addr, reserved>>
           \/ /\ ~r.refused /\ state' = state
              /\ reserved' = ResAfter(reserved, m, addr, n, p)
              /\ _cur_stim_addr' = AddrAfter(_cur_stim_addr, m, how, n)
              /\ _num_loaded_stims' = NumAfter(_num_loaded_stims, m)
    <2> HIDE DEF r, p
    <2> USE <1>1, <1>2
    <2> QED
      BY DEF _load_stim, NewPrgmStim, fe_error, Undefined, bye, Return, ResAfter, AddrAfter, NumAfter,
             Reserve, NextAddr, p
  <1>4. /\ Objects(w, prgm_stims, stims)
        /\ _num_loaded_stims \in [Units -> Nat] /\ _cur_stim_addr \in [Units -> Nat]
        /\ _last_prgm_stim \in DOMAIN prgm_stims \cup {NULL}
        /\ reserved \in [Units -> [0 .. MaxAddr -> DOMAIN prgm_stims \cup {NULL}]]
        /\ Stored(w, prgm_stims, stims, _num_loaded_stims, _cur_stim_addr, reserved)
    BY DEF IInv, Pointers, Counters
  <1>5. PICK T, S, C :
           Store(w, prgm_stims, stims, _num_loaded_stims, _cur_stim_addr, reserved, T, S, C)
    BY <1>4 DEF Stored
  <1> HIDE DEF m, n, k, r, ps2, p
  <1>6. PlacedAt(r, w, prgm_stims, ps2, stims', _num_loaded_stims, _cur_stim_addr, reserved,
                 T, S, C, m, k, p)
    BY <1>1, <1>4, <1>5, PlacedIs DEF k, r, ps2, p
  <1>7. IsNew(prgm_stims, ps2, p, addr, s, how)
    <2>1. prgm_stims \in Seq(PrgmStimRecords) /\ s \in Nat  BY <1>4 DEF Objects
    <2> QED  BY <2>1, NewPrgmStimIs DEF ps2, p
  <1>8. /\ r.w.ok /\ r.refused \in BOOLEAN /\ Objects(r.w, ps2, stims')
        /\ DOMAIN prgm_stims \subseteq DOMAIN ps2 /\ p \in DOMAIN ps2 /\ p \notin DOMAIN prgm_stims
        /\ Len(ps2) = p /\ ps2[p].addr = addr /\ ps2[p].stim = s /\ ps2[p].how = how
        /\ \A e \in DOMAIN prgm_stims : ps2[e] = prgm_stims[e]
    BY <1>6, <1>7 DEF PlacedAt, IsNew, MorePrgmStims
  <1>9. /\ Loaded = ps2[p] /\ Loading /\ Len(prgm_stims') = p
    <2>1. Loaded = ps2[p] /\ Len(prgm_stims') = p  BY <1>3, <1>8 DEF Loaded
    <2>2. Len(prgm_stims) \in Nat
      <3>1. prgm_stims \in Seq(PrgmStimRecords)  BY <1>4 DEF Objects
      <3> QED  BY <3>1
    <2>3. p > Len(prgm_stims)  BY <2>2 DEF p
    <2> QED  BY <2>1, <2>3 DEF Loading
  <1>10. Profiles(_profile', profiles', stims') /\ Objects(w', prgm_stims', stims')  BY <1>3, <1>8
  <1>11. /\ _last_prgm_stim' \in DOMAIN prgm_stims' \cup {NULL}
         /\ reserved \in [Units -> [0 .. MaxAddr -> DOMAIN prgm_stims' \cup {NULL}]]
    <2>1. _last_prgm_stim' \in DOMAIN prgm_stims' \cup {NULL}  BY <1>3, <1>4, <1>8
    <2> DEFINE D == DOMAIN prgm_stims \cup {NULL}
               E == DOMAIN prgm_stims' \cup {NULL}
    <2>2. D \subseteq E /\ reserved \in [Units -> [0 .. MaxAddr -> D]]  BY <1>3, <1>4, <1>8
    <2> HIDE DEF D, E
    <2>3. reserved \in [Units -> [0 .. MaxAddr -> E]]  BY <2>2
    <2> QED  BY <2>1, <2>3 DEF E
  <1>12. w'.head \in [Units -> DOMAIN prgm_stims' \cup {NULL}]
    <2>1. \E T2, S2, C2 : Tables(w', T2, S2, C2)
      <3>1. CASE r.refused  BY <1>3, <1>6, <3>1 DEF PlacedAt, Store
      <3>2. CASE ~r.refused  BY <1>3, <1>6, <3>2 DEF PlacedAt
      <3> QED  BY <3>1, <3>2
    <2> QED  BY <1>10, <2>1, HeadsOf
  <1>13. CASE r.refused /\ state' = state /\ UNCHANGED <<_num_loaded_stims, _cur_stim_addr, reserved>>
    <2>1. Store(w', prgm_stims', stims', _num_loaded_stims', _cur_stim_addr', reserved', T, S, C)
      BY <1>3, <1>6, <1>13 DEF PlacedAt
    <2>2. IInv'
      <3>1. Stored(w', prgm_stims', stims', _num_loaded_stims', _cur_stim_addr', reserved')
        BY <2>1 DEF Stored
      <3>2. Pointers(w', prgm_stims', _last_prgm_stim', reserved')  BY <1>11, <1>12, <1>13 DEF Pointers
      <3>3. Counters(_num_loaded_stims', _cur_stim_addr')  BY <1>4, <1>13 DEF Counters
      <3>4. state' \in {"running", "exited", "stim", "profile", "last"}  BY <1>13 DEF IInv
      <3> QED  BY <1>10, <3>1, <3>2, <3>3, <3>4 DEF IInv
    <2>3. Found' = Found
      <3>1. Found = FoundIn(w, prgm_stims) /\ Found' = FoundIn(w', prgm_stims')
        BY DEF Found, FoundIn, PrgmStims
      <3>2. \A u \in Units : FoundIn(w, prgm_stims)[u]
                             = {<<prgm_stims[e].addr[u], e>> : e \in ElementsOf(S[u])}
        BY <1>4, <1>5, FoundIs
      <3>3. \A u \in Units : FoundIn(w', prgm_stims')[u]
                             = {<<prgm_stims'[e].addr[u], e>> : e \in ElementsOf(S[u])}
        BY <1>10, <2>1, FoundIs
      <3>4. \A u \in Units : \A e \in ElementsOf(S[u]) : prgm_stims'[e] = prgm_stims[e]
        <4>1. Tables(w, T, S, C)  BY <1>5 DEF Store
        <4>2. \A u \in Units : \A e \in ElementsOf(S[u]) : e \in DOMAIN prgm_stims
          BY <1>4, <4>1, ItemsOf
        <4> QED  BY <1>3, <1>8, <4>2
      <3>5. ASSUME NEW u \in Units  PROVE FoundIn(w', prgm_stims')[u] = FoundIn(w, prgm_stims)[u]
        <4>1. FoundIn(w, prgm_stims)[u] = {<<prgm_stims[e].addr[u], e>> : e \in ElementsOf(S[u])}
          BY <3>2
        <4>2. FoundIn(w', prgm_stims')[u] = {<<prgm_stims'[e].addr[u], e>> : e \in ElementsOf(S[u])}
          BY <3>3
        <4>3. \A e \in ElementsOf(S[u]) : prgm_stims'[e] = prgm_stims[e]  BY <3>4
        <4> QED  BY <4>1, <4>2, <4>3
      <3>6. FoundIn(w', prgm_stims') = FoundIn(w, prgm_stims)  BY <3>5 DEF FoundIn
      <3> QED  BY <3>1, <3>6
    <2>4. AcceptedStep
      <3> SUFFICES ASSUME Loaded.how # "loada"
                   PROVE  \E e \in PrgmStims : prgm_stims[e].how = "loada" /\ Live(w, e)
                             /\ \E u \in Units : prgm_stims[e].addr[u] = Loaded.addr[u]
        BY DEF AcceptedStep
      <3>1. PICK e \in ElementsOf(S[m]) : prgm_stims[e].addr[m] = k  BY <1>6, <1>13 DEF PlacedAt
      <3>2. Tables(w, T, S, C) /\ Entry(w, prgm_stims, stims, _cur_stim_addr, reserved, m, e)
        BY <1>1, <1>5 DEF Store
      <3>3. e \in DOMAIN prgm_stims /\ w.hh[e].live  BY <1>1, <1>4, <3>2, ItemsOf
      <3>4. addr = _cur_stim_addr  BY <1>8, <1>9
      <3>5. prgm_stims[e].how = "loada"
        <4> SUFFICES ASSUME prgm_stims[e].how # "loada"  PROVE FALSE  OBVIOUS
        <4> DEFINE z == stims[prgm_stims[e].stim].size
        <4>1. prgm_stims[e].addr[m] + z <= _cur_stim_addr[m]  BY <3>2 DEF Entry, Kept
        <4>2. z \in Nat \ {0}
          <5>1. prgm_stims[e].stim \in DOMAIN stims /\ stims \in Seq(StimRecords)
            BY <1>4, <3>3 DEF Objects
          <5>2. stims[prgm_stims[e].stim] \in StimRecords /\ Sizes \subseteq Nat \ {0}
            BY <5>1, PrgmAssumption
          <5> QED  BY <5>2 DEF StimRecords
        <4>3. prgm_stims[e].addr[m] = _cur_stim_addr[m] /\ _cur_stim_addr[m] \in Nat
          BY <1>1, <1>4, <3>1, <3>4 DEF k
        <4> HIDE DEF z
        <4> QED  BY <4>1, <4>2, <4>3
      <3>6. Loaded.addr[m] = k  BY <1>8, <1>9 DEF k
      <3> QED  BY <1>1, <3>1, <3>3, <3>5, <3>6 DEF PrgmStims, Live
    <2>5. DirectoryStep  BY <2>3 DEF DirectoryStep
    <2> QED  BY <2>2, <2>4, <2>5
  <1>14. CASE ~r.refused /\ state' = "exited" /\ UNCHANGED <<_num_loaded_stims, _cur_stim_addr, reserved>>
    <2>1. Pointers(w', prgm_stims', _last_prgm_stim', reserved')  BY <1>11, <1>12, <1>14 DEF Pointers
    <2>2. Counters(_num_loaded_stims', _cur_stim_addr')  BY <1>4, <1>14 DEF Counters
    <2>3. IInv'  BY <1>10, <1>14, <2>1, <2>2 DEF IInv, Running
    <2>4. DirectoryStep /\ AcceptedStep  BY <1>14 DEF DirectoryStep, AcceptedStep
    <2> QED  BY <2>3, <2>4
  <1>15. CASE /\ ~r.refused /\ state' = state
              /\ reserved' = ResAfter(reserved, m, addr, n, p)
              /\ _cur_stim_addr' = AddrAfter(_cur_stim_addr, m, how, n)
              /\ _num_loaded_stims' = NumAfter(_num_loaded_stims, m)
    <2> DEFINE S2 == Change(S, m, Append(S[m], p))
    <2>1. \E T2, C2 : Store(w', prgm_stims', stims', _num_loaded_stims', _cur_stim_addr', reserved',
                            T2, S2, C2)
      <3>1. ~Placed(w, m, addr[m], Len(prgm_stims) + 1).refused  BY <1>15 DEF r, k, p
      <3>2. stims'[s].mode = m /\ stims'[s].size = n  BY DEF m, n
      <3> DEFINE X == DOMAIN prgm_stims \cup {NULL}
      <3>3. reserved \in [Units -> [0 .. MaxAddr -> X]]  BY <1>4
      <3> HIDE DEF X
      <3> DEFINE q == Len(prgm_stims) + 1
                 z == stims'[s].size
      <3>4. Holding(Placed(w, m, addr[m], q).w, NewPrgmStim(prgm_stims, addr, s, how), stims',
                    NumAfter(_num_loaded_stims, m), AddrAfter(_cur_stim_addr, m, how, z),
                    ResAfter(reserved, m, addr, z, q), Change(S, m, Append(S[m], q)))
        BY <1>1, <1>4, <1>5, <3>1, <3>2, <3>3, LoadStore
      <3>5. q = p /\ z = n  BY <3>2 DEF p
      <3> HIDE DEF q, z
      <3>6. Holding(r.w, ps2, stims', NumAfter(_num_loaded_stims, m),
                    AddrAfter(_cur_stim_addr, m, how, n), ResAfter(reserved, m, addr, n, p), S2)
        BY <3>4, <3>5 DEF r, k, ps2
      <3> QED  BY <1>3, <1>15, <3>6 DEF Holding
    <2>2. IInv'
      <3>1. Stored(w', prgm_stims', stims', _num_loaded_stims', _cur_stim_addr', reserved')
        BY <2>1 DEF Stored
      <3>2. reserved' \in [Units -> [0 .. MaxAddr -> DOMAIN prgm_stims' \cup {NULL}]]
        <4>1. p \in DOMAIN prgm_stims'  BY <1>3, <1>8
        <4> DEFINE E == DOMAIN prgm_stims' \cup {NULL}
        <4>2. p \in E /\ reserved \in [Units -> [0 .. MaxAddr -> E]]  BY <1>11, <4>1
        <4> HIDE DEF E
        <4>3. reserved' \in [Units -> [0 .. MaxAddr -> E]]  BY <1>15, <4>2 DEF ResAfter
        <4> QED  BY <4>3 DEF E
      <3>3. Pointers(w', prgm_stims', _last_prgm_stim', reserved')  BY <1>11, <1>12, <3>2 DEF Pointers
      <3>4. Counters(_num_loaded_stims', _cur_stim_addr')
        BY <1>1, <1>4, <1>15 DEF Counters, NumAfter, AddrAfter
      <3>5. state' \in {"running", "exited", "stim", "profile", "last"}  BY <1>15 DEF IInv
      <3> QED  BY <1>10, <3>1, <3>3, <3>4, <3>5 DEF IInv
    <2>3. Dir!Load(Len(prgm_stims'), UnitsOf(stims'[Loaded.stim].mode), Loaded.addr)
      <3>1. Found = FoundIn(w, prgm_stims) /\ Found' = FoundIn(w', prgm_stims')
        BY DEF Found, FoundIn, PrgmStims
      <3>2. \A u \in Units : FoundIn(w, prgm_stims)[u]
                             = {<<prgm_stims[e].addr[u], e>> : e \in ElementsOf(S[u])}
        BY <1>4, <1>5, FoundIs
      <3>3. \A u \in Units : FoundIn(w', prgm_stims')[u]
                             = {<<prgm_stims'[e].addr[u], e>> : e \in ElementsOf(S2[u])}
        <4> HIDE DEF S2
        <4> QED  BY <1>10, <2>1, FoundIs
      <3>4. \A u \in Units : \A e \in ElementsOf(S[u]) : prgm_stims'[e] = prgm_stims[e]
        <4>1. Tables(w, T, S, C)  BY <1>5 DEF Store
        <4>2. \A u \in Units : \A e \in ElementsOf(S[u]) : e \in DOMAIN prgm_stims
          BY <1>4, <4>1, ItemsOf
        <4> QED  BY <1>3, <1>8, <4>2
      <3>5. /\ ElementsOf(Append(S[m], p)) = ElementsOf(S[m]) \cup {p}
            /\ \A e \in ElementsOf(S[m]) : prgm_stims[e].addr[m] # k
        BY <1>6, <1>15 DEF PlacedAt
      <3>6. /\ ElementsOf(S2[m]) = ElementsOf(S[m]) \cup {p}
            /\ \A u \in Units : u # m => S2[u] = S[u]
        BY <1>1, <3>5 DEF Change
      <3> HIDE DEF S2
      <3>7. prgm_stims'[p].addr[m] = k /\ Len(prgm_stims') = p /\ Loaded.addr = addr
            /\ stims'[Loaded.stim].mode = m
        BY <1>3, <1>8, <1>9 DEF k, m
      <3> DEFINE F == FoundIn(w, prgm_stims)
                 G == FoundIn(w', prgm_stims')
      <3>8. DOMAIN F = Units /\ DOMAIN G = Units
            /\ F = [u \in Units |-> F[u]] /\ G = [u \in Units |-> G[u]]
        BY DEF FoundIn
      <3> HIDE DEF F, G
      <3>9. G[m] = F[m] \cup {<<k, p>>}
        <4>1. G[m] = {<<prgm_stims'[e].addr[m], e>> : e \in ElementsOf(S[m]) \cup {p}}
          BY <1>1, <3>3, <3>6 DEF G
        <4>2. G[m] = {<<prgm_stims'[e].addr[m], e>> : e \in ElementsOf(S[m])}
                     \cup {<<prgm_stims'[p].addr[m], p>>}
          BY <4>1
        <4>3. F[m] = {<<prgm_stims'[e].addr[m], e>> : e \in ElementsOf(S[m])}
          BY <1>1, <3>2, <3>4 DEF F
        <4> QED  BY <3>7, <4>2, <4>3
      <3>10. ASSUME NEW u \in Units, u # m  PROVE G[u] = F[u]
        <4>1. F[u] = {<<prgm_stims[e].addr[u], e>> : e \in ElementsOf(S[u])}  BY <3>2 DEF F
        <4>2. G[u] = {<<prgm_stims'[e].addr[u], e>> : e \in ElementsOf(S[u])}
          BY <3>3, <3>6, <3>10 DEF G
        <4>3. \A e \in ElementsOf(S[u]) : prgm_stims'[e] = prgm_stims[e]  BY <3>4
        <4> QED  BY <4>1, <4>2, <4>3
      <3>11. \A e \in F[m] : e[1] # k
        <4>1. F[m] = {<<prgm_stims[e].addr[m], e>> : e \in ElementsOf(S[m])}  BY <1>1, <3>2 DEF F
        <4> QED  BY <3>5, <4>1
      <3>12. G = [u \in Units |-> IF u \in {m} THEN F[u] \cup {<<addr[u], p>>} ELSE F[u]]
        <4>1. \A u \in Units : G[u] = IF u \in {m} THEN F[u] \cup {<<addr[u], p>>} ELSE F[u]
          BY <3>9, <3>10 DEF k
        <4> QED  BY <3>8, <4>1
      <3>13. Found = F /\ Found' = G  BY <3>1 DEF F, G
      <3>14. \A u \in {m} : \A e \in Found[u] : e[1] # addr[u]  BY <3>11, <3>13 DEF k
      <3>15. Found' = [u \in Units |-> IF u \in {m} THEN Found[u] \cup {<<addr[u], p>>} ELSE Found[u]]
        BY <3>12, <3>13
      <3>16. UnitsOf(stims'[Loaded.stim].mode) = {m}  BY <1>1, <3>7
      <3> QED  BY <3>7, <3>14, <3>15, <3>16 DEF Dir!Load
    <2>4. AcceptedStep
      <3>1. _num_loaded_stims'[m] = _num_loaded_stims[m] + 1 /\ _num_loaded_stims[m] \in Nat
        BY <1>1, <1>4, <1>15 DEF NumAfter
      <3>2. _num_loaded_stims' # _num_loaded_stims  BY <3>1
      <3> QED  BY <3>2 DEF AcceptedStep
    <2>5. DirectoryStep  BY <1>9, <2>3 DEF DirectoryStep
    <2> QED  BY <2>2, <2>4, <2>5
  <1> QED  BY <1>3, <1>8, <1>13, <1>14, <1>15

(* load, loads and loada; writes.                                          *)
LEMMA LoadSteps ==
    ASSUME IInv, SoloStims, HashTotal
    PROVE  /\ \A mode \in Modes, size \in Sizes :
                 f_load(mode, size) => IInv' /\ DirectoryStep /\ AcceptedStep
           /\ \A s \in DOMAIN stims : f_loads(s) => IInv' /\ DirectoryStep /\ AcceptedStep
           /\ \A s \in DOMAIN stims, a \in LoadaAddrs :
                 f_loada(s, a) => IInv' /\ DirectoryStep /\ AcceptedStep
           /\ \A s \in DOMAIN stims : f_writes(s) => IInv' /\ DirectoryStep /\ AcceptedStep
  <1>0. /\ stims \in Seq(StimRecords) /\ Profiles(_profile, profiles, stims)
        /\ _cur_stim_addr \in [Units -> Nat]
    BY DEF IInv, Objects, Counters
  <1>1. "load" \in Hows /\ "loads" \in Hows /\ "loada" \in Hows  BY DEF Hows
  <1>2. MoreStims(stims, stims)  BY DEF MoreStims
  <1>3. ASSUME UNCHANGED <<_profile, profiles, stims, prgm_stims, w, _num_loaded_stims,
                           _cur_stim_addr, _last_prgm_stim, reserved>>,
               state' = state \/ state' = "profile" \/ state' = "stim"
        PROVE  IInv' /\ DirectoryStep /\ AcceptedStep
    <2>1. DirectoryStep /\ AcceptedStep  BY <1>3, Quiet
    <2>2. IInv'  BY <1>3 DEF IInv, Running
    <2> QED  BY <2>1, <2>2
  <1>4. ASSUME NEW mode \in Modes, NEW size \in Sizes, f_load(mode, size)
        PROVE  IInv' /\ DirectoryStep /\ AcceptedStep
    <2>1. CASE /\ UNCHANGED <<_profile, profiles, stims, prgm_stims, w, _num_loaded_stims,
                              _cur_stim_addr, _last_prgm_stim, reserved>>
               /\ state' = state \/ state' = "profile"
      BY <1>3, <2>1
    <2>2. CASE /\ ProfileUsable /\ stims' = Append(stims, NewStimRecord(mode, size))
               /\ _load_stim("load", Len(stims) + 1, NewStimRecord(mode, size), _cur_stim_addr)
      <3> DEFINE s  == Len(stims) + 1
                 st == NewStimRecord(mode, size)
      <3>1. /\ stims' \in Seq(StimRecords) /\ MoreStims(stims, stims')
            /\ Profiles(_profile, profiles, stims') /\ s \in DOMAIN stims' /\ st = stims'[s]
        BY <2>2, StimAdded
      <3>2. Running  BY <1>4 DEF f_load, MayLoad
      <3>3. _load_stim("load", s, st, _cur_stim_addr)  BY <2>2
      <3> HIDE DEF s, st
      <3> QED  BY <1>0, <1>1, <3>1, <3>2, <3>3, LoadStep
    <2> QED  BY <1>4, <2>1, <2>2 DEF f_load, fe_error, Undefined
  <1>5. ASSUME NEW s \in DOMAIN stims, StimFreed(s)
        PROVE  IInv' /\ DirectoryStep /\ AcceptedStep
    BY <1>3, <1>5 DEF StimFreed, Undefined
  <1>6. ASSUME NEW s \in DOMAIN stims, f_loads(s)
        PROVE  IInv' /\ DirectoryStep /\ AcceptedStep
    <2>1. CASE _load_stim("loads", s, stims[s], _cur_stim_addr) /\ stims' = stims
      <3> DEFINE st == stims[s]
      <3>1. /\ stims' \in Seq(StimRecords) /\ MoreStims(stims, stims')
            /\ Profiles(_profile, profiles, stims') /\ s \in DOMAIN stims' /\ st = stims'[s]
        BY <1>0, <1>2, <2>1
      <3>2. Running  BY <1>6 DEF f_loads, MayLoad
      <3>3. _load_stim("loads", s, st, _cur_stim_addr)  BY <2>1
      <3> HIDE DEF st
      <3> QED  BY <1>0, <1>1, <3>1, <3>2, <3>3, LoadStep
    <2> QED  BY <1>5, <1>6, <2>1 DEF f_loads
  <1>7. ASSUME NEW s \in DOMAIN stims, NEW a \in LoadaAddrs, f_loada(s, a)
        PROVE  IInv' /\ DirectoryStep /\ AcceptedStep
    <2>1. CASE _load_stim("loada", s, stims[s], [u \in Units |-> a]) /\ stims' = stims
      <3> DEFINE st   == stims[s]
                 addr == [u \in Units |-> a]
      <3>1. /\ stims' \in Seq(StimRecords) /\ MoreStims(stims, stims')
            /\ Profiles(_profile, profiles, stims') /\ s \in DOMAIN stims' /\ st = stims'[s]
        BY <1>0, <1>2, <2>1
      <3>2. Running  BY <1>7 DEF f_loada, MayLoad
      <3>3. _load_stim("loada", s, st, addr)  BY <2>1
      <3>4. addr \in [Units -> Nat]  BY PrgmAssumption
      <3> HIDE DEF st, addr
      <3> QED  BY <1>1, <3>1, <3>2, <3>3, <3>4, LoadStep
    <2> QED  BY <1>5, <1>7, <2>1 DEF f_loada
  <1>8. ASSUME NEW s \in DOMAIN stims, f_writes(s)
        PROVE  IInv' /\ DirectoryStep /\ AcceptedStep
    <2>1. CASE UNCHANGED prgmVars  BY <1>3, <2>1 DEF prgmVars
    <2> QED  BY <1>5, <1>8, <2>1 DEF f_writes
  <1> QED  BY <1>4, <1>6, <1>7, <1>8

(* free_stim and free for each of del, which is in no table of v.          *)
LEMMA FreeStep ==
    ASSUME IInv, Running, NEW del, NEW v, FreePrgmStims(del, v), Objects(v, prgm_stims, stims),
           _num_loaded_stims' \in [Units -> Nat], _cur_stim_addr' \in [Units -> Nat],
           NEW T, NEW S, NEW C,
           Store(v, prgm_stims, stims, _num_loaded_stims', _cur_stim_addr', reserved, T, S, C),
           NoneIn(del, S), UNCHANGED <<_profile, prgm_stims, _last_prgm_stim, reserved>>
    PROVE  /\ IInv'
           /\ state' = "running" =>
                 /\ Objects(w', prgm_stims', stims')
                 /\ Store(w', prgm_stims', stims', _num_loaded_stims', _cur_stim_addr', reserved', T, S, C)
  <1>1. /\ Counters(_num_loaded_stims', _cur_stim_addr')
        /\ _last_prgm_stim \in DOMAIN prgm_stims \cup {NULL}
        /\ reserved \in [Units -> [0 .. MaxAddr -> DOMAIN prgm_stims \cup {NULL}]]
        /\ Profiles(_profile, profiles, stims) /\ stims \in Seq(StimRecords)
        /\ state = "running"
    BY DEF IInv, Counters, Pointers, Objects, Running
  <1>2. CASE state' \in {"stim", "profile"} /\ w' = v /\ UNCHANGED <<stims, profiles>>
    <2>1. Tables(v, T, S, C)  BY DEF Store
    <2>2. v.head \in [Units -> DOMAIN prgm_stims \cup {NULL}]  BY <2>1, HeadsOf
    <2>3. Pointers(w', prgm_stims', _last_prgm_stim', reserved')  BY <1>1, <1>2, <2>2 DEF Pointers
    <2>4. IInv'  BY <1>1, <1>2, <2>3 DEF IInv, Running
    <2> QED  BY <1>2, <2>4
  <1>3. CASE /\ stims' = [s \in DOMAIN stims |-> [stims[s] EXCEPT !.live = @ /\ s \notin StimsOf(del)]]
             /\ profiles' = [f \in DOMAIN profiles |-> profiles[f] /\ f \notin ProfilesOf(StimsOf(del))]
             /\ w' = [v EXCEPT !.hh = [e \in DOMAIN @ |-> IF e \in del THEN FreedHandle ELSE @[e]]]
             /\ state' = state
    <2>1. w' = Freed(v, del)  BY <1>3 DEF Freed
    <2>2. \A s \in DOMAIN stims : /\ stims'[s] \in StimRecords /\ stims'[s].mode = stims[s].mode
                                  /\ stims'[s].size = stims[s].size /\ stims'[s].profile = stims[s].profile
      <3>1. ASSUME NEW x \in StimRecords, NEW b
            PROVE  LET y == [x EXCEPT !.live = @ /\ b]
                   IN  y \in StimRecords /\ y.mode = x.mode /\ y.size = x.size /\ y.profile = x.profile
        <4> DEFINE c == x.live /\ b
        <4>1. c \in BOOLEAN  OBVIOUS
        <4> HIDE DEF c
        <4>2. [x EXCEPT !.live = c] \in StimRecords /\ [x EXCEPT !.live = c].mode = x.mode
              /\ [x EXCEPT !.live = c].size = x.size /\ [x EXCEPT !.live = c].profile = x.profile
          BY <4>1 DEF StimRecords
        <4> QED  BY <4>2 DEF c
      <3>2. ASSUME NEW s \in DOMAIN stims
            PROVE  /\ stims'[s] \in StimRecords /\ stims'[s].mode = stims[s].mode
                   /\ stims'[s].size = stims[s].size /\ stims'[s].profile = stims[s].profile
        <4> DEFINE x == stims[s]
                   b == s \notin StimsOf(del)
        <4>1. x \in StimRecords  BY <1>1
        <4>2. stims'[s] = [x EXCEPT !.live = @ /\ b]  BY <1>3
        <4> HIDE DEF x, b
        <4>3. stims'[s] \in StimRecords /\ stims'[s].mode = x.mode /\ stims'[s].size = x.size
              /\ stims'[s].profile = x.profile
          BY <3>1, <4>1, <4>2
        <4> QED  BY <4>3 DEF x
      <3> QED  BY <3>2
    <2>3. DOMAIN stims' = DOMAIN stims /\ DOMAIN profiles' = DOMAIN profiles  BY <1>3
    <2>4. stims' \in Seq(StimRecords)
      <3> DEFINE n == Len(stims)
      <3>1. n \in Nat /\ DOMAIN stims = 1 .. n  BY <1>1
      <3> HIDE DEF n
      <3>2. stims' = [s \in 1 .. n |-> stims'[s]]  BY <1>3, <3>1
      <3>3. stims' \in [1 .. n -> StimRecords]  BY <2>2, <3>1, <3>2
      <3> QED  BY ONLY <3>1, <3>3
    <2>5. profiles' \in Seq(BOOLEAN)
      <3> DEFINE n == Len(profiles)
      <3>1. n \in Nat /\ DOMAIN profiles = 1 .. n  BY <1>1 DEF Profiles
      <3> HIDE DEF n
      <3>2. profiles' \in [1 .. n -> BOOLEAN]
        <4> DEFINE G(f) == profiles[f] /\ f \notin ProfilesOf(StimsOf(del))
        <4>1. profiles' = [f \in 1 .. n |-> G(f)]  BY <1>3, <3>1
        <4>2. \A f \in 1 .. n : G(f) \in BOOLEAN  OBVIOUS
        <4> HIDE DEF G
        <4> QED  BY <4>1, <4>2
      <3> QED  BY ONLY <3>1, <3>2
    <2>6. MoreStims(stims, stims')  BY <2>2, <2>3 DEF MoreStims
    <2>7. Profiles(_profile', profiles', stims')  BY <1>1, <2>2, <2>3, <2>5 DEF Profiles
    <2>8. /\ Objects(w', prgm_stims, stims')
          /\ Store(w', prgm_stims, stims', _num_loaded_stims', _cur_stim_addr', reserved, T, S, C)
      BY <2>1, <2>4, <2>6, FreedStore
    <2>9. Tables(w', T, S, C)  BY <2>8 DEF Store
    <2>10. w'.head \in [Units -> DOMAIN prgm_stims \cup {NULL}]  BY <2>8, <2>9, HeadsOf
    <2>11. Pointers(w', prgm_stims', _last_prgm_stim', reserved')  BY <1>1, <2>10 DEF Pointers
    <2>12. Stored(w', prgm_stims', stims', _num_loaded_stims', _cur_stim_addr', reserved')
      BY <2>8 DEF Stored
    <2>13. IInv'  BY <1>1, <1>3, <2>7, <2>8, <2>11, <2>12 DEF IInv
    <2> QED  BY <2>8, <2>13
  <1> QED  BY <1>2, <1>3 DEF FreePrgmStims, Undefined, Return

(* What is found after unload, as StimDirectory says.                      *)
LEMMA UnloadFound ==
    ASSUME HashTotal, Objects(w, prgm_stims, stims), NEW num, NEW cur, NEW T, NEW S, NEW C,
           Store(w, prgm_stims, stims, num, cur, reserved, T, S, C),
           NEW num2, NEW cur2, NEW T2, NEW S2, NEW C2, prgm_stims' = prgm_stims,
           Objects(w', prgm_stims', stims'),
           Store(w', prgm_stims', stims', num2, cur2, reserved', T2, S2, C2),
           NEW r, NEW addr, NEW us, Unloaded(r, w, T, S, addr, us, S2)
    PROVE  us \in SUBSET Units /\ (\A u \in us : addr[u] \in Nat) /\ Dir!Unload(us, addr)
  <1>1. /\ us \subseteq Units
        /\ \A u \in us : addr[u] \in Nat /\ \E e \in ElementsOf(S[u]) : w.hh[e].key = addr[u]
        /\ \A u \in Units :
              ElementsOf(S2[u]) = {e \in ElementsOf(S[u]) : u \in us => w.hh[e].key # addr[u]}
    BY DEF Unloaded
  <1>2. \A u \in Units : \A e \in ElementsOf(S[u]) : w.hh[e].key = prgm_stims[e].addr[u]
    BY DEF Store, Entry
  <1> DEFINE F == FoundIn(w, prgm_stims)
             G == FoundIn(w', prgm_stims')
  <1>3. Found = F /\ Found' = G  BY DEF Found, FoundIn, PrgmStims
  <1>4. \A u \in Units : F[u] = {<<prgm_stims[e].addr[u], e>> : e \in ElementsOf(S[u])}  BY FoundIs
  <1>5. \A u \in Units : G[u] = {<<prgm_stims[e].addr[u], e>> : e \in ElementsOf(S2[u])}
    <2>1. \A u \in Units : G[u] = {<<prgm_stims'[e].addr[u], e>> : e \in ElementsOf(S2[u])}  BY FoundIs
    <2> QED  BY <2>1
  <1>6. G = [u \in Units |-> G[u]]  BY DEF FoundIn
  <1> HIDE DEF F, G
  <1>7. ASSUME NEW u \in us  PROVE \E e \in F[u] : e[1] = addr[u]
    <2>1. PICK e \in ElementsOf(S[u]) : w.hh[e].key = addr[u]  BY <1>1
    <2>2. prgm_stims[e].addr[u] = addr[u]  BY <1>1, <1>2, <2>1
    <2>3. <<addr[u], e>> \in F[u]  BY <1>1, <1>4, <2>2
    <2> QED  BY <2>3
  <1>8. ASSUME NEW u \in Units
        PROVE  G[u] = IF u \in us THEN {e \in F[u] : e[1] # addr[u]} ELSE F[u]
    <2> DEFINE k(e) == prgm_stims[e].addr[u]
               E == ElementsOf(S[u])
    <2>1. F[u] = {<<k(e), e>> : e \in E}  BY <1>4
    <2>2. G[u] = {<<k(e), e>> : e \in ElementsOf(S2[u])}  BY <1>5
    <2>3. ElementsOf(S2[u]) = {e \in E : u \in us => k(e) # addr[u]}
      <3>1. ElementsOf(S2[u]) = {e \in E : u \in us => w.hh[e].key # addr[u]}  BY <1>1
      <3>2. \A e \in E : w.hh[e].key = k(e)  BY <1>2
      <3> QED  BY <3>1, <3>2
    <2> HIDE DEF k, E
    <2>4. CASE u \in us
      <3>1. G[u] = {<<k(e), e>> : e \in {f \in E : k(f) # addr[u]}}  BY <2>2, <2>3, <2>4
      <3>2. {<<k(e), e>> : e \in {f \in E : k(f) # addr[u]}}
               = {x \in {<<k(e), e>> : e \in E} : x[1] # addr[u]}
        OBVIOUS
      <3> QED  BY <2>1, <2>4, <3>1, <3>2
    <2>5. CASE u \notin us
      <3>1. ElementsOf(S2[u]) = E  BY <2>3, <2>5
      <3> QED  BY <2>1, <2>2, <2>5, <3>1
    <2> QED  BY <2>4, <2>5
  <1>9. G = [u \in Units |-> IF u \in us THEN {e \in F[u] : e[1] # addr[u]} ELSE F[u]]
    BY <1>6, <1>8
  <1>10. Dir!Unload(us, addr)  BY <1>3, <1>7, <1>9 DEF Dir!Unload
  <1> QED  BY <1>1, <1>10

(* unload.                                                                 *)
LEMMA UnloadStep ==
    ASSUME IInv, HashTotal, NEW addr \in AddrPairs, f_unload(addr)
    PROVE  IInv' /\ DirectoryStep /\ AcceptedStep
  <1> DEFINE num == _num_loaded_stims
             cur == _cur_stim_addr
             r == Taken(w, num, addr)
  <1>1. /\ Running /\ _num_loaded_stims' = r.count
        /\ UNCHANGED <<_profile, prgm_stims, _cur_stim_addr, _last_prgm_stim, reserved>>
        /\ \/ ~r.w.ok
           \/ r.missing /\ state' = state /\ w' = r.w /\ UNCHANGED <<stims, profiles>>
           \/ ~r.missing /\ FreePrgmStims(r.found, r.w)
    BY DEF f_unload, Taken, fe_error
  <1>2. /\ Objects(w, prgm_stims, stims) /\ num \in [Units -> Nat] /\ cur \in [Units -> Nat]
        /\ Stored(w, prgm_stims, stims, num, cur, reserved)
        /\ _last_prgm_stim \in DOMAIN prgm_stims \cup {NULL}
        /\ reserved \in [Units -> [0 .. MaxAddr -> DOMAIN prgm_stims \cup {NULL}]]
    BY <1>1 DEF IInv, Counters, Pointers
  <1>3. PICK T, S, C : Store(w, prgm_stims, stims, num, cur, reserved, T, S, C)
    BY <1>2 DEF Stored
  <1>4. addr \in [Units -> Nat \cup {NULL}]
    <2> DEFINE A == {prgm_stims[p].addr[u] : p \in DOMAIN prgm_stims, u \in Units} \cup {NULL}
    <2>1. \A p \in DOMAIN prgm_stims : prgm_stims[p] \in PrgmStimRecords  BY <1>2 DEF Objects
    <2>2. \A p \in DOMAIN prgm_stims, u \in Units : prgm_stims[p].addr[u] \in Nat
      BY <2>1 DEF PrgmStimRecords
    <2>3. A \subseteq Nat \cup {NULL}  BY <2>2
    <2>4. addr \in [Units -> A]  BY DEF AddrPairs
    <2> HIDE DEF A
    <2> QED  BY <2>3, <2>4
  <1>5. PICK us, S2 : Unloaded(r, w, T, S, addr, us, S2)
    <2>1. w \in Worlds  BY <1>2 DEF Objects
    <2>2. w.ok /\ Tables(w, T, S, C) /\ \A u \in Units : num[u] = Len(S[u])  BY <1>3 DEF Store
    <2> HIDE DEF num
    <2> QED  BY <1>2, <1>4, <2>1, <2>2, TakenIs
  <1> HIDE DEF r, num, cur
  <1>6. PICK C2 : /\ Objects(r.w, prgm_stims, stims)
                  /\ Store(r.w, prgm_stims, stims, r.count, cur, reserved, T, S2, C2)
    BY <1>2, <1>3, <1>5, UnloadStore
  <1>7. r.w.ok /\ r.count \in [Units -> Nat] /\ NoneIn(r.found, S2)
    BY <1>5 DEF Unloaded, NoneIn
  <1>8. AcceptedStep  BY <1>1, NoLoad
  <1>9. ASSUME state' = "running", NEW T2, NEW C3, Objects(w', prgm_stims', stims'),
               Store(w', prgm_stims', stims', _num_loaded_stims', cur, reserved', T2, S2, C3)
        PROVE  DirectoryStep
    <2>1. us \in SUBSET Units /\ (\A u \in us : addr[u] \in Nat) /\ Dir!Unload(us, addr)
      BY <1>1, <1>2, <1>3, <1>5, <1>9, UnloadFound
    <2>2. \A u \in us : addr[u] # NULL  BY <2>1, PrgmAssumption
    <2> QED  BY <2>1, <2>2 DEF DirectoryStep
  <1>10. CASE r.missing /\ state' = state /\ w' = r.w /\ UNCHANGED <<stims, profiles>>
    <2>1. /\ Objects(w', prgm_stims', stims')
          /\ Store(w', prgm_stims', stims', _num_loaded_stims', _cur_stim_addr', reserved', T, S2, C2)
      BY <1>1, <1>6, <1>10 DEF cur
    <2>2. Tables(w', T, S2, C2)  BY <2>1 DEF Store
    <2>3. w'.head \in [Units -> DOMAIN prgm_stims' \cup {NULL}]  BY <2>1, <2>2, HeadsOf
    <2>4. Pointers(w', prgm_stims', _last_prgm_stim', reserved')  BY <1>1, <1>2, <2>3 DEF Pointers
    <2>5. Stored(w', prgm_stims', stims', _num_loaded_stims', _cur_stim_addr', reserved')
      BY <2>1 DEF Stored
    <2>6. Counters(_num_loaded_stims', _cur_stim_addr')  BY <1>1, <1>2, <1>7 DEF Counters, cur
    <2>7. Profiles(_profile', profiles', stims') /\ state' \in {"running", "exited", "stim", "profile", "last"}
      BY <1>1, <1>10 DEF IInv
    <2>8. IInv'  BY <2>1, <2>4, <2>5, <2>6, <2>7 DEF IInv
    <2>9. state' = "running" /\ cur = _cur_stim_addr'  BY <1>1, <1>10 DEF Running, cur
    <2>10. DirectoryStep  BY <1>9, <2>1, <2>9
    <2> QED  BY <1>8, <2>8, <2>10
  <1>11. CASE ~r.missing /\ FreePrgmStims(r.found, r.w)
    <2> DEFINE del == r.found
               v   == r.w
    <2>1. /\ FreePrgmStims(del, v) /\ Objects(v, prgm_stims, stims) /\ Running
          /\ _num_loaded_stims' \in [Units -> Nat] /\ _cur_stim_addr' \in [Units -> Nat]
          /\ Store(v, prgm_stims, stims, _num_loaded_stims', _cur_stim_addr', reserved, T, S2, C2)
          /\ NoneIn(del, S2) /\ UNCHANGED <<_profile, prgm_stims, _last_prgm_stim, reserved>>
      BY <1>1, <1>2, <1>6, <1>7, <1>11 DEF cur
    <2> HIDE DEF del, v
    <2>2. /\ IInv'
          /\ state' = "running" =>
                /\ Objects(w', prgm_stims', stims')
                /\ Store(w', prgm_stims', stims', _num_loaded_stims', _cur_stim_addr', reserved', T, S2, C2)
      BY <2>1, FreeStep
    <2>3. CASE state' = "running"
      <3>1. cur = _cur_stim_addr'  BY <1>1 DEF cur
      <3>2. DirectoryStep  BY <1>9, <2>2, <2>3, <3>1
      <3> QED  BY <1>8, <2>2, <3>2
    <2>4. CASE state' # "running"
      <3>1. DirectoryStep  BY <2>4 DEF DirectoryStep
      <3> QED  BY <1>8, <2>2, <3>1
    <2> QED  BY <2>3, <2>4
  <1> QED  BY <1>1, <1>7, <1>10, <1>11

(* unload-all.                                                             *)
LEMMA UnloadAllStep ==
    ASSUME IInv, HashTotal, f_unload_all
    PROVE  IInv' /\ DirectoryStep /\ AcceptedStep
  <1> DEFINE num == _num_loaded_stims
             cur == _cur_stim_addr
             i1  == ITER_DEL(w, "a1")
             i2  == ITER_DEL(i1.w, "a2")
             del == ElementsOf(i1.visited) \cup ElementsOf(i2.visited)
             n   == [u \in Units |-> IF u = "a1" THEN Len(i1.visited) ELSE Len(i2.visited)]
  <1>1. /\ Running /\ UNCHANGED <<_profile, prgm_stims, _last_prgm_stim, reserved>>
        /\ \/ ~(i1.w.ok /\ i2.w.ok)
           \/ /\ _num_loaded_stims' = [u \in Units |-> num[u] - n[u]]
              /\ _cur_stim_addr' = NoAddr
              /\ FreePrgmStims(del, i2.w)
    BY DEF f_unload_all, NoAddr
  <1>2. /\ Objects(w, prgm_stims, stims) /\ num \in [Units -> Nat] /\ cur \in [Units -> Nat]
        /\ Stored(w, prgm_stims, stims, num, cur, reserved)
    BY <1>1 DEF IInv, Counters
  <1>3. PICK T, S, C : Store(w, prgm_stims, stims, num, cur, reserved, T, S, C)
    BY <1>2 DEF Stored
  <1>4. AllTaken(i1, i2, w, prgm_stims, stims, reserved, T, S)
    <2> HIDE DEF num, cur, i1, i2, n, del
    <2> QED  BY <1>2, <1>3, AllTakenIs DEF i1, i2
  <1> HIDE DEF i1, i2
  <1>5. /\ i1.w.ok /\ i2.w.ok /\ i1.visited = S["a1"] /\ i2.visited = S["a2"]
        /\ Objects(i2.w, prgm_stims, stims)
        /\ \E C2 : Store(i2.w, prgm_stims, stims, NoAddr, NoAddr, reserved, T, NoItems, C2)
    BY <1>4 DEF AllTaken
  <1>6. PICK C2 : Store(i2.w, prgm_stims, stims, NoAddr, NoAddr, reserved, T, NoItems, C2)  BY <1>5
  <1>7. NoAddr \in [Units -> Nat] /\ \A u \in Units : NoAddr[u] = 0  BY DEF NoAddr
  <1>8. _num_loaded_stims' = NoAddr
    <2>1. _num_loaded_stims' = [u \in Units |-> num[u] - n[u]]  BY <1>1, <1>5
    <2>2. ASSUME NEW u \in Units  PROVE num[u] - n[u] = 0
      <3>1. num[u] = Len(S[u]) /\ num[u] \in Nat  BY <1>2, <1>3 DEF Store
      <3>2. u = "a1" \/ u = "a2"  BY DEF Units
      <3>3. n[u] = Len(S[u])  BY <1>5, <3>2
      <3> QED  BY <3>1, <3>3
    <2> QED  BY <2>1, <2>2 DEF NoAddr
  <1>9. \A u \in Units : ElementsOf(NoItems[u]) = {}  BY LinkedEmpty DEF NoItems
  <1>10. NoneIn(del, NoItems)  BY <1>9 DEF NoneIn
  <1>11. AcceptedStep  BY <1>1, NoLoad
  <1>12. /\ IInv'
         /\ state' = "running" =>
               /\ Objects(w', prgm_stims', stims')
               /\ Store(w', prgm_stims', stims', NoAddr, NoAddr, reserved', T, NoItems, C2)
    <2> DEFINE v == i2.w
    <2>1. /\ FreePrgmStims(del, v) /\ Objects(v, prgm_stims, stims) /\ Running
          /\ _num_loaded_stims' \in [Units -> Nat] /\ _cur_stim_addr' \in [Units -> Nat]
          /\ Store(v, prgm_stims, stims, _num_loaded_stims', _cur_stim_addr', reserved, T, NoItems, C2)
          /\ UNCHANGED <<_profile, prgm_stims, _last_prgm_stim, reserved>>
      BY <1>1, <1>5, <1>6, <1>7, <1>8
    <2> HIDE DEF del, v
    <2>2. /\ IInv'
          /\ state' = "running" =>
                /\ Objects(w', prgm_stims', stims')
                /\ Store(w', prgm_stims', stims', _num_loaded_stims', _cur_stim_addr', reserved', T, NoItems, C2)
      BY <1>10, <2>1, FreeStep
    <2>3. _cur_stim_addr' = NoAddr  BY <1>1, <1>5
    <2> QED  BY <1>8, <2>2, <2>3
  <1>13. ASSUME state' = "running"  PROVE Dir!UnloadAll
    <2>1. /\ Objects(w', prgm_stims', stims')
          /\ Store(w', prgm_stims', stims', NoAddr, NoAddr, reserved', T, NoItems, C2)
      BY <1>12, <1>13
    <2> DEFINE G == FoundIn(w', prgm_stims')
    <2>2. Found' = G  BY DEF Found, FoundIn, PrgmStims
    <2>3. \A u \in Units : G[u] = {<<prgm_stims'[e].addr[u], e>> : e \in ElementsOf(NoItems[u])}
      BY <2>1, FoundIs
    <2>4. \A u \in Units : G[u] = {}  BY <1>9, <2>3
    <2>5. G = [u \in Units |-> G[u]]  BY DEF FoundIn
    <2> HIDE DEF G
    <2>6. G = [u \in Units |-> {}]  BY <2>4, <2>5
    <2> QED  BY <2>2, <2>6 DEF Dir!UnloadAll
  <1>14. DirectoryStep  BY <1>13 DEF DirectoryStep
  <1> QED  BY <1>11, <1>12, <1>14

(* run.                                                                    *)
LEMMA RunStep ==
    ASSUME IInv, HashTotal, NEW addr \in AddrPairs, _run_stim(addr)
    PROVE  IInv' /\ DirectoryStep /\ AcceptedStep
  <1> DEFINE given == {u \in Units : addr[u] # NULL}
             found == [u \in given |-> HASH_FIND(w, w.head[u], addr[u])]
             ps    == {found[u] : u \in given}
  <1>1. /\ Running
        /\ UNCHANGED <<_profile, profiles, stims, prgm_stims, w, _num_loaded_stims, _cur_stim_addr, reserved>>
    BY DEF _run_stim
  <1>2. /\ \/ state' = state /\ UNCHANGED _last_prgm_stim
           \/ \E u \in given : ~FindDefined(w, w.head[u], addr[u])
           \/ state' = "stim" /\ UNCHANGED _last_prgm_stim
           \/ state' = state /\ NULL \notin ps /\ \E p \in ps : _last_prgm_stim' = p
    BY DEF _run_stim, fe_error, Undefined, Return
  <1>3. DirectoryStep /\ AcceptedStep  BY <1>1, Quiet
  <1>4. /\ Objects(w, prgm_stims, stims)
        /\ Stored(w, prgm_stims, stims, _num_loaded_stims, _cur_stim_addr, reserved)
        /\ Pointers(w, prgm_stims, _last_prgm_stim, reserved)
    BY <1>1 DEF IInv
  <1>5. PICK T, S, C :
           Store(w, prgm_stims, stims, _num_loaded_stims, _cur_stim_addr, reserved, T, S, C)
    BY <1>4 DEF Stored
  <1>6. Tables(w, T, S, C) /\ w \in Worlds  BY <1>4, <1>5 DEF Store, Objects
  <1>7. ASSUME NEW u \in given
        PROVE  /\ FindDefined(w, w.head[u], addr[u])
               /\ found[u] = NULL \/ found[u] \in DOMAIN prgm_stims
    <2>1. u \in Units /\ addr[u] # NULL  OBVIOUS
    <2>2. addr[u] \in Nat
      <3>1. PICK p \in DOMAIN prgm_stims, x \in Units : addr[u] = prgm_stims[p].addr[x]
        BY <2>1 DEF AddrPairs
      <3>2. prgm_stims[p] \in PrgmStimRecords  BY <1>4 DEF Objects
      <3> QED  BY <3>1, <3>2 DEF PrgmStimRecords
    <2> DEFINE f == HASH_FIND(w, w.head[u], addr[u])
    <2>3. /\ FindDefined(w, w.head[u], addr[u])
          /\ f = NULL \/ f \in ElementsOf(S[u])
      BY <1>6, <2>1, <2>2, FindOf
    <2>4. \A e \in ElementsOf(S[u]) : e \in DOMAIN prgm_stims  BY <1>4, <1>6, <2>1, ItemsOf
    <2>5. found[u] = f  OBVIOUS
    <2> HIDE DEF f, found
    <2> QED  BY <2>3, <2>4, <2>5
  <1> HIDE DEF given, found
  <1>8. _last_prgm_stim' \in DOMAIN prgm_stims \cup {NULL}
        /\ state' \in {"running", "stim"}
    <2>1. _last_prgm_stim \in DOMAIN prgm_stims \cup {NULL}  BY <1>4 DEF Pointers
    <2>2. \A p \in ps : p = NULL \/ p \in DOMAIN prgm_stims  BY <1>7
    <2> QED  BY <1>1, <1>2, <1>7, <2>1, <2>2 DEF Running
  <1>9. Pointers(w', prgm_stims', _last_prgm_stim', reserved')  BY <1>1, <1>4, <1>8 DEF Pointers
  <1>10. IInv'  BY <1>1, <1>8, <1>9 DEF IInv
  <1> QED  BY <1>3, <1>10

(* get-pin-names and get-fail-pins.                                        *)
LEMMA PinsStep ==
    ASSUME IInv, LastStimPins
    PROVE  IInv' /\ DirectoryStep /\ AcceptedStep
  <1>1. /\ UNCHANGED <<_profile, profiles, stims, prgm_stims, w, _num_loaded_stims,
                       _cur_stim_addr, _last_prgm_stim, reserved>>
        /\ state' = state \/ state' = "last"
    BY DEF LastStimPins, Return, Undefined
  <1>2. DirectoryStep /\ AcceptedStep  BY <1>1, Quiet
  <1>3. IInv'  BY <1>1 DEF IInv, Running
  <1> QED  BY <1>2, <1>3

(* Every call keeps the invariant and does to the tables what it should.   *)
LEMMA EveryStep ==
    ASSUME SoloStims, HashTotal
    PROVE  IInv /\ [PrgmNext]_prgmVars => IInv' /\ [DirectoryStep /\ AcceptedStep]_prgmVars
  <1> SUFFICES ASSUME IInv, [PrgmNext]_prgmVars
               PROVE  IInv' /\ [DirectoryStep /\ AcceptedStep]_prgmVars
    OBVIOUS
  <1>1. CASE UNCHANGED prgmVars
    <2>1. IInv'  BY <1>1 DEF IInv, Running, prgmVars
    <2> QED  BY <1>1, <2>1
  <1>2. CASE f_set_profile
    <2>1. prgm_stims' = prgm_stims /\ w' = w  BY <1>2 DEF f_set_profile
    <2> QED  BY <1>2, <2>1, ProfileStep, Quiet
  <1>3. CASE \E mode \in Modes, size \in Sizes : f_reads(mode, size) \/ f_load(mode, size)
    BY <1>3, ReadsStep, LoadSteps
  <1>4. CASE \E s \in DOMAIN stims : f_writes(s) \/ f_loads(s) \/ \E a \in LoadaAddrs : f_loada(s, a)
    BY <1>4, LoadSteps
  <1>5. CASE \E addr \in AddrPairs : f_unload(addr) \/ _run_stim(addr)
    BY <1>5, UnloadStep, RunStep
  <1>6. CASE f_unload_all  BY <1>6, UnloadAllStep
  <1>7. CASE f_get_pin_names \/ f_get_fail_pins  BY <1>7, PinsStep DEF f_get_pin_names, f_get_fail_pins
  <1> QED  BY <1>1, <1>2, <1>3, <1>4, <1>5, <1>6, <1>7 DEF PrgmNext

-----------------------------------------------------------------------------
(* Theorems                                                                *)

(* The invariant holds in every state of the program.                      *)
LEMMA Invariance ==
    ASSUME SoloStims, HashTotal
    PROVE  PrgmSpec => []IInv
  <1>1. IInv /\ [PrgmNext]_prgmVars => IInv'  BY EveryStep
  <1> QED  BY <1>1, Created, PTL DEF PrgmSpec

(* The objects of a test program are of their types in every state it can  *)
(* reach: no call of prgm.c leaves a pointer to a prgm_stim, a stim or a   *)
(* profile that was never allocated, and no counter of loaded stims goes   *)
(* below zero.                                                             *)
THEOREM PrgmTypeCorrect ==
    ASSUME SoloStims, HashTotal
    PROVE  PrgmSpec => []PrgmTypeOK
  <1>1. IInv => PrgmTypeOK
    <2> SUFFICES ASSUME IInv  PROVE PrgmTypeOK  OBVIOUS
    <2>1. /\ stims \in Seq(StimRecords) /\ prgm_stims \in Seq(PrgmStimRecords)
          /\ DOMAIN w.hh = DOMAIN prgm_stims
          /\ \A e \in DOMAIN prgm_stims : prgm_stims[e].stim \in DOMAIN stims
      BY DEF IInv, Objects
    <2>2. /\ profiles \in Seq(BOOLEAN) /\ _profile \in DOMAIN profiles \cup {NULL}
          /\ \A s \in DOMAIN stims : stims[s].profile \in DOMAIN profiles
      BY DEF IInv, Profiles
    <2>3. \A s \in DOMAIN stims :
             stims[s] \in [mode : Modes, size : Sizes, profile : DOMAIN profiles, live : BOOLEAN]
      <3>1. \A s \in DOMAIN stims : stims[s] \in StimRecords  BY <2>1
      <3> QED  BY <2>2, <3>1 DEF StimRecords
    <2>4. \A p \in DOMAIN prgm_stims :
             prgm_stims[p] \in [addr : [Units -> Nat], stim : DOMAIN stims,
                                how : {"load", "loads", "loada"}]
      <3>1. \A p \in DOMAIN prgm_stims : prgm_stims[p] \in PrgmStimRecords  BY <2>1
      <3> QED  BY <2>1, <3>1 DEF PrgmStimRecords, Hows
    <2>5. \A f \in DOMAIN profiles : profiles[f] \in BOOLEAN  BY <2>2
    <2>6. /\ w.head \in [Units -> PrgmStims \cup {NULL}] /\ _last_prgm_stim \in PrgmStims \cup {NULL}
          /\ reserved \in [Units -> [0 .. MaxAddr -> PrgmStims \cup {NULL}]]
      BY DEF IInv, Pointers, PrgmStims
    <2>7. /\ _num_loaded_stims \in [Units -> Nat] /\ _cur_stim_addr \in [Units -> Nat]
          /\ state \in {"running", "exited", "table", "stim", "profile", "last"}
      BY DEF IInv, Counters
    <2> QED  BY <2>1, <2>2, <2>3, <2>4, <2>5, <2>6, <2>7 DEF PrgmTypeOK, PrgmStims
  <1> QED  BY <1>1, Invariance, PTL

(* Whatever a program loads and unloads, in any order and with failed      *)
(* calls in between, HASH_ADD_INT, HASH_DEL and the loop of unload-all     *)
(* leave each unit's table sound, with stims of that unit only, under      *)
(* their own addresses, and as many as the unit's counter says.            *)
THEOREM TablesStaySound ==
    ASSUME SoloStims, HashTotal
    PROVE  PrgmSpec => []TablesSound
  <1>1. IInv => TablesSound
    <2> SUFFICES ASSUME IInv, Running, NEW u \in Units
                 PROVE  /\ Sound(w, w.head[u])
                        /\ Len(Items(w, w.head[u])) = _num_loaded_stims[u]
                        /\ \A e \in ElementsOf(Items(w, w.head[u])) :
                              /\ u \in UnitsOf(stims[prgm_stims[e].stim].mode)
                              /\ w.hh[e].key = prgm_stims[e].addr[u]
      BY DEF TablesSound
    <2>1. PICK T, S, C :
             Store(w, prgm_stims, stims, _num_loaded_stims, _cur_stim_addr, reserved, T, S, C)
      BY DEF IInv, Stored
    <2>2. w \in Worlds /\ Holds(w, u, T[u], S[u], C[u])  BY <2>1 DEF IInv, Objects, Store, Tables
    <2>3. Sound(w, w.head[u]) /\ Items(w, w.head[u]) = S[u]  BY <2>2, SoundIs
    <2>4. _num_loaded_stims[u] = Len(S[u])  BY <2>1 DEF Store
    <2>5. ASSUME NEW e \in ElementsOf(S[u])
          PROVE  u \in UnitsOf(stims[prgm_stims[e].stim].mode) /\ w.hh[e].key = prgm_stims[e].addr[u]
      <3>1. stims[prgm_stims[e].stim].mode = u /\ w.hh[e].key = prgm_stims[e].addr[u]
        BY <2>1 DEF Store, Entry
      <3>2. u \in UnitsOf(u)  BY DEF UnitsOf
      <3> QED  BY <3>1, <3>2
    <2> QED  BY <2>3, <2>4, <2>5
  <1> QED  BY <1>1, Invariance, PTL

(* The tester memory of a stim that load or loads put behind the one       *)
(* before is not written for another stim as long as it is loaded, but by  *)
(* loada: _cur_stim_addr never falls behind the end of a loaded stim.      *)
THEOREM SequentialStaysIntact ==
    ASSUME SoloStims, HashTotal
    PROVE  PrgmSpec => []SequentialIntact
  <1>1. IInv => SequentialIntact
    <2> SUFFICES ASSUME IInv, Running, NEW u \in Units, NEW p \in ElementsOf(Items(w, w.head[u])),
                        prgm_stims[p].how # "loada",
                        NEW b \in (prgm_stims[p].addr[u]
                                   .. prgm_stims[p].addr[u] + stims[prgm_stims[p].stim].size - 1)
                                  \cap (0 .. MaxAddr)
                 PROVE  reserved[u][b] = p \/ prgm_stims[reserved[u][b]].how = "loada"
      BY DEF SequentialIntact
    <2>1. PICK T, S, C :
             Store(w, prgm_stims, stims, _num_loaded_stims, _cur_stim_addr, reserved, T, S, C)
      BY DEF IInv, Stored
    <2>2. w \in Worlds /\ Holds(w, u, T[u], S[u], C[u])  BY <2>1 DEF IInv, Objects, Store, Tables
    <2>3. Items(w, w.head[u]) = S[u]  BY <2>2, SoundIs
    <2>4. Kept(prgm_stims, stims, _cur_stim_addr, reserved, u, p)  BY <2>1, <2>3 DEF Store, Entry
    <2> QED  BY <2>4 DEF Kept
  <1> QED  BY <1>1, Invariance, PTL

(* With stims of one unit each, no call uses the record of a table that    *)
(* uthash has freed with the table's last item.                            *)
THEOREM SoloTablesNotFreed ==
    ASSUME SoloStims, HashTotal
    PROVE  PrgmSpec => []NoFreedTable
  <1>1. IInv => NoFreedTable  BY DEF IInv, NoFreedTable
  <1> QED  BY <1>1, Invariance, PTL

(* load and loads are refused only when loada put the stim that is in the  *)
(* way there, and it is still loaded.                                      *)
THEOREM SequentialIsAccepted ==
    ASSUME SoloStims, HashTotal
    PROVE  PrgmSpec => SequentialAccepted
  <1>1. IInv /\ [PrgmNext]_prgmVars => [AcceptedStep]_prgmVars  BY EveryStep
  <1>2. PrgmSpec => [][AcceptedStep]_prgmVars  BY <1>1, Invariance, PTL DEF PrgmSpec
  <1> QED  BY <1>2 DEF SequentialAccepted, AcceptedStep

(* Every call changes what run and unload find at an address the way       *)
(* StimDirectory says: a load enters its stim or changes nothing, unload   *)
(* removes the entries it was given, unload-all removes all of them, and   *)
(* nothing else changes any.                                               *)
THEOREM DirectoryIsKept ==
    ASSUME SoloStims, HashTotal
    PROVE  PrgmSpec => DirectoryKept
  <1>1. IInv /\ [PrgmNext]_prgmVars => [DirectoryStep]_prgmVars  BY EveryStep
  <1>2. PrgmSpec => [][DirectoryStep]_prgmVars  BY <1>1, Invariance, PTL DEF PrgmSpec
  <1> QED  BY <1>2 DEF DirectoryKept, DirectoryStep

=============================================================================
