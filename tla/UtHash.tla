------------------------------- MODULE UtHash -------------------------------
(***************************************************************************)
(* The intrusive hash tables of lib/uthash/uthash.h as prgm.c uses them.   *)
(* A table has no object of its own in the program: a pointer to its first *)
(* item stands for it, and the table's record hangs off that item's handle *)
(* (head->hh.tbl).  An item has ONE handle, so it can be in one table.     *)
(*                                                                         *)
(* A world w is the memory the macros work on: the head pointers, the      *)
(* handles of the items (item e is w.hh[e]) and the table records.  w.ok   *)
(* turns FALSE when a macro reads memory that has been freed, follows the  *)
(* null pointer, or runs round a cycle of links: the program is undefined  *)
(* from there on.                                                          *)
(***************************************************************************)
EXTENDS Integers, Sequences

CONSTANTS
    Buckets,     \* bucket numbers (32 in the code, never expanded at this size)
    HashBkt(_),  \* the bucket of a key: hash function, then HASH_TO_BKT
    NULL         \* the null pointer

(* A new item, just allocated and in no table.                             *)
NewHandle == [live |-> TRUE, tbl |-> NULL, key |-> NULL,
              prev |-> NULL, next |-> NULL, hh_prev |-> NULL, hh_next |-> NULL]

(* The content of freed memory is of no account: reading it is undefined.  *)
FreedHandle == [NewHandle EXCEPT !.live = FALSE]

HASH_MAKE_TABLE(e) ==
    [live |-> TRUE, tail |-> e, num_items |-> 0, buckets |-> [b \in Buckets |-> NULL]]

Live(w, e) == w.hh[e].live

(* The record of the table that head stands for.                           *)
TblOf(w, head) == w.hh[head].tbl
Table(w, head) == w.tbl[TblOf(w, head)]

(* head, its table, and the table's last item may be dereferenced.         *)
Usable(w, head) == /\ Live(w, head) /\ TblOf(w, head) # NULL
                   /\ Table(w, head).live

-----------------------------------------------------------------------------
(* Lookup                                                                  *)

(* The item reached after n links of the bucket of key k; the walk stops   *)
(* at the first item with that key, and at one that has been freed.        *)
WalkBkt(w, head, k) ==
    LET walk[n \in 0 .. Len(w.hh)] ==
            IF n = 0 THEN Table(w, head).buckets[HashBkt(k)]
            ELSE LET e == walk[n - 1]
                 IN  IF e = NULL THEN NULL
                     ELSE IF ~Live(w, e) \/ w.hh[e].key = k THEN e
                     ELSE w.hh[e].hh_next
    IN  walk[Len(w.hh)]

HASH_FIND(w, head, k) == IF head = NULL THEN NULL ELSE WalkBkt(w, head, k)

(* The lookup ends and reads no freed memory.                              *)
FindDefined(w, head, k) ==
    head # NULL => /\ Usable(w, head)
                   /\ LET e == WalkBkt(w, head, k)
                      IN  e # NULL => Live(w, e) /\ w.hh[e].key = k

-----------------------------------------------------------------------------
(* Insertion of e under key k into the table of unit u                     *)

HASH_APPEND_LIST(hh, tail, e) ==
    [[hh EXCEPT ![e].next = NULL, ![e].prev = tail] EXCEPT ![tail].next = e]

(* Mutant: the new first item of a bucket is not linked to the old one.    *)
HASH_ADD_TO_BKT_unlinked(hh, first, e) ==
    [hh EXCEPT ![e].hh_next = NULL, ![e].hh_prev = NULL]

HASH_ADD_TO_BKT(hh, first, e) ==
    LET linked == [hh EXCEPT ![e].hh_next = first, ![e].hh_prev = NULL]
    IN  IF first = NULL THEN linked ELSE [linked EXCEPT ![first].hh_prev = e]

(* The first item of a table gets a new table record.                      *)
AddFirst(w, u, k, e) ==
    LET t == Len(w.tbl) + 1
    IN  [w EXCEPT
           !.head[u] = e,
           !.tbl = Append(@, [HASH_MAKE_TABLE(e) EXCEPT !.num_items = 1,
                                                        !.buckets[HashBkt(k)] = e]),
           !.hh = HASH_ADD_TO_BKT([@ EXCEPT ![e].tbl = t, ![e].key = k,
                                            ![e].next = NULL, ![e].prev = NULL], NULL, e)]

AddBehind(w, u, k, e) ==
    LET t   == TblOf(w, w.head[u])
        tab == w.tbl[t]
        hh  == HASH_APPEND_LIST([w.hh EXCEPT ![e].tbl = t, ![e].key = k], tab.tail, e)
    IN  [w EXCEPT
           !.tbl[t] = [tab EXCEPT !.tail = e, !.num_items = @ + 1,
                                  !.buckets[HashBkt(k)] = e],
           !.hh = HASH_ADD_TO_BKT(hh, tab.buckets[HashBkt(k)], e)]

HASH_ADD(w, u, k, e) ==
    IF w.head[u] = NULL THEN AddFirst(w, u, k, e)
    ELSE IF Usable(w, w.head[u]) /\ Live(w, Table(w, w.head[u]).tail)
         THEN AddBehind(w, u, k, e)
         ELSE [w EXCEPT !.ok = FALSE]

-----------------------------------------------------------------------------
(* Deletion of e from the table of unit u                                  *)

HASH_DEL_IN_BKT(w, t, e) ==
    LET d   == w.hh[e]
        b   == HashBkt(d.key)
        hh1 == IF d.hh_prev = NULL THEN w.hh
               ELSE [w.hh EXCEPT ![d.hh_prev].hh_next = d.hh_next]
        hh2 == IF d.hh_next = NULL THEN hh1
               ELSE [hh1 EXCEPT ![d.hh_next].hh_prev = d.hh_prev]
    IN  [w EXCEPT
           !.tbl[t].buckets[b] = IF @ = e THEN d.hh_next ELSE @,
           !.tbl[t].num_items = @ - 1,
           !.hh = hh2]

(* The table record goes with the last item.                               *)
DelLast(w, u) ==
    [w EXCEPT !.tbl[TblOf(w, w.head[u])] = [HASH_MAKE_TABLE(NULL) EXCEPT !.live = FALSE],
              !.head[u] = NULL]

(* Mutant: the tail stays when the last item in order is deleted.          *)
DelLinkedKeepsTail(w, u, e) ==
    LET d    == w.hh[e]
        head == IF d.prev = NULL THEN d.next ELSE w.head[u]
        hh1  == IF d.prev = NULL THEN w.hh ELSE [w.hh EXCEPT ![d.prev].next = d.next]
        hh2  == IF d.next = NULL THEN hh1 ELSE [hh1 EXCEPT ![d.next].prev = d.prev]
        w1   == [w EXCEPT !.head[u] = head, !.hh = hh2]
    IN  HASH_DEL_IN_BKT(w1, TblOf(w1, head), e)

DelLinked(w, u, e) ==
    LET d    == w.hh[e]
        t    == TblOf(w, w.head[u])
        head == IF d.prev = NULL THEN d.next ELSE w.head[u]
        hh1  == IF d.prev = NULL THEN w.hh ELSE [w.hh EXCEPT ![d.prev].next = d.next]
        hh2  == IF d.next = NULL THEN hh1 ELSE [hh1 EXCEPT ![d.next].prev = d.prev]
        w1   == [w EXCEPT !.tbl[t].tail = IF @ = e THEN d.prev ELSE @,
                          !.head[u] = head, !.hh = hh2]
    IN  IF Usable(w1, head) THEN HASH_DEL_IN_BKT(w1, TblOf(w1, head), e)
                            ELSE [w EXCEPT !.ok = FALSE]

Alone(w, e) == w.hh[e].prev = NULL /\ w.hh[e].next = NULL

Links(w, e) == {w.hh[e].prev, w.hh[e].next, w.hh[e].hh_prev, w.hh[e].hh_next} \ {NULL}

(* What the deletion reads has not been freed.                             *)
DelDefined(w, u, e) ==
    /\ w.head[u] # NULL /\ Live(w, e)
    /\ Usable(w, w.head[u])
    /\ Alone(w, e) \/ \A x \in Links(w, e) : Live(w, x)

HASH_DEL(w, u, e) ==
    IF ~DelDefined(w, u, e) THEN [w EXCEPT !.ok = FALSE]
    ELSE IF Alone(w, e) THEN DelLast(w, u)
    ELSE DelLinked(w, u, e)

-----------------------------------------------------------------------------
(* HASH_ITER with the deletion of each item in its body                    *)

(* After n turns: the world, the next item to visit, the items visited.    *)
(* tmp, the item behind, is read before the body deletes the current one.  *)
ITER_DEL(w, u) ==
    LET Next(v, e) == IF e = NULL THEN NULL ELSE v.hh[e].next
        turn[n \in 0 .. Len(w.hh) + 1] ==
            IF n = 0 THEN [w |-> w, el |-> w.head[u], tmp |-> Next(w, w.head[u]),
                           visited |-> <<>>]
            ELSE LET s == turn[n - 1]
                     v == HASH_DEL(s.w, u, s.el)
                 IN  IF s.el = NULL \/ ~s.w.ok THEN s
                     ELSE [w |-> v, el |-> s.tmp, tmp |-> Next(v, s.tmp),
                           visited |-> Append(s.visited, s.el)]
        end == turn[Len(w.hh) + 1]
    IN  IF end.el = NULL THEN end ELSE [end EXCEPT !.w.ok = FALSE]

-----------------------------------------------------------------------------
(* What a table should look like                                           *)

(* The items in the order of the next links.                               *)
Items(w, head) ==
    LET upto[n \in 0 .. Len(w.hh)] ==
            IF n = 0 THEN IF head = NULL THEN <<>> ELSE <<head>>
            ELSE LET s == upto[n - 1]
                 IN  IF s = <<>> \/ w.hh[s[Len(s)]].next = NULL THEN s
                     ELSE Append(s, w.hh[s[Len(s)]].next)
    IN  upto[Len(w.hh)]

(* A sound table: its items are allocated, distinct, know the table, are   *)
(* linked both ways up to the tail, counted, and found under their keys.   *)
Sound(w, head) ==
    LET s == Items(w, head)
    IN  head # NULL =>
        /\ Usable(w, head)
        /\ \A i \in 1 .. Len(s) :
              /\ Live(w, s[i]) /\ TblOf(w, s[i]) = TblOf(w, head)
              /\ w.hh[s[i]].prev = IF i = 1 THEN NULL ELSE s[i - 1]
              /\ HASH_FIND(w, head, w.hh[s[i]].key) = s[i]
        /\ Table(w, head).tail = s[Len(s)] /\ w.hh[s[Len(s)]].next = NULL
        /\ Table(w, head).num_items = Len(s)

=============================================================================
