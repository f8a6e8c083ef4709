---------------------------- MODULE StimDirectory ----------------------------
(***************************************************************************)
(* What the two tables of loaded stims of a test program (src/prgm.c) are  *)
(* for: a directory that says, for each unit, which prgm_stim is loaded at *)
(* an address.  A load enters a stim into the directories of all its units *)
(* or changes nothing; unload removes what it was asked to; nothing else   *)
(* changes an entry.                                                       *)
(***************************************************************************)
CONSTANT Units

VARIABLE dir    \* unit -> the pairs <<address, prgm_stim>>

(* prgm_stim p is loaded at addr[u] of each unit u in us.                  *)
Load(p, us, addr) ==
    /\ \A u \in us : \A e \in dir[u] : e[1] # addr[u]
    /\ dir' = [u \in Units |-> IF u \in us THEN dir[u] \cup {<<addr[u], p>>} ELSE dir[u]]

(* The entries at addr[u] of the units us are removed; one was there.      *)
Unload(us, addr) ==
    /\ \A u \in us : \E e \in dir[u] : e[1] = addr[u]
    /\ dir' = [u \in Units |-> IF u \in us THEN {e \in dir[u] : e[1] # addr[u]} ELSE dir[u]]

UnloadAll == dir' = [u \in Units |-> {}]

=============================================================================
