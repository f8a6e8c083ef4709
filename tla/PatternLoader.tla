---------------------------- MODULE PatternLoader ----------------------------
(***************************************************************************)
(* What loading a stim into tester memory promises (the comment above      *)
(* artix_load_stim, src/board/artix.c): every unit the stim drives gets    *)
(* the whole padded pattern, in order, from the address given for it, and  *)
(* nothing else of its memory changes.  Blocks may be of any size.         *)
(***************************************************************************)
EXTENDS Integers

CONSTANTS Units, Loaded, NumVecs, NOP

VARIABLES
    mem,    \* unit -> address -> vector
    job     \* the load under way, or NoJob

pvars == <<mem, job>>

NoJob == [active |-> FALSE]

PatternAt(k) == IF k < NumVecs THEN k ELSE NOP

(* A load of len vectors at addr[u] for each unit u.                       *)
Start(addr, len) ==
    /\ ~job.active
    /\ job' = [active |-> TRUE, addr |-> addr, len |-> len, done |-> [u \in Units |-> 0]]
    /\ UNCHANGED mem

(* The next n vectors of the pattern reach unit u.                         *)
Place(u, n) ==
    /\ job.active /\ u \in Loaded
    /\ job.done[u] + n <= job.len
    /\ mem' = [mem EXCEPT ![u] = [k \in DOMAIN @ |->
           IF k - job.addr[u] \in job.done[u] .. job.done[u] + n - 1
           THEN PatternAt(k - job.addr[u]) ELSE @[k]]]
    /\ job' = [job EXCEPT !.done[u] = @ + n]

Finish ==
    /\ job.active /\ \A u \in Loaded : job.done[u] = job.len
    /\ job' = NoJob
    /\ UNCHANGED mem

=============================================================================
