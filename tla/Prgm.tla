-------------------------------- MODULE Prgm --------------------------------
(***************************************************************************)
(* The stim bookkeeping of a test program (src/prgm.c): the functions a    *)
(* program calls to read, load, run and unload stims, and the objects they *)
(* share: the current profile, the stims, the prgm_stims in the two tables *)
(* of loaded stims, the load addresses and counters of each unit.          *)
(*                                                                         *)
(* The program is any sequence of calls.  fe_error aborts the call, and    *)
(* what it has changed stays; with the error handler of the interactive    *)
(* mode prgm_repl returns to its owner, which may call it again, and so    *)
(* the next call may follow.  Addresses and sizes count bursts (1024       *)
(* bytes).  Objects are numbered in the order they are allocated.          *)
(***************************************************************************)
EXTENDS UtHash, FiniteSets

CONSTANTS
    Modes,        \* stim modes the program's files have
    Sizes,        \* padded sizes the program's files have
    LoadaAddrs,   \* addresses the program gives to loada
    MaxAddr,      \* the highest load address artix_load_stim accepts
    MaxLoads,     \* bound: prgm_stims created
    MaxReads,     \* bound: stims made from files
    MaxProfiles   \* bound: calls of set-profile

Units == {"a1", "a2"}

ASSUME PrgmAssumption ==
    /\ Modes \subseteq {"a1", "a2", "dual"}
    /\ Sizes \subseteq Nat \ {0}
    /\ LoadaAddrs \subseteq Nat
    /\ {MaxAddr, MaxLoads, MaxReads, MaxProfiles} \subseteq Nat
    /\ NULL \notin Nat

VARIABLES
    _profile,          \* prgm->_profile
    profiles,          \* the profiles allocated: is profile p still allocated?
    stims,             \* the stims allocated: mode, padded size, profile, allocated?
    prgm_stims,        \* addresses, stim; history: which call loaded it
    w,                 \* prgm->_a1_loaded_stims, prgm->_a2_loaded_stims (UtHash)
    _num_loaded_stims, \* prgm->_num_a1_loaded_stims, prgm->_num_a2_loaded_stims
    _cur_stim_addr,    \* prgm->_cur_a1_stim_addr, prgm->_cur_a2_stim_addr
    _last_prgm_stim,   \* prgm->_last_prgm_stim
    reserved,          \* history: which prgm_stim a burst of tester memory was last loaded for
    state              \* "running", "exited" or the undefined behaviour met

prgmVars == <<_profile, profiles, stims, prgm_stims, w, _num_loaded_stims,
              _cur_stim_addr, _last_prgm_stim, reserved, state>>

Running == state = "running"

UnitsOf(mode) == IF mode = "dual" THEN Units ELSE {mode}

(* A call that returns, one that raises fe_error, one whose behaviour the  *)
(* C language does not define, and one that ends the process.              *)
Return           == UNCHANGED state
fe_error(reason) == UNCHANGED state
Undefined(what)  == state' = what
bye              == state' = "exited"

-----------------------------------------------------------------------------
(* Profiles and stims                                                      *)

(* The profile set before is neither freed nor forgotten by its stims.     *)
f_set_profile ==
    /\ Running /\ Len(profiles) < MaxProfiles
    /\ profiles' = Append(profiles, TRUE)
    /\ _profile' = Len(profiles) + 1
    /\ Return
    /\ UNCHANGED <<stims, prgm_stims, w, _num_loaded_stims, _cur_stim_addr,
                   _last_prgm_stim, reserved>>

(* get_stim_by_path: a stim of the file's mode and size that keeps the     *)
(* profile pointer it was made with.                                       *)
NewStimRecord(mode, size) ==
    [mode |-> mode, size |-> size, profile |-> _profile, live |-> TRUE]

ProfileUsable == _profile # NULL /\ profiles[_profile]

f_reads(mode, size) ==
    /\ Running /\ Len(stims) < MaxReads
    /\ \/ /\ _profile = NULL
          /\ fe_error("no board profile set") /\ UNCHANGED stims
       \/ /\ _profile # NULL /\ ~ProfileUsable
          /\ Undefined("profile") /\ UNCHANGED stims
       \/ /\ ProfileUsable
          /\ stims' = Append(stims, NewStimRecord(mode, size))
          /\ Return
    /\ UNCHANGED <<_profile, profiles, prgm_stims, w, _num_loaded_stims,
                   _cur_stim_addr, _last_prgm_stim, reserved>>

-----------------------------------------------------------------------------
(* Loading                                                                 *)

(* HASH_FIND, then HASH_ADD unless another stim is loaded at the address.  *)
TryAdd(r, u, a, p) ==
    IF r.refused \/ ~r.w.ok THEN r
    ELSE IF ~FindDefined(r.w, r.w.head[u], a) THEN [r EXCEPT !.w.ok = FALSE]
    ELSE IF HASH_FIND(r.w, r.w.head[u], a) # NULL THEN [r EXCEPT !.refused = TRUE]
    ELSE [r EXCEPT !.w = HASH_ADD(r.w, u, a, p)]

(* Both tables in turn for a dual stim: unit a1 first.                     *)
AddToTables(us, addr, p) ==
    LET r0 == [w |-> [w EXCEPT !.hh = Append(@, NewHandle)], refused |-> FALSE]
        r1 == IF "a1" \in us THEN TryAdd(r0, "a1", addr["a1"], p) ELSE r0
    IN  IF "a2" \in us THEN TryAdd(r1, "a2", addr["a2"], p) ELSE r1

(* Bursts of tester memory written for p: the region artix_load_stim       *)
(* reports as loaded.                                                      *)
Reserve(us, addr, size, p) ==
    [u \in Units |-> [b \in DOMAIN reserved[u] |->
        IF u \in us /\ b \in addr[u] .. addr[u] + size - 1 THEN p ELSE reserved[u][b]]]

(* Mutant: the address advances by one burst whatever was loaded.          *)
NextAddrOneBurst(us, how, size) ==
    [u \in Units |-> IF how = "loada" \/ u \notin us THEN _cur_stim_addr[u]
                     ELSE _cur_stim_addr[u] + 1]

(* Mutant: only load advances the address, loads does not.                 *)
NextAddrNotLoads(us, how, size) ==
    [u \in Units |-> IF how # "load" \/ u \notin us THEN _cur_stim_addr[u]
                     ELSE _cur_stim_addr[u] + size]

(* Where the next sequential stim goes.  loada leaves it alone.            *)
NextAddr(us, how, size) ==
    [u \in Units |-> IF how = "loada" \/ u \notin us THEN _cur_stim_addr[u]
                     ELSE _cur_stim_addr[u] + size]

(* _load_stim once the stim st, number s, is at hand.                      *)
_load_stim(how, s, st, addr) ==
    LET p  == Len(prgm_stims) + 1
        us == UnitsOf(st.mode)
        r  == AddToTables(us, addr, p)
    IN  /\ prgm_stims' = Append(prgm_stims, [addr |-> addr, stim |-> s, how |-> how])
        /\ w' = r.w
        /\ \/ /\ ~r.w.ok
              /\ Undefined("table")
              /\ UNCHANGED <<_num_loaded_stims, _cur_stim_addr, reserved>>
           \/ /\ r.w.ok /\ r.refused
              /\ fe_error("already loaded")
              /\ UNCHANGED <<_num_loaded_stims, _cur_stim_addr, reserved>>
           \/ /\ r.w.ok /\ ~r.refused /\ \E u \in Units : addr[u] > MaxAddr
              /\ bye
              /\ UNCHANGED <<_num_loaded_stims, _cur_stim_addr, reserved>>
           \/ /\ r.w.ok /\ ~r.refused /\ ~\E u \in Units : addr[u] > MaxAddr
              /\ reserved' = Reserve(us, addr, st.size, p)
              /\ _cur_stim_addr' = NextAddr(us, how, st.size)
              /\ _num_loaded_stims' = [u \in Units |->
                     _num_loaded_stims[u] + (IF u \in us THEN 1 ELSE 0)]
              /\ Return
        /\ UNCHANGED <<_profile, profiles, _last_prgm_stim>>

MayLoad == Running /\ Len(prgm_stims) < MaxLoads

(* load: the stim is made from its file under the current profile.         *)
f_load(mode, size) ==
    /\ MayLoad /\ Len(stims) < MaxReads
    /\ \/ /\ _profile = NULL
          /\ fe_error("no board profile set")
          /\ UNCHANGED <<_profile, profiles, stims, prgm_stims, w, _num_loaded_stims,
                         _cur_stim_addr, _last_prgm_stim, reserved>>
       \/ /\ _profile # NULL /\ ~ProfileUsable
          /\ Undefined("profile")
          /\ UNCHANGED <<_profile, profiles, stims, prgm_stims, w, _num_loaded_stims,
                         _cur_stim_addr, _last_prgm_stim, reserved>>
       \/ /\ ProfileUsable
          /\ stims' = Append(stims, NewStimRecord(mode, size))
          /\ _load_stim("load", Len(stims) + 1, NewStimRecord(mode, size), _cur_stim_addr)

(* The program passes a stim object whose memory has been freed.           *)
StimFreed(s) ==
    /\ ~stims[s].live
    /\ Undefined("stim")
    /\ UNCHANGED <<_profile, profiles, stims, prgm_stims, w, _num_loaded_stims,
                   _cur_stim_addr, _last_prgm_stim, reserved>>

(* writes: the stim and the copies it has of its pins are read; the file   *)
(* is the subject of StimUse.                                              *)
f_writes(s) ==
    /\ Running
    /\ \/ StimFreed(s)
       \/ stims[s].live /\ UNCHANGED prgmVars

f_loads(s) ==
    /\ MayLoad
    /\ \/ StimFreed(s)
       \/ /\ stims[s].live
          /\ _load_stim("loads", s, stims[s], _cur_stim_addr)
          /\ UNCHANGED stims

f_loada(s, a) ==
    /\ MayLoad
    /\ \/ StimFreed(s)
       \/ /\ stims[s].live
          /\ _load_stim("loada", s, stims[s], [u \in Units |-> a])
          /\ UNCHANGED stims

-----------------------------------------------------------------------------
(* Unloading                                                               *)

(* The stims of the prgm_stims ps can be freed: free_stim frees the stim   *)
(* and the profile it points to, and none of them may be freed twice.      *)
StimsOf(ps) == {prgm_stims[p].stim : p \in ps}
ProfilesOf(ss) == {stims[s].profile : s \in ss}
StimsFreeable(ps) ==
    /\ Cardinality(StimsOf(ps)) = Cardinality(ps)
    /\ \A s \in StimsOf(ps) : stims[s].live
ProfilesFreeable(ps) ==
    /\ Cardinality(ProfilesOf(StimsOf(ps))) = Cardinality(ps)
    /\ \A f \in ProfilesOf(StimsOf(ps)) : profiles[f]

(* free_stim and free for each of ps, in world v.                          *)
FreePrgmStims(ps, v) ==
    \/ /\ ~StimsFreeable(ps)
       /\ Undefined("stim") /\ w' = v /\ UNCHANGED <<stims, profiles>>
    \/ /\ StimsFreeable(ps) /\ ~ProfilesFreeable(ps)
       /\ Undefined("profile") /\ w' = v /\ UNCHANGED <<stims, profiles>>
    \/ /\ StimsFreeable(ps) /\ ProfilesFreeable(ps)
       /\ stims' = [s \in DOMAIN stims |->
              [stims[s] EXCEPT !.live = @ /\ s \notin StimsOf(ps)]]
       /\ profiles' = [f \in DOMAIN profiles |->
              profiles[f] /\ f \notin ProfilesOf(StimsOf(ps))]
       /\ w' = [v EXCEPT !.hh = [e \in DOMAIN @ |->
              IF e \in ps THEN FreedHandle ELSE @[e]]]
       /\ Return

(* Mutant: the counter goes down before the stim is looked up.             *)
TryDelCountsFirst(r, u, a) ==
    IF a = NULL \/ r.missing \/ ~r.w.ok THEN r
    ELSE LET e == HASH_FIND(r.w, r.w.head[u], a)
         IN  IF e = NULL THEN [r EXCEPT !.missing = TRUE, !.count[u] = @ - 1]
             ELSE [r EXCEPT !.w = HASH_DEL(r.w, u, e), !.found = @ \cup {e},
                            !.count[u] = @ - 1]

(* HASH_FIND, then HASH_DEL of what is loaded at address a of unit u.      *)
TryDel(r, u, a) ==
    IF a = NULL \/ r.missing \/ ~r.w.ok THEN r
    ELSE IF ~FindDefined(r.w, r.w.head[u], a) THEN [r EXCEPT !.w.ok = FALSE]
    ELSE LET e == HASH_FIND(r.w, r.w.head[u], a)
         IN  IF e = NULL THEN [r EXCEPT !.missing = TRUE]
             ELSE [r EXCEPT !.w = HASH_DEL(r.w, u, e), !.found = @ \cup {e},
                            !.count[u] = @ - 1]

(* A missing stim of unit a2 is an error after unit a1 has been unloaded.  *)
f_unload(addr) ==
    LET r0 == [w |-> w, missing |-> FALSE, found |-> {}, count |-> _num_loaded_stims]
        r  == TryDel(TryDel(r0, "a1", addr["a1"]), "a2", addr["a2"])
    IN  /\ Running
        /\ _num_loaded_stims' = r.count
        /\ \/ /\ ~r.w.ok
              /\ Undefined("table") /\ w' = r.w /\ UNCHANGED <<stims, profiles>>
           \/ /\ r.w.ok /\ r.missing
              /\ fe_error("no stim loaded") /\ w' = r.w /\ UNCHANGED <<stims, profiles>>
           \/ /\ r.w.ok /\ ~r.missing
              /\ FreePrgmStims(r.found, r.w)
        /\ UNCHANGED <<_profile, prgm_stims, _cur_stim_addr, _last_prgm_stim, reserved>>

ElementsOf(q) == {q[i] : i \in DOMAIN q}

f_unload_all ==
    LET i1 == ITER_DEL(w, "a1")
        i2 == ITER_DEL(i1.w, "a2")
        n  == [u \in Units |-> IF u = "a1" THEN Len(i1.visited) ELSE Len(i2.visited)]
    IN  /\ Running
        /\ \/ /\ ~(i1.w.ok /\ i2.w.ok)
              /\ Undefined("table") /\ w' = i1.w
              /\ UNCHANGED <<stims, profiles, _num_loaded_stims, _cur_stim_addr>>
           \/ /\ i1.w.ok /\ i2.w.ok
              /\ _num_loaded_stims' = [u \in Units |-> _num_loaded_stims[u] - n[u]]
              /\ _cur_stim_addr' = [u \in Units |-> 0]
              /\ FreePrgmStims(ElementsOf(i1.visited) \cup ElementsOf(i2.visited), i2.w)
        /\ UNCHANGED <<_profile, prgm_stims, _last_prgm_stim, reserved>>

-----------------------------------------------------------------------------
(* Running and asking for results                                          *)

(* One turn of the loop of _run_stim over its address pairs, without the   *)
(* results and the database rows: nothing else is carried from one pair    *)
(* to the next.                                                            *)
_run_stim(addr) ==
    LET given == {u \in Units : addr[u] # NULL}
        found == [u \in given |-> HASH_FIND(w, w.head[u], addr[u])]
        ps    == {found[u] : u \in given}
    IN  /\ Running
        /\ \/ /\ given = {}
              /\ fe_error("invalid address pair") /\ UNCHANGED _last_prgm_stim
           \/ /\ \E u \in given : ~FindDefined(w, w.head[u], addr[u])
              /\ Undefined("table") /\ UNCHANGED _last_prgm_stim
           \/ /\ given # {} /\ \A u \in given : FindDefined(w, w.head[u], addr[u])
              /\ \/ /\ NULL \in ps
                    /\ fe_error("no stim loaded") /\ UNCHANGED _last_prgm_stim
                 \/ /\ NULL \notin ps /\ Cardinality(ps) = 2
                    /\ fe_error("not a dual stim") /\ UNCHANGED _last_prgm_stim
                 \/ /\ NULL \notin ps /\ Cardinality(ps) = 1
                    /\ \E p \in ps :
                          \/ /\ stims[prgm_stims[p].stim].live
                             /\ _last_prgm_stim' = p /\ Return
                          \/ /\ ~stims[prgm_stims[p].stim].live
                             /\ Undefined("stim") /\ UNCHANGED _last_prgm_stim
        /\ UNCHANGED <<_profile, profiles, stims, prgm_stims, w, _num_loaded_stims,
                       _cur_stim_addr, reserved>>

(* The pins of the last stim that ran are read through its prgm_stim.      *)
LastStimPins ==
    /\ Running
    /\ \/ /\ _last_prgm_stim = NULL /\ Return
       \/ /\ _last_prgm_stim # NULL
          /\ \/ /\ Live(w, _last_prgm_stim) /\ stims[prgm_stims[_last_prgm_stim].stim].live
                /\ Return
             \/ /\ ~(Live(w, _last_prgm_stim) /\ stims[prgm_stims[_last_prgm_stim].stim].live)
                /\ Undefined("last")
    /\ UNCHANGED <<_profile, profiles, stims, prgm_stims, w, _num_loaded_stims,
                   _cur_stim_addr, _last_prgm_stim, reserved>>

f_get_pin_names == LastStimPins
f_get_fail_pins == LastStimPins

-----------------------------------------------------------------------------

prgm_create ==
    /\ _profile = NULL
    /\ profiles = <<>> /\ stims = <<>> /\ prgm_stims = <<>>
    /\ w = [head |-> [u \in Units |-> NULL], hh |-> <<>>, tbl |-> <<>>, ok |-> TRUE]
    /\ _num_loaded_stims = [u \in Units |-> 0]
    /\ _cur_stim_addr = [u \in Units |-> 0]
    /\ _last_prgm_stim = NULL
    /\ reserved = [u \in Units |-> [b \in 0 .. MaxAddr |-> NULL]]
    /\ state = "running"

(* The addresses the program has seen, and nil.                            *)
AddrPairs ==
    [Units -> {prgm_stims[p].addr[u] : p \in DOMAIN prgm_stims, u \in Units} \cup {NULL}]

PrgmNext ==
    \/ f_set_profile
    \/ \E mode \in Modes, size \in Sizes : f_reads(mode, size) \/ f_load(mode, size)
    \/ \E s \in DOMAIN stims : f_writes(s) \/ f_loads(s) \/ \E a \in LoadaAddrs : f_loada(s, a)
    \/ \E addr \in AddrPairs : f_unload(addr) \/ _run_stim(addr)
    \/ f_unload_all
    \/ f_get_pin_names \/ f_get_fail_pins

PrgmSpec == prgm_create /\ [][PrgmNext]_prgmVars

-----------------------------------------------------------------------------
(* Properties                                                              *)

PrgmStims == DOMAIN prgm_stims

(* The objects a program holds are of their types.                         *)
PrgmTypeOK ==
    /\ _profile \in DOMAIN profiles \cup {NULL}
    /\ \A f \in DOMAIN profiles : profiles[f] \in BOOLEAN
    /\ \A s \in DOMAIN stims :
          stims[s] \in [mode : Modes, size : Sizes, profile : DOMAIN profiles, live : BOOLEAN]
    /\ \A p \in PrgmStims :
          prgm_stims[p] \in [addr : [Units -> Nat], stim : DOMAIN stims,
                             how : {"load", "loads", "loada"}]
    /\ DOMAIN w.hh = PrgmStims
    /\ w.head \in [Units -> PrgmStims \cup {NULL}]
    /\ _num_loaded_stims \in [Units -> Nat]
    /\ _cur_stim_addr \in [Units -> Nat]
    /\ _last_prgm_stim \in PrgmStims \cup {NULL}
    /\ reserved \in [Units -> [0 .. MaxAddr -> PrgmStims \cup {NULL}]]
    /\ state \in {"running", "exited", "table", "stim", "profile", "last"}

(* Whatever was loaded and unloaded, in any order, with failed calls in    *)
(* between: each unit's table is sound, holds only stims of that unit,     *)
(* under their own addresses, and as many as the unit's counter says       *)
(* (prgm.c:191-243, prgm.c:586-606).                                       *)
TablesSound ==
    Running => \A u \in Units :
        LET items == Items(w, w.head[u])
        IN  /\ Sound(w, w.head[u])
            /\ Len(items) = _num_loaded_stims[u]
            /\ \A e \in ElementsOf(items) :
                  /\ u \in UnitsOf(stims[prgm_stims[e].stim].mode)
                  /\ w.hh[e].key = prgm_stims[e].addr[u]

(* The tester memory of a stim loaded by load or loads is not loaded over  *)
(* while the stim is in its unit's table, but by loada ("this can and will *)
(* overwrite tester memory", prgm.c:532).                                  *)
SequentialIntact ==
    Running => \A u \in Units : \A p \in ElementsOf(Items(w, w.head[u])) :
        prgm_stims[p].how # "loada" =>
            LET a == prgm_stims[p].addr[u]
                q == {reserved[u][b] :
                         b \in (a .. a + stims[prgm_stims[p].stim].size - 1) \cap 0 .. MaxAddr}
            IN  \A x \in q : x = p \/ prgm_stims[x].how = "loada"

(* The call that is being made created a prgm_stim.                        *)
Loading == Len(prgm_stims') > Len(prgm_stims)
Loaded  == prgm_stims'[Len(prgm_stims')]

(* "Sequentially loads the test pattern stim into tester memory after the  *)
(* previously loaded test pattern" (prgm.c:475, prgm.c:502): the place for *)
(* the next stim is free, unless loada was used to put a stim there, so    *)
(* load and loads are not refused.                                         *)
SequentialAccepted ==
    [][Loading /\ Loaded.how # "loada" /\ state' = "running"
          /\ _num_loaded_stims' = _num_loaded_stims
       => \E p \in PrgmStims : prgm_stims[p].how = "loada" /\ Live(w, p)
             /\ \E u \in Units : prgm_stims[p].addr[u] = Loaded.addr[u]]_prgmVars

(* What run and unload find at the addresses of a unit.                    *)
Found ==
    [u \in Units |->
        LET addrs == {prgm_stims[p].addr[u] : p \in PrgmStims}
        IN  {e \in addrs \X PrgmStims : HASH_FIND(w, w.head[u], e[1]) = e[2]}]

Dir == INSTANCE StimDirectory WITH dir <- Found

(* Every call changes what is found the way StimDirectory says, or not at  *)
(* all: a load enters its stim in all its units or in none, an unload      *)
(* removes what it was given and no other stim is lost or moved.           *)
DirectoryKept ==
    [][state' = "running" =>
          \/ Found' = Found
          \/ Loading /\ Dir!Load(Len(prgm_stims'), UnitsOf(stims'[Loaded.stim].mode), Loaded.addr)
          \/ \E addr \in AddrPairs : \E us \in SUBSET Units :
                 (\A u \in us : addr[u] # NULL) /\ Dir!Unload(us, addr)
          \/ Dir!UnloadAll]_prgmVars

(* "Unloads a stim at the address pair given" (prgm.c:557): no call uses   *)
(* the record of a table that has been freed.                              *)
NoFreedTable == state # "table"

(* "Unloads all stims" (prgm.c:639), "only free prgm_stims once"           *)
(* (prgm.c:697): no call uses or frees a profile that has been freed.      *)
NoFreedProfile == state # "profile"

=============================================================================
