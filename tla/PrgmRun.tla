------------------------------ MODULE PrgmRun ------------------------------
(***************************************************************************)
(* A test program from its creation to its end (prgm_create, prgm_open,    *)
(* prgm_run, prgm_repl, prgm_close, prgm_free, exit), the profiles it sets *)
(* and shares with its stims, the loop of run and runc over the address    *)
(* pairs they are given, and the two kinds of database rows that keep the  *)
(* results (src/prgm.c, src/db.c).                                         *)
(*                                                                         *)
(* A pair of addresses is what the tables of loaded stims make of it: a    *)
(* stim, two different stims ("mixed"), or nothing that can run            *)
(* ("invalid").  Processes follow one another on the same database: each   *)
(* may die at any step, and another process may change the state column of *)
(* the program's row, whose start date it has set.                         *)
(***************************************************************************)
EXTENDS Integers, Sequences

CONSTANTS
    Stims,      \* the stims that are loaded
    Cycles,     \* the test cycles artix_run_stim reports
    ZONE,       \* how far the tester's local time is ahead of UTC
    MaxArgs,    \* bound: address pairs of one call
    MaxRows,    \* bound: rows of the table stims and profiles of a program, together
    MaxStims,   \* bound: stims made under one profile and not freed
    NULL

ASSUME PrgmRunAssumption ==
    /\ Cycles \subseteq Nat /\ ZONE \in Int
    /\ {MaxArgs, MaxRows, MaxStims} \subseteq Nat
    /\ NULL \notin Stims /\ {"mixed", "invalid"} \cap Stims = {}

VARIABLES
    prgm,     \* struct prgm: the fields of the file and of the database
    repl,     \* the input prgm_repl reads: "none", "file" or "stdin"
    handler,  \* is _fe_onerror the error handler of the fe context?
    profiles, \* the program's profiles: still allocated? stims that point to it
    call,     \* the locals of _run_stim; history: what it was given and what ran
    stims,    \* the rows of table stims, in the order of their ids
    prgms,    \* the row of the program in table prgms
    defined,  \* FALSE once the program has done what C does not define
    verdicts, \* history: what artix_run_stim returned for each row, or NULL
    spoilt,   \* history: malloc gave prgm_create memory that was not zero
    closed,   \* history: this program was closed with a database attached
    overlap   \* history: another process wrote the row during this call

vars == <<prgm, repl, handler, profiles, call, stims, prgms, defined, verdicts,
          spoilt, closed, overlap>>

rows == <<stims, prgms, verdicts>>

PRGM_ID == 1
NONE    == -1
START   == 2    \* when the program was started
Pairs   == Stims \cup {"mixed", "invalid"}
Args    == UNION {[1 .. n -> Pairs] : n \in 0 .. MaxArgs}

Attached == prgm._db_prgm_id >= 0 /\ prgm._db # "NULL"

(* The process is gone, with all it had in memory.                         *)
ProcessEnds ==
    /\ prgm' = NULL /\ repl' = "none" /\ handler' = FALSE /\ call' = NULL /\ profiles' = <<>>
    /\ spoilt' = FALSE /\ closed' = FALSE /\ overlap' = FALSE
    /\ UNCHANGED <<stims, prgms, verdicts>>

die == ProcessEnds /\ UNCHANGED defined

Undefined ==
    /\ defined' = FALSE
    /\ UNCHANGED <<prgm, repl, handler, profiles, call, stims, prgms, verdicts,
                   spoilt, closed, overlap>>

-----------------------------------------------------------------------------
(* Life cycle                                                              *)

(* The fields is_path_open, path and _db_path keep what malloc found.      *)
prgm_create ==
    /\ defined /\ prgm = NULL
    /\ \E open \in BOOLEAN, path, db_path \in {"null", "garbage"} :
          /\ prgm' = [is_path_open |-> open, path |-> path, _db_path |-> db_path,
                      _path_fp |-> "NULL", _db |-> "NULL", _db_prgm_id |-> NONE]
          /\ spoilt' = (open \/ path = "garbage" \/ db_path = "garbage")
    /\ closed' = FALSE /\ profiles' = <<>>
    /\ UNCHANGED <<repl, handler, call, stims, prgms, defined, verdicts, overlap>>

(* The owner of the program acts: no program text is being evaluated.      *)
Owner == defined /\ prgm # NULL /\ repl = "none"

(* With db_prgm_id -1 the database of an earlier open stays where it is.   *)
prgm_open(db_prgm_id) ==
    /\ Owner
    /\ \/ prgm.is_path_open /\ die
       \/ ~prgm.is_path_open /\ db_prgm_id \notin {NONE, PRGM_ID} /\ die
       \/ /\ ~prgm.is_path_open
          /\ \/ /\ db_prgm_id = NONE
                /\ prgm' = [prgm EXCEPT !.is_path_open = TRUE, !.path = "set",
                                        !._path_fp = "open", !._db_prgm_id = NONE]
             \/ /\ db_prgm_id = PRGM_ID
                /\ prgm' = [prgm EXCEPT !.is_path_open = TRUE, !.path = "set",
                                        !._path_fp = "open", !._db_prgm_id = PRGM_ID,
                                        !._db_path = "set", !._db = "open"]
          /\ UNCHANGED <<repl, handler, profiles, call, stims, prgms, defined,
                         verdicts, spoilt, closed, overlap>>

(* prgm_close reads through _path_fp.                                      *)
CloseDefined == prgm.is_path_open => prgm._path_fp = "open"

ClosedPrgm ==
    IF ~prgm.is_path_open THEN prgm
    ELSE [prgm EXCEPT !.is_path_open = FALSE, !._path_fp = "closed",
                      !._db = IF @ = "NULL" THEN @ ELSE "closed"]

prgm_close ==
    /\ Owner
    /\ \/ ~CloseDefined /\ Undefined
       \/ /\ CloseDefined
          /\ prgm' = ClosedPrgm
          /\ closed' = (closed \/ (prgm.is_path_open /\ prgm._db # "NULL"))
          /\ UNCHANGED <<repl, handler, profiles, call, stims, prgms, defined,
                         verdicts, spoilt, overlap>>

(* Mutant: db_free does not insist on a closed connection.                 *)
DbFreeAnyway == FALSE

(* db_free dies while the connection is open.                              *)
DbFreeDies == prgm._db = "open"

(* prgm->_profile: the last profile that was set.                          *)
_profile == IF profiles = <<>> THEN NULL ELSE Len(profiles)

ProfileUsable == _profile # NULL => profiles[_profile].live

(* The strings, then the database, then prgm_close: it finds _db freed.    *)
(* The fe context goes, and its error handler with it, then the profile,   *)
(* which unload may have freed before.  Loaded stims are left behind.      *)
prgm_free ==
    /\ Owner
    /\ \/ /\ "garbage" \in {prgm.path, prgm._db_path}
          /\ Undefined
       \/ /\ "garbage" \notin {prgm.path, prgm._db_path} /\ DbFreeDies
          /\ die
       \/ /\ "garbage" \notin {prgm.path, prgm._db_path} /\ ~DbFreeDies
          /\ \/ /\ \/ prgm.is_path_open /\ (prgm._db # "NULL" \/ ~CloseDefined)
                   \/ ~ProfileUsable
                /\ Undefined
             \/ /\ ~prgm.is_path_open \/ (prgm._db = "NULL" /\ CloseDefined)
                /\ ProfileUsable
                /\ prgm' = NULL /\ profiles' = <<>>
                /\ handler' = FALSE /\ spoilt' = FALSE /\ closed' = FALSE
                /\ UNCHANGED <<repl, call, stims, prgms, defined, verdicts, overlap>>

(* prgm_repl on stdin installs the error handler, which then stays.        *)
prgm_repl(input) ==
    /\ repl' = input
    /\ handler' = (handler \/ input = "stdin")
    /\ UNCHANGED <<prgm, profiles, call, stims, prgms, defined, verdicts, spoilt, closed,
                   overlap>>

ReplOnStdin == Owner /\ prgm_repl("stdin")

(* Without a file prgm_repl falls back to stdin, and fseek follows.        *)
prgm_run ==
    /\ Owner
    /\ \/ ~prgm.is_path_open /\ die
       \/ prgm.is_path_open /\ prgm._path_fp # "open" /\ Undefined
       \/ prgm.is_path_open /\ prgm._path_fp = "open" /\ prgm_repl("file")

(* The program text is being read, and no call of run is under way.        *)
Evaluating == defined /\ repl # "none" /\ (call # NULL => call.pc = "returned")

(* Nothing is left to read.                                                *)
ReplEnds ==
    /\ Evaluating
    /\ repl' = "none" /\ call' = NULL
    /\ UNCHANGED <<prgm, handler, profiles, stims, prgms, defined, verdicts, spoilt, closed,
                   overlap>>

(* prgm_close, then exit.                                                  *)
f_exit ==
    /\ Evaluating
    /\ \/ ~CloseDefined /\ Undefined
       \/ CloseDefined /\ die

(* With the handler installed prgm_repl returns EXIT_FAILURE to the owner; *)
(* without it fe ends the process.                                         *)
fe_error ==
    \/ /\ handler
       /\ repl' = "none" /\ call' = NULL
       /\ UNCHANGED <<prgm, handler, profiles, stims, prgms, defined, verdicts,
                      spoilt, closed, overlap>>
    \/ ~handler /\ die

-----------------------------------------------------------------------------
(* Profiles                                                                *)

(* With a database set-profile, reads and load look the mount up first.    *)
_get_nfs_path_Defined == Attached => prgm._db = "open"

KeepButProfiles ==
    UNCHANGED <<prgm, repl, handler, call, stims, prgms, verdicts, spoilt, closed, overlap>>

(* The profile set before is neither freed nor forgotten by its stims.     *)
f_set_profile ==
    /\ Evaluating /\ Len(stims) + Len(profiles) < MaxRows
    /\ \/ ~_get_nfs_path_Defined /\ Undefined
       \/ /\ _get_nfs_path_Defined
          /\ profiles' = Append(profiles, [live |-> TRUE, stims |-> 0])
          /\ UNCHANGED defined /\ KeepButProfiles

(* reads and load: a stim that points to the profile.  After an error, as  *)
(* when load is refused, nobody has the stim.                              *)
f_load ==
    /\ Evaluating
    /\ \/ _profile = NULL /\ fe_error
       \/ _profile # NULL /\ ~(_get_nfs_path_Defined /\ ProfileUsable) /\ Undefined
       \/ /\ _profile # NULL /\ _get_nfs_path_Defined /\ ProfileUsable
          /\ \/ fe_error
             \/ /\ profiles[_profile].stims < MaxStims
                /\ profiles' = [profiles EXCEPT ![_profile].stims = @ + 1]
                /\ UNCHANGED defined /\ KeepButProfiles

Holding == {f \in DOMAIN profiles : profiles[f].stims > 0}

(* unload and unload-all free stims, each with its profile: one stim of    *)
(* each of the profiles fs, or more of one, which is then freed twice.     *)
f_unload(fs) ==
    /\ Evaluating
    /\ \/ fe_error
       \/ (\E f \in fs : ~profiles[f].live) /\ Undefined
       \/ /\ \A f \in fs : profiles[f].live
          /\ profiles' = [f \in DOMAIN profiles |->
                 IF f \in fs THEN [live |-> FALSE, stims |-> profiles[f].stims - 1]
                 ELSE profiles[f]]
          /\ \/ UNCHANGED defined
             \/ (\E f \in fs : profiles[f].stims > 1) /\ defined' = FALSE
          /\ KeepButProfiles

-----------------------------------------------------------------------------
(* run and runc                                                            *)

(* A date column is the second it names, read as UTC, or 0 if it is empty; *)
(* mktime takes what it names for local time, gmtime writes UTC.           *)
util_dt_to_epoch(dt)    == IF dt = 0 THEN 0 ELSE dt - ZONE
util_epoch_to_dt(epoch) == IF epoch <= 0 THEN 0 ELSE epoch

(* Mutant: the row as it was when the program was started.                 *)
RowAtStart == [prgms EXCEPT !.did_fail = FALSE, !.failing_vec = NONE, !.state = "RUNNING"]

(* db_get_prgm_by_id, with the result columns reset in memory.             *)
RowCopy == [prgms EXCEPT !.did_fail = FALSE, !.failing_vec = NONE,
                         !.date_start = util_dt_to_epoch(@)]

_run_stim(args, run_continue) ==
    /\ Evaluating
    /\ Len(stims) + Len(args) + Len(profiles) <= MaxRows
    /\ \/ Attached /\ prgm._db # "open" /\ Undefined
       \/ /\ ~Attached \/ prgm._db = "open"
          /\ call' = [pc |-> "loop", run_continue |-> run_continue, arg |-> args,
                      db_prgm |-> IF Attached THEN RowCopy ELSE NULL,
                      db_stim_id |-> NONE, failed |-> FALSE, test_cycle |-> 0,
                      num_tests_ran |-> 0, did_test_fail |-> FALSE,
                      given |-> args, ran |-> <<>>]
          /\ overlap' = FALSE
          /\ UNCHANGED <<prgm, repl, handler, profiles, stims, prgms, defined,
                         verdicts, spoilt, closed>>

At(pc) == defined /\ call # NULL /\ call.pc = pc

Keep == UNCHANGED <<prgm, repl, handler, profiles, defined, spoilt, closed, overlap>>

(* The next pair: what the tables have for it, and its row.                *)
NextPair ==
    /\ At("loop") /\ call.arg # <<>>
    /\ \/ Head(call.arg) = "invalid" /\ fe_error
       \/ /\ Head(call.arg) # "invalid"
          /\ \/ /\ Attached
                /\ stims' = Append(stims, [path |-> Head(call.arg), did_fail |-> FALSE,
                                           failing_vec |-> NONE, state |-> "PENDING"])
                /\ verdicts' = Append(verdicts, NULL)
                /\ call' = [call EXCEPT !.pc = "run", !.db_stim_id = Len(stims) + 1]
             \/ /\ ~Attached
                /\ call' = [call EXCEPT !.pc = "run"]
                /\ UNCHANGED <<stims, verdicts>>
          /\ UNCHANGED prgms /\ Keep

(* artix_run_stim, with the verdicts ArtixRun is about.                    *)
RunPair ==
    /\ At("run")
    /\ \/ Head(call.arg) = "mixed" /\ fe_error
       \/ /\ Head(call.arg) # "mixed"
          /\ \E failed \in BOOLEAN, test_cycle \in Cycles :
                /\ call' = [call EXCEPT
                       !.pc = IF call.db_stim_id >= 0 /\ call.db_prgm # NULL
                              THEN "save_stim" ELSE "count",
                       !.failed = failed, !.test_cycle = test_cycle,
                       !.ran = Append(@, [stim |-> Head(call.arg), failed |-> failed,
                                          cycle |-> test_cycle])]
                /\ verdicts' = IF call.db_stim_id < 0 THEN verdicts
                               ELSE [verdicts EXCEPT ![call.db_stim_id] =
                                        [failed |-> failed, cycle |-> test_cycle]]
          /\ UNCHANGED <<stims, prgms>> /\ Keep

db_update_stim ==
    stims' = [stims EXCEPT ![call.db_stim_id].did_fail    = call.failed,
                           ![call.db_stim_id].failing_vec = call.test_cycle,
                           ![call.db_stim_id].state       = "DONE"]

(* All columns of the copy are written, the ones nobody here has set too.  *)
db_update_prgm(copy) == prgms' = [copy EXCEPT !.date_start = util_epoch_to_dt(@)]

SavedCopy == [call.db_prgm EXCEPT !.last_stim_id = call.db_stim_id,
                                  !.did_fail = call.failed,
                                  !.failing_vec = call.test_cycle]

(* Mutant: the program's row is saved before the row of its stim.          *)
SaveStimSwapped ==
    /\ At("save_stim")
    /\ db_update_prgm(SavedCopy)
    /\ call' = [call EXCEPT !.pc = "save_prgm", !.db_prgm = SavedCopy]
    /\ UNCHANGED <<stims, verdicts>> /\ Keep

(* Mutant: the result goes to the first row of the program.                *)
SaveFirstStim ==
    /\ At("save_stim")
    /\ stims' = [stims EXCEPT ![1].did_fail = call.failed, ![1].failing_vec = call.test_cycle,
                              ![1].state = "DONE"]
    /\ call' = [call EXCEPT !.pc = "save_prgm"]
    /\ UNCHANGED <<prgms, verdicts>> /\ Keep

SaveStim ==
    /\ At("save_stim")
    /\ db_update_stim
    /\ call' = [call EXCEPT !.pc = "save_prgm"]
    /\ UNCHANGED <<prgms, verdicts>> /\ Keep

SavePrgm ==
    /\ At("save_prgm")
    /\ db_update_prgm(SavedCopy)
    /\ call' = [call EXCEPT !.pc = "count", !.db_prgm = SavedCopy]
    /\ UNCHANGED <<stims, verdicts>> /\ Keep

(* Mutant: a later test that passes takes the failure back.                *)
LastFailed == call.failed

(* Sticky: a failure stays.                                                *)
DidTestFail == call.did_test_fail \/ call.failed

(* run stops at the first failure, runc goes on.                           *)
NextArg == IF ~call.run_continue /\ DidTestFail THEN <<>> ELSE Tail(call.arg)

(* Mutant: a test is counted when it starts and again when it ends.        *)
CountPairTwice ==
    /\ At("count")
    /\ call' = [call EXCEPT !.pc = "loop", !.num_tests_ran = @ + 2,
                            !.did_test_fail = DidTestFail, !.arg = NextArg]
    /\ UNCHANGED rows /\ Keep

CountPair ==
    /\ At("count")
    /\ call' = [call EXCEPT !.pc = "loop", !.num_tests_ran = @ + 1,
                            !.did_test_fail = DidTestFail, !.arg = NextArg]
    /\ UNCHANGED rows /\ Keep

(* Mutant: the loop is left only when every pair given has run.            *)
ReturnAfterAll ==
    /\ At("loop") /\ call.num_tests_ran = Len(call.given)
    /\ call' = [call EXCEPT !.pc = "returned"]
    /\ UNCHANGED rows /\ Keep

Return ==
    /\ At("loop") /\ call.arg = <<>>
    /\ call' = [call EXCEPT !.pc = "returned"]
    /\ UNCHANGED rows /\ Keep

RunStep == NextPair \/ RunPair \/ SaveStim \/ SavePrgm \/ CountPair \/ Return

-----------------------------------------------------------------------------

(* A device or database error, a signal, a crash.                          *)
ProcessDies == defined /\ prgm # NULL /\ die

(* Another process asks for the program to be killed, or takes it back.    *)
OwnerWritesState ==
    /\ defined
    /\ \E s \in {"RUNNING", "KILLING"} \ {prgms.state} : prgms' = [prgms EXCEPT !.state = s]
    /\ overlap' = (call # NULL)
    /\ UNCHANGED <<prgm, repl, handler, profiles, call, stims, defined, verdicts, spoilt,
                   closed>>

Init ==
    /\ prgm = NULL /\ repl = "none" /\ handler = FALSE /\ call = NULL /\ profiles = <<>>
    /\ stims = <<>> /\ verdicts = <<>>
    /\ prgms = [last_stim_id |-> NONE, did_fail |-> FALSE, failing_vec |-> NONE,
                date_start |-> START, state |-> "RUNNING"]
    /\ defined = TRUE
    /\ spoilt = FALSE /\ closed = FALSE /\ overlap = FALSE

Next ==
    \/ prgm_create \/ prgm_close \/ prgm_free \/ prgm_run \/ ReplOnStdin
    \/ \E db_prgm_id \in {NONE, PRGM_ID, PRGM_ID + 1} : prgm_open(db_prgm_id)
    \/ \E args \in Args, run_continue \in BOOLEAN : _run_stim(args, run_continue)
    \/ RunStep
    \/ f_set_profile \/ f_load \/ \E fs \in SUBSET Holding : f_unload(fs)
    \/ ReplEnds \/ f_exit
    \/ ProcessDies \/ OwnerWritesState

(* A call that was made is carried on.                                     *)
Spec == Init /\ [][Next]_vars /\ WF_vars(RunStep)

-----------------------------------------------------------------------------
(* Properties                                                              *)

Verdict == [failed : BOOLEAN, cycle : Cycles]

(* Programs, calls and rows are of their types.                            *)
PrgmRunTypeOK ==
    /\ prgm \in [is_path_open : BOOLEAN, path : {"null", "garbage", "set"},
                 _db_path : {"null", "garbage", "set"},
                 _path_fp : {"NULL", "open", "closed"},
                 _db : {"NULL", "open", "closed"},
                 _db_prgm_id : {NONE, PRGM_ID}] \cup {NULL}
    /\ repl \in {"none", "file", "stdin"}
    /\ {handler, defined, spoilt, closed, overlap} \subseteq BOOLEAN
    /\ \A f \in DOMAIN profiles : profiles[f] \in [live : BOOLEAN, stims : 0 .. MaxStims]
    /\ \A i \in DOMAIN stims :
          stims[i] \in [path : Pairs, did_fail : BOOLEAN, failing_vec : Cycles \cup {NONE},
                        state : {"PENDING", "DONE"}]
    /\ prgms \in [last_stim_id : DOMAIN stims \cup {NONE}, did_fail : BOOLEAN,
                  failing_vec : Cycles \cup {NONE}, date_start : Nat,
                  state : {"RUNNING", "KILLING"}]
    /\ DOMAIN verdicts = DOMAIN stims
    /\ \A i \in DOMAIN verdicts : verdicts[i] \in Verdict \cup {NULL}
    /\ call # NULL =>
          /\ call.db_stim_id \in DOMAIN stims \cup {NONE}
          /\ call.num_tests_ran \in 0 .. Len(call.given)

RowOf(v) == [failed |-> v.did_fail, cycle |-> v.failing_vec]

(* Whatever errors and deaths came in between, a row that says DONE holds  *)
(* the verdict of the run it was made for, and a row that was not saved    *)
(* still says that nothing is known (prgm.c:328-373).                      *)
RowsTell ==
    \A i \in DOMAIN stims :
        \/ stims[i].state = "DONE" /\ RowOf(stims[i]) = verdicts[i]
        \/ stims[i].state = "PENDING" /\ RowOf(stims[i]) = [failed |-> FALSE, cycle |-> NONE]

(* The program's row and the row of its last stim agree at every moment,   *)
(* a process that dies between the two updates included (prgm.c:361-372).  *)
LastRowAgrees ==
    prgms.last_stim_id # NONE =>
        /\ stims[prgms.last_stim_id].state = "DONE"
        /\ RowOf(stims[prgms.last_stim_id]) = RowOf(prgms)

FailedOnes == {i \in DOMAIN call.ran : call.ran[i].failed}

(* What run and runc return: run "stops at the first failing pattern" and  *)
(* runc executes "all stims without stopping" (prgm.c:710, prgm.c:722);    *)
(* the count and the flag are those of what ran; the cycle is that of the  *)
(* last stim that ran, so of a failing one for run, but not for runc; and  *)
(* with a database every stim that ran has its row, saved.                 *)
ResultTold ==
    call # NULL /\ call.pc = "returned" =>
        LET n == Len(call.ran)
        IN  /\ call.num_tests_ran = n
            /\ [i \in 1 .. n |-> call.ran[i].stim] = SubSeq(call.given, 1, n)
            /\ call.did_test_fail = (FailedOnes # {})
            /\ call.run_continue => n = Len(call.given)
            /\ ~call.run_continue => /\ FailedOnes \subseteq {n}
                                     /\ FailedOnes = {} => n = Len(call.given)
            /\ n > 0 => call.test_cycle = call.ran[n].cycle
            /\ call.db_prgm # NULL =>
                  \A i \in 1 .. n :
                      stims[Len(stims) - n + i] =
                          [path |-> call.ran[i].stim, did_fail |-> call.ran[i].failed,
                           failing_vec |-> call.ran[i].cycle, state |-> "DONE"]

(* A profile that was freed is still pointed to, by the program or a stim. *)
StaleProfile ==
    \E f \in DOMAIN profiles : ~profiles[f].live /\ (f = _profile \/ profiles[f].stims > 0)

(* A program that was given zeroed memory does nothing undefined with its  *)
(* file, its database and its profiles before it has been closed, neither  *)
(* by exit, by prgm_free of an open program, nor by running without a      *)
(* file, unless unload has freed a profile that is still in use: the next  *)
(* unload of a stim that shares it, load and prgm_free then use it again   *)
(* (prgm.c:1071-1131, stim.c:1513).  Stims used after unload are Prgm's.   *)
FirstUseDefined == ~defined => spoilt \/ closed \/ StaleProfile

(* The columns run does not set are written back from the copy: what       *)
(* another process set is undone only by a call that was under way when it *)
(* was set (prgm.c:372).  The dates survive because the tester's local     *)
(* time is UTC: util_dt_to_epoch (util.c:323) is wrong in any other zone.  *)
OnlyOverlapUndoes ==
    [][<<prgms'.state, prgms'.date_start>> # <<prgms.state, prgms.date_start>>
           /\ call' # call => overlap]_vars

(* Every call of run and runc ends, by returning, by an error or with the  *)
(* process: time and again none is under way (prgm.c:286-386).             *)
CallEnds == []<>(call = NULL \/ call.pc = "returned" \/ ~defined)

=============================================================================
