--------------------------- MODULE PrgmRun_proofs ---------------------------
(***************************************************************************)
(* Proofs about PrgmRun, for every set of stims, every list of address     *)
(* pairs, every number of rows and every order of calls, errors and deaths.*)
(***************************************************************************)
EXTENDS PrgmRun, TLAPS

-----------------------------------------------------------------------------
(* The inductive invariant                                                 *)

StimRow == [path : Pairs, did_fail : BOOLEAN, failing_vec : Cycles \cup {NONE},
            state : {"PENDING", "DONE"}]
PrgmRow == [last_stim_id : Nat \cup {NONE}, did_fail : BOOLEAN,
            failing_vec : Cycles \cup {NONE}, date_start : Int,
            state : {"RUNNING", "KILLING"}]
Ran == [stim : Pairs, failed : BOOLEAN, cycle : Cycles]
CallRecord == [pc : {"loop", "run", "save_stim", "save_prgm", "count", "returned"},
               run_continue : BOOLEAN, arg : Seq(Pairs), db_prgm : PrgmRow \cup {NULL},
               db_stim_id : Nat \cup {NONE}, failed : BOOLEAN, test_cycle : Nat,
               num_tests_ran : Nat, did_test_fail : BOOLEAN,
               given : Seq(Pairs), ran : Seq(Ran)]
PrgmRecord == [is_path_open : BOOLEAN, path : {"null", "garbage", "set"},
               _db_path : {"null", "garbage", "set"},
               _path_fp : {"NULL", "open", "closed"},
               _db : {"NULL", "open", "closed"},
               _db_prgm_id : {NONE, PRGM_ID}]

(* The rows and the call.                                                  *)
RowTypes ==
    /\ stims \in Seq(StimRow) /\ verdicts \in Seq(Verdict \cup {NULL})
    /\ Len(verdicts) = Len(stims)
    /\ prgms \in PrgmRow /\ prgms.date_start \in Nat
    /\ prgms.last_stim_id \in 1 .. Len(stims) \cup {NONE}

(* A program's profiles, and the stims that point to them.                 *)
Profile == [live : BOOLEAN, stims : 0 .. MaxStims]
ProfileSeq == Seq(Profile)

(* A program that was given zeroed memory has a file pointer while it is   *)
(* open, and its database was closed only by prgm_close.                   *)
Life ==
    /\ prgm \in PrgmRecord \cup {NULL}
    /\ repl \in {"none", "file", "stdin"}
    /\ handler \in BOOLEAN /\ defined \in BOOLEAN /\ spoilt \in BOOLEAN
    /\ profiles \in ProfileSeq
    /\ closed \in BOOLEAN /\ overlap \in BOOLEAN
    /\ call # NULL => repl # "none"
    /\ repl # "none" => prgm # NULL
    /\ (prgm # NULL /\ ~spoilt) =>
           /\ prgm.path # "garbage" /\ prgm._db_path # "garbage"
           /\ prgm.is_path_open => prgm._path_fp = "open"
           /\ prgm._db = "closed" => closed
    /\ ~defined => spoilt \/ closed \/ StaleProfile

(* A stim ran and was not counted yet; a pair has its row already.         *)
Underway(c) == c.pc \in {"save_stim", "save_prgm", "count"}
RowMade(c) == c.pc \in {"run", "save_stim", "save_prgm", "count"}

(* Nothing was left out so far.                                            *)
GoingOn(c) ==
    /\ Len(c.arg) = Len(c.given) - c.num_tests_ran
    /\ \A j \in 1 .. Len(c.arg) : c.arg[j] = c.given[c.num_tests_ran + j]
    /\ ~c.run_continue => \A i \in 1 .. c.num_tests_ran : ~c.ran[i].failed

(* run has met a failure.                                                  *)
Stopped(c) ==
    /\ c.pc \in {"loop", "returned"} /\ ~c.run_continue /\ c.arg = <<>>
    /\ c.num_tests_ran > 0 /\ c.ran[c.num_tests_ran].failed
    /\ \A i \in 1 .. c.num_tests_ran - 1 : ~c.ran[i].failed

(* The locals of _run_stim and what it was given and what ran.             *)
CallHistory(c) ==
    /\ Len(c.ran) = IF Underway(c) THEN c.num_tests_ran + 1 ELSE c.num_tests_ran
    /\ Len(c.ran) <= Len(c.given)
    /\ \A i \in 1 .. Len(c.ran) : c.ran[i].stim = c.given[i]
    /\ c.did_test_fail <=> \E i \in 1 .. c.num_tests_ran : c.ran[i].failed
    /\ Len(c.ran) > 0 => c.test_cycle = c.ran[Len(c.ran)].cycle
    /\ Underway(c) => c.failed = c.ran[Len(c.ran)].failed
    /\ GoingOn(c) \/ Stopped(c)
    /\ c.pc = "returned" => c.arg = <<>>
    /\ RowMade(c) => c.arg # <<>>

(* The row of the i-th stim of the call, saved.                            *)
SavedRow(c, i) == [path |-> c.ran[i].stim, did_fail |-> c.ran[i].failed,
                   failing_vec |-> c.ran[i].cycle, state |-> "DONE"]

RowsBefore(c) == Len(stims) - (IF RowMade(c) THEN c.num_tests_ran + 1 ELSE c.num_tests_ran)

(* The rows of the call are the last ones of the table: those of the stims *)
(* that were counted, then the one being filled.                           *)
CallRows(c) ==
    /\ ~Attached => c.db_stim_id = NONE /\ c.db_prgm = NULL
    /\ (Attached /\ RowMade(c)) => c.db_stim_id = Len(stims) /\ Len(stims) > 0
    /\ c.db_stim_id \in 1 .. Len(stims) \cup {NONE}
    /\ c.pc \in {"save_stim", "save_prgm"} => Attached /\ c.db_prgm # NULL
    /\ (Attached /\ c.pc = "run") =>
           stims[Len(stims)] = [path |-> Head(c.arg), did_fail |-> FALSE,
                                failing_vec |-> NONE, state |-> "PENDING"]
    /\ c.pc = "save_stim" =>
           /\ stims[Len(stims)] = [path |-> c.ran[Len(c.ran)].stim, did_fail |-> FALSE,
                                   failing_vec |-> NONE, state |-> "PENDING"]
           /\ verdicts[Len(stims)] = [failed |-> c.failed, cycle |-> c.test_cycle]
    /\ (c.pc \in {"save_prgm", "count"} /\ c.db_prgm # NULL) =>
           stims[Len(stims)] = SavedRow(c, Len(c.ran))
    /\ c.db_prgm # NULL =>
           /\ RowsBefore(c) \in Nat
           /\ \A i \in 1 .. c.num_tests_ran : stims[RowsBefore(c) + i] = SavedRow(c, i)

(* The copy of the program's row is the row, as far as run does not set    *)
(* it, unless another process wrote meanwhile.                             *)
CopyCurrent(c) ==
    (c.db_prgm # NULL /\ ~overlap) =>
        /\ c.db_prgm.state = prgms.state
        /\ ZONE = 0 => c.db_prgm.date_start = prgms.date_start

CallInv ==
    call # NULL => /\ call \in CallRecord
                   /\ CallHistory(call) /\ CallRows(call) /\ CopyCurrent(call)

IInv == RowTypes /\ Life /\ CallInv /\ RowsTell /\ LastRowAgrees

-----------------------------------------------------------------------------
(* Sequences                                                               *)

(* A list of n pairs is a sequence of pairs.                               *)
LEMMA ArgsType ==
    ASSUME NEW args \in Args
    PROVE  args \in Seq(Pairs)
  <1>1. PICK n \in 0 .. MaxArgs : args \in [1 .. n -> Pairs]  BY DEF Args
  <1>2. n \in Nat  BY PrgmRunAssumption
  <1> QED  BY <1>1, <1>2

(* A row of a table is replaced.                                           *)
LEMMA ExceptFacts ==
    ASSUME NEW S, NEW q \in Seq(S), NEW i \in 1 .. Len(q), NEW v \in S
    PROVE  /\ [q EXCEPT ![i] = v] \in Seq(S)
           /\ Len([q EXCEPT ![i] = v]) = Len(q)
           /\ \A j \in 1 .. Len(q) : [q EXCEPT ![i] = v][j] = IF j = i THEN v ELSE q[j]
  OBVIOUS

(* A row is added to a table.                                              *)
LEMMA AppendFacts ==
    ASSUME NEW S, NEW q \in Seq(S), NEW v \in S
    PROVE  /\ Append(q, v) \in Seq(S)
           /\ Len(Append(q, v)) = Len(q) + 1
           /\ \A j \in 1 .. Len(q) : Append(q, v)[j] = q[j]
           /\ Append(q, v)[Len(q) + 1] = v
  OBVIOUS

(* The rest of a list.                                                     *)
LEMMA TailFacts ==
    ASSUME NEW S, NEW q \in Seq(S), q # <<>>
    PROVE  /\ Len(q) \in Nat \ {0} /\ Head(q) = q[1] /\ Head(q) \in S
           /\ Tail(q) \in Seq(S) /\ Len(Tail(q)) = Len(q) - 1
           /\ \A j \in 1 .. Len(q) - 1 : Tail(q)[j] = q[j + 1]
  OBVIOUS

-----------------------------------------------------------------------------
(* Steps outside a call, and steps that end one                            *)

(* A step that leaves the rows alone, and the call or drops it.            *)
LEMMA QuietStep ==
    ASSUME IInv, Life', UNCHANGED <<stims, prgms, verdicts>>,
           call' = NULL \/ (call' = call /\ prgm' = prgm /\ overlap' = overlap)
    PROVE  IInv'
  <1>1. RowTypes' /\ RowsTell' /\ LastRowAgrees'
    BY DEF IInv, RowTypes, RowsTell, LastRowAgrees, RowOf
  <1>2. CallInv'
    <2>1. CASE call' = NULL  BY <2>1 DEF CallInv
    <2>2. CASE call' # NULL
      <3>1. PICK c : c = call  OBVIOUS
      <3>2. call' = c /\ prgm' = prgm /\ overlap' = overlap /\ c # NULL  BY <2>2, <3>1
      <3>3. c \in CallRecord /\ CallHistory(c) /\ CallRows(c) /\ CopyCurrent(c)
        BY <3>1, <3>2 DEF IInv, CallInv
      <3>4. CallRows(c)' /\ CopyCurrent(c)'
        BY <3>2, <3>3 DEF CallRows, CopyCurrent, Attached, RowsBefore
      <3> QED  BY <3>2, <3>3, <3>4 DEF CallInv
    <2> QED  BY <2>1, <2>2
  <1> QED  BY <1>1, <1>2 DEF IInv

(* The process ends.                                                       *)
LEMMA DieStep ==
    ASSUME IInv, defined, die
    PROVE  IInv'
  <1>1. profiles' \in ProfileSeq  BY DEF die, ProcessEnds, ProfileSeq
  <1>2. Life'  BY <1>1 DEF IInv, Life, die, ProcessEnds
  <1> QED  BY <1>2, QuietStep DEF die, ProcessEnds

(* Whether a profile that was freed is still in use depends on profiles.   *)
LEMMA StaleKept ==
    ASSUME profiles' = profiles
    PROVE  StaleProfile' = StaleProfile
  BY DEF StaleProfile, _profile

(* A program without profiles has none that were freed.                    *)
LEMMA NoProfiles == <<>> \in ProfileSeq
  BY DEF ProfileSeq

(* The profile the program points to was freed.                            *)
LEMMA StaleLast ==
    ASSUME profiles \in ProfileSeq, ~ProfileUsable
    PROVE  StaleProfile
  <1>1. _profile \in DOMAIN profiles /\ ~profiles[_profile].live
    <2>1. profiles # <<>> /\ _profile = Len(profiles) /\ ~profiles[_profile].live
      BY DEF ProfileUsable, _profile
    <2>2. Len(profiles) \in DOMAIN profiles  BY <2>1 DEF ProfileSeq
    <2> QED  BY <2>1, <2>2
  <1> QED  BY <1>1 DEF StaleProfile

(* The program does something undefined, which only a program does that    *)
(* was given memory that was not zero, was closed, or still points to a    *)
(* profile that was freed.                                                 *)
LEMMA UndefinedStep ==
    ASSUME IInv, Undefined, spoilt \/ closed \/ StaleProfile
    PROVE  IInv'
  <1>1. spoilt' \/ closed' \/ StaleProfile'  BY StaleKept DEF Undefined
  <1>2. Life'  BY <1>1 DEF IInv, Life, Undefined
  <1> QED  BY <1>2, QuietStep DEF Undefined

(* An error is raised in the program text.                                 *)
LEMMA ErrorStep ==
    ASSUME IInv, defined, fe_error
    PROVE  IInv'
  <1>1. CASE die  BY <1>1, DieStep
  <1>2. CASE ~die
    <2>1. /\ repl' = "none" /\ call' = NULL
          /\ UNCHANGED <<prgm, handler, profiles, stims, prgms, defined, verdicts,
                         spoilt, closed, overlap>>
      BY <1>2 DEF fe_error
    <2>2. Life'  BY <2>1, StaleKept DEF IInv, Life
    <2> QED  BY <2>1, <2>2, QuietStep
  <1> QED  BY <1>1, <1>2

(* The owner's operations.                                                 *)
LEMMA OwnerStep ==
    ASSUME IInv,
           \/ prgm_create \/ prgm_close \/ prgm_free \/ prgm_run \/ ReplOnStdin
           \/ \E db_prgm_id \in {NONE, PRGM_ID, PRGM_ID + 1} : prgm_open(db_prgm_id)
    PROVE  IInv'
  <1>0. Life  BY DEF IInv
  <1>1. CASE prgm_create
    <2>1. call = NULL /\ call' = NULL  BY <1>0, <1>1 DEF prgm_create, Life
    <2>2. PICK open \in BOOLEAN, path, db_path \in {"null", "garbage"} :
             /\ prgm' = [is_path_open |-> open, path |-> path, _db_path |-> db_path,
                         _path_fp |-> "NULL", _db |-> "NULL", _db_prgm_id |-> NONE]
             /\ spoilt' = (open \/ path = "garbage" \/ db_path = "garbage")
      BY <1>1 DEF prgm_create
    <2>3. spoilt' \in BOOLEAN /\ (~spoilt' => ~open /\ path # "garbage" /\ db_path # "garbage")
      BY <2>2
    <2>4. /\ prgm' \in PrgmRecord /\ prgm'.is_path_open = open /\ prgm'.path = path
          /\ prgm'._db_path = db_path /\ prgm'._db = "NULL"
      BY <2>2 DEF PrgmRecord
    <2>5. closed' = FALSE /\ profiles' \in ProfileSeq /\ defined /\ prgm = NULL
          /\ UNCHANGED <<repl, handler, call, stims, prgms, defined, verdicts, overlap>>
      BY <1>1, NoProfiles DEF prgm_create
    <2>6. Life'  BY <1>0, <2>1, <2>3, <2>4, <2>5 DEF Life
    <2> QED  BY <2>1, <2>5, <2>6, QuietStep
  <1>2. CASE Owner
    <2>0. defined /\ prgm \in PrgmRecord /\ prgm # NULL /\ repl = "none" /\ call = NULL
      BY <1>0, <1>2 DEF Owner, Life
    <2>1. CASE prgm_close
      <3>1. CASE ~CloseDefined /\ Undefined
        <4>1. spoilt  BY <1>0, <2>0, <3>1 DEF CloseDefined, Life
        <4> QED  BY <3>1, <4>1, UndefinedStep
      <3>2. CASE CloseDefined
        <4>1. /\ prgm' = ClosedPrgm /\ closed' = (closed \/ (prgm.is_path_open /\ prgm._db # "NULL"))
              /\ UNCHANGED <<repl, handler, profiles, call, stims, prgms, defined, verdicts,
                             spoilt, overlap>>
          BY <2>1, <3>2 DEF prgm_close
        <4>2. prgm' \in PrgmRecord
          BY <2>0, <4>1 DEF ClosedPrgm, PrgmRecord
        <4>3. /\ prgm'.path = prgm.path /\ prgm'._db_path = prgm._db_path
              /\ prgm.is_path_open => ~prgm'.is_path_open
              /\ prgm.is_path_open => prgm'._db = IF prgm._db = "NULL" THEN "NULL" ELSE "closed"
              /\ ~prgm.is_path_open => prgm' = prgm
          BY <2>0, <4>1 DEF ClosedPrgm, PrgmRecord
        <4>4. closed' \in BOOLEAN  BY <4>1
        <4>5. closed => closed'  BY <4>1
        <4>6. prgm.is_path_open /\ prgm._db # "NULL" => closed'  BY <4>1
        <4>7. Life'
          BY <1>0, <2>0, <4>1, <4>2, <4>3, <4>4, <4>5, <4>6 DEF Life
        <4> QED  BY <2>0, <4>1, <4>7, QuietStep
      <3> QED  BY <2>1, <3>1, <3>2 DEF prgm_close
    <2>2. CASE prgm_free
      <3>1. CASE Undefined /\ "garbage" \in {prgm.path, prgm._db_path}
        <4>1. spoilt  BY <1>0, <2>0, <3>1 DEF Life
        <4> QED  BY <3>1, <4>1, UndefinedStep
      <3>2. CASE die  BY <2>0, <3>2, DieStep
      <3>3. CASE Undefined /\ ~DbFreeDies /\ prgm.is_path_open /\ (prgm._db # "NULL" \/ ~CloseDefined)
        <4>1. prgm._db \in {"NULL", "closed"}  BY <2>0, <3>3 DEF DbFreeDies, PrgmRecord
        <4>2. spoilt \/ closed  BY <1>0, <2>0, <3>3, <4>1 DEF Life, CloseDefined
        <4> QED  BY <3>3, <4>2, UndefinedStep
      <3>4. CASE /\ prgm' = NULL /\ profiles' = <<>>
                 /\ handler' = FALSE /\ spoilt' = FALSE /\ closed' = FALSE
                 /\ UNCHANGED <<repl, call, stims, prgms, defined, verdicts, overlap>>
        <4>1. Life'  BY <1>0, <2>0, <3>4, NoProfiles DEF Life
        <4> QED  BY <2>0, <3>4, <4>1, QuietStep
      <3>5. CASE Undefined /\ ~ProfileUsable
        <4>1. StaleProfile  BY <1>0, <3>5, StaleLast DEF Life
        <4> QED  BY <3>5, <4>1, UndefinedStep
      <3> QED  BY <2>2, <3>1, <3>2, <3>3, <3>4, <3>5 DEF prgm_free
    <2>3. ASSUME NEW input \in {"file", "stdin"}, prgm_repl(input)  PROVE IInv'
      <3>1. Life'  BY <1>0, <2>0, <2>3 DEF Life, prgm_repl
      <3> QED  BY <2>0, <2>3, <3>1, QuietStep DEF prgm_repl
    <2>4. CASE ReplOnStdin  BY <2>3, <2>4 DEF ReplOnStdin
    <2>5. CASE prgm_run
      <3>1. CASE die  BY <2>0, <3>1, DieStep
      <3>2. CASE prgm.is_path_open /\ prgm._path_fp # "open" /\ Undefined
        <4>1. spoilt  BY <1>0, <2>0, <3>2 DEF Life
        <4> QED  BY <3>2, <4>1, UndefinedStep
      <3>3. CASE prgm_repl("file")  BY <2>3, <3>3
      <3> QED  BY <2>5, <3>1, <3>2, <3>3 DEF prgm_run
    <2>6. ASSUME NEW id, prgm_open(id)  PROVE IInv'
      <3>1. CASE die  BY <2>0, <3>1, DieStep
      <3>2. CASE ~die
        <4>1. /\ \/ prgm' = [prgm EXCEPT !.is_path_open = TRUE, !.path = "set",
                                         !._path_fp = "open", !._db_prgm_id = NONE]
                 \/ prgm' = [prgm EXCEPT !.is_path_open = TRUE, !.path = "set",
                                         !._path_fp = "open", !._db_prgm_id = PRGM_ID,
                                         !._db_path = "set", !._db = "open"]
              /\ UNCHANGED <<repl, handler, profiles, call, stims, prgms, defined, verdicts,
                             spoilt, closed, overlap>>
          BY <2>6, <3>2 DEF prgm_open
        <4>2. /\ prgm' \in PrgmRecord /\ prgm'.path = "set" /\ prgm'._path_fp = "open"
              /\ prgm'._db_path \in {prgm._db_path, "set"} /\ prgm'._db \in {prgm._db, "open"}
          BY <2>0, <4>1 DEF PrgmRecord
        <4>3. Life'  BY <1>0, <2>0, <4>1, <4>2 DEF Life
        <4> QED  BY <2>0, <4>1, <4>3, QuietStep
      <3> QED  BY <3>1, <3>2
    <2>7. QED  BY <2>1, <2>2, <2>4, <2>5, <2>6, <1>1
  <1> QED  BY <1>1, <1>2 DEF prgm_close, prgm_free, prgm_run, ReplOnStdin, prgm_open

(* A database that is looked up after it was closed.                       *)
LEMMA NfsPath ==
    ASSUME Life, prgm # NULL, ~_get_nfs_path_Defined
    PROVE  spoilt \/ closed
  <1>1. prgm \in PrgmRecord /\ prgm._db = "closed"
    BY DEF Life, PrgmRecord, _get_nfs_path_Defined, Attached
  <1> QED  BY <1>1 DEF Life

(* A step that changes the profiles, and is undefined only if it leaves    *)
(* one in use that was freed.                                              *)
LEMMA ProfilesChange ==
    ASSUME IInv, defined, KeepButProfiles, profiles' \in ProfileSeq,
           defined' \in BOOLEAN, ~defined' => StaleProfile'
    PROVE  IInv'
  <1>1. Life'  BY DEF IInv, Life, KeepButProfiles
  <1> QED  BY <1>1, QuietStep DEF KeepButProfiles

(* Profiles are set and shared.                                            *)
LEMMA SetOrLoadStep ==
    ASSUME IInv, f_set_profile \/ f_load
    PROVE  IInv'
  <1>0. /\ Life /\ defined /\ prgm # NULL /\ profiles \in ProfileSeq
    BY DEF IInv, Life, f_set_profile, f_load, Evaluating
  <1>1. CASE f_set_profile
    <2>1. CASE ~_get_nfs_path_Defined /\ Undefined  BY <1>0, <2>1, NfsPath, UndefinedStep
    <2>2. CASE ~(~_get_nfs_path_Defined /\ Undefined)
      <3>1. /\ profiles' = Append(profiles, [live |-> TRUE, stims |-> 0])
            /\ UNCHANGED defined /\ KeepButProfiles
        BY <1>1, <2>2 DEF f_set_profile
      <3>2. [live |-> TRUE, stims |-> 0] \in Profile  BY PrgmRunAssumption DEF Profile
      <3>3. profiles' \in ProfileSeq  BY <1>0, <3>1, <3>2, AppendFacts DEF ProfileSeq
      <3> QED  BY <1>0, <3>1, <3>3, ProfilesChange
    <2> QED  BY <2>1, <2>2
  <1>2. CASE f_load
    <2>1. CASE fe_error  BY <1>0, <2>1, ErrorStep
    <2>2. CASE ~(_get_nfs_path_Defined /\ ProfileUsable) /\ Undefined
      <3>1. spoilt \/ closed \/ StaleProfile  BY <1>0, <2>2, NfsPath, StaleLast
      <3> QED  BY <2>2, <3>1, UndefinedStep
    <2>3. CASE /\ _profile # NULL /\ profiles[_profile].stims < MaxStims
               /\ profiles' = [profiles EXCEPT ![_profile].stims = @ + 1]
               /\ UNCHANGED defined /\ KeepButProfiles
      <3>1. _profile \in 1 .. Len(profiles)
        <4>1. profiles # <<>> /\ _profile = Len(profiles)  BY <2>3 DEF _profile
        <4> QED  BY <1>0, <4>1 DEF ProfileSeq
      <3>2. profiles[_profile] \in Profile  BY <1>0, <3>1 DEF ProfileSeq
      <3>3. PICK f : f = [profiles[_profile] EXCEPT !.stims = @ + 1]  OBVIOUS
      <3>4. f \in Profile  BY <2>3, <3>2, <3>3, PrgmRunAssumption DEF Profile
      <3>5. profiles' = [profiles EXCEPT ![_profile] = f]  BY <2>3, <3>3
      <3>6. profiles' \in ProfileSeq
        BY <1>0, <3>1, <3>4, <3>5, ExceptFacts DEF ProfileSeq
      <3> QED  BY <1>0, <2>3, <3>6, ProfilesChange
    <2> QED  BY <1>2, <2>1, <2>2, <2>3 DEF f_load
  <1> QED  BY <1>1, <1>2

(* Stims are unloaded, and free the profiles they share: a profile freed   *)
(* twice in one step has a stim left, or had one when it was freed before. *)
LEMMA UnloadStep ==
    ASSUME IInv, NEW fs \in SUBSET Holding, f_unload(fs)
    PROVE  IInv'
  <1>0. defined /\ prgm # NULL /\ profiles \in ProfileSeq
    BY DEF IInv, Life, f_unload, Evaluating
  <1>1. CASE fe_error  BY <1>0, <1>1, ErrorStep
  <1>2. CASE (\E f \in fs : ~profiles[f].live) /\ Undefined
    <2>1. StaleProfile  BY <1>2 DEF StaleProfile, Holding
    <2> QED  BY <1>2, <2>1, UndefinedStep
  <1>3. CASE ~fe_error /\ ~((\E f \in fs : ~profiles[f].live) /\ Undefined)
    <2>1. /\ KeepButProfiles
          /\ profiles' = [f \in DOMAIN profiles |->
                 IF f \in fs THEN [live |-> FALSE, stims |-> profiles[f].stims - 1]
                 ELSE profiles[f]]
          /\ \/ defined' = defined
             \/ (\E f \in fs : profiles[f].stims > 1) /\ defined' = FALSE
      BY <1>3 DEF f_unload
    <2>2. /\ Len(profiles) \in Nat /\ DOMAIN profiles = 1 .. Len(profiles)
          /\ \A f \in DOMAIN profiles : profiles[f] \in Profile
      BY <1>0 DEF ProfileSeq
    <2>3. ASSUME NEW f \in DOMAIN profiles, f \in fs
          PROVE  [live |-> FALSE, stims |-> profiles[f].stims - 1] \in Profile
      <3>1. profiles[f].stims > 0  BY <2>3 DEF Holding
      <3>2. profiles[f].stims \in 0 .. MaxStims /\ MaxStims \in Nat
        BY <2>2, PrgmRunAssumption DEF Profile
      <3>3. profiles[f].stims - 1 \in 0 .. MaxStims  BY <3>1, <3>2
      <3> QED  BY <3>3 DEF Profile
    <2>4. profiles' \in [1 .. Len(profiles) -> Profile]
      BY <2>1, <2>2, <2>3
    <2>5. profiles' \in ProfileSeq  BY <2>2, <2>4 DEF ProfileSeq
    <2>6. ~defined' => StaleProfile'
      <3> SUFFICES ASSUME ~defined'  PROVE StaleProfile'  OBVIOUS
      <3>1. PICK f \in fs : profiles[f].stims > 1  BY <1>0, <2>1
      <3>2. f \in DOMAIN profiles  BY DEF Holding
      <3>3. profiles[f].stims \in Nat  BY <2>2, <3>2, PrgmRunAssumption DEF Profile
      <3>4. profiles'[f] = [live |-> FALSE, stims |-> profiles[f].stims - 1]
        BY <2>1, <3>2
      <3>5. ~profiles'[f].live /\ profiles'[f].stims > 0  BY <3>1, <3>3, <3>4
      <3>6. f \in DOMAIN profiles'  BY <2>1, <3>2
      <3> QED  BY <3>5, <3>6 DEF StaleProfile
    <2>7. defined' \in BOOLEAN  BY <1>0, <2>1
    <2> QED  BY <1>0, <2>1, <2>5, <2>6, <2>7, ProfilesChange
  <1> QED  BY <1>1, <1>2, <1>3

(* The program text ends, with exit or without.                            *)
LEMMA EndsStep ==
    ASSUME IInv, ReplEnds \/ f_exit \/ ProcessDies
    PROVE  IInv'
  <1>0. Life  BY DEF IInv
  <1>1. CASE ReplEnds
    <2>1. Life'  BY <1>0, <1>1, StaleKept DEF ReplEnds, Life
    <2> QED  BY <1>1, <2>1, QuietStep DEF ReplEnds
  <1>2. CASE f_exit
    <2>1. CASE ~CloseDefined /\ Undefined
      <3>1. spoilt  BY <1>0, <1>2, <2>1 DEF f_exit, Evaluating, CloseDefined, Life
      <3> QED  BY <2>1, <3>1, UndefinedStep
    <2>2. CASE die  BY <1>2, <2>2, DieStep DEF f_exit, Evaluating
    <2> QED  BY <1>2, <2>1, <2>2 DEF f_exit
  <1>3. CASE ProcessDies  BY <1>3, DieStep DEF ProcessDies
  <1> QED  BY <1>1, <1>2, <1>3

-----------------------------------------------------------------------------
(* Steps of a call                                                         *)

(* run or runc is called.                                                  *)
LEMMA CallStep ==
    ASSUME IInv, NEW args \in Args, NEW rc \in BOOLEAN, _run_stim(args, rc)
    PROVE  IInv'
  <1>0. Life /\ RowTypes  BY DEF IInv
  <1>1. prgm \in PrgmRecord /\ prgm # NULL /\ defined /\ repl # "none"
    BY <1>0 DEF _run_stim, Evaluating, Life
  <1>2. CASE Undefined /\ Attached /\ prgm._db # "open"
    <2>1. prgm._db = "closed"  BY <1>1, <1>2 DEF Attached, PrgmRecord
    <2>2. spoilt \/ closed  BY <1>0, <1>1, <2>1 DEF Life
    <2> QED  BY <1>2, <2>2, UndefinedStep
  <1>3. CASE ~(Undefined /\ Attached /\ prgm._db # "open")
    <2>1. PICK e : e = call'  OBVIOUS
    <2>2. /\ e = [pc |-> "loop", run_continue |-> rc, arg |-> args,
                  db_prgm |-> IF Attached THEN RowCopy ELSE NULL,
                  db_stim_id |-> NONE, failed |-> FALSE, test_cycle |-> 0,
                  num_tests_ran |-> 0, did_test_fail |-> FALSE,
                  given |-> args, ran |-> <<>>]
          /\ overlap' = FALSE
          /\ UNCHANGED <<prgm, repl, handler, profiles, stims, prgms, defined, verdicts,
                         spoilt, closed>>
      BY <1>3, <2>1 DEF _run_stim
    <2>3. /\ RowCopy \in PrgmRow /\ RowCopy.state = prgms.state
          /\ ZONE = 0 => RowCopy.date_start = prgms.date_start
      <3>1. util_dt_to_epoch(prgms.date_start) \in Int
            /\ (ZONE = 0 => util_dt_to_epoch(prgms.date_start) = prgms.date_start)
        BY <1>0, PrgmRunAssumption DEF util_dt_to_epoch, RowTypes
      <3>2. prgms \in PrgmRow  BY <1>0 DEF RowTypes
      <3> QED  BY <3>1, <3>2 DEF RowCopy, PrgmRow
    <2>4. args \in Seq(Pairs)  BY ArgsType
    <2>5. /\ e.pc = "loop" /\ e.run_continue = rc /\ e.arg = args /\ e.db_stim_id = NONE
          /\ e.db_prgm = IF Attached THEN RowCopy ELSE NULL
          /\ e.num_tests_ran = 0 /\ e.did_test_fail = FALSE /\ e.given = args /\ e.ran = <<>>
      BY <2>2
    <2>6. e \in CallRecord
      <3>1. <<>> \in Seq(Ran) /\ 0 \in Nat /\ NONE \in Nat \cup {NONE} /\ FALSE \in BOOLEAN  OBVIOUS
      <3>2. (IF Attached THEN RowCopy ELSE NULL) \in PrgmRow \cup {NULL}  BY <2>3
      <3> QED  BY <2>2, <2>4, <3>1, <3>2 DEF CallRecord
    <2>7. CallHistory(e)
      <3>1. Len(e.ran) = 0 /\ Len(e.given) \in Nat  BY <2>4, <2>5
      <3>2. GoingOn(e)  BY <2>4, <2>5 DEF GoingOn
      <3> QED  BY <2>5, <3>1, <3>2 DEF CallHistory, Underway, RowMade
    <2>8. CallRows(e)'
      <3>1. Len(stims) \in Nat  BY <1>0 DEF RowTypes
      <3> QED  BY <2>2, <2>5, <3>1 DEF CallRows, Attached, RowsBefore, RowMade
    <2>9. CopyCurrent(e)'  BY <2>2, <2>3, <2>5 DEF CopyCurrent
    <2>10. RowTypes' /\ RowsTell' /\ LastRowAgrees'
      BY <2>2 DEF IInv, RowTypes, RowsTell, LastRowAgrees, RowOf
    <2>11. Life'  BY <1>0, <1>1, <2>2 DEF Life
    <2> QED  BY <2>1, <2>6, <2>7, <2>8, <2>9, <2>10, <2>11 DEF IInv, CallInv
  <1> QED  BY <1>2, <1>3

(* What holds in the middle of a call, of a step that keeps the program.   *)
LEMMA CallFacts ==
    ASSUME IInv, call # NULL, Keep
    PROVE  /\ call \in CallRecord /\ CallHistory(call) /\ CallRows(call) /\ CopyCurrent(call)
           /\ Life' /\ RowTypes /\ RowsTell /\ LastRowAgrees
           /\ Attached' = Attached /\ Len(stims) \in Nat
  <1>1. Life' /\ Attached' = Attached  BY StaleKept DEF IInv, Life, Keep, Attached
  <1>2. Len(stims) \in Nat  BY DEF IInv, RowTypes
  <1> QED  BY <1>1, <1>2 DEF IInv, CallInv

(* The next pair has its row.                                              *)
LEMMA NextPairStep ==
    ASSUME IInv, NextPair
    PROVE  IInv'
  <1>0. defined /\ call # NULL /\ call.pc = "loop" /\ call.arg # <<>>
    BY DEF NextPair, At
  <1>1. CASE fe_error  BY <1>0, <1>1, ErrorStep
  <1>2. CASE ~fe_error
    <2>0. Keep /\ UNCHANGED prgms  BY <1>2 DEF NextPair
    <2>1. PICK c, e : c = call /\ e = call'  OBVIOUS
    <2>2. /\ c \in CallRecord /\ CallHistory(c) /\ CallRows(c) /\ CopyCurrent(c)
          /\ Life' /\ RowTypes /\ RowsTell /\ LastRowAgrees
          /\ Attached' = Attached /\ Len(stims) \in Nat /\ c.pc = "loop" /\ c.arg # <<>>
      BY <1>0, <2>0, <2>1, CallFacts
    <2>3. GoingOn(c)  BY <2>2 DEF CallHistory, Stopped
    <2>4. CASE Attached
      <3> DEFINE row == [path |-> Head(c.arg), did_fail |-> FALSE,
                         failing_vec |-> NONE, state |-> "PENDING"]
      <3>1. /\ stims' = Append(stims, row) /\ verdicts' = Append(verdicts, NULL)
            /\ e = [c EXCEPT !.pc = "run", !.db_stim_id = Len(stims) + 1]
        BY <1>2, <2>1, <2>4 DEF NextPair
      <3>2. row \in StimRow /\ row.state = "PENDING"
            /\ row.did_fail = FALSE /\ row.failing_vec = NONE
        <4>1. Head(c.arg) \in Pairs  BY <2>2, TailFacts DEF CallRecord
        <4> QED  BY <4>1 DEF StimRow
      <3>3. /\ stims \in Seq(StimRow) /\ verdicts \in Seq(Verdict \cup {NULL})
            /\ Len(verdicts) = Len(stims)
        BY <2>2 DEF RowTypes
      <3>4. /\ stims' \in Seq(StimRow) /\ Len(stims') = Len(stims) + 1
            /\ \A j \in 1 .. Len(stims) : stims'[j] = stims[j]
            /\ stims'[Len(stims) + 1] = row
        <4> HIDE DEF row
        <4> QED  BY <3>1, <3>2, <3>3, AppendFacts
      <3>5. /\ verdicts' \in Seq(Verdict \cup {NULL}) /\ Len(verdicts') = Len(stims) + 1
            /\ \A j \in 1 .. Len(stims) : verdicts'[j] = verdicts[j]
        BY <3>1, <3>3, AppendFacts
      <3>6. /\ e \in CallRecord /\ e.pc = "run" /\ e.db_stim_id = Len(stims) + 1
            /\ e.run_continue = c.run_continue /\ e.arg = c.arg /\ e.db_prgm = c.db_prgm
            /\ e.num_tests_ran = c.num_tests_ran /\ e.did_test_fail = c.did_test_fail
            /\ e.test_cycle = c.test_cycle /\ e.given = c.given /\ e.ran = c.ran
        <4>1. PICK id \in Nat : id = Len(stims) + 1  BY <2>2
        <4>2. e = [c EXCEPT !.pc = "run", !.db_stim_id = id] /\ c \in CallRecord  BY <2>2, <3>1, <4>1
        <4> QED  BY <4>1, <4>2 DEF CallRecord
      <3> HIDE DEF row
      <3>7. CallHistory(e)
        <4>1. GoingOn(e)  BY <2>3, <3>6 DEF GoingOn
        <4> QED  BY <2>2, <3>6, <4>1 DEF CallHistory, Underway, RowMade
      <3>8. CallRows(e)'
        <4>1. c.num_tests_ran \in Nat  BY <2>2 DEF CallRecord
        <4>2. RowsBefore(e)' = RowsBefore(c)
          BY <2>2, <3>4, <3>6, <4>1 DEF RowsBefore, RowMade
        <4>3. ASSUME c.db_prgm # NULL, NEW i \in 1 .. c.num_tests_ran
              PROVE  stims'[RowsBefore(e)' + i] = SavedRow(e, i)
          <5>1. RowsBefore(c) \in Nat /\ RowsBefore(c) = Len(stims) - c.num_tests_ran
            BY <2>2, <4>3 DEF CallRows, RowsBefore, RowMade
          <5>2. RowsBefore(c) + i \in 1 .. Len(stims)  BY <2>2, <4>1, <5>1
          <5>3. stims[RowsBefore(c) + i] = SavedRow(c, i)  BY <2>2, <4>3 DEF CallRows
          <5> QED  BY <3>4, <3>6, <4>2, <5>2, <5>3 DEF SavedRow
        <4>4. c.db_prgm # NULL => RowsBefore(e)' \in Nat  BY <2>2, <4>2 DEF CallRows
        <4>5. stims'[Len(stims')] = [path |-> Head(e.arg), did_fail |-> FALSE,
                                     failing_vec |-> NONE, state |-> "PENDING"]
          BY <3>4, <3>6 DEF row
        <4>6. e.db_stim_id = Len(stims') /\ Len(stims') > 0 /\ e.db_stim_id \in 1 .. Len(stims')
          BY <2>2, <3>4, <3>6
        <4> QED  BY <2>2, <2>4, <3>6, <4>3, <4>4, <4>5, <4>6 DEF CallRows, RowMade
      <3>9. CopyCurrent(e)'  BY <2>0, <2>2, <3>6 DEF CopyCurrent, Keep
      <3>10. RowTypes'
        <4>1. prgms.last_stim_id \in 1 .. Len(stims) \cup {NONE}  BY <2>2 DEF RowTypes
        <4>2. prgms.last_stim_id \in 1 .. Len(stims') \cup {NONE}  BY <2>2, <3>4, <4>1
        <4> QED  BY <2>0, <2>2, <3>4, <3>5, <4>2 DEF RowTypes
      <3>11. RowsTell'
        <4>1. DOMAIN stims = 1 .. Len(stims) /\ DOMAIN stims' = 1 .. Len(stims) + 1
          BY <3>3, <3>4
        <4>2. ASSUME NEW i \in 1 .. Len(stims)
              PROVE  \/ stims'[i].state = "DONE" /\ RowOf(stims'[i]) = verdicts'[i]
                     \/ stims'[i].state = "PENDING" /\ RowOf(stims'[i]) = [failed |-> FALSE, cycle |-> NONE]
          BY <2>2, <3>4, <3>5, <4>1 DEF RowsTell
        <4>3. stims'[Len(stims) + 1].state = "PENDING"
              /\ RowOf(stims'[Len(stims) + 1]) = [failed |-> FALSE, cycle |-> NONE]
          BY <3>2, <3>4 DEF RowOf
        <4>4. \A i \in 1 .. Len(stims) + 1 : i \in 1 .. Len(stims) \/ i = Len(stims) + 1
          BY <2>2
        <4> QED  BY <4>1, <4>2, <4>3, <4>4 DEF RowsTell
      <3>12. LastRowAgrees'
        BY <2>0, <2>2, <3>4 DEF LastRowAgrees, RowTypes, RowOf
      <3> QED  BY <2>1, <2>2, <3>6, <3>7, <3>8, <3>9, <3>10, <3>11, <3>12 DEF IInv, CallInv
    <2>5. CASE ~Attached
      <3>1. /\ UNCHANGED <<stims, verdicts>> /\ e = [c EXCEPT !.pc = "run"]
        BY <1>2, <2>1, <2>5 DEF NextPair
      <3>2. /\ e \in CallRecord /\ e.pc = "run" /\ e.db_stim_id = c.db_stim_id
            /\ e.run_continue = c.run_continue /\ e.arg = c.arg /\ e.db_prgm = c.db_prgm
            /\ e.num_tests_ran = c.num_tests_ran /\ e.did_test_fail = c.did_test_fail
            /\ e.test_cycle = c.test_cycle /\ e.given = c.given /\ e.ran = c.ran
        BY <2>2, <3>1 DEF CallRecord
      <3>3. CallHistory(e)
        <4>1. GoingOn(e)  BY <2>3, <3>2 DEF GoingOn
        <4> QED  BY <2>2, <3>2, <4>1 DEF CallHistory, Underway, RowMade
      <3>4. CallRows(e)'  BY <2>2, <2>5, <3>2 DEF CallRows
      <3>5. CopyCurrent(e)'  BY <2>2, <2>5, <3>2 DEF CopyCurrent, CallRows
      <3>6. RowTypes' /\ RowsTell' /\ LastRowAgrees'
        BY <2>0, <2>2, <3>1 DEF RowTypes, RowsTell, LastRowAgrees, RowOf
      <3> QED  BY <2>1, <2>2, <3>2, <3>3, <3>4, <3>5, <3>6 DEF IInv, CallInv
    <2> QED  BY <2>4, <2>5
  <1> QED  BY <1>1, <1>2

(* artix_run_stim has returned.                                            *)
LEMMA RunPairStep ==
    ASSUME IInv, RunPair
    PROVE  IInv'
  <1>0. defined /\ call # NULL /\ call.pc = "run"  BY DEF RunPair, At
  <1>1. CASE fe_error  BY <1>0, <1>1, ErrorStep
  <1>2. CASE ~fe_error
    <2>0. Keep /\ UNCHANGED <<stims, prgms>>  BY <1>2 DEF RunPair
    <2>1. PICK c, e : c = call /\ e = call'  OBVIOUS
    <2>2. /\ c \in CallRecord /\ CallHistory(c) /\ CallRows(c) /\ CopyCurrent(c)
          /\ Life' /\ RowTypes /\ RowsTell /\ LastRowAgrees
          /\ Attached' = Attached /\ Len(stims) \in Nat /\ c.pc = "run"
      BY <1>0, <2>0, <2>1, CallFacts
    <2>3. PICK failed \in BOOLEAN, cycle \in Cycles :
             /\ e = [c EXCEPT !.pc = IF c.db_stim_id >= 0 /\ c.db_prgm # NULL
                                     THEN "save_stim" ELSE "count",
                              !.failed = failed, !.test_cycle = cycle,
                              !.ran = Append(@, [stim |-> Head(c.arg), failed |-> failed,
                                                 cycle |-> cycle])]
             /\ verdicts' = IF c.db_stim_id < 0 THEN verdicts
                            ELSE [verdicts EXCEPT ![c.db_stim_id] =
                                     [failed |-> failed, cycle |-> cycle]]
      BY <1>2, <2>1 DEF RunPair
    <2>4. GoingOn(c) /\ c.arg # <<>> /\ c.arg \in Seq(Pairs) /\ c.given \in Seq(Pairs)
          /\ c.num_tests_ran \in Nat /\ c.ran \in Seq(Ran) /\ Len(c.ran) = c.num_tests_ran
      BY <2>2 DEF CallHistory, Stopped, CallRecord, RowMade, Underway
    <2>5. /\ Len(c.arg) \in Nat \ {0} /\ Head(c.arg) = c.arg[1] /\ Head(c.arg) \in Pairs
          /\ Len(c.given) \in Nat
      BY <2>4, TailFacts
    <2> DEFINE n == c.num_tests_ran
               r == [stim |-> Head(c.arg), failed |-> failed, cycle |-> cycle]
               v == [failed |-> failed, cycle |-> cycle]
    <2>6. Head(c.arg) = c.given[n + 1] /\ n + 1 <= Len(c.given)
      BY <2>4, <2>5 DEF GoingOn
    <2>7. r \in Ran /\ r.stim = Head(c.arg) /\ r.failed = failed /\ r.cycle = cycle
          /\ v \in Verdict
      BY <2>5 DEF Ran, Verdict
    <2>8. /\ Append(c.ran, r) \in Seq(Ran) /\ Len(Append(c.ran, r)) = n + 1
          /\ \A j \in 1 .. n : Append(c.ran, r)[j] = c.ran[j]
          /\ Append(c.ran, r)[n + 1] = r
      <3> HIDE DEF r
      <3> QED  BY <2>4, <2>7, AppendFacts
    <2> HIDE DEF v
    <2>9. /\ e \in CallRecord /\ e.failed = failed /\ e.test_cycle = cycle
          /\ e.pc = IF c.db_stim_id >= 0 /\ c.db_prgm # NULL THEN "save_stim" ELSE "count"
          /\ e.ran = Append(c.ran, r) /\ e.db_stim_id = c.db_stim_id
          /\ e.run_continue = c.run_continue /\ e.arg = c.arg /\ e.db_prgm = c.db_prgm
          /\ e.num_tests_ran = n /\ e.did_test_fail = c.did_test_fail /\ e.given = c.given
      <3> HIDE DEF r
      <3>1. PICK x \in {"save_stim", "count"} :
               x = IF c.db_stim_id >= 0 /\ c.db_prgm # NULL THEN "save_stim" ELSE "count"
        OBVIOUS
      <3>2. PICK q \in Seq(Ran) : q = Append(c.ran, r)  BY <2>8
      <3>3. /\ e = [c EXCEPT !.pc = x, !.failed = failed, !.test_cycle = cycle, !.ran = q]
            /\ c \in CallRecord /\ cycle \in Nat
        BY <2>2, <2>3, <3>1, <3>2, PrgmRunAssumption DEF r
      <3> QED  BY <3>1, <3>2, <3>3 DEF CallRecord
    <2>10. Underway(e) /\ RowMade(e) /\ e.pc # "run" /\ e.pc # "save_prgm"
      BY <2>9 DEF Underway, RowMade
    <2>11. CallHistory(e)
      <3>1. GoingOn(e)  BY <2>4, <2>8, <2>9 DEF GoingOn
      <3>2. \A i \in 1 .. Len(e.ran) : e.ran[i].stim = e.given[i]
        <4>1. ASSUME NEW i \in 1 .. n  PROVE e.ran[i].stim = e.given[i]
          BY <2>2, <2>4, <2>8, <2>9 DEF CallHistory
        <4>2. e.ran[n + 1].stim = e.given[n + 1]  BY <2>6, <2>7, <2>8, <2>9
        <4> QED  BY <2>4, <2>8, <2>9, <4>1, <4>2
      <3>3. e.did_test_fail <=> \E i \in 1 .. e.num_tests_ran : e.ran[i].failed
        BY <2>2, <2>8, <2>9 DEF CallHistory
      <3>4. e.test_cycle = e.ran[Len(e.ran)].cycle /\ e.failed = e.ran[Len(e.ran)].failed
        BY <2>7, <2>8, <2>9
      <3> QED  BY <2>4, <2>6, <2>8, <2>9, <2>10, <3>1, <3>2, <3>3, <3>4 DEF CallHistory
    <2>12. Attached => c.db_stim_id = Len(stims) /\ Len(stims) > 0
                       /\ stims[Len(stims)] = [path |-> Head(c.arg), did_fail |-> FALSE,
                                               failing_vec |-> NONE, state |-> "PENDING"]
      BY <2>2 DEF CallRows, RowMade
    <2>13. ~Attached => c.db_stim_id = NONE /\ c.db_prgm = NULL  BY <2>2 DEF CallRows
    <2>14. /\ verdicts \in Seq(Verdict \cup {NULL}) /\ Len(verdicts) = Len(stims)
           /\ stims \in Seq(StimRow)
      BY <2>2 DEF RowTypes
    <2>15. /\ verdicts' \in Seq(Verdict \cup {NULL}) /\ Len(verdicts') = Len(stims)
           /\ Attached => verdicts'[Len(stims)] = v
           /\ \A j \in 1 .. Len(stims) : verdicts'[j] = verdicts[j] \/ (Attached /\ j = Len(stims))
      <3>1. CASE Attached
        <4>1. c.db_stim_id \in 1 .. Len(verdicts) /\ ~(c.db_stim_id < 0)  BY <2>2, <2>12, <2>14, <3>1
        <4>2. verdicts' = [verdicts EXCEPT ![c.db_stim_id] = v]  BY <2>3, <4>1 DEF v
        <4>3. v \in Verdict \cup {NULL}  BY <2>7
        <4> QED  BY <2>12, <2>14, <3>1, <4>1, <4>2, <4>3, ExceptFacts
      <3>2. CASE ~Attached
        <4>1. c.db_stim_id < 0  BY <2>13, <3>2 DEF NONE
        <4> QED  BY <2>3, <2>14, <3>2, <4>1
      <3> QED  BY <3>1, <3>2
    <2>16. CallRows(e)'
      <3>1. RowsBefore(e)' = RowsBefore(c)
        BY <2>0, <2>2, <2>9, <2>10 DEF RowsBefore, RowMade
      <3>2. \A i \in 1 .. n : SavedRow(e, i) = SavedRow(c, i)  BY <2>8, <2>9 DEF SavedRow
      <3>3. e.pc = "save_stim" => Attached /\ e.db_prgm # NULL
        BY <2>9, <2>13 DEF NONE
      <3>4. e.pc = "save_stim" =>
               /\ stims[Len(stims)] = [path |-> e.ran[Len(e.ran)].stim, did_fail |-> FALSE,
                                       failing_vec |-> NONE, state |-> "PENDING"]
               /\ verdicts'[Len(stims)] = [failed |-> e.failed, cycle |-> e.test_cycle]
        <4>1. e.ran[Len(e.ran)].stim = Head(c.arg)  BY <2>7, <2>8, <2>9
        <4>2. v = [failed |-> e.failed, cycle |-> e.test_cycle]  BY <2>9 DEF v
        <4> QED  BY <2>12, <2>15, <3>3, <4>1, <4>2
      <3>5. e.pc = "count" => e.db_prgm = NULL
        BY <2>2, <2>9, <2>12, <2>13
      <3>6. c.db_prgm # NULL =>
               /\ RowsBefore(c) \in Nat
               /\ \A i \in 1 .. n : stims[RowsBefore(c) + i] = SavedRow(c, i)
        BY <2>2 DEF CallRows
      <3>7. c.db_stim_id \in 1 .. Len(stims) \cup {NONE}  BY <2>2 DEF CallRows
      <3>8. stims' = stims  BY <2>0
      <3> QED  BY <2>2, <2>9, <2>10, <2>12, <2>13, <3>1, <3>2, <3>3, <3>4, <3>5, <3>6, <3>7, <3>8
               DEF CallRows
    <2>17. CopyCurrent(e)'  BY <2>0, <2>2, <2>9 DEF CopyCurrent, Keep
    <2>18. RowTypes'  BY <2>0, <2>2, <2>15 DEF RowTypes
    <2>19. RowsTell'
      <3>1. DOMAIN stims = 1 .. Len(stims) /\ stims' = stims  BY <2>0, <2>14
      <3>2. Attached => /\ stims[Len(stims)].state = "PENDING"
                        /\ RowOf(stims[Len(stims)]) = [failed |-> FALSE, cycle |-> NONE]
        <4>1. Attached => /\ stims[Len(stims)].state = "PENDING"
                          /\ stims[Len(stims)].did_fail = FALSE
                          /\ stims[Len(stims)].failing_vec = NONE
          BY <2>12
        <4> QED  BY <4>1 DEF RowOf
      <3> QED  BY <2>2, <2>15, <3>1, <3>2 DEF RowsTell
    <2>20. LastRowAgrees'  BY <2>0, <2>2 DEF LastRowAgrees, RowOf
    <2> QED  BY <2>1, <2>2, <2>9, <2>11, <2>16, <2>17, <2>18, <2>19, <2>20 DEF IInv, CallInv
  <1> QED  BY <1>1, <1>2

(* The row of the stim is saved.                                           *)
LEMMA SaveStimStep ==
    ASSUME IInv, SaveStim
    PROVE  IInv'
  <1>0. /\ defined /\ call # NULL /\ call.pc = "save_stim" /\ Keep
        /\ UNCHANGED <<prgms, verdicts>>
    BY DEF SaveStim, At
  <1>1. PICK c, e : c = call /\ e = call'  OBVIOUS
  <1>2. /\ c \in CallRecord /\ CallHistory(c) /\ CallRows(c) /\ CopyCurrent(c)
        /\ Life' /\ RowTypes /\ RowsTell /\ LastRowAgrees
        /\ Attached' = Attached /\ Len(stims) \in Nat /\ c.pc = "save_stim"
    BY <1>0, <1>1, CallFacts
  <1> DEFINE n == c.num_tests_ran
             last == Len(stims)
             row == SavedRow(c, n + 1)
  <1>3. /\ Attached /\ c.db_prgm # NULL /\ c.db_stim_id = last /\ last > 0
        /\ stims[last] = [path |-> c.ran[Len(c.ran)].stim, did_fail |-> FALSE,
                          failing_vec |-> NONE, state |-> "PENDING"]
        /\ verdicts[last] = [failed |-> c.failed, cycle |-> c.test_cycle]
        /\ RowsBefore(c) \in Nat
        /\ \A i \in 1 .. n : stims[RowsBefore(c) + i] = SavedRow(c, i)
    BY <1>2 DEF CallRows, RowMade
  <1>4. /\ n \in Nat /\ Len(c.ran) = n + 1 /\ c.ran \in Seq(Ran) /\ c.ran[n + 1] \in Ran
        /\ c.failed = c.ran[n + 1].failed /\ c.test_cycle = c.ran[n + 1].cycle
    <2>1. /\ n \in Nat /\ Len(c.ran) = n + 1 /\ c.ran \in Seq(Ran)
      BY <1>2 DEF CallRecord, CallHistory, Underway
    <2>2. n + 1 \in 1 .. Len(c.ran)  BY <2>1
    <2>3. c.ran[n + 1] \in Ran  BY <2>1, <2>2
    <2> QED  BY <1>2, <2>1, <2>3 DEF CallHistory, Underway
  <1>5. stims \in Seq(StimRow) /\ last \in 1 .. Len(stims)  BY <1>2, <1>3 DEF RowTypes
  <1>6. row \in StimRow /\ row.state = "DONE"
        /\ row = [path |-> c.ran[n + 1].stim, did_fail |-> c.failed,
                  failing_vec |-> c.test_cycle, state |-> "DONE"]
    BY <1>4 DEF SavedRow, StimRow, Ran
  <1>7. stims' = [stims EXCEPT ![last] = row] /\ e = [c EXCEPT !.pc = "save_prgm"]
    <2>1. /\ stims' = [stims EXCEPT ![last].did_fail = c.failed, ![last].failing_vec = c.test_cycle,
                                    ![last].state = "DONE"]
          /\ e = [c EXCEPT !.pc = "save_prgm"]
      BY <1>1, <1>3 DEF SaveStim, db_update_stim
    <2>2. [[[stims[last] EXCEPT !.did_fail = c.failed] EXCEPT !.failing_vec = c.test_cycle]
             EXCEPT !.state = "DONE"] = row
      <3> DEFINE new == [[[stims[last] EXCEPT !.did_fail = c.failed]
                            EXCEPT !.failing_vec = c.test_cycle] EXCEPT !.state = "DONE"]
      <3>1. stims[last] \in StimRow /\ c.failed \in BOOLEAN /\ c.test_cycle \in Cycles
        BY <1>4, <1>5 DEF Ran
      <3>2. /\ new \in StimRow /\ new.path = stims[last].path /\ new.did_fail = c.failed
            /\ new.failing_vec = c.test_cycle /\ new.state = "DONE"
        BY <3>1 DEF StimRow
      <3>3. /\ row.path = stims[last].path /\ row.did_fail = c.failed
            /\ row.failing_vec = c.test_cycle /\ row.state = "DONE"
        <4>1. stims[last].path = c.ran[n + 1].stim  BY <1>3, <1>4
        <4> QED  BY <1>6, <4>1
      <3> HIDE DEF row, new
      <3>4. new = row  BY <1>6, <3>2, <3>3 DEF StimRow
      <3> QED  BY <3>4 DEF new
    <2> HIDE DEF row
    <2>3. [stims EXCEPT ![last].did_fail = c.failed, ![last].failing_vec = c.test_cycle,
                        ![last].state = "DONE"]
            = [stims EXCEPT ![last] = [[[stims[last] EXCEPT !.did_fail = c.failed]
                                          EXCEPT !.failing_vec = c.test_cycle]
                                            EXCEPT !.state = "DONE"]]
      BY <1>5
    <2> QED  BY <2>1, <2>2, <2>3
  <1> HIDE DEF row
  <1>8. /\ stims' \in Seq(StimRow) /\ Len(stims') = last
        /\ \A j \in 1 .. last : stims'[j] = IF j = last THEN row ELSE stims[j]
    BY <1>5, <1>6, <1>7, ExceptFacts
  <1>9. /\ e \in CallRecord /\ e.pc = "save_prgm" /\ e.db_stim_id = c.db_stim_id
        /\ e.run_continue = c.run_continue /\ e.arg = c.arg /\ e.db_prgm = c.db_prgm
        /\ e.num_tests_ran = n /\ e.did_test_fail = c.did_test_fail /\ e.failed = c.failed
        /\ e.test_cycle = c.test_cycle /\ e.given = c.given /\ e.ran = c.ran
    BY <1>2, <1>7 DEF CallRecord
  <1>10. CallHistory(e)
    BY <1>2, <1>9 DEF CallHistory, GoingOn, Stopped, Underway, RowMade
  <1>11. CallRows(e)'
    <2>1. RowsBefore(e)' = RowsBefore(c) /\ RowsBefore(c) = last - (n + 1)
      BY <1>2, <1>8, <1>9 DEF RowsBefore, RowMade
    <2>2. ASSUME NEW i \in 1 .. n  PROVE stims'[RowsBefore(e)' + i] = SavedRow(e, i)
      <3>0. last \in Nat /\ n \in Nat /\ RowsBefore(c) \in Nat  BY <1>2, <1>3, <1>4
      <3>1. RowsBefore(c) + i \in 1 .. last /\ RowsBefore(c) + i # last  BY <2>1, <3>0
      <3> QED  BY <1>3, <1>8, <1>9, <2>1, <3>1 DEF SavedRow
    <2>3. stims'[last] = SavedRow(e, Len(e.ran))  BY <1>4, <1>5, <1>8, <1>9 DEF SavedRow, row
    <2> QED  BY <1>2, <1>3, <1>5, <1>8, <1>9, <2>1, <2>2, <2>3 DEF CallRows, RowMade
  <1>12. CopyCurrent(e)'  BY <1>0, <1>2, <1>9 DEF CopyCurrent, Keep
  <1>13. RowTypes'  BY <1>0, <1>2, <1>8 DEF RowTypes
  <1>14. RowsTell'
    <2>1. DOMAIN stims = 1 .. last /\ DOMAIN stims' = 1 .. last  BY <1>5, <1>8
    <2>2. RowOf(row) = verdicts[last]  BY <1>3, <1>6 DEF RowOf
    <2>3. stims'[last].state = "DONE" /\ RowOf(stims'[last]) = verdicts'[last]
      BY <1>0, <1>5, <1>6, <1>8, <2>2
    <2> QED  BY <1>0, <1>2, <1>8, <2>1, <2>3 DEF RowsTell
  <1>15. LastRowAgrees'
    <2>1. stims[last].state = "PENDING"  BY <1>3
    <2>2. prgms.last_stim_id # last  BY <1>2, <1>3, <2>1 DEF LastRowAgrees, NONE
    <2> QED  BY <1>0, <1>2, <1>8, <2>2 DEF LastRowAgrees, RowTypes
  <1> QED  BY <1>1, <1>2, <1>9, <1>10, <1>11, <1>12, <1>13, <1>14, <1>15 DEF IInv, CallInv

(* The program's row is saved.                                             *)
LEMMA SavePrgmStep ==
    ASSUME IInv, SavePrgm
    PROVE  IInv'
  <1>0. /\ defined /\ call # NULL /\ call.pc = "save_prgm" /\ Keep
        /\ UNCHANGED <<stims, verdicts>>
    BY DEF SavePrgm, At
  <1>1. PICK c, e : c = call /\ e = call'  OBVIOUS
  <1>2. /\ c \in CallRecord /\ CallHistory(c) /\ CallRows(c) /\ CopyCurrent(c)
        /\ Life' /\ RowTypes /\ RowsTell /\ LastRowAgrees
        /\ Attached' = Attached /\ Len(stims) \in Nat /\ c.pc = "save_prgm"
    BY <1>0, <1>1, CallFacts
  <1>3. /\ Attached /\ c.db_prgm \in PrgmRow /\ c.db_stim_id = Len(stims) /\ Len(stims) > 0
        /\ stims[Len(stims)] = SavedRow(c, Len(c.ran)) /\ c.db_prgm # NULL
    BY <1>2 DEF CallRows, RowMade, CallRecord
  <1>4. /\ Len(c.ran) > 0 /\ c.failed = c.ran[Len(c.ran)].failed
        /\ c.test_cycle = c.ran[Len(c.ran)].cycle /\ c.ran[Len(c.ran)] \in Ran
    <2>1. c.ran \in Seq(Ran) /\ Len(c.ran) > 0  BY <1>2 DEF CallRecord, CallHistory, Underway
    <2> QED  BY <1>2, <2>1 DEF CallHistory, Underway
  <1>5. PICK d : d = SavedCopy  OBVIOUS
  <1>6. /\ d \in PrgmRow /\ d.last_stim_id = Len(stims) /\ d.did_fail = c.failed
        /\ d.failing_vec = c.test_cycle /\ d.state = c.db_prgm.state
        /\ d.date_start = c.db_prgm.date_start
    <2>1. d = [c.db_prgm EXCEPT !.last_stim_id = Len(stims), !.did_fail = c.failed,
                                !.failing_vec = c.test_cycle]
      BY <1>1, <1>3, <1>5 DEF SavedCopy
    <2>2. c.failed \in BOOLEAN /\ c.test_cycle \in Cycles \cup {NONE}  BY <1>4 DEF Ran
    <2> QED  BY <1>2, <1>3, <2>1, <2>2 DEF PrgmRow
  <1>7. /\ prgms' = [d EXCEPT !.date_start = util_epoch_to_dt(d.date_start)]
        /\ e = [c EXCEPT !.pc = "count", !.db_prgm = d]
    BY <1>1, <1>5 DEF SavePrgm, db_update_prgm
  <1>8. /\ prgms' \in PrgmRow /\ prgms'.date_start = util_epoch_to_dt(d.date_start)
        /\ prgms'.date_start \in Nat
        /\ prgms'.last_stim_id = Len(stims) /\ prgms'.did_fail = c.failed
        /\ prgms'.failing_vec = c.test_cycle /\ prgms'.state = d.state
    <2>1. util_epoch_to_dt(d.date_start) \in Nat
      BY <1>6 DEF util_epoch_to_dt, PrgmRow
    <2> QED  BY <1>6, <1>7, <2>1 DEF PrgmRow
  <1>9. /\ e \in CallRecord /\ e.pc = "count" /\ e.db_stim_id = c.db_stim_id
        /\ e.run_continue = c.run_continue /\ e.arg = c.arg /\ e.db_prgm = d
        /\ e.num_tests_ran = c.num_tests_ran /\ e.did_test_fail = c.did_test_fail
        /\ e.failed = c.failed
        /\ e.test_cycle = c.test_cycle /\ e.given = c.given /\ e.ran = c.ran
    BY <1>2, <1>6, <1>7 DEF CallRecord
  <1>10. CallHistory(e)
    BY <1>2, <1>9 DEF CallHistory, GoingOn, Stopped, Underway, RowMade
  <1>11. CallRows(e)'
    <2>1. RowsBefore(e)' = RowsBefore(c)  BY <1>0, <1>2, <1>9 DEF RowsBefore, RowMade
    <2>2. \A i : SavedRow(e, i) = SavedRow(c, i)  BY <1>9 DEF SavedRow
    <2> QED  BY <1>0, <1>2, <1>3, <1>9, <2>1, <2>2 DEF CallRows, RowMade
  <1>12. CopyCurrent(e)'
    <2>1. ASSUME ~overlap, ZONE = 0  PROVE d.date_start = prgms'.date_start
      <3>1. d.date_start = prgms.date_start /\ prgms.date_start \in Nat
        BY <1>2, <1>3, <1>6, <2>1 DEF CopyCurrent, RowTypes
      <3> QED  BY <1>8, <3>1 DEF util_epoch_to_dt
    <2> QED  BY <1>0, <1>8, <1>9, <2>1 DEF CopyCurrent, Keep
  <1>13. RowTypes'
    <2>1. Len(stims) \in 1 .. Len(stims)  BY <1>2, <1>3
    <2> QED  BY <1>0, <1>2, <1>8, <2>1 DEF RowTypes
  <1>14. RowsTell'  BY <1>0, <1>2 DEF RowsTell
  <1>15. LastRowAgrees'
    <2>1. /\ stims[Len(stims)].state = "DONE" /\ stims[Len(stims)].did_fail = c.failed
          /\ stims[Len(stims)].failing_vec = c.test_cycle
      BY <1>3, <1>4 DEF SavedRow
    <2> QED  BY <1>0, <1>8, <2>1 DEF LastRowAgrees, RowOf
  <1> QED  BY <1>1, <1>2, <1>9, <1>10, <1>11, <1>12, <1>13, <1>14, <1>15 DEF IInv, CallInv

(* The test is counted, and the rest of the list is taken or dropped.      *)
LEMMA CountPairStep ==
    ASSUME IInv, CountPair
    PROVE  IInv'
  <1>0. /\ defined /\ call # NULL /\ call.pc = "count" /\ Keep
        /\ UNCHANGED <<stims, prgms, verdicts>>
    BY DEF CountPair, At, rows
  <1>1. PICK c, e : c = call /\ e = call'  OBVIOUS
  <1>2. /\ c \in CallRecord /\ CallHistory(c) /\ CallRows(c) /\ CopyCurrent(c)
        /\ Life' /\ RowTypes /\ RowsTell /\ LastRowAgrees
        /\ Attached' = Attached /\ Len(stims) \in Nat /\ c.pc = "count"
    BY <1>0, <1>1, CallFacts
  <1> DEFINE n == c.num_tests_ran
             bad == c.did_test_fail \/ c.failed
             rest == IF ~c.run_continue /\ bad THEN <<>> ELSE Tail(c.arg)
  <1>3. /\ n \in Nat /\ Len(c.ran) = n + 1 /\ c.ran \in Seq(Ran)
        /\ c.failed = c.ran[n + 1].failed /\ GoingOn(c) /\ c.arg # <<>>
        /\ c.arg \in Seq(Pairs) /\ c.given \in Seq(Pairs)
        /\ c.failed \in BOOLEAN /\ c.did_test_fail \in BOOLEAN
    BY <1>2 DEF CallRecord, CallHistory, Underway, RowMade, Stopped
  <1>4. /\ Len(c.arg) \in Nat \ {0} /\ Tail(c.arg) \in Seq(Pairs) /\ Len(Tail(c.arg)) = Len(c.arg) - 1
        /\ \A j \in 1 .. Len(c.arg) - 1 : Tail(c.arg)[j] = c.arg[j + 1]
        /\ Len(c.given) \in Nat
    BY <1>3, TailFacts
  <1>5. e = [c EXCEPT !.pc = "loop", !.num_tests_ran = n + 1, !.did_test_fail = bad, !.arg = rest]
    BY <1>1 DEF CountPair, DidTestFail, NextArg
  <1>6. rest \in Seq(Pairs) /\ bad \in BOOLEAN  BY <1>3, <1>4
  <1> HIDE DEF rest, bad
  <1>7. /\ e \in CallRecord /\ e.pc = "loop" /\ e.db_stim_id = c.db_stim_id
        /\ e.run_continue = c.run_continue /\ e.arg = rest /\ e.db_prgm = c.db_prgm
        /\ e.num_tests_ran = n + 1 /\ e.did_test_fail = bad /\ e.failed = c.failed
        /\ e.test_cycle = c.test_cycle /\ e.given = c.given /\ e.ran = c.ran
    <2>1. n + 1 \in Nat  BY <1>3
    <2> QED  BY <1>2, <1>5, <1>6, <2>1 DEF CallRecord
  <1>8. bad <=> \E i \in 1 .. n + 1 : c.ran[i].failed
    <2>1. c.did_test_fail <=> \E i \in 1 .. n : c.ran[i].failed  BY <1>2 DEF CallHistory
    <2>2. c.failed <=> c.ran[n + 1].failed  BY <1>3
    <2>3. \A i : i \in 1 .. n + 1 <=> (i \in 1 .. n \/ i = n + 1)  BY <1>3
    <2> QED  BY <2>1, <2>2, <2>3 DEF bad
  <1>9. GoingOn(e) \/ Stopped(e)
    <2>1. CASE ~c.run_continue /\ bad
      <3>1. \A i \in 1 .. n : ~c.ran[i].failed  BY <1>3, <2>1 DEF GoingOn
      <3>2. c.ran[n + 1].failed
        <4>1. PICK i \in 1 .. n + 1 : c.ran[i].failed  BY <1>8, <2>1
        <4>2. i = n + 1  BY <1>3, <3>1, <4>1
        <4> QED  BY <4>1, <4>2
      <3>3. rest = <<>>  BY <2>1 DEF rest
      <3>4. (n + 1) - 1 = n /\ n + 1 > 0  BY <1>3
      <3> QED  BY <1>7, <2>1, <3>1, <3>2, <3>3, <3>4 DEF Stopped
    <2>2. CASE ~(~c.run_continue /\ bad)
      <3>1. rest = Tail(c.arg)  BY <2>2 DEF rest
      <3>2. Len(rest) = Len(c.given) - (n + 1)  BY <1>3, <1>4, <3>1, SMTT(30) DEF GoingOn
      <3>3. ASSUME NEW j \in 1 .. Len(rest)  PROVE rest[j] = c.given[(n + 1) + j]
        <4>0. n \in Nat /\ Len(c.arg) \in Nat /\ Len(rest) = Len(c.arg) - 1  BY <1>3, <1>4, <3>1
        <4>1. j \in 1 .. Len(c.arg) - 1 /\ j + 1 \in 1 .. Len(c.arg) /\ n + (j + 1) = (n + 1) + j
          BY <4>0
        <4>2. c.arg[j + 1] = c.given[n + (j + 1)]  BY <1>3, <4>1 DEF GoingOn
        <4> QED  BY <1>4, <3>1, <4>1, <4>2
      <3>4. ~c.run_continue => \A i \in 1 .. n + 1 : ~c.ran[i].failed  BY <1>8, <2>2
      <3> QED  BY <1>7, <3>2, <3>3, <3>4 DEF GoingOn
    <2> QED  BY <2>1, <2>2
  <1>10. CallHistory(e)
    BY <1>2, <1>3, <1>7, <1>8, <1>9 DEF CallHistory, Underway, RowMade
  <1>11. CallRows(e)'
    <2>1. RowsBefore(e)' = RowsBefore(c) /\ RowsBefore(c) = Len(stims) - (n + 1)
      BY <1>0, <1>2, <1>7 DEF RowsBefore, RowMade
    <2>2. \A i : SavedRow(e, i) = SavedRow(c, i)  BY <1>7 DEF SavedRow
    <2>3. ASSUME c.db_prgm # NULL, NEW i \in 1 .. n + 1
          PROVE  stims[RowsBefore(c) + i] = SavedRow(c, i)
      <3>1. CASE i \in 1 .. n  BY <1>2, <2>3, <3>1 DEF CallRows
      <3>2. CASE i = n + 1
        <4>1. stims[Len(stims)] = SavedRow(c, n + 1)  BY <1>2, <1>3, <2>3 DEF CallRows
        <4>2. Len(stims) \in Nat /\ n \in Nat  BY <1>2, <1>3
        <4>3. RowsBefore(c) + i = Len(stims)  BY <2>1, <3>2, <4>2
        <4> QED  BY <3>2, <4>1, <4>3
      <3> QED  BY <1>3, <3>1, <3>2
    <2>4. c.db_prgm # NULL => RowsBefore(c) \in Nat  BY <1>2 DEF CallRows
    <2>5. /\ ~Attached => c.db_stim_id = NONE /\ c.db_prgm = NULL
          /\ c.db_stim_id \in 1 .. Len(stims) \cup {NONE}
      BY <1>2 DEF CallRows
    <2> QED  BY <1>0, <1>2, <1>7, <2>1, <2>2, <2>3, <2>4, <2>5 DEF CallRows, RowMade
  <1>12. CopyCurrent(e)'  BY <1>0, <1>2, <1>7 DEF CopyCurrent, Keep
  <1>13. RowTypes' /\ RowsTell' /\ LastRowAgrees'
    BY <1>0, <1>2 DEF RowTypes, RowsTell, LastRowAgrees, RowOf
  <1> QED  BY <1>1, <1>2, <1>7, <1>10, <1>11, <1>12, <1>13 DEF IInv, CallInv

(* The loop is left.                                                       *)
LEMMA ReturnStep ==
    ASSUME IInv, Return
    PROVE  IInv'
  <1>0. /\ defined /\ call # NULL /\ call.pc = "loop" /\ call.arg = <<>> /\ Keep
        /\ UNCHANGED <<stims, prgms, verdicts>>
    BY DEF Return, At, rows
  <1>1. PICK c, e : c = call /\ e = call'  OBVIOUS
  <1>2. /\ c \in CallRecord /\ CallHistory(c) /\ CallRows(c) /\ CopyCurrent(c)
        /\ Life' /\ RowTypes /\ RowsTell /\ LastRowAgrees
        /\ Attached' = Attached /\ Len(stims) \in Nat /\ c.pc = "loop" /\ c.arg = <<>>
    BY <1>0, <1>1, CallFacts
  <1>3. /\ e \in CallRecord /\ e.pc = "returned" /\ e.db_stim_id = c.db_stim_id
        /\ e.run_continue = c.run_continue /\ e.arg = c.arg /\ e.db_prgm = c.db_prgm
        /\ e.num_tests_ran = c.num_tests_ran /\ e.did_test_fail = c.did_test_fail
        /\ e.test_cycle = c.test_cycle /\ e.given = c.given /\ e.ran = c.ran
    <2>1. e = [c EXCEPT !.pc = "returned"]  BY <1>1 DEF Return
    <2> QED  BY <1>2, <2>1 DEF CallRecord
  <1>4. CallHistory(e)
    <2>1. GoingOn(e) \/ Stopped(e)  BY <1>2, <1>3 DEF CallHistory, GoingOn, Stopped
    <2> QED  BY <1>2, <1>3, <2>1 DEF CallHistory, Underway, RowMade
  <1>5. CallRows(e)'
    <2>1. RowsBefore(e)' = RowsBefore(c)  BY <1>0, <1>2, <1>3 DEF RowsBefore, RowMade
    <2>2. \A i : SavedRow(e, i) = SavedRow(c, i)  BY <1>3 DEF SavedRow
    <2> QED  BY <1>0, <1>2, <1>3, <2>1, <2>2 DEF CallRows, RowMade
  <1>6. CopyCurrent(e)'  BY <1>0, <1>2, <1>3 DEF CopyCurrent, Keep
  <1>7. RowTypes' /\ RowsTell' /\ LastRowAgrees'
    BY <1>0, <1>2 DEF RowTypes, RowsTell, LastRowAgrees, RowOf
  <1> QED  BY <1>1, <1>2, <1>3, <1>4, <1>5, <1>6, <1>7 DEF IInv, CallInv

(* Another process writes the program's row.                               *)
LEMMA OwnerWritesStep ==
    ASSUME IInv, OwnerWritesState
    PROVE  IInv'
  <1>1. PICK s \in {"RUNNING", "KILLING"} : prgms' = [prgms EXCEPT !.state = s]
    BY DEF OwnerWritesState
  <1>2. /\ overlap' = (call # NULL)
        /\ UNCHANGED <<prgm, repl, handler, profiles, call, stims, defined, verdicts,
                       spoilt, closed>>
    BY DEF OwnerWritesState
  <1>3. /\ prgms' \in PrgmRow /\ prgms'.last_stim_id = prgms.last_stim_id
        /\ prgms'.did_fail = prgms.did_fail /\ prgms'.failing_vec = prgms.failing_vec
        /\ prgms'.date_start = prgms.date_start
    <2>1. prgms \in PrgmRow  BY DEF IInv, RowTypes
    <2> QED  BY <1>1, <2>1 DEF PrgmRow
  <1>4. RowTypes' /\ RowsTell' /\ LastRowAgrees'
    BY <1>2, <1>3 DEF IInv, RowTypes, RowsTell, LastRowAgrees, RowOf
  <1>5. overlap' \in BOOLEAN /\ (call # NULL => overlap')  BY <1>2
  <1>6. Life'  BY <1>2, <1>5, StaleKept DEF IInv, Life
  <1>7. CallInv'
    <2>1. PICK c : c = call  OBVIOUS
    <2>2. CASE c # NULL
      <3>1. c \in CallRecord /\ CallHistory(c) /\ CallRows(c)  BY <2>1, <2>2 DEF IInv, CallInv
      <3>2. CallRows(c)'  BY <1>2, <3>1 DEF CallRows, Attached, RowsBefore
      <3>3. CopyCurrent(c)'  BY <1>5, <2>1, <2>2 DEF CopyCurrent
      <3> QED  BY <1>2, <2>1, <3>1, <3>2, <3>3 DEF CallInv
    <2>3. CASE c = NULL  BY <1>2, <2>1, <2>3 DEF CallInv
    <2> QED  BY <2>2, <2>3
  <1> QED  BY <1>4, <1>6, <1>7 DEF IInv

(* Nothing is there yet.                                                   *)
LEMMA InitInv == Init => IInv
  <1> SUFFICES ASSUME Init  PROVE IInv  OBVIOUS
  <1> USE DEF Init
  <1>1. RowTypes
    <2>1. prgms \in PrgmRow /\ prgms.date_start \in Nat /\ prgms.last_stim_id = NONE
      BY DEF PrgmRow, START
    <2>2. stims \in Seq(StimRow) /\ verdicts \in Seq(Verdict \cup {NULL})
          /\ Len(verdicts) = Len(stims)
      OBVIOUS
    <2> QED  BY <2>1, <2>2 DEF RowTypes
  <1>2. Life /\ CallInv  BY NoProfiles DEF Life, CallInv
  <1>3. RowsTell  BY DEF RowsTell
  <1>4. LastRowAgrees  BY DEF LastRowAgrees
  <1> QED  BY <1>1, <1>2, <1>3, <1>4 DEF IInv

(* Every step keeps the invariant.                                         *)
LEMMA NextInv == IInv /\ [Next]_vars => IInv'
  <1> SUFFICES ASSUME IInv, [Next]_vars  PROVE IInv'  OBVIOUS
  <1>1. CASE \/ prgm_create \/ prgm_close \/ prgm_free \/ prgm_run \/ ReplOnStdin
             \/ \E db_prgm_id \in {NONE, PRGM_ID, PRGM_ID + 1} : prgm_open(db_prgm_id)
    BY <1>1, OwnerStep
  <1>2. ASSUME NEW args \in Args, NEW rc \in BOOLEAN, _run_stim(args, rc)  PROVE IInv'
    BY <1>2, CallStep
  <1>3. CASE NextPair  BY <1>3, NextPairStep
  <1>4. CASE RunPair  BY <1>4, RunPairStep
  <1>5. CASE SaveStim  BY <1>5, SaveStimStep
  <1>6. CASE SavePrgm  BY <1>6, SavePrgmStep
  <1>7. CASE CountPair  BY <1>7, CountPairStep
  <1>8. CASE Return  BY <1>8, ReturnStep
  <1>9. CASE ReplEnds \/ f_exit \/ ProcessDies  BY <1>9, EndsStep
  <1>10. CASE OwnerWritesState  BY <1>10, OwnerWritesStep
  <1>11. CASE f_set_profile \/ f_load  BY <1>11, SetOrLoadStep
  <1>12. ASSUME NEW fs \in SUBSET Holding, f_unload(fs)  PROVE IInv'  BY <1>12, UnloadStep
  <1>13. CASE UNCHANGED vars
    <2>1. Life'  BY <1>13, StaleKept DEF vars, IInv, Life
    <2> QED  BY <1>13, <2>1, QuietStep DEF vars
  <1> QED  BY <1>1, <1>2, <1>3, <1>4, <1>5, <1>6, <1>7, <1>8, <1>9, <1>10, <1>11, <1>12, <1>13
    DEF Next, RunStep

-----------------------------------------------------------------------------
(* The theorems                                                            *)

(* The invariant holds in every state of every behaviour.                  *)
THEOREM Invariance == Spec => []IInv
  <1>1. Init => IInv  BY InitInv
  <1>2. IInv /\ [Next]_vars => IInv'  BY NextInv
  <1> QED  BY <1>1, <1>2, PTL DEF Spec

(* Programs, calls and rows are of their types: no call counts more tests  *)
(* than it was given, none saves to a row that is not there.               *)
THEOREM TypeCorrect == Spec => []PrgmRunTypeOK
  <1>1. IInv => PrgmRunTypeOK
    <2> SUFFICES ASSUME IInv  PROVE PrgmRunTypeOK  OBVIOUS
    <2>1. /\ stims \in Seq(StimRow) /\ verdicts \in Seq(Verdict \cup {NULL})
          /\ Len(verdicts) = Len(stims) /\ Len(stims) \in Nat
          /\ prgms \in PrgmRow /\ prgms.date_start \in Nat
          /\ prgms.last_stim_id \in 1 .. Len(stims) \cup {NONE}
      BY DEF IInv, RowTypes
    <2>2. DOMAIN stims = 1 .. Len(stims) /\ DOMAIN verdicts = 1 .. Len(stims)  BY <2>1
    <2>3. /\ prgm \in [is_path_open : BOOLEAN, path : {"null", "garbage", "set"},
                       _db_path : {"null", "garbage", "set"},
                       _path_fp : {"NULL", "open", "closed"},
                       _db : {"NULL", "open", "closed"},
                       _db_prgm_id : {NONE, PRGM_ID}] \cup {NULL}
          /\ repl \in {"none", "file", "stdin"}
          /\ {handler, defined, spoilt, closed, overlap} \subseteq BOOLEAN
      BY DEF IInv, Life, PrgmRecord
    <2>4. \A i \in DOMAIN stims :
             stims[i] \in [path : Pairs, did_fail : BOOLEAN, failing_vec : Cycles \cup {NONE},
                           state : {"PENDING", "DONE"}]
      <3>1. \A i \in 1 .. Len(stims) : stims[i] \in StimRow  BY <2>1
      <3> QED  BY <2>2, <3>1 DEF StimRow
    <2>5. prgms \in [last_stim_id : DOMAIN stims \cup {NONE}, did_fail : BOOLEAN,
                     failing_vec : Cycles \cup {NONE}, date_start : Nat,
                     state : {"RUNNING", "KILLING"}]
      BY <2>1, <2>2 DEF PrgmRow
    <2>6. \A i \in DOMAIN verdicts : verdicts[i] \in Verdict \cup {NULL}  BY <2>1, <2>2
    <2>7. ASSUME call # NULL
          PROVE  /\ call.db_stim_id \in DOMAIN stims \cup {NONE}
                 /\ call.num_tests_ran \in 0 .. Len(call.given)
      <3>1. call \in CallRecord /\ CallHistory(call) /\ CallRows(call)
        BY <2>7 DEF IInv, CallInv
      <3>2. call.db_stim_id \in DOMAIN stims \cup {NONE}  BY <2>2, <3>1 DEF CallRows
      <3>3. call.num_tests_ran \in Nat /\ Len(call.given) \in Nat  BY <3>1 DEF CallRecord
      <3>4. call.num_tests_ran <= Len(call.given)  BY <3>1, <3>3 DEF CallHistory
      <3> QED  BY <3>2, <3>3, <3>4
    <2>8. \A f \in DOMAIN profiles : profiles[f] \in [live : BOOLEAN, stims : 0 .. MaxStims]
      <3>1. \A f \in DOMAIN profiles : profiles[f] \in Profile  BY DEF IInv, Life, ProfileSeq
      <3> QED  BY <3>1 DEF Profile
    <2> QED  BY <2>2, <2>3, <2>4, <2>5, <2>6, <2>7, <2>8 DEF PrgmRunTypeOK
  <1> QED  BY <1>1, Invariance, PTL

(* A row that says DONE holds the verdict of the run it was made for, and  *)
(* a row that was not saved says nothing, whatever errors and deaths came  *)
(* in between.                                                             *)
THEOREM RowsTellTrue == Spec => []RowsTell
  <1>1. IInv => RowsTell  BY DEF IInv
  <1> QED  BY <1>1, Invariance, PTL

(* The program's row and the row of its last stim agree at every moment,   *)
(* between the two updates too.                                            *)
THEOREM LastRowTrue == Spec => []LastRowAgrees
  <1>1. IInv => LastRowAgrees  BY DEF IInv
  <1> QED  BY <1>1, Invariance, PTL

(* What run and runc return is what ran: the stims given, up to the first  *)
(* failure or all of them, each with its saved row.                        *)
THEOREM ResultsTold == Spec => []ResultTold
  <1>1. IInv => ResultTold
    <2> SUFFICES ASSUME IInv, call # NULL, call.pc = "returned"
                 PROVE  ResultTold
      BY DEF ResultTold
    <2>1. call \in CallRecord /\ CallHistory(call) /\ CallRows(call)  BY DEF IInv, CallInv
    <2>2. PICK c : c = call  OBVIOUS
    <2> DEFINE n == Len(c.ran)
               bad == {i \in DOMAIN c.ran : c.ran[i].failed}
    <2>3. /\ c \in CallRecord /\ CallHistory(c) /\ CallRows(c) /\ c.pc = "returned"
          /\ ~Underway(c) /\ ~RowMade(c) /\ c.arg = <<>>
      BY <2>1, <2>2 DEF Underway, RowMade, CallHistory
    <2>4. /\ n \in Nat /\ c.num_tests_ran = n /\ c.given \in Seq(Pairs) /\ Len(c.given) \in Nat
          /\ c.ran \in Seq(Ran) /\ DOMAIN c.ran = 1 .. n /\ n <= Len(c.given)
          /\ c.did_test_fail \in BOOLEAN /\ c.run_continue \in BOOLEAN
      BY <2>3 DEF CallRecord, CallHistory
    <2>5. [i \in 1 .. n |-> c.ran[i].stim] = SubSeq(c.given, 1, n)
      <3>1. \A i \in 1 .. n : c.ran[i].stim = c.given[i]  BY <2>3 DEF CallHistory
      <3>2. SubSeq(c.given, 1, n) = [i \in 1 .. n |-> c.given[i]]  BY <2>4
      <3> QED  BY <3>1, <3>2
    <2>6. c.did_test_fail = (bad # {})
      <3>1. c.did_test_fail <=> \E i \in 1 .. n : c.ran[i].failed  BY <2>3, <2>4 DEF CallHistory
      <3> QED  BY <2>4, <3>1
    <2>7. /\ c.run_continue => n = Len(c.given)
          /\ ~c.run_continue => bad \subseteq {n} /\ (bad = {} => n = Len(c.given))
      <3>1. CASE GoingOn(c)
        <4>1. n = Len(c.given)  BY <2>3, <2>4, <3>1 DEF GoingOn
        <4>2. ~c.run_continue => bad = {}  BY <2>4, <3>1 DEF GoingOn
        <4> QED  BY <4>1, <4>2
      <3>2. CASE Stopped(c)
        <4>1. ~c.run_continue /\ n > 0 /\ c.ran[n].failed  BY <2>4, <3>2 DEF Stopped
        <4>2. n \in bad  BY <2>4, <4>1
        <4>3. ASSUME NEW i \in bad  PROVE i = n
          <5>1. i \in 1 .. n /\ c.ran[i].failed  BY <2>4
          <5>2. i \notin 1 .. n - 1  BY <2>4, <3>2, <5>1 DEF Stopped
          <5> QED  BY <2>4, <5>1, <5>2
        <4> QED  BY <4>1, <4>2, <4>3
      <3> QED  BY <2>3, <3>1, <3>2 DEF CallHistory
    <2>8. n > 0 => c.test_cycle = c.ran[n].cycle  BY <2>3 DEF CallHistory
    <2>9. ASSUME c.db_prgm # NULL, NEW i \in 1 .. n
          PROVE  stims[Len(stims) - n + i] =
                     [path |-> c.ran[i].stim, did_fail |-> c.ran[i].failed,
                      failing_vec |-> c.ran[i].cycle, state |-> "DONE"]
      <3>1. RowsBefore(c) = Len(stims) - n  BY <2>3, <2>4 DEF RowsBefore
      <3>2. stims[RowsBefore(c) + i] = SavedRow(c, i)  BY <2>3, <2>4, <2>9 DEF CallRows
      <3> QED  BY <3>1, <3>2 DEF SavedRow
    <2>10. FailedOnes = bad  BY <2>2 DEF FailedOnes
    <2> HIDE DEF bad
    <2> QED  BY <2>2, <2>4, <2>5, <2>6, <2>7, <2>8, <2>9, <2>10 DEF ResultTold
  <1> QED  BY <1>1, Invariance, PTL

(* A program that was given zeroed memory does nothing that C does not     *)
(* define before it has been closed, unless unload has freed a profile     *)
(* that the program or a stim still points to.                             *)
THEOREM FirstUse == Spec => []FirstUseDefined
  <1>1. IInv => FirstUseDefined  BY DEF IInv, Life, FirstUseDefined
  <1> QED  BY <1>1, Invariance, PTL

(* On a tester whose local time is UTC, run writes back what it has not    *)
(* set as it was, unless another process wrote it during the call.         *)
THEOREM OnlyOverlaps == ZONE = 0 => (Spec => OnlyOverlapUndoes)
  <1> SUFFICES ASSUME ZONE = 0  PROVE Spec => OnlyOverlapUndoes  OBVIOUS
  <1> DEFINE Undoes == <<prgms'.state, prgms'.date_start>> # <<prgms.state, prgms.date_start>>
                         /\ call' # call => overlap
  <1>1. IInv /\ [Next]_vars => [Undoes]_vars
    <2> SUFFICES ASSUME IInv, Next, call' # call, ~overlap,
                        <<prgms'.state, prgms'.date_start>> # <<prgms.state, prgms.date_start>>
                 PROVE  FALSE
      OBVIOUS
    <2>1. SavePrgm
      <3>1. prgms' # prgms  OBVIOUS
      <3> USE <3>1 DEF die, ProcessEnds, Undefined, rows
      <3>2. ~prgm_create /\ ~prgm_close /\ ~prgm_free
        BY DEF prgm_create, prgm_close, prgm_free
      <3>3. ~prgm_run /\ ~ReplOnStdin /\ \A id : ~prgm_open(id)
        BY DEF prgm_run, ReplOnStdin, prgm_repl, prgm_open
      <3>4. \A args, rc : ~_run_stim(args, rc)  BY DEF _run_stim
      <3>5. ~NextPair /\ ~RunPair  BY DEF NextPair, RunPair, fe_error
      <3>6. ~SaveStim /\ ~CountPair /\ ~Return  BY DEF SaveStim, CountPair, Return
      <3>7. ~ReplEnds /\ ~f_exit /\ ~ProcessDies  BY DEF ReplEnds, f_exit, ProcessDies
      <3>8. ~OwnerWritesState  BY DEF OwnerWritesState
      <3>9. ~f_set_profile /\ ~f_load /\ \A fs : ~f_unload(fs)
        BY DEF f_set_profile, f_load, f_unload, fe_error, KeepButProfiles
      <3> QED  BY <3>2, <3>3, <3>4, <3>5, <3>6, <3>7, <3>8, <3>9 DEF Next, RunStep
    <2>2. PICK c : c = call  OBVIOUS
    <2>3. c # NULL /\ c.pc = "save_prgm" /\ prgms' = [SavedCopy EXCEPT !.date_start = util_epoch_to_dt(@)]
      BY <2>1, <2>2 DEF SavePrgm, At, db_update_prgm
    <2>4. c \in CallRecord /\ CallRows(c) /\ CopyCurrent(c)  BY <2>2, <2>3 DEF IInv, CallInv
    <2>5. c.db_prgm # NULL /\ c.db_prgm \in PrgmRow  BY <2>3, <2>4 DEF CallRows, CallRecord
    <2>6. c.db_prgm.state = prgms.state /\ c.db_prgm.date_start = prgms.date_start
      BY <2>4, <2>5 DEF CopyCurrent
    <2>7. prgms'.state = c.db_prgm.state /\ prgms'.date_start = util_epoch_to_dt(c.db_prgm.date_start)
      BY <2>2, <2>3, <2>5 DEF SavedCopy, PrgmRow
    <2>8. util_epoch_to_dt(prgms.date_start) = prgms.date_start
      BY DEF IInv, RowTypes, util_epoch_to_dt
    <2> QED  BY <2>6, <2>7, <2>8
  <1> HIDE DEF Undoes
  <1>2. Spec => [][Undoes]_vars  BY <1>1, Invariance, PTL DEF Spec
  <1> QED  BY <1>2 DEF OnlyOverlapUndoes, Undoes

=============================================================================
