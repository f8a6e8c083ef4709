# Verification of gcorelib

gcorelib is the C library that runs on the Gemini tester: it reads test
patterns ("stims"), loads them into the memory of the two artix units a1 and
a2, runs them, and lets a small Lisp program (the "test program") drive all of
that and record results in an SQLite database. This directory holds TLA+
models of the library, TLC configurations that check them, and TLAPS proofs.
Line numbers refer to the sources under `src/`.

## 1. The system

| component | state it keeps | operations | interacts with |
|---|---|---|---|
| stim chunk reader (`stim.c`) | the chunks of each unit, the current chunk of each unit, the chunk buffer; the dots' read cursors | `get_stim_by_dots`, `get_stim_by_path`, `stim_load_next_chunk`, `stim_unload_chunk`, `stim_fill_chunk` | reads and grows the client's `dots`; feeds `artix_load_stim` and `stim_serialize_to_path` |
| stim loading and raw files (`board/artix.c`, `stim.c`) | tester memory; the file | `artix_load_stim`, `stim_serialize_to_path`, `stim_deserialize` | clients of the reader |
| test program bookkeeping (`prgm.c`) | the profile, the stims, two uthash tables of loaded stims, counters and next addresses, the last stim that ran | `set-profile`, `reads`, `writes`, `load`, `loads`, `loada`, `unload`, `unload-all`, `run`, `get-pin-names`, `get-fail-pins` | makes and frees stims and profiles, calls `artix_load_stim`, `artix_run_stim` |
| test program results (`prgm.c`, `db.c`) | the file, the database and the profiles of a program, the locals of a call, rows of `prgms` and `stims` | `prgm_create`, `prgm_open`, `prgm_run`, `prgm_repl`, `prgm_close`, `prgm_free`, `run`, `runc`, `exit` | SQLite, and another process that writes the program's row |
| dots, subvec, config, profile | vectors, packed pin states, bitstream header/body/footer, pin tables | expansion, packing, lookup | used by the chunk reader |
| artix run (`board/artix.c`) | the registers of the two units, the sync line | `artix_setup_stim`, `artix_run_stim`, fail pins | helper, subcore, DMA; the units run by themselves |
| artix memory (`board/artix.c`) | tester memory | `artix_mem_write/read`, memory test | helper, subcore, DMA |
| subcore and helper (`board/`) | none of their own: they command four state machines of the fabric (subcore, agent, gvpu, memcore) | state changes, packets, bursts | registers |
| DMA (`board/dma.c`, `board/dev.c`) | prepared flags, allocation offset | alloc, prep, start, wait | kernel driver |

The library has no threads. What makes it hard is state that outlives a call:
cursors in a structure that belongs to somebody else, objects reached through
several pointers, errors raised half way through a call and followed by the
next call (the interactive mode of a test program), buffers of 256 MB of which
only one may exist, and boundaries (vector, burst, chunk). On the board side
the units run concurrently with the host, which polls with a limit, and keep
their registers when a process dies; a command issued takes effect later, and
the next one is lost if it comes before. Results go to a database that other
processes use, row by row, from a process that may die in between. `PROJECT.json`
lists the hazards, each at its line.

What makes each part correct:

* reader: one unit and one buffer at a time; the chunks cover the padded
  pattern; every chunk handed out is its slice of the pattern;
* loading and files: the whole pattern reaches the given region of each unit,
  nothing else changes; a file holds the pattern, and reading it gives the
  stim back; every call returns;
* bookkeeping: each table is what a directory from address to stim should be,
  and agrees with the counters; sequential loads find free memory and are not
  overwritten; no freed object is used;
* results: a row says what ran and whether it failed, or that nothing is known;
  the program's row agrees with that of its last stim at every moment; what run
  returns is about what ran; every call ends;
* run: a verdict is about this run, whatever the units held before and however
  far they are when the host gives up; every call returns;
* rest of the board side: every command meets the state machines in a state
  that takes it; data arrives where it should and nowhere else; buffers stay in
  the DMA map; every call returns.

## 2. Modules

| module | models |
|---|---|
| `StimChunks` | the chunk reader with any client |
| `StimChunks_proofs` | its theorems |
| `StimUse` (extends `StimChunks`) | `artix_load_stim`, `stim_serialize_to_path`, reopening the file: the library's own clients of the reader |
| `StimUse_proofs` | its theorems, on top of those of the reader |
| `PatternLoader` | abstract: what loading a pattern promises |
| `UtHash` | the operations of `lib/uthash/uthash.h` that `prgm.c` uses, on the handles and table records themselves |
| `Prgm` (extends `UtHash`) | the test program's bookkeeping |
| `StimDirectory` | abstract: what the two tables of loaded stims are for |
| `Prgm_proofs` | theorems about the tables, the addresses and the directory |
| `ArtixRun` | `artix_run_stim` and the two units |
| `ArtixRun_proofs` | its theorems |
| `PrgmRun` | a program's life, its profiles, the loop of `run` and `runc`, the database rows |
| `PrgmRun_proofs` | its theorems |
| `BoardMem` | the calls that move data to and from the board, down to the single command, and the fabric that takes the commands |
| `BoardView` (extends `BoardMem`) | for the proofs: the board as the host may picture it, what each command makes of that picture, walks |
| `BoardWalks` | each helper and each whole call as a walk from one picture to another |
| `BoardMem_proofs` | the theorems about `BoardMem` |
| `Counting` | division with remainder, and induction over numbers stated for sets, which the proofs share |
| `MCStimChunks`, `MCStimUse`, `MCPrgm`, `MCPrgmRun`, `MCBoardMem`, `MCArtixRun` | instances for TLC |

### StimChunks

One action per public function: `stim_load_next_chunk(u)`, `ClientUnload`
(`stim_unload_chunk` called by the client), `get_stim_by_dots`,
`get_stim_by_path` and `get_stim_by_bitstream` (a new stim, from the same dots,
from a raw file or from an rbt, bit or bin file; the last two are one function
in the code). The
variables are the fields of `struct dots`, `struct stim` and `struct
vec_chunk` by their names, per unit where the code has an a1 and an a2 field;
`pass` is a history variable (how often a unit's chunks have been gone
through), `alive` is false once `die()` was called.

A vector is its position in the pattern; `NOP` is a padding vector and `BLANK`
what `memset` leaves in a slot nobody filled. LZ4 is external: an image
together with the inverse that reads it. Sizes are in vectors; bursts and
chunks have the structure of the code (`STIM_NUM_VECS_PER_BURST`,
`STIM_CHUNK_SIZE`) with small numbers. Filling from a dots includes the
appended padding (`append_dots_vec_by_nop_vecs` on the client's dots by the
last chunk of each unit), the cursor taken from and written back to the dots,
and the rule that sets `is_filled`. Filling a raw stim is the decompression of
the image. Filling the first chunk of a bitstream ends the process
(`FillDies`): the vectors of `config.c` have one character per control pin, 7,
while their dots has the 32 data pins too, and `expand_dots_vec_subvecs`
(`dots.c:251`) insists on a string one longer than the list of pins.

### StimUse and PatternLoader

`artix_load_stim` is `BeginLoad` (the address checks; `bye` on failure) and one
`LoadStep` per turn of its loop, each of which contains a whole
`stim_load_next_chunk`; `stim_serialize_to_path` is `BeginSerialize` (which
truncates the file) and one `stim_serialize_chunk` per turn; the last turn
writes the file. A turn whose fill dies (a bitstream) ends the process with
everything else as it was. `OpenFile` is `get_stim_by_path` on that file. A dots stim is
read once between two constructions (`MayRead`), since a second pass over it is
blank (finding `second_pass`). `mem` is the device behind `artix_mem_write`.

`PatternLoader` says what a load promises: blocks of any size, each the next
part of the pattern, at the place that follows the last.

### UtHash, Prgm and StimDirectory

`prgm.c` links one `prgm_stim` into two tables through the one `UT_hash_handle`
it contains. What that does can be seen only on the level of the handles, so
`UtHash` keeps them: the world `w` has the two heads, a handle per element (its
table, the previous and next element of the list and of the bucket, its key)
and a record per table (tail, bucket heads, number of items, whether it has
been freed). `HASH_FIND`, `HASH_ADD`, `HASH_DEL` and the iteration that deletes
are translated from the macros. A use of a freed handle or record is undefined
behaviour: `w.ok` becomes false and the calling function ends in a state of its
own (`state = "table"`); `Prgm` has such states for freed stims, profiles and
the last stim too. The growth of the bucket array and the hash function are
left out: `HashBkt` is a constant.

`Prgm` has an action per function of the program. `fe_error` aborts the call,
what the call had changed stays, and the next call may follow: with the handler
`_fe_onerror` installed `prgm_repl` returns a failure to its owner, who may call
it again (without it the process ends; `PrgmRun` has both). Addresses and sizes are
in bursts. `reserved` is a history variable: for which stim a burst of tester
memory was last loaded. `_run_stim` is one turn of the loop over the address
pairs, without results and database rows. The program of `Prgm` is neither
closed nor freed: its end is in `PrgmRun`. The pairs offered to `unload` and
`run` are made of the addresses of stims created so far and nil.

`StimDirectory` is the abstract view: per unit a set of pairs of address and
stim; `Load` enters a stim for all its units or not at all, `Unload` and
`UnloadAll` remove exactly what they are asked to.

### ArtixRun

`artix_run_stim` is cut at every command that reaches the board: `TestInit`,
`TestSetup` and `TestCleanup` (per unit, `artix_setup_stim`),
`subcore_artix_sync`, `TestRun`, one `Poll` per turn of the loop, the reads of
cycle counts and flags in their order, `Verdict`. The helpers are one step
each; the agent and subcore commands inside them are left out. Between any two
steps the units may execute cycles, fail, and stop, and the process may die
(`ProcessDies`: every ioctl may end in `die`, the setup transfer after a time
limit), after which another process runs another stim on the same units.

The units are external. What is assumed of them is what the code relies on:
loading a state takes a unit out of what it was doing; `TEST_CLEANUP` resets
count and flag (`artix.c:988`); with the sync line asserted both start
together (`subcore.c:180`); a count of a failed unit is the failing cycle, zero
indexed (`artix.c:1107`); a unit of a dual run may be stopped by the other's
failure, not before it has reached the failing cycle (the code takes the
smaller count). `executed`, `mismatch` and `early` are history variables.

### PrgmRun

The variables are the fields of `struct prgm` that have to do with the file and
the database, the input `prgm_repl` reads, the locals of `_run_stim` (`call`,
with a `pc` at each database statement), the row of the program and the rows of
its stims. `malloc` may leave anything in the three fields `prgm_create` does
not set. The owner of a program creates, opens, runs, closes and frees it in
any order; program text calls `run`, `runc` and `exit`, sets profiles, makes
stims and unloads them. An address pair is what
the tables of `Prgm` make of it: a stim, two different stims, nothing.
`artix_run_stim` returns any verdict (`ArtixRun` is about which one).
`ProcessDies` may come at any step; the rows stay, and another process may
follow. `OwnerWritesState` is the other writer of the program's row, external.
A date column goes through `util_dt_to_epoch` and back on every update: `ZONE`
is the distance between local time, which the first reads, and UTC, which the
second writes. `verdicts`, `spoilt`, `closed` and `overlap`, and the fields
`given` and `ran` of `call`, are history.

`profiles` is what the life of a program needs of the bookkeeping `Prgm` has in
full: for every call of `set-profile` whether the profile is still allocated,
and how many stims point to it. `prgm->_profile` (`_profile`) is the last one.
`reads` and `load` add a stim (`f_load`), `unload` and `unload-all` free stims
and each one's profile with it (`f_unload`, `stim.c:1513`) and leave `_profile`
as it is, and `prgm_free` frees what `_profile` points to (`prgm.c:1105`): after
set-profile, load and unload that is a second time. `f_unload(fs)` stands for
one call that frees stims of the profiles `fs`. A stim that is used after it was
unloaded, which `get-pin-names` may do, ends in a state of its own in `Prgm` and
is not repeated here.

### BoardMem

`artix_mem_write`, `artix_mem_read`, `artix_config`, the transfers of
`artix_setup_stim` and `artix_get_stim_fail_pins`, and the GPIO helpers, each as
the sequence of commands it issues, built from the sequences of the helpers as
the C functions are built from each other. `todo` is the rest of the call under
way; one action per kind of command (`IssueIdle`, `IssueLoad`, `IssueWrite`,
`IssueRead`, `CheckStatus`, `CheckInitError`, `Alloc`, `gcore_dma_prep`,
`IssueStart`) takes its head. `helper_agent_load` reads the status of the unit
when it gets there (`CheckStartup`). A word of data is the number of the call
that wrote it and its position, so that a word in the wrong place shows.

Subcore, agent, gvpu and memcore are external and do what the library relies
on: subcore takes a state only when idle, a packet only in a state that takes
one; the agent passes packets on to the gvpu and that to the memcore in the
states named for it; a state whose work is done falls back to idle; memcore
reads ahead into a FIFO, so that a short read may be over at any time. They
move on their own (`SubcoreRunsAgent`, `SubcoreIdles`), at any time after the
command. A command they do not take, an `exit(1)` of the host, an init error
and a transfer that runs into its time limit end the behaviour, with `fault`
saying which. Processes do not die here: nothing in the library calls
`subcore_reset`, so what a process finds after another has died inside a
transfer is not defined by this code. The addresses and sizes given are within
the memory of a unit (`BoardAssumption`); `artix_mem_write` dies of others,
`artix_mem_read` does not look.

## 3. Runs

| run | instance | shows |
|---|---|---|
| `chunks` | both units, 9 vectors, bursts of 4, chunks of 8 (two chunks per unit, the second padded), 2 passes, dots up to 16 vectors | `TypeOK`, `UnitExclusion`, `OnlyCurrentLoaded`, `UnloadedIsClean`, `ChunkGeometry`, `LoadedIsPattern` under every order of calls |
| `stim_use` | both units, dots, raw and bitstream stims, 5 vectors, chunks of one burst (two chunks per unit), aligned, unaligned and too high addresses | `ReaderAtRest`, `FileIsPattern`, `UsesReader` (the clients are a client of `StimChunks`), `WritesInsideRegion`, `ReturnsPaddedSize`, `CallsReturn` |
| `load_one_chunk` | as above with chunks of three bursts (one chunk per unit) | `LoadsPattern`: `artix_load_stim` implements `PatternLoader` |
| `prgm_units` | solo stims of both units, 2 loads, 2 profiles, `loada` to the next sequential address | `PrgmTypeOK`, `TablesSound`, `SequentialIntact`, `SequentialAccepted` |
| `prgm_table` | stims of one unit, 3 loads, addresses that share a bucket and one beyond the limit of `artix_load_stim` | `TablesSound`, `DirectoryKept`: the table implements `StimDirectory` |
| `prgm_run` | two stims, two cycles, calls of up to two pairs, two records that are stim rows or profiles, two stims under each profile, local time UTC | `PrgmRunTypeOK`, `RowsTell`, `LastRowAgrees`, `ResultTold`, `FirstUseDefined`, `OnlyOverlapUndoes`, `CallEnds`: programs in any order of calls, errors, deaths at any step, profiles shared and freed, another writer |
| `board_mem` | both units, bursts of 2 words, a DMA map of 4, a FIFO of 4, sizes 1, 5 and 10 at two addresses, any two calls | `BoardTypeOK`, `CommandsTaken`, `ChecksHold`, `TransferDone`, `DmaInsideMap`, `CallReturns` however fast or slow the board is |
| `run_stim` | a dual stim and one solo stim per unit, three cycles each with repeats and padding, one poll before giving up | `PassIsReal`, `FailIsReal`, `StartsTogether`, `NothingHeldBack`, `RunReturns` over any sequence of runs, deaths included |

Runs that TLC must find violated; each states what a comment of the source says:

| run | comment | what the code does |
|---|---|---|
| `second_pass` | "Calling this will also fill the chunk" (`stim.c:550`) | the dots' cursor is never rewound: in the second pass chunks are blank |
| `load_many_chunks` | "update the address pointer" (`artix.c:913`) | the load address does not move: the second chunk overwrites the first |
| `dual_unload` | "Unloads a stim at the address pair given" (`prgm.c:557`) | the shared handle makes the two tables one: the record freed for a1 is used for a2 |
| `shared_profile` | "Unloads all stims" (`prgm.c:639`) | the profile is freed once per stim |

**Bounds.** The chunk reader's behaviour depends on whether a chunk is the
first, the last or neither, whether the last one is partial and padded, and on
which units have chunks; two chunks of which the second is short meet all of
these but a middle chunk and a unit without chunks, and the proofs cover every
geometry and every set of units. A second pass and a stim made from an already padded dots show what
cursors and padding left behind. `MAX_NUM_VECS` bounds the growth of the dots;
it is a limit of the code, not only of the model. For the tables, three
elements give a head, a middle and a tail, and two buckets give both shared and
separate ones; two stims are the fewest that can share a profile or collide.
`Prgm` offers addresses in whole bursts: an unaligned `loada` address ends in
`bye` and is checked in `StimUse`. For the runs of a stim three cycles give a
first, a middle and a last one to fail in, and a limit of one poll makes both
ends of the loop happen at every point of the units' progress; the addresses of
the two units differ and are crossed between the stims.
For the rows, two pairs in a call give a failing stim followed by a passing
one, and two rows make a second call, of the same or of another process, follow
a first that was cut short; two profiles give one that was replaced and one
that is current, two stims are the fewest that share one. Rows and profiles
share the bound `MaxRows`: no property relates the two. On the board, size 1 is less than a burst, 5 is
more than the DMA buffer with a broken burst at the end, 10 is two full buffers
and a rest of whole bursts; 1 fits into the FIFO and the others do not; two
calls are enough for everything the first leaves behind (allocation offset,
states, startup) to meet every other call.

`prgm_run` is checked with `ZONE = 0`: with any other zone `OnlyOverlapUndoes`
fails, as `util_dt_to_epoch` is said to convert "a UTC datetime"
(`util.c:311`) and calls `mktime`. `runc` returns the cycle of the last stim
that ran, which need not be one that failed; `ResultTold` says so.

**Deadlock.** All runs say `CHECK_DEADLOCK FALSE`: the process may end
(`die`, `bye`), undefined behaviour is the end of a behaviour, and a client may
stop calling.

**Fairness.** In `StimUse` weak fairness of the loop steps of the two calls, in
`ArtixRun` of the host's steps, in `PrgmRun` of the steps of `_run_stim`, in
`BoardMem` of the host's commands: the thread that made a call runs it to its
end. In `BoardMem` also of the board: a command that was accepted is carried
out, which `subcore_idle` relies on, as it waits without a limit. Clients are
never assumed to call anything, nor the units of `ArtixRun` to make progress.

## 4. Proofs

Each theorem holds for every value of the constants; the assumption named in
the module that declares them (`StimAssumption`, `UseAssumption`,
`PrgmAssumption`, `ArtixAssumption`, `PrgmRunAssumption`, `BoardAssumption`) is
all that is used, but for the theorems of `Prgm_proofs`, which share two
hypotheses, and two others with one of their own, which are marked. Every step
lemma has a case per action.

### The chunk reader: `StimChunks_proofs`

| theorem | property |
|---|---|
| `TypeCorrect` | `[]TypeOK` |
| `Exclusion` | `[]UnitExclusion` |
| `OneBuffer` | `[]OnlyCurrentLoaded` |
| `CleanWhenUnloaded` | `[]UnloadedIsClean` |
| `FirstPassCorrect` | `[]LoadedIsPattern` |
| `GeometryCorrect` | `[]ChunkGeometry` |

All but the last are conjuncts of the inductive invariant `IInv`
(`Invariance`). `LoadedIsPattern` is not inductive alone: what a chunk gets
depends on where the dots' cursor stands and what the dots holds there. The
strengthening says just that. `DotsInv`: the dots holds the pattern, then only
padding, however much the passes have appended. `CursorInv`:
in a first pass a unit's cursor stands where the chunks handed out so far end.
`ImageInv`: every image of a raw stim is that chunk's slice of the pattern.
`UnloadedIsClean` is needed because filling goes on at `cur_vec_id`.
The arithmetic (chunks in order, none empty, none too large, their sum the
padded length) is in the lemma `Geometry`, which is about the operators alone;
`GeometryCorrect` follows from it and `TypeOK`, which ties each chunk's size to
the operators.

### Loading and files: `StimUse_proofs`

| theorem | property |
|---|---|
| `RestsBetweenCalls` | `[]ReaderAtRest` |
| `FilesAreWhole` | `[]FileIsPattern` |
| `UsesTheReader` | `UsesReader`: the calls are a client of `StimChunks` |
| `StaysInRegion` | `WritesInsideRegion` |
| `ReturnsSize` | `ReturnsPaddedSize` |
| `OneChunkLoads` | `LoadsPattern`, if no stim has more than one chunk per unit (`MAX_NUM_VECS <= VecsPerChunk`) |

`UseInv` (`UseInvariance`) is the reader's `IInv`, which carries over because
every step of a call is a step of the reader (`ReaderStep`), and what ties the
call to the reader: `ReadsAlone` (only the unit of the call is part way through
its chunks, and what it still reads from a dots is a first pass, so that
`LoadedIsPattern` speaks of it), `LoadCounts` (`artix_load_stim` has counted
what the reader has handed out; this gives the returned size and the region),
`MessageGrows` (the message has the image of every chunk so far; at the last
turn that is the file), `AtRest`, `Lengths` and `MemType`. The hypothesis of
`OneChunkLoads` is where the code itself draws the line: with two chunks the
second overwrites the first, which is what `load_many_chunks` shows.

### The tables of a program: `Prgm_proofs`

| theorem | property |
|---|---|
| `PrgmTypeCorrect` | `[]PrgmTypeOK` |
| `TablesStaySound` | `[]TablesSound` |
| `SequentialStaysIntact` | `[]SequentialIntact` |
| `SoloTablesNotFreed` | `[]NoFreedTable` |
| `SequentialIsAccepted` | `SequentialAccepted` |
| `DirectoryIsKept` | `DirectoryKept`: each call is a step of `StimDirectory` or none |

Hypotheses of all six: `SoloStims`, no stim is of both units, and `HashTotal`,
`HashBkt` gives every key a bucket. The first is where the code is right: with a
dual stim one handle is in two tables and `NoFreedTable` is false, which is what
`dual_unload` shows. The second is `HASH_TO_BKT`, a mask with the number of
buckets; it is a hypothesis and not part of `PrgmAssumption` because TLC cannot
evaluate it for all keys. Any number of stims, loads, profiles, addresses and
buckets is covered, and any interleaving of loads and unloads of both units.

The proof describes a table by the sequence of its items in the order they were
added and a sequence per bucket, and goes in three layers:

* a doubly linked list (`Linked`) after an item is appended, pushed in front or
  taken out. The list of a table and each of its buckets are such lists over
  different fields of the same handles;
* a table (`Holds`) and the two tables together (`Tables`): `HASH_ADD` makes the
  sequence longer by the item (`AddTables`), `HASH_DEL` shorter by it
  (`DelTables`), leaving the other table alone; `HASH_FIND` returns the item with
  the key or `NULL` (`FindOf`); the loop of `unload-all` visits every item once
  although each turn takes its item out (`IterIs`). The walks and the loop are
  recursive functions bounded by the number of handles, and a list without
  repetition is never longer than that (`ShortEnough`); the inductions go by
  `Counting`;
* the program (`Store`): the counter of a unit is the length of its sequence, an
  item has the address it was loaded at as its key, and its memory is as
  `SequentialIntact` says.

`SequentialIntact` is not inductive alone: the next `load` could write over any
stim of the table. `Kept` adds that a stim loaded in sequence ends at or below
`_cur_stim_addr`, which is kept because only `unload-all` lowers that address,
and it leaves the tables empty. The same fact gives `SequentialAccepted`: a
stim found at the next address was not loaded in sequence. The inductive
invariant `IInv` is `Store` while the program runs, with the types of the
objects; after undefined behaviour (a freed stim, profile or last stim is used)
only the types are left, and `state = "table"` is never reached. `IInv`
quantifies over sequences and cannot be evaluated by TLC; its consequences are
what `prgm_units` and `prgm_table` check.

### Runs of a stim: `ArtixRun_proofs`

| theorem | property |
|---|---|
| `TypeCorrect` | `[]ArtixTypeOK` |
| `PassesAreReal` | `[]PassIsReal` |
| `FailuresAreReal` | `[]FailIsReal` |
| `NoneStartsAlone` | `[]StartsTogether` |
| `NoneHeldBack` | `[]NothingHeldBack` |

The verdict depends on everything since the first command, so `IInv` says what
each unit holds at each point of the host's program: `SettingUp` (the units
before the current one are prepared, whatever they held when the call began),
`Launching` (nothing runs yet, the line is what the stim needs), `OnTheirOwn`
(each unit runs this stim, or has stopped because it failed, because it is
through, or because the other failed at a cycle it has reached), `ReadMaster`
and `ReadSlave` (what the host has read is never ahead of the unit, and is final
if the host has not given up early), `Returned`. `CountsTrue` ties the registers
of a unit to what it executed. The units may move between any two steps of the
host, and each part is shown to survive that. That a unit stops exactly at
the last cycle of a stim with repeats and padding is an induction over the
repeats (`CyclesOf`).

### Results of a program: `PrgmRun_proofs`

| theorem | property |
|---|---|
| `TypeCorrect` | `[]PrgmRunTypeOK` |
| `RowsTellTrue` | `[]RowsTell` |
| `LastRowTrue` | `[]LastRowAgrees` |
| `ResultsTold` | `[]ResultTold` |
| `FirstUse` | `[]FirstUseDefined` |
| `OnlyOverlaps` | `OnlyOverlapUndoes`, if local time is UTC (`ZONE = 0`) |

`IInv` adds to `RowsTell` and `LastRowAgrees` what a call under way knows:
`CallHistory` (the locals of `_run_stim` sum up the stims that ran, and the
pairs left are the rest of those given), `CallRows` (the rows of the call are
the last ones of the table, saved up to the one being filled), `CopyCurrent`
(the copy of the program's row agrees with the row unless another process wrote
meanwhile) and `Life` (what an open program that was given zeroed memory
holds, and that a freed profile is still pointed to once it was used again).
`FirstUse` does not say that programs are safe to free: `StaleProfile`, which it
excepts, is reached by set-profile, load and unload. It says that there is
no other way, in what `PrgmRun` has, than this one, memory that was not zero and
a program that was closed before. A row keeps telling the truth when a process dies because nothing in
`RowsTell` speaks of the call.

### Moving data: `BoardMem_proofs`, `BoardView`, `BoardWalks`

| theorem | property |
|---|---|
| `BoardTypes` | `[]BoardTypeOK` |
| `NoCommandRefused` | `[]CommandsTaken` |
| `ChecksPass` | `[]ChecksHold` |
| `TransfersDone` | `[]TransferDone` |
| `BuffersInMap` | `[]DmaInsideMap` |

They hold for every size of burst, FIFO and memory, every DMA map of whole
bursts, and all addresses and sizes of transfers that lie in the memory with a
burst to spare. An invariant that named every point of every call would be as long as the calls;
instead a *view* is what the host knows of the board between two commands
(`BoardView`): `At(d)` relates a view to the state, `StepOf(d, c, e)` says when
the command `c` may be issued at `d` and what it makes of it, and a `Walk` is a
sequence of commands that leads from one view to another. The inductive
invariant `BoardInv` says that between calls the board rests and that during a
call the commands still to be issued are a walk from a view the state is at to
a view where the call has done what it is for. Two arguments remain:

* a command does to the board what it does to the view, however late the board
  carries it out (`BoardMem_proofs`, a lemma per command, and the steps of the
  board leave the view alone);
* every call is such a walk (`BoardWalks`). Walks compose as the helpers do, so
  there is a lemma per helper, and the loops over DMA buffers are composed by
  induction over their number (`ConcatWalk`).

A transfer larger than a DMA buffer whose last burst is broken does not return:
a write waits for `DMA_WRITE` to end, a read runs into its time limit. The view
behind the command that is then never issued is `Stuck`, at which no state is;
the theorems say of these calls that up to there nothing is refused, no check
ends the process and every buffer is in the map; `CallReturns` leaves them out.
`BoardInv` quantifies over views and cannot be evaluated by TLC; its
consequences are what `board_mem` checks.

### Only model-checked

The liveness properties `CallsReturn`, `RunReturns`, `CallEnds` and
`CallReturns`: TLAPS has no rules for fairness. Every invariant and every action
property of a passing run is a theorem.

The library's induction theorems have an operator as a parameter, which the
provers cannot instantiate. `Counting` states induction for sets of numbers
(`Least`, `Induct`), from the fact that `<` on the naturals is well founded, and
the proofs by induction define the set of numbers for which the claim holds.

## 5. Not modelled

* the vendored libraries, but for the uthash macros, which `prgm.c` uses against
  their rules: SQLite, lz4, Cap'n Proto, fe and the others are more than nine
  tenths of the lines of the repository and none of them is the program's own
  logic; lz4 appears as an image and its inverse, SQLite as rows that a
  statement changes at once. Generated code (`serialize/stim_serdes.capnp.c`);
* `dots.c`, `subvec.c`, `profile.c`: pure functions of one vector or one
  profile. What the rest relies on is in the models as data: repeats are the
  cycles of a vector in `ArtixRun`, appended padding is in `StimChunks`, the
  release of a profile in `Prgm` and `PrgmRun`;
* `config.c`: no chunk of a bitstream is ever filled (see `StimChunks`), so what
  header, body and footer would make of a chunk cannot be reached;
* the tables of users, jobs, mounts and boards in `db.c` and its paged queries:
  no other part of the library calls them. A 64-bit `failing_vec` is read
  through a 32-bit accessor in `db_make_prgm` (`db.c:220`); the copy that `run`
  makes is overwritten before it is saved;
* the memory test of `artix.c`: a report over `artix_mem_write` and
  `artix_mem_read`; which pins a failure names; `gcore_dma_stop` and
  `subcore_reset`, which have no caller; register dumps;
* logging, formatting, time and file helpers: pure I/O;
* the profile's pins inside a raw file, carried along unchanged;
* failures of `malloc`, `mmap`, `open` and the like, which end the process.

## 6. Plan

The parts of the system with state that outlives a call are modelled, and every
invariant and action property of a passing run is proved. What could follow:

1. the theorems of `Prgm_proofs` for programs with dual stims, once a
   `prgm_stim` has a handle per unit: `AddTables` and `DelTables` change one
   table at a time and would be applied twice;
2. a file format that survives a crash while `stim_serialize_to_path` writes it,
   and the callers of the tables of users, jobs and mounts, should the library
   get any.
