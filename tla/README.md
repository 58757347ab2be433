# PmemWrap in TLA+

PmemWrap finds missing or misplaced persistence operations in programs that
use persistent memory. A program is linked with `libwrappmem.so`, a shim in
front of libpmem and libpmemobj. The shim keeps beside every mapped file a copy
`<path>_flushed` that receives a cache line only when the program flushes and
drains it. A first run is crashed at a randomly chosen call; `PmemWrap_memcpy`
then mixes file and copy into an image the hardware could have left behind, and
a second run on that image shows whether the program recovers.

The verification follows that chain. At its core is the question on which
every verdict of the tool depends: *is the copy file a faithful model of what
would have survived the crash, and is the image made from it one the hardware
could leave?* This directory models the shim and the image tool, checks them
with TLC, and proves with TLAPS that the shim implements an abstract persistent
memory, that the image tool never tears a line, that its image is the one it was
asked for, and that the key-value stores implement an abstract list. Beside them stand the files
that tie the runs together (the persist counts) and the programs the repository
tests with: three key-value stores and fourteen samples, run again and again on
their pool through kills and power failures.

## Inventory

### The system's parts

| Part | Source | State it keeps | Operations |
|---|---|---|---|
| Shim core | `wraplibpmem.c`, `.h`, `nopmdk_api.h` | list of `PMEMaddrset` (head..tail), wait list of flushes (w_head..w_tail), `abortflag`, `abort_through`, one mutex, counters per call site | map, unmap, flush, drain, wrapped calls, force/suppress a crash, constructor, destructor |
| pmemobj wrapper | `wraplibpmemobj.c`, `.h` | three globals of the repeat filter (`tx_process_file`, `tx_process_line`, `c_flag`) | create/open/close a pool, transactions, wrapped calls |
| Persist counts | `wraplibpmem.c` 100-438 | tables of files, lines and backtraces with counts of this and of earlier runs; the count file | read, count, choose a probability, write |
| Crash image tool | `PmemWrap_memcpy.c` (`_modified.c`, a draft, is not built) | the two files | copy all, a random half, or selected ranges of the lines that differ |
| Harness | `testexamples*.sh`, `resetexamples.sh` | the environment of each run, files on disk | profile run; then 100 times crash run, image, recovery run |
| Source rewriting | `sema_state_generate*.py`, `st_replace.py` | a text being rewritten | insert tracing into a program's source |
| Headers | `libpmem.h`, `libpmemobj.h` | none | macros that pass `__FILE__`, `__LINE__` to the wrapped calls |
| Key-value stores | `PmemKVS.c`, `PmemKVS3.c`, `PmemKVS4.c`, `PmemKVS.h` | a root object: slots of key, value and key length, and their number | write, read by key or slot, delete, overwrite a slot or the number |
| Samples | `hello_*.c`, `libpmemtest*.c`, `testprogram.c` | a line of text, or objects that point to one another | write it, or print it |

### How they interact

- The program calls the shim; the shim calls libpmem through `dlsym`. libpmem's
  own `pmem_*_persist` functions end in `pmem_drain`, which is again the shim's.
- All threads of the program share the shim's lists, flags and mutex. Many
  functions look at `abortflag` or `abort_through` without the mutex.
- A raise (`abortflag = 1`) is a message from one call to a later one: the
  call that throws the coin does not abort, the next `pmem_drain` of any thread
  does.
- Crash run, image tool and recovery run share only files: the mapped file, its
  copy, the count file and `backtrace.txt`.

### What is hard, and what must hold

| Part | Hard behaviour | Correct means |
|---|---|---|
| Mappings | two threads map and unmap while others flush; a freed set stays referenced by wait entries | a file is registered once and only while mapped (`RegistryIsSound`); no drain reads a freed set (`EntriesAreLive`) |
| Flush and drain | one thread's drain empties the wait list of all; ranges straddle lines | flushed data is queued or copied (`FlushedIsQueued`), drained data is in the copy (`PersistedIsShadowed`), and together the copy is a persistent memory (`ShadowIsPersistentMemory`) |
| Crash injection | two coins at once, a flag forced meanwhile, drains in progress | a raise holds (`RaiseHolds`), is charged once (`ChargedOnce`), fixes the image (`RaiseFreezesShadow`), and leaves what the analysis needs (`RaiseKeepsCopies`, `BacktraceNamesAbort`) |
| Mutex | early returns between lock and unlock | every call returns (`EveryCallReturns`) |
| Persist counts | rewritten in place; a run may be killed; fixed-size tables | the file holds the most calls of any completed run and every crash charged (`FileIsLedger`), lines account for their backtraces (`LineCountsItsStacks`), nothing is entered twice, not even after a torn file (`NoPlaceTwice`) |
| Crash image | partial last line, pool header, lengths beyond `INT_MAX` | each line of the image is the file's or the copy's (`LinesAreWhole`), a pool's header the file's (`HeaderKept`), the image the one asked for (`ImageAsAsked`) |
| pmemobj wrapper | a filter that must count one of three calls per transaction | each transaction counts once, at its commit (`CommitIsCounted`) |
| Key-value stores | two transactions per command, transactions that abort, keys that begin others | a command that returned survives, one under way is all or nothing (`CompletedSurvives`, `StoreKeepsPromise`); reads and deletes agree with the commands before them (`CacheHoldsStore`, `ReadShowsStore`) |
| Samples | a crash between a pointer and what it points to, a missing persist | the object is whole (`ObjectIsWhole`), what a program stored it has persisted when it returns (`NothingLeftBehind`) |
| Harness | a run that does not crash, a copy file that is gone | the recovery run always starts from an image of the latest crash run |

`PROJECT.json` lists the hazards line by line.

## Modules

| Module | Role |
|---|---|
| `LineRange` | cache-line arithmetic of a drain, `wraplibpmem.c:836-849` |
| `PmemWrap` | the shim: one action per step of every function |
| `PersistentMemory` | abstract: what a persistent memory promises a program |
| `CrashImage` | the image tool `PmemWrap_memcpy` |
| `PersistCount` | the counts over many runs: tables, count file, kills, failed writes |
| `ObjPool` | a libpmemobj pool under one process: cache, medium, undo log, the transaction loop, the shim's filter |
| `KVStore` | the commands of the three stores, as steps of `ObjPool` |
| `Samples` | the sample programs, as steps of `ObjPool` |
| `EntryList` | abstract: what a key-value store promises to keep |
| `Programs` | a store or a sample, run again and again on its pool; composes the four |
| `MCPmemWrap`, `MCCrashImage`, `MCPersistCount`, `MCPrograms` | constants for TLC; the `.cfg` files give the rest |
| `PmemWrapProofs` | type correctness; the control flow of calls, and who owns which mapping |
| `PmemWrapRaiseProofs` | the mutex and the raise; which copies stay; `backtrace.txt` in a program of one thread |
| `PmemWrapShadowProofs` | a drain's copy is aligned, complete and minimal; what the copy files hold; the refinement; no drain reads a freed set |
| `PersistentMemoryProofs` | the abstract memory keeps its promise |
| `CrashImageProofs` | lines stay whole, a pool keeps its header, the image is the one asked for |
| `ProgramsProofs` | the programs: types; the filter counts commits; the samples |
| `PersistCountProofs` | what is read of a count file is what was written; the counts and charges are kept |
| `StoreProofs` | the stores keep, print and delete what they were told; the refinement; no program leaves stores behind |

### How `PmemWrap` corresponds to the code

A function of the API is a sequence of named steps (`Steps`), one step per
stretch of code under the mutex or per unlocked access to shared state.
`todo[t]` holds the steps thread `t` has left, `call[t]` its arguments, and
threads interleave between steps. `pmem_wrap_persist`, for example, is

    flush, count, gate, [recheck, coin,] record, drain, [copy ...]

where `gate` is the unlocked test of `rand_set_abortflag`, `recheck` and `coin`
its locked part, `record` the unlocked write of `backtrace.txt`, and `copy` the
loop of `pmem_drain` over the wait list. The steps in brackets are pushed by
the step before them when the code's condition holds.

| State | Code |
|---|---|
| `orig`, `shadow` | the mapping and `<path>_flushed`, per line; contents are the number of stores the line has received |
| `list` | head..tail; `chunk` is the address `malloc` returned, which wait entries keep after `free` |
| `wait` | w_head..w_tail |
| `region`, `copyfile` | what is mapped; which copy files exist |
| `abortflag`, `abort_through`, `owner` | the flags and the mutex |
| `count`, `aborts`, `countfile`, `backtrace` | the counters of a site and what was written of them |
| `pending`, `durable`, `direct`, `forced` | history variables, read only by properties |

`status` says how the process is doing: `aborted` is the intended crash,
`exited` the return of `main`, `failed` an `exit(1)` of the shim, `segv` a read
of address 0, and `undefined` a read of freed memory, after which the model
makes no further claim about the process.

Names of actions follow the functions; `PROJECT.json` maps every definition to
its lines. The program under test is external: `Call` and `Store` let every
thread call any function of `Api` and store into mapped lines at any time
between its calls. Programs are required only to use an address while it is
mapped and not to unmap a file under another thread's call (`Legal`);
`DrainBeforeUnmap` adds the discipline one run asks for.

### How `CrashImage` corresponds to the code

The tool is sequential (`THREADS` is 1); `pc` is the function it is in and each
action one round of a loop. File contents are abstracted to `diff`, the bytes in
which the two files differ; `fetched` are those taken from the copy so far, so
that a line is torn when some of its differing bytes are fetched and others are
not. `rand() % 2` is a nondeterministic choice (`Toss`). Lengths are unsigned
modulo `SizeMod` (`Minus`). A `memcpy` that leaves the mapping ends in `fault`,
with any part of it done; `getenv` of an unset variable is read as a string and ends in
`segv` (`NoEnvironment`). `selected_range.txt` is the sequence of ranges that
`strtol` reads; the pieces of `INT_MAX` bytes into which `selected_memcpy` cuts a
range are one step, `normal_memcpy` keeps them apart.

`zeroed` is whether the first page of the copy is zero, from which the code
guesses that the file is a pool: the shim leaves a pool's header out of its copy
(`BodyLines` in `PmemWrap`), so a pool's copy always looks so.

### How `PersistCount` corresponds to the code

`tables` is `file_list` with `persist_line_list`, in their order; `file` is
`countfile_plus.txt` as the sequence of its `write()` calls, so that a kill can
fall between any two. A run is started in one of the modes of
`PMEMWRAP_WRITECOUNTFILE` (`YES` stands for an unset variable too), calls wrapped
functions (`Call`: `plus_persistcount`, then the coin), and ends by returning, by
aborting at a drain, by finding a table full, or killed. The coin is certain where
`prev_count * persist_place_sum` is 0, otherwise free.

Opens and writes may fail. The shim checks both opens and the writes of files and
lines: it calls `exit(1)` (`OpenFails`, `WriteFails`), and when it was `pmem_drain`
that wrote, the destructor writes the file again from the same tables (`again`).
The writes of backtraces are not checked (`WriteIsLost`). A run that reads a file in
which a backtrace is cut off or has lost a part of itself makes of it what the text
behind it, or behind its buffer, says: `undefined`, after which nothing is claimed.

`ledger` is a history variable, computed without the tables: per place the maximum
of the runs and the sum of their charges since the last profile. It is what the
file promises, and `FileIsLedger` compares the two wherever the file is not `torn`:
a run was stopped while writing, lost a write, or merged into what it had read of
such a file (`suspect`). A later profile heals it.

`PmemWrap` keeps the same counts as one number per site and writes them in one
step, because it lasts one run. Its `DrainFails` is the failure of that step in the
abort branch: the process exits, and the destructor takes the copy files away.

### How `ObjPool`, `KVStore`, `Samples` and `Programs` correspond to the code

A pool is a function from cells to values, once as loads and stores see it
(`cache`) and once as a power failure would leave it (`medium`). A cell is a field
of the program's root object, or of an object it allocated: what one assignment,
`memcpy` or `TX_MEMCPY` stores. It gets to the medium when it is persisted, when a
transaction that added it commits, or at any moment by itself (`Evict`). The undo
log is on the medium: `pmemobj_open` puts its values back (`Recovered`), and a
commit takes effect when it drops the log (`TxCommit`).

A process is the sequence of calls and stores it has left (`code`), which the
definitions of `KVStore` and `Samples` build. They follow the source function by
function, `<program>_<function>`; loops and branches over what the pool holds are
resolved when the program has opened it, since no other process has. A transaction
is `TX_BEGIN ... TX_END(line)`. `PmemKVS4_macro.c`, which is `PmemKVS4.c` after the
preprocessor, shows what they expand to, and `TxBegin` to `TxEnd` follow that
expansion: the loop calls `pmemobj_tx_process` in stage WORK, which commits, then
once more in ONCOMMIT and FINALLY; an abort jumps to the loop in stage ONABORT
(`TxAddFails`), which makes it two calls. Each goes through
`pmemobj_wrap_tx_process`, whose filter is `site`, `c_flag` and `Counts`.

| State | Code |
|---|---|
| `pool` | the file: `partial` between its creation and its header |
| `cache`, `medium`, `log` | the pool's contents |
| `stage`, `code` | `pmemobj_tx_stage()`, and where the process is |
| `site`, `c_flag` | `tx_process_file` with `tx_process_line`, and `c_flag` |
| `phase`, `cmd`, `created`, `answer` | of the process: its command line, whether it made the file, what it printed |
| `counted`, `committed`, `failed`, `acked`, `ready`, `spoiled` | history variables |

`Programs` starts a command (`Start`), creates or opens the file as the program
does, with the file perhaps absent or left half made (`CannotOpen`), lets it run,
kills it or cuts the power. `acked` is what the user may rely on: the entries as of
the commands that returned, computed on the abstract list of `EntryList`; after a
failure it is what recovery would find, since a command under way may be either.
`StoreKeepsPromise` is the refinement: the entries on the medium (`Durable`) are an
`EntryList`, whose only steps are whole commands.

Keys are sequences of characters, for `strncmp` over the stored length lets a key
match an entry that it begins with (`Matches`), and a shorter key copied over a
longer one leaves that one's end (`Onto`). The field is `char key[MAX_BUF_LEN]`,
30 bytes with the NUL (`PmemKVS.h:5`), and no program tests that a key fits: one to be
written has at most 29 characters here (`CommandsAssumption`), so that it stays in its
cell and a NUL ends it. A key that is only looked for is compared up to the stored
length and may be longer.
Values are numbers.

## Runs

| Run | Question | Properties |
|---|---|---|
| `shadow` | two threads on one file, coins at wrapped drains, two sites | `PersistedIsShadowed`, `FlushedIsQueued`, `ChargedOnce`, `RaiseFreezesShadow`, `RaiseHolds`, `ShadowIsPersistentMemory` |
| `harness` | one thread on a file and the pool mapped right above it, every wrapped call and every failure | `TypeOK`, `BacktraceNamesAbort` |
| `discipline` | two threads that drain before they unmap, file and pool | `EntriesAreLive` |
| `progress` | two threads that drain and unmap through the wrappers while the flag is raised, under weak fairness | `EveryCallReturns`, `RaiseKeepsCopies` |
| `image` | every mode, five file sizes, every set of differing edges, five selections | `ImageTypeOK`, `LinesAreWhole`, `HeaderKept`, `ImageAsAsked` |
| `counts` | three runs of two calls in all modes, with a kill or a failed open or write | `CountTypeOK`, `NoPlaceTwice`, `FileIsLedger`, `LineCountsItsStacks` |
| `programs` | every store and sample: four runs on one file, two kills or power failures, aborted transactions | `ProgramTypeOK`, `CompletedSurvives`, `CacheHoldsStore`, `ReadShowsStore`, `StoreKeepsPromise`, `ObjectIsWhole`, `NothingLeftBehind`, `CommitIsCounted` |
| `force_lost`, `raised_end`, `memcpy_persist`, `failed_map`, `image_fault` | what the repository says and the code does not do | one each, violated |

Every property of a passing run has a mutant in `PROJECT.json`: a small change
of the mapped definition, such as a forgotten unlock or a wrong rounding, under
which TLC finds the property violated.

### Bounds, and why they are enough

- *Two threads.* The shared steps are atomic and only the mutex and the two
  flags couple threads, so a lost update or a drain of another's entries needs
  two. The proofs cover any number.
- *One file of two lines, or that file and a pool with a header line.* One line
  is not enough: `BothLines` (bytes 60-67) straddles the boundary, so that a
  wrong rounding loses a line. The pool lies right above the file, so that
  `PastEnd` and `PoolStart` meet the comparison at the end of a mapping
  (`wraplibpmem.c:714`). `HeaderSize` is one line instead of 64.
- *Two chunks* let `malloc` reuse the address of a freed set or not.
- `MaxCalls` (per thread) bounds the length of runs: three calls are map, flush
  and drain or unmap, which is what a stale wait entry or a drain of another
  thread's flush takes, or a raise and an unmap behind the mapping of each of two
  threads (`progress`); the `harness` run has four, so that a raise, a second raise
  attempt and an unmap fit behind the mapping.
- `MaxVersion` bounds the program's own stores to a line. libpmem's stores are
  bounded by the calls.
- *Image tool.* A page is four lines and `INT_MAX` three lines and a bit. Sizes
  60, 100, 256, 300 and 600 end within the first line, within a page, with a
  page, within a line behind the header, and behind several pieces. `EdgeProbes`
  are the first and last bytes of lines, pages and files: a wrong remainder shows
  at such a byte. Selections overlap, straddle a line, take the last line, name no
  byte at all and, on the smaller files, leave the mapping.
- *Counts.* Tables of two files with one line each; the five places are two
  backtraces of one line, a second line that finds no room, and three files, of
  which the third finds none. `TwoWays` permutes the two backtraces, which the
  code compares with each other and with none. Three runs are a profile, a run that merges, and one
  that reads what was merged; two calls make a maximum differ from a sum.
  `MaxFails` is one kill or failed operation: the destructor that writes again
  after a failure needs one, and so does a torn file with runs before and behind it.
- *Programs.* A store has two slots (`MAX_STORE`), so that the last entry is not
  the only one and a deletion moves it; of the two keys one begins the other.
  Commands overwrite each slot and the number. Four runs (`MaxRuns`) fill the store,
  delete and read, or write, fail, recover and read. Two failures (`MaxFails`) let
  power fail during the recovery from a failure. `AddMayFail` lets any
  `pmemobj_tx_add_range` fail. A sample has two kinds of run, so fewer would do.
- `Symmetric` permutes threads and chunks, which no property distinguishes; it
  is used in a run of safety properties only.

### Fairness

`FairSpec` assumes weak fairness of `Thread(t)` for every thread, that is, the
operating system runs every thread that can go on. Nothing is assumed of
`Call`, `Store` or `Return`: a program need not call anything. A thread that
waits for the mutex is enabled only while it is free; weak fairness is enough
because calls are bounded, so the others stop taking it. Strong fairness, which
pthreads mutexes do not guarantee, is not assumed.

## What is proved

The theorems about the shim hold for every set of threads, files, addresses,
ranges, call sites and API subsets that satisfies the named assumptions of
`PmemWrap`: mappings are line-aligned and disjoint, a pool holds a whole header,
addresses and lengths are naturals. Those about the programs hold for every size of
the array and any number of commands, runs and failures, under `CommandsAssumption`:
a key is a sequence of characters, of fewer than `MAX_BUF_LEN` if it is to be written, a
value a number, and an id or a number within the array. No program tests the length of a
key, an id or a number; of a command that breaks the assumption nothing is claimed. Those
about the image tool assume that a selected range rounded to lines stays within a
`size_t` (`RangesAssumption`).

1. `TypeCorrect`: `Spec => []TypeOK`. Its core is that every list in `Steps`
   and every pushed step is a sequence of `Ops`.
2. `RegistryIsSound`: the steps ahead of a thread always have the shape the
   code gives them (`CallsOrdered`: a `coin` or `copy` is only ever the next
   step, an `unmap` is the last one and directly follows `delete`, an `add`
   directly follows the map), and therefore mappings have owners
   (`MappingsOwned`: no file twice in the list, registered files are mapped, a
   file being registered or unmapped belongs to one call).
3. `ChargedOnceHolds`, `RaiseNeverTakenBack` from `RaiseInv`. Neither property
   is inductive. What carries them: a thread whose next step is `coin` or `copy`
   holds the mutex (`LockHeld`), got it with the flag down (`FlagDown`), and
   after a charge no coin is in the air (`Charge`).
4. `PersistedSurvives`, `NoFlushForgotten` from `ShadowInv`, the two properties
   together with `Behind`: neither copy nor flush is ahead of memory. The step
   that copies uses `CopyCoversFlush`; the step that registers a file uses that
   its lines were nobody's; the step that deletes a set uses that the wait
   entries of other files point to other sets, because mappings are disjoint.
5. `CrashPointIsKept`: a thread about to copy has the flag down, so from the
   raise to the abort no copy changes.
6. `ShadowRefinesMemory`: `Spec` implements `PersistentMemory` under the mapping
   in `PmemWrap` (`PM`): medium = the copies of registered files, flushed and
   fenced = the history of flushes and drains. A copied entry is a write-back, a
   finished drain a fence, whose guard is `FlushedIsQueued` with an empty wait
   list; registering and deleting attach and detach lines; every end of the
   process is a crash.
7. `FencedDataSurvives`: the abstract memory never loses fenced data.
8. `CopyIsAligned`, `CopyCoversFlush`, `CopyIsMinimal` of `LineRange`;
   `ImagesArePossible`: an image of lines of the file and lines of its copy, which is
   what 10 says the tool makes, has none older than what was fenced and none newer
   than what was stored, at any moment of the run.
9. `EntriesStayLive`, for a program that is `Disciplined`: it drains before it unmaps
   and flushes no empty range (one may lie at the edge of a file that is being
   unmapped). `EntriesAreLive` needs to know that a file being unmapped has no entry
   left (`ClosedDrained`); that no flush queues one meanwhile, since a range in use
   keeps its file mapped (`UsesHeld`); and that who deletes a set is about to unmap
   its file (`DeletesUnmap`).
10. `NoTornLine`, `PoolKeepsHeader`, `ImageTypeCorrect` from `ImageInv`, for every
   file size, page size that is a multiple of a line, and selection. What makes
   `LinesAreWhole` inductive: `offset` is a multiple of a line, and in
   `normal_memcpy` `offset + len` reaches the end of the file, wrapped or not.
   Every piece then has a whole number of lines or ends with the file
   (`BytesOfWholeLines`); `RemainderIsTheRest` shows it of the last line that
   `rand_memcpy` tosses for once more. The header is safe because `offset` starts
   behind it and the remainder of a file of exactly one page is empty.
   `ImageIsAsAsked` follows from `Progress`: what has been fetched is what lies
   between the start and `offset`, or the lines of the ranges processed so far;
   `RoundingTouches` shows that rounding a range takes the lines it touches and no
   other.
11. `CommitCountedOnce` from `FilterInv`, for every set of programs and commands:
   while no transaction of the process has been aborted, the filter is in step with
   the transaction loop, so that its two remembered repeats are the two calls after
   a commit. What has to be shown is that it is in step again at each next
   transaction, at the same line or another.
12. `RaisedCopiesStay`, for any number of threads that unmap through the wrappers
   (`OnlyWrappers`). A thread that looked at the flag before the raise may still delete a
   set, so the property speaks of the time when none is between its look and the
   deletion. Then no thread gets there any more: a `delete` directly follows a drain in
   the list of steps (`Guarded`), which is the shape of `pmem_wrap_unmap` and not of plain
   `pmem_unmap`, and only a look that finds the flag down brings a thread to its last
   steps (`Looked`).
13. `BacktraceIsOfAbort`, for a program of one thread that drains through the wrappers
   (`WrappedDrains`). A plain `pmem_drain` aborts without a site, and of two threads
   the second can see the flag up and write its own site over the first's. What
   carries it: from the raise on, the thread is at the drain that will abort, or has
   `record` ahead of it before any drain (`WrittenDown`, `Noted`).
14. `ProgramsWellTyped`. `number` stays within the array because a command of a store
   adds one to it at most once, after `Legal` found room, and what is stored under an
   aborted transaction is undone; the log keeps the kind of its cells, so a recovery
   cannot bring back anything else.
15. `NextFindsTheStore` and `ReadersSeeTheStore` from `StoreInv`, for all three
   stores and keys that fit their field. Neither says anything while a command runs, so `StoreInv` follows it: when
   it starts, the store it will leave is fixed (the `T` of `Coming`), and from then on
   memory, the log and the steps ahead of the process lead there. `Round` says of the
   steps that whatever differs from `T` in memory is still to be stored, and whatever
   is logged or still to be added covers it; `WriterRound` shows it of every command,
   from the bytes of keys up (`WrittenList`, `DeletedList`: filling and moving slots
   does to the list of entries what `EntryList` says). A transaction that fails goes
   back to where it began.
16. `CompletedCommandsSurvive` and `StoreRefinesList`, of `PmemKVS.c` and
   `PmemKVS4.c`: what power leaves is memory with the log undone, except for `number`
   after a deletion of the last entry (`LooseList`). Of a whole round only the commit
   changes the list it gives (`CommitList`), and by the effect of the command.
17. `CountsWellTyped`, `OneEntryPerPlace`, `FileKeepsLedger` and `LinesAccount`, for
   all places, sizes of the tables, runs, calls and failures, under `CountAssumption`
   (a place is a file, a line and a backtrace). None of the four is inductive: they
   speak of the tables or of a whole file, and a run may read a file of which a kill
   left the first writes or a failure took single ones out. `CInv` therefore says of
   whatever is in the file and still to be written (`Shaped`) that it is read into a
   table that fits the arrays and has no file or line twice (`Framed`), and that
   between two lines no backtrace is repeated (`Traced`). Both survive cutting the end
   off and losing a piece of a backtrace (`InputExtends`, `InputWithout`,
   `TracedPrefix`, `TracedWithout`), and a readable file that has them makes a sound
   table (`InputNamed`). A file written to its end is read as the tables merged with
   what they had read (`WroteOutput`): that, the effect of a call on every entry
   (`CallIs`) and the sums of a line (`CountAdds`, `PrevCovers`) tie the file to the
   ledger (`FileIsRight`, `RunIsRight`).
18. `ObjectStaysWhole` from `ObjInv`. `ObjectIsWhole` speaks of what power leaves;
   that it does so after every step depends on where the process is. `SettingUp` and
   `Changing` say, at each of the fourteen steps of the writer, what of the object is
   on the medium, and that no line is changed before the log has all three. A
   recovery that is interrupted gives the old lines again (`ObjOpen`), and the object
   is never set up twice: only a run that made the file writes, and such a file still
   holds zeros (`Fresh`).
19. `NothingIsLeftBehind`, of each program by its discipline. The stores are at the end
   of a round (`StoreLeaves`). `loop` stores to nothing that is not in its log
   (`Rounds`, `InRound`), so nothing is loose at any time (`Tight`). The samples on
   libpmem and `hello_libpmemobj.c` have ahead of them a persist of every cell that
   differs on the medium, left there by this run or one that was killed
   (`PersistsAll`). The rest never return, there is an abort ahead (`AbortsFirst`).

Sets of numbers have a least element (`NatMin`, from `NatSet`), which stands in for
induction where the least slot, the first mismatch or the next step is looked for.
What folds make of a sequence is proved by induction on its length, from what
`FoldLeft` and `FlattenSeq` make of one element more (`FoldOfOneMore`,
`FlattenOneMore`, `SeqGrows`).

Only model-checked: `EveryCallReturns`, because liveness is out of the prover's reach.

## Findings

1. *A forced crash can be lost* (`force_lost`). The coin writes `abortflag = 0`
   when it comes up blank (`wraplibpmem.c:481`); `force_set_abortflag` writes 1
   without the mutex, between the test and that write.
2. *A raised run may end normally* (`raised_end`), with its site charged and its
   copy files removed, when no drain follows the raise: the trace maps a file in
   `NORMAL_MEMCPY`, calls `pmem_wrap_memcpy` without a drain, and returns.
3. *`pmem_memcpy_persist` is not shadowed* (`memcpy_persist`): libpmem's inner
   flush does not pass through the shim.
4. *A failed `pmem_map_file` kills the program* (`failed_map`) where the caller
   expects NULL: it reads address 0, or calls `exit(1)` when the copy file cannot be
   mapped either (`wraplibpmem.c:562`).
5. *The image tool faults on a small file* (`image_fault`). `mmap` pads a file
   shorter than a page with zeros; while nothing of it was drained its copy is
   all zero, is taken for a pool's, and `size1 - 4096` wraps. The same guess makes
   the tool leave out the first page of any plain file whose copy is still zero
   there.

A drain copies lines as they are at the drain, stores made after the flush
included. That is not a finding: the hardware may write such a line back too, and
`ShadowRefinesMemory` treats it so. It does mean that an image cannot show the
loss of such a store.

## Limits

- A file is mapped at one address and by one mapping at a time.
- Contents are versions of whole lines. Torn lines are out of the model because
  `CopyIsAligned` shows that drains do not tear them.
- `RAND_MEMCPY` and `SELECTED_MEMCPY` behave like `NORMAL_MEMCPY` inside the
  library; they differ in the image tool.
- The coin is nondeterministic, which covers every probability.
- `HeaderKept` and `ImageAsAsked` take the tool's guess whether a file is a pool's as it
  is; that the guess can be wrong is finding 5. Selected ranges near the largest
  `size_t`, where rounding wraps, are left out (`RangesAssumption`).
- `countfile.txt` is left out, no run reads it. A write is done or not; a short one
  ends the run as a failed one does, but may leave a part of its text. A failed
  `malloc` in `plus_persistcount` is a full table, as both call `exit(1)`.
- A selected range without bytes that begins inside a line stands for the line, for
  `selected_memcpy` rounds it up to that; one at the start of a line copies nothing.
- Cells are stored and written back whole. A text longer than eight bytes can be
  torn by the hardware; the programs that care persist it before they point to it.
- `AddFails` stands for all failures of `add_PMEMaddrset` under the mutex: of `malloc`,
  or of creating or mapping the copy file, whether or not libpmem mapped the file.
- The `len` given to `pmem_map_file` is the length that gets mapped. The shim registers
  the argument (`wraplibpmem.c:603`); for an existing file opened with length 0 it
  cannot map a copy of that length and exits, which is `AddFails`.
- The flags of the wrapped copying functions are 0 or `PMEM_F_MEM_NODRAIN`; the others
  choose instructions.
- `BacktraceNamesAbort` is of one thread: of two, the second can see the flag up and
  rewrite `backtrace.txt` with its own site. `RaiseKeepsCopies` excepts the unmap that
  looked at the flag just before another thread raised it, and a coin on its way when
  the program calls `set_abort_through(1)` still raises. Nothing in the repository
  promises otherwise.
- At a boundary shared by two mappings a flush of the upper one is taken for an
  overrun of the lower one and the process exits (`FlushOverruns`).
- `EntriesAreLive` needs `DrainBeforeUnmap`; without it `StaleEntry` is reached,
  and nothing is said of the process after it.
- `CommitIsCounted` is of processes without aborted transactions. An aborted one
  makes two calls instead of three, and the filter stays out of step: TLC then
  finds a later call counted that commits nothing. The filter's globals are not
  locked either; each program here has one thread.
- The stores' promises name what they except. Deleting the last entry stores
  `number` and adds it to no transaction (`PmemKVS.c:148`, `PmemKVS3.c:170`,
  `PmemKVS4.c:219`): it is durable when the caches please (`DeletedLoosely`,
  `LastOnesGo`). In `PmemKVS.c` the second transaction of a write commits even if
  the first was aborted, and counts a slot that was not filled (`spoiled`).
  `PmemKVS3.c` adds eight bytes of the root whatever it stores (`PmemKVS3.c:69`), so
  that nothing is claimed of it after a failure (`Intact`).
- `ReadShowsStore` compares entries, not lines of output: a key is printed up to its
  NUL, with the end of an older and longer one of the same slot, if there was one.
- Keys to be written fit `key[30]`. `PmemKVS.c:45`, `PmemKVS3.c:72` and `PmemKVS4.c:132`
  copy `strlen(key)` bytes without a test; a longer key would go on into the fields
  behind it, and nothing is claimed of a store to which one was written.
- Commands are legal ones (`Legal`): no write to a full store and no slot number
  beyond `MAX_STORE`, which no program tests for; `number` is only lowered.
  `-mnp` is left out, it opens its third argument for the path (`PmemKVS.c:284`).
- A pool file whose creation was interrupted is never opened by libpmemobj again;
  the programs print an error until the user removes it.
- `NothingLeftBehind` excepts the programs in `Careless`, which leave stores
  unpersisted on purpose or for want of a `TX_ADD`: they are what the tool is tried
  on. `hello_libpmemobjtest3_alloc.c` never sets its root, so its reader finds
  nothing; `hello_libpmemobjtest3.c` persists the pointer before the lines it points
  to, which is why `ObjectIsWhole` begins with its first transaction. The branch of
  `libpmemtest.c` for files that are not on persistent memory calls `msync`, which
  is the same step here.
- Not modelled: `PmemWrap_memcpy_modified.c`, which the Makefile does not build and
  no script runs (its blocks of 8092 bytes are no multiple of a line); the scripts,
  which patch, build and run in a fixed order; the source rewriting in Python, a
  text filter without state over time; the rest of `PmemKVS4_macro.c`, which is the
  C library's and libpmemobj's headers.
- That libpmem's copying functions flush inside libpmem and end in the
  interposed `pmem_drain` is taken from how the shim uses them.

## Plan

What decides the tool's verdicts came first: `LineRange`, `PersistentMemory` and
`PmemWrap`, then `CrashImage`, `PersistCount` and, with the programs under test,
`ObjPool` to `Programs`. What is left, in this order:

1. `TestLoop`: profile, crash, image and recovery runs over shared files, composing
   `CrashImage` and `PersistCount` with an abstract crash run taken from
   `PersistentMemory`.
2. The safety half of `EveryCallReturns` as a theorem: whoever holds the mutex has a
   next step that is not a wait for it.
