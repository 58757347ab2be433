------------------------------ MODULE PmemWrap ------------------------------
(***************************************************************************)
(* libwrappmem.so: the library a program under test is linked with in      *)
(* front of libpmem (wraplibpmem.c) and libpmemobj (wraplibpmemobj.c).     *)
(*                                                                         *)
(* The shim keeps, for every mapped file, a shadow copy "<path>_flushed"   *)
(* that receives a cache line only when the program flushes and drains it, *)
(* and at randomly chosen call sites it raises abortflag, after which the  *)
(* next drain kills the process and leaves memory and shadow behind.       *)
(*                                                                         *)
(* A call of the API is a sequence of steps, one per stretch of code that  *)
(* runs under the mutex or touches shared state without it; threads        *)
(* interleave between steps.  The contents of a line are abstracted to     *)
(* the number of stores it has received.                                   *)
(***************************************************************************)
EXTENDS LineRange, Sequences, FiniteSets, SequencesExt

CONSTANTS
    Threads,            \* threads of the program under test
    NoThread,           \* the mutex is free
    Regions,            \* files, each at the address it is mapped at
    Base, Size, Kind,   \* of a region: address, bytes, PMEM or PMEMOBJ file
    HeaderSize,         \* bytes of a pool header; 4096 in the code
    Chunks,             \* addresses malloc may return for a PMEMaddrset
    Ranges,             \* the [addr, len] arguments of flushes
    Sites,              \* <file, line> of the wrapped calls
    Api,                \* the functions this program calls
    DrainBeforeUnmap,   \* it never unmaps a file with undrained flushes
    MaxCalls,           \* bound: calls of each thread
    MaxVersion          \* bound: the program's own stores to a line

RegionLines(r) == TouchedLines(Base[r], Size[r])

Lines == UNION {RegionLines(r) : r \in Regions}

(* The part add_PMEMaddrset copies: all of a PMEM_FILE, a PMEMOBJ_FILE     *)
(* without its first page.                                                 *)
BodyLines(r) ==
    IF Kind[r] = "PMEM_FILE" THEN RegionLines(r)
    ELSE TouchedLines(Base[r] + HeaderSize, Size[r] - HeaderSize)

ASSUME ThreadsAssumption == NoThread \notin Threads
ASSUME BoundsAssumption == MaxCalls \in Nat /\ MaxVersion \in Nat
ASSUME SitesAssumption == Sites # {} /\ DrainBeforeUnmap \in BOOLEAN
ASSUME RangesAssumption == Ranges \subseteq [addr : Nat, len : Nat]

(* mmap returns page-aligned, disjoint mappings; pools hold a whole header. *)
ASSUME RegionsAssumption ==
    /\ Regions # {} /\ HeaderSize \in Nat /\ HeaderSize % CACHE_LINE_SIZE = 0
    /\ Base \in [Regions -> Nat] /\ Size \in [Regions -> Nat]
    /\ Kind \in [Regions -> {"PMEM_FILE", "PMEMOBJ_FILE"}]
    /\ \A r \in Regions :
          /\ Base[r] % CACHE_LINE_SIZE = 0
          /\ Kind[r] = "PMEMOBJ_FILE" => HeaderSize <= Size[r]
          /\ \A q \in Regions \ {r} : RegionLines(r) \cap RegionLines(q) = {}

VARIABLES
    orig,           \* line -> contents the program sees
    shadow,         \* line -> contents of the copy file of its region
    region,         \* region -> is it mapped, and by whose hand
    list,           \* head .. tail: the registered PMEMaddrsets
    wait,           \* w_head .. w_tail: flushes no drain has copied yet
    abortflag, abort_through,
    owner,          \* the thread holding the mutex
    todo,           \* thread -> steps left of its call
    call,           \* thread -> arguments of its call
    calls,          \* thread -> calls it may still make
    status,         \* how the process is doing
    copyfile,       \* the copy files that exist on disk
    count, aborts,  \* site -> Backtraces_info.count and .abort_count
    countfile,      \* what write_persistcountfile wrote last
    backtrace,      \* the site in backtrace.txt
    pmemwrap_abort, memcpyflag,    \* the environment of this run
    \* History, read by properties only:
    pending,        \* thread -> line -> contents it flushed, not yet drained
    durable,        \* line -> newest contents some thread flushed and drained
    direct,         \* line -> newest contents libpmem persisted by itself
    forced          \* force_* wrote abortflag

memory  == <<orig, shadow, region, list, wait, copyfile>>
flags   == <<abortflag, abort_through>>
threads == <<owner, todo, call, calls, status>>
counts  == <<count, aborts, countfile, backtrace>>
env     == <<pmemwrap_abort, memcpyflag>>
history == <<pending, durable, direct, forced>>
vars    == <<memory, flags, threads, counts, env, history>>

-----------------------------------------------------------------------------
(* The steps of each API function, in the order the code makes them. *)

(* Mutant: backtrace.txt is written before the coin is thrown. *)
record_first == <<"count", "record", "gate">>

rand_set_abortflag_plus_persistcount == <<"count", "gate", "record">>

pmem_map_file        == <<"map_file", "add">>
pmemobj_open         == <<"map_pool", "add">>
pmem_flush           == <<"flush">>
pmem_drain           == <<"drain">>
pmem_persist         == pmem_flush \o pmem_drain
pmem_wrap_drain      == rand_set_abortflag_plus_persistcount \o pmem_drain
pmem_wrap_persist    == pmem_flush \o pmem_wrap_drain
pmem_wrap_msync      ==
    pmem_flush \o rand_set_abortflag_plus_persistcount \o pmem_drain
pmem_wrap_memcpy_persist ==
    rand_set_abortflag_plus_persistcount \o <<"libpmem_memcpy_persist">>
        \o pmem_drain
(* With flags of 0 libpmem persists as above; with PMEM_F_MEM_NODRAIN, or   *)
(* NOFLUSH, it does not drain.                                             *)
pmem_wrap_memcpy     == pmem_wrap_memcpy_persist
pmem_wrap_memcpy_nodrain ==
    rand_set_abortflag_plus_persistcount \o <<"libpmem_memcpy">>
pmem_unmap           == <<"delete", "unmap">>
(* Mutant: unmaps without the drain that would abort. *)
pmem_wrap_unmap_undrained == rand_set_abortflag_plus_persistcount \o pmem_unmap

pmem_wrap_unmap      ==
    rand_set_abortflag_plus_persistcount \o <<"drain_if_raised">> \o pmem_unmap
pmemobj_wrap_direct  ==
    rand_set_abortflag_plus_persistcount \o <<"drain_if_raised">>
force_set_abortflag  == <<"force">>
force_abort_drain    == force_set_abortflag \o pmem_drain
set_abort_through    == <<"through">>

Steps == [
    pmem_map_file   |-> pmem_map_file,      pmemobj_open  |-> pmemobj_open,
    pmem_flush      |-> pmem_flush,         pmem_drain    |-> pmem_drain,
    pmem_persist    |-> pmem_persist,       pmem_unmap    |-> pmem_unmap,
    pmem_wrap_drain |-> pmem_wrap_drain,
    pmem_wrap_persist   |-> pmem_wrap_persist,
    pmem_wrap_msync     |-> pmem_wrap_msync,
    pmem_wrap_unmap     |-> pmem_wrap_unmap,
    pmem_wrap_memcpy    |-> pmem_wrap_memcpy,
    pmem_wrap_memcpy_nodrain |-> pmem_wrap_memcpy_nodrain,
    pmem_wrap_memcpy_persist |-> pmem_wrap_memcpy_persist,
    pmemobj_wrap_direct |-> pmemobj_wrap_direct,
    force_abort_drain   |-> force_abort_drain,
    force_set_abortflag |-> force_set_abortflag,
    set_abort_through   |-> set_abort_through]

ASSUME ApiAssumption == Api \subseteq DOMAIN Steps

Ops == {"count", "gate", "recheck", "coin", "record", "map_file", "map_pool",
        "add", "flush", "drain", "copy", "drain_if_raised", "delete", "unmap",
        "force", "through", "libpmem_memcpy", "libpmem_memcpy_persist"}

(* The arguments that matter to a function; the others keep NoCall's. *)
NoCall == [reg  |-> CHOOSE r \in Regions : TRUE,
           rng  |-> [addr |-> 0, len |-> 0],
           site |-> CHOOSE s \in Sites : TRUE]

Takes(api, ops) == \E i \in DOMAIN Steps[api] : Steps[api][i] \in ops

Arguments(api) ==
    [reg  : IF Takes(api, {"unmap"}) THEN Regions ELSE {NoCall.reg},
     rng  : IF Takes(api, {"flush", "libpmem_memcpy",
                               "libpmem_memcpy_persist"})
            THEN Ranges ELSE {NoCall.rng},
     site : IF Takes(api, {"count"}) THEN Sites ELSE {NoCall.site}]

Calls == [reg : Regions, rng : [addr : Nat, len : Nat], site : Sites]

-----------------------------------------------------------------------------
(* Ranges and registered mappings. *)

Overlaps(rng, r) == TouchedLines(rng.addr, rng.len) \cap RegionLines(r) # {}

Inside(rng, r) ==
    /\ Base[r] <= rng.addr
    /\ rng.addr + rng.len <= Base[r] + Size[r]

(* The comparison with the end of the mapping includes the end itself. *)
Overruns(rng, r) ==
    /\ Base[r] <= rng.addr
    /\ rng.addr <= Base[r] + Size[r]
    /\ Base[r] + Size[r] < rng.addr + rng.len

(* The set the search of add_waitdrainlist stops at. *)
StopsAt(rng, i) ==
    /\ Inside(rng, list[i].reg) \/ Overruns(rng, list[i].reg)
    /\ \A j \in 1..(i - 1) :
          ~Inside(rng, list[j].reg) /\ ~Overruns(rng, list[j].reg)

Registered == {list[i].reg : i \in DOMAIN list}

(* The lines whose shadow stands for what is on persistent memory. *)
Claimed == UNION {BodyLines(r) : r \in Registered}

-----------------------------------------------------------------------------
Init ==
    /\ orig = [l \in Lines |-> 1]
    /\ shadow = [l \in Lines |-> 0]
    /\ region = [r \in Regions |-> "free"]
    /\ list = <<>> /\ wait = <<>>
    /\ abortflag = 0 /\ abort_through = 0
    /\ owner = NoThread
    /\ todo = [t \in Threads |-> <<>>]
    /\ call = [t \in Threads |-> NoCall]
    /\ calls = [t \in Threads |-> MaxCalls]
    /\ status = "running"
    /\ copyfile = {}
    /\ count = [s \in Sites |-> 0] /\ aborts = [s \in Sites |-> 0]
    /\ countfile = <<>> /\ backtrace = <<>>
    /\ pmemwrap_abort \in {0, 1}
    /\ memcpyflag \in {"NORMAL_MEMCPY", "NO_MEMCPY"}
    /\ pending = [t \in Threads |-> [l \in Lines |-> 0]]
    /\ durable = [l \in Lines |-> 0] /\ direct = [l \in Lines |-> 0]
    /\ forced = FALSE

At(t, op) == status = "running" /\ todo[t] # <<>> /\ Head(todo[t]) = op

(* Thread t goes on with the steps rest; a call with none left returns. *)
Continue(t, rest) ==
    /\ todo' = [todo EXCEPT ![t] = rest]
    /\ call' = IF rest = <<>> THEN [call EXCEPT ![t] = NoCall] ELSE call

Rest(t) == Tail(todo[t])

-----------------------------------------------------------------------------
(* The program. *)

(* Programs use an address only while it is mapped, and do not unmap a     *)
(* file under another thread's call.                                       *)
Legal(t, api, args) ==
    /\ \A r \in Regions : Overlaps(args.rng, r) => region[r] = "held"
    /\ Takes(api, {"unmap"}) =>
          /\ region[args.reg] = "held"
          /\ \A u \in Threads : ~Overlaps(call[u].rng, args.reg)
          /\ DrainBeforeUnmap =>
                \A i \in DOMAIN wait : ~Inside(wait[i].rng, args.reg)

Call(t) ==
    /\ status = "running" /\ todo[t] = <<>> /\ calls[t] > 0
    /\ \E api \in Api : \E args \in Arguments(api) :
          /\ Legal(t, api, args)
          /\ todo' = [todo EXCEPT ![t] = Steps[api]]
          /\ call' = [call EXCEPT ![t] = args]
          /\ region' = IF Takes(api, {"unmap"})
                       THEN [region EXCEPT ![args.reg] = "closing"] ELSE region
    /\ calls' = [calls EXCEPT ![t] = @ - 1]
    /\ UNCHANGED <<orig, shadow, list, wait, copyfile, flags, owner, status,
                   counts, env, history>>

Store(t) ==
    /\ status = "running" /\ todo[t] = <<>>
    /\ \E r \in Regions : \E l \in RegionLines(r) :
          /\ region[r] = "held" /\ orig[l] < MaxVersion
          /\ orig' = [orig EXCEPT ![l] = @ + 1]
    /\ UNCHANGED <<shadow, region, list, wait, copyfile, flags, threads,
                   counts, env, history>>

(* All counters of the run, in one go. *)
write_persistcountfile == countfile' = <<count, aborts>>

(* The destructor takes no lock: it removes every registered copy file and *)
(* writes the counters.  exit() runs it too.                               *)
Terminate(how) ==
    /\ status' = how
    /\ copyfile' = copyfile \ Registered
    /\ write_persistcountfile
    /\ UNCHANGED <<orig, shadow, region, list, wait, flags, owner, todo, call,
                   calls, count, aborts, backtrace, env, history>>

(* main returns once it has joined its threads. *)
Return ==
    /\ status = "running" /\ \A t \in Threads : todo[t] = <<>>
    /\ Terminate("exited")

-----------------------------------------------------------------------------
(* rand_set_abortflag_plus_persistcount: count the site, maybe raise.      *)

plus_persistcount(t) ==
    /\ At(t, "count") /\ owner = NoThread
    /\ count' = [count EXCEPT ![call[t].site] = @ + 1]
    /\ Continue(t, Rest(t))
    /\ UNCHANGED <<memory, flags, owner, calls, status, aborts, countfile,
                   backtrace, env, history>>

Suppressed == pmemwrap_abort = 0 \/ abort_through = 1

(* The first test of rand_set_abortflag takes no lock. *)
Gate(t) ==
    /\ At(t, "gate")
    /\ Continue(t, IF Suppressed THEN Rest(t) ELSE <<"recheck">> \o Rest(t))
    /\ UNCHANGED <<memory, flags, owner, calls, status, counts, env, history>>

(* Mutant: a flag that is up is put to the coin again. *)
NeverUp == FALSE

AlreadyUp == abortflag = 1

(* A flag that is up already stays up. *)
Recheck(t) ==
    /\ At(t, "recheck") /\ owner = NoThread
    /\ IF AlreadyUp
       THEN Continue(t, Rest(t)) /\ UNCHANGED owner
       ELSE Continue(t, <<"coin">> \o Rest(t)) /\ owner' = t
    /\ UNCHANGED <<memory, flags, calls, status, counts, env, history>>

(* rand() against the site's probability: either side may come up. *)
Raise(t) ==
    /\ At(t, "coin") /\ owner = t
    /\ aborts' = [aborts EXCEPT ![call[t].site] = @ + 1]
    /\ abortflag' = 1
    /\ owner' = NoThread
    /\ Continue(t, Rest(t))
    /\ UNCHANGED <<memory, abort_through, calls, status, count, countfile,
                   backtrace, env, history>>

(* Mutant: a return without pthread_mutex_unlock. *)
SpareHolding(t) ==
    /\ At(t, "coin") /\ owner = t
    /\ abortflag' = 0
    /\ Continue(t, Rest(t))
    /\ UNCHANGED <<memory, abort_through, owner, calls, status, counts, env,
                   history>>

Spare(t) ==
    /\ At(t, "coin") /\ owner = t
    /\ abortflag' = 0
    /\ owner' = NoThread
    /\ Continue(t, Rest(t))
    /\ UNCHANGED <<memory, abort_through, calls, status, counts, env, history>>

(* Neither the test of abortflag nor the write of backtrace.txt is locked. *)
WriteBacktrace(t) ==
    /\ At(t, "record")
    /\ backtrace' = IF abortflag = 1 THEN <<call[t].site>> ELSE backtrace
    /\ Continue(t, Rest(t))
    /\ UNCHANGED <<memory, flags, owner, calls, status, count, aborts,
                   countfile, env, history>>

(* backtrace.txt cannot be opened: exit(1), without the mutex. *)
BacktraceFails(t) ==
    /\ At(t, "record") /\ abortflag = 1
    /\ Terminate("failed")

(* Mutant: the flag is counted up instead of set. *)
BumpAbortflag(t) ==
    /\ At(t, "force")
    /\ abortflag' = abortflag + 1 /\ forced' = TRUE
    /\ Continue(t, Rest(t))
    /\ UNCHANGED <<memory, abort_through, owner, calls, status, counts, env,
                   pending, durable, direct>>

(* The flag setters write their variable without the mutex. *)
SetAbortflag(t) ==
    /\ At(t, "force")
    /\ abortflag' = 1 /\ forced' = TRUE
    /\ Continue(t, Rest(t))
    /\ UNCHANGED <<memory, abort_through, owner, calls, status, counts, env,
                   pending, durable, direct>>

SetThrough(t) ==
    /\ At(t, "through")
    /\ abort_through' \in {0, 1}
    /\ Continue(t, Rest(t))
    /\ UNCHANGED <<memory, abortflag, owner, calls, status, counts, env,
                   history>>

-----------------------------------------------------------------------------
(* Mapping a file. *)

(* orig_pmem_map_file finds a free address for the file. *)
MapFile(t) ==
    /\ At(t, "map_file")
    /\ \E r \in Regions :
          /\ region[r] = "free" /\ Kind[r] = "PMEM_FILE"
          /\ region' = [region EXCEPT ![r] = "mapping"]
          /\ call' = [call EXCEPT ![t].reg = r]
          /\ todo' = [todo EXCEPT ![t] = Rest(t)]
    /\ UNCHANGED <<orig, shadow, list, wait, copyfile, flags, owner, calls,
                   status, counts, env, history>>

(* It fails: pmem_map_file passes NULL on, and registering it creates the  *)
(* copy file, then reads from address 0; or AddFails.                      *)
MapFileFails(t) ==
    /\ At(t, "map_file")
    /\ \E r \in Regions :
          /\ Kind[r] = "PMEM_FILE"
          /\ \/ /\ memcpyflag = "NO_MEMCPY" /\ Continue(t, <<>>)
                /\ UNCHANGED <<copyfile, status>>
             \/ /\ memcpyflag # "NO_MEMCPY" /\ owner = NoThread
                /\ copyfile' = copyfile \cup {r} /\ status' = "segv"
                /\ UNCHANGED <<todo, call>>
    /\ UNCHANGED <<orig, shadow, region, list, wait, flags, owner, calls,
                   counts, env, history>>

MapPool(t) ==
    /\ At(t, "map_pool")
    /\ \E r \in Regions :
          /\ region[r] = "free" /\ Kind[r] = "PMEMOBJ_FILE"
          /\ region' = [region EXCEPT ![r] = "mapping"]
          /\ call' = [call EXCEPT ![t].reg = r]
          /\ todo' = [todo EXCEPT ![t] = Rest(t)]
    /\ UNCHANGED <<orig, shadow, list, wait, copyfile, flags, owner, calls,
                   status, counts, env, history>>

(* pmemobj_create and pmemobj_open do test for NULL. *)
MapPoolFails(t) ==
    /\ At(t, "map_pool")
    /\ Continue(t, <<>>)
    /\ UNCHANGED <<memory, flags, owner, calls, status, counts, env, history>>

(* len, which pmem_map_file registers, is the length mapped: libpmem takes *)
(* any other than 0 with PMEM_FILE_CREATE only, and then makes the file as *)
(* long.  With 0 it maps the whole file, but not the copy, which the shim  *)
(* always asks to be created (AddFails).                                   *)
FreeChunks == Chunks \ {list[i].chunk : i \in DOMAIN list}

add_PMEMaddrset(t) ==
    LET r == call[t].reg IN
    /\ At(t, "add")
    /\ \/ memcpyflag = "NO_MEMCPY" /\ UNCHANGED <<list, shadow, copyfile>>
       \/ /\ memcpyflag # "NO_MEMCPY" /\ owner = NoThread
          /\ \E k \in FreeChunks : list' = Append(list, [chunk |-> k, reg |-> r])
          /\ shadow' = [l \in Lines |->
                IF l \in BodyLines(r) THEN orig[l]
                ELSE IF l \in RegionLines(r) THEN 0 ELSE shadow[l]]
          /\ copyfile' = copyfile \cup {r}
    /\ region' = [region EXCEPT ![r] = "held"]
    /\ Continue(t, Rest(t))
    /\ UNCHANGED <<orig, wait, flags, owner, calls, status, counts, env,
                   history>>

(* malloc fails or the copy file cannot be mapped, and the file neither,   *)
(* perhaps: exit(1) with the mutex.                                        *)
AddFails(t) ==
    /\ At(t, "add") \/ At(t, "map_file")
    /\ memcpyflag # "NO_MEMCPY" /\ owner = NoThread
    /\ Terminate("failed")

-----------------------------------------------------------------------------
(* Unmapping a file. *)

(* pmem_wrap_unmap and its like look at abortflag without the mutex. *)
DrainIfRaised(t) ==
    /\ At(t, "drain_if_raised")
    /\ Continue(t, IF abortflag = 1 THEN <<"drain">> \o Rest(t) ELSE Rest(t))
    /\ UNCHANGED <<memory, flags, owner, calls, status, counts, env, history>>

(* Mutant: the head of the list is unlinked, whichever set was found. *)
UnlinkHead(i) == Tail(list)

Unlink(i) == RemoveAt(list, i)

(* The set is freed; the wait entries that point to it stay. *)
delete_PMEMaddrset(t) ==
    LET r == call[t].reg IN
    /\ At(t, "delete") /\ owner = NoThread
    /\ IF r \in Registered
       THEN /\ \E i \in DOMAIN list : list[i].reg = r /\ list' = Unlink(i)
            /\ copyfile' = copyfile \ {r}
       ELSE UNCHANGED <<list, copyfile>>
    /\ Continue(t, Rest(t))
    /\ UNCHANGED <<orig, shadow, region, wait, flags, owner, calls, status,
                   counts, env, history>>

Unmap(t) ==
    /\ At(t, "unmap")
    /\ region' = [region EXCEPT ![call[t].reg] = "free"]
    /\ Continue(t, Rest(t))
    /\ UNCHANGED <<orig, shadow, list, wait, copyfile, flags, owner, calls,
                   status, counts, env, history>>

-----------------------------------------------------------------------------
(* Flushing and draining. *)

FlushIgnored(t) ==
    /\ At(t, "flush") /\ memcpyflag = "NO_MEMCPY"
    /\ Continue(t, Rest(t))
    /\ UNCHANGED <<memory, flags, owner, calls, status, counts, env, history>>

(* add_waitdrainlist finds no set: libpmem flushes, the shim keeps nothing. *)
FlushPassesThrough(t) ==
    /\ At(t, "flush") /\ memcpyflag # "NO_MEMCPY" /\ owner = NoThread
    /\ \A i \in DOMAIN list : ~StopsAt(call[t].rng, i)
    /\ Continue(t, Rest(t))
    /\ UNCHANGED <<memory, flags, owner, calls, status, counts, env, history>>

FlushQueued(t) ==
    LET rng == call[t].rng IN
    /\ At(t, "flush") /\ memcpyflag # "NO_MEMCPY" /\ owner = NoThread
    /\ \E i \in DOMAIN list :
          /\ StopsAt(rng, i) /\ Inside(rng, list[i].reg)
          /\ wait' = Append(wait, [rng |-> rng, set |-> list[i].chunk])
    /\ pending' = [pending EXCEPT ![t] = [l \in Lines |->
          IF l \in TouchedLines(rng.addr, rng.len) THEN orig[l] ELSE @[l]]]
    /\ Continue(t, Rest(t))
    /\ UNCHANGED <<orig, shadow, region, list, copyfile, flags, owner, calls,
                   status, counts, env, durable, direct, forced>>

(* exit(1), still holding the mutex. *)
FlushOverruns(t) ==
    /\ At(t, "flush") /\ memcpyflag # "NO_MEMCPY" /\ owner = NoThread
    /\ \E i \in DOMAIN list :
          StopsAt(call[t].rng, i) /\ ~Inside(call[t].rng, list[i].reg)
    /\ Terminate("failed")

(* Mutant: the drain does not look at abortflag. *)
DrainStartsBlindly(t) ==
    /\ At(t, "drain") /\ owner = NoThread
    /\ owner' = t
    /\ Continue(t, <<"copy">> \o Rest(t))
    /\ UNCHANGED <<memory, flags, calls, status, counts, env, history>>

(* pmem_drain reads abortflag once, under the mutex. *)
DrainStarts(t) ==
    /\ At(t, "drain") /\ owner = NoThread /\ abortflag = 0
    /\ owner' = t
    /\ Continue(t, <<"copy">> \o Rest(t))
    /\ UNCHANGED <<memory, flags, calls, status, counts, env, history>>

(* The set an entry points to, if the memory there is still that set or    *)
(* has become one that holds the same range.                               *)
SetOf(entry, i) ==
    list[i].chunk = entry.set /\ Inside(entry.rng, list[i].reg)

(* Whole lines go from memory to the shadow as they are now. *)
CopyEntry(t) ==
    /\ At(t, "copy") /\ owner = t /\ wait # <<>>
    /\ \E i \in DOMAIN list :
          /\ SetOf(Head(wait), i)
          /\ LET rng    == Head(wait).rng
                 copied == CopiedLines(Base[list[i].reg], rng.addr, rng.len)
             IN  shadow' = [l \in Lines |->
                              IF l \in copied THEN orig[l] ELSE shadow[l]]
    /\ wait' = Tail(wait)
    /\ UNCHANGED <<orig, region, list, copyfile, flags, threads, counts, env,
                   history>>

(* The entry's set was freed by an unmap: reading it is undefined, from    *)
(* here on nothing is known of the process.                                *)
StaleEntry(t) ==
    /\ At(t, "copy") /\ owner = t /\ wait # <<>>
    /\ \A i \in DOMAIN list : ~SetOf(Head(wait), i)
    /\ status' = "undefined"
    /\ UNCHANGED <<memory, flags, owner, todo, call, calls, counts, env,
                   history>>

Newer(a, b) == IF a < b THEN b ELSE a

DrainEnds(t) ==
    /\ At(t, "copy") /\ owner = t /\ wait = <<>>
    /\ durable' = [l \in Lines |-> Newer(durable[l], pending[t][l])]
    /\ pending' = [pending EXCEPT ![t] = [l \in Lines |-> 0]]
    /\ owner' = NoThread
    /\ Continue(t, Rest(t))
    /\ UNCHANGED <<memory, flags, calls, status, counts, env, direct, forced>>

(* With abortflag up pmem_drain copies nothing: it pushes the shadows and  *)
(* the mappings out as they are, writes the counters and calls abort().    *)
DrainAborts(t) ==
    /\ At(t, "drain") /\ owner = NoThread /\ abortflag = 1
    /\ owner' = t
    /\ write_persistcountfile
    /\ status' = "aborted"
    /\ UNCHANGED <<memory, flags, todo, call, calls, count, aborts, backtrace,
                   env, history>>

(* A count file cannot be opened or written: exit(1) instead of abort().   *)
(* The destructor writes once more, and takes the copy files away.         *)
DrainFails(t) ==
    /\ At(t, "drain") /\ owner = NoThread /\ abortflag = 1
    /\ Terminate("failed")

(* The copying functions of libpmem store into the mapping themselves.     *)
LibpmemStores(t) ==
    orig' = [l \in Lines |->
        IF l \in TouchedLines(call[t].rng.addr, call[t].rng.len)
        THEN orig[l] + 1 ELSE orig[l]]

(* pmem_memcpy with flags that keep it from draining: nothing is persisted. *)
LibpmemMemcpy(t) ==
    /\ At(t, "libpmem_memcpy")
    /\ LibpmemStores(t)
    /\ Continue(t, Rest(t))
    /\ UNCHANGED <<shadow, region, list, wait, copyfile, flags, owner, calls,
                   status, counts, env, history>>

(* pmem_memcpy_persist, or pmem_memcpy with flags of 0, flushes inside     *)
(* libpmem, where the shim does not see it, and ends in pmem_drain, which  *)
(* is the shim's.                                                          *)
LibpmemMemcpyPersist(t) ==
    /\ At(t, "libpmem_memcpy_persist")
    /\ LibpmemStores(t)
    /\ direct' = [l \in Lines |-> IF orig'[l] # orig[l] THEN orig'[l] ELSE direct[l]]
    /\ Continue(t, Rest(t))
    /\ UNCHANGED <<shadow, region, list, wait, copyfile, flags, owner, calls,
                   status, counts, env, pending, durable, forced>>

-----------------------------------------------------------------------------
Thread(t) ==
    \/ plus_persistcount(t) \/ Gate(t) \/ Recheck(t) \/ Raise(t) \/ Spare(t)
    \/ WriteBacktrace(t) \/ BacktraceFails(t)
    \/ SetAbortflag(t) \/ SetThrough(t)
    \/ MapFile(t) \/ MapFileFails(t) \/ MapPool(t) \/ MapPoolFails(t)
    \/ add_PMEMaddrset(t) \/ AddFails(t)
    \/ DrainIfRaised(t) \/ delete_PMEMaddrset(t) \/ Unmap(t)
    \/ FlushIgnored(t) \/ FlushPassesThrough(t) \/ FlushQueued(t)
    \/ FlushOverruns(t)
    \/ DrainStarts(t) \/ CopyEntry(t) \/ StaleEntry(t) \/ DrainEnds(t)
    \/ DrainAborts(t) \/ DrainFails(t)
    \/ LibpmemMemcpy(t) \/ LibpmemMemcpyPersist(t)

(* The process is gone. *)
Ended == status # "running" /\ UNCHANGED vars

Next == Return \/ Ended \/ \E t \in Threads : Call(t) \/ Store(t) \/ Thread(t)

Spec == Init /\ [][Next]_vars

(* The operating system runs every thread that can run. *)
FairSpec == Spec /\ \A t \in Threads : WF_vars(Thread(t))

-----------------------------------------------------------------------------
(* Properties. *)

MemoryType ==
    /\ orig \in [Lines -> Nat] /\ shadow \in [Lines -> Nat]
    /\ region \in [Regions -> {"free", "mapping", "held", "closing"}]
    /\ list \in Seq([chunk : Chunks, reg : Regions])
    /\ wait \in Seq([rng : [addr : Nat, len : Nat], set : Chunks])
    /\ copyfile \subseteq Regions

FlagType ==
    /\ abortflag \in {0, 1} /\ abort_through \in {0, 1}
    /\ pmemwrap_abort \in {0, 1} /\ memcpyflag \in {"NORMAL_MEMCPY", "NO_MEMCPY"}

ThreadType ==
    /\ owner \in Threads \cup {NoThread}
    /\ todo \in [Threads -> Seq(Ops)] /\ call \in [Threads -> Calls]
    /\ calls \in [Threads -> Nat]
    /\ status \in {"running", "aborted", "exited", "failed", "segv", "undefined"}

CountType == count \in [Sites -> Nat] /\ aborts \in [Sites -> Nat]

HistoryType ==
    /\ pending \in [Threads -> [Lines -> Nat]]
    /\ durable \in [Lines -> Nat] /\ direct \in [Lines -> Nat]
    /\ forced \in BOOLEAN

(* Every variable keeps its type. *)
TypeOK ==
    MemoryType /\ FlagType /\ ThreadType /\ CountType /\ HistoryType

(* Whenever the process stops, the copy files hold at least what the       *)
(* program was entitled to call persistent: every line some thread flushed *)
(* and then drained, whichever thread's drain did the copying.             *)
PersistedIsShadowed == \A l \in Claimed : durable[l] <= shadow[l]

(* No flush is forgotten: until the thread that flushed a line drains, the *)
(* shadow already has the line as it was then or the wait list holds an    *)
(* entry, pointing at a live set, that will copy it.                       *)
FlushedIsQueued ==
    \A t \in Threads : \A l \in Claimed :
        \/ pending[t][l] <= shadow[l]
        \/ \E i \in DOMAIN wait : \E j \in DOMAIN list :
              /\ SetOf(wait[i], j)
              /\ l \in TouchedLines(wait[i].rng.addr, wait[i].rng.len)

(* The image of the crash point is taken at the raise: once the coin has   *)
(* raised abortflag no drain changes the shadow of a mapped file any more, *)
(* although other threads go on storing, flushing and draining.            *)
RaiseFreezesShadow ==
    [][abortflag = 1 /\ ~forced =>
          \A l \in Claimed \cap Claimed' : shadow'[l] = shadow[l]]_vars

(* A raise is never taken back by the coin of another thread.              *)
RaiseHolds == [][abortflag = 1 /\ ~forced /\ ~forced' => abortflag' = 1]_vars

(* A run charges its crash to one site at most, to exactly one if the coin *)
(* raised the flag, and a process that aborted has said so in its count    *)
(* file.                                                                   *)
ChargedOnce ==
    LET charged == {s \in Sites : aborts[s] # 0} IN
    /\ \A s, u \in charged : s = u /\ aborts[s] = 1 /\ count[s] > 0
    /\ ~forced => (abortflag = 1 <=> charged # {})
    /\ status = "aborted" => countfile = <<count, aborts>>

(* A thread that deletes a set, or finishes a drain, without another look  *)
(* at abortflag.                                                           *)
Leaving(t) == todo[t] # <<>> /\ Head(todo[t]) \in {"copy", "delete"}

(* Of a program that unmaps through the wrappers, in any number of         *)
(* threads.  Only an unmap whose look at the flag came before the raise    *)
(* may take its copy file with it: once no thread is between that look and *)
(* the deletion, none gets there any more, and the copy files that exist   *)
(* stay for PmemWrap_memcpy as long as the process runs.                   *)
RaiseKeepsCopies ==
    [][abortflag = 1 /\ status' = "running" /\ (\A t \in Threads : ~Leaving(t))
       => copyfile \subseteq copyfile' /\ \A t \in Threads : ~Leaving(t)']_vars

(* Of one thread: backtrace.txt of a run that aborts by the coin names the *)
(* call that aborted, even if an earlier call raised the flag.             *)
BacktraceNamesAbort ==
    status = "aborted" /\ ~forced =>
        \E t \in Threads : owner = t /\ backtrace = <<call[t].site>>

(* Of a program that drains before it unmaps: a set that is unlinked is    *)
(* never the one another entry waits for, and one made at a freed address  *)
(* is not taken for it; every wait entry points to a live set that holds   *)
(* its range, so no drain reads freed memory.                              *)
EntriesAreLive ==
    /\ \A i \in DOMAIN wait : \E j \in DOMAIN list : SetOf(wait[i], j)
    /\ status # "undefined"

(* Every call returns, unless the process ends first.                      *)
EveryCallReturns ==
    \A t \in Threads :
        todo[t] # <<>> ~> (todo[t] = <<>> \/ status # "running")

(* The shadow is the medium of a persistent memory whose stores, flushes   *)
(* and fences are the program's stores and the shim's flushes and drains.  *)
PM == INSTANCE PersistentMemory WITH
    current  <- orig,
    medium   <- [l \in Lines |-> IF l \in Claimed THEN shadow[l] ELSE 0],
    attached <- Claimed,
    flushed  <- pending,
    fenced   <- durable,
    up       <- (status = "running")

ShadowIsPersistentMemory == PM!PMSpec

-----------------------------------------------------------------------------
(* What the repository says and the code does not do. *)

(* force_set_abortflag "FORCE set abortflag" (wraplibpmem.c:929): a forced *)
(* flag stays up.                                                          *)
ForceHolds == [][forced /\ abortflag = 1 => abortflag' = 1]_vars

(* The first run "is made to crash" (README.md:18): a run that raised its  *)
(* flag does not end like any other, with its copy files removed.          *)
RaisedRunAborts == status = "exited" /\ Registered # {} => abortflag = 0

(* The tool manipulates "the updates before the persist processing"        *)
(* (README.md:19): what a pmem_memcpy_persist that has returned persisted   *)
(* is in the shadow.                                                       *)
MemcpyPersistIsShadowed ==
    (\A t \in Threads : todo[t] = <<>>) =>
        \A l \in Claimed : direct[l] <= shadow[l]

(* Programs test pmem_map_file for NULL (hello_libpmemtest.c:61): a failed *)
(* map returns to them.                                                    *)
FailedMapReturns == status # "segv"

=============================================================================
