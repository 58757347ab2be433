------------------------------ MODULE Programs ------------------------------
(***************************************************************************)
(* One program under test and its file: the program is run again and again *)
(* on it, killed anywhere, and power may fail.  The stores answer commands *)
(* (KVStore); the samples write, and read at the next run (Samples).       *)
(***************************************************************************)
EXTENDS KVStore, Samples

CONSTANTS
    Programs,           \* the programs looked at
    Commands,           \* command lines for the stores
    MaxRuns,            \* bound: runs of the program
    MaxFails            \* bound: kills and power failures

ASSUME ProgramsAssumption ==
    /\ Programs \subseteq Stores \cup SampleNames
    /\ MaxRuns \in Nat /\ MaxFails \in Nat

(* Keys are strings, the rest is what atoi makes of it.  No program tests  *)
(* an id, a number or the length of a key: those outside the array, and    *)
(* keys to write that do not fit their field, are left out.                *)
ASSUME CommandsAssumption ==
    \A c \in Commands :
        /\ c.name \in {"write", "data", "read", "delete"} => c.key \in Seq(Nat)
        /\ c.name \in {"write", "data"} =>
               Len(c.key) < MAX_BUF_LEN /\ c.value \in Int
        /\ c.name \in {"data", "read_id"} => c.id \in 0 .. MAX_STORE - 1
        /\ c.name = "number" => c.number \in Nat

VARIABLES
    program,
    phase,              \* "idle", "opening", "running" or "segv"
    cmd,                \* the command line of the latest run
    created,            \* it made the file itself
    answer,             \* what it printed
    acked,              \* history: the entries as of the commands that returned
    ready,              \* history: some run got to its transaction
    spoiled,            \* history: a write of PmemKVS.c had an aborted transaction
    runs, fails

now  == <<program, phase, cmd, created>>
past == <<answer, acked, ready, spoiled, runs, fails>>
vars == <<poolvars, now, past>>

IsStore == program \in Stores

List(mem) == [i \in 1 .. mem[number] |->
    [key |-> Prefix(mem[key(i - 1)], mem[keylen(i - 1)]), value |-> mem[value(i - 1)]]]

Entries(mem) == IF IsStore THEN List(mem) ELSE <<>>

(* In the code a command is the whole of main; here its effect, on a list. *)
Promise == INSTANCE EntryList WITH
    entries <- IF program \in {"PmemKVS", "PmemKVS4"} /\ ~spoiled
               THEN Entries(Durable) ELSE <<>>

-----------------------------------------------------------------------------
(* Command lines. *)

NoCommand == [name |-> "none"]

CommandLines ==
    IF IsStore THEN {c \in Commands : c.name \in Knows(program)}
    ELSE IF Sample[program].made = "absent" THEN {[name |-> "run"]}
    ELSE {[name |-> "w"], [name |-> "r"]}

(* No program tests that the store is full or an id within it. *)
Legal(c) ==
    CASE c.name = "write"  -> Recovered(cache)[number] < MAX_STORE
      [] c.name = "number" -> c.number <= Recovered(cache)[number]
      [] OTHER             -> TRUE

(* How the file is come by. *)
Making ==
    IF IsStore THEN IF Creates(cmd) THEN "either" ELSE "open"
    ELSE IF cmd.name = "r" /\ Sample[program].made # "map" THEN "open"
    ELSE Sample[program].made

Reading ==
    IF IsStore THEN ReadsOnly(cmd)
    ELSE cmd.name = "r" \/ (cmd.name = "run" /\ ~created)

-----------------------------------------------------------------------------
Cells(p) == IF p \in Stores THEN ZeroStruct ELSE [c \in SampleCells(p) |-> 0]

Init ==
    /\ program \in Programs
    /\ pool = "none" /\ cache = Cells(program) /\ medium = cache /\ log = Nothing
    /\ code = <<>> /\ stage = "NONE"
    /\ site = <<>> /\ c_flag = 0 /\ counted = 0 /\ committed = 0 /\ failed = FALSE
    /\ phase = "idle" /\ cmd = NoCommand /\ created = FALSE
    /\ answer = <<>> /\ acked = <<>> /\ ready = FALSE /\ spoiled = FALSE
    /\ runs = 0 /\ fails = 0

Start(c) ==
    /\ phase \in {"idle", "segv"} /\ runs < MaxRuns /\ Legal(c)
    /\ phase' = "opening" /\ cmd' = c /\ created' = FALSE
    /\ answer' = <<>> /\ runs' = runs + 1
    /\ UNCHANGED <<poolvars, program, acked, ready, spoiled, fails>>

Create ==
    /\ phase = "opening" /\ Making # "open" /\ CreateFile
    /\ created' = TRUE
    /\ UNCHANGED <<program, phase, cmd, past>>

(* pmem_map_file takes a file of any length and gives it the right one. *)
Complete ==
    /\ phase = "opening" /\ (created \/ Making = "map") /\ FinishFile
    /\ UNCHANGED <<now, past>>

(* perror, exit(1). *)
CannotOpen ==
    /\ phase = "opening" /\ ~created
    /\ \/ pool = "none" /\ Making = "open"
       \/ pool = "partial" /\ Making # "map"
       \/ pool = "whole" /\ Making = "create"
    /\ phase' = "idle"
    /\ UNCHANGED <<poolvars, program, cmd, created, past>>

Opening == phase = "opening" /\ (Making = "create" => created)

OpenToRead ==
    /\ Opening /\ Reading /\ OpenPool(<<Close>>)
    /\ answer' = IF IsStore THEN Reads(program, cmd, Recovered(cache)) ELSE <<>>
    /\ ~IsStore => ~ReaderFaults(program, Recovered(cache))
    /\ phase' = "running"
    /\ UNCHANGED <<program, cmd, created, acked, ready, spoiled, runs, fails>>

(* The reader follows a null pointer. *)
ReaderDies ==
    /\ Opening /\ Reading /\ OpenPool(<<>>)
    /\ ~IsStore /\ ReaderFaults(program, Recovered(cache))
    /\ phase' = "segv"
    /\ UNCHANGED <<program, cmd, created, past>>

OpenToWrite ==
    /\ Opening /\ ~Reading
    /\ OpenPool(IF IsStore THEN Writes(program, cmd, Recovered(cache), created)
                ELSE Sample[program].writer)
    /\ phase' = "running"
    /\ UNCHANGED <<program, cmd, created, past>>

(* An aborted transaction does not keep PmemKVS.c from its second, which   *)
(* counts the slot the first should have filled.                           *)
HalfWritten == program = "PmemKVS" /\ cmd.name = "write"

Work ==
    /\ phase = "running" /\ PoolStep
    /\ ready' = (ready \/ Doing("begin"))
    /\ spoiled' = (spoiled \/ (failed' /\ HalfWritten))
    /\ UNCHANGED <<now, answer, acked, runs, fails>>

Aborts ==
    /\ phase = "running" /\ AbortHere
    /\ phase' = "idle"
    /\ UNCHANGED <<program, cmd, created, past>>

Result ==
    IF ~IsStore THEN <<>>
    ELSE IF ~failed THEN Promise!Effect(cmd, acked)
    ELSE IF HalfWritten THEN Entries(cache) ELSE acked

Exit ==
    /\ phase = "running" /\ code = <<>>
    /\ phase' = "idle" /\ acked' = Result
    /\ UNCHANGED <<poolvars, program, cmd, created, answer, ready, spoiled, runs, fails>>

WriteBack == Evict /\ UNCHANGED <<now, past>>

Dies(mem) ==
    /\ fails < MaxFails /\ fails' = fails + 1
    /\ phase' = "idle" /\ acked' = Entries(mem)
    /\ UNCHANGED <<program, cmd, created, answer, ready, spoiled, runs>>

Killed == phase \in {"opening", "running"} /\ Kill /\ Dies(Recovered(cache))

PowerFails == PowerFail /\ Dies(Durable)

Next ==
    \/ \E c \in CommandLines : Start(c)
    \/ Create \/ Complete \/ CannotOpen
    \/ OpenToRead \/ ReaderDies \/ OpenToWrite
    \/ Work \/ Aborts \/ Exit
    \/ WriteBack \/ Killed \/ PowerFails

Spec == Init /\ [][Next]_vars

-----------------------------------------------------------------------------
(* Properties. *)

(* The cells keep their kind, and the filter's repeats stay below three.   *)
ProgramTypeOK ==
    /\ program \in Programs /\ phase \in {"idle", "opening", "running", "segv"}
    /\ pool \in {"none", "partial", "whole"}
    /\ stage \in {"NONE", "WORK", "ONCOMMIT", "ONABORT", "FINALLY"}
    /\ DOMAIN cache = DOMAIN Cells(program) /\ DOMAIN medium = DOMAIN cache
    /\ DOMAIN log \subseteq DOMAIN cache
    /\ log # Nothing => pool = "whole"
    /\ c_flag \in 0 .. 2 /\ counted \in Nat /\ committed \in Nat
    /\ IsStore => cache[number] \in 0 .. MAX_STORE

Outcomes == {acked, Promise!Effect(cmd, acked)}

(* A deletion of the last entry whose number is still on its way.          *)
DeletedLoosely ==
    number \in DOMAIN medium /\ number \in Loose /\ cache[number] < medium[number]

Kept == IF DeletedLoosely THEN SubSeq(Entries(Durable), 1, cache[number])
        ELSE Entries(Durable)

(* Whenever power fails, the entries of every command that returned are    *)
(* there, and a command that was running has had its whole effect or none. *)
(* PmemKVS.c and PmemKVS4.c keep this, but for deletions of the last entry *)
(* (number is stored, and neither logged nor persisted, PmemKVS.c:148) and *)
(* for the second transaction of a write whose first was aborted.          *)
CompletedSurvives ==
    program \in {"PmemKVS", "PmemKVS4"} /\ ~(failed /\ HalfWritten)
    => IF phase = "running" THEN Kept \in Outcomes ELSE Kept = acked

(* PmemKVS3.c logs eight bytes only: its entries are torn by any failure.  *)
Intact == IsStore /\ (program = "PmemKVS3" => fails = 0)

(* The next process finds what the commands before it left, entry by       *)
(* entry; of PmemKVS3.c too, as long as nothing fails.                     *)
CacheHoldsStore ==
    Intact /\ phase = "idle" => Entries(Recovered(cache)) = acked

(* A read prints the first entry whose key the asked one begins with, or   *)
(* all of them, as the commands before it left them.  The printed key may  *)
(* go on with the end of an older one of its slot.                         *)
ReadShowsStore ==
    LET Shows(out, e) == IsPrefix(e.key, out[1]) /\ out[2] = e.value
        named == Promise!Named(cmd.key, acked)
    IN  Intact /\ phase = "running" /\ Reading =>
        CASE cmd.name = "read_all" ->
                 /\ Len(answer) = Len(acked)
                 /\ \A i \in DOMAIN acked : Shows(answer[i], acked[i])
          [] cmd.name = "read_id" ->
                 cmd.id < Len(acked) => Shows(answer[1], acked[cmd.id + 1])
          [] cmd.name = "read" ->
                 IF named = {} THEN answer = <<>>
                 ELSE /\ answer # <<>>
                      /\ Shows(answer[1], acked[Promise!Lowest(named)])

(* Through kills, power failures and write-backs the entries on the medium *)
(* change as those of the abstract list do: by whole commands.             *)
StoreKeepsPromise == Promise!Spec

(* hello_libpmemobjtest3.c: once a transaction has begun, the object is    *)
(* reached from the root, and its lines are all old or all new.            *)
ObjectIsWhole ==
    program = "hello_libpmemobjtest3" /\ ready =>
        /\ ~ReaderFaults(program, Durable)
        /\ \E v \in {1, 2} : \A i \in 1 .. 3 : Durable[line(i)] = v

(* Programs that leave stores behind: no persist, or nothing logged.       *)
Careless == {"PmemKVS3", "hello_libpmemobjtest", "hello_libpmemobjtest2",
             "hello_libpmemobjtest4_safepm_pw"}

(* The other programs, when they have written and return, have persisted   *)
(* all they stored, a deletion of the last entry excepted.                 *)
NothingLeftBehind ==
    phase = "running" /\ code = <<>> /\ ~Reading /\ program \notin Careless =>
        /\ log = Nothing
        /\ Loose = {} \/ (IsStore /\ Loose = {number} /\ DeletedLoosely)

=============================================================================
