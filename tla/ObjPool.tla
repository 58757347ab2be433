------------------------------ MODULE ObjPool ------------------------------
(***************************************************************************)
(* A pool of libpmemobj as the programs under test use it, with the calls  *)
(* the shim puts in between.  One process at a time has the pool open.     *)
(* What it stores goes to the cache; a cell reaches the medium when it is  *)
(* written back, at any moment, or when a persist or a commit asks for it. *)
(* A transaction keeps the old values of the cells added to it in an undo  *)
(* log on the medium.  The library is external; the transaction loop is    *)
(* what TX_BEGIN and TX_END expand to (PmemKVS4_macro.c).                  *)
(*                                                                         *)
(* A process is the sequence of library calls and stores it has left to do.*)
(***************************************************************************)
EXTENDS Integers, Sequences

CONSTANT AddMayFail     \* pmemobj_tx_add_range may fail

ASSUME PoolAssumption == AddMayFail \in BOOLEAN

VARIABLES
    pool,               \* the file: "none", "partial" or "whole"
    cache, medium,      \* cell -> value: as loaded, and as it would survive
    log,                \* cell -> value: the undo log
    code,               \* the calls and stores the process has left
    stage,              \* pmemobj_tx_stage()
    site, c_flag,       \* tx_process_file and _line (<<>> is NULL), c_flag
    counted, committed, \* history: tx_process calls counted, and commits
    failed              \* history: a transaction of the process was aborted

contents  == <<cache, medium, log>>
filter    == <<site, c_flag, counted, committed>>
poolvars  == <<pool, contents, code, stage, filter, failed>>

(* The values of f where it has any, those of g elsewhere. *)
Overlay(f, g) == [c \in DOMAIN g |-> IF c \in DOMAIN f THEN f[c] ELSE g[c]]

Part(f, C) == [c \in C |-> f[c]]

Nothing == [c \in {} |-> 0]

-----------------------------------------------------------------------------
(* What a process may do. *)

TX_BEGIN    == [op |-> "begin"]
TX_END(s)   == [op |-> "end", at |-> s]
TX_ADD(C)   == [op |-> "add", cells |-> C]
Persist(C)  == [op |-> "persist", cells |-> C]
PutAll(f)   == [op |-> "store", to |-> f]
Put(c, v)   == PutAll([x \in {c} |-> v])
Alloc       == [op |-> "alloc"]
Abort       == [op |-> "abort"]
Close       == [op |-> "close"]

(* Mutant: memcpy alone. *)
MemcpyOnly(f) == <<PutAll(f)>>

(* memcpy or memset, then pmemobj_wrap_persist. *)
MemcpyPersist(f) == <<PutAll(f), Persist(DOMAIN f)>>

-----------------------------------------------------------------------------
(* The steps. *)

Doing(op) == code # <<>> /\ Head(code).op = op

Rest == code' = Tail(code)

Store ==
    /\ Doing("store")
    /\ cache' = Overlay(Head(code).to, cache)
    /\ Rest
    /\ UNCHANGED <<pool, medium, log, stage, filter, failed>>

PersistRange ==
    /\ Doing("persist")
    /\ medium' = Overlay(Part(cache, Head(code).cells), medium)
    /\ Rest
    /\ UNCHANGED <<pool, cache, log, stage, filter, failed>>

(* The new object is reached through a local variable only. *)
AllocObject ==
    /\ Doing("alloc")
    /\ Rest
    /\ UNCHANGED <<pool, contents, stage, filter, failed>>

TxBegin ==
    /\ Doing("begin") /\ stage = "NONE"
    /\ stage' = "WORK"
    /\ Rest
    /\ UNCHANGED <<pool, contents, filter, failed>>

(* Mutant: nothing is logged. *)
NotLogged(C) == log

(* A cell already in the log keeps the value it had first. *)
Logged(C) == [c \in DOMAIN log \cup C |->
                 IF c \in DOMAIN log THEN log[c] ELSE cache[c]]

TxAdd ==
    /\ Doing("add") /\ stage = "WORK"
    /\ log' = Logged(Head(code).cells)
    /\ Rest
    /\ UNCHANGED <<pool, cache, medium, stage, filter, failed>>

(* Mutant: control goes on behind TX_END. *)
BehindEnd == CHOOSE k \in 1 .. Len(code) : code[k].op = "close"

(* longjmp to TX_BEGIN, whose loop finds the stage changed. *)
NextEnd == CHOOSE k \in 1 .. Len(code) :
    code[k].op = "end" /\ \A j \in 1 .. k - 1 : code[j].op # "end"

(* The library undoes the transaction; the programs do not look at errno. *)
TxAddFails ==
    /\ Doing("add") /\ stage = "WORK" /\ AddMayFail
    /\ cache' = Overlay(log, cache) /\ medium' = Overlay(log, medium)
    /\ log' = Nothing
    /\ stage' = "ONABORT" /\ failed' = TRUE
    /\ code' = SubSeq(code, NextEnd, Len(code))
    /\ UNCHANGED <<pool, filter>>

(* Mutant: only a change of site is counted. *)
SiteChanged == site # <<Head(code).at>>

(* Mutant: every third call is counted, the site notwithstanding. *)
EveryThird == c_flag > 1

(* The filter: a call at another site than the last, and every third one.  *)
Counts == site # <<Head(code).at>> \/ c_flag > 1

CountTxProcess ==
    /\ c_flag' = IF Counts THEN 0 ELSE c_flag + 1
    /\ counted' = IF Counts THEN counted + 1 ELSE counted
    /\ site' = <<Head(code).at>>

(* pmemobj_tx_process in stage WORK commits.  A commit writes back what    *)
(* was added, then drops the log, which is the moment it takes effect.     *)
TxCommit ==
    /\ Doing("end") /\ stage = "WORK"
    /\ CountTxProcess
    /\ medium' = Overlay(Part(cache, DOMAIN log), medium)
    /\ log' = Nothing
    /\ stage' = "ONCOMMIT" /\ committed' = committed + 1
    /\ UNCHANGED <<pool, cache, code, failed>>

(* The loop calls it again until the stage is NONE. *)
TxProcess ==
    /\ Doing("end") /\ stage \in {"ONCOMMIT", "ONABORT", "FINALLY"}
    /\ CountTxProcess
    /\ stage' = IF stage = "FINALLY" THEN "NONE" ELSE "FINALLY"
    /\ UNCHANGED <<pool, contents, code, committed, failed>>

TxEnd ==
    /\ Doing("end") /\ stage = "NONE"
    /\ Rest
    /\ UNCHANGED <<pool, contents, stage, filter, failed>>

(* Closing writes nothing back. *)
ClosePool ==
    /\ Doing("close")
    /\ Rest
    /\ UNCHANGED <<pool, contents, stage, filter, failed>>

(* abort(), or a drain with abortflag up: the caches keep what was stored. *)
AbortHere ==
    /\ Doing("abort")
    /\ code' = <<>> /\ stage' = "NONE"
    /\ UNCHANGED <<pool, contents, filter, failed>>

PoolStep ==
    \/ Store \/ PersistRange \/ AllocObject
    \/ TxBegin \/ TxAdd \/ TxAddFails \/ TxCommit \/ TxProcess \/ TxEnd
    \/ ClosePool

-----------------------------------------------------------------------------
(* The file. *)

(* pmemobj_create makes the file and then fills in its header. *)
CreateFile ==
    /\ pool = "none" /\ pool' = "partial"
    /\ UNCHANGED <<contents, code, stage, filter, failed>>

FinishFile ==
    /\ pool = "partial" /\ pool' = "whole"
    /\ UNCHANGED <<contents, code, stage, filter, failed>>

Recovered(f) == Overlay(log, f)

(* A new process, at its first call, then does steps.  Opening a pool      *)
(* undoes the transaction that was under way, if any.                      *)
OpenPool(steps) ==
    /\ pool = "whole"
    /\ cache' = Recovered(cache) /\ medium' = Recovered(medium)
    /\ log' = Nothing
    /\ code' = steps /\ stage' = "NONE"
    /\ site' = <<>> /\ c_flag' = 0 /\ counted' = 0 /\ committed' = 0
    /\ failed' = FALSE
    /\ UNCHANGED pool

(* The hardware writes a cell back on its own. *)
Evict ==
    /\ \E c \in DOMAIN medium :
           /\ medium[c] # cache[c]
           /\ medium' = [medium EXCEPT ![c] = cache[c]]
    /\ UNCHANGED <<pool, cache, log, code, stage, filter, failed>>

(* The process is gone; or the machine, and the caches with it. *)
Kill ==
    /\ code' = <<>> /\ stage' = "NONE"
    /\ UNCHANGED <<pool, contents, filter, failed>>

PowerFail ==
    /\ cache' = medium
    /\ code' = <<>> /\ stage' = "NONE"
    /\ UNCHANGED <<pool, medium, log, filter, failed>>

-----------------------------------------------------------------------------
(* Properties. *)

(* What a program finds if power fails now.                                *)
Durable == Overlay(log, medium)

(* pmemobj_wrap_tx_process counts one call per transaction, the one that   *)
(* commits, as long as no transaction of the process is aborted.           *)
CommitIsCounted ==
    [][~failed' => (counted' > counted <=> committed' > committed)]_poolvars

(* Cells stored outside the log and not persisted since.                   *)
Loose == {c \in DOMAIN medium : c \notin DOMAIN log /\ medium[c] # cache[c]}

=============================================================================
