------------------------------ MODULE Samples ------------------------------
(***************************************************************************)
(* The small programs under test: what each writes, as the steps of        *)
(* ObjPool, and on which contents its reader follows a pointer that is not *)
(* there.  Cells are cache lines or fields; 0 is what a new file holds and *)
(* what OID_NULL is; other values tell one store from the next.            *)
(***************************************************************************)
EXTENDS ObjPool

line(i) == <<"line", i>>
text(i) == <<"text", i>>

Lines(n) == {line(i) : i \in 1 .. n}

(* memset of each of the first n lines. *)
SetLines(n, v) == [i \in 1 .. n |-> Put(line(i), v)]

-----------------------------------------------------------------------------
(* A program: how it comes by its file, and the steps of its writer.  The  *)
(* file is mapped by pmem_map_file; made, or the run fails; made if it     *)
(* cannot be opened; or made if absent, and read if not.                   *)
Program(made, writer) == [made |-> made, writer |-> writer]

-----------------------------------------------------------------------------
(* On libpmem. *)

hello_libpmem == Program("map", <<Put(text(1), 1), Persist({text(1)})>>)

(* The third memset sets two lines.  The abort comes before the persist,   *)
(* which covers half a line.                                               *)
hello_libpmemtest == Program("map",
    SetLines(2, 1) \o
    <<PutAll([c \in {line(3), line(4)} |-> 1]), Abort, Persist({line(1)})>>)

testfunc(C) == <<Persist(C)>>

(* Three files; the first is persisted in parts, as a whole, and again. *)
libpmemtest == Program("map",
    <<Put(text(1), 1), Put(text(2), 1), Put(text(3), 1),
      Persist({text(1)}), Persist({text(1)})>> \o testfunc({text(2)}) \o
    <<Persist({text(3)})>> \o [i \in 1 .. 4 |-> Persist({text(1)})])

to   == <<"to">>
from == <<"from">>

(* A pointer kept as the difference of two numbers, in different lines. *)
testprogram == Program("map",
    <<PutAll([c \in {to, from, text(1)} |-> 0]), Put(to, 2), Put(from, 1),
      Put(text(1), 1), Persist({to, from, text(1)})>>)

(* Unless both are zero the reader goes to where they point. *)
testprogram_faults(mem) ==
    ~(mem[to] = 0 /\ mem[from] = 0) /\ (mem[to] = 0 \/ mem[from] = 0)

-----------------------------------------------------------------------------
(* On libpmemobj, one object. *)

length == <<"length">>

hello_libpmemobj == Program("create",
    <<Put(length, 1), Persist({length})>> \o
    MemcpyPersist([c \in {text(1)} |-> 1]) \o <<Close>>)

hello_libpmemobjtest_safepm == hello_libpmemobj

(* Nothing is added to the transaction. *)
hello_libpmemobjtest == Program("either", <<TX_BEGIN>> \o SetLines(3, 1) \o <<TX_END(64)>>)

hello_libpmemobjtest2 == Program("either",
    <<TX_BEGIN>> \o SetLines(3, 1) \o <<TX_END(62), Close>>)

data_oid == <<"data_oid">>

(* Mutant: the object is changed without being added. *)
ChangedUnlogged == Program("absent",
    <<Alloc, Put(data_oid, 1), Persist({data_oid})>> \o SetLines(3, 1) \o
    <<Persist(Lines(3)), TX_BEGIN>> \o SetLines(3, 2) \o <<TX_END(64), Abort>>)

(* An object is set up, then changed in a transaction. *)
hello_libpmemobjtest3 == Program("absent",
    <<Alloc, Put(data_oid, 1), Persist({data_oid})>> \o SetLines(3, 1) \o
    <<Persist(Lines(3)), TX_BEGIN, TX_ADD(Lines(3))>> \o SetLines(3, 2) \o
    <<TX_END(64), Abort>>)

hello_libpmemobjtest3_faults(mem) == mem[data_oid] = 0

(* The root never learns of the object. *)
hello_libpmemobjtest3_alloc == Program("absent",
    <<Alloc, PutAll([c \in {line(1)} |-> 1]), Persist({line(1)}),
      PutAll([c \in {line(2)} |-> 1]), Persist({line(2)}),
      PutAll([c \in {line(3)} |-> 1]), Persist({line(3)}), TX_BEGIN>> \o
    SetLines(3, 2) \o <<TX_END(61), Abort>>)

(* A transaction in a loop, as in the examples the harness runs. *)
OneRound(v) == <<TX_BEGIN, TX_ADD({line(1)}), Put(line(1), v), TX_END(1)>>

loop == Program("either", OneRound(1) \o OneRound(2) \o OneRound(3) \o <<Close>>)

-----------------------------------------------------------------------------
(* On libpmemobj, linked objects. *)

object(i)  == <<"object", i>>       \* root: the object it points to
num(i)     == <<"num", i>>          \* of the i-th object allocated
partner(i) == <<"partner", i>>
next(i)    == <<"next", i>>
prev(i)    == <<"prev", i>>

Root == {object(1), object(2)}

(* Both partners are set, and neither object is added. *)
Partners ==
    <<Alloc, Alloc, Put(object(1), 1), Put(object(2), 2),
      Put(num(1), 1), Put(partner(1), 0), Put(num(2), 2), Put(partner(2), 0),
      Persist(Root), Persist({num(1), partner(1)}), Persist({num(2), partner(2)}),
      TX_BEGIN, Put(partner(1), 2), Put(partner(2), 1), TX_END(72)>>

hello_libpmemobjtest4 == Program("absent", Partners \o <<Abort>>)

hello_libpmemobjtest4_safepm == Program("absent", Partners \o <<Abort>>)

hello_libpmemobjtest4_safepm_pw == Program("absent", Partners \o <<Close>>)

(* If the second object has a partner, the first is taken to have one. *)
hello_libpmemobjtest4_faults(mem) ==
    \/ mem[object(2)] = 0
    \/ mem[partner(2)] # 0 /\ (mem[object(1)] = 0 \/ mem[partner(1)] = 0)

Object(i) == {num(i), next(i), prev(i)}

(* A ring of two; a third is inserted and the abort comes before it is     *)
(* persisted.                                                              *)
hello_libpmemobjtest5_safepm_pw == Program("absent",
    <<Alloc, Alloc, Put(object(1), 1), Put(object(2), 2),
      Put(num(1), 1), Put(next(1), 2), Put(prev(1), 2),
      Put(num(2), 2), Put(next(2), 1), Put(prev(2), 2),
      Persist(Root), Persist(Object(1)), Persist(Object(2)),
      Alloc, Put(num(3), 3), Persist(Object(3)),
      Put(next(3), 2), Put(prev(3), 1), Put(prev(2), 3), Put(next(1), 3),
      Abort, Persist(Object(3)), Persist(Object(1)), Persist(Object(2)), Close>>)

hello_libpmemobjtest5_safepm_pw_faults(mem) ==
    ~ /\ mem[object(1)] # 0 /\ mem[object(2)] # 0
      /\ mem[next(1)] # 0 /\ mem[prev(2)] # 0
      /\ mem[next(mem[next(1)])] # 0 /\ mem[prev(mem[next(1)])] # 0

-----------------------------------------------------------------------------
(* All of them. *)

Sample == [
    hello_libpmem                   |-> hello_libpmem,
    hello_libpmemtest               |-> hello_libpmemtest,
    libpmemtest                     |-> libpmemtest,
    testprogram                     |-> testprogram,
    hello_libpmemobj                |-> hello_libpmemobj,
    hello_libpmemobjtest_safepm     |-> hello_libpmemobjtest_safepm,
    hello_libpmemobjtest            |-> hello_libpmemobjtest,
    hello_libpmemobjtest2           |-> hello_libpmemobjtest2,
    hello_libpmemobjtest3           |-> hello_libpmemobjtest3,
    hello_libpmemobjtest3_alloc     |-> hello_libpmemobjtest3_alloc,
    loop                            |-> loop,
    hello_libpmemobjtest4           |-> hello_libpmemobjtest4,
    hello_libpmemobjtest4_safepm    |-> hello_libpmemobjtest4_safepm,
    hello_libpmemobjtest4_safepm_pw |-> hello_libpmemobjtest4_safepm_pw,
    hello_libpmemobjtest5_safepm_pw |-> hello_libpmemobjtest5_safepm_pw]

SampleNames == DOMAIN Sample

(* The cells a program's steps name. *)
CellsOf(steps) == UNION {
    CASE steps[i].op = "store" -> DOMAIN steps[i].to
      [] steps[i].op \in {"add", "persist"} -> steps[i].cells
      [] OTHER -> {} : i \in 1 .. Len(steps)}

(* hello_libpmemobjtest3_alloc only reads its root. *)
SampleCells(p) == CellsOf(Sample[p].writer) \cup {data_oid}

ReaderFaults(p, mem) ==
    CASE p = "testprogram" -> testprogram_faults(mem)
      [] p \in {"hello_libpmemobjtest3", "hello_libpmemobjtest3_alloc"} ->
             hello_libpmemobjtest3_faults(mem)
      [] p \in {"hello_libpmemobjtest4", "hello_libpmemobjtest4_safepm",
                "hello_libpmemobjtest4_safepm_pw"} ->
             hello_libpmemobjtest4_faults(mem)
      [] p = "hello_libpmemobjtest5_safepm_pw" ->
             hello_libpmemobjtest5_safepm_pw_faults(mem)
      [] OTHER -> FALSE

=============================================================================
