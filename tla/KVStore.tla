------------------------------ MODULE KVStore ------------------------------
(***************************************************************************)
(* The key-value samples PmemKVS.c, PmemKVS3.c and PmemKVS4.c: what each   *)
(* command does to the pool, as the steps of ObjPool.  The store is an     *)
(* array of slots and the number of those in use; a key is a sequence of   *)
(* characters, since a shorter key matches a longer one it begins.         *)
(*                                                                         *)
(* mem is what the command reads of the pool when it has opened it.        *)
(***************************************************************************)
EXTENDS ObjPool, SequencesExt

CONSTANT MAX_STORE

ASSUME StoreAssumption == MAX_STORE \in Nat \ {0}

(* The bytes of a slot's key.  Writing copies the whole key, of whatever   *)
(* length, over them: here a key fits and leaves a NUL (the commands of    *)
(* Programs), so that it is a cell of its own.                             *)
MAX_BUF_LEN == 30

(* struct subKVstruct and struct KVstruct. *)
number    == <<"number">>
keylen(i) == <<"keylen", i>>
key(i)    == <<"key", i>>
value(i)  == <<"value", i>>

data(i) == {keylen(i), key(i), value(i)}

KVstruct == {number} \cup UNION {data(i) : i \in 0 .. MAX_STORE - 1}

(* A new root object is zero. *)
ZeroStruct == [c \in KVstruct |-> IF c[1] = "key" THEN <<>> ELSE 0]

-----------------------------------------------------------------------------
(* Reading. *)

Prefix(k, n) == IF n <= Len(k) THEN SubSeq(k, 1, n) ELSE k

(* Mutant: the whole keys are compared. *)
SameKey(mem, i, k) == mem[key(i)] = k

(* strncmp(data[i].key, k, data[i].keylen) == 0. *)
Matches(mem, i, k) ==
    Prefix(mem[key(i)], mem[keylen(i)]) = Prefix(k, mem[keylen(i)])

Found(mem, k) == {i \in 0 .. mem[number] - 1 : Matches(mem, i, k)}

(* The search ends at the first match. *)
First(mem, k) == CHOOSE i \in Found(mem, k) : \A j \in Found(mem, k) : i <= j

(* A line of output: key and value.  The key is printed up to its NUL, not *)
(* up to keylen.                                                           *)
Printed(mem, i) == <<mem[key(i)], mem[value(i)]>>

(* The output of a read command. *)
PmemKVS_read(mem, cmd) ==
    CASE cmd.name = "read_all" -> [i \in 1 .. mem[number] |-> Printed(mem, i - 1)]
      [] cmd.name = "read_id"  -> <<Printed(mem, cmd.id)>>
      [] cmd.name = "read"     ->
             IF Found(mem, cmd.key) = {} THEN <<>>
             ELSE <<Printed(mem, First(mem, cmd.key))>>

(* -1, in PmemKVS3.c, is no id. *)
PmemKVS3_read(mem, cmd) == PmemKVS_read(mem, cmd)

PmemKVS4_read(mem, cmd) == PmemKVS_read(mem, cmd)

-----------------------------------------------------------------------------
(* Writing. *)

(* TX_MEMCPY copies keylen characters of the key over those of an older one. *)
Onto(k, old) == k \o SubSeq(old, Len(k) + 1, Len(old))

FillSlot(mem, i, k, v) ==
    <<Put(keylen(i), Len(k)), Put(value(i), v), Put(key(i), Onto(k, mem[key(i)]))>>

(* Mutant: every write is the first. *)
FirstSlot(mem, created) == 0

(* The next slot: 0 in a pool just made, whatever number says. *)
NextSlot(mem, created) == IF created THEN 0 ELSE mem[number]

(* Mutant: the number is raised before the slot is filled. *)
NumberFirst(mem, id, k, v) ==
    <<TX_BEGIN, TX_ADD(KVstruct), Put(number, id + 1), TX_END(48),
      TX_BEGIN, TX_ADD(KVstruct)>> \o FillSlot(mem, id, k, v) \o
    <<TX_END(53), Close>>

(* PmemKVS.c fills the slot and raises the number in two transactions. *)
PmemKVS_write(mem, id, k, v) ==
    <<TX_BEGIN, TX_ADD(KVstruct)>> \o FillSlot(mem, id, k, v) \o
    <<TX_END(48), TX_BEGIN, TX_ADD(KVstruct), Put(number, id + 1), TX_END(53),
      Close>>

(* PmemKVS3.c adds the first eight bytes of the root, which are keylen and *)
(* value of slot 0 in its struct, whatever slot it fills.                  *)
PmemKVS3_write(mem, id, k, v) ==
    <<TX_BEGIN, TX_ADD({keylen(0), value(0)})>> \o FillSlot(mem, id, k, v) \o
    <<Put(number, id + 1), TX_END(76), Close>>

(* PmemKVS4.c does both in one transaction. *)
PmemKVS4_write(mem, id, k, v) ==
    <<TX_BEGIN, TX_ADD(KVstruct)>> \o FillSlot(mem, id, k, v) \o
    <<Put(number, id + 1), TX_END(135), Close>>

(* The last slot takes the place of the deleted one.  If that is the last  *)
(* itself only number is stored, and it is not added to the transaction.   *)
MoveLast(mem, i) ==
    IF i = mem[number] - 1 THEN <<>>
    ELSE <<TX_ADD(KVstruct),
           PutAll([c \in data(i) |-> mem[<<c[1], mem[number] - 1>>]])>>

Deletion(mem, k, end) ==
    IF Found(mem, k) = {} THEN <<Close>>
    ELSE <<TX_BEGIN>> \o MoveLast(mem, First(mem, k)) \o
         <<Put(number, mem[number] - 1), TX_END(end), Close>>

PmemKVS_delete(mem, k) == Deletion(mem, k, 149)

PmemKVS3_delete(mem, k) == Deletion(mem, k, 171)

PmemKVS4_delete(mem, k) == Deletion(mem, k, 220)

manipulate_data(mem, id, k, v) ==
    <<TX_BEGIN, TX_ADD(KVstruct)>> \o FillSlot(mem, id, k, v) \o
    <<TX_END(186), Close>>

manipulate_number(n) ==
    <<TX_BEGIN, TX_ADD(KVstruct), Put(number, n), TX_END(218), Close>>

-----------------------------------------------------------------------------
(* main: the commands of each program, and what they do. *)

PmemKVS_main == {"write", "read", "read_all", "read_id", "delete", "data", "number"}

PmemKVS3_main == {"write", "read", "read_all", "read_id", "delete"}

PmemKVS4_main == {"write", "read", "read_all", "delete"}

Stores == {"PmemKVS", "PmemKVS3", "PmemKVS4"}

Knows(p) == CASE p = "PmemKVS"  -> PmemKVS_main
              [] p = "PmemKVS3" -> PmemKVS3_main
              [] p = "PmemKVS4" -> PmemKVS4_main

ReadsOnly(cmd) == cmd.name \in {"read", "read_all", "read_id"}

(* Reading and deleting do not make a pool. *)
Creates(cmd) == cmd.name \in {"write", "data", "number"}

write_KVS(p, cmd, mem, id) ==
    CASE p = "PmemKVS"  -> PmemKVS_write(mem, id, cmd.key, cmd.value)
      [] p = "PmemKVS3" -> PmemKVS3_write(mem, id, cmd.key, cmd.value)
      [] p = "PmemKVS4" -> PmemKVS4_write(mem, id, cmd.key, cmd.value)

delete_KVS(p, cmd, mem) ==
    CASE p = "PmemKVS"  -> PmemKVS_delete(mem, cmd.key)
      [] p = "PmemKVS3" -> PmemKVS3_delete(mem, cmd.key)
      [] p = "PmemKVS4" -> PmemKVS4_delete(mem, cmd.key)

Writes(p, cmd, mem, created) ==
    CASE cmd.name = "write"  -> write_KVS(p, cmd, mem, NextSlot(mem, created))
      [] cmd.name = "delete" -> delete_KVS(p, cmd, mem)
      [] cmd.name = "data"   -> manipulate_data(mem, cmd.id, cmd.key, cmd.value)
      [] cmd.name = "number" -> manipulate_number(cmd.number)

Reads(p, cmd, mem) ==
    CASE p = "PmemKVS"  -> PmemKVS_read(mem, cmd)
      [] p = "PmemKVS3" -> PmemKVS3_read(mem, cmd)
      [] p = "PmemKVS4" -> PmemKVS4_read(mem, cmd)

=============================================================================
