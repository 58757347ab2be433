----------------------------- MODULE EntryList -----------------------------
(***************************************************************************)
(* What a key-value store promises to keep: a list of entries, each its    *)
(* key and value, that changes by whole commands only, whatever happens to *)
(* the process that runs one.                                              *)
(***************************************************************************)
EXTENDS Integers, Sequences, SequencesExt

CONSTANT Commands       \* records with the fields of a command line

VARIABLE entries

Item(k, v) == [key |-> k, value |-> v]

(* The entries a key names: those whose own key it begins with. *)
Named(k, list) == {i \in DOMAIN list : IsPrefix(list[i].key, k)}

Lowest(S) == CHOOSE i \in S : \A j \in S : i <= j

(* The last entry takes the place of the i-th. *)
Without(i, list) == Front([list EXCEPT ![i] = Last(list)])

(* What is left when command c has run.  Slots are numbered from 0. *)
Effect(c, list) ==
    CASE c.name = "write" -> Append(list, Item(c.key, c.value))
      [] c.name = "delete" /\ Named(c.key, list) # {} ->
             Without(Lowest(Named(c.key, list)), list)
      [] c.name = "data" /\ c.id < Len(list) ->
             [list EXCEPT ![c.id + 1] = Item(c.key, c.value)]
      [] c.name = "number" -> SubSeq(list, 1, c.number)
      [] OTHER -> list

Command == \E c \in Commands : entries' = Effect(c, entries)

(* Deleting the last entry is not forced to the medium when it is done, so *)
(* several such deletions may get there together.                          *)
LastOnesGo == \E n \in 0 .. Len(entries) - 1 : entries' = SubSeq(entries, 1, n)

Init == entries = <<>>

Next == Command \/ LastOnesGo

Spec == Init /\ [][Next]_entries

=============================================================================
