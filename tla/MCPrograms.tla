----------------------------- MODULE MCPrograms -----------------------------
(* Command lines for a store of two slots: a key that begins the other.    *)
EXTENDS Programs

a  == <<1>>
ab == <<1, 2>>

MCCommands == {
    [name |-> "write", key |-> a, value |-> 1],
    [name |-> "write", key |-> ab, value |-> 2],
    [name |-> "data", id |-> 0, key |-> a, value |-> 3],
    [name |-> "data", id |-> 1, key |-> ab, value |-> 3],
    [name |-> "number", number |-> 0],
    [name |-> "delete", key |-> a],
    [name |-> "delete", key |-> ab],
    [name |-> "read", key |-> ab],
    [name |-> "read_all"],
    [name |-> "read_id", id |-> 0]}

MCPrograms_All == Stores \cup SampleNames

=============================================================================
