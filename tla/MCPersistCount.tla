--------------------------- MODULE MCPersistCount ---------------------------
(* A small instance of PersistCount: two ways to one line, and a second    *)
(* line and a third file that may find no room.                            *)
EXTENDS PersistCount

CONSTANTS x, y      \* the backtraces of the two ways, alike in all but name

Place(f, n, b) == [file |-> f, line |-> n, bt |-> b]

FivePlaces == {Place("f", 1, x), Place("f", 1, y), Place("f", 2, "z"),
               Place("g", 1, "w"), Place("h", 1, "v")}

TwoWays == Permutations({x, y})
=============================================================================
