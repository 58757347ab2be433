---------------------------- MODULE MCCrashImage ----------------------------
(* Small instances of CrashImage: a page of four lines and an INT_MAX of   *)
(* three lines and a bit, so that pieces, pages and lines end apart.       *)
EXTENDS CrashImage

(* Within a line, within a page, a page, and beyond by less or more than   *)
(* a line and by more than INT_MAX.                                        *)
AllSizes   == {60, 100, 256, 300, 600}
EdgeProbes == {0, 63, 64, 99, 191, 192, 255, 256, 299, 500, 599}

Range(o, n) == [offset |-> o, len |-> n]

(* None; inside a line; over a boundary and again; the last, partial line; *)
(* no bytes, inside a line and at its start.                               *)
SomeSelections ==
    {<<>>, <<Range(8, 4)>>, <<Range(62, 4), Range(60, 1)>>,
     <<Range(190, 3), Range(260, 40)>>, <<Range(70, 0), Range(192, 0)>>}

(* A sample's file of a quarter of a page, as hello_libpmemtest.c has it.  *)
SmallFile == {64}
NoSelection == {<<>>}
=============================================================================
