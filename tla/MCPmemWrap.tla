----------------------------- MODULE MCPmemWrap -----------------------------
(* Small instances of PmemWrap.  Byte addresses are real ones on 64-byte   *)
(* lines; only the pool header shrinks from 4096 bytes to one line.        *)
EXTENDS PmemWrap, TLC

CONSTANTS t1, t2, A, B, k1, k2, k3, s1, s2

OneThread  == {t1}
TwoThreads == {t1, t2}
Symmetric  == Permutations({t1, t2}) \cup Permutations({k1, k2})

(* A, a file of two lines, lies right below B, a pool: header and body. *)
BaseAB == (A :> 0) @@ (B :> 128)
SizeAB == (A :> 128) @@ (B :> 128)
KindAB == (A :> "PMEM_FILE") @@ (B :> "PMEMOBJ_FILE")

BaseA == (A :> 0)
SizeA == (A :> 128)
KindA == (A :> "PMEM_FILE")

FirstLine == [addr |-> 8, len |-> 16]
BothLines == [addr |-> 60, len |-> 8]
PoolBody  == [addr |-> 192, len |-> 64]
PoolStart == [addr |-> 128, len |-> 8]
PastEnd   == [addr |-> 120, len |-> 16]
Elsewhere == [addr |-> 4096, len |-> 8]

OneRange  == {BothLines}
Everywhere == {BothLines, PoolStart, PastEnd, Elsewhere}
FileAndPool == {FirstLine, PoolBody}
=============================================================================
