----------------------- MODULE PersistentMemoryProofs -----------------------
(* The promise of the abstract memory follows from its steps.              *)
EXTENDS PersistentMemory, TLAPS

Typed ==
    /\ current \in [Lines -> Nat] /\ medium \in [Lines -> Nat]
    /\ attached \subseteq Lines
    /\ flushed \in [Threads -> [Lines -> Nat]] /\ fenced \in [Lines -> Nat]

(* Nobody flushes or fences what was not stored.                           *)
NotAhead ==
    \A l \in Lines :
        fenced[l] <= current[l] /\ \A t \in Threads : flushed[t][l] <= current[l]

PMInv == Typed /\ NotAhead /\ FencedSurvives

LEMMA PMInvStep ==
    ASSUME PMInv, [PMNext]_pmVars
    PROVE  PMInv'
<1> USE DEF PMInv, Typed, NotAhead, FencedSurvives
<1>1. CASE UNCHANGED pmVars
  BY <1>1 DEF pmVars
<1>2. CASE Crash
  BY <1>2 DEF Crash
<1>3. ASSUME NEW t \in Threads, FenceOf(t) PROVE PMInv'
  BY <1>3 DEF FenceOf
<1>4. ASSUME NEW L \in SUBSET Lines, StoreTo(L) PROVE PMInv'
  BY <1>4 DEF StoreTo
<1>5. ASSUME NEW L \in SUBSET Lines, Attach(L) PROVE PMInv'
  BY <1>5 DEF Attach
<1>6. ASSUME NEW L \in SUBSET Lines, Detach(L) PROVE PMInv'
  BY <1>6 DEF Detach
<1>7. ASSUME NEW L \in SUBSET Lines, WriteBack(L) PROVE PMInv'
  BY <1>7 DEF WriteBack
<1>8. ASSUME NEW L \in SUBSET Lines, NEW t \in Threads, FlushOf(t, L)
      PROVE  PMInv'
  BY <1>8 DEF FlushOf
<1> QED BY <1>1, <1>2, <1>3, <1>4, <1>5, <1>6, <1>7, <1>8 DEF PMNext

(* Whatever is written back when, a line that a thread flushed and fenced  *)
(* is on the medium: the promise the shim's copy files are held to.        *)
THEOREM FencedDataSurvives == PMSpec => []FencedSurvives
<1>1. Start => PMInv
  BY DEF Start, PMInv, Typed, NotAhead, FencedSurvives
<1>2. PMInv /\ [PMNext]_pmVars => PMInv'
  BY PMInvStep
<1>3. PMInv => FencedSurvives
  BY DEF PMInv
<1> QED BY <1>1, <1>2, <1>3, PTL DEF PMSpec

=============================================================================
