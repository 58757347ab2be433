--------------------------- MODULE ProgramsProofs ---------------------------
(* The filter of pmemobj_wrap_tx_process, the undo log and the types, for  *)
(* every program, command line and number of runs and failures.            *)
EXTENDS Programs, SequenceTheorems, FiniteSetTheorems, TLAPS

(* What the pool and the filter see of the programs. *)
PoolNext ==
    \/ PoolStep \/ AbortHere \/ CreateFile \/ FinishFile
    \/ \E steps : OpenPool(steps)
    \/ Evict \/ Kill \/ PowerFail

LEMMA StepsOfPool ==
    ASSUME [Next]_vars
    PROVE  PoolNext \/ UNCHANGED poolvars
<1>1. CASE UNCHANGED vars
    BY <1>1, Zenon DEF vars
<1>2. ASSUME NEW c \in CommandLines, Start(c) PROVE UNCHANGED poolvars
    BY <1>2, Zenon DEF Start
<1>3. CASE Create
    BY <1>3, Zenon DEF Create, PoolNext
<1>4. CASE Complete
    BY <1>4, Zenon DEF Complete, PoolNext
<1>5. CASE CannotOpen
    BY <1>5, Zenon DEF CannotOpen
<1>6. CASE OpenToRead
    BY <1>6, Zenon DEF OpenToRead, PoolNext
<1>7. CASE ReaderDies
    BY <1>7, Zenon DEF ReaderDies, PoolNext
<1>8. CASE OpenToWrite
    BY <1>8, Zenon DEF OpenToWrite, PoolNext
<1>9. CASE Work
    BY <1>9, Zenon DEF Work, PoolNext
<1>10. CASE Aborts
    BY <1>10, Zenon DEF Aborts, PoolNext
<1>11. CASE Exit
    BY <1>11, Zenon DEF Exit
<1>12. CASE WriteBack
    BY <1>12, Zenon DEF WriteBack, PoolNext
<1>13. CASE Killed
    BY <1>13, Zenon DEF Killed, PoolNext
<1>14. CASE PowerFails
    BY <1>14, Zenon DEF PowerFails, PoolNext
<1> QED
    BY <1>1, <1>2, <1>3, <1>4, <1>5, <1>6, <1>7, <1>8, <1>9, <1>10, <1>11,
       <1>12, <1>13, <1>14, Zenon DEF Next

-----------------------------------------------------------------------------
(* The filter. *)

(* The last call of a transaction has left two repeats behind: the next    *)
(* one at the same site is counted, as is one at another site.             *)
Armed == site = <<>> \/ c_flag = 2

(* repeats calls of this TX_END have not been counted since the commit.    *)
SinceCommit(repeats) ==
    c_flag = repeats /\ Doing("end") /\ site = <<Head(code).at>>

InStep ==
    CASE stage = "ONCOMMIT" -> SinceCommit(0)
      [] stage = "FINALLY"  -> SinceCommit(1)
      [] OTHER              -> Armed

FilterInv ==
    /\ stage \in {"NONE", "WORK", "ONCOMMIT", "ONABORT", "FINALLY"}
    /\ counted \in Nat /\ committed \in Nat
    /\ code # <<>> /\ ~failed => stage # "ONABORT" /\ InStep

LEMMA ArmedCounts ==
    ASSUME Armed PROVE Counts
BY SMT DEF Armed, Counts

(* A step that is no transaction call does not go past a commit: until the *)
(* stage is NONE again the program is at its TX_END.                       *)
LEMMA GoOn ==
    ASSUME FilterInv, ~Doing("end"), code # <<>>, Rest,
           UNCHANGED <<stage, filter, failed>>
    PROVE  FilterInv'
<1>1. UNCHANGED <<site, c_flag, counted, committed>>
    BY Zenon DEF filter
<1>2. CASE failed
    BY <1>1, <1>2, Zenon DEF FilterInv
<1>3. CASE ~failed
  <2>1. Armed /\ stage # "ONCOMMIT" /\ stage # "FINALLY" /\ stage # "ONABORT"
      BY <1>3, Zenon DEF FilterInv, InStep, SinceCommit
  <2>2. Armed'
      BY <1>1, <2>1, Zenon DEF Armed
  <2>3. InStep'
      BY <2>1, <2>2, Zenon DEF InStep
  <2> QED
      BY <1>1, <2>1, <2>3, Zenon DEF FilterInv
<1> QED
    BY <1>2, <1>3, Zenon

LEMMA OutsideCalls ==
    ASSUME FilterInv, UNCHANGED <<code, stage, filter, failed>>
    PROVE  FilterInv'
<1>1. UNCHANGED <<site, c_flag, counted, committed>>
    BY Zenon DEF filter
<1> QED
    BY <1>1, Zenon DEF FilterInv, InStep, SinceCommit, Armed, Doing

LEMMA ProcessGone ==
    ASSUME FilterInv, code' = <<>>, stage' = "NONE", UNCHANGED filter
    PROVE  FilterInv'
<1>1. UNCHANGED <<site, c_flag, counted, committed>>
    BY Zenon DEF filter
<1> QED
    BY <1>1, Zenon DEF FilterInv

LEMMA TxBeginKeeps ==
    ASSUME FilterInv, TxBegin
    PROVE  FilterInv'
<1>1. UNCHANGED <<site, c_flag, counted, committed, failed>>
    BY Zenon DEF TxBegin, filter
<1>2. stage = "NONE" /\ stage' = "WORK" /\ code # <<>>
    BY Zenon DEF TxBegin, Doing
<1>3. ~failed => Armed
    BY <1>2, Zenon DEF FilterInv, InStep
<1>4. ~failed' => InStep'
    BY <1>1, <1>2, <1>3, Zenon DEF InStep, Armed
<1> QED
    BY <1>1, <1>2, <1>4, Zenon DEF FilterInv

LEMMA TxAddFailsKeeps ==
    ASSUME FilterInv, TxAddFails
    PROVE  FilterInv'
<1>1. UNCHANGED <<counted, committed>>
    BY Zenon DEF TxAddFails, filter
<1>2. stage' = "ONABORT" /\ failed' = TRUE
    BY Zenon DEF TxAddFails
<1> QED
    BY <1>1, <1>2, Zenon DEF FilterInv

(* The call that commits is the one the filter counts.                     *)
LEMMA TxCommitIsCounted ==
    ASSUME FilterInv, TxCommit
    PROVE  FilterInv' /\ committed' > committed /\ (~failed => counted' > counted)
<1>1. stage = "WORK" /\ stage' = "ONCOMMIT" /\ code # <<>> /\ Doing("end")
    BY Zenon DEF TxCommit, Doing
<1>2. UNCHANGED <<code, failed>> /\ committed' = committed + 1
    BY Zenon DEF TxCommit
<1>3. /\ c_flag' = (IF Counts THEN 0 ELSE c_flag + 1)
      /\ counted' = (IF Counts THEN counted + 1 ELSE counted)
      /\ site' = <<Head(code).at>>
    BY Zenon DEF TxCommit, CountTxProcess
<1>4. counted \in Nat /\ committed \in Nat
    BY Zenon DEF FilterInv
<1>5. counted' \in Nat /\ committed' \in Nat /\ committed' > committed
    BY <1>2, <1>3, <1>4, SMT
<1>6. CASE failed
    BY <1>1, <1>2, <1>5, <1>6, Zenon DEF FilterInv
<1>7. CASE ~failed
  <2>1. Counts
      BY <1>1, <1>7, ArmedCounts, Zenon DEF FilterInv, InStep
  <2>2. c_flag' = 0 /\ counted' = counted + 1
      BY <1>3, <2>1, Zenon
  <2>3. counted' > counted
      BY <1>4, <2>2, SMT
  <2>4. SinceCommit(0)'
      BY <1>1, <1>2, <1>3, <2>2, Zenon DEF SinceCommit, Doing
  <2>5. InStep'
      BY <1>1, <2>4, Zenon DEF InStep
  <2> QED
      BY <1>1, <1>2, <1>5, <2>3, <2>5, Zenon DEF FilterInv
<1> QED
    BY <1>6, <1>7, Zenon

(* The other two calls of the transaction are not.                         *)
LEMMA TxProcessIsNot ==
    ASSUME FilterInv, TxProcess
    PROVE  FilterInv' /\ committed' = committed /\ (~failed => counted' = counted)
<1>1. /\ Doing("end") /\ code # <<>>
      /\ stage \in {"ONCOMMIT", "ONABORT", "FINALLY"}
      /\ stage' = (IF stage = "FINALLY" THEN "NONE" ELSE "FINALLY")
    BY Zenon DEF TxProcess, Doing
<1>2. UNCHANGED <<code, committed, failed>>
    BY Zenon DEF TxProcess
<1>3. /\ c_flag' = (IF Counts THEN 0 ELSE c_flag + 1)
      /\ counted' = (IF Counts THEN counted + 1 ELSE counted)
      /\ site' = <<Head(code).at>>
    BY Zenon DEF TxProcess, CountTxProcess
<1>4. counted \in Nat /\ committed \in Nat
    BY Zenon DEF FilterInv
<1>5. counted' \in Nat /\ committed' \in Nat
    BY <1>2, <1>3, <1>4, SMT
<1>6. stage' \in {"NONE", "FINALLY"}
    BY <1>1, Zenon
<1>7. CASE failed
    BY <1>2, <1>5, <1>6, <1>7, Zenon DEF FilterInv
<1>8. CASE ~failed /\ stage = "ONCOMMIT"
  <2>1. c_flag = 0 /\ site = <<Head(code).at>>
      BY <1>1, <1>8, Zenon DEF FilterInv, InStep, SinceCommit
  <2>2. ~Counts
      BY <2>1, SMT DEF Counts
  <2>3. c_flag' = 1 /\ counted' = counted
      BY <1>3, <2>1, <2>2, SMT
  <2>4. SinceCommit(1)'
      BY <1>1, <1>2, <1>3, <2>3, Zenon DEF SinceCommit, Doing
  <2>5. stage' = "FINALLY" /\ InStep'
      BY <1>1, <1>8, <2>4, Zenon DEF InStep
  <2> QED
      BY <1>2, <1>5, <2>3, <2>5, Zenon DEF FilterInv
<1>9. CASE ~failed /\ stage = "FINALLY"
  <2>1. c_flag = 1 /\ site = <<Head(code).at>>
      BY <1>1, <1>9, Zenon DEF FilterInv, InStep, SinceCommit
  <2>2. ~Counts
      BY <2>1, SMT DEF Counts
  <2>3. c_flag' = 2 /\ counted' = counted
      BY <1>3, <2>1, <2>2, SMT
  <2>4. Armed'
      BY <2>3, Zenon DEF Armed
  <2>5. stage' = "NONE" /\ InStep'
      BY <1>1, <1>9, <2>4, Zenon DEF InStep
  <2> QED
      BY <1>2, <1>5, <2>3, <2>5, Zenon DEF FilterInv
<1>10. ~failed => stage # "ONABORT"
    BY <1>1, Zenon DEF FilterInv
<1> QED
    BY <1>1, <1>7, <1>8, <1>9, <1>10, Zenon

LEMMA TxEndKeeps ==
    ASSUME FilterInv, TxEnd
    PROVE  FilterInv'
<1>1. UNCHANGED <<site, c_flag, counted, committed, stage, failed>>
    BY Zenon DEF TxEnd, filter
<1>2. stage = "NONE" /\ code # <<>>
    BY Zenon DEF TxEnd, Doing
<1>3. ~failed => Armed
    BY <1>2, Zenon DEF FilterInv, InStep
<1>4. ~failed' => InStep'
    BY <1>1, <1>2, <1>3, Zenon DEF InStep, Armed
<1> QED
    BY <1>1, <1>2, <1>4, Zenon DEF FilterInv

LEMMA OpenPoolKeeps ==
    ASSUME FilterInv, NEW steps, OpenPool(steps)
    PROVE  FilterInv' /\ counted' = 0 /\ committed' = 0
<1>1. /\ stage' = "NONE" /\ site' = <<>> /\ c_flag' = 0
      /\ counted' = 0 /\ committed' = 0
    BY Zenon DEF OpenPool
<1>2. counted' \in Nat /\ committed' \in Nat
    BY <1>1, SMT
<1>3. InStep'
    BY <1>1, Zenon DEF InStep, Armed
<1> QED
    BY <1>1, <1>2, <1>3, Zenon DEF FilterInv

(* A step that is no call of pmemobj_tx_process.                           *)
LEMMA OtherSteps ==
    ASSUME FilterInv, PoolNext, ~TxCommit, ~TxProcess,
           \A steps : ~OpenPool(steps)
    PROVE  FilterInv' /\ UNCHANGED <<counted, committed>>
<1>1. ASSUME NEW op, Doing(op), op # "end", Rest, UNCHANGED <<stage, filter, failed>>
      PROVE  FilterInv' /\ UNCHANGED <<counted, committed>>
  <2>1. ~Doing("end") /\ code # <<>>
      BY <1>1, Zenon DEF Doing
  <2> QED
      BY <1>1, <2>1, GoOn, Zenon DEF filter
<1>2. CASE Store
    BY <1>1, <1>2, Zenon DEF Store
<1>3. CASE PersistRange
    BY <1>1, <1>3, Zenon DEF PersistRange
<1>4. CASE AllocObject
    BY <1>1, <1>4, Zenon DEF AllocObject
<1>5. CASE TxBegin
    BY <1>5, TxBeginKeeps, Zenon DEF TxBegin, filter
<1>6. CASE TxAdd
    BY <1>1, <1>6, Zenon DEF TxAdd
<1>7. CASE TxAddFails
    BY <1>7, TxAddFailsKeeps, Zenon DEF TxAddFails, filter
<1>8. CASE TxEnd
    BY <1>8, TxEndKeeps, Zenon DEF TxEnd, filter
<1>9. CASE ClosePool
    BY <1>1, <1>9, Zenon DEF ClosePool
<1>10. CASE AbortHere
    BY <1>10, ProcessGone, Zenon DEF AbortHere, filter
<1>11. CASE CreateFile
    BY <1>11, OutsideCalls, Zenon DEF CreateFile, filter
<1>12. CASE FinishFile
    BY <1>12, OutsideCalls, Zenon DEF FinishFile, filter
<1>13. CASE Evict
    BY <1>13, OutsideCalls, Zenon DEF Evict, filter
<1>14. CASE Kill
    BY <1>14, ProcessGone, Zenon DEF Kill, filter
<1>15. CASE PowerFail
    BY <1>15, ProcessGone, Zenon DEF PowerFail, filter
<1> QED
    BY <1>2, <1>3, <1>4, <1>5, <1>6, <1>7, <1>8, <1>9, <1>10, <1>11, <1>12,
       <1>13, <1>14, <1>15, Zenon DEF PoolNext, PoolStep

LEMMA FilterStep ==
    ASSUME FilterInv, PoolNext
    PROVE  /\ FilterInv'
           /\ ~failed' => (counted' > counted <=> committed' > committed)
<1>1. counted \in Nat /\ committed \in Nat
    BY Zenon DEF FilterInv
<1>2. ~(counted > counted) /\ ~(committed > committed)
    BY <1>1, SMT
<1>3. CASE TxCommit
    BY <1>3, TxCommitIsCounted, Zenon DEF TxCommit
<1>4. CASE TxProcess
    BY <1>2, <1>4, TxProcessIsNot, Zenon DEF TxProcess
<1>5. ASSUME NEW steps, OpenPool(steps)
      PROVE  /\ FilterInv'
             /\ ~failed' => (counted' > counted <=> committed' > committed)
  <2>1. FilterInv' /\ counted' = 0 /\ committed' = 0
      BY <1>5, OpenPoolKeeps, Zenon
  <2>2. ~(counted' > counted) /\ ~(committed' > committed)
      BY <1>1, <2>1, SMT
  <2> QED
      BY <2>1, <2>2, Zenon
<1>6. CASE ~TxCommit /\ ~TxProcess /\ \A steps : ~OpenPool(steps)
    BY <1>2, <1>6, OtherSteps, Zenon
<1> QED
    BY <1>3, <1>4, <1>5, <1>6, Zenon

LEMMA FilterInit ==
    ASSUME Init PROVE FilterInv
<1>1. counted = 0 /\ committed = 0 /\ stage = "NONE" /\ code = <<>>
    BY Zenon DEF Init
<1>2. counted \in Nat /\ committed \in Nat
    BY <1>1, SMT
<1> QED
    BY <1>1, <1>2, Zenon DEF FilterInv

LEMMA FilterInvariant == Spec => []FilterInv
<1>1. FilterInv /\ [Next]_vars => FilterInv'
  <2> SUFFICES ASSUME FilterInv, [Next]_vars PROVE FilterInv'
      OBVIOUS
  <2>1. CASE PoolNext
      BY <2>1, FilterStep, Zenon
  <2>2. CASE UNCHANGED poolvars
      BY <2>2, OutsideCalls, Zenon DEF poolvars
  <2> QED
      BY <2>1, <2>2, StepsOfPool, Zenon
<1> QED
    BY FilterInit, <1>1, PTL DEF Spec

(* Of the three calls a transaction makes at the line of its TX_END the    *)
(* filter counts the one that commits, and no other: for any sequence of   *)
(* calls a program makes, whatever lines its transactions end at, in loops *)
(* too, until one of them is aborted.                                      *)
THEOREM CommitCountedOnce == Spec => CommitIsCounted
<1>1. FilterInv /\ [Next]_vars =>
          [~failed' => (counted' > counted <=> committed' > committed)]_poolvars
    BY StepsOfPool, FilterStep, Zenon
<1> QED
    BY <1>1, FilterInvariant, PTL DEF Spec, CommitIsCounted

-----------------------------------------------------------------------------
(* Sets of numbers, and the steps a process has left. *)

LEMMA NatSet ==
    ASSUME NEW S, 0 \in S, \A n \in Nat : n \in S => n + 1 \in S
    PROVE  Nat \subseteq S
<1>1. SUFFICES ASSUME NEW m \in Nat, m \notin S PROVE FALSE
  OBVIOUS
<1> DEFINE T == {0 .. n : n \in Nat \ S}
<1>2. T \subseteq FiniteSubsetsOf(Nat)
  <2>1. ASSUME NEW n \in Nat \ S PROVE 0 .. n \in SUBSET Nat /\ IsFiniteSet(0 .. n)
    <3>1. 0 \in Int /\ n \in Int
      OBVIOUS
    <3>2. IsFiniteSet(0 .. n)
      BY <3>1, FS_Interval, Zenon
    <3>3. 0 .. n \in SUBSET Nat
      OBVIOUS
    <3> QED BY <3>2, <3>3
  <2> QED BY <2>1, Zenon DEF FiniteSubsetsOf
<1>3. T # {}
  BY <1>1
<1>4. PICK x \in T : \A y \in T : <<y, x>> \notin StrictSubsetOrdering(Nat)
  BY <1>2, <1>3, WFMin, FS_StrictSubsetOrderingWellFounded, Zenon
<1>5. PICK n \in Nat \ S : x = 0 .. n
  OBVIOUS
<1>6. n - 1 \in Nat /\ n - 1 \notin S
  BY <1>5
<1>7. 0 .. (n - 1) \in T
  BY <1>6
<1>8. <<0 .. (n - 1), 0 .. n>> \in StrictSubsetOrdering(Nat)
  <2>1. 0 .. (n - 1) \in SUBSET Nat /\ 0 .. n \in SUBSET Nat
    BY <1>6
  <2>2. n \notin 0 .. (n - 1) /\ n \in 0 .. n /\ 0 .. (n - 1) \subseteq 0 .. n
    BY <1>6
  <2> QED BY <2>1, <2>2 DEF StrictSubsetOrdering
<1> QED BY <1>4, <1>5, <1>7, <1>8

LEMMA NatMin ==
    ASSUME NEW T, T \subseteq Nat, T # {}
    PROVE  \E m \in T : \A n \in T : m <= n
<1>1. SUFFICES ASSUME \A m \in T : \E n \in T : ~(m <= n) PROVE FALSE
  OBVIOUS
<1> DEFINE S == {k \in Nat : \A i \in T : k <= i}
<1>2. 0 \in S
  OBVIOUS
<1>3. ASSUME NEW k \in Nat, k \in S PROVE k + 1 \in S
  <2>1. k \notin T
    BY <1>1, <1>3
  <2>2. \A i \in T : i # k /\ k <= i /\ i \in Nat
    BY <2>1, <1>3
  <2>3. \A i \in T : k + 1 <= i
    BY <2>2
  <2> QED BY <2>3
<1>4. Nat \subseteq S
  <2> HIDE DEF S
  <2> QED BY <1>2, <1>3, NatSet
<1>5. PICK m \in T : TRUE
  OBVIOUS
<1>6. m + 1 \in Nat /\ m + 1 \notin S
  BY <1>5
<1> QED BY <1>4, <1>6

-----------------------------------------------------------------------------
(* The code a process has left. *)

Listed(s) == Len(s) \in Nat /\ s = [i \in 1 .. Len(s) |-> s[i]]

LEMMA ListedIs ==
    /\ \A S : \A s \in Seq(S) : Listed(s)
    /\ \A s : Listed(s) => \E S : s \in Seq(S)
<1>1. ASSUME NEW S, NEW s \in Seq(S) PROVE Listed(s)
  BY <1>1, LenProperties DEF Listed
<1>2. ASSUME NEW s, Listed(s) PROVE \E S : s \in Seq(S)
  <2> DEFINE n == Len(s)
  <2> DEFINE S == {s[i] : i \in 1 .. n}
  <2>1. n \in Nat /\ s = [i \in 1 .. n |-> s[i]]
    BY <1>2 DEF Listed
  <2>2. [i \in 1 .. n |-> s[i]] \in [1 .. n -> S]
    BY <2>1
  <2> HIDE DEF S, n
  <2>3. s \in [1 .. n -> S]
    BY <2>1, <2>2
  <2> QED BY <2>1, <2>3, SeqDef
<1> QED BY <1>1, <1>2

LEMMA Popped ==
    ASSUME NEW s, Listed(s), s # <<>>
    PROVE  /\ Len(s) \in Nat \ {0} /\ 1 \in 1 .. Len(s)
           /\ Head(s) = s[1] /\ Listed(Tail(s))
           /\ Len(Tail(s)) = Len(s) - 1
           /\ \A i \in 1 .. Len(s) - 1 : Tail(s)[i] = s[i + 1]
           /\ \A i \in 1 .. Len(s) : i # 1 =>
                 i - 1 \in 1 .. Len(s) - 1 /\ Tail(s)[i - 1] = s[i]
<1>1. PICK S : s \in Seq(S)
  BY ListedIs
<1>2. Len(s) \in Nat \ {0} /\ Head(s) = s[1]
  BY <1>1, EmptySeq
<1>3. /\ Tail(s) \in Seq(S) /\ Len(Tail(s)) = Len(s) - 1
      /\ \A i \in 1 .. Len(Tail(s)) : Tail(s)[i] = s[i + 1]
  BY <1>1, HeadTailProperties
<1>4. Listed(Tail(s))
  BY <1>3, ListedIs
<1> QED BY <1>2, <1>3, <1>4

LEMMA Dropped ==
    ASSUME NEW s, Listed(s), NEW k \in 1 .. Len(s)
    PROVE  LET t == SubSeq(s, k, Len(s)) IN
           /\ Listed(t) /\ t # <<>> /\ Len(t) = Len(s) - k + 1 /\ Len(s) \in Nat
           /\ \A i \in 1 .. Len(t) : t[i] = s[k + i - 1]
<1>1. PICK S : s \in Seq(S)
  BY ListedIs
<1>2. Len(s) \in Nat /\ \A i \in 1 .. Len(s) : s[i] \in S
  BY <1>1, LenProperties, ElementOfSeq
<1> DEFINE t == SubSeq(s, k, Len(s))
<1>3. k \in Int /\ Len(s) \in Int /\ \A i \in k .. Len(s) : s[i] \in S
  BY <1>2
<1>4. /\ t \in Seq(S)
      /\ Len(t) = IF k <= Len(s) THEN Len(s) - k + 1 ELSE 0
      /\ \A i \in 1 .. Len(s) - k + 1 : t[i] = s[k + i - 1]
  BY <1>3, SubSeqProperties
<1>5. Len(t) = Len(s) - k + 1 /\ Len(t) # 0
  BY <1>2, <1>4
<1>6. t # <<>>
  BY <1>5, EmptySeq
<1> HIDE DEF t
<1>7. Listed(t)
  BY <1>4, ListedIs
<1>8. \A i \in 1 .. Len(t) : t[i] = s[k + i - 1]
  BY <1>4, <1>5
<1> QED BY <1>2, <1>5, <1>6, <1>7, <1>8 DEF t

LEMMA NextEndIs ==
    ASSUME NEW m \in 1 .. Len(code), Len(code) \in Nat, code[m].op = "end"
    PROVE  /\ NextEnd \in 1 .. Len(code) /\ code[NextEnd].op = "end"
           /\ NextEnd <= m
           /\ \A j \in 1 .. NextEnd - 1 : code[j].op # "end"
<1> DEFINE E == {k \in 1 .. Len(code) : code[k].op = "end"}
<1>1. PICK e \in E : \A n \in E : e <= n
  <2>1. E \subseteq Nat /\ E # {}
    OBVIOUS
  <2> HIDE DEF E
  <2> QED BY <2>1, NatMin
<1>2. /\ e \in 1 .. Len(code)
      /\ code[e].op = "end" /\ \A j \in 1 .. e - 1 : code[j].op # "end"
  BY <1>1
<1>3. /\ NextEnd \in 1 .. Len(code)
      /\ code[NextEnd].op = "end" /\ \A j \in 1 .. NextEnd - 1 : code[j].op # "end"
  BY <1>2, Zenon DEF NextEnd
<1>4. NextEnd <= m
  BY <1>3
<1> QED BY <1>3, <1>4

(* The cells of a store. *)

LEMMA CellsDiffer ==
    /\ \A i : number # keylen(i) /\ number # key(i) /\ number # value(i)
    /\ \A i, j : keylen(i) # key(j) /\ keylen(i) # value(j) /\ key(i) # value(j)
    /\ \A i, j : keylen(i) = keylen(j) \/ key(i) = key(j) \/ value(i) = value(j) => i = j
BY DEF keylen, key, value, number

Slot == 0 .. MAX_STORE - 1

LEMMA CellsAre ==
    /\ number \in KVstruct
    /\ \A i \in Slot : keylen(i) \in KVstruct /\ key(i) \in KVstruct /\ value(i) \in KVstruct
    /\ \A c \in KVstruct :
          c = number \/ \E i \in Slot : c = keylen(i) \/ c = key(i) \/ c = value(i)
BY DEF KVstruct, data, Slot

(* One file and its undo log. *)

AllCells == DOMAIN Cells(program)

LEMMA StoreCells == IsStore => AllCells = KVstruct /\ number \in AllCells
BY CellsAre DEF AllCells, Cells, IsStore, ZeroStruct

Numbers(f) == IsStore /\ number \in DOMAIN f => f[number] \in 0 .. MAX_STORE

Fits(f) == f = [c \in AllCells |-> f[c]] /\ Numbers(f)

LogFits ==
    log = [c \in DOMAIN log |-> log[c]] /\ DOMAIN log \subseteq AllCells /\ Numbers(log)

StepFits(s, i) ==
    /\ s[i].op = "add" =>
          s[i].cells \subseteq AllCells /\ \E j \in 1 .. Len(s) : i < j /\ s[j].op = "end"
    /\ s[i].op = "store" => Numbers(s[i].to)

CodeFits(s) == Listed(s) /\ \A i \in 1 .. Len(s) : StepFits(s, i)

LEMMA OverlayFits ==
    ASSUME NEW f, NEW g, Fits(g), Numbers(f)
    PROVE  Fits(Overlay(f, g))
BY DEF Fits, Numbers, Overlay

LEMMA OfNothing ==
    /\ DOMAIN Nothing = {} /\ Nothing = [c \in DOMAIN Nothing |-> Nothing[c]]
    /\ Numbers(Nothing)
    /\ \A g : Fits(g) => Overlay(Nothing, g) = g
BY DEF Nothing, Numbers, Overlay, Fits

LEMMA PopFits ==
    ASSUME CodeFits(code), code # <<>>
    PROVE  CodeFits(Tail(code)) /\ Listed(code) /\ StepFits(code, 1)
           /\ Head(code) = code[1] /\ Len(code) \in Nat
<1>1. Listed(code)
  BY DEF CodeFits
<1> DEFINE u == Tail(code)
<1>2. /\ Len(code) \in Nat \ {0} /\ 1 \in 1 .. Len(code) /\ Head(code) = code[1]
      /\ Listed(u) /\ Len(u) = Len(code) - 1
      /\ \A i \in 1 .. Len(code) - 1 : u[i] = code[i + 1]
      /\ \A i \in 1 .. Len(code) : i # 1 =>
            i - 1 \in 1 .. Len(code) - 1 /\ u[i - 1] = code[i]
  BY <1>1, Popped
<1> HIDE DEF u
<1>3. ASSUME NEW i \in 1 .. Len(u) PROVE StepFits(u, i)
  <2>1. i + 1 \in 1 .. Len(code) /\ u[i] = code[i + 1]
    BY <1>2
  <2>2. StepFits(code, i + 1)
    BY <2>1 DEF CodeFits
  <2>3. ASSUME u[i].op = "add" PROVE \E j \in 1 .. Len(u) : i < j /\ u[j].op = "end"
    <3>1. PICK j \in 1 .. Len(code) : i + 1 < j /\ code[j].op = "end"
      BY <2>1, <2>2, <2>3 DEF StepFits
    <3>2. j - 1 \in 1 .. Len(u) /\ u[j - 1] = code[j] /\ i < j - 1
      BY <1>2, <3>1
    <3> QED BY <3>1, <3>2
  <2> QED BY <2>1, <2>2, <2>3 DEF StepFits
<1> QED BY <1>1, <1>2, <1>3 DEF CodeFits, u

LEMMA DropFits ==
    ASSUME CodeFits(code), NEW k \in 1 .. Len(code)
    PROVE  CodeFits(SubSeq(code, k, Len(code)))
<1> DEFINE u == SubSeq(code, k, Len(code))
<1>1. /\ Listed(u) /\ Len(u) = Len(code) - k + 1 /\ Len(code) \in Nat
      /\ \A i \in 1 .. Len(u) : u[i] = code[k + i - 1]
  BY Dropped DEF CodeFits
<1> HIDE DEF u
<1>3. ASSUME NEW i \in 1 .. Len(u) PROVE StepFits(u, i)
  <2>1. k + i - 1 \in 1 .. Len(code) /\ u[i] = code[k + i - 1]
    BY <1>1
  <2>2. StepFits(code, k + i - 1)
    BY <2>1 DEF CodeFits
  <2>3. ASSUME u[i].op = "add" PROVE \E j \in 1 .. Len(u) : i < j /\ u[j].op = "end"
    <3>1. PICK j \in 1 .. Len(code) : k + i - 1 < j /\ code[j].op = "end"
      BY <2>1, <2>2, <2>3 DEF StepFits
    <3>2. j - k + 1 \in 1 .. Len(u) /\ k + (j - k + 1) - 1 = j /\ i < j - k + 1
      BY <1>1, <3>1
    <3> QED BY <1>1, <3>1, <3>2
  <2> QED BY <2>1, <2>2, <2>3 DEF StepFits
<1> QED BY <1>1, <1>3 DEF CodeFits, u

(* What a program may do with its pool keeps its cells what they are.      *)
PoolFits == Fits(cache) /\ Fits(medium) /\ LogFits /\ CodeFits(code)

LEMMA EmptyFits == CodeFits(<<>>)
<1>1. Listed(<<>>) /\ Len(<<>>) = 0
  BY EmptySeq, ListedIs
<1> QED BY <1>1 DEF CodeFits

LEMMA PoolStepFits ==
    ASSUME PoolFits, PoolStep, program' = program
    PROVE  PoolFits'
<1> USE DEF PoolFits
<1>0. AllCells' = AllCells /\ IsStore' = IsStore
  BY DEF AllCells, IsStore
<1>1. \A f : (Fits(f) => Fits(f)') /\ (Numbers(f) => Numbers(f)')
  BY <1>0 DEF Fits, Numbers
<1>2. \A s : CodeFits(s) => CodeFits(s)'
  BY <1>0 DEF CodeFits, StepFits, Numbers
<1>3. UNCHANGED log => LogFits'
  BY <1>0 DEF LogFits, Numbers
<1>4. ASSUME NEW op, Doing(op)
      PROVE  /\ Head(code) = code[1] /\ StepFits(code, 1) /\ code[1].op = op
             /\ code' = Tail(code) => CodeFits(code)'
  BY <1>2, <1>4, PopFits DEF Doing
<1>5. ASSUME NEW f, NEW g, Fits(g), Numbers(f) PROVE Fits(Overlay(f, g))'
  BY <1>1, <1>5, OverlayFits
<1>6. CASE Store
  <2>1. Numbers(Head(code).to)
    BY <1>4, <1>6 DEF Store, StepFits
  <2>2. cache' = Overlay(Head(code).to, cache) /\ code' = Tail(code)
        /\ UNCHANGED <<medium, log>>
    BY <1>6 DEF Store, Rest
  <2>3. Fits(cache)'
    BY <1>5, <2>1, <2>2
  <2>4. CodeFits(code)'
    BY <1>4, <1>6, <2>2 DEF Store
  <2> QED BY <1>1, <1>3, <2>2, <2>3, <2>4
<1>7. CASE PersistRange
  <2>1. /\ medium' = Overlay(Part(cache, Head(code).cells), medium)
        /\ code' = Tail(code) /\ UNCHANGED <<cache, log>>
    BY <1>7 DEF PersistRange, Rest
  <2>2. Numbers(Part(cache, Head(code).cells))
    BY StoreCells DEF Numbers, Part, Fits
  <2>3. Fits(medium)'
    BY <1>5, <2>1, <2>2
  <2>4. CodeFits(code)'
    BY <1>4, <1>7, <2>1 DEF PersistRange
  <2> QED BY <1>1, <1>3, <2>1, <2>3, <2>4
<1>8. CASE AllocObject \/ TxBegin \/ TxEnd \/ ClosePool
  <2>1. code' = Tail(code) /\ UNCHANGED <<cache, medium, log>> /\ \E op : Doing(op)
    BY <1>8 DEF AllocObject, TxBegin, TxEnd, ClosePool, Rest, contents
  <2> QED BY <1>1, <1>3, <1>4, <2>1
<1>9. CASE TxAdd
  <2>1. log' = Logged(Head(code).cells) /\ code' = Tail(code)
        /\ UNCHANGED <<cache, medium>>
    BY <1>9 DEF TxAdd, Rest
  <2>2. Head(code).cells \subseteq AllCells
    BY <1>4, <1>9 DEF TxAdd, StepFits
  <2>3. LogFits'
    BY <1>0, <2>1, <2>2 DEF LogFits, Logged, Numbers, Fits
  <2>4. CodeFits(code)'
    BY <1>4, <1>9, <2>1 DEF TxAdd
  <2> QED BY <1>1, <2>1, <2>3, <2>4
<1>10. CASE TxAddFails
  <2>1. /\ cache' = Overlay(log, cache) /\ medium' = Overlay(log, medium)
        /\ log' = Nothing /\ code' = SubSeq(code, NextEnd, Len(code))
        /\ Doing("add")
    BY <1>10 DEF TxAddFails
  <2>2. Fits(cache)' /\ Fits(medium)'
    BY <1>5, <2>1 DEF LogFits
  <2>3. LogFits'
    BY <1>0, <2>1, OfNothing DEF LogFits, Numbers
  <2>4. PICK m \in 1 .. Len(code) : code[m].op = "end"
    BY <1>4, <2>1 DEF StepFits
  <2>5. Len(code) \in Nat
    BY <2>1, PopFits DEF Doing
  <2>6. NextEnd \in 1 .. Len(code)
    BY <2>4, <2>5, NextEndIs
  <2>7. CodeFits(code)'
    BY <1>2, <2>1, <2>6, DropFits
  <2> QED BY <2>2, <2>3, <2>7
<1>11. CASE TxCommit
  <2>1. /\ medium' = Overlay(Part(cache, DOMAIN log), medium)
        /\ log' = Nothing /\ UNCHANGED <<cache, code>>
    BY <1>11 DEF TxCommit
  <2>2. Numbers(Part(cache, DOMAIN log))
    BY StoreCells DEF Numbers, Part, Fits, LogFits
  <2>3. Fits(medium)'
    BY <1>5, <2>1, <2>2
  <2>4. LogFits'
    BY <1>0, <2>1, OfNothing DEF LogFits, Numbers
  <2> QED BY <1>1, <1>2, <2>1, <2>3, <2>4
<1>12. CASE TxProcess
  BY <1>1, <1>2, <1>3, <1>12 DEF TxProcess, contents
<1> QED BY <1>6, <1>7, <1>8, <1>9, <1>10, <1>11, <1>12 DEF PoolStep

LEMMA RecoveryFits ==
    ASSUME PoolFits PROVE Fits(Recovered(cache)) /\ Fits(Recovered(medium))
BY OverlayFits DEF PoolFits, Recovered, LogFits

LEMMA OpenFits ==
    ASSUME PoolFits, NEW steps, OpenPool(steps), program' = program, CodeFits(steps)
    PROVE  PoolFits'
<1>1. /\ cache' = Recovered(cache) /\ medium' = Recovered(medium)
      /\ log' = Nothing /\ code' = steps
  BY DEF OpenPool
<1>2. AllCells' = AllCells /\ IsStore' = IsStore
  BY DEF AllCells, IsStore
<1>3. Fits(cache)' /\ Fits(medium)'
  BY <1>1, <1>2, RecoveryFits DEF Fits, Numbers
<1>4. LogFits'
  BY <1>1, <1>2, OfNothing DEF LogFits, Numbers
<1>5. CodeFits(code)'
  BY <1>1, <1>2 DEF CodeFits, StepFits, Numbers
<1> QED BY <1>3, <1>4, <1>5 DEF PoolFits

-----------------------------------------------------------------------------
(* The steps of the samples. *)

(* Of the samples, only two add cells to a transaction, which then ends. *)
Ending(s) ==
    /\ Listed(s)
    /\ \A i \in 1 .. Len(s) :
          s[i].op = "add" => \E j \in 1 .. Len(s) : i < j /\ s[j].op = "end"

LEMMA Steps ==
    /\ \A c, v : Put(c, v).op = "store" /\ Put(c, v).to = [x \in {c} |-> v]
    /\ \A f : PutAll(f).op = "store" /\ PutAll(f).to = f
    /\ \A C : Persist(C).op = "persist" /\ Persist(C).cells = C
    /\ \A C : TX_ADD(C).op = "add" /\ TX_ADD(C).cells = C
    /\ TX_BEGIN.op = "begin" /\ Alloc.op = "alloc" /\ Abort.op = "abort"
    /\ Close.op = "close"
    /\ \A s : TX_END(s).op = "end"
BY DEF Put, PutAll, Persist, TX_ADD, TX_BEGIN, TX_END, Alloc, Abort, Close

LEMMA ListedConcat ==
    ASSUME NEW s, NEW t, Listed(s), Listed(t)
    PROVE  /\ Listed(s \o t) /\ Len(s \o t) = Len(s) + Len(t)
           /\ Len(s) \in Nat /\ Len(t) \in Nat
           /\ \A i \in 1 .. Len(s) : (s \o t)[i] = s[i]
           /\ \A i \in 1 .. Len(t) : (s \o t)[Len(s) + i] = t[i]
           /\ \A i \in 1 .. Len(s \o t) :
                 i \in 1 .. Len(s) \/ i - Len(s) \in 1 .. Len(t)
<1>1. PICK A : s \in Seq(A)
  BY ListedIs
<1>2. PICK B : t \in Seq(B)
  BY ListedIs
<1> DEFINE S == A \cup B
<1>3. s \in Seq(S) /\ t \in Seq(S)
  BY <1>1, <1>2, SeqMonotonic
<1> HIDE DEF S
<1>4. /\ s \o t \in Seq(S) /\ Len(s \o t) = Len(s) + Len(t)
      /\ \A i \in 1 .. Len(s) + Len(t) :
            (s \o t)[i] = IF i <= Len(s) THEN s[i] ELSE t[i - Len(s)]
      /\ Len(s) \in Nat /\ Len(t) \in Nat
  BY <1>3, ConcatProperties, LenProperties
<1>5. Listed(s \o t)
  BY <1>4, ListedIs
<1>6. /\ \A i \in 1 .. Len(s) : (s \o t)[i] = s[i]
      /\ \A i \in 1 .. Len(s) + Len(t) : i \in 1 .. Len(s) \/ i - Len(s) \in 1 .. Len(t)
  BY <1>4
<1>7. ASSUME NEW i \in 1 .. Len(t) PROVE (s \o t)[Len(s) + i] = t[i]
  <2>1. /\ Len(s) + i \in 1 .. Len(s) + Len(t) /\ ~(Len(s) + i <= Len(s))
        /\ (Len(s) + i) - Len(s) = i
    BY <1>4
  <2> QED BY <1>4, <2>1
<1> QED BY <1>4, <1>5, <1>6, <1>7

LEMMA EndingConcat ==
    ASSUME NEW s, NEW t, Ending(s), Ending(t)
    PROVE  Ending(s \o t)
<1> DEFINE u == s \o t
<1> DEFINE n == Len(s)
<1>1. Listed(s) /\ Listed(t)
  BY DEF Ending
<1>2. /\ Listed(u) /\ Len(u) = n + Len(t) /\ n \in Nat /\ Len(t) \in Nat
      /\ \A i \in 1 .. n : u[i] = s[i]
      /\ \A i \in 1 .. Len(t) : u[n + i] = t[i]
      /\ \A i \in 1 .. Len(u) : i \in 1 .. n \/ i - n \in 1 .. Len(t)
  BY <1>1, ListedConcat
<1> HIDE DEF u
<1>3. ASSUME NEW i \in 1 .. Len(u), u[i].op = "add"
      PROVE  \E j \in 1 .. Len(u) : i < j /\ u[j].op = "end"
  <2>1. CASE i \in 1 .. n
    <3>1. PICK j \in 1 .. n : i < j /\ s[j].op = "end"
      BY <1>2, <1>3, <2>1 DEF Ending
    <3> QED BY <1>2, <3>1
  <2>2. CASE i - n \in 1 .. Len(t)
    <3>1. n + (i - n) = i
      BY <1>2
    <3>2. t[i - n].op = "add"
      BY <1>2, <1>3, <2>2, <3>1
    <3>3. PICK j \in 1 .. Len(t) : i - n < j /\ t[j].op = "end"
      BY <2>2, <3>2 DEF Ending
    <3>4. n + j \in 1 .. Len(u) /\ i < n + j /\ u[n + j].op = "end"
      BY <1>2, <3>3
    <3> QED BY <3>4
  <2> QED BY <1>2, <2>1, <2>2
<1> QED BY <1>2, <1>3 DEF Ending, u

LEMMA SetLinesIs ==
    /\ \A v : SetLines(2, v) = <<Put(line(1), v), Put(line(2), v)>>
    /\ \A v : SetLines(3, v) = <<Put(line(1), v), Put(line(2), v), Put(line(3), v)>>
BY DEF SetLines

LEMMA SamplesEnd == \A p \in SampleNames : Ending(Sample[p].writer)
<1>1. Ending(hello_libpmem.writer)
  BY Steps DEF hello_libpmem, Program, Ending, Listed
<1>2. \A v : Ending(SetLines(2, v)) /\ Ending(SetLines(3, v))
  BY SetLinesIs, Steps DEF Ending, Listed
<1>3. Ending(hello_libpmemtest.writer)
  <2>1. Ending(<<PutAll([c \in {line(3), line(4)} |-> 1]), Abort, Persist({line(1)})>>)
    BY Steps DEF Ending, Listed
  <2> QED BY <1>2, <2>1, EndingConcat DEF hello_libpmemtest, Program
<1>4. Ending(libpmemtest.writer)
  <2>1. Ending(<<Put(text(1), 1), Put(text(2), 1), Put(text(3), 1),
      Persist({text(1)}), Persist({text(1)})>>)
    BY Steps DEF Ending, Listed
  <2>2. Ending(testfunc({text(2)})) /\ Ending(<<Persist({text(3)})>>)
    BY Steps DEF Ending, Listed, testfunc
  <2>3. Ending([i \in 1 .. 4 |-> Persist({text(1)})])
    BY Steps DEF Ending, Listed
  <2> QED BY <2>1, <2>2, <2>3, EndingConcat DEF libpmemtest, Program
<1>5. Ending(testprogram.writer)
  BY Steps DEF testprogram, Program, Ending, Listed
<1>6. Ending(hello_libpmemobj.writer) /\ hello_libpmemobjtest_safepm = hello_libpmemobj
  <2>1. Ending(<<Put(length, 1), Persist({length})>>)
    BY Steps DEF Ending, Listed
  <2>2. \A f : Ending(MemcpyPersist(f))
    BY Steps DEF Ending, Listed, MemcpyPersist
  <2>3. Ending(<<Close>>)
    BY Steps DEF Ending, Listed
  <2> QED BY <2>1, <2>2, <2>3, EndingConcat
          DEF hello_libpmemobj, Program, hello_libpmemobjtest_safepm
<1>7. Ending(hello_libpmemobjtest.writer) /\ Ending(hello_libpmemobjtest2.writer)
  <2>1. Ending(<<TX_BEGIN>>)
    BY Steps DEF Ending, Listed
  <2>2. Ending(<<TX_END(64)>>) /\ Ending(<<TX_END(62), Close>>)
    BY Steps DEF Ending, Listed
  <2>3. Ending(<<TX_BEGIN>> \o SetLines(3, 1))
    BY <1>2, <2>1, EndingConcat
  <2>4. Ending(<<TX_BEGIN>> \o SetLines(3, 1) \o <<TX_END(64)>>)
    BY <2>2, <2>3, EndingConcat
  <2>5. Ending(<<TX_BEGIN>> \o SetLines(3, 1) \o <<TX_END(62), Close>>)
    BY <2>2, <2>3, EndingConcat
  <2> QED BY <2>4, <2>5 DEF hello_libpmemobjtest, hello_libpmemobjtest2, Program
<1>8. Ending(hello_libpmemobjtest3.writer)
  <2> DEFINE s1 == <<Alloc, Put(data_oid, 1), Persist({data_oid})>>
  <2> DEFINE s2 == <<Persist(Lines(3)), TX_BEGIN, TX_ADD(Lines(3))>>
  <2> DEFINE s3 == <<TX_END(64), Abort>>
  <2> DEFINE e == s2 \o SetLines(3, 2) \o s3
  <2>1. Ending(s1)
    BY Steps DEF Ending, Listed
  <2>2. Ending(s1 \o SetLines(3, 1))
    <3> HIDE DEF s1
    <3> QED BY <1>2, <2>1, EndingConcat
  <2>3. Ending(e)
    BY Steps, SetLinesIs DEF Ending, Listed
  <2>4. hello_libpmemobjtest3.writer = (s1 \o SetLines(3, 1)) \o e
    BY SetLinesIs DEF hello_libpmemobjtest3, Program
  <2> HIDE DEF e, s1
  <2> QED BY <2>2, <2>3, <2>4, EndingConcat
<1>9. Ending(hello_libpmemobjtest3_alloc.writer)
  <2>1. Ending(<<Alloc, PutAll([c \in {line(1)} |-> 1]), Persist({line(1)}),
      PutAll([c \in {line(2)} |-> 1]), Persist({line(2)}),
      PutAll([c \in {line(3)} |-> 1]), Persist({line(3)}), TX_BEGIN>>)
    BY Steps DEF Ending, Listed
  <2>2. Ending(<<TX_END(61), Abort>>)
    BY Steps DEF Ending, Listed
  <2> QED BY <1>2, <2>1, <2>2, EndingConcat DEF hello_libpmemobjtest3_alloc, Program
<1>10. Ending(loop.writer)
  <2>1. \A v : Ending(OneRound(v))
    BY Steps DEF Ending, Listed, OneRound
  <2>2. Ending(<<Close>>)
    BY Steps DEF Ending, Listed
  <2> QED BY <2>1, <2>2, EndingConcat DEF loop, Program
<1>11. /\ Ending(hello_libpmemobjtest4.writer) /\ Ending(hello_libpmemobjtest4_safepm.writer)
       /\ Ending(hello_libpmemobjtest4_safepm_pw.writer)
  <2>1. Ending(Partners)
    BY Steps DEF Ending, Listed, Partners
  <2>2. Ending(<<Close>>) /\ Ending(<<Abort>>)
    BY Steps DEF Ending, Listed
  <2> QED BY <2>1, <2>2, EndingConcat
          DEF hello_libpmemobjtest4, hello_libpmemobjtest4_safepm,
              hello_libpmemobjtest4_safepm_pw, Program
<1>12. Ending(hello_libpmemobjtest5_safepm_pw.writer)
  BY Steps DEF Ending, Listed, hello_libpmemobjtest5_safepm_pw, Program
<1> QED
  BY <1>1, <1>3, <1>4, <1>5, <1>6, <1>7, <1>8, <1>9, <1>10, <1>11, <1>12
  DEF SampleNames, Sample

-----------------------------------------------------------------------------
(* The steps of the stores. *)

LEMMA Joined ==
    /\ \A a, b, c, d, e, f, g, h, i, j, k : LET s == <<a, b>> \o <<c, d, e>> \o <<f, g, h, i, j, k>> IN
          /\ Listed(s) /\ Len(s) = 11 /\ s[1] = a /\ s[2] = b /\ s[3] = c /\ s[4] = d /\ s[5] = e
          /\ s[6] = f /\ s[7] = g /\ s[8] = h /\ s[9] = i /\ s[10] = j /\ s[11] = k
    /\ \A a, b, c, d, e, f, g, h : LET s == <<a, b>> \o <<c, d, e>> \o <<f, g, h>> IN
          /\ Listed(s) /\ Len(s) = 8 /\ s[1] = a /\ s[2] = b /\ s[3] = c /\ s[4] = d /\ s[5] = e
          /\ s[6] = f /\ s[7] = g /\ s[8] = h
    /\ \A a, b, c, d, e, f, g : LET s == <<a, b>> \o <<c, d, e>> \o <<f, g>> IN
          /\ Listed(s) /\ Len(s) = 7 /\ s[1] = a /\ s[2] = b /\ s[3] = c /\ s[4] = d /\ s[5] = e
          /\ s[6] = f /\ s[7] = g
    /\ \A a, b, c, d : LET s == <<a>> \o <<>> \o <<b, c, d>> IN
          /\ Listed(s) /\ Len(s) = 4 /\ s[1] = a /\ s[2] = b /\ s[3] = c /\ s[4] = d
    /\ \A a, b, c, d, e, f : LET s == <<a>> \o <<b, c>> \o <<d, e, f>> IN
          /\ Listed(s) /\ Len(s) = 6 /\ s[1] = a /\ s[2] = b /\ s[3] = c /\ s[4] = d
          /\ s[5] = e /\ s[6] = f
    /\ \A a, b, c, d, e : LET s == <<a, b, c, d, e>> IN
          /\ Listed(s) /\ Len(s) = 5 /\ s[1] = a /\ s[2] = b /\ s[3] = c /\ s[4] = d
          /\ s[5] = e
    /\ \A a : LET s == <<a>> IN Listed(s) /\ Len(s) = 1 /\ s[1] = a
BY DEF Listed

(* What the stores write, step by step: first the steps of one slot, then *)
(* the rest.                                                              *)
Fills(s, mem, i, k, v) ==
    /\ s[3] = Put(keylen(i), Len(k)) /\ s[4] = Put(value(i), v)
    /\ s[5] = Put(key(i), Onto(k, mem[key(i)]))

Begins(s, C) == s[1] = TX_BEGIN /\ s[2] = TX_ADD(C)

LEMMA WritesAre ==
    ASSUME NEW mem, NEW i, NEW k, NEW v
    PROVE  /\ LET s == PmemKVS_write(mem, i, k, v) IN
              /\ Listed(s) /\ Len(s) = 11 /\ Begins(s, KVstruct) /\ Fills(s, mem, i, k, v)
              /\ s[6] = TX_END(48) /\ s[7] = TX_BEGIN /\ s[8] = TX_ADD(KVstruct)
              /\ s[9] = Put(number, i + 1) /\ s[10] = TX_END(53) /\ s[11] = Close
           /\ LET s == PmemKVS3_write(mem, i, k, v) IN
              /\ Listed(s) /\ Len(s) = 8 /\ Begins(s, {keylen(0), value(0)})
              /\ Fills(s, mem, i, k, v)
              /\ s[6] = Put(number, i + 1) /\ s[7] = TX_END(76) /\ s[8] = Close
           /\ LET s == PmemKVS4_write(mem, i, k, v) IN
              /\ Listed(s) /\ Len(s) = 8 /\ Begins(s, KVstruct) /\ Fills(s, mem, i, k, v)
              /\ s[6] = Put(number, i + 1) /\ s[7] = TX_END(135) /\ s[8] = Close
           /\ LET s == manipulate_data(mem, i, k, v) IN
              /\ Listed(s) /\ Len(s) = 7 /\ Begins(s, KVstruct) /\ Fills(s, mem, i, k, v)
              /\ s[6] = TX_END(186) /\ s[7] = Close
BY Joined DEF PmemKVS_write, PmemKVS3_write, PmemKVS4_write, manipulate_data,
   FillSlot, Begins, Fills

LEMMA NumberIs ==
    ASSUME NEW n
    PROVE  LET s == manipulate_number(n) IN
           /\ Listed(s) /\ Len(s) = 5 /\ Begins(s, KVstruct)
           /\ s[3] = Put(number, n) /\ s[4] = TX_END(218) /\ s[5] = Close
BY Joined, Zenon DEF manipulate_number, Begins

Moved(mem, i) == [c \in data(i) |-> mem[<<c[1], mem[number] - 1>>]]

LEMMA DeletionIs ==
    ASSUME NEW mem, NEW k, NEW at
    PROVE  LET s == Deletion(mem, k, at)
               i == First(mem, k) IN
           /\ Found(mem, k) = {} => Listed(s) /\ Len(s) = 1 /\ s[1] = Close
           /\ Found(mem, k) # {} /\ i = mem[number] - 1 =>
              /\ Listed(s) /\ Len(s) = 4 /\ s[1] = TX_BEGIN
              /\ s[2] = Put(number, mem[number] - 1) /\ s[3] = TX_END(at) /\ s[4] = Close
           /\ Found(mem, k) # {} /\ i # mem[number] - 1 =>
              /\ Listed(s) /\ Len(s) = 6 /\ Begins(s, KVstruct)
              /\ s[3] = PutAll(Moved(mem, i))
              /\ s[4] = Put(number, mem[number] - 1) /\ s[5] = TX_END(at) /\ s[6] = Close
<1> DEFINE i == First(mem, k)
<1> DEFINE t == <<Put(number, mem[number] - 1), TX_END(at), Close>>
<1>1. CASE Found(mem, k) = {}
  BY <1>1, Joined, Zenon DEF Deletion
<1>2. CASE Found(mem, k) # {} /\ i = mem[number] - 1
  <2>1. Deletion(mem, k, at) = <<TX_BEGIN>> \o <<>> \o t
    BY <1>2, Zenon DEF Deletion, MoveLast
  <2> QED BY <1>2, <2>1, Joined
<1>3. CASE Found(mem, k) # {} /\ i # mem[number] - 1
  <2>1. Deletion(mem, k, at) =
            <<TX_BEGIN>> \o <<TX_ADD(KVstruct), PutAll(Moved(mem, i))>> \o t
    BY <1>3, Zenon DEF Deletion, MoveLast, Moved
  <2> QED BY <1>3, <2>1, Joined DEF Begins
<1> QED BY <1>1, <1>2, <1>3

LEMMA ZeroFits ==
    /\ Fits(Cells(program))
    /\ IsStore => Cells(program) = ZeroStruct /\ Cells(program)[number] = 0
<1>1. CASE IsStore
  <2>1. Cells(program) = ZeroStruct
    BY <1>1 DEF Cells, IsStore
  <2>2. ZeroStruct[number] = 0
    BY CellsAre DEF ZeroStruct, number
  <2>3. Cells(program) = [c \in AllCells |-> Cells(program)[c]]
    BY <2>1 DEF AllCells, ZeroStruct
  <2> QED BY <2>1, <2>2, <2>3, StoreAssumption DEF Fits, Numbers
<1>2. CASE ~IsStore
  <2>1. Cells(program) = [c \in AllCells |-> Cells(program)[c]]
    BY <1>2 DEF AllCells, Cells, IsStore
  <2> QED BY <1>2, <2>1 DEF Fits, Numbers
<1> QED BY <1>1, <1>2

LEMMA PutIs ==
    ASSUME NEW c, NEW v
    PROVE  /\ Put(c, v).op = "store" /\ DOMAIN Put(c, v).to = {c} /\ Put(c, v).to[c] = v
           /\ c # number \/ v \in 0 .. MAX_STORE => Numbers(Put(c, v).to)
BY DEF Put, PutAll, Numbers

(* Programs write what fits.                                               *)
LEMMA FillsFit ==
    ASSUME IsStore, NEW mem, NEW i \in Slot, NEW k, NEW v
    PROVE  /\ CodeFits(PmemKVS_write(mem, i, k, v))
           /\ CodeFits(PmemKVS3_write(mem, i, k, v))
           /\ CodeFits(PmemKVS4_write(mem, i, k, v))
           /\ CodeFits(manipulate_data(mem, i, k, v))
<1>1. i + 1 \in 0 .. MAX_STORE /\ 0 \in Slot
  BY StoreAssumption DEF Slot
<1>2. {keylen(0), value(0)} \subseteq AllCells /\ KVstruct \subseteq AllCells
  BY <1>1, CellsAre, StoreCells
<1>3. \A s, C : Begins(s, C) => s[1].op = "begin" /\ s[2].op = "add" /\ s[2].cells = C
  BY Steps DEF Begins
<1>4. ASSUME NEW s, Fills(s, mem, i, k, v), NEW j \in 3 .. 5
      PROVE  s[j].op = "store" /\ Numbers(s[j].to)
  <2>1. keylen(i) # number /\ value(i) # number /\ key(i) # number
    BY CellsDiffer
  <2>2. j = 3 \/ j = 4 \/ j = 5
    OBVIOUS
  <2>3. \A c, w : c # number => Put(c, w).op = "store" /\ Numbers(Put(c, w).to)
    BY PutIs
  <2> QED BY <1>4, <2>1, <2>2, <2>3 DEF Fills
<1>5. ASSUME NEW s, NEW j, s[j] = Put(number, i + 1)
      PROVE  s[j].op = "store" /\ Numbers(s[j].to)
  <2>1. Put(number, i + 1).op = "store" /\ Numbers(Put(number, i + 1).to)
    BY <1>1, PutIs
  <2> QED BY <1>5, <2>1
<1>6. CodeFits(PmemKVS_write(mem, i, k, v))
  <2> DEFINE s == PmemKVS_write(mem, i, k, v)
  <2>1. /\ Listed(s) /\ Len(s) = 11 /\ Begins(s, KVstruct) /\ Fills(s, mem, i, k, v)
        /\ s[6].op = "end" /\ s[7].op = "begin" /\ s[8] = TX_ADD(KVstruct)
        /\ s[9] = Put(number, i + 1) /\ s[10].op = "end" /\ s[11].op = "close"
    BY WritesAre, Steps
  <2>2. s[8].op = "add" /\ s[8].cells = KVstruct
    BY <2>1, Steps
  <2> HIDE DEF s
  <2>3. \A j \in 1 .. Len(s) : StepFits(s, j)
    BY <1>2, <1>3, <1>4, <1>5, <2>1, <2>2 DEF StepFits
  <2> QED BY <2>1, <2>3 DEF CodeFits, s
<1>7. CodeFits(PmemKVS3_write(mem, i, k, v))
  <2> DEFINE s == PmemKVS3_write(mem, i, k, v)
  <2>1. /\ Listed(s) /\ Len(s) = 8 /\ Begins(s, {keylen(0), value(0)})
        /\ Fills(s, mem, i, k, v)
        /\ s[6] = Put(number, i + 1) /\ s[7] = TX_END(76) /\ s[8] = Close
    BY WritesAre
  <2>2. TX_END(76).op = "end" /\ Close.op = "close"
    BY Steps
  <2> HIDE DEF s
  <2>3. \A j \in 1 .. Len(s) : StepFits(s, j)
    BY <1>2, <1>3, <1>4, <1>5, <2>1, <2>2 DEF StepFits
  <2> QED BY <2>1, <2>3 DEF CodeFits, s
<1>8. CodeFits(PmemKVS4_write(mem, i, k, v))
  <2> DEFINE s == PmemKVS4_write(mem, i, k, v)
  <2>1. /\ Listed(s) /\ Len(s) = 8 /\ Begins(s, KVstruct) /\ Fills(s, mem, i, k, v)
        /\ s[6] = Put(number, i + 1) /\ s[7].op = "end" /\ s[8].op = "close"
    BY WritesAre, Steps
  <2> HIDE DEF s
  <2>3. \A j \in 1 .. Len(s) : StepFits(s, j)
    BY <1>2, <1>3, <1>4, <1>5, <2>1 DEF StepFits
  <2> QED BY <2>1, <2>3 DEF CodeFits, s
<1>9. CodeFits(manipulate_data(mem, i, k, v))
  <2> DEFINE s == manipulate_data(mem, i, k, v)
  <2>1. /\ Listed(s) /\ Len(s) = 7 /\ Begins(s, KVstruct) /\ Fills(s, mem, i, k, v)
        /\ s[6].op = "end" /\ s[7].op = "close"
    BY WritesAre, Steps
  <2> HIDE DEF s
  <2>3. \A j \in 1 .. Len(s) : StepFits(s, j)
    BY <1>2, <1>3, <1>4, <2>1 DEF StepFits
  <2> QED BY <2>1, <2>3 DEF CodeFits, s
<1> QED BY <1>6, <1>7, <1>8, <1>9

LEMMA NumberFits ==
    ASSUME IsStore, NEW n \in 0 .. MAX_STORE
    PROVE  CodeFits(manipulate_number(n))
<1>1. KVstruct \subseteq AllCells
  BY StoreCells
<1> DEFINE s == manipulate_number(n)
<1>2. /\ Listed(s) /\ Len(s) = 5 /\ s[1].op = "begin" /\ s[2].op = "add"
      /\ s[2].cells = KVstruct
      /\ s[3].op = "store" /\ Numbers(s[3].to) /\ s[4].op = "end" /\ s[5].op = "close"
  BY NumberIs, Steps, PutIs DEF Begins
<1> HIDE DEF s
<1>3. \A j \in 1 .. Len(s) : StepFits(s, j)
  BY <1>1, <1>2 DEF StepFits
<1> QED BY <1>2, <1>3 DEF CodeFits, s

LEMMA FoundIs ==
    ASSUME NEW mem, mem[number] \in 0 .. MAX_STORE, NEW k, Found(mem, k) # {}
    PROVE  /\ First(mem, k) \in Found(mem, k) /\ Found(mem, k) \subseteq Slot
           /\ \A j \in Found(mem, k) : First(mem, k) <= j
           /\ mem[number] \in 1 .. MAX_STORE
<1>1. Found(mem, k) \subseteq 0 .. mem[number] - 1
  BY DEF Found
<1>2. PICK m \in Found(mem, k) : \A j \in Found(mem, k) : m <= j
  <2>1. Found(mem, k) \subseteq Nat
    BY <1>1
  <2> QED BY <2>1, NatMin
<1>3. First(mem, k) \in Found(mem, k) /\ \A j \in Found(mem, k) : First(mem, k) <= j
  BY <1>2, Zenon DEF First
<1> QED BY <1>1, <1>3, StoreAssumption DEF Slot

LEMMA DeletionFits ==
    ASSUME IsStore, NEW mem, Fits(mem), NEW k, NEW at
    PROVE  CodeFits(Deletion(mem, k, at))
<1>1. KVstruct \subseteq AllCells /\ mem[number] \in 0 .. MAX_STORE
  BY StoreCells DEF Fits, Numbers
<1>2. \A i : Numbers(PutAll(Moved(mem, i)).to)
  BY Steps, CellsDiffer DEF Numbers, Moved, data
<1>3. Found(mem, k) # {} => Numbers(Put(number, mem[number] - 1).to)
  <2>1. Found(mem, k) # {} => mem[number] - 1 \in 0 .. MAX_STORE
    BY <1>1, FoundIs, StoreAssumption
  <2> QED BY <2>1, PutIs
<1> DEFINE s == Deletion(mem, k, at)
<1> DEFINE i == First(mem, k)
<1>4. CASE Found(mem, k) = {}
  <2>1. Listed(s) /\ Len(s) = 1 /\ s[1].op = "close"
    BY <1>4, DeletionIs, Steps
  <2> HIDE DEF s
  <2> QED BY <2>1 DEF CodeFits, StepFits, s
<1>5. CASE Found(mem, k) # {} /\ i = mem[number] - 1
  <2>1. /\ Listed(s) /\ Len(s) = 4 /\ s[1].op = "begin"
        /\ s[2] = Put(number, mem[number] - 1) /\ s[3].op = "end" /\ s[4].op = "close"
    BY <1>5, DeletionIs, Steps
  <2>2. s[2].op = "store" /\ Numbers(s[2].to)
    BY <1>3, <1>5, <2>1, PutIs
  <2> HIDE DEF s
  <2> QED BY <2>1, <2>2 DEF CodeFits, StepFits, s
<1>6. CASE Found(mem, k) # {} /\ i # mem[number] - 1
  <2>1. /\ Listed(s) /\ Len(s) = 6 /\ Begins(s, KVstruct)
        /\ s[3] = PutAll(Moved(mem, i))
        /\ s[4] = Put(number, mem[number] - 1) /\ s[5].op = "end" /\ s[6].op = "close"
    BY <1>6, DeletionIs, Steps
  <2>2. /\ s[3].op = "store" /\ Numbers(s[3].to) /\ s[4].op = "store" /\ Numbers(s[4].to)
        /\ s[1].op = "begin" /\ s[2].op = "add" /\ s[2].cells = KVstruct
    BY <1>2, <1>3, <1>6, <2>1, PutIs, Steps DEF Begins
  <2> HIDE DEF s
  <2> QED BY <1>1, <2>1, <2>2 DEF CodeFits, StepFits, s
<1> QED BY <1>4, <1>5, <1>6

LEMMA KnownCommands ==
    ASSUME IsStore, cmd \in CommandLines
    PROVE  /\ cmd \in Commands
           /\ cmd.name \in {"write", "read", "read_all", "read_id", "delete", "data", "number"}
           /\ program # "PmemKVS" => cmd.name # "data" /\ cmd.name # "number"
           /\ program \in {"PmemKVS", "PmemKVS3", "PmemKVS4"}
BY DEF CommandLines, IsStore, Stores, Knows, PmemKVS_main, PmemKVS3_main, PmemKVS4_main

LEMMA WritesFit ==
    ASSUME IsStore, cmd \in CommandLines, ~ReadsOnly(cmd), NEW mem, Fits(mem),
           cmd.name = "write" => NextSlot(mem, created) \in Slot,
           cmd.name = "number" => cmd.number <= mem[number]
    PROVE  CodeFits(Writes(program, cmd, mem, created))
<1>1. /\ cmd \in Commands /\ cmd.name \in {"write", "delete", "data", "number"}
      /\ program \in {"PmemKVS", "PmemKVS3", "PmemKVS4"}
      /\ mem[number] \in 0 .. MAX_STORE
  BY KnownCommands, StoreCells DEF ReadsOnly, Fits, Numbers
<1>2. CASE cmd.name = "write"
  BY <1>1, <1>2, FillsFit DEF Writes, write_KVS
<1>3. CASE cmd.name = "delete"
  BY <1>1, <1>3, DeletionFits DEF Writes, delete_KVS, PmemKVS_delete, PmemKVS3_delete,
     PmemKVS4_delete
<1>4. CASE cmd.name = "data"
  <2>1. cmd.id \in Slot
    BY <1>1, <1>4, CommandsAssumption DEF Slot
  <2> QED BY <1>4, <2>1, FillsFit DEF Writes
<1>5. CASE cmd.name = "number"
  <2>1. cmd.number \in 0 .. MAX_STORE
    BY <1>1, <1>5, CommandsAssumption, StoreAssumption
  <2> QED BY <1>5, <2>1, NumberFits DEF Writes
<1> QED BY <1>1, <1>2, <1>3, <1>4, <1>5

LEMMA SampleFits ==
    ASSUME ~IsStore, program \in Programs
    PROVE  CodeFits(Sample[program].writer)
<1>1. program \in SampleNames /\ AllCells = SampleCells(program)
  BY ProgramsAssumption DEF IsStore, AllCells, Cells
<1> DEFINE w == Sample[program].writer
<1>2. Ending(w)
  BY <1>1, SamplesEnd
<1> HIDE DEF w
<1>3. ASSUME NEW i \in 1 .. Len(w), w[i].op = "add" PROVE w[i].cells \subseteq CellsOf(w)
  BY <1>3 DEF CellsOf
<1>4. CellsOf(w) \subseteq AllCells
  BY <1>1 DEF SampleCells, w
<1>5. \A i \in 1 .. Len(w) : StepFits(w, i)
  BY <1>2, <1>3, <1>4 DEF Ending, StepFits, Numbers
<1> QED BY <1>2, <1>5 DEF Ending, CodeFits, w

LEMMA CloseFits == CodeFits(<<Close>>)
BY Joined, Steps DEF CodeFits, StepFits

-----------------------------------------------------------------------------
(* The types. *)

(* A file that is not complete, or that this run has just made, holds      *)
(* zeros; no process has it open before it is complete.                    *)
Fresh == cache = Cells(program) /\ medium = cache /\ log = Nothing

FileInv ==
    /\ program \in Programs /\ phase \in {"idle", "opening", "running", "segv"}
    /\ pool \in {"none", "partial", "whole"} /\ c_flag \in 0 .. 2
    /\ log # Nothing => pool = "whole"
    /\ pool # "whole" => phase # "running"
    /\ pool # "whole" \/ (created /\ phase = "opening") => Fresh

CommandInv ==
    /\ phase # "running" => code = <<>>
    /\ phase \in {"opening", "running"} => cmd \in CommandLines
    /\ phase = "opening" => Legal(cmd)

TypeInv == FilterInv /\ PoolFits /\ FileInv /\ CommandInv

LEMMA TypeInvOK ==
    ASSUME TypeInv PROVE ProgramTypeOK
<1>1. /\ DOMAIN cache = AllCells /\ DOMAIN medium = AllCells
      /\ DOMAIN log \subseteq AllCells
  BY DEF TypeInv, PoolFits, Fits, LogFits
<1>2. IsStore => cache[number] \in 0 .. MAX_STORE
  BY <1>1, StoreCells DEF TypeInv, PoolFits, Fits, Numbers
<1> QED BY <1>1, <1>2, Zenon DEF TypeInv, FilterInv, FileInv, ProgramTypeOK, AllCells

LEMMA TypeInit ==
    ASSUME Init PROVE TypeInv
<1>1. /\ program \in Programs /\ pool = "none" /\ cache = Cells(program)
      /\ medium = cache /\ log = Nothing /\ code = <<>> /\ c_flag = 0 /\ phase = "idle"
  BY DEF Init
<1>2. PoolFits
  BY <1>1, ZeroFits, OfNothing, EmptyFits DEF PoolFits, LogFits
<1> QED BY <1>1, <1>2, FilterInit DEF TypeInv, FileInv, CommandInv, Fresh

(* Steps of the process at work, and of its exit.                          *)
LEMMA FlagStep ==
    ASSUME c_flag \in 0 .. 2, PoolStep PROVE c_flag' \in 0 .. 2
BY DEF PoolStep, Store, PersistRange, AllocObject, TxBegin, TxAdd, TxAddFails, TxCommit,
   TxProcess, TxEnd, ClosePool, filter, CountTxProcess, Counts

LEMMA PoolOf ==
    ASSUME PoolStep PROVE pool' = pool
BY DEF PoolStep, Store, PersistRange, AllocObject, TxBegin, TxAdd, TxAddFails, TxCommit,
   TxProcess, TxEnd, ClosePool

LEMMA EvictIs ==
    ASSUME PoolFits, Evict, program' = program
    PROVE  /\ \E c \in AllCells : medium[c] # cache[c]
           /\ \A c \in AllCells : medium'[c] = medium[c] \/ medium'[c] = cache[c]
           /\ medium' = [c \in AllCells |-> medium'[c]]
           /\ Numbers(medium)'
<1>1. PICK c \in DOMAIN medium : medium[c] # cache[c] /\ medium' = [medium EXCEPT ![c] = cache[c]]
  BY DEF Evict
<1>2. DOMAIN medium = AllCells /\ DOMAIN cache = AllCells /\ IsStore' = IsStore
  BY DEF PoolFits, Fits, IsStore
<1> QED BY <1>1, <1>2, StoreCells DEF PoolFits, Fits, Numbers

LEMMA Recovering ==
    /\ log = Nothing /\ PoolFits => Recovered(cache) = cache /\ Recovered(medium) = medium
    /\ Durable = Recovered(medium)
BY OfNothing DEF Recovered, Durable, PoolFits

LEMMA TypeStep ==
    ASSUME TypeInv, [Next]_vars PROVE TypeInv'
<1> USE DEF TypeInv
<1>0. UNCHANGED program
  BY DEF Next, vars, now, Start, Create, Complete, CannotOpen, OpenToRead, ReaderDies,
     OpenToWrite, Work, Aborts, Exit, WriteBack, Killed, PowerFails, Dies
<1>1. FilterInv'
  BY StepsOfPool, FilterStep, OutsideCalls DEF poolvars
<1>2. AllCells' = AllCells /\ IsStore' = IsStore /\ Cells(program)' = Cells(program)
      /\ CommandLines' = CommandLines
  BY <1>0 DEF AllCells, IsStore, Cells, CommandLines
<1>3. UNCHANGED <<cache, medium, log, code>> => PoolFits'
  BY <1>2 DEF PoolFits, Fits, Numbers, LogFits, CodeFits, StepFits
<1>4. UNCHANGED <<cache, medium, log>> /\ code' = <<>> => PoolFits'
  BY <1>2, EmptyFits DEF PoolFits, Fits, Numbers, LogFits, CodeFits, StepFits
<1>5. UNCHANGED <<cache, medium, log>> => (Fresh => Fresh')
  BY <1>2 DEF Fresh
<1>6. UNCHANGED <<cache, log, cmd>> => (Legal(cmd) => Legal(cmd)')
  BY DEF Legal, Recovered
<1>7. CASE UNCHANGED vars
  <2>1. UNCHANGED <<pool, cache, medium, log, code, c_flag, phase, cmd, created>>
    BY <1>7 DEF vars, poolvars, contents, filter, now
  <2> QED BY <1>0, <1>1, <1>2, <1>3, <1>5, <1>6, <2>1 DEF FileInv, CommandInv
<1>8. ASSUME NEW c \in CommandLines, Start(c) PROVE TypeInv'
  <2>1. /\ UNCHANGED <<pool, cache, medium, log, code, c_flag>>
        /\ phase' = "opening" /\ cmd' = c /\ created' = FALSE /\ Legal(c)
        /\ phase # "running"
    BY <1>8 DEF Start, poolvars, contents, filter
  <2>2. Legal(cmd)'
    BY <2>1 DEF Legal, Recovered
  <2>3. FileInv'
    BY <1>0, <1>5, <2>1 DEF FileInv
  <2>4. CommandInv'
    BY <1>2, <1>8, <2>1, <2>2 DEF CommandInv
  <2> QED BY <1>1, <1>3, <2>1, <2>3, <2>4
<1>9. CASE Create
  <2>1. /\ UNCHANGED <<cache, medium, log, code, c_flag, phase, cmd>>
        /\ pool = "none" /\ pool' = "partial" /\ phase = "opening"
    BY <1>9 DEF Create, CreateFile, contents, filter
  <2>2. FileInv'
    BY <1>0, <1>5, <2>1 DEF FileInv
  <2> QED BY <1>1, <1>2, <1>3, <1>6, <2>1, <2>2 DEF CommandInv
<1>10. CASE Complete
  <2>1. /\ UNCHANGED <<cache, medium, log, code, c_flag, phase, cmd, created>>
        /\ pool = "partial" /\ pool' = "whole" /\ phase = "opening"
    BY <1>10 DEF Complete, FinishFile, contents, filter, now
  <2>2. FileInv'
    BY <1>0, <1>5, <2>1 DEF FileInv
  <2> QED BY <1>1, <1>2, <1>3, <1>6, <2>1, <2>2 DEF CommandInv
<1>11. CASE CannotOpen
  <2>1. /\ UNCHANGED <<pool, cache, medium, log, code, c_flag, cmd, created>>
        /\ phase' = "idle" /\ phase = "opening"
    BY <1>11 DEF CannotOpen, poolvars, contents, filter
  <2>2. FileInv'
    BY <1>0, <1>5, <2>1 DEF FileInv
  <2> QED BY <1>1, <1>2, <1>3, <2>1, <2>2 DEF CommandInv
<1>12. ASSUME NEW steps, OpenPool(steps), CodeFits(steps), phase = "opening",
              phase' = "running" \/ (phase' = "segv" /\ steps = <<>>), UNCHANGED cmd
       PROVE  TypeInv'
  <2>1. /\ pool = "whole" /\ pool' = "whole" /\ c_flag' = 0 /\ log' = Nothing
        /\ code' = steps
    BY <1>12 DEF OpenPool
  <2>2. PoolFits'
    BY <1>0, <1>12, OpenFits
  <2>3. FileInv'
    BY <1>0, <1>12, <2>1 DEF FileInv
  <2>4. CommandInv'
    BY <1>2, <1>12, <2>1 DEF CommandInv
  <2> QED BY <1>1, <2>2, <2>3, <2>4
<1>13. CASE OpenToRead
  BY <1>12, <1>13, CloseFits DEF OpenToRead, Opening
<1>14. CASE ReaderDies
  BY <1>12, <1>14, EmptyFits DEF ReaderDies, Opening
<1>15. CASE OpenToWrite
  <2> DEFINE mem == Recovered(cache)
  <2>1. phase = "opening" /\ cmd \in CommandLines /\ Legal(cmd) /\ ~Reading
    BY <1>15 DEF OpenToWrite, Opening, CommandInv
  <2>2. Fits(mem)
    BY RecoveryFits
  <2>3. ASSUME IsStore PROVE CodeFits(Writes(program, cmd, mem, created))
    <3>1. ~ReadsOnly(cmd)
      BY <2>1, <2>3 DEF Reading
    <3>2. number \in DOMAIN mem /\ mem[number] \in 0 .. MAX_STORE
      BY <2>2, <2>3, StoreCells DEF Fits, Numbers
    <3>3. cmd.name = "write" => NextSlot(mem, created) \in Slot
      BY <2>1, <3>2, StoreAssumption DEF Legal, NextSlot, Slot
    <3>4. cmd.name = "number" => cmd.number <= mem[number]
      BY <2>1 DEF Legal
    <3> HIDE DEF mem
    <3> QED BY <2>1, <2>2, <2>3, <3>1, <3>3, <3>4, WritesFit
  <2>4. ~IsStore => CodeFits(Sample[program].writer)
    BY SampleFits DEF FileInv
  <2> DEFINE steps == IF IsStore THEN Writes(program, cmd, mem, created)
                      ELSE Sample[program].writer
  <2>5. OpenPool(steps) /\ phase' = "running" /\ UNCHANGED cmd
    BY <1>15 DEF OpenToWrite
  <2>6. CodeFits(steps)
    BY <2>3, <2>4
  <2> HIDE DEF steps
  <2> QED BY <1>12, <2>1, <2>5, <2>6
<1>16. CASE Work
  <2>1. /\ PoolStep /\ phase = "running" /\ UNCHANGED <<phase, cmd, created>>
        /\ pool' = pool /\ c_flag' \in 0 .. 2
    BY <1>16, FlagStep, PoolOf DEF Work, now, FileInv
  <2>2. PoolFits'
    BY <1>0, <2>1, PoolStepFits
  <2>3. FileInv'
    BY <1>0, <2>1 DEF FileInv
  <2>4. CommandInv'
    BY <1>2, <2>1 DEF CommandInv
  <2> QED BY <1>1, <2>2, <2>3, <2>4
<1>17. CASE Aborts \/ Exit
  <2>1. /\ UNCHANGED <<pool, cache, medium, log, c_flag, created>>
        /\ code' = <<>> /\ phase' = "idle" /\ phase = "running"
    BY <1>17 DEF Aborts, AbortHere, Exit, poolvars, contents, filter
  <2>2. FileInv'
    BY <1>0, <1>5, <2>1 DEF FileInv
  <2> QED BY <1>1, <1>4, <2>1, <2>2 DEF CommandInv
<1>18. CASE WriteBack
  <2>1. UNCHANGED <<pool, cache, log, code, c_flag, phase, cmd, created>> /\ Evict
    BY <1>18 DEF WriteBack, Evict, filter, now
  <2>2. ~Fresh
    BY <1>0, <2>1, EvictIs DEF Fresh
  <2>3. PoolFits'
    BY <1>0, <1>2, <2>1, EvictIs DEF PoolFits, Fits, Numbers, LogFits, CodeFits, StepFits
  <2>4. FileInv'
    BY <1>0, <2>1, <2>2 DEF FileInv
  <2> QED BY <1>1, <1>2, <1>6, <2>1, <2>3, <2>4 DEF CommandInv
<1>19. CASE Killed
  <2>1. /\ UNCHANGED <<pool, cache, medium, log, c_flag, created>>
        /\ code' = <<>> /\ phase' = "idle"
    BY <1>19 DEF Killed, Kill, Dies, contents, filter
  <2>2. FileInv'
    BY <1>0, <1>5, <2>1 DEF FileInv
  <2> QED BY <1>1, <1>4, <2>1, <2>2 DEF CommandInv
<1>20. CASE PowerFails
  <2>1. /\ UNCHANGED <<pool, medium, log, c_flag, created>>
        /\ cache' = medium /\ code' = <<>> /\ phase' = "idle"
    BY <1>20 DEF PowerFails, PowerFail, Dies, contents, filter
  <2>2. FileInv'
    BY <1>0, <1>2, <2>1 DEF FileInv, Fresh
  <2>3. PoolFits'
    BY <1>2, <2>1, EmptyFits DEF PoolFits, Fits, Numbers, LogFits, CodeFits, StepFits
  <2> QED BY <1>1, <2>1, <2>2, <2>3 DEF CommandInv
<1> QED
  BY <1>7, <1>8, <1>9, <1>10, <1>11, <1>13, <1>14, <1>15, <1>16, <1>17, <1>18, <1>19,
     <1>20 DEF Next

LEMMA TypeInvariant == Spec => []TypeInv
<1>1. TypeInv /\ [Next]_vars => TypeInv'
  BY TypeStep
<1> QED BY TypeInit, <1>1, PTL DEF Spec

(* Whatever any of the programs is told to do, and wherever it is killed:  *)
(* a cell keeps its kind, only a complete file has an undo log, and number *)
(* stays within the array, unless a write or -mn asks for more (Legal),    *)
(* which no command tests (PmemKVS.c:43, :217).                            *)
THEOREM ProgramsWellTyped == Spec => []ProgramTypeOK
<1>1. TypeInv => ProgramTypeOK
  BY TypeInvOK
<1> QED BY TypeInvariant, <1>1, PTL

-----------------------------------------------------------------------------
(* The object of hello_libpmemobjtest3.c. *)

Steps3 == hello_libpmemobjtest3.writer

LEMMA Steps3Are ==
    /\ Listed(Steps3) /\ Len(Steps3) = 14
    /\ Steps3[1] = Alloc /\ Steps3[2] = Put(data_oid, 1) /\ Steps3[3] = Persist({data_oid})
    /\ \A i \in 1 .. 3 : Steps3[3 + i] = Put(line(i), 1)
    /\ Steps3[7] = Persist(Lines(3)) /\ Steps3[8] = TX_BEGIN /\ Steps3[9] = TX_ADD(Lines(3))
    /\ \A i \in 1 .. 3 : Steps3[9 + i] = Put(line(i), 2)
    /\ Steps3[13] = TX_END(64) /\ Steps3[14] = Abort
<1>1. \A a, b, c, d, e, f, g, h, i, j, k, l, m, n :
         LET s == <<a, b, c>> \o <<d, e, f>> \o <<g, h, i>> \o <<j, k, l>> \o <<m, n>> IN
         /\ Listed(s) /\ Len(s) = 14 /\ s[1] = a /\ s[2] = b /\ s[3] = c
         /\ s[4] = d /\ s[5] = e /\ s[6] = f /\ s[7] = g /\ s[8] = h /\ s[9] = i
         /\ s[10] = j /\ s[11] = k /\ s[12] = l /\ s[13] = m /\ s[14] = n
  BY DEF Listed
<1>2. Steps3 = <<Alloc, Put(data_oid, 1), Persist({data_oid})>>
               \o <<Put(line(1), 1), Put(line(2), 1), Put(line(3), 1)>>
               \o <<Persist(Lines(3)), TX_BEGIN, TX_ADD(Lines(3))>>
               \o <<Put(line(1), 2), Put(line(2), 2), Put(line(3), 2)>>
               \o <<TX_END(64), Abort>>
  BY SetLinesIs, Zenon DEF Steps3, hello_libpmemobjtest3, Program
<1>3. /\ Listed(Steps3) /\ Len(Steps3) = 14
      /\ Steps3[1] = Alloc /\ Steps3[2] = Put(data_oid, 1) /\ Steps3[3] = Persist({data_oid})
      /\ Steps3[4] = Put(line(1), 1) /\ Steps3[5] = Put(line(2), 1)
      /\ Steps3[6] = Put(line(3), 1)
      /\ Steps3[7] = Persist(Lines(3)) /\ Steps3[8] = TX_BEGIN /\ Steps3[9] = TX_ADD(Lines(3))
      /\ Steps3[10] = Put(line(1), 2) /\ Steps3[11] = Put(line(2), 2)
      /\ Steps3[12] = Put(line(3), 2) /\ Steps3[13] = TX_END(64) /\ Steps3[14] = Abort
  BY <1>1, <1>2
<1>4. ASSUME NEW i \in 1 .. 3
      PROVE  Steps3[3 + i] = Put(line(i), 1) /\ Steps3[9 + i] = Put(line(i), 2)
  BY <1>3
<1> QED BY <1>3, <1>4, Zenon

(* k steps from the end of the writer.                                      *)
At(k) == /\ Listed(code) /\ Len(code) = 15 - k
         /\ \A i \in 1 .. 15 - k : code[i] = Steps3[k + i - 1]

LEMMA NextStep ==
    ASSUME NEW k \in 1 .. 14, At(k)
    PROVE  /\ code # <<>> /\ Head(code) = Steps3[k] /\ code[1] = Steps3[k] /\ Len(code) \in Nat
           /\ k < 14 /\ code' = Tail(code) => At(k + 1)'
<1>1. Listed(code) /\ Len(code) = 15 - k /\ 1 \in 1 .. 15 - k /\ Len(code) # 0
  BY DEF At
<1>2. code # <<>>
  BY <1>1, EmptySeq
<1>3. code[1] = Steps3[k]
  BY <1>1 DEF At
<1> DEFINE u == Tail(code)
<1>4. /\ Head(code) = code[1] /\ Listed(u) /\ Len(u) = Len(code) - 1 /\ Len(code) \in Nat
      /\ \A i \in 1 .. Len(code) - 1 : u[i] = code[i + 1]
  BY <1>1, <1>2, Popped
<1> HIDE DEF u
<1>5. ASSUME k < 14, code' = u PROVE At(k + 1)'
  <2>1. Len(u) = 15 - (k + 1)
    BY <1>1, <1>4
  <2>2. ASSUME NEW i \in 1 .. 15 - (k + 1) PROVE u[i] = Steps3[k + 1 + i - 1]
    <3>1. i \in 1 .. Len(code) - 1 /\ i + 1 \in 1 .. 15 - k /\ k + (i + 1) - 1 = k + 1 + i - 1
      BY <1>1
    <3>2. code[i + 1] = Steps3[k + (i + 1) - 1]
      BY <3>1 DEF At
    <3> QED BY <1>4, <3>1, <3>2
  <2> QED BY <1>4, <1>5, <2>1, <2>2 DEF At
<1> QED BY <1>2, <1>3, <1>4, <1>5 DEF u

Alone == program = "hello_libpmemobjtest3"

LEMMA AloneCells ==
    ASSUME Alone
    PROVE  /\ ~IsStore /\ data_oid \in AllCells /\ Lines(3) = {line(1), line(2), line(3)}
           /\ \A i \in 1 .. 3 : line(i) \in AllCells /\ line(i) # data_oid /\ line(i) \in Lines(3)
           /\ \A i, j \in 1 .. 3 : line(i) = line(j) => i = j
           /\ Sample[program].writer = Steps3 /\ Sample[program].made = "absent"
           /\ CommandLines = {[name |-> "run"]}
<1>1. ~IsStore
  BY DEF Alone, IsStore, Stores
<1>2. Sample[program] = hello_libpmemobjtest3 /\ hello_libpmemobjtest3.made = "absent"
  BY DEF Alone, Sample, hello_libpmemobjtest3, Program
<1>3. AllCells = CellsOf(Steps3) \cup {data_oid}
  BY <1>1, <1>2, Zenon DEF AllCells, Cells, IsStore, SampleCells, Alone, Steps3
<1>4. ASSUME NEW i \in 1 .. 3 PROVE line(i) \in CellsOf(Steps3)
  <2>1. 3 + i \in 1 .. Len(Steps3) /\ Steps3[3 + i] = Put(line(i), 1)
    BY Steps3Are
  <2>2. Steps3[3 + i].op = "store" /\ line(i) \in DOMAIN Steps3[3 + i].to
    BY <2>1 DEF Put, PutAll
  <2>3. line(i) \in CASE Steps3[3 + i].op = "store" -> DOMAIN Steps3[3 + i].to
                      [] Steps3[3 + i].op \in {"add", "persist"} -> Steps3[3 + i].cells
                      [] OTHER -> {}
    BY <2>2
  <2> HIDE <2>2
  <2> QED BY <2>1, <2>3 DEF CellsOf
<1>5. \A i \in 1 .. 3 : line(i) # data_oid
  BY DEF line, data_oid
<1>6. \A i, j \in 1 .. 3 : line(i) = line(j) => i = j
  BY DEF line
<1>7. Lines(3) = {line(1), line(2), line(3)} /\ \A i \in 1 .. 3 : line(i) \in Lines(3)
  BY DEF Lines
<1> QED BY <1>1, <1>2, <1>3, <1>4, <1>5, <1>6, <1>7 DEF Steps3, CommandLines

(* The transaction has begun, in this run or an earlier one.               *)
Settled ==
    /\ data_oid \notin DOMAIN log /\ cache[data_oid] = 1 /\ medium[data_oid] = 1
    /\ log # Nothing => \A i \in 1 .. 3 : line(i) \in DOMAIN log /\ log[line(i)] = 1
    /\ log = Nothing => \E v \in {1, 2} :
          \A i \in 1 .. 3 : cache[line(i)] = v /\ medium[line(i)] = v

(* Step k is next: of the setting up, or of the transaction.               *)
SettingUp(k) ==
    /\ ~ready /\ stage = "NONE"
    /\ k > 2 => cache[data_oid] = 1
    /\ k > 3 => medium[data_oid] = 1
    /\ \A i \in 1 .. 3 : k > 3 + i => cache[line(i)] = 1
    /\ k = 8 => \A i \in 1 .. 3 : medium[line(i)] = 1

Changing(k) ==
    /\ ready
    /\ k < 13 => stage = "WORK"
    /\ k = 9 => log = Nothing /\ \A i \in 1 .. 3 : cache[line(i)] = 1
    /\ k \in 10 .. 12 => log # Nothing
    /\ \A i \in 1 .. 3 : k > 9 + i /\ log # Nothing => cache[line(i)] = 2
    /\ k = 13 => (stage = "WORK" <=> log # Nothing)
    /\ k = 14 => log = Nothing

Working(k) ==
    At(k) /\ ((k \in 1 .. 8 /\ SettingUp(k)) \/ (k \in 9 .. 14 /\ Changing(k)))

Kept3 == (ready => Settled) /\ (~ready => log = Nothing)

ObjInv == Alone =>
    /\ Kept3
    /\ phase = "running" => code = <<>> \/ code = <<Close>> \/ \E k : Working(k)

LEMMA OverlayAt ==
    /\ \A f, g : \A c \in DOMAIN g : Overlay(f, g)[c] = IF c \in DOMAIN f THEN f[c] ELSE g[c]
    /\ \A f, g : DOMAIN Overlay(f, g) = DOMAIN g
BY DEF Overlay

LEMMA OpsOf ==
    /\ Steps3[1].op = "alloc" /\ Steps3[8].op = "begin" /\ Steps3[9].op = "add"
    /\ Steps3[9].cells = Lines(3) /\ Steps3[13].op = "end" /\ Steps3[14].op = "abort"
    /\ Steps3[2].op = "store" /\ Steps3[2].to = [x \in {data_oid} |-> 1]
    /\ Steps3[3].op = "persist" /\ Steps3[3].cells = {data_oid}
    /\ Steps3[7].op = "persist" /\ Steps3[7].cells = Lines(3)
    /\ \A i \in 1 .. 3 :
          /\ Steps3[3 + i].op = "store" /\ Steps3[3 + i].to = [x \in {line(i)} |-> 1]
          /\ Steps3[9 + i].op = "store" /\ Steps3[9 + i].to = [x \in {line(i)} |-> 2]
<1>1. /\ Steps3[1].op = "alloc" /\ Steps3[8].op = "begin" /\ Steps3[9].op = "add"
      /\ Steps3[9].cells = Lines(3) /\ Steps3[13].op = "end" /\ Steps3[14].op = "abort"
  BY Steps3Are, Steps
<1>2. Steps3[2].op = "store" /\ Steps3[2].to = [x \in {data_oid} |-> 1]
  BY Steps3Are DEF Put, PutAll
<1>3. /\ Steps3[3].op = "persist" /\ Steps3[3].cells = {data_oid}
      /\ Steps3[7].op = "persist" /\ Steps3[7].cells = Lines(3)
  BY Steps3Are, Steps
<1>4. ASSUME NEW i \in 1 .. 3
      PROVE  /\ Steps3[3 + i].op = "store" /\ Steps3[3 + i].to = [x \in {line(i)} |-> 1]
             /\ Steps3[9 + i].op = "store" /\ Steps3[9 + i].to = [x \in {line(i)} |-> 2]
  <2>1. Steps3[3 + i] = Put(line(i), 1) /\ Steps3[9 + i] = Put(line(i), 2)
    BY Steps3Are
  <2> QED BY <2>1 DEF Put, PutAll
<1> QED BY <1>1, <1>2, <1>3, <1>4

LEMMA WhichOp ==
    ASSUME NEW k \in 1 .. 14
    PROVE  /\ Steps3[k].op = "alloc" <=> k = 1
           /\ Steps3[k].op = "store" <=> k \in {2, 4, 5, 6, 10, 11, 12}
           /\ Steps3[k].op = "persist" <=> k \in {3, 7}
           /\ Steps3[k].op = "begin" <=> k = 8
           /\ Steps3[k].op = "add" <=> k = 9
           /\ Steps3[k].op = "end" <=> k = 13
           /\ Steps3[k].op = "abort" <=> k = 14
           /\ Steps3[k].op # "close"
<1>1. /\ Steps3[3 + 1].op = "store" /\ Steps3[3 + 2].op = "store" /\ Steps3[3 + 3].op = "store"
      /\ Steps3[9 + 1].op = "store" /\ Steps3[9 + 2].op = "store" /\ Steps3[9 + 3].op = "store"
  BY OpsOf
<1>2. /\ Steps3[4].op = "store" /\ Steps3[5].op = "store" /\ Steps3[6].op = "store"
      /\ Steps3[10].op = "store" /\ Steps3[11].op = "store" /\ Steps3[12].op = "store"
  BY <1>1
<1>3. \/ k = 1 \/ k = 2 \/ k = 3 \/ k = 4 \/ k = 5 \/ k = 6 \/ k = 7 \/ k = 8 \/ k = 9
      \/ k = 10 \/ k = 11 \/ k = 12 \/ k = 13 \/ k = 14
  OBVIOUS
<1> QED BY <1>2, <1>3, OpsOf

LEMMA ObjCells ==
    ASSUME Alone, PoolFits
    PROVE  /\ DOMAIN cache = AllCells /\ DOMAIN medium = AllCells
           /\ data_oid \in AllCells /\ \A i \in 1 .. 3 : line(i) \in AllCells
           /\ \A i \in 1 .. 3 : line(i) # data_oid
           /\ \A i, j \in 1 .. 3 : line(i) = line(j) => i = j
           /\ \A i \in 1 .. 3 : line(i) \in Lines(3)
           /\ data_oid \notin Lines(3)
           /\ DOMAIN Nothing = {}
BY AloneCells, OfNothing DEF PoolFits, Fits

LEMMA ObjHead ==
    ASSUME NEW k, Working(k), NEW op, Doing(op)
    PROVE  /\ k \in 1 .. 14 /\ Steps3[k].op = op /\ Head(code) = Steps3[k]
           /\ k < 14 /\ Rest => At(k + 1)'
           /\ Doing("begin") => op = "begin"
BY NextStep DEF Working, Doing, Rest

(* One cell is stored to.                                                  *)
LEMMA PutCell ==
    ASSUME Alone, PoolFits, Store, NEW c \in AllCells, NEW v,
           Head(code).to = [x \in {c} |-> v]
    PROVE  cache'[c] = v /\ \A d \in AllCells : d # c => cache'[d] = cache[d]
BY ObjCells, OverlayAt DEF Store

LEMMA ObjStore ==
    ASSUME Alone, PoolFits, Kept3, NEW k, Working(k), Store, ready' <=> ready \/ Doing("begin"), UNCHANGED program
    PROVE  Kept3' /\ Working(k + 1)'
<1> USE DEF Kept3
<1>1. /\ Doing("store") /\ Rest /\ UNCHANGED <<medium, log, stage>>
      /\ cache' = Overlay(Head(code).to, cache)
  BY DEF Store
<1>2. /\ k \in {2, 4, 5, 6, 10, 11, 12} /\ Head(code) = Steps3[k] /\ At(k + 1)'
      /\ ~Doing("begin") /\ k + 1 \in 1 .. 14
  BY <1>1, ObjHead, WhichOp
<1>3. /\ ready' <=> ready
      /\ (k \in 1 .. 8 /\ ~ready /\ SettingUp(k)) \/ (k \in 9 .. 14 /\ ready /\ Changing(k))
  BY <1>2, Zenon DEF Working, SettingUp, Changing
<1>4. CASE k = 2
  <2>1. Head(code).to = [x \in {data_oid} |-> 1]
    BY <1>2, <1>4, OpsOf
  <2>2. cache'[data_oid] = 1
    BY <2>1, ObjCells, PutCell
  <2>4. ~ready /\ SettingUp(2)
    BY <1>3, <1>4
  <2>3. SettingUp(3)'
    BY <1>1, <1>3, <2>2, <2>4 DEF SettingUp
  <2> QED BY <1>1, <1>2, <1>3, <1>4, <2>3, <2>4 DEF Working
<1>5. ASSUME NEW i \in 1 .. 3, k = 3 + i PROVE SettingUp(k + 1)' /\ ~ready /\ k < 8
  <2>1. Head(code).to = [x \in {line(i)} |-> 1]
    BY <1>2, <1>5, OpsOf
  <2>2. cache'[line(i)] = 1 /\ \A d \in AllCells : d # line(i) => cache'[d] = cache[d]
    <3>1. line(i) \in AllCells
      BY ObjCells
    <3> QED BY <2>1, <3>1, PutCell
  <2>3. cache'[data_oid] = cache[data_oid] /\ \A j \in 1 .. 3 : j # i => cache'[line(j)] = cache[line(j)]
    BY <2>2, ObjCells
  <2>4. SettingUp(k) /\ ~ready /\ k \in 4 .. 6
    <3>1. k \in 4 .. 6 /\ k \notin 9 .. 14
      BY <1>5
    <3> QED BY <1>3, <3>1, Zenon
  <2>5. \A j \in 1 .. 3 : k + 1 > 3 + j => cache'[line(j)] = 1
    BY <1>5, <2>2, <2>3, <2>4 DEF SettingUp
  <2>6. (k + 1 = 8) = FALSE
    BY <2>4
  <2> QED BY <1>1, <1>3, <2>3, <2>4, <2>5, <2>6 DEF SettingUp
<1>6. ASSUME NEW i \in 1 .. 3, k = 9 + i PROVE Changing(k + 1)' /\ Settled' /\ ready /\ k > 8
  <2>1. Head(code).to = [x \in {line(i)} |-> 2]
    BY <1>2, <1>6, OpsOf
  <2>2. cache'[line(i)] = 2 /\ \A d \in AllCells : d # line(i) => cache'[d] = cache[d]
    <3>1. line(i) \in AllCells
      BY ObjCells
    <3> QED BY <2>1, <3>1, PutCell
  <2>3. cache'[data_oid] = cache[data_oid] /\ \A j \in 1 .. 3 : j # i => cache'[line(j)] = cache[line(j)]
    BY <2>2, ObjCells
  <2>4. Changing(k) /\ ready /\ k \in 10 .. 12 /\ log # Nothing /\ stage = "WORK"
    <3>1. k \in 10 .. 12 /\ k \notin 1 .. 8 /\ k < 13
      BY <1>6
    <3> QED BY <1>3, <3>1, Zenon DEF Changing
  <2>5. \A j \in 1 .. 3 : k + 1 > 9 + j => cache'[line(j)] = 2
    BY <1>6, <2>2, <2>3, <2>4 DEF Changing
  <2>6. Changing(k + 1)'
    BY <1>1, <1>3, <2>4, <2>5 DEF Changing
  <2>7. Settled'
    BY <1>1, <2>3, <2>4 DEF Settled
  <2> QED BY <2>4, <2>6, <2>7
<1>7. k = 2 \/ (\E i \in 1 .. 3 : k = 3 + i) \/ \E i \in 1 .. 3 : k = 9 + i
  <2>1. 4 = 3 + 1 /\ 5 = 3 + 2 /\ 6 = 3 + 3 /\ 10 = 9 + 1 /\ 11 = 9 + 2 /\ 12 = 9 + 3
    OBVIOUS
  <2>2. 1 \in 1 .. 3 /\ 2 \in 1 .. 3 /\ 3 \in 1 .. 3
    OBVIOUS
  <2> QED BY <1>2, <2>1, <2>2, Zenon
<1>8. CASE \E i \in 1 .. 3 : k = 3 + i
  <2>1. SettingUp(k + 1)' /\ ~ready /\ k < 8
    BY <1>5, <1>8
  <2>2. k + 1 \in 1 .. 8
    BY <1>2, <2>1
  <2> QED BY <1>1, <1>2, <1>3, <2>1, <2>2 DEF Working
<1>9. CASE \E i \in 1 .. 3 : k = 9 + i
  <2>1. Changing(k + 1)' /\ Settled' /\ ready /\ k > 8
    BY <1>6, <1>9
  <2>2. k + 1 \in 9 .. 14
    BY <1>2, <2>1
  <2> QED BY <1>1, <1>2, <1>3, <2>1, <2>2 DEF Working
<1> QED BY <1>4, <1>7, <1>8, <1>9

LEMMA WhereWorking ==
    ASSUME NEW k, Working(k)
    PROVE  \/ k \in 1 .. 8 /\ ~ready /\ SettingUp(k) /\ ~Changing(k)
           \/ k \in 9 .. 14 /\ ready /\ Changing(k)
BY Zenon DEF Working, SettingUp, Changing

LEMMA ObjAlloc ==
    ASSUME Kept3, NEW k, Working(k), AllocObject, ready' <=> ready \/ Doing("begin")
    PROVE  Kept3' /\ Working(k + 1)'
<1>1. /\ Doing("alloc") /\ Rest /\ UNCHANGED <<cache, medium, log, stage>>
  BY DEF AllocObject, contents
<1>2. k = 1 /\ At(k + 1)' /\ ~Doing("begin")
  BY <1>1, ObjHead, WhichOp
<1>3. k \notin 9 .. 14 /\ k + 1 \in 1 .. 8
  BY <1>2
<1>4. ~ready /\ SettingUp(k) /\ ~ready'
  BY <1>2, <1>3, WhereWorking, Zenon
<1>5. SettingUp(k + 1)'
  BY <1>1, <1>2, <1>4 DEF SettingUp
<1>6. log' = log
  BY <1>1
<1>7. log' = Nothing
  BY <1>4, <1>6, Zenon DEF Kept3
<1>8. Kept3'
  BY <1>4, <1>7, Zenon DEF Kept3
<1>9. Working(k + 1)'
  <2>1. At(k + 1)'
    BY <1>2
  <2>2. (k + 1 \in 1 .. 8 /\ SettingUp(k + 1))'
    BY <1>3, <1>5
  <2> QED BY <2>1, <2>2, Zenon DEF Working
<1> QED BY <1>8, <1>9

LEMMA ObjPersist ==
    ASSUME Alone, PoolFits, Kept3, NEW k, Working(k), PersistRange,
           ready' <=> ready \/ Doing("begin")
    PROVE  Kept3' /\ Working(k + 1)'
<1>1. /\ Doing("persist") /\ Rest /\ UNCHANGED <<cache, log, stage>>
      /\ medium' = Overlay(Part(cache, Head(code).cells), medium)
  BY DEF PersistRange
<1>2. k \in {3, 7} /\ Head(code) = Steps3[k] /\ At(k + 1)' /\ ~Doing("begin")
  BY <1>1, ObjHead, WhichOp
<1>3. ~ready /\ SettingUp(k) /\ ~ready'
  <2>1. k \notin 9 .. 14
    BY <1>2
  <2> QED BY <1>2, <2>1, WhereWorking, Zenon
<1>4. \A C : \A c \in AllCells : DOMAIN Part(cache, C) = C /\ (c \in C => Part(cache, C)[c] = cache[c])
  BY DEF Part
<1>5. \A c \in AllCells : medium'[c] = IF c \in Head(code).cells THEN cache[c] ELSE medium[c]
  BY <1>1, <1>4, ObjCells, OverlayAt
<1>6. SettingUp(k + 1)'
  <2>1. CASE k = 3
    <3>1. Head(code).cells = {data_oid}
      BY <1>2, <2>1, OpsOf
    <3>2. medium'[data_oid] = cache[data_oid]
      BY <1>5, <3>1, ObjCells
    <3> QED BY <1>1, <1>3, <2>1, <3>2 DEF SettingUp
  <2>2. CASE k = 7
    <3>1. Head(code).cells = Lines(3)
      BY <1>2, <2>2, OpsOf
    <3>2. \A i \in 1 .. 3 : medium'[line(i)] = cache[line(i)]
      BY <1>5, <3>1, ObjCells
    <3>3. medium'[data_oid] = medium[data_oid]
      BY <1>5, <3>1, ObjCells
    <3>4. \A i \in 1 .. 3 : cache[line(i)] = 1
      BY <1>3, <2>2 DEF SettingUp
    <3> QED BY <1>1, <1>3, <2>2, <3>2, <3>3, <3>4 DEF SettingUp
  <2> QED BY <1>2, <2>1, <2>2
<1>7. k + 1 \in 1 .. 8
  BY <1>2
<1>8. log' = log
  BY <1>1
<1>9. log' = Nothing
  BY <1>3, <1>8, Zenon DEF Kept3
<1>10. Kept3'
  BY <1>3, <1>9, Zenon DEF Kept3
<1> QED BY <1>2, <1>6, <1>7, <1>10 DEF Working

LEMMA ObjBegin ==
    ASSUME Alone, PoolFits, Kept3, NEW k, Working(k), TxBegin,
           ready' <=> ready \/ Doing("begin")
    PROVE  Kept3' /\ Working(k + 1)'
<1>1. Doing("begin") /\ Rest /\ UNCHANGED <<cache, medium, log>> /\ stage' = "WORK"
  BY DEF TxBegin, contents
<1>2. k = 8 /\ At(k + 1)'
  BY <1>1, ObjHead, WhichOp
<1>7. k \notin 9 .. 14 /\ k + 1 \in 9 .. 14 /\ k + 1 = 9
  BY <1>2
<1>3. ~ready /\ SettingUp(8) /\ ready' /\ log = Nothing
  BY <1>1, <1>2, <1>7, WhereWorking, Zenon DEF Kept3
<1>4. /\ cache[data_oid] = 1 /\ medium[data_oid] = 1
      /\ \A i \in 1 .. 3 : cache[line(i)] = 1 /\ medium[line(i)] = 1
  BY <1>3 DEF SettingUp
<1>5. Changing(9)'
  BY <1>1, <1>3, <1>4 DEF Changing
<1>6. Settled'
  BY <1>1, <1>3, <1>4, OfNothing DEF Settled
<1> QED BY <1>2, <1>3, <1>5, <1>6, <1>7, Zenon DEF Working, Kept3

LEMMA ObjAdd ==
    ASSUME Alone, PoolFits, Kept3, NEW k, Working(k), TxAdd,
           ready' <=> ready \/ Doing("begin")
    PROVE  Kept3' /\ Working(k + 1)'
<1>1. /\ Doing("add") /\ Rest /\ UNCHANGED <<cache, medium, stage>>
      /\ log' = Logged(Head(code).cells) /\ stage = "WORK"
  BY DEF TxAdd
<1>2. k = 9 /\ At(k + 1)' /\ Head(code).cells = Lines(3) /\ ~Doing("begin")
  BY <1>1, ObjHead, WhichOp, OpsOf
<1>8. k \notin 1 .. 8 /\ k + 1 \in 9 .. 14 /\ k + 1 = 10
  BY <1>2
<1>3. ready /\ Changing(9) /\ ready' /\ log = Nothing /\ Settled
  BY <1>2, <1>8, WhereWorking, Zenon DEF Kept3, Changing
<1>4. /\ DOMAIN log' = Lines(3) /\ \A c \in Lines(3) : log'[c] = cache[c]
  BY <1>1, <1>2, <1>3, OfNothing DEF Logged
<1>5. /\ log' # Nothing /\ data_oid \notin DOMAIN log'
      /\ \A i \in 1 .. 3 : line(i) \in DOMAIN log' /\ log'[line(i)] = 1
  <2>1. \A i \in 1 .. 3 : cache[line(i)] = 1
    BY <1>3 DEF Changing
  <2>2. line(1) \in DOMAIN log'
    BY <1>4, ObjCells
  <2> QED BY <1>4, <2>1, <2>2, ObjCells
<1>6. Changing(10)'
  <2>1. \A i \in 1 .. 3 : ~(10 > 9 + i)
    OBVIOUS
  <2> QED BY <1>1, <1>3, <1>5, <2>1 DEF Changing
<1>7. Settled'
  BY <1>1, <1>3, <1>5 DEF Settled
<1> QED BY <1>2, <1>3, <1>6, <1>7, <1>8, Zenon DEF Working, Kept3

LEMMA ObjAddFails ==
    ASSUME Alone, PoolFits, Kept3, NEW k, Working(k), TxAddFails,
           ready' <=> ready \/ Doing("begin")
    PROVE  Kept3' /\ Working(13)'
<1>1. /\ Doing("add") /\ stage' = "ONABORT" /\ log' = Nothing
      /\ cache' = Overlay(log, cache) /\ medium' = Overlay(log, medium)
      /\ code' = SubSeq(code, NextEnd, Len(code))
  BY DEF TxAddFails
<1>2. k = 9
  BY <1>1, ObjHead, WhichOp
<1>9. k \notin 1 .. 8 /\ 13 \in 9 .. 14
  BY <1>2
<1>3. ready /\ Changing(9) /\ ready' /\ log = Nothing /\ Settled /\ At(9)
  BY <1>2, <1>9, WhereWorking, Zenon DEF Kept3, Changing, Working
<1>4. cache' = cache /\ medium' = medium
  BY <1>1, <1>3, OfNothing DEF PoolFits
<1>5. NextEnd = 5
  <2>1. Len(code) = 6 /\ \A i \in 1 .. 6 : code[i] = Steps3[9 + i - 1]
    BY <1>3 DEF At
  <2>2. code[5] = Steps3[13]
    BY <2>1
  <2>3. code[5].op = "end" /\ 5 \in 1 .. Len(code) /\ Len(code) \in Nat
    BY <2>1, <2>2, OpsOf
  <2>4. NextEnd \in 1 .. 6 /\ code[NextEnd].op = "end"
    BY <2>1, <2>3, NextEndIs
  <2>5. Steps3[9 + NextEnd - 1].op = "end" /\ 9 + NextEnd - 1 \in 1 .. 14
    BY <2>1, <2>4
  <2>6. 9 + NextEnd - 1 = 13
    BY <2>5, WhichOp
  <2> QED BY <2>4, <2>6
<1>6. At(13)'
  <2> DEFINE u == SubSeq(code, 5, Len(code))
  <2>1. Listed(code) /\ Len(code) = 6 /\ 5 \in 1 .. Len(code) /\ \A i \in 1 .. 6 : code[i] = Steps3[9 + i - 1]
    BY <1>3 DEF At
  <2>5. Listed(code) /\ 5 \in 1 .. Len(code)
    BY <2>1
  <2>2. Listed(u) /\ Len(u) = Len(code) - 5 + 1 /\ \A i \in 1 .. Len(u) : u[i] = code[5 + i - 1]
    BY <2>5, Dropped
  <2>3. code' = u
    BY <1>1, <1>5
  <2> HIDE DEF u
  <2>4. Len(u) = 15 - 13 /\ \A i \in 1 .. 15 - 13 : u[i] = Steps3[13 + i - 1]
    <3>1. Len(u) = 2
      BY <2>1, <2>2
    <3>7. 1 \in 1 .. Len(u) /\ 2 \in 1 .. Len(u)
      BY <3>1
    <3>2. u[1] = code[5 + 1 - 1] /\ u[2] = code[5 + 2 - 1]
      BY <2>2, <3>7, Zenon
    <3>6. 5 + 1 - 1 = 5 /\ 5 + 2 - 1 = 6
      OBVIOUS
    <3>3. code[5] = Steps3[13] /\ code[6] = Steps3[14]
      BY <2>1
    <3>4. \A i \in 1 .. 15 - 13 : i = 1 \/ i = 2
      OBVIOUS
    <3>5. Steps3[13 + 1 - 1] = Steps3[13] /\ Steps3[13 + 2 - 1] = Steps3[14]
      OBVIOUS
    <3> QED BY <3>1, <3>2, <3>3, <3>4, <3>5, <3>6
  <2> QED BY <2>2, <2>3, <2>4 DEF At
<1>7. Changing(13)'
  BY <1>1, <1>3 DEF Changing
<1>8. Settled'
  BY <1>1, <1>3, <1>4 DEF Settled
<1> QED BY <1>3, <1>6, <1>7, <1>8, <1>9, Zenon DEF Working, Kept3

(* The commit writes the new lines back before it drops the log.           *)
LEMMA ObjCommit ==
    ASSUME Alone, PoolFits, Kept3, NEW k, Working(k), TxCommit,
           ready' <=> ready \/ Doing("begin")
    PROVE  Kept3' /\ Working(k)'
<1>1. /\ Doing("end") /\ UNCHANGED <<cache, code>> /\ stage' = "ONCOMMIT" /\ stage = "WORK"
      /\ medium' = Overlay(Part(cache, DOMAIN log), medium) /\ log' = Nothing
  BY DEF TxCommit
<1>2. k = 13 /\ At(13) /\ ~Doing("begin")
  BY <1>1, ObjHead, WhichOp DEF Working
<1>3. k \notin 1 .. 8 /\ k \in 9 .. 14
  BY <1>2
<1>4. ready /\ Changing(13) /\ Settled /\ ready'
  BY <1>2, <1>3, WhereWorking, Zenon DEF Kept3
<1>5. log # Nothing /\ \A i \in 1 .. 3 : cache[line(i)] = 2 /\ line(i) \in DOMAIN log
  BY <1>1, <1>4 DEF Changing, Settled
<1>6. /\ cache[data_oid] = 1 /\ medium[data_oid] = 1 /\ data_oid \notin DOMAIN log
  BY <1>4 DEF Settled
<1>7. DOMAIN Part(cache, DOMAIN log) = DOMAIN log
      /\ \A c \in DOMAIN log : Part(cache, DOMAIN log)[c] = cache[c]
  BY DEF Part
<1>8. \A c \in AllCells : medium'[c] = IF c \in DOMAIN log THEN cache[c] ELSE medium[c]
  BY <1>1, <1>7, ObjCells, OverlayAt
<1>9. medium'[data_oid] = 1 /\ \A i \in 1 .. 3 : medium'[line(i)] = 2
  BY <1>5, <1>6, <1>8, ObjCells
<1>10. Settled'
  BY <1>1, <1>5, <1>6, <1>9, OfNothing DEF Settled
<1>11. Changing(13)'
  BY <1>1, <1>4 DEF Changing
<1>12. At(13)'
  BY <1>1, <1>2 DEF At
<1> QED BY <1>2, <1>3, <1>4, <1>10, <1>11, <1>12, Zenon DEF Working, Kept3

LEMMA ObjProcess ==
    ASSUME Alone, PoolFits, Kept3, NEW k, Working(k), TxProcess,
           ready' <=> ready \/ Doing("begin")
    PROVE  Kept3' /\ Working(k)'
<1>1. /\ Doing("end") /\ UNCHANGED <<cache, medium, log, code>>
      /\ stage # "WORK" /\ stage' # "WORK"
  BY DEF TxProcess, contents
<1>2. k = 13 /\ At(13) /\ ~Doing("begin")
  BY <1>1, ObjHead, WhichOp DEF Working
<1>3. k \notin 1 .. 8 /\ k \in 9 .. 14
  BY <1>2
<1>4. ready /\ Changing(13) /\ Settled /\ ready'
  BY <1>2, <1>3, WhereWorking, Zenon DEF Kept3
<1>5. Settled'
  BY <1>1, <1>4 DEF Settled
<1>6. Changing(13)'
  BY <1>1, <1>4 DEF Changing
<1>7. At(13)'
  BY <1>1, <1>2 DEF At
<1> QED BY <1>2, <1>3, <1>4, <1>5, <1>6, <1>7, Zenon DEF Working, Kept3

LEMMA ObjEnd ==
    ASSUME Alone, PoolFits, Kept3, NEW k, Working(k), TxEnd,
           ready' <=> ready \/ Doing("begin")
    PROVE  Kept3' /\ Working(k + 1)'
<1>1. Doing("end") /\ Rest /\ UNCHANGED <<cache, medium, log, stage>> /\ stage = "NONE"
  BY DEF TxEnd, contents
<1>2. k = 13 /\ At(k + 1)' /\ ~Doing("begin")
  BY <1>1, ObjHead, WhichOp
<1>3. k \notin 1 .. 8 /\ k + 1 \in 9 .. 14 /\ k + 1 = 14
  BY <1>2
<1>4. ready /\ Changing(13) /\ Settled /\ ready'
  BY <1>2, <1>3, WhereWorking, Zenon DEF Kept3
<1>5. Settled'
  BY <1>1, <1>4 DEF Settled
<1>6. Changing(14)'
  BY <1>1, <1>4 DEF Changing
<1> QED BY <1>2, <1>3, <1>4, <1>5, <1>6, Zenon DEF Working, Kept3

LEMMA ObjWork ==
    ASSUME Alone, PoolFits, Kept3, PoolStep, ready' <=> ready \/ Doing("begin"),
           code = <<>> \/ code = <<Close>> \/ \E k : Working(k), UNCHANGED program
    PROVE  Kept3' /\ (code' = <<>> \/ \E k : Working(k)')
<1>1. code # <<>>
  BY Zenon DEF PoolStep, Store, PersistRange, AllocObject, TxBegin, TxAdd, TxAddFails, TxCommit,
     TxProcess, TxEnd, ClosePool, Doing
<1>2. CASE code = <<Close>>
  <2>1. Doing("close") /\ Head(code).op = "close" /\ Tail(code) = <<>>
    BY <1>2, Steps DEF Doing
  <2>2. ClosePool /\ ~Doing("begin")
    BY <2>1 DEF PoolStep, Store, PersistRange, AllocObject, TxBegin, TxAdd, TxAddFails, TxCommit,
       TxProcess, TxEnd, Doing
  <2>3. code' = <<>> /\ UNCHANGED <<cache, medium, log>>
    BY <2>1, <2>2 DEF ClosePool, Rest, contents
  <2>4. ready' <=> ready
    BY <2>2
  <2>5. Settled => Settled'
    BY <2>3 DEF Settled
  <2> QED BY <2>3, <2>4, <2>5 DEF Kept3
<1>3. ASSUME NEW k, Working(k) PROVE Kept3' /\ \E j : Working(j)'
  <2>1. ~ClosePool
    <3>1. Doing("close") => k \in 1 .. 14 /\ Steps3[k].op = "close"
      BY <1>3, ObjHead
    <3> QED BY <3>1, WhichOp DEF ClosePool
  <2> QED BY <1>3, <2>1, ObjStore, ObjPersist, ObjAlloc, ObjBegin, ObjAdd, ObjAddFails, ObjCommit,
             ObjProcess, ObjEnd, Zenon DEF PoolStep
<1> QED BY <1>1, <1>2, <1>3

(* Recovery gives the lines the values they had.                           *)
LEMMA ObjOpen ==
    ASSUME Alone, PoolFits, Kept3, NEW steps, OpenPool(steps), ready' <=> ready
    PROVE  Kept3'
<1>1. /\ log' = Nothing
      /\ \A c \in AllCells : /\ cache'[c] = IF c \in DOMAIN log THEN log[c] ELSE cache[c]
                             /\ medium'[c] = IF c \in DOMAIN log THEN log[c] ELSE medium[c]
  BY ObjCells, OverlayAt DEF OpenPool, Recovered
<1>2. ASSUME ready PROVE Settled'
  <2>1. Settled
    BY <1>2 DEF Kept3
  <2>2. CASE log = Nothing
    BY <1>1, <2>1, <2>2, ObjCells DEF Settled
  <2>3. CASE log # Nothing
    BY <1>1, <2>1, <2>3, ObjCells DEF Settled
  <2> QED BY <2>2, <2>3
<1> QED BY <1>1, <1>2 DEF Kept3

LEMMA ObjStart ==
    ASSUME Alone, NEW steps, OpenPool(steps), steps = Steps3, ~ready'
    PROVE  Working(1)'
<1>1. code' = Steps3 /\ stage' = "NONE"
  BY DEF OpenPool
<1>2. At(1)'
  BY <1>1, Steps3Are DEF At
<1>3. SettingUp(1)'
  BY <1>1 DEF SettingUp
<1> QED BY <1>2, <1>3 DEF Working

(* A line is written back.                                                 *)
LEMMA ObjEvict ==
    ASSUME Alone, PoolFits, Kept3, Evict, UNCHANGED <<program, ready>>
    PROVE  Kept3' /\ \A k : Working(k) => Working(k)'
<1>1. /\ UNCHANGED <<cache, log, code, stage, ready>>
      /\ \A c \in AllCells : medium'[c] = medium[c] \/ medium'[c] = cache[c]
  BY EvictIs DEF Evict
<1>2. Settled => Settled'
  BY <1>1, ObjCells DEF Settled
<1>3. ASSUME NEW k, k \in 1 .. 8, SettingUp(k) PROVE SettingUp(k)'
  <2>1. k > 3 => medium'[data_oid] = 1
    BY <1>1, <1>3, ObjCells DEF SettingUp
  <2>2. k = 8 => \A i \in 1 .. 3 : medium'[line(i)] = 1
    BY <1>1, <1>3, ObjCells DEF SettingUp
  <2> QED BY <1>1, <1>3, <2>1, <2>2 DEF SettingUp
<1>4. \A k : Changing(k) => Changing(k)'
  BY <1>1 DEF Changing
<1>5. \A k : At(k) => At(k)'
  BY <1>1 DEF At
<1> QED BY <1>1, <1>2, <1>3, <1>4, <1>5 DEF Working, Kept3

LEMMA ObjInit ==
    ASSUME Init PROVE ObjInv
BY DEF Init, ObjInv, Kept3

LEMMA ObjStep ==
    ASSUME TypeInv, ObjInv, [Next]_vars PROVE ObjInv'
<1>0. UNCHANGED program
  BY DEF Next, vars, now, Start, Create, Complete, CannotOpen, OpenToRead, ReaderDies,
     OpenToWrite, Work, Aborts, Exit, WriteBack, Killed, PowerFails, Dies
<1> SUFFICES ASSUME Alone
             PROVE  Kept3' /\ (phase' = "running" => \/ code' = <<>> \/ code' = <<Close>>
                                                     \/ \E k : Working(k)')
  BY <1>0 DEF ObjInv, Alone
<1>1. PoolFits /\ Kept3
      /\ (phase = "running" => code = <<>> \/ code = <<Close>> \/ \E k : Working(k))
  BY DEF TypeInv, ObjInv
<1>2. UNCHANGED <<cache, medium, log, ready>> => Kept3'
  BY <1>1 DEF Kept3, Settled
<1>3. UNCHANGED <<cache, medium, log, code, stage, ready>> => \A k : Working(k) => Working(k)'
  BY DEF Working, At, SettingUp, Changing
<1>4. CASE UNCHANGED vars
  <2>1. UNCHANGED <<cache, medium, log, code, stage, ready, phase>>
    BY <1>4 DEF vars, poolvars, contents, now, past
  <2> QED BY <1>1, <1>2, <1>3, <2>1
<1>5. CASE \/ \E c \in CommandLines : Start(c)
           \/ Create \/ Complete \/ CannotOpen \/ Aborts \/ Exit \/ Killed
  <2>1. UNCHANGED <<cache, medium, log, ready>> /\ phase' # "running"
    BY <1>5 DEF Start, Create, Complete, CannotOpen, Aborts, Exit, Killed, Dies, CreateFile,
       FinishFile, AbortHere, Kill, poolvars, contents, now, past
  <2> QED BY <1>2, <2>1
<1>6. CASE OpenToRead \/ ReaderDies
  <2>1. PICK steps \in {<<Close>>, <<>>} : OpenPool(steps)
    BY <1>6 DEF OpenToRead, ReaderDies
  <2>2. UNCHANGED ready /\ code' = steps
    BY <1>6, <2>1 DEF OpenToRead, ReaderDies, past, OpenPool
  <2> QED BY <1>1, <2>1, <2>2, ObjOpen
<1>7. CASE OpenToWrite
  <2>1. phase = "opening" /\ cmd \in CommandLines /\ ~Reading
    BY <1>7 DEF OpenToWrite, Opening, TypeInv, CommandInv
  <2>2. cmd.name = "run" /\ created
    BY <2>1, AloneCells DEF Reading
  <2>3. Fresh
    BY <2>1, <2>2 DEF TypeInv, FileInv
  <2>4. cache[data_oid] = 0
    BY <2>3, AloneCells DEF Fresh, Cells, AllCells, IsStore
  <2>5. ~ready /\ UNCHANGED ready
    BY <1>1, <1>7, <2>4 DEF Kept3, Settled, OpenToWrite, past
  <2>6. OpenPool(Steps3)
    BY <1>7, AloneCells DEF OpenToWrite
  <2>7. Kept3'
    BY <1>1, <2>5, <2>6, ObjOpen
  <2>8. Working(1)'
    BY <2>5, <2>6, ObjStart
  <2> QED BY <2>7, <2>8
<1>8. CASE Work
  <2>1. PoolStep /\ (ready' <=> ready \/ Doing("begin")) /\ phase = "running"
    BY <1>8 DEF Work
  <2> QED BY <1>0, <1>1, <2>1, ObjWork
<1>9. CASE WriteBack
  <2>1. Evict /\ UNCHANGED <<program, ready, phase, code>>
    BY <1>9 DEF WriteBack, Evict, now, past
  <2> QED BY <1>1, <2>1, ObjEvict
<1>10. CASE PowerFails
  <2>1. /\ UNCHANGED <<medium, log, ready>> /\ cache' = medium /\ phase' # "running"
    BY <1>10 DEF PowerFails, PowerFail, Dies
  <2>2. Kept3'
    BY <1>1, <2>1 DEF Kept3, Settled
  <2> QED BY <2>1, <2>2
<1> QED BY <1>4, <1>5, <1>6, <1>7, <1>8, <1>9, <1>10 DEF Next

LEMMA ObjWhole ==
    ASSUME TypeInv, ObjInv PROVE ObjectIsWhole
<1> SUFFICES ASSUME Alone, ready
             PROVE  /\ ~ReaderFaults(program, Durable)
                    /\ \E v \in {1, 2} : \A i \in 1 .. 3 : Durable[line(i)] = v
  BY DEF ObjectIsWhole, Alone
<1>1. Settled /\ PoolFits
  BY DEF ObjInv, Kept3, TypeInv
<1>2. \A c \in AllCells : Durable[c] = IF c \in DOMAIN log THEN log[c] ELSE medium[c]
  BY <1>1, ObjCells, OverlayAt DEF Durable
<1>3. Durable[data_oid] = 1
  BY <1>1, <1>2, ObjCells DEF Settled
<1>4. ~ReaderFaults(program, Durable)
  BY <1>3 DEF Alone, ReaderFaults, hello_libpmemobjtest3_faults
<1>5. \E v \in {1, 2} : \A i \in 1 .. 3 : Durable[line(i)] = v
  <2>1. CASE log = Nothing
    BY <1>1, <1>2, <2>1, ObjCells DEF Settled
  <2>2. CASE log # Nothing
    BY <1>1, <1>2, <2>2, ObjCells DEF Settled
  <2> QED BY <2>1, <2>2
<1> QED BY <1>4, <1>5

(* hello_libpmemobjtest3.c, killed anywhere and however often: once its    *)
(* transaction has begun, a power failure leaves an object that is reached *)
(* from the root and whose lines are all old or all new.                   *)
THEOREM ObjectStaysWhole == Spec => []ObjectIsWhole
<1>1. ObjInv /\ TypeInv /\ [Next]_vars => ObjInv'
  BY ObjStep
<1>2. TypeInv /\ ObjInv => ObjectIsWhole
  BY ObjWhole
<1> QED BY ObjInit, TypeInvariant, <1>1, <1>2, PTL DEF Spec

-----------------------------------------------------------------------------
(* What the samples leave loose: those that abort first. *)

Aborting == {"hello_libpmemtest", "hello_libpmemobjtest3", "hello_libpmemobjtest3_alloc",
             "hello_libpmemobjtest4", "hello_libpmemobjtest4_safepm",
             "hello_libpmemobjtest5_safepm_pw"}

AbortAhead(s) == \E i \in 1 .. Len(s) :
    s[i].op = "abort" /\ \A j \in 1 .. Len(s) : i <= j => s[j].op # "end"

LEMMA AbortConcat ==
    ASSUME NEW s, NEW t, Listed(s), Listed(t), AbortAhead(t)
    PROVE  AbortAhead(s \o t)
<1> DEFINE u == s \o t
<1> DEFINE n == Len(s)
<1>1. /\ Len(u) = n + Len(t) /\ n \in Nat /\ Len(t) \in Nat
      /\ \A i \in 1 .. Len(t) : u[n + i] = t[i]
      /\ \A i \in 1 .. Len(u) : i \in 1 .. n \/ i - n \in 1 .. Len(t)
  BY ListedConcat
<1>2. PICK i \in 1 .. Len(t) :
         t[i].op = "abort" /\ \A j \in 1 .. Len(t) : i <= j => t[j].op # "end"
  BY DEF AbortAhead
<1> HIDE DEF u, n
<1>3. n + i \in 1 .. Len(u) /\ u[n + i].op = "abort"
  BY <1>1, <1>2
<1>4. ASSUME NEW j \in 1 .. Len(u), n + i <= j PROVE u[j].op # "end"
  <2>1. j - n \in 1 .. Len(t) /\ i <= j - n /\ n + (j - n) = j
    BY <1>1, <1>4
  <2> QED BY <1>1, <1>2, <2>1
<1> QED BY <1>3, <1>4 DEF AbortAhead, u

LEMMA AbortWriters == \A p \in Aborting : AbortAhead(Sample[p].writer)
<1>1. \A x, v : Listed(<<x>>) /\ Listed(SetLines(2, v)) /\ Listed(SetLines(3, v))
  BY SetLinesIs DEF Listed
<1>2. AbortAhead(<<Abort>>) /\ \A n : AbortAhead(<<TX_END(n), Abort>>) /\ Listed(<<TX_END(n), Abort>>)
  BY Steps DEF AbortAhead, Listed
<1>3. AbortAhead(hello_libpmemtest.writer)
  <2>1. /\ AbortAhead(<<PutAll([c \in {line(3), line(4)} |-> 1]), Abort, Persist({line(1)})>>)
        /\ Listed(<<PutAll([c \in {line(3), line(4)} |-> 1]), Abort, Persist({line(1)})>>)
    BY Steps DEF AbortAhead, Listed
  <2> QED BY <1>1, <2>1, AbortConcat DEF hello_libpmemtest, Program
<1>4. AbortAhead(hello_libpmemobjtest3.writer)
  <2>1. 14 \in 1 .. Len(Steps3) /\ Steps3[14].op = "abort"
    BY Steps3Are, OpsOf
  <2>2. ASSUME NEW j \in 1 .. Len(Steps3), 14 <= j PROVE Steps3[j].op # "end"
    <3>1. j = 14
      BY <2>2, Steps3Are
    <3> QED BY <2>1, <3>1
  <2> QED BY <2>1, <2>2 DEF AbortAhead, Steps3
<1>5. AbortAhead(hello_libpmemobjtest3_alloc.writer)
  <2> DEFINE s == <<Alloc, PutAll([c \in {line(1)} |-> 1]), Persist({line(1)}),
      PutAll([c \in {line(2)} |-> 1]), Persist({line(2)}),
      PutAll([c \in {line(3)} |-> 1]), Persist({line(3)}), TX_BEGIN>>
  <2>1. Listed(s)
    BY DEF Listed
  <2>2. hello_libpmemobjtest3_alloc.writer = (s \o SetLines(3, 2)) \o <<TX_END(61), Abort>>
    BY Zenon DEF hello_libpmemobjtest3_alloc, Program
  <2> HIDE DEF s
  <2>3. Listed(s \o SetLines(3, 2))
    BY <1>1, <2>1, ListedConcat
  <2> QED BY <1>2, <2>2, <2>3, AbortConcat
<1>6. AbortAhead(Partners \o <<Abort>>)
  <2>1. Listed(Partners)
    BY DEF Partners, Listed
  <2> QED BY <1>1, <1>2, <2>1, AbortConcat
<1>7. AbortAhead(hello_libpmemobjtest5_safepm_pw.writer)
  BY Steps DEF AbortAhead, hello_libpmemobjtest5_safepm_pw, Program
<1>8. /\ hello_libpmemobjtest4.writer = Partners \o <<Abort>>
      /\ hello_libpmemobjtest4_safepm.writer = Partners \o <<Abort>>
  BY DEF hello_libpmemobjtest4, hello_libpmemobjtest4_safepm, Program
<1>9. /\ Sample["hello_libpmemtest"] = hello_libpmemtest
      /\ Sample["hello_libpmemobjtest3"] = hello_libpmemobjtest3
      /\ Sample["hello_libpmemobjtest3_alloc"] = hello_libpmemobjtest3_alloc
      /\ Sample["hello_libpmemobjtest4"] = hello_libpmemobjtest4
      /\ Sample["hello_libpmemobjtest4_safepm"] = hello_libpmemobjtest4_safepm
      /\ Sample["hello_libpmemobjtest5_safepm_pw"] = hello_libpmemobjtest5_safepm_pw
  BY DEF Sample
<1> QED BY <1>3, <1>4, <1>5, <1>6, <1>7, <1>8, <1>9, Zenon DEF Aborting

LEMMA AtHead ==
    ASSUME PoolFits, NEW op, Doing(op)
    PROVE  Head(code) = code[1] /\ code[1].op = op /\ code # <<>> /\ Len(code) \in Nat
BY PopFits DEF PoolFits, Doing

LEMMA AbortStep ==
    ASSUME PoolFits, PoolStep, AbortAhead(code) PROVE AbortAhead(code')
<1>1. Listed(code) /\ Len(code) \in Nat
  BY DEF PoolFits, CodeFits, Listed
<1>2. PICK i \in 1 .. Len(code) :
         code[i].op = "abort" /\ \A j \in 1 .. Len(code) : i <= j => code[j].op # "end"
  BY DEF AbortAhead
<1>3. ASSUME Rest, NEW op, Doing(op), op # "abort" PROVE AbortAhead(code')
  <2> DEFINE u == Tail(code)
  <2>1. code # <<>> /\ code[1].op = op
    BY <1>3, AtHead
  <2>2. /\ Len(u) = Len(code) - 1 /\ \A j \in 1 .. Len(code) - 1 : u[j] = code[j + 1]
    BY <1>1, <2>1, Popped
  <2>3. i # 1
    BY <1>2, <1>3, <2>1
  <2> HIDE DEF u
  <2>4. i - 1 \in 1 .. Len(u) /\ u[i - 1] = code[i]
    <3>1. i - 1 \in 1 .. Len(code) - 1 /\ (i - 1) + 1 = i
      BY <1>1, <2>3
    <3> QED BY <2>2, <3>1
  <2>5. ASSUME NEW j \in 1 .. Len(u), i - 1 <= j PROVE u[j].op # "end"
    <3>1. j \in 1 .. Len(code) - 1 /\ j + 1 \in 1 .. Len(code) /\ i <= j + 1
      BY <1>1, <2>2, <2>5
    <3> QED BY <1>2, <2>2, <3>1
  <2>6. AbortAhead(u)
    BY <1>2, <2>4, <2>5 DEF AbortAhead
  <2> QED BY <1>3, <2>6 DEF Rest, u
<1>4. CASE TxAddFails
  <2>1. Doing("add") /\ code' = SubSeq(code, NextEnd, Len(code))
    BY <1>4 DEF TxAddFails
  <2>2. code # <<>> /\ code[1].op = "add" /\ StepFits(code, 1)
    BY <2>1, AtHead, PopFits DEF PoolFits
  <2>3. PICK m \in 1 .. Len(code) : code[m].op = "end"
    BY <2>2 DEF StepFits
  <2>4. NextEnd \in 1 .. Len(code) /\ code[NextEnd].op = "end"
    BY <1>1, <2>3, NextEndIs
  <2>5. NextEnd < i
    BY <1>1, <1>2, <2>4
  <2> DEFINE e == NextEnd
  <2> DEFINE u == SubSeq(code, e, Len(code))
  <2>6. Len(u) = Len(code) - e + 1 /\ \A j \in 1 .. Len(u) : u[j] = code[e + j - 1]
    BY <1>1, <2>4, Dropped
  <2> HIDE DEF u, e
  <2>7. e \in 1 .. Len(code) /\ e < i
    BY <2>4, <2>5 DEF e
  <2>8. i - e + 1 \in 1 .. Len(u) /\ e + (i - e + 1) - 1 = i
    BY <1>1, <2>6, <2>7
  <2>9. u[i - e + 1].op = "abort"
    BY <1>2, <2>6, <2>8
  <2>10. ASSUME NEW j \in 1 .. Len(u), i - e + 1 <= j PROVE u[j].op # "end"
    <3>1. e + j - 1 \in 1 .. Len(code) /\ i <= e + j - 1
      BY <1>1, <2>6, <2>7, <2>10
    <3> QED BY <1>2, <2>6, <3>1
  <2>11. AbortAhead(u)
    BY <2>8, <2>9, <2>10 DEF AbortAhead
  <2> QED BY <2>1, <2>11 DEF u, e
<1>5. CASE TxCommit \/ TxProcess
  <2>1. code' = code
    BY <1>5 DEF TxCommit, TxProcess
  <2> QED BY <2>1
<1>6. CASE ~TxAddFails /\ ~TxCommit /\ ~TxProcess
  BY <1>3, <1>6, Zenon DEF PoolStep, Store, PersistRange, AllocObject, TxBegin, TxAdd, TxEnd, ClosePool
<1> QED BY <1>4, <1>5, <1>6

-----------------------------------------------------------------------------
(* Those that persist what they store. *)

Persisting == {"hello_libpmem", "libpmemtest", "testprogram", "hello_libpmemobj",
               "hello_libpmemobjtest_safepm"}

PersistsAt(s, j, c) == s[j].op = "persist" /\ c \in s[j].cells

Persists(s, c) == \E j \in 1 .. Len(s) : PersistsAt(s, j, c)

(* What step i stores is persisted by a later one.                         *)
Covered(s, i) ==
    /\ s[i].op \in {"store", "persist", "close"}
    /\ s[i].op = "store" => \A c \in DOMAIN s[i].to :
          c # data_oid /\ \E j \in 1 .. Len(s) : i < j /\ PersistsAt(s, j, c)

Careful(s) == Listed(s) /\ \A i \in 1 .. Len(s) : Covered(s, i)

LEMMA CarefulConcat ==
    ASSUME NEW s, NEW t, Careful(s), Careful(t)
    PROVE  Careful(s \o t)
<1> DEFINE u == s \o t
<1> DEFINE n == Len(s)
<1>1. Listed(s) /\ Listed(t)
  BY DEF Careful
<1>2. /\ Listed(u) /\ Len(u) = n + Len(t) /\ n \in Nat /\ Len(t) \in Nat
      /\ \A i \in 1 .. n : u[i] = s[i]
      /\ \A i \in 1 .. Len(t) : u[n + i] = t[i]
      /\ \A i \in 1 .. Len(u) : i \in 1 .. n \/ i - n \in 1 .. Len(t)
  BY <1>1, ListedConcat
<1> HIDE DEF u
<1>3. ASSUME NEW i \in 1 .. Len(u) PROVE Covered(u, i)
  <2>1. CASE i \in 1 .. n
    <3>1. Covered(s, i) /\ u[i] = s[i]
      BY <1>2, <2>1 DEF Careful
    <3>2. ASSUME NEW c, NEW j \in 1 .. n, i < j, PersistsAt(s, j, c)
          PROVE  j \in 1 .. Len(u) /\ PersistsAt(u, j, c)
      BY <1>2, <3>2 DEF PersistsAt
    <3> QED BY <3>1, <3>2 DEF Covered
  <2>2. CASE i - n \in 1 .. Len(t)
    <3>1. n + (i - n) = i
      BY <1>2
    <3>2. Covered(t, i - n) /\ u[i] = t[i - n]
      BY <1>2, <2>2, <3>1 DEF Careful
    <3>3. ASSUME NEW c, NEW j \in 1 .. Len(t), i - n < j, PersistsAt(t, j, c)
          PROVE  n + j \in 1 .. Len(u) /\ i < n + j /\ PersistsAt(u, n + j, c)
      <4>1. u[n + j] = t[j]
        BY <1>2
      <4> QED BY <1>2, <3>3, <4>1 DEF PersistsAt
    <3> QED BY <3>2, <3>3 DEF Covered
  <2> QED BY <1>2, <2>1, <2>2
<1> QED BY <1>2, <1>3 DEF Careful, u

LEMMA PersistingWriters == \A p \in Persisting : Careful(Sample[p].writer)
<1>0. \A i, c : text(i) # data_oid /\ length # data_oid /\ to # data_oid /\ from # data_oid
  BY DEF text, length, to, from, data_oid
<1>1. Careful(<<Put(text(1), 1), Persist({text(1)})>>)
  BY <1>0 DEF Careful, Listed, Covered, PersistsAt, Put, PutAll, Persist
<1>2. \A C : Careful(<<Persist(C)>>)
  BY Steps DEF Careful, Listed, Covered
<1>3. Careful(<<Close>>)
  BY Steps DEF Careful, Listed, Covered
<1>4. Careful(hello_libpmem.writer)
  BY <1>1 DEF hello_libpmem, Program
<1>5. Careful(libpmemtest.writer)
  <2> DEFINE s == <<Put(text(1), 1), Put(text(2), 1), Put(text(3), 1), Persist({text(1)}),
                    Persist({text(1)}), Persist({text(2)}), Persist({text(3)})>>
  <2> DEFINE r == [i \in 1 .. 4 |-> Persist({text(1)})]
  <2>1. Careful(s)
    BY <1>0 DEF Careful, Listed, Covered, PersistsAt, Put, PutAll, Persist
  <2>2. Careful(r)
    BY Steps DEF Careful, Listed, Covered
  <2>3. libpmemtest.writer = s \o r
    BY DEF libpmemtest, Program, testfunc
  <2> HIDE DEF s, r
  <2> QED BY <2>1, <2>2, <2>3, CarefulConcat
<1>6. Careful(testprogram.writer)
  BY <1>0 DEF testprogram, Program, Careful, Listed, Covered, PersistsAt, Put, PutAll, Persist
<1>7. Careful(hello_libpmemobj.writer) /\ hello_libpmemobjtest_safepm = hello_libpmemobj
  <2>1. Careful(<<Put(length, 1), Persist({length})>>)
    BY <1>0 DEF Careful, Listed, Covered, PersistsAt, Put, PutAll, Persist
  <2>2. Careful(MemcpyPersist([c \in {text(1)} |-> 1]))
    BY <1>0 DEF Careful, Listed, Covered, PersistsAt, MemcpyPersist, PutAll, Persist
  <2> QED BY <1>3, <2>1, <2>2, CarefulConcat
          DEF hello_libpmemobj, Program, hello_libpmemobjtest_safepm
<1>8. /\ Sample["hello_libpmem"] = hello_libpmem
      /\ Sample["libpmemtest"] = libpmemtest
      /\ Sample["testprogram"] = testprogram
      /\ Sample["hello_libpmemobj"] = hello_libpmemobj
      /\ Sample["hello_libpmemobjtest_safepm"] = hello_libpmemobjtest_safepm
  BY DEF Sample
<1> QED BY <1>4, <1>5, <1>6, <1>7, <1>8, Zenon DEF Persisting

(* All a writer that is careful names, it persists.                        *)
LEMMA CarefulNames ==
    ASSUME NEW s, Careful(s), NEW c \in CellsOf(s) PROVE Persists(s, c)
<1>1. PICK i \in 1 .. Len(s) :
         c \in CASE s[i].op = "store" -> DOMAIN s[i].to
                 [] s[i].op \in {"add", "persist"} -> s[i].cells
                 [] OTHER -> {}
  BY DEF CellsOf
<1>2. Covered(s, i)
  BY DEF Careful
<1> QED BY <1>1, <1>2 DEF Covered, Persists, PersistsAt

(* One step less.                                                          *)
LEMMA CarefulRest ==
    ASSUME Careful(code), code # <<>>, NEW u, u = Tail(code)
    PROVE  /\ Careful(u) /\ Covered(code, 1) /\ Head(code) = code[1]
           /\ \A c : Persists(code, c) => Persists(u, c) \/ PersistsAt(code, 1, c)
           /\ \A c : code[1].op = "store" /\ c \in DOMAIN code[1].to => Persists(u, c)
<1>1. Listed(code)
  BY DEF Careful
<1>2. /\ Len(code) \in Nat \ {0} /\ 1 \in 1 .. Len(code) /\ Head(code) = code[1]
      /\ Listed(u) /\ Len(u) = Len(code) - 1
      /\ \A i \in 1 .. Len(code) - 1 : u[i] = code[i + 1]
      /\ \A i \in 1 .. Len(code) : i # 1 => i - 1 \in 1 .. Len(code) - 1 /\ u[i - 1] = code[i]
  BY <1>1, Popped
<1>3. \A c : \A j \in 1 .. Len(code) :
         j # 1 /\ PersistsAt(code, j, c) => j - 1 \in 1 .. Len(u) /\ PersistsAt(u, j - 1, c)
  BY <1>2 DEF PersistsAt
<1>4. ASSUME NEW i \in 1 .. Len(u) PROVE Covered(u, i)
  <2>1. i + 1 \in 1 .. Len(code) /\ u[i] = code[i + 1]
    BY <1>2
  <2>2. Covered(code, i + 1)
    BY <2>1 DEF Careful
  <2>3. ASSUME NEW c, NEW j \in 1 .. Len(code), i + 1 < j, PersistsAt(code, j, c)
        PROVE  j - 1 \in 1 .. Len(u) /\ i < j - 1 /\ PersistsAt(u, j - 1, c)
    <3>1. j # 1 /\ i < j - 1
      BY <1>2, <2>3
    <3> QED BY <1>3, <2>3, <3>1
  <2> QED BY <2>1, <2>2, <2>3 DEF Covered
<1>5. Covered(code, 1)
  BY <1>2 DEF Careful
<1>6. ASSUME NEW c, Persists(code, c) PROVE Persists(u, c) \/ PersistsAt(code, 1, c)
  BY <1>3, <1>6 DEF Persists
<1>7. ASSUME NEW c, code[1].op = "store", c \in DOMAIN code[1].to PROVE Persists(u, c)
  <2>1. PICK j \in 1 .. Len(code) : 1 < j /\ PersistsAt(code, j, c)
    BY <1>5, <1>7 DEF Covered
  <2>2. j # 1
    BY <2>1
  <2> QED BY <1>3, <2>1, <2>2 DEF Persists
<1> QED BY <1>2, <1>4, <1>5, <1>6, <1>7 DEF Careful

(* A cell that differs on the medium has its persist ahead.                *)
Persisted(s) == \A c \in AllCells : cache[c] = medium[c] \/ Persists(s, c)

LEMMA PersistStep ==
    ASSUME PoolFits, PoolStep, Careful(code), log = Nothing, cache[data_oid] = medium[data_oid],
           data_oid \in AllCells
    PROVE  /\ Careful(code') /\ log' = Nothing /\ cache'[data_oid] = medium'[data_oid]
           /\ Persisted(code) => \A c \in AllCells : cache'[c] = medium'[c] \/ Persists(code', c)
<1>1. \A op : Doing(op) => /\ code # <<>> /\ Head(code) = code[1] /\ code[1].op = op
  BY AtHead
<1>2. \A op : Doing(op) => op \in {"store", "persist", "close"}
  BY <1>1, CarefulRest DEF Covered
<1>3. Store \/ PersistRange \/ ClosePool
  BY <1>2 DEF PoolStep, AllocObject, TxBegin, TxAdd, TxAddFails, TxCommit, TxProcess, TxEnd
<1>4. code # <<>> /\ code' = Tail(code) /\ UNCHANGED log
  BY <1>3 DEF Store, PersistRange, ClosePool, Doing, Rest, contents
<1>5. /\ Careful(code') /\ Covered(code, 1) /\ Head(code) = code[1]
      /\ \A c : Persists(code, c) => Persists(code', c) \/ PersistsAt(code, 1, c)
      /\ \A c : code[1].op = "store" /\ c \in DOMAIN code[1].to => Persists(code', c)
  BY <1>4, CarefulRest
<1>6. DOMAIN cache = AllCells /\ DOMAIN medium = AllCells
  BY DEF PoolFits, Fits
<1>7. CASE Store
  <2>1. /\ code[1].op = "store" /\ UNCHANGED medium
        /\ \A c \in AllCells : c \notin DOMAIN code[1].to => cache'[c] = cache[c]
    BY <1>1, <1>5, <1>6, <1>7, OverlayAt DEF Store
  <2>2. cache'[data_oid] = cache[data_oid]
    BY <1>5, <2>1 DEF Covered
  <2>3. \A c : ~PersistsAt(code, 1, c)
    BY <2>1 DEF PersistsAt
  <2> QED BY <1>4, <1>5, <2>1, <2>2, <2>3 DEF Persisted
<1>8. CASE PersistRange
  <2>1. \A C : DOMAIN Part(cache, C) = C /\ \A c \in C : Part(cache, C)[c] = cache[c]
    BY DEF Part
  <2>2. /\ UNCHANGED cache
        /\ \A c \in AllCells : medium'[c] = IF c \in code[1].cells THEN cache[c] ELSE medium[c]
    BY <1>5, <1>6, <1>8, <2>1, OverlayAt DEF PersistRange
  <2>3. \A c : PersistsAt(code, 1, c) => c \in code[1].cells
    BY DEF PersistsAt
  <2> QED BY <1>4, <1>5, <2>2, <2>3 DEF Persisted
<1>9. CASE ClosePool
  <2>1. UNCHANGED <<cache, medium>> /\ code[1].op = "close"
    BY <1>1, <1>9 DEF ClosePool, contents
  <2>2. \A c : ~PersistsAt(code, 1, c)
    BY <2>1 DEF PersistsAt
  <2> QED BY <1>4, <1>5, <2>1, <2>2 DEF Persisted
<1> QED BY <1>3, <1>7, <1>8, <1>9

-----------------------------------------------------------------------------
(* loop: every store is in the undo log. *)

Turn(s, i) ==
    \/ s[i].op = "begin" /\ i < Len(s) /\ s[i + 1].op = "add"
    \/ s[i].op = "add" /\ s[i].cells = {line(1)} /\ i < Len(s) /\ s[i + 1].op = "store"
    \/ s[i].op = "store" /\ DOMAIN s[i].to = {line(1)} /\ i < Len(s) /\ s[i + 1].op = "end"
    \/ s[i].op = "end" /\ i < Len(s) /\ s[i + 1].op \in {"begin", "close"}
    \/ s[i].op = "close" /\ i = Len(s)

Rounds(s) == Listed(s) /\ \A i \in 1 .. Len(s) : Turn(s, i)

LEMMA LoopRounds == Rounds(loop.writer) /\ loop.writer # <<>> /\ loop.writer[1].op = "begin"
<1> DEFINE s == loop.writer
<1>1. \A a, b, c, d, e, f, g, h, i, j, k, l, m :
         LET u == <<a, b, c, d>> \o <<e, f, g, h>> \o <<i, j, k, l>> \o <<m>> IN
         /\ Listed(u) /\ Len(u) = 13 /\ u[1] = a /\ u[2] = b /\ u[3] = c /\ u[4] = d
         /\ u[5] = e /\ u[6] = f /\ u[7] = g /\ u[8] = h /\ u[9] = i /\ u[10] = j /\ u[11] = k
         /\ u[12] = l /\ u[13] = m
  BY DEF Listed
<1>2. s = <<TX_BEGIN, TX_ADD({line(1)}), Put(line(1), 1), TX_END(1)>>
          \o <<TX_BEGIN, TX_ADD({line(1)}), Put(line(1), 2), TX_END(1)>>
          \o <<TX_BEGIN, TX_ADD({line(1)}), Put(line(1), 3), TX_END(1)>> \o <<Close>>
  BY Zenon DEF loop, Program, OneRound
<1> HIDE DEF s
<1>3. /\ Listed(s) /\ Len(s) = 13
      /\ s[1] = TX_BEGIN /\ s[5] = TX_BEGIN /\ s[9] = TX_BEGIN
      /\ s[2] = TX_ADD({line(1)}) /\ s[6] = TX_ADD({line(1)}) /\ s[10] = TX_ADD({line(1)})
      /\ s[3] = Put(line(1), 1) /\ s[7] = Put(line(1), 2) /\ s[11] = Put(line(1), 3)
      /\ s[4] = TX_END(1) /\ s[8] = TX_END(1) /\ s[12] = TX_END(1) /\ s[13] = Close
  BY <1>1, <1>2
<1>4. \A v : Put(line(1), v).op = "store" /\ DOMAIN Put(line(1), v).to = {line(1)}
  BY DEF Put, PutAll
<1>5. /\ s[1].op = "begin" /\ s[5].op = "begin" /\ s[9].op = "begin"
      /\ s[2].op = "add" /\ s[6].op = "add" /\ s[10].op = "add"
      /\ s[2].cells = {line(1)} /\ s[6].cells = {line(1)} /\ s[10].cells = {line(1)}
      /\ s[3].op = "store" /\ s[7].op = "store" /\ s[11].op = "store"
      /\ DOMAIN s[3].to = {line(1)} /\ DOMAIN s[7].to = {line(1)} /\ DOMAIN s[11].to = {line(1)}
      /\ s[4].op = "end" /\ s[8].op = "end" /\ s[12].op = "end" /\ s[13].op = "close"
  BY <1>3, <1>4, Steps
<1>6. ASSUME NEW i \in 1 .. Len(s) PROVE Turn(s, i)
  <2>0. /\ Turn(s, 1) /\ Turn(s, 2) /\ Turn(s, 3) /\ Turn(s, 4) /\ Turn(s, 5) /\ Turn(s, 6)
        /\ Turn(s, 7) /\ Turn(s, 8) /\ Turn(s, 9) /\ Turn(s, 10) /\ Turn(s, 11) /\ Turn(s, 12)
        /\ Turn(s, 13)
    BY <1>3, <1>5 DEF Turn
  <2>1. \/ i = 1 \/ i = 2 \/ i = 3 \/ i = 4 \/ i = 5 \/ i = 6 \/ i = 7 \/ i = 8 \/ i = 9
        \/ i = 10 \/ i = 11 \/ i = 12 \/ i = 13
    BY <1>3
  <2> QED BY <2>0, <2>1
<1>7. s # <<>>
  BY <1>3, EmptySeq
<1> QED BY <1>3, <1>5, <1>6, <1>7 DEF Rounds, s

LEMMA RoundsRest ==
    ASSUME Rounds(code), code # <<>>, NEW u, u = Tail(code)
    PROVE  /\ Rounds(u) /\ Turn(code, 1) /\ Head(code) = code[1]
           /\ code[1].op = "close" => u = <<>>
           /\ code[1].op # "close" => u # <<>> /\ u[1] = code[2]
<1>1. Listed(code)
  BY DEF Rounds
<1>2. /\ Len(code) \in Nat \ {0} /\ 1 \in 1 .. Len(code) /\ Head(code) = code[1]
      /\ Listed(u) /\ Len(u) = Len(code) - 1
      /\ \A i \in 1 .. Len(code) - 1 : u[i] = code[i + 1]
  BY <1>1, Popped
<1>3. ASSUME NEW i \in 1 .. Len(u) PROVE Turn(u, i)
  <2>1. i + 1 \in 1 .. Len(code) /\ u[i] = code[i + 1] /\ (i = Len(u) <=> i + 1 = Len(code))
        /\ (i < Len(u) <=> i + 1 < Len(code)) /\ (i < Len(u) => u[i + 1] = code[(i + 1) + 1])
    BY <1>2
  <2>2. Turn(code, i + 1)
    BY <2>1 DEF Rounds
  <2> QED BY <2>1, <2>2 DEF Turn
<1>4. Turn(code, 1)
  BY <1>2 DEF Rounds
<1>5. code[1].op = "close" => Len(u) = 0
  <2>1. code[1].op = "close" => 1 = Len(code)
    BY <1>4 DEF Turn
  <2>2. code[1].op = "close" => Len(u) = 1 - 1
    BY <1>2, <2>1, Zenon
  <2>3. 1 - 1 = 0
    OBVIOUS
  <2> QED BY <2>2, <2>3, Zenon
<1>6. code[1].op # "close" => Len(u) # 0 /\ 1 \in 1 .. Len(code) - 1
  BY <1>2, <1>4 DEF Turn
<1>7. Len(u) = 0 <=> u = <<>>
  BY <1>2, ListedIs, EmptySeq
<1>8. code[1].op # "close" => u[1] = code[1 + 1]
  BY <1>2, <1>6
<1> QED BY <1>2, <1>3, <1>4, <1>5, <1>6, <1>7, <1>8 DEF Rounds

LEMMA RoundsEnd ==
    ASSUME Rounds(code), NEW e \in 1 .. Len(code), NEW u, u = SubSeq(code, e, Len(code))
    PROVE  Rounds(u) /\ u # <<>> /\ u[1] = code[e]
<1>1. Listed(code)
  BY DEF Rounds
<1>2. /\ Listed(u) /\ u # <<>> /\ Len(u) = Len(code) - e + 1 /\ Len(code) \in Nat
      /\ \A i \in 1 .. Len(u) : u[i] = code[e + i - 1]
  BY <1>1, Dropped
<1>3. ASSUME NEW i \in 1 .. Len(u) PROVE Turn(u, i)
  <2>1. e + i - 1 \in 1 .. Len(code) /\ u[i] = code[e + i - 1]
        /\ (i = Len(u) <=> e + i - 1 = Len(code)) /\ (i < Len(u) <=> e + i - 1 < Len(code))
    BY <1>2
  <2>2. i < Len(u) => u[i + 1] = code[(e + i - 1) + 1]
    <3>1. i < Len(u) => i + 1 \in 1 .. Len(u) /\ e + (i + 1) - 1 = (e + i - 1) + 1
      BY <1>2
    <3> QED BY <1>2, <3>1
  <2>3. Turn(code, e + i - 1)
    BY <2>1 DEF Rounds
  <2> QED BY <2>1, <2>2, <2>3 DEF Turn
<1>4. 1 \in 1 .. Len(u) /\ e + 1 - 1 = e
  BY <1>2
<1> QED BY <1>2, <1>3, <1>4 DEF Rounds

(* Cells outside the log are on the medium as they are in the cache.       *)
Tight == \A c \in AllCells : c \in DOMAIN log \/ cache[c] = medium[c]

(* How far a round has come.                                               *)
InRound ==
    /\ code = <<>> => log = Nothing
    /\ code # <<>> /\ code[1].op \in {"begin", "add", "close"} => log = Nothing
    /\ code # <<>> /\ code[1].op = "store" => stage = "WORK" /\ line(1) \in DOMAIN log
    /\ code # <<>> /\ code[1].op = "end" /\ stage # "WORK" => log = Nothing

LEMMA RoundStep ==
    ASSUME PoolFits, PoolStep, Rounds(code), InRound, Tight, UNCHANGED program
    PROVE  Rounds(code') /\ InRound' /\ Tight'
<1>0. AllCells' = AllCells /\ DOMAIN cache = AllCells /\ DOMAIN medium = AllCells
      /\ DOMAIN log \subseteq AllCells /\ DOMAIN Nothing = {}
  BY OfNothing DEF PoolFits, Fits, LogFits, AllCells, Cells
<1>1. \A op : Doing(op) => code # <<>> /\ Head(code) = code[1] /\ code[1].op = op
  BY AtHead
<1>2. code # <<>> /\ Turn(code, 1) /\ Head(code) = code[1]
  <2>1. code # <<>>
    BY Zenon DEF PoolStep, Store, PersistRange, AllocObject, TxBegin, TxAdd, TxAddFails, TxCommit,
       TxProcess, TxEnd, ClosePool, Doing
  <2> QED BY <2>1, RoundsRest
<1>3. ASSUME Rest
      PROVE  /\ Rounds(code')
             /\ code[1].op = "close" => code' = <<>>
             /\ code[1].op # "close" => code' # <<>> /\ code'[1] = code[2]
  BY <1>2, <1>3, RoundsRest DEF Rest
<1>4. code[1].op \in {"begin", "add", "store", "end", "close"}
  BY <1>2 DEF Turn
<1>5. CASE Store
  <2>1. /\ Rest /\ code[1].op = "store" /\ UNCHANGED <<medium, log, stage>>
        /\ \A c \in AllCells : c \notin DOMAIN code[1].to => cache'[c] = cache[c]
    BY <1>0, <1>1, <1>2, <1>5, OverlayAt DEF Store
  <2>2. /\ DOMAIN code[1].to = {line(1)} /\ code'[1].op = "end" /\ code' # <<>>
        /\ stage = "WORK" /\ line(1) \in DOMAIN log
    BY <1>2, <1>3, <2>1 DEF Turn, InRound
  <2>3. Tight'
    BY <1>0, <2>1, <2>2 DEF Tight
  <2>4. InRound'
    BY <2>1, <2>2 DEF InRound
  <2> QED BY <1>3, <2>1, <2>3, <2>4
<1>6. CASE TxBegin \/ ClosePool \/ TxEnd
  <2>1. /\ Rest /\ code[1].op \in {"begin", "end", "close"}
        /\ UNCHANGED <<cache, medium, log>>
        /\ code[1].op = "end" => stage # "WORK"
    BY <1>1, <1>6 DEF TxBegin, ClosePool, TxEnd, contents
  <2>2. log = Nothing
    BY <1>2, <2>1 DEF InRound
  <2>3. code' = <<>> \/ code'[1].op \in {"begin", "add", "close"}
    BY <1>2, <1>3, <2>1 DEF Turn
  <2>4. InRound'
    BY <2>1, <2>2, <2>3 DEF InRound
  <2>5. Tight'
    BY <1>0, <2>1 DEF Tight
  <2> QED BY <1>3, <2>1, <2>4, <2>5
<1>7. CASE TxAdd
  <2>1. /\ Rest /\ code[1].op = "add" /\ UNCHANGED <<cache, medium, stage>> /\ stage = "WORK"
        /\ DOMAIN log' = DOMAIN log \cup code[1].cells
    BY <1>1, <1>2, <1>7 DEF TxAdd, Logged
  <2>2. code' # <<>> /\ code'[1].op = "store" /\ line(1) \in DOMAIN log'
    BY <1>2, <1>3, <2>1 DEF Turn
  <2>3. InRound'
    BY <2>1, <2>2 DEF InRound
  <2>4. Tight'
    BY <1>0, <2>1 DEF Tight
  <2> QED BY <1>3, <2>1, <2>3, <2>4
<1>8. CASE TxAddFails
  <2>1. /\ code[1].op = "add" /\ log' = Nothing
        /\ cache' = Overlay(log, cache) /\ medium' = Overlay(log, medium)
        /\ code' = SubSeq(code, NextEnd, Len(code))
    BY <1>1, <1>8 DEF TxAddFails
  <2>2. log = Nothing
    BY <1>2, <2>1 DEF InRound
  <2>3. cache' = cache /\ medium' = medium
    BY <2>1, <2>2, OfNothing DEF PoolFits
  <2>4. StepFits(code, 1) /\ Len(code) \in Nat
    BY <1>2, PopFits DEF PoolFits
  <2>5. PICK m \in 1 .. Len(code) : code[m].op = "end"
    BY <2>1, <2>4 DEF StepFits
  <2>6. NextEnd \in 1 .. Len(code)
    BY <2>4, <2>5, NextEndIs
  <2>7. Rounds(code') /\ code' # <<>>
    BY <2>1, <2>6, RoundsEnd
  <2>8. code[NextEnd].op = "end"
    BY <2>4, <2>5, NextEndIs
  <2>9. code'[1].op = "end"
    BY <2>1, <2>6, <2>8, RoundsEnd
  <2>10. InRound'
    BY <2>1, <2>7, <2>9 DEF InRound
  <2>11. Tight'
    BY <1>0, <2>2, <2>3 DEF Tight
  <2> QED BY <2>7, <2>10, <2>11
<1>9. CASE TxCommit
  <2>1. /\ code[1].op = "end" /\ UNCHANGED <<cache, code>> /\ log' = Nothing
        /\ medium' = Overlay(Part(cache, DOMAIN log), medium)
    BY <1>1, <1>9 DEF TxCommit
  <2>2. DOMAIN Part(cache, DOMAIN log) = DOMAIN log
        /\ \A c \in DOMAIN log : Part(cache, DOMAIN log)[c] = cache[c]
    BY DEF Part
  <2>3. \A c \in AllCells : medium'[c] = IF c \in DOMAIN log THEN cache[c] ELSE medium[c]
    BY <1>0, <2>1, <2>2, OverlayAt
  <2>4. Tight'
    BY <1>0, <2>1, <2>3 DEF Tight
  <2>5. InRound'
    BY <1>2, <2>1 DEF InRound
  <2> QED BY <2>1, <2>4, <2>5
<1>10. CASE TxProcess
  <2>1. /\ code[1].op = "end" /\ UNCHANGED <<cache, medium, log, code>> /\ stage # "WORK"
    BY <1>1, <1>10 DEF TxProcess, contents
  <2>2. Tight' /\ InRound'
    BY <1>0, <1>2, <2>1 DEF Tight, InRound
  <2> QED BY <2>1, <2>2
<1>11. ~PersistRange /\ ~AllocObject
  BY <1>1, <1>4 DEF PersistRange, AllocObject
<1> QED BY <1>5, <1>6, <1>7, <1>8, <1>9, <1>10, <1>11 DEF PoolStep

-----------------------------------------------------------------------------
(* All the samples but the careless ones. *)

AbortsFirst == phase = "running" /\ ~Reading => AbortAhead(code)

PersistsAll ==
    /\ log = Nothing /\ cache[data_oid] = medium[data_oid]
    /\ phase = "running" => Careful(code)
    /\ phase = "running" /\ ~Reading => Persisted(code)

LogsAll == Tight /\ (phase = "running" => Rounds(code) /\ InRound)

SampleInv ==
    /\ program \in Aborting => AbortsFirst
    /\ program \in Persisting => PersistsAll
    /\ program = "loop" => LogsAll

(* Reading or writing, a process is opened, works and is gone.             *)
Opened(steps) == OpenPool(steps) /\ UNCHANGED <<cmd, created>>

SameProcess == UNCHANGED <<phase, cmd, created>>

LEMMA SampleSteps ==
    ASSUME TypeInv, [Next]_vars, ~IsStore
    PROVE  /\ UNCHANGED program /\ AllCells' = AllCells
           /\ UNCHANGED <<cmd, created>> => (Reading' <=> Reading)
           /\ \/ UNCHANGED <<cache, medium, log, code, stage>> /\ SameProcess
              \/ UNCHANGED <<cache, medium, log>> /\ phase' # "running"
              \/ Reading /\ (Opened(<<Close>>) \/ Opened(<<>>))
              \/ ~Reading /\ Opened(Sample[program].writer)
              \/ PoolStep /\ phase = "running" /\ SameProcess
              \/ Evict /\ SameProcess
              \/ cache' = medium /\ UNCHANGED <<medium, log>> /\ phase' # "running"
<1> USE DEF SameProcess
<1>0. UNCHANGED program
  BY DEF Next, vars, now, Start, Create, Complete, CannotOpen, OpenToRead, ReaderDies,
     OpenToWrite, Work, Aborts, Exit, WriteBack, Killed, PowerFails, Dies
<1>1. UNCHANGED <<cmd, created>> => (Reading' <=> Reading)
  BY <1>0 DEF Reading, IsStore
<1>2. AllCells' = AllCells
  BY <1>0 DEF AllCells, Cells
<1>3. CASE UNCHANGED vars
  BY <1>0, <1>1, <1>2, <1>3 DEF vars, poolvars, contents, now
<1>4. CASE \/ \E c \in CommandLines : Start(c)
           \/ Create \/ Complete \/ CannotOpen \/ Aborts \/ Exit \/ Killed
  <2>1. UNCHANGED <<cache, medium, log>> /\ phase' # "running"
    BY <1>4 DEF Start, Create, Complete, CannotOpen, Aborts, Exit, Killed, Dies, CreateFile,
       FinishFile, AbortHere, Kill, poolvars, contents, now
  <2> QED BY <1>0, <1>1, <1>2, <2>1
<1>5. CASE OpenToRead \/ ReaderDies
  BY <1>0, <1>1, <1>2, <1>5 DEF OpenToRead, ReaderDies, Opened
<1>6. CASE OpenToWrite
  BY <1>0, <1>1, <1>2, <1>6 DEF OpenToWrite, Opened
<1>7. CASE Work
  BY <1>0, <1>1, <1>2, <1>7 DEF Work, now
<1>8. CASE WriteBack
  BY <1>0, <1>1, <1>2, <1>8 DEF WriteBack, now
<1>9. CASE PowerFails
  BY <1>0, <1>1, <1>2, <1>9 DEF PowerFails, PowerFail, Dies
<1> QED BY <1>3, <1>4, <1>5, <1>6, <1>7, <1>8, <1>9 DEF Next

LEMMA OpenedCode ==
    ASSUME NEW steps, Opened(steps), PoolFits
    PROVE  /\ code' = steps /\ log' = Nothing /\ UNCHANGED <<cmd, created>>
           /\ \A c \in AllCells : /\ cache'[c] = IF c \in DOMAIN log THEN log[c] ELSE cache[c]
                                  /\ medium'[c] = IF c \in DOMAIN log THEN log[c] ELSE medium[c]
           /\ log = Nothing => UNCHANGED <<cache, medium>>
<1>1. DOMAIN cache = AllCells /\ DOMAIN medium = AllCells
  BY DEF PoolFits, Fits
<1> QED BY <1>1, OverlayAt, OfNothing DEF Opened, OpenPool, Recovered, PoolFits

LEMMA AbortInvStep ==
    ASSUME TypeInv, [Next]_vars, ~IsStore, program \in Aborting, AbortsFirst
    PROVE  AbortsFirst'
<1>1. PoolFits
  BY DEF TypeInv
<1>2. CASE Evict /\ SameProcess
  BY <1>2, SampleSteps DEF Evict, SameProcess, AbortsFirst
<1>3. CASE PoolStep /\ phase = "running" /\ SameProcess
  <2>1. AbortAhead(code) => AbortAhead(code')
    BY <1>1, <1>3, AbortStep
  <2> QED BY <1>3, <2>1, SampleSteps DEF SameProcess, AbortsFirst
<1>4. CASE ~Reading /\ Opened(Sample[program].writer)
  <2>1. AbortAhead(code')
    BY <1>1, <1>4, OpenedCode, AbortWriters
  <2> QED BY <2>1 DEF AbortsFirst
<1>5. CASE Reading /\ (Opened(<<Close>>) \/ Opened(<<>>))
  <2>1. Reading'
    BY <1>5, SampleSteps DEF Opened
  <2> QED BY <2>1 DEF AbortsFirst
<1>6. CASE phase' # "running"
  BY <1>6 DEF AbortsFirst
<1>7. CASE UNCHANGED <<cache, medium, log, code, stage>> /\ SameProcess
  BY <1>7, SampleSteps DEF SameProcess, AbortsFirst
<1> QED BY <1>2, <1>3, <1>4, <1>5, <1>6, <1>7, SampleSteps

LEMMA PersistInvStep ==
    ASSUME TypeInv, [Next]_vars, ~IsStore, program \in Persisting, PersistsAll
    PROVE  PersistsAll'
<1>1. PoolFits /\ AllCells' = AllCells /\ UNCHANGED program
  BY SampleSteps DEF TypeInv
<1>2. data_oid \in AllCells /\ AllCells = CellsOf(Sample[program].writer) \cup {data_oid}
  <2>1. program \in SampleNames
    BY ProgramsAssumption DEF TypeInv, FileInv, IsStore
  <2> QED BY <2>1 DEF AllCells, Cells, IsStore, SampleCells
<1>3. CASE Evict /\ SameProcess
  <2>1. UNCHANGED <<log, cache, code, phase>> /\ (Reading' <=> Reading)
    BY <1>3, SampleSteps DEF Evict, SameProcess
  <2>2. \A c \in AllCells : medium'[c] = medium[c] \/ medium'[c] = cache[c]
    BY <1>1, <1>3, EvictIs
  <2> QED BY <1>1, <1>2, <2>1, <2>2 DEF PersistsAll, Persisted
<1>4. CASE PoolStep /\ phase = "running" /\ SameProcess
  <2>1. phase' = "running" /\ (Reading' <=> Reading)
    BY <1>4, SampleSteps DEF SameProcess
  <2>2. /\ Careful(code') /\ log' = Nothing /\ cache'[data_oid] = medium'[data_oid]
        /\ Persisted(code) => \A c \in AllCells : cache'[c] = medium'[c] \/ Persists(code', c)
    BY <1>1, <1>2, <1>4, PersistStep DEF PersistsAll
  <2> QED BY <1>1, <1>4, <2>1, <2>2 DEF PersistsAll, Persisted
<1>5. CASE ~Reading /\ Opened(Sample[program].writer)
  <2>1. code' = Sample[program].writer /\ UNCHANGED <<cache, medium>> /\ log' = Nothing
    BY <1>1, <1>5, OpenedCode DEF PersistsAll
  <2>2. Careful(code')
    BY <2>1, PersistingWriters
  <2>3. \A c \in AllCells : c = data_oid \/ Persists(code', c)
    BY <1>2, <2>1, <2>2, CarefulNames
  <2> QED BY <1>1, <2>1, <2>2, <2>3 DEF PersistsAll, Persisted
<1>6. CASE Reading /\ (Opened(<<Close>>) \/ Opened(<<>>))
  <2>1. /\ code' \in {<<Close>>, <<>>} /\ UNCHANGED <<cache, medium>> /\ log' = Nothing
        /\ UNCHANGED <<cmd, created>>
    BY <1>1, <1>6, OpenedCode DEF PersistsAll
  <2>2. Careful(<<Close>>) /\ Careful(<<>>)
    BY Steps DEF Careful, Listed, Covered
  <2>3. Reading'
    BY <1>6, <2>1, SampleSteps
  <2> QED BY <2>1, <2>2, <2>3 DEF PersistsAll
<1>7. CASE UNCHANGED <<cache, medium, log>> /\ phase' # "running"
  BY <1>7 DEF PersistsAll
<1>8. CASE cache' = medium /\ UNCHANGED <<medium, log>> /\ phase' # "running"
  BY <1>8 DEF PersistsAll
<1>9. CASE UNCHANGED <<cache, medium, log, code, stage>> /\ SameProcess
  BY <1>1, <1>9, SampleSteps DEF SameProcess, PersistsAll, Persisted
<1> QED BY <1>3, <1>4, <1>5, <1>6, <1>7, <1>8, <1>9, SampleSteps

LEMMA LoopInvStep ==
    ASSUME TypeInv, [Next]_vars, ~IsStore, program = "loop", LogsAll
    PROVE  LogsAll'
<1>1. PoolFits /\ AllCells' = AllCells /\ UNCHANGED program
  BY SampleSteps DEF TypeInv
<1>2. CASE Evict /\ SameProcess
  <2>1. UNCHANGED <<log, cache, code, phase, stage>>
    BY <1>2 DEF Evict, SameProcess
  <2>2. \A c \in AllCells : medium'[c] = medium[c] \/ medium'[c] = cache[c]
    BY <1>1, <1>2, EvictIs
  <2> QED BY <1>1, <2>1, <2>2 DEF LogsAll, Tight, InRound
<1>3. CASE PoolStep /\ phase = "running" /\ SameProcess
  BY <1>1, <1>3, RoundStep DEF SameProcess, LogsAll
<1>4. ASSUME NEW steps, Opened(steps), Rounds(steps),
             steps = <<>> \/ steps[1].op \in {"begin", "close"}
      PROVE  LogsAll'
  <2>1. code' = steps /\ log' = Nothing
        /\ \A c \in AllCells : /\ cache'[c] = IF c \in DOMAIN log THEN log[c] ELSE cache[c]
                               /\ medium'[c] = IF c \in DOMAIN log THEN log[c] ELSE medium[c]
    BY <1>1, <1>4, OpenedCode
  <2>2. Tight'
    BY <1>1, <2>1 DEF LogsAll, Tight
  <2>3. InRound'
    BY <1>4, <2>1 DEF InRound
  <2> QED BY <1>4, <2>1, <2>2, <2>3 DEF LogsAll
<1>5. CASE ~Reading /\ Opened(Sample[program].writer)
  <2>1. Sample[program] = loop
    BY DEF Sample
  <2> QED BY <1>4, <1>5, <2>1, LoopRounds
<1>6. CASE Reading /\ (Opened(<<Close>>) \/ Opened(<<>>))
  <2>1. Rounds(<<Close>>) /\ Rounds(<<>>) /\ <<Close>>[1].op = "close"
    BY Steps DEF Rounds, Listed, Turn
  <2> QED BY <1>4, <1>6, <2>1
<1>7. CASE UNCHANGED <<cache, medium, log>> /\ phase' # "running"
  BY <1>1, <1>7 DEF LogsAll, Tight
<1>8. CASE cache' = medium /\ UNCHANGED <<medium, log>> /\ phase' # "running"
  BY <1>1, <1>8 DEF LogsAll, Tight
<1>9. CASE UNCHANGED <<cache, medium, log, code, stage>> /\ SameProcess
  BY <1>1, <1>9 DEF SameProcess, LogsAll, Tight, InRound
<1> QED BY <1>2, <1>3, <1>5, <1>6, <1>7, <1>8, <1>9, SampleSteps

LEMMA SampleInvStep ==
    ASSUME TypeInv, SampleInv, [Next]_vars PROVE SampleInv'
<1>0. UNCHANGED program
  BY DEF Next, vars, now, Start, Create, Complete, CannotOpen, OpenToRead, ReaderDies,
     OpenToWrite, Work, Aborts, Exit, WriteBack, Killed, PowerFails, Dies
<1>1. program \in Aborting \/ program \in Persisting \/ program = "loop" => ~IsStore
  BY DEF Aborting, Persisting, IsStore, Stores
<1>2. Aborting' = Aborting /\ Persisting' = Persisting
  BY DEF Aborting, Persisting
<1> QED BY <1>0, <1>1, <1>2, AbortInvStep, PersistInvStep, LoopInvStep DEF SampleInv

LEMMA SampleInvInit ==
    ASSUME Init PROVE SampleInv
BY DEF Init, SampleInv, AbortsFirst, PersistsAll, LogsAll, Tight

LEMMA SampleInvariant == Spec => []SampleInv
<1>1. TypeInv /\ SampleInv /\ [Next]_vars => SampleInv'
  BY SampleInvStep
<1> QED BY SampleInvInit, TypeInvariant, <1>1, PTL DEF Spec

LEMMA SampleLeaves ==
    ASSUME TypeInv, SampleInv, ~IsStore, phase = "running", code = <<>>, ~Reading,
           program \notin Careless
    PROVE  log = Nothing /\ Loose = {}
<1>1. program \in Aborting \/ program \in Persisting \/ program = "loop"
  <2>1. program \in SampleNames
    BY ProgramsAssumption DEF TypeInv, FileInv, IsStore
  <2> QED BY <2>1 DEF SampleNames, Sample, Aborting, Persisting, Careless
<1>2. DOMAIN medium = AllCells /\ Len(<<>>) = 0
  BY EmptySeq DEF TypeInv, PoolFits, Fits
<1>3. program \notin Aborting
  <2>1. 1 .. 0 = {}
    OBVIOUS
  <2> QED BY <1>2, <2>1 DEF SampleInv, AbortsFirst, AbortAhead
<1>4. CASE program \in Persisting
  <2>1. \A c : ~Persists(code, c)
    <3>1. 1 .. 0 = {}
      OBVIOUS
    <3> QED BY <1>2, <3>1 DEF Persists
  <2> QED BY <1>2, <1>4, <2>1 DEF SampleInv, PersistsAll, Persisted, Loose
<1>5. CASE program = "loop"
  BY <1>2, <1>5 DEF SampleInv, LogsAll, InRound, Tight, Loose
<1> QED BY <1>1, <1>3, <1>4, <1>5

=============================================================================
