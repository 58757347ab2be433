-------------------------- MODULE PersistCountProofs -------------------------
(* The persist counts are kept: for any places of calls, sizes of the      *)
(* tables, runs, calls, kills and failures.  The argument has four parts:  *)
(* what reading makes of a file, also of one that was cut off or lost      *)
(* writes (Framed, Traced); that reading what was written from a table     *)
(* gives the table Merged with the runs before; what a call and a charge   *)
(* do to the entries (Called); and the invariant CInv, which ties the file *)
(* and the tables to the ledger.                                           *)
EXTENDS PersistCount, SequenceTheorems, FiniteSetTheorems, TLAPS

(* Folds are over sequences of any length, so their lemmas are proved by   *)
(* induction: on the naturals here, on sequences in SeqGrows.              *)

LEMMA NatSet ==
    ASSUME NEW S, 0 \in S, \A n \in Nat : n \in S => n + 1 \in S
    PROVE  Nat \subseteq S
<1>1. SUFFICES ASSUME NEW m \in Nat, m \notin S PROVE FALSE
  OBVIOUS
<1> DEFINE T == {0 .. n : n \in Nat \ S}
<1>2. T \subseteq FiniteSubsetsOf(Nat)
  <2>1. ASSUME NEW n \in Nat \ S PROVE 0 .. n \in SUBSET Nat /\ IsFiniteSet(0 .. n)
    <3>1. 0 \in Int /\ n \in Int
      OBVIOUS
    <3>2. IsFiniteSet(0 .. n)
      BY <3>1, FS_Interval, Zenon
    <3>3. 0 .. n \in SUBSET Nat
      OBVIOUS
    <3> QED BY <3>2, <3>3
  <2> QED BY <2>1, Zenon DEF FiniteSubsetsOf
<1>3. T # {}
  BY <1>1
<1>4. PICK x \in T : \A y \in T : <<y, x>> \notin StrictSubsetOrdering(Nat)
  BY <1>2, <1>3, WFMin, FS_StrictSubsetOrderingWellFounded, Zenon
<1>5. PICK n \in Nat \ S : x = 0 .. n
  OBVIOUS
<1>6. n - 1 \in Nat /\ n - 1 \notin S
  BY <1>5
<1>7. 0 .. (n - 1) \in T
  BY <1>6
<1>8. <<0 .. (n - 1), 0 .. n>> \in StrictSubsetOrdering(Nat)
  <2>1. 0 .. (n - 1) \in SUBSET Nat /\ 0 .. n \in SUBSET Nat
    BY <1>6
  <2>2. n \notin 0 .. (n - 1) /\ n \in 0 .. n /\ 0 .. (n - 1) \subseteq 0 .. n
    BY <1>6
  <2> QED BY <2>1, <2>2 DEF StrictSubsetOrdering
<1> QED BY <1>4, <1>5, <1>7, <1>8

LEMMA NatMin ==
    ASSUME NEW T, T \subseteq Nat, T # {}
    PROVE  \E m \in T : \A n \in T : m <= n
<1>1. SUFFICES ASSUME \A m \in T : \E n \in T : ~(m <= n) PROVE FALSE
  OBVIOUS
<1> DEFINE S == {k \in Nat : \A i \in T : k <= i}
<1>2. 0 \in S
  OBVIOUS
<1>3. ASSUME NEW k \in Nat, k \in S PROVE k + 1 \in S
  <2>1. k \notin T
    BY <1>1, <1>3
  <2>2. \A i \in T : i # k /\ k <= i /\ i \in Nat
    BY <2>1, <1>3
  <2>3. \A i \in T : k + 1 <= i
    BY <2>2
  <2> QED BY <2>3
<1>4. Nat \subseteq S
  <2> HIDE DEF S
  <2> QED BY <1>2, <1>3, NatSet
<1>5. PICK m \in T : TRUE
  OBVIOUS
<1>6. m + 1 \in Nat /\ m + 1 \notin S
  BY <1>5
<1> QED BY <1>4, <1>6


LEMMA MaxIs ==
    ASSUME NEW n \in Nat, NEW s \in SUBSET (1 .. n), s # {}
    PROVE  /\ Max(s) \in s
           /\ \A i \in s : Max(s) >= i
<1>1. \E x \in s : \A i \in s : x >= i
  <2> DEFINE T == {n - i : i \in s}
  <2>0. (\A i \in s : i \in 1 .. n) /\ \E i \in s : TRUE
    OBVIOUS
  <2>1. T \subseteq Nat /\ T # {}
    BY <2>0
  <2>2. PICK m \in T : \A k \in T : m <= k
    BY <2>1, NatMin, Zenon
  <2>3. PICK x \in s : m = n - x
    BY <2>2
  <2>4. \A i \in s : n - i \in T
    OBVIOUS
  <2>5. \A i \in s : n - x <= n - i
    BY <2>2, <2>3, <2>4
  <2> QED BY <2>5
<1> QED BY <1>1 DEF Max

(* FoldLeft takes its sequence from the left: of Take, and of a sum.       *)
Step(d, a, b) == IF d = "take" THEN Take(a, b) ELSE a + b[d]

IterIs(d, u, f, n, h) == \A s \in SUBSET (1 .. n) :
    h[s] = IF s = {} THEN u ELSE Step(d, h[s \ {Max(s)}], f[Max(s)])

IterTo(d, u, f, n, h) == h = [s \in SUBSET (1 .. n) |->
    IF s = {} THEN u ELSE Step(d, h[s \ {Max(s)}], f[Max(s)])]

LEMMA IterExists ==
    ASSUME NEW d, NEW u, NEW f, NEW n \in Nat
    PROVE  \E h : IterTo(d, u, f, n, h)
<1> DEFINE Is(h, m) == h = [s \in SUBSET (1 .. m) |->
               IF s = {} THEN u ELSE Step(d, h[s \ {Max(s)}], f[Max(s)])]
           S == {m \in Nat : \E h : Is(h, m)}
<1>1. 0 \in S
  <2> DEFINE h == [s \in SUBSET (1 .. 0) |-> u]
  <2>1. \A s \in SUBSET (1 .. 0) : s = {}
    OBVIOUS
  <2>2. Is(h, 0)
    BY <2>1, Zenon
  <2> QED BY <2>2
<1>2. ASSUME NEW m \in Nat, m \in S PROVE m + 1 \in S
  <2>1. PICK h : Is(h, m)
    BY <1>2
  <2> DEFINE k == m + 1
             g == [s \in SUBSET (1 .. k) |->
                      IF k \in s THEN Step(d, h[s \ {k}], f[k]) ELSE h[s]]
             V(s) == IF s = {} THEN u ELSE Step(d, g[s \ {Max(s)}], f[Max(s)])
  <2>2. ASSUME NEW s \in SUBSET (1 .. k) PROVE g[s] = V(s)
    <3>1. CASE k \in s
      <4>1. Max(s) = k
        <5>1. Max(s) \in s /\ \A i \in s : Max(s) >= i
          BY <3>1, MaxIs, k \in Nat
        <5>2. Max(s) \in 1 .. k /\ Max(s) >= k
          BY <5>1, <3>1
        <5> QED BY <5>2
      <4>2. s \ {k} \in SUBSET (1 .. k) /\ k \notin s \ {k}
        OBVIOUS
      <4>3. g[s \ {k}] = h[s \ {k}]
        BY <4>2, Zenon
      <4>4. g[s] = Step(d, h[s \ {k}], f[k]) /\ s # {}
        BY <3>1, Zenon
      <4> QED BY <4>1, <4>3, <4>4, Zenon
    <3>2. CASE k \notin s /\ s # {}
      <4>1. s \in SUBSET (1 .. m)
        BY <3>2
      <4>2. h[s] = Step(d, h[s \ {Max(s)}], f[Max(s)])
        BY <2>1, <4>1, <3>2, Zenon
      <4>3. s \ {Max(s)} \in SUBSET (1 .. k) /\ k \notin s \ {Max(s)}
        BY <3>2
      <4>4. g[s] = h[s] /\ g[s \ {Max(s)}] = h[s \ {Max(s)}]
        BY <3>2, <4>3, Zenon
      <4> QED BY <4>2, <4>4, <3>2, Zenon
    <3>3. CASE s = {}
      <4>1. s \in SUBSET (1 .. m) /\ k \notin s
        BY <3>3
      <4>2. h[s] = u /\ g[s] = h[s]
        BY <4>1, <3>3, <2>1, Zenon
      <4> QED BY <4>2, <3>3, Zenon
    <3> QED BY <3>1, <3>2, <3>3
  <2>3. g = [s \in SUBSET (1 .. k) |-> V(s)]
    BY <2>2, Zenon
  <2>4. Is(g, k)
    BY <2>3
  <2>5. \E x : Is(x, k)
    <3> HIDE DEF Is, g
    <3> QED BY <2>4, Zenon
  <2>6. k \in Nat
    OBVIOUS
  <2> HIDE DEF Is
  <2> QED BY <2>5, <2>6, Zenon
<1>3. n \in S
  <2> HIDE DEF S
  <2> QED BY <1>1, <1>2, NatSet
<1> QED BY <1>3, Zenon DEF IterTo

(* The step of a fold over one element more. *)
LEMMA IterMore ==
    ASSUME NEW d, NEW u, NEW f, NEW g, NEW a, NEW b, NEW n \in Nat,
           \A i \in 1 .. n : g[i] = f[i],
           IterIs(d, u, f, n, a), IterIs(d, u, g, n + 1, b)
    PROVE  b[1 .. n + 1] = Step(d, a[1 .. n], g[n + 1])
<1>1. ASSUME NEW m \in Nat, m # 0
      PROVE  /\ Max(1 .. m) = m /\ (1 .. m) \ {m} = 1 .. m - 1 /\ 1 .. m # {}
  <2>1. 1 .. m # {} /\ 1 .. m \in SUBSET (1 .. m)
    <3>1. 1 \in 1 .. m
      BY <1>1
    <3> QED BY <3>1
  <2>2. Max(1 .. m) \in 1 .. m /\ \A i \in 1 .. m : Max(1 .. m) >= i
    BY <2>1, MaxIs, Zenon
  <2>3. Max(1 .. m) = m
    BY <2>2, <1>1
  <2> QED BY <2>1, <2>3, <1>1
<1>2. ASSUME NEW m \in Nat, m # 0, m <= n + 1
      PROVE  b[1 .. m] = Step(d, b[1 .. m - 1], g[m])
  <2>1. 1 .. m \in SUBSET (1 .. n + 1)
    BY <1>2
  <2> QED BY <1>1, <1>2, <2>1, Zenon DEF IterIs
<1>3. ASSUME NEW m \in Nat, m # 0, m <= n
      PROVE  a[1 .. m] = Step(d, a[1 .. m - 1], f[m])
  <2>1. 1 .. m \in SUBSET (1 .. n)
    BY <1>3
  <2> QED BY <1>1, <1>3, <2>1, Zenon DEF IterIs
<1> DEFINE T == {m \in Nat : m <= n => a[1 .. m] = b[1 .. m]}
<1>4. 0 \in T
  <2>1. 1 .. 0 = {} /\ {} \in SUBSET (1 .. n) /\ {} \in SUBSET (1 .. n + 1)
    OBVIOUS
  <2>2. a[{}] = u /\ b[{}] = u
    BY <2>1, Zenon DEF IterIs
  <2> QED BY <2>1, <2>2
<1>5. ASSUME NEW m \in Nat, m \in T PROVE m + 1 \in T
  <2>1. SUFFICES ASSUME m + 1 <= n PROVE a[1 .. m + 1] = b[1 .. m + 1]
    BY <1>5
  <2>2. PICK k : k = m + 1
    OBVIOUS
  <2>3. k \in Nat /\ k # 0 /\ k <= n /\ k <= n + 1 /\ k - 1 = m /\ k \in 1 .. n /\ m <= n
    BY <2>1, <2>2
  <2>4. a[1 .. m] = b[1 .. m]
    BY <1>5, <2>3
  <2>5. a[1 .. k] = Step(d, a[1 .. m], f[k]) /\ b[1 .. k] = Step(d, b[1 .. m], g[k])
    BY <1>2, <1>3, <2>3, Zenon
  <2>6. g[k] = f[k]
    BY <2>3
  <2> QED BY <2>2, <2>4, <2>5, <2>6, Zenon
<1>6. n \in T
  <2> HIDE DEF T
  <2> QED BY <1>4, <1>5, NatSet
<1>7. a[1 .. n] = b[1 .. n]
  BY <1>6
<1>8. n + 1 \in Nat /\ n + 1 # 0 /\ n + 1 <= n + 1 /\ n + 1 - 1 = n
  OBVIOUS
<1>9. b[1 .. n + 1] = Step(d, b[1 .. n], g[n + 1])
  <2>1. PICK k : k = n + 1
    OBVIOUS
  <2>2. k \in Nat /\ k # 0 /\ k <= n + 1 /\ k - 1 = n
    BY <2>1
  <2>3. b[1 .. k] = Step(d, b[1 .. k - 1], g[k])
    BY <1>2, <2>2
  <2> QED BY <2>1, <2>2, <2>3, Zenon
<1> QED BY <1>7, <1>9, Zenon

TakeIter(u, f) == CHOOSE iter : iter = [s \in SUBSET DOMAIN f |->
    IF s = {} THEN u ELSE Take(iter[s \ {Max(s)}], f[Max(s)])]

SumIter(d, f) == CHOOSE iter : iter = [s \in SUBSET DOMAIN f |->
    IF s = {} THEN 0 ELSE iter[s \ {Max(s)}] + f[Max(s)][d]]

LEMMA TakeIterIs ==
    ASSUME NEW u, NEW f, NEW n \in Nat, DOMAIN f = 1 .. n
    PROVE  IterIs("take", u, f, n, TakeIter(u, f))
<1>1. PICK h : IterTo("take", u, f, n, h)
  BY IterExists, Zenon
<1> DEFINE J(i) == i = [s \in SUBSET DOMAIN f |->
               IF s = {} THEN u ELSE Take(i[s \ {Max(s)}], f[Max(s)])]
<1>2. J(h)
  BY <1>1 DEF Step, IterTo
<1>3. J(CHOOSE i : J(i))
  <2> HIDE DEF J
  <2> QED BY <1>2, Zenon
<1>4. J(TakeIter(u, f))
  BY <1>3, Zenon DEF TakeIter
<1> QED BY <1>4 DEF IterIs, Step

LEMMA SumIterIs ==
    ASSUME NEW d, d # "take", NEW f, NEW n \in Nat, DOMAIN f = 1 .. n
    PROVE  IterIs(d, 0, f, n, SumIter(d, f))
<1>1. PICK h : IterTo(d, 0, f, n, h)
  BY IterExists, Zenon
<1> DEFINE J(i) == i = [s \in SUBSET DOMAIN f |->
               IF s = {} THEN 0 ELSE i[s \ {Max(s)}] + f[Max(s)][d]]
<1>2. J(h)
  BY <1>1 DEF Step, IterTo
<1>3. J(CHOOSE i : J(i))
  <2> HIDE DEF J
  <2> QED BY <1>2, Zenon
<1>4. J(SumIter(d, f))
  BY <1>3, Zenon DEF SumIter
<1> QED BY <1>4 DEF IterIs, Step

LEMMA FoldIs ==
    ASSUME NEW f, NEW n \in Nat, DOMAIN f = 1 .. n
    PROVE  /\ \A u : FoldLeft(Take, u, f) = TakeIter(u, f)[1 .. n]
           /\ \A d : Total(f, d) = SumIter(d, f)[1 .. n]
BY DEF Total, FoldLeft, MapThenFoldSet, TakeIter, SumIter

LEMMA FoldOfNothing ==
    /\ \A u : FoldLeft(Take, u, <<>>) = u
    /\ \A d : d # "take" => Total(<<>>, d) = 0
<1>1. DOMAIN <<>> = 1 .. 0 /\ 1 .. 0 = {} /\ {} \in SUBSET (1 .. 0) /\ 0 \in Nat
  OBVIOUS
<1>2. ASSUME NEW u PROVE FoldLeft(Take, u, <<>>) = u
  <2>1. IterIs("take", u, <<>>, 0, TakeIter(u, <<>>))
    BY <1>1, TakeIterIs, Zenon
  <2>2. FoldLeft(Take, u, <<>>) = TakeIter(u, <<>>)[1 .. 0]
    BY <1>1, FoldIs, Zenon
  <2> QED BY <1>1, <2>1, <2>2, Zenon DEF IterIs
<1>3. ASSUME NEW d, d # "take" PROVE Total(<<>>, d) = 0
  <2>1. IterIs(d, 0, <<>>, 0, SumIter(d, <<>>))
    BY <1>1, <1>3, SumIterIs, Zenon
  <2>2. Total(<<>>, d) = SumIter(d, <<>>)[1 .. 0]
    BY <1>1, FoldIs, Zenon
  <2> QED BY <1>1, <2>1, <2>2, Zenon DEF IterIs
<1> QED BY <1>2, <1>3, Zenon

LEMMA FoldOfOneMore ==
    ASSUME NEW S, NEW f \in Seq(S), NEW r \in S
    PROVE  /\ \A u : FoldLeft(Take, u, Append(f, r)) = Take(FoldLeft(Take, u, f), r)
           /\ \A d : d # "take" => Total(Append(f, r), d) = Total(f, d) + r[d]
<1> DEFINE g == Append(f, r)
           n == Len(f)
<1>1. /\ n \in Nat /\ DOMAIN f = 1 .. n /\ DOMAIN g = 1 .. n + 1
      /\ g[n + 1] = r
  OBVIOUS
<1>2. n + 1 \in Nat
  BY <1>1
<1>5. \A i \in 1 .. n : g[i] = f[i]
  OBVIOUS
<1> HIDE DEF g, n
<1>3. ASSUME NEW u PROVE FoldLeft(Take, u, g) = Take(FoldLeft(Take, u, f), r)
  <2>1. /\ IterIs("take", u, f, n, TakeIter(u, f))
        /\ IterIs("take", u, g, n + 1, TakeIter(u, g))
    BY <1>1, <1>2, TakeIterIs, Zenon
  <2>2. TakeIter(u, g)[1 .. n + 1] = Step("take", TakeIter(u, f)[1 .. n], g[n + 1])
    BY <1>1, <1>5, <2>1, IterMore
  <2>3. /\ FoldLeft(Take, u, f) = TakeIter(u, f)[1 .. n]
        /\ FoldLeft(Take, u, g) = TakeIter(u, g)[1 .. n + 1]
    BY <1>1, <1>2, FoldIs, Zenon
  <2> QED BY <1>1, <2>2, <2>3, Zenon DEF Step
<1>4. ASSUME NEW d, d # "take" PROVE Total(g, d) = Total(f, d) + r[d]
  <2>1. /\ IterIs(d, 0, f, n, SumIter(d, f))
        /\ IterIs(d, 0, g, n + 1, SumIter(d, g))
    BY <1>1, <1>2, <1>4, SumIterIs, Zenon
  <2>2. SumIter(d, g)[1 .. n + 1] = Step(d, SumIter(d, f)[1 .. n], g[n + 1])
    BY <1>1, <1>5, <2>1, IterMore
  <2>3. /\ Total(f, d) = SumIter(d, f)[1 .. n]
        /\ Total(g, d) = SumIter(d, g)[1 .. n + 1]
    BY <1>1, <1>2, FoldIs, Zenon
  <2> QED BY <1>1, <1>4, <2>2, <2>3, Zenon DEF Step
<1> QED BY <1>3, <1>4, Zenon DEF g

(* FlattenSeq, from the left. *)
FlatIs(f, n, h) == \A i \in 1 .. n : h[i] = IF i = 1 THEN f[i] ELSE h[i - 1] \o f[i]

FlatTo(f, n, h) == h = [i \in 1 .. n |-> IF i = 1 THEN f[i] ELSE h[i - 1] \o f[i]]

LEMMA FlatExists ==
    ASSUME NEW f, NEW n \in Nat
    PROVE  \E h : FlatTo(f, n, h)
<1> DEFINE S == {m \in Nat : \E h : FlatTo(f, m, h)}
<1>1. 0 \in S
  <2> DEFINE h == [i \in 1 .. 0 |-> 0]
  <2>1. \A i \in 1 .. 0 : FALSE
    OBVIOUS
  <2>2. h = [i \in 1 .. 0 |-> IF i = 1 THEN f[i] ELSE h[i - 1] \o f[i]]
    BY <2>1, Zenon
  <2>3. FlatTo(f, 0, h)
    BY <2>2, Zenon DEF FlatTo
  <2> QED BY <2>3
<1>2. ASSUME NEW m \in Nat, m \in S PROVE m + 1 \in S
  <2>1. PICK h : FlatTo(f, m, h)
    BY <1>2
  <2>2. PICK k : k = m + 1
    OBVIOUS
  <2>3. k \in Nat /\ k - 1 = m
    BY <2>2
  <2> DEFINE g == [i \in 1 .. k |-> IF i = 1 THEN f[i] ELSE h[i - 1] \o f[i]]
  <2>4. ASSUME NEW i \in 1 .. m PROVE h[i] = g[i]
    <3>1. i \in 1 .. k
      BY <2>3
    <3> QED BY <2>1, <3>1, Zenon DEF FlatTo
  <2>5. ASSUME NEW i \in 1 .. k PROVE g[i] = IF i = 1 THEN f[i] ELSE g[i - 1] \o f[i]
    <3>1. CASE i = 1
      BY <3>1, Zenon
    <3>2. CASE i # 1
      <4>1. i - 1 \in 1 .. m
        BY <2>3, <3>2
      <4>2. h[i - 1] = g[i - 1]
        BY <2>4, <4>1, Zenon
      <4> QED BY <3>2, <4>2, Zenon
    <3> QED BY <3>1, <3>2
  <2>6. FlatTo(f, k, g)
    BY <2>5, Zenon DEF FlatTo
  <2>7. \E x : FlatTo(f, k, x)
    <3> HIDE DEF g
    <3> QED BY <2>6, Zenon
  <2> QED BY <2>2, <2>3, <2>7, Zenon
<1>3. n \in S
  <2> HIDE DEF S
  <2> QED BY <1>1, <1>2, NatSet
<1> QED BY <1>3

Flat(f) == CHOOSE flatten : flatten = [i \in 1 .. Len(f) |->
    IF i = 1 THEN f[i] ELSE flatten[i - 1] \o f[i]]

LEMMA FlattenIs ==
    ASSUME NEW f, Len(f) \in Nat
    PROVE  /\ FlatIs(f, Len(f), Flat(f))
           /\ FlattenSeq(f) = IF Len(f) = 0 THEN f ELSE Flat(f)[Len(f)]
<1> DEFINE J(h) == h = [i \in 1 .. Len(f) |-> IF i = 1 THEN f[i] ELSE h[i - 1] \o f[i]]
<1>1. \E h : J(h)
  BY FlatExists, Zenon DEF FlatTo
<1>2. J(CHOOSE h : J(h))
  <2> HIDE DEF J
  <2> QED BY <1>1, Zenon
<1>3. J(Flat(f))
  BY <1>2, Zenon DEF Flat
<1>4. FlatIs(f, Len(f), Flat(f))
  BY <1>3, Zenon DEF FlatIs
<1>5. FlattenSeq(f) = IF Len(f) = 0 THEN f ELSE Flat(f)[Len(f)]
  BY Zenon DEF FlattenSeq, Flat
<1> QED BY <1>4, <1>5

LEMMA FlatUnique ==
    ASSUME NEW f, NEW g, NEW a, NEW b, NEW n \in Nat, NEW m \in Nat, n <= m,
           \A i \in 1 .. n : g[i] = f[i],
           FlatIs(f, n, a), FlatIs(g, m, b)
    PROVE  \A i \in 1 .. n : a[i] = b[i]
<1> DEFINE T == {i \in Nat : i \in 1 .. n => a[i] = b[i]}
<1>1. 0 \in T
  OBVIOUS
<1>2. ASSUME NEW i \in Nat, i \in T PROVE i + 1 \in T
  <2>1. PICK k : k = i + 1
    OBVIOUS
  <2>2. k \in Nat /\ k - 1 = i
    BY <2>1
  <2>3. SUFFICES ASSUME k \in 1 .. n PROVE a[k] = b[k]
    BY <2>1, <2>2
  <2>4. /\ a[k] = IF k = 1 THEN f[k] ELSE a[i] \o f[k]
        /\ b[k] = IF k = 1 THEN g[k] ELSE b[i] \o g[k]
    <3>1. k \in 1 .. m
      BY <2>3
    <3> QED BY <2>2, <2>3, <3>1, Zenon DEF FlatIs
  <2>5. g[k] = f[k]
    BY <2>3
  <2>6. k # 1 => i \in 1 .. n
    BY <2>2, <2>3
  <2>7. k # 1 => a[i] = b[i]
    BY <1>2, <2>6
  <2> QED BY <2>4, <2>5, <2>7, Zenon
<1>3. Nat \subseteq T
  <2> HIDE DEF T
  <2> QED BY <1>1, <1>2, NatSet
<1> QED BY <1>3

LEMMA FlattenNothing == FlattenSeq(<<>>) = <<>>
BY DEF FlattenSeq

(* The pieces of a text, put together piece by piece. *)
LEMMA FlattenOneMore ==
    ASSUME NEW R, NEW f \in Seq(Seq(R)), NEW s \in Seq(R)
    PROVE  FlattenSeq(Append(f, s)) = FlattenSeq(f) \o s
<1> DEFINE g == Append(f, s)
           n == Len(f)
<1>1. /\ n \in Nat /\ Len(g) = n + 1 /\ Len(g) \in Nat /\ n <= Len(g) /\ Len(g) # 0
      /\ g[n + 1] = s
  OBVIOUS
<1>2. \A i \in 1 .. n : g[i] = f[i]
  OBVIOUS
<1>3. /\ FlatIs(f, n, Flat(f)) /\ FlatIs(g, Len(g), Flat(g))
      /\ FlattenSeq(f) = IF n = 0 THEN f ELSE Flat(f)[n]
      /\ FlattenSeq(g) = IF Len(g) = 0 THEN g ELSE Flat(g)[Len(g)]
  <2> HIDE DEF g
  <2> QED BY <1>1, FlattenIs, Zenon
<1>4. n = 0 => f = <<>>
  OBVIOUS
<1> HIDE DEF g, n
<1>5. \A i \in 1 .. n : Flat(f)[i] = Flat(g)[i]
  BY <1>1, <1>2, <1>3, FlatUnique
<1>6. PICK k : k = n + 1
  OBVIOUS
<1>7. k \in 1 .. Len(g) /\ k = Len(g) /\ k - 1 = n /\ (k = 1 <=> n = 0)
  BY <1>1, <1>6
<1>8. FlattenSeq(g) = IF k = 1 THEN s ELSE Flat(g)[n] \o s
  BY <1>1, <1>3, <1>6, <1>7, Zenon DEF FlatIs
<1>9. CASE n = 0
  <2>1. FlattenSeq(f) = <<>> /\ FlattenSeq(g) = s
    BY <1>3, <1>4, <1>7, <1>8, <1>9, Zenon
  <2>2. <<>> \o s = s
    OBVIOUS
  <2> QED BY <2>1, <2>2, Zenon DEF g
<1>10. CASE n # 0
  <2>1. n \in 1 .. n
    BY <1>1, <1>10
  <2>2. FlattenSeq(f) = Flat(g)[n] /\ FlattenSeq(g) = Flat(g)[n] \o s
    BY <1>3, <1>5, <1>7, <1>8, <1>10, <2>1, Zenon
  <2> QED BY <2>2, Zenon DEF g
<1> QED BY <1>9, <1>10

-----------------------------------------------------------------------------
(* Induction on a sequence; and the types of tables and of the text. *)

LEMMA SeqGrows ==
    ASSUME NEW R, NEW T, <<>> \in T,
           \A f \in Seq(R) : \A r \in R : f \in T => Append(f, r) \in T
    PROVE  Seq(R) \subseteq T
<1> DEFINE S == {n \in Nat : \A f \in Seq(R) : Len(f) = n => f \in T}
<1>1. 0 \in S
  <2>1. \A f \in Seq(R) : Len(f) = 0 => f = <<>>
    OBVIOUS
  <2> QED BY <2>1
<1>2. ASSUME NEW n \in Nat, n \in S PROVE n + 1 \in S
  <2>1. SUFFICES ASSUME NEW f \in Seq(R), Len(f) = n + 1 PROVE f \in T
    OBVIOUS
  <2> DEFINE g == [i \in 1 .. n |-> f[i]]
             r == f[n + 1]
  <2>2. /\ \A i \in 1 .. n : f[i] \in R
        /\ r \in R
    BY <2>1, ElementOfSeq
  <2>3. g \in Seq(R) /\ Len(g) = n
    BY <2>2
  <2>4. f = Append(g, r)
    <3>1. Append(g, r) \in Seq(R) /\ Len(Append(g, r)) = Len(f)
      BY <2>1, <2>2, <2>3
    <3>2. \A i \in 1 .. Len(f) : Append(g, r)[i] = f[i]
      BY <2>1, <2>2, <2>3
    <3> HIDE DEF g, r
    <3> QED BY <3>1, <3>2, SeqEqual
  <2>5. g \in T
    BY <1>2, <2>3
  <2> HIDE DEF g, r
  <2> QED BY <2>2, <2>3, <2>4, <2>5
<1>3. Nat \subseteq S
  <2> HIDE DEF S
  <2> QED BY <1>1, <1>2, NatSet
<1>4. \A f \in Seq(R) : Len(f) \in Nat
  OBVIOUS
<1> QED BY <1>3, <1>4

(* One element replaced. *)
LEMMA PutIs ==
    ASSUME NEW S, NEW s \in Seq(S), NEW i, NEW v, i \in DOMAIN s => v \in S
    PROVE  /\ [s EXCEPT ![i] = v] \in Seq(S)
           /\ Len([s EXCEPT ![i] = v]) = Len(s)
           /\ DOMAIN [s EXCEPT ![i] = v] = DOMAIN s
           /\ \A k \in DOMAIN s : [s EXCEPT ![i] = v][k] = IF k = i THEN v ELSE s[k]
           /\ i \notin DOMAIN s => [s EXCEPT ![i] = v] = s
<1> DEFINE r == [s EXCEPT ![i] = v]
<1>1. Len(s) \in Nat /\ DOMAIN s = 1 .. Len(s) /\ \A k \in 1 .. Len(s) : s[k] \in S
  OBVIOUS
<1>2. r = [k \in 1 .. Len(s) |-> IF k = i THEN v ELSE s[k]]
  BY <1>1
<1>3. \A k \in 1 .. Len(s) : r[k] \in S
  BY <1>1, <1>2
<1>4. r \in Seq(S) /\ Len(r) = Len(s)
  <2> HIDE DEF r
  <2>1. r = [k \in 1 .. Len(s) |-> r[k]]
    BY <1>2
  <2> QED BY <2>1, <1>1, <1>3
<1>5. i \notin DOMAIN s => r = s
  <2>1. i \notin DOMAIN s => \A k \in 1 .. Len(s) : r[k] = s[k]
    BY <1>1, <1>2
  <2>2. s = [k \in 1 .. Len(s) |-> s[k]]
    BY <1>1
  <2> QED BY <1>2, <2>1, <2>2, <1>1
<1> QED BY <1>1, <1>2, <1>4, <1>5

-----------------------------------------------------------------------------
(* The tables and what is written of them. *)

FileNames == {p.file : p \in Places}
LineNames == {p.line : p \in Places}
Traces    == {p.bt : p \in Places} \cup {""}

Stack == [bt : Traces, count : Nat, prev : Nat, abort : Nat]

Line == [line : LineNames, count : Nat, prev : Nat, abort : Nat, stacks : Seq(Stack)]

File == [name : FileNames, lines : Seq(Line)]

Tables == Seq(File)

Records ==
    [kind : {"file"}, name : FileNames]
    \cup [kind : {"line"}, line : LineNames, count : Nat, abort : Nat]
    \cup [kind : {"stack"}, count : Nat, abort : Nat]
    \cup [kind : {"trace"}, bt : Traces]
    \cup [kind : {"end"}]

Kinds == {"file", "line", "stack", "trace", "end"}

LEMMA RecordIs ==
    ASSUME NEW r \in Records
    PROVE  /\ r.kind \in Kinds
           /\ r.kind = "file" => r.name \in FileNames
           /\ r.kind = "line" => r.line \in LineNames /\ r.count \in Nat /\ r.abort \in Nat
           /\ r.kind = "stack" => r.count \in Nat /\ r.abort \in Nat
           /\ r.kind = "trace" => r.bt \in Traces
BY DEF Records, Kinds

NewFile(n) == [name |-> n, lines |-> <<>>]

NewLine(r) == [line |-> r.line, count |-> 0, prev |-> r.count, abort |-> r.abort,
               stacks |-> <<>>]

OldStack(r) == [bt |-> "", count |-> 0, prev |-> r.count, abort |-> r.abort]

(* The last file and the last line, which are what is read into. *)
LastLines(t) == t[Len(t)].lines

HasLine(t) == Len(t) # 0 /\ Len(LastLines(t)) # 0

LastLine(t) == LastLines(t)[Len(LastLines(t))]

WithLines(t, ls) == [t EXCEPT ![Len(t)] = [t[Len(t)] EXCEPT !.lines = ls]]

WithStacks(t, ss) == WithLines(t, [LastLines(t) EXCEPT
    ![Len(LastLines(t))] = [LastLine(t) EXCEPT !.stacks = ss]])

Named(ss, bt) == [ss EXCEPT ![Len(ss)] = [ss[Len(ss)] EXCEPT !.bt = bt]]

LEMMA LastIs ==
    ASSUME NEW t \in Tables, Len(t) # 0
    PROVE  /\ Len(t) \in DOMAIN t /\ t[Len(t)] \in File
           /\ LastLines(t) \in Seq(Line)
           /\ HasLine(t) => /\ Len(LastLines(t)) \in DOMAIN LastLines(t)
                            /\ LastLine(t) \in Line /\ LastLine(t).stacks \in Seq(Stack)
<1>1. Len(t) \in DOMAIN t /\ t[Len(t)] \in File
  BY DEF Tables
<1>2. LastLines(t) \in Seq(Line)
  BY <1>1 DEF LastLines, File
<1>3. ASSUME HasLine(t)
      PROVE  /\ Len(LastLines(t)) \in DOMAIN LastLines(t) /\ LastLine(t) \in Line
             /\ LastLine(t).stacks \in Seq(Stack)
  <2>1. Len(LastLines(t)) \in DOMAIN LastLines(t) /\ LastLine(t) \in Line
    BY <1>2, <1>3 DEF HasLine, LastLine
  <2> QED BY <2>1 DEF Line
<1> QED BY <1>1, <1>2, <1>3

LEMMA WithLinesIs ==
    ASSUME NEW t \in Tables, Len(t) # 0, NEW ls \in Seq(Line)
    PROVE  /\ WithLines(t, ls) \in Tables /\ Len(WithLines(t, ls)) = Len(t)
           /\ DOMAIN WithLines(t, ls) = DOMAIN t
           /\ \A i \in DOMAIN t : WithLines(t, ls)[i].name = t[i].name
           /\ \A i \in DOMAIN t : i # Len(t) => WithLines(t, ls)[i] = t[i]
           /\ WithLines(t, ls)[Len(t)].lines = ls
<1> DEFINE f == [t[Len(t)] EXCEPT !.lines = ls]
<1>1. /\ f \in File /\ f.lines = ls /\ f.name = t[Len(t)].name
  BY LastIs DEF File
<1>2. Len(t) \in DOMAIN t /\ t \in Seq(File)
  BY LastIs DEF Tables
<1>3. PICK x : x = f
  OBVIOUS
<1>4. WithLines(t, ls) = [t EXCEPT ![Len(t)] = x]
  BY <1>3 DEF WithLines
<1>5. /\ WithLines(t, ls) \in Seq(File) /\ Len(WithLines(t, ls)) = Len(t)
      /\ DOMAIN WithLines(t, ls) = DOMAIN t
      /\ \A k \in DOMAIN t : WithLines(t, ls)[k] = IF k = Len(t) THEN x ELSE t[k]
  BY <1>1, <1>2, <1>3, <1>4, PutIs
<1> QED BY <1>1, <1>2, <1>3, <1>5 DEF Tables

LastStacks(t, ss, ls) ==
    /\ WithStacks(t, ss) = WithLines(t, ls)
    /\ Len(ls) = Len(LastLines(t)) /\ DOMAIN ls = DOMAIN LastLines(t)
    /\ \A j \in DOMAIN ls : ls[j].line = LastLines(t)[j].line
    /\ \A j \in DOMAIN ls : j # Len(ls) => ls[j] = LastLines(t)[j]
    /\ ls[Len(ls)] = [LastLine(t) EXCEPT !.stacks = ss]
    /\ ls[Len(ls)].stacks = ss

LEMMA WithStacksIs ==
    ASSUME NEW t \in Tables, HasLine(t), NEW ss \in Seq(Stack)
    PROVE  \E ls \in Seq(Line) : LastStacks(t, ss, ls)
<1>1. /\ LastLines(t) \in Seq(Line) /\ Len(LastLines(t)) \in DOMAIN LastLines(t)
      /\ LastLine(t) \in Line
  BY LastIs DEF HasLine
<1>2. PICK x : x = [LastLine(t) EXCEPT !.stacks = ss]
  OBVIOUS
<1>3. x \in Line /\ x.line = LastLine(t).line /\ x.stacks = ss
  BY <1>1, <1>2 DEF Line
<1>4. PICK ls : ls = [LastLines(t) EXCEPT ![Len(LastLines(t))] = x]
  OBVIOUS
<1>5. /\ ls \in Seq(Line) /\ Len(ls) = Len(LastLines(t)) /\ DOMAIN ls = DOMAIN LastLines(t)
      /\ \A k \in DOMAIN ls : ls[k] = IF k = Len(LastLines(t)) THEN x ELSE LastLines(t)[k]
  BY <1>1, <1>3, <1>4, PutIs
<1>6. WithStacks(t, ss) = WithLines(t, ls)
  BY <1>2, <1>4 DEF WithStacks
<1>7. \A j \in DOMAIN ls : ls[j].line = LastLines(t)[j].line
  BY <1>3, <1>5 DEF LastLine
<1> QED BY <1>1, <1>2, <1>3, <1>5, <1>6, <1>7 DEF LastStacks

LEMMA StacksType ==
    ASSUME NEW r \in Records, NEW ss \in Seq(Stack)
    PROVE  /\ r.kind = "stack" => Append(ss, OldStack(r)) \in Seq(Stack)
           /\ r.kind = "trace" => Named(ss, r.bt) \in Seq(Stack)
<1>1. ASSUME r.kind = "stack" PROVE Append(ss, OldStack(r)) \in Seq(Stack)
  <2>1. OldStack(r) \in Stack
    BY <1>1, RecordIs DEF OldStack, Stack, Traces
  <2> QED BY <2>1
<1>2. ASSUME r.kind = "trace" PROVE Named(ss, r.bt) \in Seq(Stack)
  <2>1. ASSUME Len(ss) \in DOMAIN ss PROVE [ss[Len(ss)] EXCEPT !.bt = r.bt] \in Stack
    <3>1. ss[Len(ss)] \in Stack /\ r.bt \in Traces
      BY <1>2, <2>1, RecordIs
    <3> QED BY <3>1 DEF Stack
  <2> QED BY <2>1, PutIs DEF Named
<1> QED BY <1>1, <1>2

(* Take, kind by kind: in a text without a file or a line to put it, a   *)
(* piece changes nothing.                                                  *)
LEMMA TakeIs ==
    ASSUME NEW t \in Tables, NEW r \in Records
    PROVE  /\ r.kind = "file" => Take(t, r) = Append(t, NewFile(r.name))
           /\ r.kind = "line" =>
                Take(t, r) = IF Len(t) = 0 THEN t
                             ELSE WithLines(t, Append(LastLines(t), NewLine(r)))
           /\ r.kind = "stack" =>
                Take(t, r) = IF HasLine(t)
                             THEN WithStacks(t, Append(LastLine(t).stacks, OldStack(r)))
                             ELSE t
           /\ r.kind = "trace" =>
                Take(t, r) = IF HasLine(t)
                             THEN WithStacks(t, Named(LastLine(t).stacks, r.bt)) ELSE t
           /\ r.kind = "end" => Take(t, r) = t
<1>1. r.kind = "file" => Take(t, r) = Append(t, NewFile(r.name))
  BY DEF Take, NewFile
<1>2. r.kind = "end" => Take(t, r) = t
  BY DEF Take
<1>3. CASE Len(t) = 0
  <2>1. t = <<>> /\ ~HasLine(t)
    BY <1>3 DEF Tables, HasLine
  <2>2. r.kind \in {"line", "stack", "trace"} => Take(t, r) = t
    BY <1>3, <2>1 DEF Take
  <2> QED BY <1>1, <1>2, <1>3, <2>1, <2>2
<1>4. CASE Len(t) # 0
  <2>1. PICK i : i = Len(t)
    OBVIOUS
  <2>2. i \in DOMAIN t /\ t[i] \in File /\ t \in Seq(File)
    BY <1>4, <2>1, LastIs DEF Tables
  <2>3. PICK j : j = Len(t[i].lines)
    OBVIOUS
  <2>4. t[i].lines \in Seq(Line)
    BY <2>2 DEF File
  <2>5. r.kind = "line" => Take(t, r) = WithLines(t, Append(LastLines(t), NewLine(r)))
    BY <2>1, <2>2 DEF Take, NewLine, WithLines, LastLines, File
  <2>6. ASSUME r.kind \in {"stack", "trace"}, ~HasLine(t) PROVE Take(t, r) = t
    <3>1. t[i].lines = <<>>
      BY <1>4, <2>1, <2>4, <2>6 DEF HasLine, LastLines
    <3> QED BY <2>1, <2>2, <2>6, <3>1 DEF Take, File
  <2>7. ASSUME HasLine(t)
        PROVE  /\ r.kind = "stack" => Take(t, r) =
                      WithStacks(t, Append(LastLine(t).stacks, OldStack(r)))
               /\ r.kind = "trace" => Take(t, r) = WithStacks(t, Named(LastLine(t).stacks, r.bt))
    <3>1. j \in DOMAIN t[i].lines /\ t[i].lines[j] \in Line
      BY <2>1, <2>3, <2>4, <2>7 DEF HasLine, LastLines
    <3>2. r.kind = "stack" => Take(t, r) =
              WithStacks(t, Append(LastLine(t).stacks, OldStack(r)))
      BY <2>1, <2>2, <2>3, <2>4, <3>1
      DEF Take, OldStack, WithStacks, WithLines, LastLine, LastLines
    <3>3. r.kind = "trace" => Take(t, r) = WithStacks(t, Named(LastLine(t).stacks, r.bt))
      BY <2>1, <2>2, <2>3, <2>4, <3>1
      DEF Take, Named, WithStacks, WithLines, LastLine, LastLines
    <3> QED BY <3>2, <3>3
  <2> QED BY <1>1, <1>2, <1>4, <2>5, <2>6, <2>7
<1> QED BY <1>3, <1>4, Len(t) \in Nat DEF Tables

LEMMA NewType ==
    ASSUME NEW r \in Records
    PROVE  /\ r.kind = "file" => NewFile(r.name) \in File
           /\ r.kind = "line" => NewLine(r) \in Line
BY RecordIs DEF NewFile, NewLine, File, Line

LEMMA TakeType ==
    ASSUME NEW t \in Tables, NEW r \in Records
    PROVE  Take(t, r) \in Tables
<1>1. r.kind \in Kinds
  BY RecordIs
<1>2. CASE r.kind = "file"
  BY <1>2, TakeIs, NewType DEF Tables
<1>3. CASE r.kind = "line" /\ Len(t) # 0
  <2>1. Append(LastLines(t), NewLine(r)) \in Seq(Line)
    BY <1>3, LastIs, NewType
  <2> QED BY <1>3, <2>1, TakeIs, WithLinesIs
<1>4. ASSUME HasLine(t), NEW ss \in Seq(Stack) PROVE WithStacks(t, ss) \in Tables
  <2>1. PICK ls \in Seq(Line) : WithStacks(t, ss) = WithLines(t, ls)
    BY <1>4, WithStacksIs, Zenon DEF LastStacks
  <2>2. Len(t) # 0
    BY <1>4 DEF HasLine
  <2> QED BY <2>1, <2>2, WithLinesIs
<1>5. CASE r.kind \in {"stack", "trace"} /\ HasLine(t)
  <2>1. LastLine(t).stacks \in Seq(Stack)
    BY <1>5, LastIs DEF HasLine
  <2>2. \E ss \in Seq(Stack) : Take(t, r) = WithStacks(t, ss)
    BY <1>5, <2>1, TakeIs, StacksType
  <2> QED BY <1>4, <1>5, <2>2
<1> QED BY <1>1, <1>2, <1>3, <1>5, TakeIs DEF Kinds

LEMMA InputIs ==
    /\ Input(<<>>) = <<>>
    /\ \A f \in Seq(Records) : \A r \in Records : Input(Append(f, r)) = Take(Input(f), r)
<1>1. Input(<<>>) = <<>>
  BY FoldOfNothing, Zenon DEF Input
<1>2. ASSUME NEW f \in Seq(Records), NEW r \in Records
      PROVE  Input(Append(f, r)) = Take(Input(f), r)
  BY FoldOfOneMore, Zenon DEF Input
<1> QED BY <1>1, <1>2

LEMMA InputType == ASSUME NEW f \in Seq(Records) PROVE Input(f) \in Tables
<1> DEFINE T == {g \in Seq(Records) : Input(g) \in Tables}
<1>1. <<>> \in T
  <2>1. <<>> \in Tables /\ <<>> \in Seq(Records)
    BY DEF Tables
  <2> QED BY <2>1, InputIs
<1>2. ASSUME NEW g \in Seq(Records), NEW r \in Records, g \in T PROVE Append(g, r) \in T
  <2>1. Append(g, r) \in Seq(Records)
    OBVIOUS
  <2>2. Input(Append(g, r)) \in Tables
    BY <1>2, TakeType, InputIs, Zenon
  <2> QED BY <2>1, <2>2
<1>3. Seq(Records) \subseteq T
  <2> HIDE DEF T
  <2> QED BY <1>1, <1>2, SeqGrows
<1> QED BY <1>3

(* The files and lines of u are among the first of v. *)
Extends(u, v) ==
    /\ Len(u) <= Len(v)
    /\ \A i \in DOMAIN u :
        /\ u[i].name = v[i].name /\ Len(u[i].lines) <= Len(v[i].lines)
        /\ \A j \in DOMAIN u[i].lines : u[i].lines[j].line = v[i].lines[j].line

Alike(u, v) == Extends(u, v) /\ Extends(v, u)

(* Files and lines fit the arrays, and have one entry each. *)
Framed(t) ==
    /\ Len(t) <= MAX_FILE_LENGTH
    /\ \A i, j \in DOMAIN t : t[i].name = t[j].name => i = j
    /\ \A i \in DOMAIN t :
        /\ Len(t[i].lines) <= MAX_LINE_LENGTH
        /\ \A j, k \in DOMAIN t[i].lines :
               t[i].lines[j].line = t[i].lines[k].line => j = k

LEMMA TableParts ==
    ASSUME NEW t \in Tables
    PROVE  /\ Len(t) \in Nat /\ DOMAIN t = 1 .. Len(t)
           /\ \A i \in 1 .. Len(t) :
               /\ t[i] \in File /\ t[i].name \in FileNames /\ t[i].lines \in Seq(Line)
               /\ Len(t[i].lines) \in Nat /\ DOMAIN t[i].lines = 1 .. Len(t[i].lines)
               /\ \A j \in 1 .. Len(t[i].lines) :
                   /\ t[i].lines[j] \in Line
                   /\ t[i].lines[j].stacks \in Seq(Stack)
                   /\ Len(t[i].lines[j].stacks) \in Nat
                   /\ DOMAIN t[i].lines[j].stacks = 1 .. Len(t[i].lines[j].stacks)
                   /\ \A k \in 1 .. Len(t[i].lines[j].stacks) :
                          t[i].lines[j].stacks[k] \in Stack
<1>1. /\ Len(t) \in Nat /\ DOMAIN t = 1 .. Len(t)
      /\ \A i \in 1 .. Len(t) : t[i] \in File
  BY DEF Tables
<1>2. ASSUME NEW f \in File
      PROVE  /\ f.name \in FileNames /\ f.lines \in Seq(Line)
             /\ Len(f.lines) \in Nat /\ DOMAIN f.lines = 1 .. Len(f.lines)
             /\ \A j \in 1 .. Len(f.lines) : f.lines[j] \in Line
  BY DEF File
<1>3. ASSUME NEW l \in Line
      PROVE  /\ l.stacks \in Seq(Stack)
             /\ Len(l.stacks) \in Nat
             /\ DOMAIN l.stacks = 1 .. Len(l.stacks)
             /\ \A k \in 1 .. Len(l.stacks) : l.stacks[k] \in Stack
  BY DEF Line
<1> QED BY <1>1, <1>2, <1>3

(* A table with no more files and lines than one that fits, fits. *)
LEMMA FramedPrefix ==
    ASSUME NEW u \in Tables, NEW v \in Tables, Extends(u, v), Framed(v)
    PROVE  Framed(u)
<1>1. Len(u) <= MAX_FILE_LENGTH
  BY TableParts, CountAssumption DEF Extends, Framed
<1>2. DOMAIN u \subseteq DOMAIN v
  BY TableParts DEF Extends
<1>3. \A i, j \in DOMAIN u : u[i].name = u[j].name => i = j
  BY <1>2 DEF Extends, Framed
<1>4. ASSUME NEW i \in DOMAIN u
      PROVE  /\ Len(u[i].lines) <= MAX_LINE_LENGTH
             /\ \A j, k \in DOMAIN u[i].lines :
                    u[i].lines[j].line = u[i].lines[k].line => j = k
  <2>1. /\ Len(u[i].lines) \in Nat /\ DOMAIN u[i].lines = 1 .. Len(u[i].lines)
        /\ Len(v[i].lines) \in Nat /\ DOMAIN v[i].lines = 1 .. Len(v[i].lines)
    BY <1>2, TableParts
  <2>2. Len(u[i].lines) <= Len(v[i].lines) /\ Len(v[i].lines) <= MAX_LINE_LENGTH
    BY <1>2 DEF Extends, Framed
  <2>3. DOMAIN u[i].lines \subseteq DOMAIN v[i].lines
    BY <2>1, <2>2
  <2>4. Len(u[i].lines) <= MAX_LINE_LENGTH
    BY <2>1, <2>2, CountAssumption
  <2>5. \A j, k \in DOMAIN u[i].lines : u[i].lines[j].line = u[i].lines[k].line => j = k
    BY <1>2, <2>3 DEF Extends, Framed
  <2> QED BY <2>4, <2>5
<1> QED BY <1>1, <1>3, <1>4 DEF Framed

LEMMA ExtendsItself ==
    ASSUME NEW t \in Tables
    PROVE  Extends(t, t)
BY TableParts DEF Extends

LEMMA ExtendsFurther ==
    ASSUME NEW t \in Tables, NEW u \in Tables, NEW v \in Tables,
           Extends(t, u), Extends(u, v)
    PROVE  Extends(t, v)
<1>1. Len(t) <= Len(v)
  BY TableParts DEF Extends
<1>2. DOMAIN t \subseteq DOMAIN u
  BY TableParts DEF Extends
<1>3. ASSUME NEW i \in DOMAIN t
      PROVE  /\ t[i].name = v[i].name /\ Len(t[i].lines) <= Len(v[i].lines)
             /\ \A j \in DOMAIN t[i].lines : t[i].lines[j].line = v[i].lines[j].line
  <2>1. i \in DOMAIN u /\ i \in DOMAIN v
    BY <1>1, <1>2, TableParts
  <2>2. /\ Len(t[i].lines) \in Nat /\ DOMAIN t[i].lines = 1 .. Len(t[i].lines)
        /\ Len(u[i].lines) \in Nat /\ DOMAIN u[i].lines = 1 .. Len(u[i].lines)
        /\ Len(v[i].lines) \in Nat
    BY <2>1, TableParts
  <2>3. /\ t[i].name = u[i].name /\ u[i].name = v[i].name
        /\ Len(t[i].lines) <= Len(u[i].lines) /\ Len(u[i].lines) <= Len(v[i].lines)
    BY <2>1 DEF Extends
  <2>4. \A j \in DOMAIN t[i].lines : j \in DOMAIN u[i].lines
    BY <2>2, <2>3
  <2>5. \A j \in DOMAIN t[i].lines : t[i].lines[j].line = v[i].lines[j].line
    BY <2>1, <2>4 DEF Extends
  <2> QED BY <2>2, <2>3, <2>5
<1> QED BY <1>1, <1>3 DEF Extends

LEMMA WithLinesExtends ==
    ASSUME NEW t \in Tables, Len(t) # 0, NEW ls \in Seq(Line),
           Len(LastLines(t)) <= Len(ls),
           \A j \in DOMAIN LastLines(t) : LastLines(t)[j].line = ls[j].line
    PROVE  Extends(t, WithLines(t, ls))
<1>1. PICK v : v = WithLines(t, ls)
  OBVIOUS
<1>2. /\ v \in Tables /\ Len(v) = Len(t) /\ DOMAIN v = DOMAIN t
      /\ \A i \in DOMAIN t : v[i].name = t[i].name
      /\ \A i \in DOMAIN t : i # Len(t) => v[i] = t[i]
      /\ v[Len(t)].lines = ls
  BY <1>1, WithLinesIs
<1>3. ASSUME NEW i \in DOMAIN t
      PROVE  /\ Len(t[i].lines) <= Len(v[i].lines)
             /\ \A j \in DOMAIN t[i].lines : t[i].lines[j].line = v[i].lines[j].line
  <2>1. CASE i = Len(t)
    BY <1>2, <2>1 DEF LastLines
  <2>2. CASE i # Len(t)
    <3>1. v[i] = t[i] /\ Len(t[i].lines) \in Nat
      BY <1>2, <2>2, TableParts
    <3> QED BY <3>1
  <2> QED BY <2>1, <2>2
<1>4. Len(t) <= Len(v)
  BY <1>2, TableParts
<1> QED BY <1>1, <1>2, <1>3, <1>4 DEF Extends

LEMMA WithStacksAlike ==
    ASSUME NEW t \in Tables, HasLine(t), NEW ss \in Seq(Stack)
    PROVE  WithStacks(t, ss) \in Tables /\ Alike(t, WithStacks(t, ss))
<1>0. PICK ls \in Seq(Line) : LastStacks(t, ss, ls)
  BY WithStacksIs, Zenon
<1>1. /\ WithStacks(t, ss) = WithLines(t, ls)
      /\ Len(ls) = Len(LastLines(t))
      /\ \A j \in DOMAIN ls : ls[j].line = LastLines(t)[j].line
  BY <1>0 DEF LastStacks
<1>2. Len(t) # 0 /\ LastLines(t) \in Seq(Line)
  BY LastIs DEF HasLine
<1>3. Len(LastLines(t)) <= Len(ls) /\ Len(ls) \in Nat /\ DOMAIN LastLines(t) = DOMAIN ls
  BY <1>1, <1>2
<1>4. \A j \in DOMAIN LastLines(t) : LastLines(t)[j].line = ls[j].line
  BY <1>1, <1>3
<1>5. Extends(t, WithLines(t, ls))
  BY <1>2, <1>3, <1>4, WithLinesExtends
<1>6. PICK v : v = WithLines(t, ls)
  OBVIOUS
<1>7. /\ v \in Tables /\ Len(v) = Len(t) /\ DOMAIN v = DOMAIN t
      /\ \A i \in DOMAIN t : v[i].name = t[i].name
      /\ \A i \in DOMAIN t : i # Len(t) => v[i] = t[i]
      /\ v[Len(t)].lines = ls
  BY <1>2, <1>6, WithLinesIs
<1>8. ASSUME NEW i \in DOMAIN v
      PROVE  /\ Len(v[i].lines) <= Len(t[i].lines)
             /\ \A j \in DOMAIN v[i].lines : v[i].lines[j].line = t[i].lines[j].line
  <2>1. CASE i = Len(t)
    BY <1>1, <1>3, <1>7, <2>1 DEF LastLines
  <2>2. CASE i # Len(t)
    <3>1. v[i] = t[i] /\ Len(t[i].lines) \in Nat
      BY <1>7, <2>2, TableParts
    <3> QED BY <3>1
  <2> QED BY <2>1, <2>2
<1>9. Extends(v, t)
  BY <1>7, <1>8, TableParts DEF Extends
<1> QED BY <1>1, <1>5, <1>6, <1>7, <1>9 DEF Alike

LEMMA AppendFileExtends ==
    ASSUME NEW t \in Tables, NEW f \in File
    PROVE  Extends(t, Append(t, f))
<1>1. PICK v : v = Append(t, f)
  OBVIOUS
<1>2. /\ Len(v) = Len(t) + 1 /\ \A i \in DOMAIN t : v[i] = t[i]
  BY <1>1 DEF Tables
<1>3. \A i \in DOMAIN t : Len(t[i].lines) <= Len(t[i].lines)
  BY TableParts
<1> QED BY <1>1, <1>2, <1>3, TableParts DEF Extends

LEMMA TakeExtends ==
    ASSUME NEW t \in Tables, NEW r \in Records
    PROVE  /\ Extends(t, Take(t, r))
           /\ ~Checked(r) => Alike(t, Take(t, r))
<1>1. r.kind \in Kinds
  BY RecordIs
<1>2. Extends(t, t) /\ Alike(t, t)
  BY ExtendsItself DEF Alike
<1>3. CASE r.kind = "file"
  <2>1. Checked(r)
    BY <1>3 DEF Checked
  <2> QED BY <1>3, <2>1, TakeIs, NewType, AppendFileExtends
<1>4. CASE r.kind = "line"
  <2>1. Checked(r)
    BY <1>4 DEF Checked
  <2>2. CASE Len(t) = 0
    BY <1>2, <1>4, <2>1, <2>2, TakeIs
  <2>3. CASE Len(t) # 0
    <3>1. PICK ls : ls = Append(LastLines(t), NewLine(r))
      OBVIOUS
    <3>2. LastLines(t) \in Seq(Line) /\ NewLine(r) \in Line
      BY <1>4, <2>3, LastIs, NewType
    <3>3. /\ ls \in Seq(Line) /\ Len(LastLines(t)) <= Len(ls)
          /\ \A j \in DOMAIN LastLines(t) : LastLines(t)[j] = ls[j]
      BY <3>1, <3>2
    <3>4. Extends(t, WithLines(t, ls))
      BY <2>3, <3>3, WithLinesExtends
    <3>5. Take(t, r) = WithLines(t, ls)
      BY <1>4, <2>3, <3>1, TakeIs
    <3> QED BY <2>1, <3>4, <3>5
  <2> QED BY <2>2, <2>3
<1>5. CASE r.kind \in {"stack", "trace"} /\ HasLine(t)
  <2>1. LastLine(t).stacks \in Seq(Stack)
    BY <1>5, LastIs DEF HasLine
  <2>2. PICK ss \in Seq(Stack) : Take(t, r) = WithStacks(t, ss)
    BY <1>5, <2>1, TakeIs, StacksType
  <2>3. Alike(t, Take(t, r))
    BY <1>5, <2>2, WithStacksAlike
  <2> QED BY <2>3 DEF Alike
<1>6. CASE r.kind \in {"stack", "trace"} /\ ~HasLine(t)
  <2>1. Take(t, r) = t
    BY <1>6, TakeIs
  <2> QED BY <1>2, <2>1
<1>7. CASE r.kind = "end"
  BY <1>2, <1>7, TakeIs
<1> QED BY <1>1, <1>3, <1>4, <1>5, <1>6, <1>7 DEF Kinds

LEMMA AlikeTake ==
    ASSUME NEW u \in Tables, NEW v \in Tables, Alike(u, v), NEW r \in Records
    PROVE  Alike(Take(u, r), Take(v, r))
<1>1. Take(u, r) \in Tables /\ Take(v, r) \in Tables
  BY TakeType
<1>2. Len(u) = Len(v) /\ DOMAIN u = DOMAIN v
  BY TableParts DEF Alike, Extends
<1>3. CASE ~Checked(r)
  <2>1. Alike(u, Take(u, r)) /\ Alike(v, Take(v, r))
    BY <1>3, TakeExtends
  <2>2. /\ Extends(Take(u, r), u) /\ Extends(u, v) /\ Extends(v, Take(v, r))
        /\ Extends(Take(v, r), v) /\ Extends(v, u) /\ Extends(u, Take(u, r))
    BY <2>1 DEF Alike
  <2>3. Extends(Take(u, r), v) /\ Extends(Take(v, r), u)
    BY <1>1, <2>2, ExtendsFurther
  <2>4. Extends(Take(u, r), Take(v, r)) /\ Extends(Take(v, r), Take(u, r))
    BY <1>1, <2>2, <2>3, ExtendsFurther
  <2> QED BY <2>4 DEF Alike
<1>4. ASSUME r.kind = "file", NEW x \in Tables, NEW y \in Tables, Extends(x, y),
             Len(x) = Len(y)
      PROVE  Extends(Take(x, r), Take(y, r))
  <2>1. PICK f \in File : f = NewFile(r.name)
    BY <1>4, NewType
  <2>2. Take(x, r) = Append(x, f) /\ Take(y, r) = Append(y, f)
    BY <1>4, <2>1, TakeIs
  <2>3. PICK a, b : a = Append(x, f) /\ b = Append(y, f)
    OBVIOUS
  <2>4. /\ DOMAIN a = 1 .. Len(x) + 1 /\ Len(a) = Len(x) + 1 /\ Len(b) = Len(x) + 1
        /\ a[Len(x) + 1] = f /\ b[Len(x) + 1] = f
        /\ \A i \in DOMAIN x : a[i] = x[i]
        /\ \A i \in DOMAIN y : b[i] = y[i]
    BY <1>4, <2>3 DEF Tables
  <2>5. DOMAIN x = 1 .. Len(x) /\ DOMAIN y = DOMAIN x /\ Len(x) \in Nat
    BY <1>4, TableParts
  <2>6. ASSUME NEW i \in DOMAIN a
        PROVE  /\ a[i].name = b[i].name /\ Len(a[i].lines) <= Len(b[i].lines)
               /\ \A j \in DOMAIN a[i].lines : a[i].lines[j].line = b[i].lines[j].line
    <3>1. CASE i = Len(x) + 1
      <4>1. a[i] = f /\ b[i] = f /\ Len(f.lines) \in Nat
        BY <2>4, <3>1 DEF File
      <4> QED BY <4>1
    <3>2. CASE i \in DOMAIN x
      BY <1>4, <2>4, <2>5, <3>2 DEF Extends
    <3> QED BY <2>4, <2>5, <3>1, <3>2
  <2>7. Len(a) <= Len(b)
    BY <2>4, <2>5
  <2> QED BY <2>2, <2>3, <2>6, <2>7 DEF Extends
<1>5. ASSUME r.kind = "line", NEW x \in Tables, NEW y \in Tables, Extends(x, y),
             Len(x) = Len(y), Len(x) # 0, Len(LastLines(x)) = Len(LastLines(y))
      PROVE  Extends(Take(x, r), Take(y, r))
  <2>1. PICK l \in Line : l = NewLine(r)
    BY <1>5, NewType
  <2>2. PICK ls, ms : ls = Append(LastLines(x), l) /\ ms = Append(LastLines(y), l)
    OBVIOUS
  <2>3. Take(x, r) = WithLines(x, ls) /\ Take(y, r) = WithLines(y, ms)
    BY <1>5, <2>1, <2>2, TakeIs
  <2>4. LastLines(x) \in Seq(Line) /\ LastLines(y) \in Seq(Line)
    BY <1>5, LastIs
  <2>5. /\ ls \in Seq(Line) /\ ms \in Seq(Line)
        /\ Len(ls) = Len(LastLines(x)) + 1 /\ Len(ms) = Len(ls) /\ Len(ls) <= Len(ms)
        /\ DOMAIN ls = 1 .. Len(LastLines(x)) + 1
        /\ DOMAIN LastLines(x) = 1 .. Len(LastLines(x)) /\ Len(LastLines(x)) \in Nat
        /\ ls[Len(LastLines(x)) + 1] = l /\ ms[Len(LastLines(x)) + 1] = l
        /\ \A j \in DOMAIN LastLines(x) :
              ls[j] = LastLines(x)[j] /\ ms[j] = LastLines(y)[j]
    BY <1>5, <2>2, <2>4
  <2>6. \A j \in DOMAIN LastLines(x) : LastLines(x)[j].line = LastLines(y)[j].line
    BY <1>5, LastIs DEF Extends, LastLines
  <2>7. \A j \in DOMAIN ls : ls[j].line = ms[j].line
    BY <2>5, <2>6
  <2>8. PICK a, b : a = WithLines(x, ls) /\ b = WithLines(y, ms)
    OBVIOUS
  <2>9. /\ Len(a) = Len(x) /\ DOMAIN a = DOMAIN x
        /\ \A i \in DOMAIN x : a[i].name = x[i].name
        /\ \A i \in DOMAIN x : i # Len(x) => a[i] = x[i]
        /\ a[Len(x)].lines = ls
    BY <1>5, <2>5, <2>8, WithLinesIs
  <2>10. /\ Len(b) = Len(y)
         /\ \A i \in DOMAIN y : b[i].name = y[i].name
         /\ \A i \in DOMAIN y : i # Len(y) => b[i] = y[i]
         /\ b[Len(y)].lines = ms
    BY <1>5, <2>5, <2>8, WithLinesIs
  <2>11. DOMAIN y = DOMAIN x /\ Len(x) \in Nat
    BY <1>5, TableParts
  <2>12. ASSUME NEW i \in DOMAIN a
         PROVE  /\ a[i].name = b[i].name /\ Len(a[i].lines) <= Len(b[i].lines)
                /\ \A j \in DOMAIN a[i].lines : a[i].lines[j].line = b[i].lines[j].line
    <3>1. x[i].name = y[i].name
      BY <1>5, <2>9, <2>12 DEF Extends
    <3>2. a[i].name = b[i].name
      BY <2>9, <2>10, <2>11, <2>12, <3>1
    <3>3. CASE i = Len(x)
      BY <1>5, <2>5, <2>7, <2>9, <2>10, <3>2, <3>3
    <3>4. CASE i # Len(x)
      <4>1. a[i] = x[i] /\ b[i] = y[i]
        BY <1>5, <2>9, <2>10, <2>11, <2>12, <3>4
      <4> QED BY <1>5, <2>9, <2>12, <4>1 DEF Extends
    <3> QED BY <3>3, <3>4
  <2> QED BY <1>5, <2>3, <2>8, <2>9, <2>10, <2>11, <2>12 DEF Extends
<1>6. CASE r.kind = "file"
  BY <1>2, <1>4, <1>6 DEF Alike
<1>7. CASE r.kind = "line"
  <2>1. CASE Len(u) = 0
    BY <1>2, <1>7, <2>1, TakeIs
  <2>2. CASE Len(u) # 0
    <3>1. Len(LastLines(u)) = Len(LastLines(v))
      <4>1. Len(u) \in DOMAIN u /\ LastLines(u) \in Seq(Line) /\ LastLines(v) \in Seq(Line)
        BY <1>2, <2>2, LastIs
      <4>2. Len(LastLines(u)) \in Nat /\ Len(LastLines(v)) \in Nat
        BY <4>1
      <4>3. Len(LastLines(u)) <= Len(LastLines(v)) /\ Len(LastLines(v)) <= Len(LastLines(u))
        BY <1>2, <4>1 DEF Alike, Extends, LastLines
      <4> QED BY <4>2, <4>3
    <3> QED BY <1>2, <1>5, <1>7, <2>2, <3>1 DEF Alike
  <2> QED BY <2>1, <2>2
<1> QED BY <1>3, <1>6, <1>7 DEF Checked

(* A file that is cut off, or that lost a write nobody checks. *)
LEMMA InputExtends ==
    ASSUME NEW f \in Seq(Records), NEW g \in Seq(Records)
    PROVE  Extends(Input(f), Input(f \o g))
<1> DEFINE T == {h \in Seq(Records) : Extends(Input(f), Input(f \o h))}
<1>1. <<>> \in T
  <2>1. f \o <<>> = f /\ <<>> \in Seq(Records)
    OBVIOUS
  <2> QED BY <2>1, InputType, ExtendsItself
<1>2. ASSUME NEW h \in Seq(Records), NEW r \in Records, h \in T PROVE Append(h, r) \in T
  <2>1. Append(h, r) \in Seq(Records) /\ f \o h \in Seq(Records)
    OBVIOUS
  <2>2. f \o Append(h, r) = Append(f \o h, r)
    OBVIOUS
  <2>3. Input(f \o Append(h, r)) = Take(Input(f \o h), r)
    BY <2>1, <2>2, InputIs
  <2>4. Input(f) \in Tables /\ Input(f \o h) \in Tables /\ Take(Input(f \o h), r) \in Tables
    BY <2>1, InputType, TakeType
  <2>5. Extends(Input(f \o h), Take(Input(f \o h), r))
    BY <2>4, TakeExtends
  <2>6. Extends(Input(f), Input(f \o h))
    BY <1>2
  <2>7. Extends(Input(f), Take(Input(f \o h), r))
    BY <2>4, <2>5, <2>6, ExtendsFurther
  <2> QED BY <2>1, <2>3, <2>7
<1>3. Seq(Records) \subseteq T
  <2> HIDE DEF T
  <2> QED BY <1>1, <1>2, SeqGrows
<1> QED BY <1>3

(* A write of a backtrace that is lost leaves the files and lines alone. *)
LEMMA InputWithout ==
    ASSUME NEW f \in Seq(Records), NEW g \in Seq(Records), NEW x \in Records, ~Checked(x)
    PROVE  Alike(Input(f \o g), Input(Append(f, x) \o g))
<1> DEFINE e == Append(f, x)
           T == {h \in Seq(Records) : Alike(Input(f \o h), Input(e \o h))}
<1>0. e \in Seq(Records)
  OBVIOUS
<1>1. <<>> \in T
  <2>1. f \o <<>> = f /\ e \o <<>> = e /\ <<>> \in Seq(Records)
    OBVIOUS
  <2>2. Input(e) = Take(Input(f), x)
    BY InputIs
  <2>3. Alike(Input(f), Input(e))
    BY <2>2, InputType, TakeExtends
  <2> HIDE DEF e
  <2> QED BY <2>1, <2>3
<1>2. ASSUME NEW h \in Seq(Records), NEW r \in Records, h \in T PROVE Append(h, r) \in T
  <2> HIDE DEF e
  <2>1. /\ Append(h, r) \in Seq(Records)
        /\ f \o h \in Seq(Records) /\ e \o h \in Seq(Records)
    BY <1>0
  <2>2. f \o Append(h, r) = Append(f \o h, r) /\ e \o Append(h, r) = Append(e \o h, r)
    BY <1>0
  <2>3. /\ Input(f \o Append(h, r)) = Take(Input(f \o h), r)
        /\ Input(e \o Append(h, r)) = Take(Input(e \o h), r)
    BY <2>1, <2>2, InputIs
  <2>4. Input(f \o h) \in Tables /\ Input(e \o h) \in Tables
    BY <2>1, InputType
  <2>5. Alike(Input(f \o h), Input(e \o h))
    BY <1>2
  <2> QED BY <2>1, <2>3, <2>4, <2>5, AlikeTake
<1>3. Seq(Records) \subseteq T
  <2> HIDE DEF T
  <2> QED BY <1>1, <1>2, SeqGrows
<1> QED BY <1>3

-----------------------------------------------------------------------------
(* Backtraces in a file: a line of the file ends at the next one, or at the next file. *)

(* The backtraces of the last line there is. *)
OpenAt(s, i) ==
    /\ i \in DOMAIN s /\ s[i].kind = "trace"
    /\ \A k \in DOMAIN s : k > i => ~Checked(s[k])

Open(s) == {b \in Traces : \E i \in DOMAIN s : OpenAt(s, i) /\ s[i].bt = b}

(* No backtrace twice without a new file or line between them. *)
Traced(s) == \A i, j \in DOMAIN s :
    \/ ~(i < j) \/ s[i].kind # "trace" \/ s[j].kind # "trace"
    \/ s[i].bt # s[j].bt
    \/ \E k \in DOMAIN s : i < k /\ k < j /\ Checked(s[k])

LEMMA AppendIs ==
    ASSUME NEW S, NEW s \in Seq(S), NEW r \in S
    PROVE  /\ Append(s, r) \in Seq(S) /\ Len(Append(s, r)) = Len(s) + 1
           /\ Len(s) \in Nat /\ DOMAIN s = 1 .. Len(s)
           /\ DOMAIN Append(s, r) = 1 .. Len(s) + 1
           /\ DOMAIN Append(s, r) = DOMAIN s \cup {Len(s) + 1}
           /\ Append(s, r)[Len(s) + 1] = r
           /\ \A i \in DOMAIN s : Append(s, r)[i] = s[i] /\ i < Len(s) + 1
OBVIOUS

LEMMA OpenIs ==
    ASSUME NEW s \in Seq(Records), NEW r \in Records
    PROVE  /\ Checked(r) => Open(Append(s, r)) = {}
           /\ r.kind \in {"stack", "end"} => Open(Append(s, r)) = Open(s)
           /\ r.kind = "trace" => Open(Append(s, r)) = Open(s) \cup {r.bt}
<1>1. PICK a, n : a = Append(s, r) /\ n = Len(s) + 1
  OBVIOUS
<1>2. /\ DOMAIN a = DOMAIN s \cup {n} /\ a[n] = r /\ n \notin DOMAIN s
      /\ \A i \in DOMAIN s : a[i] = s[i] /\ i < n /\ i \in Int
      /\ n \in Int
  BY <1>1, AppendIs
<1>3. \A i \in DOMAIN s : OpenAt(a, i) <=> OpenAt(s, i) /\ ~Checked(r)
  <2>1. ASSUME NEW i \in DOMAIN s PROVE OpenAt(a, i) <=> OpenAt(s, i) /\ ~Checked(r)
    <3>1. (\A k \in DOMAIN a : k > i => ~Checked(a[k]))
              <=> (\A k \in DOMAIN s : k > i => ~Checked(s[k])) /\ ~Checked(r)
      BY <1>2, <2>1
    <3> QED BY <1>2, <2>1, <3>1 DEF OpenAt
  <2> QED BY <2>1
<1>4. OpenAt(a, n) <=> r.kind = "trace"
  <2>1. \A k \in DOMAIN a : ~(k > n)
    BY <1>2
  <2> QED BY <1>2, <2>1 DEF OpenAt
<1>5. r.kind = "trace" => r.bt \in Traces
  BY RecordIs
<1>6. ASSUME Checked(r) PROVE Open(a) = {}
  <2>1. r.kind # "trace"
    BY <1>6 DEF Checked
  <2> QED BY <1>2, <1>3, <1>4, <1>6, <2>1 DEF Open
<1>7. ASSUME ~Checked(r) PROVE Open(a) = IF r.kind = "trace" THEN Open(s) \cup {r.bt} ELSE Open(s)
  <2>1. ASSUME NEW b \in Traces
        PROVE  b \in Open(a) <=> b \in Open(s) \/ (r.kind = "trace" /\ r.bt = b)
    <3>1. b \in Open(a) <=> \E i \in DOMAIN a : OpenAt(a, i) /\ a[i].bt = b
      BY DEF Open
    <3>2. b \in Open(s) <=> \E i \in DOMAIN s : OpenAt(s, i) /\ s[i].bt = b
      BY DEF Open
    <3> QED BY <1>2, <1>3, <1>4, <1>7, <3>1, <3>2
  <2>2. Open(a) \subseteq Traces /\ Open(s) \subseteq Traces
    BY DEF Open
  <2> QED BY <1>5, <2>1, <2>2
<1> QED BY <1>1, <1>6, <1>7 DEF Checked

LEMMA TracedIs ==
    ASSUME NEW s \in Seq(Records), NEW r \in Records
    PROVE  Traced(Append(s, r)) <=> Traced(s) /\ (r.kind = "trace" => r.bt \notin Open(s))
<1>1. PICK a, n : a = Append(s, r) /\ n = Len(s) + 1
  OBVIOUS
<1>2. /\ DOMAIN a = DOMAIN s \cup {n} /\ a[n] = r /\ n \notin DOMAIN s
      /\ \A i \in DOMAIN s : a[i] = s[i] /\ i < n /\ i \in Int
      /\ n \in Int
  BY <1>1, AppendIs
<1>3. ASSUME NEW i \in DOMAIN s, NEW j \in DOMAIN s
      PROVE  (\E k \in DOMAIN a : i < k /\ k < j /\ Checked(a[k]))
                 <=> \E k \in DOMAIN s : i < k /\ k < j /\ Checked(s[k])
  BY <1>2
<1>4. ASSUME Traced(a) PROVE Traced(s)
  <2>1. ASSUME NEW i \in DOMAIN s, NEW j \in DOMAIN s
        PROVE  \/ ~(i < j) \/ s[i].kind # "trace" \/ s[j].kind # "trace"
               \/ s[i].bt # s[j].bt
               \/ \E k \in DOMAIN s : i < k /\ k < j /\ Checked(s[k])
    <3>1. \/ ~(i < j) \/ a[i].kind # "trace" \/ a[j].kind # "trace"
          \/ a[i].bt # a[j].bt
          \/ \E k \in DOMAIN a : i < k /\ k < j /\ Checked(a[k])
      BY <1>2, <1>4 DEF Traced
    <3> QED BY <1>2, <1>3, <3>1
  <2> QED BY <2>1 DEF Traced
<1>5. ASSUME Traced(a), r.kind = "trace", r.bt \in Open(s) PROVE FALSE
  <2>1. PICK i \in DOMAIN s : OpenAt(s, i) /\ s[i].bt = r.bt
    BY <1>5 DEF Open
  <2>2. i \in DOMAIN a /\ n \in DOMAIN a /\ i < n /\ a[i] = s[i]
    BY <1>2
  <2>3. \/ a[i].kind # "trace" \/ a[n].kind # "trace" \/ a[i].bt # a[n].bt
        \/ \E k \in DOMAIN a : i < k /\ k < n /\ Checked(a[k])
    BY <1>5, <2>2 DEF Traced
  <2>4. PICK k \in DOMAIN a : i < k /\ k < n /\ Checked(a[k])
    BY <1>2, <1>5, <2>1, <2>2, <2>3 DEF OpenAt
  <2>5. k \in DOMAIN s /\ a[k] = s[k] /\ k > i
    BY <1>2, <2>4
  <2> QED BY <2>1, <2>4, <2>5 DEF OpenAt
<1>6. ASSUME Traced(s), r.kind = "trace" => r.bt \notin Open(s) PROVE Traced(a)
  <2>1. SUFFICES ASSUME NEW i \in DOMAIN a, NEW j \in DOMAIN a, i < j,
                        a[i].kind = "trace", a[j].kind = "trace", a[i].bt = a[j].bt
                 PROVE  \E k \in DOMAIN a : i < k /\ k < j /\ Checked(a[k])
    BY DEF Traced
  <2>2. i \in DOMAIN s
    BY <1>2, <2>1
  <2>3. CASE j \in DOMAIN s
    <3>1. \E k \in DOMAIN s : i < k /\ k < j /\ Checked(s[k])
      BY <1>2, <1>6, <2>1, <2>2, <2>3 DEF Traced
    <3> QED BY <1>3, <2>2, <2>3, <3>1
  <2>4. CASE j = n
    <3>1. s[i] = a[i] /\ a[j] = r /\ s[i].bt \in Traces
      BY <1>2, <2>1, <2>2, <2>4, RecordIs
    <3>2. ~OpenAt(s, i)
      BY <1>6, <2>1, <2>2, <3>1 DEF Open
    <3>3. PICK k \in DOMAIN s : k > i /\ Checked(s[k])
      BY <2>1, <2>2, <3>1, <3>2 DEF OpenAt
    <3>4. k \in DOMAIN a /\ i < k /\ k < j /\ Checked(a[k])
      BY <1>2, <2>2, <2>4, <3>3
    <3> QED BY <3>4
  <2> QED BY <1>2, <2>3, <2>4
<1> QED BY <1>1, <1>4, <1>5, <1>6

LEMMA TracedNothing == Traced(<<>>) /\ Open(<<>>) = {} /\ <<>> \in Seq(Records)
BY DEF Traced, Open

(* Cutting a file off, or losing a piece, makes no two backtraces alike. *)
LEMMA TracedPrefix ==
    ASSUME NEW f \in Seq(Records), NEW g \in Seq(Records), Traced(f \o g)
    PROVE  Traced(f)
<1> DEFINE T == {h \in Seq(Records) : Traced(f \o h) => Traced(f)}
<1>1. <<>> \in T
  <2>1. f \o <<>> = f
    OBVIOUS
  <2> QED BY <2>1, TracedNothing, Zenon
<1>2. ASSUME NEW h \in Seq(Records), NEW r \in Records, h \in T PROVE Append(h, r) \in T
  <2>1. /\ Append(h, r) \in Seq(Records) /\ f \o h \in Seq(Records)
        /\ f \o Append(h, r) = Append(f \o h, r)
    OBVIOUS
  <2>2. Traced(Append(f \o h, r)) => Traced(f \o h)
    BY <2>1, TracedIs
  <2> QED BY <1>2, <2>1, <2>2, Zenon
<1>3. Seq(Records) \subseteq T
  <2> HIDE DEF T
  <2> QED BY <1>1, <1>2, SeqGrows
<1> QED BY <1>3

LEMMA TracedWithout ==
    ASSUME NEW f \in Seq(Records), NEW g \in Seq(Records), NEW x \in Records, ~Checked(x),
           Traced(Append(f, x) \o g)
    PROVE  Traced(f \o g)
<1>0. PICK e : e = Append(f, x)
  OBVIOUS
<1> DEFINE T == {h \in Seq(Records) : /\ Open(f \o h) \subseteq Open(e \o h)
                                      /\ Traced(e \o h) => Traced(f \o h)}
<1>1. <<>> \in T
  <2>1. f \o <<>> = f /\ e \o <<>> = e /\ e \in Seq(Records)
    BY <1>0
  <2>2. Open(f) \subseteq Open(e)
    <3>1. x.kind \in {"stack", "end", "trace"}
      BY RecordIs DEF Kinds, Checked
    <3> QED BY <1>0, <3>1, OpenIs
  <2>3. Traced(e) => Traced(f)
    BY <1>0, TracedIs
  <2> QED BY <2>1, <2>2, <2>3, TracedNothing
<1>2. ASSUME NEW h \in Seq(Records), NEW r \in Records, h \in T PROVE Append(h, r) \in T
  <2>1. /\ Append(h, r) \in Seq(Records) /\ f \o h \in Seq(Records) /\ e \o h \in Seq(Records)
        /\ f \o Append(h, r) = Append(f \o h, r) /\ e \o Append(h, r) = Append(e \o h, r)
    BY <1>0
  <2>2. PICK a, b : a = f \o h /\ b = e \o h
    OBVIOUS
  <2>3. /\ a \in Seq(Records) /\ b \in Seq(Records) /\ Open(a) \subseteq Open(b)
        /\ Traced(b) => Traced(a)
    BY <1>2, <2>1, <2>2
  <2>4. r.kind \in {"file", "line", "stack", "end", "trace"}
    BY RecordIs DEF Kinds
  <2>5. Open(Append(a, r)) \subseteq Open(Append(b, r))
    BY <2>3, <2>4, OpenIs DEF Checked
  <2>6. Traced(Append(b, r)) => Traced(Append(a, r))
    BY <2>3, TracedIs
  <2> QED BY <2>1, <2>2, <2>5, <2>6
<1>3. Seq(Records) \subseteq T
  <2> HIDE DEF T
  <2> QED BY <1>1, <1>2, SeqGrows
<1> QED BY <1>0, <1>3

(* What a run reads of the entries that the run before it wrote. *)
CountOf(e, x) == IF e = "ADD" THEN larger_count(x) ELSE x.count
AbortOf(e, n) == IF e = "ADD" THEN n ELSE 0

MergedStack(e, s) == [bt |-> s.bt, count |-> 0, prev |-> CountOf(e, s),
                      abort |-> AbortOf(e, s.abort)]

MergedStacks(e, ss) == [k \in DOMAIN ss |-> MergedStack(e, ss[k])]

MergedLine(e, l) == [line |-> l.line, count |-> 0, prev |-> CountOf(e, l),
                     abort |-> AbortOf(e, AbortsOf(l)), stacks |-> MergedStacks(e, l.stacks)]

MergedLines(e, ls) == [j \in DOMAIN ls |-> MergedLine(e, ls[j])]

MergedFile(e, f) == [name |-> f.name, lines |-> MergedLines(e, f.lines)]

Merged(e, t) == [i \in DOMAIN t |-> MergedFile(e, t[i])]

Upto(f, n) == [i \in 1 .. n |-> f[i]]

LEMMA UptoIs ==
    ASSUME NEW S, NEW f \in Seq(S)
    PROVE  /\ Upto(f, 0) = <<>> /\ Upto(f, Len(f)) = f /\ Len(f) \in Nat
           /\ \A n \in Nat : n + 1 <= Len(f) =>
                /\ Upto(f, n) \in Seq(S) /\ f[n + 1] \in S /\ n + 1 \in DOMAIN f
                /\ n < n + 1 /\ n \in DOMAIN f \cup {0}
                /\ Upto(f, n + 1) = Append(Upto(f, n), f[n + 1])
                /\ DOMAIN Upto(f, n) \subseteq DOMAIN f
                /\ \A i \in DOMAIN Upto(f, n) : Upto(f, n)[i] = f[i] /\ i # n + 1
<1>1. Upto(f, 0) = <<>>
  BY DEF Upto
<1>2. Upto(f, Len(f)) = f
  BY DEF Upto
<1>3. ASSUME NEW n \in Nat, n + 1 <= Len(f)
      PROVE  /\ Upto(f, n) \in Seq(S) /\ f[n + 1] \in S /\ n + 1 \in DOMAIN f
             /\ n < n + 1 /\ n \in DOMAIN f \cup {0}
             /\ Upto(f, n + 1) = Append(Upto(f, n), f[n + 1])
             /\ DOMAIN Upto(f, n) \subseteq DOMAIN f
             /\ \A i \in DOMAIN Upto(f, n) : Upto(f, n)[i] = f[i] /\ i # n + 1
  <2>1. \A i \in 1 .. n + 1 : f[i] \in S /\ i \in DOMAIN f
    BY <1>3, ElementOfSeq
  <2>2. Upto(f, n) \in Seq(S) /\ Upto(f, n + 1) \in Seq(S)
    BY <2>1 DEF Upto
  <2>3. PICK a, b : a = Upto(f, n) /\ b = Upto(f, n + 1)
    OBVIOUS
  <2>4. /\ Len(a) = n /\ Len(b) = n + 1 /\ \A i \in 1 .. n : a[i] = f[i]
        /\ \A i \in 1 .. n + 1 : b[i] = f[i]
    BY <2>2, <2>3 DEF Upto
  <2>5. f[n + 1] \in S
    BY <2>1
  <2>6. b = Append(a, f[n + 1])
    <3>1. PICK c : c = Append(a, f[n + 1])
      OBVIOUS
    <3>2. c \in Seq(S) /\ Len(c) = n + 1 /\ c[n + 1] = f[n + 1] /\ \A i \in 1 .. n : c[i] = a[i]
      BY <2>2, <2>3, <2>4, <2>5, <3>1
    <3>3. \A i \in 1 .. n + 1 : c[i] = b[i]
      <4>1. \A i \in 1 .. n + 1 : i \in 1 .. n \/ i = n + 1
        OBVIOUS
      <4> QED BY <2>4, <3>2, <4>1
    <3>4. \A i \in 1 .. Len(c) : c[i] = b[i]
      BY <3>2, <3>3
    <3>5. c = b
      BY <2>2, <2>3, <2>4, <3>2, <3>4, SeqEqual
    <3> QED BY <3>1, <3>5
  <2>7. DOMAIN Upto(f, n) = 1 .. n
    BY DEF Upto
  <2>8. 1 .. n \subseteq DOMAIN f /\ n \in DOMAIN f \cup {0} /\ n + 1 \in DOMAIN f /\ n < n + 1
        /\ \A i \in 1 .. n : i # n + 1
    BY <1>3, <2>1
  <2> QED BY <2>2, <2>3, <2>4, <2>5, <2>6, <2>7, <2>8
<1>4. Len(f) \in Nat
  OBVIOUS
<1> QED BY <1>1, <1>2, <1>3, <1>4

AddLine(t, l) == WithLines(t, Append(LastLines(t), l))

AddStack(l, s) == [l EXCEPT !.stacks = Append(l.stacks, s)]

LEMMA AddLineIs ==
    ASSUME NEW t \in Tables, Len(t) # 0, NEW l \in Line
    PROVE  /\ AddLine(t, l) \in Tables /\ HasLine(AddLine(t, l))
           /\ LastLine(AddLine(t, l)) = l
           /\ \A ss \in Seq(Stack) :
                  WithStacks(AddLine(t, l), ss) = AddLine(t, [l EXCEPT !.stacks = ss])
<1>1. PICK ls, n : ls = LastLines(t) /\ n = Len(ls) + 1
  OBVIOUS
<1>2. PICK ms : ms = Append(ls, l)
  OBVIOUS
<1>3. ls \in Seq(Line)
  BY <1>1, LastIs
<1>4. /\ ms \in Seq(Line) /\ Len(ms) = n /\ n \in Nat /\ n # 0 /\ ms[n] = l /\ n \in DOMAIN ms
  BY <1>1, <1>2, <1>3
<1>5. PICK u : u = WithLines(t, ms)
  OBVIOUS
<1>6. /\ AddLine(t, l) = u /\ u \in Tables /\ Len(u) = Len(t) /\ LastLines(u) = ms
  <2>1. /\ u \in Tables /\ Len(u) = Len(t) /\ u[Len(t)].lines = ms
    BY <1>4, <1>5, WithLinesIs
  <2>2. LastLines(u) = ms
    BY <2>1 DEF LastLines
  <2> QED BY <1>1, <1>2, <1>5, <2>1, <2>2 DEF AddLine
<1>7. HasLine(u) /\ LastLine(u) = l
  BY <1>4, <1>6 DEF HasLine, LastLine
<1>8. ASSUME NEW ss \in Seq(Stack)
      PROVE  WithStacks(u, ss) = AddLine(t, [l EXCEPT !.stacks = ss])
  <2>1. PICK x : x = [l EXCEPT !.stacks = ss]
    OBVIOUS
  <2>2. x \in Line
    BY <2>1 DEF Line
  <2>3. PICK ns : ns = [ms EXCEPT ![n] = x]
    OBVIOUS
  <2>4. WithStacks(u, ss) = WithLines(u, ns)
    BY <1>4, <1>6, <1>7, <2>1, <2>3 DEF WithStacks
  <2>5. PICK os : os = Append(ls, x)
    OBVIOUS
  <2>6. ns = os
    <3>1. /\ ns \in Seq(Line) /\ Len(ns) = n
          /\ \A k \in DOMAIN ms : ns[k] = IF k = n THEN x ELSE ms[k]
      BY <1>4, <2>2, <2>3, PutIs
    <3>2. os \in Seq(Line) /\ Len(os) = n /\ os[n] = x /\ \A k \in 1 .. Len(ls) : os[k] = ls[k]
      BY <1>1, <1>3, <2>2, <2>5
    <3>3. \A k \in 1 .. n : (k \in 1 .. Len(ls) \/ k = n) /\ k \in DOMAIN ms
      BY <1>1, <1>3, <1>4
    <3>4. \A k \in 1 .. Len(ls) : ms[k] = ls[k] /\ k # n
      BY <1>1, <1>2, <1>3
    <3>5. \A k \in 1 .. Len(ns) : ns[k] = os[k]
      BY <3>1, <3>2, <3>3, <3>4
    <3> QED BY <3>1, <3>2, <3>5, SeqEqual
  <2>7. os \in Seq(Line)
    BY <1>3, <2>2, <2>5
  <2>8. WithLines(u, os) = WithLines(t, os)
    <3>1. PICK f : f = t[Len(t)]
      OBVIOUS
    <3>2. f \in File /\ t \in Seq(File) /\ Len(t) \in DOMAIN t
      BY <3>1, LastIs DEF Tables
    <3>3. PICK g : g = [f EXCEPT !.lines = ms]
      OBVIOUS
    <3>4. g \in File
      BY <1>4, <3>2, <3>3 DEF File
    <3>5. /\ u = [t EXCEPT ![Len(t)] = g] /\ u \in Seq(File) /\ DOMAIN u = DOMAIN t
          /\ \A k \in DOMAIN t : u[k] = IF k = Len(t) THEN g ELSE t[k]
      <4>1. u = [t EXCEPT ![Len(t)] = g]
        BY <1>5, <3>1, <3>3 DEF WithLines
      <4> QED BY <3>2, <3>4, <4>1, PutIs
    <3>6. PICK h : h = [f EXCEPT !.lines = os]
      OBVIOUS
    <3>7. h \in File /\ h = [g EXCEPT !.lines = os]
      BY <2>7, <3>2, <3>3, <3>6 DEF File
    <3>8. u[Len(t)] = g /\ Len(u) = Len(t)
      BY <1>6, <3>2, <3>5
    <3>9. /\ WithLines(u, os) = [u EXCEPT ![Len(t)] = h]
          /\ WithLines(t, os) = [t EXCEPT ![Len(t)] = h]
      BY <3>1, <3>6, <3>7, <3>8 DEF WithLines
    <3>10. PICK v, w : v = [u EXCEPT ![Len(t)] = h] /\ w = [t EXCEPT ![Len(t)] = h]
      OBVIOUS
    <3>11. /\ v \in Seq(File) /\ Len(v) = Len(t)
           /\ \A k \in DOMAIN t : v[k] = IF k = Len(t) THEN h ELSE u[k]
      BY <3>5, <3>7, <3>8, <3>10, PutIs
    <3>12. /\ w \in Seq(File) /\ Len(w) = Len(t)
           /\ \A k \in DOMAIN t : w[k] = IF k = Len(t) THEN h ELSE t[k]
      BY <3>2, <3>7, <3>10, PutIs
    <3>13. DOMAIN t = 1 .. Len(t)
      BY <3>2
    <3>14. \A k \in 1 .. Len(v) : v[k] = w[k]
      BY <3>5, <3>11, <3>12, <3>13
    <3>15. v = w
      BY <3>11, <3>12, <3>14, SeqEqual
    <3> QED BY <3>9, <3>10, <3>15
  <2> QED BY <1>1, <2>1, <2>4, <2>5, <2>6, <2>8 DEF AddLine
<1> QED BY <1>6, <1>7, <1>8

LEMMA AddLineToNew ==
    ASSUME NEW t \in Tables, NEW f \in File, NEW l \in Line
    PROVE  /\ Append(t, f) \in Tables /\ Len(Append(t, f)) # 0
           /\ AddLine(Append(t, f), l) = Append(t, [f EXCEPT !.lines = Append(f.lines, l)])
<1>1. PICK u, n : u = Append(t, f) /\ n = Len(t) + 1
  OBVIOUS
<1>2. /\ u \in Seq(File) /\ u \in Tables /\ Len(u) = n /\ n # 0 /\ n \in DOMAIN u /\ u[n] = f
      /\ DOMAIN u = 1 .. n /\ \A i \in 1 .. Len(t) : u[i] = t[i] /\ i # n
      /\ \A i \in 1 .. n : i = n \/ i \in 1 .. Len(t)
      /\ t \in Seq(File)
  BY <1>1 DEF Tables
<1>3. LastLines(u) = f.lines
  BY <1>2 DEF LastLines
<1>4. PICK g : g = [f EXCEPT !.lines = Append(f.lines, l)]
  OBVIOUS
<1>5. g \in File
  <2>1. Append(f.lines, l) \in Seq(Line)
    BY DEF File
  <2> QED BY <1>4, <2>1 DEF File
<1>6. PICK v, w : v = [u EXCEPT ![n] = g] /\ w = Append(t, g)
  OBVIOUS
<1>7. v \in Seq(File) /\ Len(v) = n /\ \A k \in 1 .. n : v[k] = IF k = n THEN g ELSE u[k]
  BY <1>2, <1>5, <1>6, PutIs
<1>8. w \in Seq(File) /\ Len(w) = n /\ w[n] = g /\ \A k \in 1 .. Len(t) : w[k] = t[k]
  BY <1>1, <1>2, <1>5, <1>6
<1>9. \A k \in 1 .. Len(v) : v[k] = w[k]
  BY <1>2, <1>7, <1>8
<1>10. v = w
  BY <1>7, <1>8, <1>9, SeqEqual
<1> QED BY <1>1, <1>2, <1>3, <1>4, <1>6, <1>10 DEF AddLine, WithLines

Bts(ss) == {ss[k].bt : k \in DOMAIN ss}

LastTraces(t) == IF HasLine(t) THEN Bts(LastLine(t).stacks) ELSE {}

(* What was written so far, and what is read of it. *)
Wrote(s, t) ==
    /\ s \in Seq(Records) /\ t \in Tables /\ Input(s) = t
    /\ Traced(s) /\ Open(s) \subseteq LastTraces(t)

LEMMA WroteOne ==
    ASSUME NEW s, NEW t, Wrote(s, t), NEW r \in Records,
           r.kind = "trace" => r.bt \notin Open(s)
    PROVE  /\ Append(s, r) \in Seq(Records) /\ Take(t, r) \in Tables
           /\ Input(Append(s, r)) = Take(t, r) /\ Traced(Append(s, r))
<1>1. s \in Seq(Records) /\ t \in Tables /\ Input(s) = t /\ Traced(s)
  BY DEF Wrote
<1> QED BY <1>1, InputIs, TracedIs, TakeType

LEMMA WroteFile ==
    ASSUME NEW s, NEW t, Wrote(s, t), NEW n \in FileNames
    PROVE  Wrote(Append(s, [kind |-> "file", name |-> n]), Append(t, NewFile(n)))
<1>1. PICK r : r = [kind |-> "file", name |-> n]
  OBVIOUS
<1>2. r \in Records /\ r.kind = "file" /\ r.name = n /\ Checked(r)
  BY <1>1 DEF Records, Checked
<1>3. t \in Tables /\ s \in Seq(Records)
  BY DEF Wrote
<1>4. Take(t, r) = Append(t, NewFile(n))
  BY <1>2, <1>3, TakeIs
<1>5. Open(Append(s, r)) = {}
  BY <1>2, <1>3, OpenIs
<1>6. /\ Append(s, r) \in Seq(Records) /\ Take(t, r) \in Tables
      /\ Input(Append(s, r)) = Take(t, r) /\ Traced(Append(s, r))
  BY <1>2, WroteOne
<1>7. Wrote(Append(s, r), Append(t, NewFile(n)))
  BY <1>4, <1>5, <1>6 DEF Wrote
<1> QED BY <1>1, <1>7

LEMMA WroteLine ==
    ASSUME NEW s, NEW t, Wrote(s, t), Len(t) # 0, NEW r \in Records, r.kind = "line"
    PROVE  Wrote(Append(s, r), AddLine(t, NewLine(r)))
<1>1. t \in Tables /\ s \in Seq(Records)
  BY DEF Wrote
<1>2. Take(t, r) = AddLine(t, NewLine(r))
  BY <1>1, TakeIs DEF AddLine
<1>3. Open(Append(s, r)) = {}
  BY <1>1, OpenIs DEF Checked
<1> QED BY <1>2, <1>3, WroteOne DEF Wrote

(* The three writes of a backtrace. *)
LEMMA WroteStack ==
    ASSUME NEW s, NEW t \in Tables, Len(t) # 0, NEW l \in Line, Wrote(s, AddLine(t, l)),
           NEW st \in Stack, st.bt \notin Bts(l.stacks)
    PROVE  Wrote(s \o StackOut(st), AddLine(t, AddStack(l, MergedStack(env, st))))
<1>1. PICK a, b, c : /\ a = [kind |-> "stack", count |-> CountOut(st), abort |-> AbortOut(st.abort)]
                     /\ b = [kind |-> "trace", bt |-> st.bt]
                     /\ c = [kind |-> "end"]
  OBVIOUS
<1>2. a \in Records /\ b \in Records /\ c \in Records
  <2>1. CountOut(st) \in Nat /\ AbortOut(st.abort) \in Nat /\ st.bt \in Traces
    BY DEF Stack, CountOut, AbortOut, larger_count
  <2> QED BY <1>1, <2>1 DEF Records
<1>3. a.kind = "stack" /\ b.kind = "trace" /\ c.kind = "end" /\ b.bt = st.bt
  BY <1>1
<1>4. PICK ss : ss = l.stacks
  OBVIOUS
<1>5. ss \in Seq(Stack)
  BY <1>4 DEF Line
<1>6. PICK sa : sa = Append(ss, OldStack(a))
  OBVIOUS
<1>7. PICK m : m = MergedStack(env, st)
  OBVIOUS
<1>8. PICK sb : sb = Append(ss, m)
  OBVIOUS
<1>9. OldStack(a) \in Stack /\ m \in Stack /\ m = [OldStack(a) EXCEPT !.bt = st.bt] /\ m.bt = st.bt
  <2>1. OldStack(a) = [bt |-> "", count |-> 0, prev |-> CountOut(st), abort |-> AbortOut(st.abort)]
    BY <1>1 DEF OldStack
  <2>2. m = [bt |-> st.bt, count |-> 0, prev |-> CountOut(st), abort |-> AbortOut(st.abort)]
    BY <1>7 DEF MergedStack, CountOf, CountOut, AbortOf, AbortOut
  <2>3. CountOut(st) \in Nat /\ AbortOut(st.abort) \in Nat /\ st.bt \in Traces /\ "" \in Traces
    BY DEF Stack, CountOut, AbortOut, larger_count, Traces
  <2>4. PICK o, n, k, e, v : /\ o = OldStack(a) /\ n = CountOut(st) /\ k = AbortOut(st.abort)
                             /\ e = "" /\ v = st.bt
    OBVIOUS
  <2>7. /\ o = [bt |-> e, count |-> 0, prev |-> n, abort |-> k]
        /\ m = [bt |-> v, count |-> 0, prev |-> n, abort |-> k]
        /\ n \in Nat /\ k \in Nat /\ e \in Traces /\ v \in Traces
    BY <2>1, <2>2, <2>3, <2>4
  <2>5. o \in Stack /\ m \in Stack
    BY <2>7 DEF Stack
  <2>6. m = [o EXCEPT !.bt = st.bt] /\ m.bt = st.bt
    <3>1. [o EXCEPT !.bt = v] = m
      BY <2>7
    <3>2. m.bt = v
      BY <2>7
    <3> QED BY <2>4, <3>1, <3>2
  <2> QED BY <2>4, <2>5, <2>6
<1>10. sa \in Seq(Stack) /\ sb \in Seq(Stack)
  BY <1>5, <1>6, <1>8, <1>9
<1>11. Named(sa, st.bt) = sb
  <2>1. /\ Len(sa) = Len(ss) + 1 /\ Len(sa) \in DOMAIN sa /\ sa[Len(sa)] = OldStack(a)
        /\ \A k \in 1 .. Len(ss) : sa[k] = ss[k] /\ k # Len(sa)
        /\ \A k \in DOMAIN sa : k \in 1 .. Len(ss) \/ k = Len(sa)
    BY <1>5, <1>6, <1>9
  <2>2. Len(sb) = Len(sa) /\ sb[Len(sa)] = m /\ \A k \in 1 .. Len(ss) : sb[k] = ss[k]
    BY <1>5, <1>8, <1>9, <2>1
  <2>3. PICK sc : sc = [sa EXCEPT ![Len(sa)] = m]
    OBVIOUS
  <2>4. /\ sc \in Seq(Stack) /\ Len(sc) = Len(sa) /\ DOMAIN sc = DOMAIN sa
        /\ \A k \in DOMAIN sa : sc[k] = IF k = Len(sa) THEN m ELSE sa[k]
    BY <1>9, <1>10, <2>3, PutIs
  <2>5. \A k \in 1 .. Len(sc) : sc[k] = sb[k]
    <3>1. DOMAIN sc = 1 .. Len(sc)
      BY <2>4
    <3> QED BY <2>1, <2>2, <2>4, <3>1
  <2>6. sc = sb
    BY <1>10, <2>2, <2>4, <2>5, SeqEqual
  <2> QED BY <1>9, <2>1, <2>3, <2>6 DEF Named
<1>12. PICK u : u = AddLine(t, l)
  OBVIOUS
<1>13. /\ u \in Tables /\ HasLine(u) /\ LastLine(u) = l /\ LastTraces(u) = Bts(ss)
  BY <1>4, <1>12, AddLineIs DEF LastTraces
<1>14. PICK ua : ua = AddLine(t, [l EXCEPT !.stacks = sa])
  OBVIOUS
<1>15. PICK ub : ub = AddLine(t, [l EXCEPT !.stacks = sb])
  OBVIOUS
<1>16. /\ ua \in Tables /\ HasLine(ua) /\ LastLine(ua).stacks = sa
       /\ ub \in Tables /\ HasLine(ub) /\ LastLine(ub).stacks = sb
       /\ WithStacks(ua, sb) = ub /\ WithStacks(u, sa) = ua
  <2>1. PICK la, lb : la = [l EXCEPT !.stacks = sa] /\ lb = [l EXCEPT !.stacks = sb]
    OBVIOUS
  <2>2. /\ la \in Line /\ lb \in Line /\ la.stacks = sa /\ lb.stacks = sb
        /\ lb = [la EXCEPT !.stacks = sb]
    BY <1>10, <2>1 DEF Line
  <2>3. WithStacks(ua, sb) = ub
    BY <1>10, <1>14, <1>15, <2>1, <2>2, AddLineIs
  <2>4. WithStacks(u, sa) = ua
    BY <1>10, <1>12, <1>14, AddLineIs
  <2>5. ua \in Tables /\ HasLine(ua) /\ LastLine(ua) = la
    BY <1>14, <2>1, <2>2, AddLineIs
  <2>6. ub \in Tables /\ HasLine(ub) /\ LastLine(ub) = lb
    BY <1>15, <2>1, <2>2, AddLineIs
  <2> QED BY <2>2, <2>3, <2>4, <2>5, <2>6
<1>17. /\ s \in Seq(Records) /\ Input(s) = u /\ Traced(s) /\ Open(s) \subseteq Bts(ss)
  BY <1>12, <1>13 DEF Wrote
<1>18. PICK x : x = Append(s, a)
  OBVIOUS
<1>19. x \in Seq(Records) /\ Input(x) = ua /\ Traced(x) /\ Open(x) = Open(s)
  <2>1. Take(u, a) = ua
    BY <1>2, <1>3, <1>4, <1>6, <1>13, <1>16, TakeIs
  <2> QED BY <1>2, <1>3, <1>17, <1>18, <2>1, InputIs, TracedIs, OpenIs
<1>20. PICK y : y = Append(x, b)
  OBVIOUS
<1>21. y \in Seq(Records) /\ Input(y) = ub /\ Traced(y) /\ Open(y) = Open(s) \cup {st.bt}
  <2>1. Take(ua, b) = ub
    BY <1>2, <1>3, <1>11, <1>16, TakeIs
  <2>2. st.bt \notin Open(x)
    BY <1>4, <1>17, <1>19
  <2> QED BY <1>2, <1>3, <1>19, <1>20, <2>1, <2>2, InputIs, TracedIs, OpenIs
<1>22. PICK z : z = Append(y, c)
  OBVIOUS
<1>23. z \in Seq(Records) /\ Input(z) = ub /\ Traced(z) /\ Open(z) = Open(s) \cup {st.bt}
  <2>1. Take(ub, c) = ub
    BY <1>2, <1>3, <1>16, TakeIs
  <2> QED BY <1>2, <1>3, <1>21, <1>22, <2>1, InputIs, TracedIs, OpenIs
<1>24. Bts(sb) = Bts(ss) \cup {st.bt}
  <2>1. /\ DOMAIN sb = DOMAIN ss \cup {Len(ss) + 1} /\ sb[Len(ss) + 1] = m
        /\ \A k \in DOMAIN ss : sb[k] = ss[k]
    BY <1>5, <1>8, <1>9, AppendIs
  <2>2. \A v : v \in Bts(sb) <=> \E k \in DOMAIN sb : v = sb[k].bt
    BY DEF Bts
  <2>3. \A v : v \in Bts(ss) <=> \E k \in DOMAIN ss : v = ss[k].bt
    BY DEF Bts
  <2>4. \A v : v \in Bts(sb) <=> v \in Bts(ss) \/ v = st.bt
    <3>1. m.bt = st.bt
      BY <1>9
    <3>2. ASSUME NEW v, v \in Bts(sb) PROVE v \in Bts(ss) \/ v = st.bt
      <4>1. PICK k \in DOMAIN sb : v = sb[k].bt
        BY <2>2, <3>2
      <4> QED BY <2>1, <2>3, <3>1, <4>1
    <3>3. ASSUME NEW v, v \in Bts(ss) \/ v = st.bt PROVE v \in Bts(sb)
      <4>1. CASE v = st.bt
        BY <2>1, <2>2, <3>1, <4>1
      <4>2. CASE v \in Bts(ss)
        <5>1. PICK k \in DOMAIN ss : v = ss[k].bt
          BY <2>3, <4>2
        <5> QED BY <2>1, <2>2, <5>1
      <4> QED BY <3>3, <4>1, <4>2
    <3> QED BY <3>2, <3>3
  <2> QED BY <2>4
<1>25. Wrote(z, ub)
  BY <1>16, <1>17, <1>23, <1>24 DEF Wrote, LastTraces
<1>26. z = s \o StackOut(st)
  <2>1. StackOut(st) = <<a, b, c>>
    BY <1>1 DEF StackOut
  <2> QED BY <1>2, <1>17, <1>18, <1>20, <1>22, <2>1
<1>27. ub = AddLine(t, AddStack(l, MergedStack(env, st)))
  BY <1>4, <1>7, <1>8, <1>15 DEF AddStack
<1> QED BY <1>25, <1>26, <1>27

OneStackEach(l) == \A j, k \in DOMAIN l.stacks : l.stacks[j].bt = l.stacks[k].bt => j = k

OneTraceEach(t) == \A i \in DOMAIN t : \A j \in DOMAIN t[i].lines : OneStackEach(t[i].lines[j])

LEMMA FlattenType ==
    ASSUME NEW R, NEW f \in Seq(Seq(R))
    PROVE  FlattenSeq(f) \in Seq(R)
<1> DEFINE T == {g \in Seq(Seq(R)) : FlattenSeq(g) \in Seq(R)}
<1>1. <<>> \in T
  <2>1. <<>> \in Seq(Seq(R)) /\ <<>> \in Seq(R)
    OBVIOUS
  <2> QED BY <2>1, FlattenNothing, Zenon
<1>2. ASSUME NEW g \in Seq(Seq(R)), NEW s \in Seq(R), g \in T PROVE Append(g, s) \in T
  <2>1. FlattenSeq(Append(g, s)) = FlattenSeq(g) \o s
    BY FlattenOneMore
  <2>2. FlattenSeq(g) \in Seq(R) /\ Append(g, s) \in Seq(Seq(R))
    BY <1>2
  <2>3. PICK y : y = FlattenSeq(g)
    OBVIOUS
  <2>4. y \o s \in Seq(R)
    BY <2>2, <2>3
  <2> QED BY <2>1, <2>2, <2>3, <2>4, Zenon
<1>3. Seq(Seq(R)) \subseteq T
  <2> HIDE DEF T
  <2> QED BY <1>1, <1>2, SeqGrows
<1> QED BY <1>3

LEMMA FlattenUpto ==
    ASSUME NEW R, NEW s \in Seq(R), NEW f \in Seq(Seq(R)), NEW n \in Nat, n + 1 <= Len(f)
    PROVE  s \o FlattenSeq(Upto(f, n + 1)) = (s \o FlattenSeq(Upto(f, n))) \o f[n + 1]
<1>1. PICK u, x : u = Upto(f, n) /\ x = f[n + 1]
  OBVIOUS
<1>2. u \in Seq(Seq(R)) /\ x \in Seq(R) /\ Upto(f, n + 1) = Append(u, x)
  BY <1>1, UptoIs
<1>3. FlattenSeq(Append(u, x)) = FlattenSeq(u) \o x /\ FlattenSeq(u) \in Seq(R)
  BY <1>2, FlattenOneMore, FlattenType
<1>4. PICK y : y = FlattenSeq(u)
  OBVIOUS
<1>5. s \o (y \o x) = (s \o y) \o x
  <2>1. y \in Seq(R) /\ x \in Seq(R) /\ s \in Seq(R)
    BY <1>2, <1>3, <1>4
  <2>2. (s \o y) \o x = s \o (y \o x)
    BY <2>1, ConcatAssociative
  <2> QED BY <2>2
<1> QED BY <1>1, <1>2, <1>3, <1>4, <1>5

LEMMA MapIs ==
    ASSUME NEW S, NEW q \in Seq(S), NEW R, NEW f, DOMAIN f = DOMAIN q,
           f = [i \in DOMAIN q |-> f[i]],
           \A i \in DOMAIN q : f[i] \in R
    PROVE  f \in Seq(R) /\ Len(f) = Len(q)
OBVIOUS

LEMMA FrontIs ==
    ASSUME NEW R, NEW f \in Seq(R), NEW n \in Nat, Len(f) = n + 1
    PROVE  \E g \in Seq(R) : /\ Len(g) = n /\ f = Append(g, f[n + 1]) /\ f[n + 1] \in R
                             /\ \A i \in 1 .. n : g[i] = f[i]
<1>1. PICK g : g = Upto(f, n)
  OBVIOUS
<1>2. n + 1 <= Len(f)
  OBVIOUS
<1>3. /\ g \in Seq(R) /\ f[n + 1] \in R /\ Upto(f, n + 1) = Append(g, f[n + 1])
  BY <1>1, <1>2, UptoIs
<1>4. Upto(f, n + 1) = f
  BY UptoIs
<1>5. Len(g) = n /\ \A i \in 1 .. n : g[i] = f[i]
  BY <1>1 DEF Upto
<1> QED BY <1>3, <1>4, <1>5

-----------------------------------------------------------------------------
(* Sums over the backtraces of a line. *)

Fields == {"count", "prev", "abort"}

LEMMA FieldsAre == \A s \in Stack : \A d \in Fields : s[d] \in Nat /\ d # "take"
BY DEF Fields, Stack

LEMMA TotalType ==
    ASSUME NEW ss \in Seq(Stack), NEW d \in Fields
    PROVE  Total(ss, d) \in Nat
<1> DEFINE T == {q \in Seq(Stack) : Total(q, d) \in Nat}
<1>0. d # "take"
  BY DEF Fields
<1>1. <<>> \in T
  <2>1. Total(<<>>, d) = 0
    BY <1>0, FoldOfNothing, Zenon
  <2> QED BY <2>1
<1>2. ASSUME NEW q \in Seq(Stack), NEW s \in Stack, q \in T PROVE Append(q, s) \in T
  <2>1. Total(Append(q, s), d) = Total(q, d) + s[d]
    BY <1>0, FoldOfOneMore, Zenon
  <2>2. s[d] \in Nat
    BY FieldsAre
  <2> QED BY <1>2, <2>1, <2>2
<1>3. Seq(Stack) \subseteq T
  <2> HIDE DEF T
  <2> QED BY <1>1, <1>2, SeqGrows
<1> QED BY <1>3

LEMMA TotalCovers ==
    ASSUME NEW ss \in Seq(Stack), NEW d \in Fields
    PROVE  \A k \in DOMAIN ss : ss[k][d] <= Total(ss, d)
<1> DEFINE T == {q \in Seq(Stack) : \A k \in DOMAIN q : q[k][d] <= Total(q, d)}
<1>0. d # "take"
  BY DEF Fields
<1>1. <<>> \in T
  OBVIOUS
<1>2. ASSUME NEW q \in Seq(Stack), NEW s \in Stack, q \in T PROVE Append(q, s) \in T
  <2>1. Total(Append(q, s), d) = Total(q, d) + s[d]
    BY <1>0, FoldOfOneMore, Zenon
  <2>2. s[d] \in Nat /\ Total(q, d) \in Nat
    BY FieldsAre, TotalType
  <2>3. PICK a : a = Append(q, s)
    OBVIOUS
  <2>4. /\ a \in Seq(Stack) /\ DOMAIN a = DOMAIN q \cup {Len(q) + 1} /\ a[Len(q) + 1] = s
        /\ \A k \in DOMAIN q : a[k] = q[k]
    BY <2>3, AppendIs
  <2>5. ASSUME NEW k \in DOMAIN a PROVE a[k][d] <= Total(a, d)
    <3>1. CASE k \in DOMAIN q
      <4>1. a[k][d] <= Total(q, d) /\ a[k] \in Stack
        BY <1>2, <2>4, <3>1
      <4>2. a[k][d] \in Nat
        BY <4>1, FieldsAre
      <4> QED BY <2>1, <2>2, <2>3, <4>1, <4>2
    <3>2. CASE k = Len(q) + 1
      BY <2>1, <2>2, <2>3, <2>4, <3>2
    <3> QED BY <2>4, <3>1, <3>2
  <2> QED BY <2>3, <2>4, <2>5
<1>3. Seq(Stack) \subseteq T
  <2> HIDE DEF T
  <2> QED BY <1>1, <1>2, SeqGrows
<1> QED BY <1>3

LEMMA TotalSplit ==
    ASSUME NEW u \in Seq(Stack), NEW n \in Nat, Len(u) = n + 1
    PROVE  \E a \in Seq(Stack) :
               /\ Len(a) = n /\ DOMAIN a = 1 .. n /\ u[n + 1] \in Stack
               /\ \A i \in 1 .. n : a[i] = u[i] /\ i \in 1 .. n + 1 /\ i # n + 1
               /\ \A d \in Fields : Total(u, d) = Total(a, d) + u[n + 1][d]
<1>1. PICK a \in Seq(Stack) : /\ Len(a) = n /\ u = Append(a, u[n + 1]) /\ u[n + 1] \in Stack
                              /\ \A i \in 1 .. n : a[i] = u[i]
  BY FrontIs
<1>2. PICK x \in Stack : x = u[n + 1]
  BY <1>1
<1>3. ASSUME NEW d \in Fields PROVE Total(u, d) = Total(a, d) + x[d]
  <2>1. d # "take"
    BY DEF Fields
  <2>2. Total(Append(a, x), d) = Total(a, d) + x[d]
    BY <2>1, FoldOfOneMore, Zenon
  <2> QED BY <1>1, <1>2, <2>2, Zenon
<1>4. DOMAIN a = 1 .. n /\ \A i \in 1 .. n : i \in 1 .. n + 1 /\ i # n + 1
  BY <1>1
<1> QED BY <1>1, <1>2, <1>3, <1>4

(* Two sums, element by element. *)
LEMMA TotalMonotone ==
    ASSUME NEW d \in Fields, NEW e \in Fields
    PROVE  \A n \in Nat : \A u, v \in Seq(Stack) :
               Len(u) = n /\ Len(v) = n /\ (\A k \in 1 .. n : u[k][d] <= v[k][e])
                   => Total(u, d) <= Total(v, e)
<1> DEFINE Q(n, u, v) ==
               Len(u) = n /\ Len(v) = n /\ (\A k \in 1 .. n : u[k][d] <= v[k][e])
                   => Total(u, d) <= Total(v, e)
           S == {n \in Nat : \A u, v \in Seq(Stack) : Q(n, u, v)}
<1>0. d # "take" /\ e # "take"
  BY DEF Fields
<1>1. 0 \in S
  <2>1. ASSUME NEW u \in Seq(Stack), NEW v \in Seq(Stack), Len(u) = 0, Len(v) = 0
        PROVE  Total(u, d) <= Total(v, e)
    <3>1. u = <<>> /\ v = <<>>
      BY <2>1
    <3>2. Total(<<>>, d) = 0 /\ Total(<<>>, e) = 0
      BY <1>0, FoldOfNothing, Zenon
    <3> QED BY <3>1, <3>2
  <2> QED BY <2>1
<1>2. ASSUME NEW n \in Nat, n \in S PROVE n + 1 \in S
  <2>1. ASSUME NEW u \in Seq(Stack), NEW v \in Seq(Stack), Len(u) = n + 1, Len(v) = n + 1,
               \A k \in 1 .. n + 1 : u[k][d] <= v[k][e]
        PROVE  Total(u, d) <= Total(v, e)
    <3>1. PICK a \in Seq(Stack) :
               /\ Len(a) = n /\ DOMAIN a = 1 .. n /\ u[n + 1] \in Stack
               /\ \A i \in 1 .. n : a[i] = u[i] /\ i \in 1 .. n + 1 /\ i # n + 1
               /\ \A f \in Fields : Total(u, f) = Total(a, f) + u[n + 1][f]
      BY <2>1, TotalSplit, Zenon
    <3>2. PICK b \in Seq(Stack) :
               /\ Len(b) = n /\ DOMAIN b = 1 .. n /\ v[n + 1] \in Stack
               /\ \A i \in 1 .. n : b[i] = v[i] /\ i \in 1 .. n + 1 /\ i # n + 1
               /\ \A f \in Fields : Total(v, f) = Total(b, f) + v[n + 1][f]
      BY <2>1, TotalSplit, Zenon
    <3>3. PICK x, y : x = u[n + 1] /\ y = v[n + 1]
      OBVIOUS
    <3>4. Total(u, d) = Total(a, d) + x[d] /\ Total(v, e) = Total(b, e) + y[e]
      BY <3>1, <3>2, <3>3
    <3>5. x[d] <= y[e] /\ x[d] \in Nat /\ y[e] \in Nat
      <4>1. n + 1 \in 1 .. n + 1
        OBVIOUS
      <4>2. x[d] <= y[e]
        BY <2>1, <3>3, <4>1
      <4> QED BY <3>1, <3>2, <3>3, <4>2, FieldsAre
    <3>6. \A k \in 1 .. n : a[k][d] <= b[k][e]
      <4>1. \A k \in 1 .. n : k \in 1 .. n + 1
        OBVIOUS
      <4> QED BY <2>1, <3>1, <3>2, <4>1
    <3>7. Total(a, d) <= Total(b, e)
      BY <1>2, <3>1, <3>2, <3>6
    <3>8. Total(a, d) \in Nat /\ Total(b, e) \in Nat
      BY TotalType
    <3> QED BY <3>4, <3>5, <3>7, <3>8
  <2> QED BY <2>1
<1>3. Nat \subseteq S
  <2> HIDE DEF S
  <2> QED BY <1>1, <1>2, NatSet
<1> QED BY <1>3

LEMMA TotalEqual ==
    ASSUME NEW d \in Fields, NEW e \in Fields, NEW u \in Seq(Stack), NEW v \in Seq(Stack),
           Len(u) = Len(v), \A k \in DOMAIN u : u[k][d] = v[k][e]
    PROVE  Total(u, d) = Total(v, e)
<1>1. Len(u) \in Nat /\ DOMAIN u = 1 .. Len(u)
  OBVIOUS
<1>2. \A k \in 1 .. Len(u) : u[k] \in Stack /\ v[k] \in Stack
  OBVIOUS
<1>3. \A k \in 1 .. Len(u) : u[k][d] \in Nat /\ v[k][e] \in Nat
  BY <1>2, FieldsAre
<1>4. \A k \in 1 .. Len(u) : u[k][d] <= v[k][e] /\ v[k][e] <= u[k][d]
  BY <1>1, <1>3
<1>5. Total(u, d) <= Total(v, e) /\ Total(v, e) <= Total(u, d)
  BY <1>1, <1>4, TotalMonotone
<1>6. Total(u, d) \in Nat /\ Total(v, e) \in Nat
  BY TotalType
<1> QED BY <1>5, <1>6

LEMMA TotalZero ==
    ASSUME NEW d \in Fields, NEW ss \in Seq(Stack), \A k \in DOMAIN ss : ss[k][d] = 0
    PROVE  Total(ss, d) = 0
<1> DEFINE T == {q \in Seq(Stack) : (\A k \in DOMAIN q : q[k][d] = 0) => Total(q, d) = 0}
<1>0. d # "take"
  BY DEF Fields
<1>1. <<>> \in T
  <2>1. Total(<<>>, d) = 0
    BY <1>0, FoldOfNothing, Zenon
  <2> QED BY <2>1
<1>2. ASSUME NEW q \in Seq(Stack), NEW s \in Stack, q \in T PROVE Append(q, s) \in T
  <2>1. Total(Append(q, s), d) = Total(q, d) + s[d]
    BY <1>0, FoldOfOneMore, Zenon
  <2>2. PICK a : a = Append(q, s)
    OBVIOUS
  <2>3. /\ a \in Seq(Stack) /\ DOMAIN a = DOMAIN q \cup {Len(q) + 1} /\ a[Len(q) + 1] = s
        /\ \A k \in DOMAIN q : a[k] = q[k]
    BY <2>2, AppendIs
  <2>4. ASSUME \A k \in DOMAIN a : a[k][d] = 0 PROVE Total(a, d) = 0
    <3>1. s[d] = 0 /\ \A k \in DOMAIN q : q[k][d] = 0
      BY <2>3, <2>4
    <3>2. Total(q, d) = 0
      BY <1>2, <3>1
    <3> QED BY <2>1, <2>2, <3>1, <3>2
  <2> QED BY <2>2, <2>3, <2>4
<1>3. Seq(Stack) \subseteq T
  <2> HIDE DEF T
  <2> QED BY <1>1, <1>2, SeqGrows
<1> QED BY <1>3

OneMoreAt(u, v, i, d) ==
    /\ v[i][d] = u[i][d] + 1
    /\ \A k \in DOMAIN u : k # i => v[k][d] = u[k][d]

LEMMA TotalOneMore ==
    ASSUME NEW d \in Fields
    PROVE  \A n \in Nat : \A u, v \in Seq(Stack) : \A i \in 1 .. n :
               Len(u) = n /\ Len(v) = n /\ OneMoreAt(u, v, i, d)
                   => Total(v, d) = Total(u, d) + 1
<1> DEFINE Q(n, u, v, i) == Len(u) = n /\ Len(v) = n /\ OneMoreAt(u, v, i, d)
                                => Total(v, d) = Total(u, d) + 1
           S == {n \in Nat : \A u, v \in Seq(Stack) : \A i \in 1 .. n : Q(n, u, v, i)}
<1>1. 0 \in S
  <2>1. \A i \in 1 .. 0 : FALSE
    OBVIOUS
  <2> HIDE DEF Q
  <2> QED BY <2>1
<1>2. ASSUME NEW n \in Nat, n \in S PROVE n + 1 \in S
  <2>1. ASSUME NEW u \in Seq(Stack), NEW v \in Seq(Stack), NEW i \in 1 .. n + 1,
               Len(u) = n + 1, Len(v) = n + 1, OneMoreAt(u, v, i, d)
        PROVE  Total(v, d) = Total(u, d) + 1
    <3>1. PICK a \in Seq(Stack) :
               /\ Len(a) = n /\ DOMAIN a = 1 .. n /\ u[n + 1] \in Stack
               /\ \A j \in 1 .. n : a[j] = u[j] /\ j \in 1 .. n + 1 /\ j # n + 1
               /\ \A e \in Fields : Total(u, e) = Total(a, e) + u[n + 1][e]
      BY <2>1, TotalSplit, Zenon
    <3>2. PICK b \in Seq(Stack) :
               /\ Len(b) = n /\ DOMAIN b = 1 .. n /\ v[n + 1] \in Stack
               /\ \A j \in 1 .. n : b[j] = v[j] /\ j \in 1 .. n + 1 /\ j # n + 1
               /\ \A e \in Fields : Total(v, e) = Total(b, e) + v[n + 1][e]
      BY <2>1, TotalSplit, Zenon
    <3>3. PICK x, y : x = u[n + 1] /\ y = v[n + 1]
      OBVIOUS
    <3>4. /\ Total(u, d) = Total(a, d) + x[d]
          /\ Total(v, d) = Total(b, d) + y[d]
      BY <3>1, <3>2, <3>3
    <3>5. /\ x[d] \in Nat /\ y[d] \in Nat
          /\ Total(a, d) \in Nat /\ Total(b, d) \in Nat
      BY <3>1, <3>2, <3>3, FieldsAre, TotalType
    <3>6. DOMAIN u = 1 .. n + 1 /\ n + 1 \in 1 .. n + 1
      BY <2>1
    <3>7. CASE i = n + 1
      <4>1. y[d] = x[d] + 1
        BY <2>1, <3>3, <3>7 DEF OneMoreAt
      <4>2. \A k \in DOMAIN b : b[k][d] = a[k][d]
        BY <2>1, <3>1, <3>2, <3>6, <3>7 DEF OneMoreAt
      <4>3. Total(b, d) = Total(a, d)
        <5>1. a \in Seq(Stack) /\ b \in Seq(Stack) /\ Len(b) = Len(a)
          BY <3>1, <3>2
        <5> QED BY <4>2, <5>1, TotalEqual, Zenon
      <4>4. PICK j, k, m : j = x[d] /\ k = y[d] /\ m = Total(a, d)
        OBVIOUS
      <4>5. j \in Nat /\ m \in Nat /\ k = j + 1
        BY <3>5, <4>1, <4>4
      <4>6. m + k = (m + j) + 1
        BY <4>5
      <4> QED BY <3>4, <4>3, <4>4, <4>6
    <3>8. CASE i \in 1 .. n
      <4>1. y[d] = x[d]
        BY <2>1, <3>1, <3>3, <3>6, <3>8 DEF OneMoreAt
      <4>2. OneMoreAt(a, b, i, d)
        BY <2>1, <3>1, <3>2, <3>6, <3>8 DEF OneMoreAt
      <4>3. Total(b, d) = Total(a, d) + 1
        BY <1>2, <3>1, <3>2, <3>8, <4>2
      <4>4. PICK j, k, m : j = x[d] /\ k = Total(b, d) /\ m = Total(a, d)
        OBVIOUS
      <4>5. j \in Nat /\ m \in Nat /\ k = m + 1
        BY <3>5, <4>3, <4>4
      <4>6. k + j = (m + j) + 1
        BY <4>5
      <4> QED BY <3>4, <4>1, <4>4, <4>6
    <3> QED BY <3>7, <3>8
  <2> QED BY <2>1
<1>3. Nat \subseteq S
  <2> HIDE DEF S
  <2> QED BY <1>1, <1>2, NatSet
<1> QED BY <1>3

-----------------------------------------------------------------------------
(* Writing a line and then reading it. *)

LEMMA LineRecord ==
    ASSUME NEW l \in Line
    PROVE  \E r \in Records : r = [kind |-> "line", line |-> l.line, count |-> CountOut(l),
                                   abort |-> AbortOut(AbortsOf(l))]
<1>1. l.stacks \in Seq(Stack) /\ "abort" \in Fields
  BY DEF Line, Fields
<1>2. AbortsOf(l) \in Nat
  BY <1>1, TotalType, Zenon DEF AbortsOf
<1>3. CountOut(l) \in Nat /\ AbortOut(AbortsOf(l)) \in Nat /\ l.line \in LineNames
  BY <1>2 DEF Line, CountOut, AbortOut, larger_count
<1>4. PICK n, a, k : n = CountOut(l) /\ a = AbortOut(AbortsOf(l)) /\ k = l.line
  OBVIOUS
<1>5. [kind |-> "line", line |-> k, count |-> n, abort |-> a] \in Records
  BY <1>3, <1>4 DEF Records
<1> QED BY <1>4, <1>5

LEMMA StackOutType == \A st \in Stack : StackOut(st) \in Seq(Records)
<1>1. ASSUME NEW st \in Stack PROVE StackOut(st) \in Seq(Records)
  <2>1. CountOut(st) \in Nat /\ AbortOut(st.abort) \in Nat /\ st.bt \in Traces
    BY DEF Stack, CountOut, AbortOut, larger_count
  <2>2. PICK a, b, c : /\ a = [kind |-> "stack", count |-> CountOut(st), abort |-> AbortOut(st.abort)]
                       /\ b = [kind |-> "trace", bt |-> st.bt]
                       /\ c = [kind |-> "end"]
    OBVIOUS
  <2>3. a \in Records /\ b \in Records /\ c \in Records
    BY <2>1, <2>2 DEF Records
  <2> QED BY <2>2, <2>3 DEF StackOut
<1> QED BY <1>1

LEMMA MergedTypes ==
    ASSUME NEW e
    PROVE  /\ \A s \in Stack : MergedStack(e, s) \in Stack
           /\ \A ss \in Seq(Stack) : /\ MergedStacks(e, ss) \in Seq(Stack)
                                     /\ Len(MergedStacks(e, ss)) = Len(ss)
           /\ \A l \in Line : MergedLine(e, l) \in Line
           /\ \A ls \in Seq(Line) : /\ MergedLines(e, ls) \in Seq(Line)
                                    /\ Len(MergedLines(e, ls)) = Len(ls)
           /\ \A f \in File : MergedFile(e, f) \in File
           /\ \A t \in Tables : Merged(e, t) \in Tables /\ Len(Merged(e, t)) = Len(t)
<1>1. ASSUME NEW s \in Stack PROVE MergedStack(e, s) \in Stack
  <2>1. PICK n, a, b : n = CountOf(e, s) /\ a = AbortOf(e, s.abort) /\ b = s.bt
    OBVIOUS
  <2>2. n \in Nat /\ a \in Nat /\ b \in Traces
    BY <2>1 DEF Stack, CountOf, AbortOf, larger_count
  <2>3. [bt |-> b, count |-> 0, prev |-> n, abort |-> a] \in Stack
    BY <2>2 DEF Stack
  <2> QED BY <2>1, <2>3 DEF MergedStack
<1>2. ASSUME NEW ss \in Seq(Stack)
      PROVE  MergedStacks(e, ss) \in Seq(Stack) /\ Len(MergedStacks(e, ss)) = Len(ss)
  <2>1. PICK m : m = MergedStacks(e, ss)
    OBVIOUS
  <2>2. DOMAIN m = DOMAIN ss /\ m = [k \in DOMAIN ss |-> m[k]]
    BY <2>1 DEF MergedStacks
  <2>3. \A k \in DOMAIN ss : m[k] \in Stack
    <3>1. ASSUME NEW k \in DOMAIN ss PROVE m[k] \in Stack
      <4>1. ss[k] \in Stack /\ m[k] = MergedStack(e, ss[k])
        BY <2>1 DEF MergedStacks
      <4> QED BY <1>1, <4>1
    <3> QED BY <3>1
  <2> QED BY <2>1, <2>2, <2>3, MapIs
<1>3. ASSUME NEW l \in Line PROVE MergedLine(e, l) \in Line
  <2>1. PICK n, a, b, m : /\ n = CountOf(e, l) /\ a = AbortOf(e, AbortsOf(l)) /\ b = l.line
                          /\ m = MergedStacks(e, l.stacks)
    OBVIOUS
  <2>2. l.stacks \in Seq(Stack) /\ "abort" \in Fields
    BY DEF Line, Fields
  <2>3. AbortsOf(l) \in Nat
    BY <2>2, TotalType, Zenon DEF AbortsOf
  <2>4. n \in Nat /\ a \in Nat /\ b \in LineNames /\ m \in Seq(Stack)
    BY <1>2, <2>1, <2>2, <2>3 DEF Line, CountOf, AbortOf, larger_count
  <2>5. [line |-> b, count |-> 0, prev |-> n, abort |-> a, stacks |-> m] \in Line
    BY <2>4 DEF Line
  <2> QED BY <2>1, <2>5 DEF MergedLine
<1>4. ASSUME NEW ls \in Seq(Line)
      PROVE  MergedLines(e, ls) \in Seq(Line) /\ Len(MergedLines(e, ls)) = Len(ls)
  <2>1. PICK m : m = MergedLines(e, ls)
    OBVIOUS
  <2>2. DOMAIN m = DOMAIN ls /\ m = [k \in DOMAIN ls |-> m[k]]
    BY <2>1 DEF MergedLines
  <2>3. \A k \in DOMAIN ls : m[k] \in Line
    <3>1. ASSUME NEW k \in DOMAIN ls PROVE m[k] \in Line
      <4>1. ls[k] \in Line /\ m[k] = MergedLine(e, ls[k])
        BY <2>1 DEF MergedLines
      <4> QED BY <1>3, <4>1
    <3> QED BY <3>1
  <2> QED BY <2>1, <2>2, <2>3, MapIs
<1>5. ASSUME NEW f \in File PROVE MergedFile(e, f) \in File
  <2>1. PICK n, m : n = f.name /\ m = MergedLines(e, f.lines)
    OBVIOUS
  <2>2. n \in FileNames /\ m \in Seq(Line)
    BY <1>4, <2>1 DEF File
  <2>3. [name |-> n, lines |-> m] \in File
    BY <2>2 DEF File
  <2> QED BY <2>1, <2>3 DEF MergedFile
<1>6. ASSUME NEW t \in Tables PROVE Merged(e, t) \in Tables /\ Len(Merged(e, t)) = Len(t)
  <2>1. PICK m : m = Merged(e, t)
    OBVIOUS
  <2>2. DOMAIN m = DOMAIN t /\ m = [k \in DOMAIN t |-> m[k]] /\ t \in Seq(File)
    BY <2>1 DEF Merged, Tables
  <2>3. \A k \in DOMAIN t : m[k] \in File
    <3>1. ASSUME NEW k \in DOMAIN t PROVE m[k] \in File
      <4>1. t[k] \in File /\ m[k] = MergedFile(e, t[k])
        BY <2>1, <2>2 DEF Merged
      <4> QED BY <1>5, <4>1
    <3> QED BY <3>1
  <2> QED BY <2>1, <2>2, <2>3, MapIs DEF Tables
<1> QED BY <1>1, <1>2, <1>3, <1>4, <1>5, <1>6

LEMMA StacksOutIs ==
    ASSUME NEW l \in Line
    PROVE  \E w \in Seq(Seq(Records)) :
               /\ w = [i \in DOMAIN l.stacks |-> StackOut(l.stacks[i])]
               /\ Len(w) = Len(l.stacks) /\ DOMAIN w = DOMAIN l.stacks
               /\ \A i \in DOMAIN l.stacks : w[i] = StackOut(l.stacks[i])
<1>1. PICK w : w = [i \in DOMAIN l.stacks |-> StackOut(l.stacks[i])]
  OBVIOUS
<1>2. /\ l.stacks \in Seq(Stack)
  BY DEF Line
<1>3. DOMAIN w = DOMAIN l.stacks /\ w = [i \in DOMAIN l.stacks |-> w[i]]
  BY <1>1
<1>4. ASSUME NEW i \in DOMAIN l.stacks PROVE w[i] = StackOut(l.stacks[i]) /\ w[i] \in Seq(Records)
  <2>1. w[i] = StackOut(l.stacks[i]) /\ l.stacks[i] \in Stack
    BY <1>1, <1>2
  <2> QED BY <2>1, StackOutType
<1>5. w \in Seq(Seq(Records)) /\ Len(w) = Len(l.stacks)
  BY <1>2, <1>3, <1>4, MapIs
<1> QED BY <1>1, <1>3, <1>4, <1>5

(* The writes of a line are read as the merged line. *)
LEMMA WroteLineOut ==
    ASSUME NEW s, NEW t \in Tables, Len(t) # 0, Wrote(s, t), NEW l \in Line, OneStackEach(l)
    PROVE  /\ LineOut(l) \in Seq(Records)
           /\ Wrote(s \o LineOut(l), AddLine(t, MergedLine(env, l)))
<1>1. PICK r \in Records : r = [kind |-> "line", line |-> l.line, count |-> CountOut(l),
                                abort |-> AbortOut(AbortsOf(l))]
  BY LineRecord
<1>2. PICK w \in Seq(Seq(Records)) :
               /\ w = [i \in DOMAIN l.stacks |-> StackOut(l.stacks[i])]
               /\ Len(w) = Len(l.stacks) /\ DOMAIN w = DOMAIN l.stacks
               /\ \A i \in DOMAIN l.stacks : w[i] = StackOut(l.stacks[i])
  BY StacksOutIs
<1>3. LineOut(l) = <<r>> \o FlattenSeq(w)
  BY <1>1, <1>2 DEF LineOut
<1>4. PICK q, mq : q = l.stacks /\ mq = MergedStacks(env, l.stacks)
  OBVIOUS
<1>5. /\ q \in Seq(Stack) /\ mq \in Seq(Stack) /\ Len(mq) = Len(q) /\ Len(w) = Len(q)
      /\ DOMAIN w = DOMAIN q /\ DOMAIN mq = DOMAIN q /\ DOMAIN q = 1 .. Len(q) /\ Len(q) \in Nat
      /\ \A i \in DOMAIN q : mq[i] = MergedStack(env, q[i]) /\ w[i] = StackOut(q[i])
  <2>1. q \in Seq(Stack)
    BY <1>4 DEF Line
  <2>2. mq \in Seq(Stack) /\ Len(mq) = Len(q)
    BY <1>4, <2>1, MergedTypes
  <2>3. DOMAIN mq = DOMAIN q /\ \A i \in DOMAIN q : mq[i] = MergedStack(env, q[i])
    BY <1>4 DEF MergedStacks
  <2>4. DOMAIN q = 1 .. Len(q) /\ Len(q) \in Nat
    BY <2>1
  <2> QED BY <1>2, <1>4, <2>1, <2>2, <2>3, <2>4
<1>6. PICK m \in Line : m = MergedLine(env, l)
  BY MergedTypes
<1>7. PICK a : a = Append(s, r)
  OBVIOUS
<1>8. NewLine(r) = [m EXCEPT !.stacks = <<>>] /\ m.stacks = mq
  <2>1. PICK n, k, b : n = CountOut(l) /\ k = AbortOut(AbortsOf(l)) /\ b = l.line
    OBVIOUS
  <2>2. n = CountOf(env, l) /\ k = AbortOf(env, AbortsOf(l))
    BY <2>1 DEF CountOf, CountOut, AbortOf, AbortOut
  <2>3. m = [line |-> b, count |-> 0, prev |-> n, abort |-> k, stacks |-> mq]
    BY <1>4, <1>6, <2>1, <2>2 DEF MergedLine
  <2>4. r = [kind |-> "line", line |-> b, count |-> n, abort |-> k]
    BY <1>1, <2>1
  <2>5. NewLine(r) = [line |-> b, count |-> 0, prev |-> n, abort |-> k, stacks |-> <<>>]
    BY <2>4 DEF NewLine
  <2> QED BY <2>3, <2>5
<1>9. Wrote(a, AddLine(t, [m EXCEPT !.stacks = <<>>])) /\ a \in Seq(Records)
  <2>1. r.kind = "line"
    BY <1>1
  <2>2. Wrote(a, AddLine(t, NewLine(r)))
    BY <1>7, <2>1, WroteLine
  <2> QED BY <1>8, <2>2 DEF Wrote
<1> DEFINE Part(n) == [m EXCEPT !.stacks = Upto(mq, n)]
           T == {n \in Nat : n <= Len(q) =>
                     Wrote(a \o FlattenSeq(Upto(w, n)), AddLine(t, Part(n)))}
<1>10. 0 \in T
  <2>1. Upto(mq, 0) = <<>> /\ FlattenSeq(Upto(w, 0)) = <<>>
    BY <1>5, UptoIs, FlattenNothing
  <2>2. a \o <<>> = a
    BY <1>9
  <2> QED BY <1>9, <2>1, <2>2
<1>11. ASSUME NEW n \in Nat, n \in T PROVE n + 1 \in T
  <2>1. SUFFICES ASSUME n + 1 <= Len(q)
                 PROVE  Wrote(a \o FlattenSeq(Upto(w, n + 1)), AddLine(t, Part(n + 1)))
    OBVIOUS
  <2>2. PICK k : k = n + 1
    OBVIOUS
  <2>3. n <= Len(q) /\ k \in DOMAIN q
    BY <1>5, <2>1, <2>2
  <2>4. Wrote(a \o FlattenSeq(Upto(w, n)), AddLine(t, Part(n)))
    BY <1>11, <2>3
  <2>5. a \o FlattenSeq(Upto(w, n + 1)) = (a \o FlattenSeq(Upto(w, n))) \o StackOut(q[k])
    <3>1. n + 1 <= Len(w) /\ w[n + 1] = StackOut(q[k])
      BY <1>5, <2>1, <2>2, <2>3
    <3> QED BY <1>9, <3>1, FlattenUpto
  <2>6. /\ Upto(mq, n) \in Seq(Stack) /\ Upto(mq, k) = Append(Upto(mq, n), MergedStack(env, q[k]))
        /\ DOMAIN Upto(mq, n) \subseteq DOMAIN q
        /\ \A i \in DOMAIN Upto(mq, n) : Upto(mq, n)[i] = mq[i] /\ i # k
    <3>1. n + 1 <= Len(mq)
      BY <1>5, <2>1
    <3>2. mq[k] = MergedStack(env, q[k])
      BY <1>5, <2>3
    <3>3. mq \in Seq(Stack)
      BY <1>5
    <3>4. /\ Upto(mq, n) \in Seq(Stack) /\ Upto(mq, n + 1) = Append(Upto(mq, n), mq[n + 1])
          /\ DOMAIN Upto(mq, n) \subseteq DOMAIN mq
          /\ \A i \in DOMAIN Upto(mq, n) : Upto(mq, n)[i] = mq[i] /\ i # n + 1
      BY <3>1, <3>3, UptoIs
    <3>5. DOMAIN mq = DOMAIN q
      BY <1>5
    <3> QED BY <2>2, <3>2, <3>4, <3>5
  <2>7. PICK u : u = Part(n)
    OBVIOUS
  <2>8. u \in Line /\ u.stacks = Upto(mq, n)
    BY <2>6, <2>7 DEF Line
  <2>9. q[k].bt \notin Bts(u.stacks)
    <3>1. SUFFICES ASSUME NEW i \in DOMAIN u.stacks, u.stacks[i].bt = q[k].bt PROVE FALSE
      BY DEF Bts
    <3>2. i \in DOMAIN q /\ u.stacks[i] = mq[i] /\ i # k
      BY <2>6, <2>8, <3>1
    <3>3. mq[i].bt = q[i].bt
      BY <1>5, <3>2 DEF MergedStack
    <3> QED BY <1>4, <2>3, <3>1, <3>2, <3>3 DEF OneStackEach
  <2>10. q[k] \in Stack
    BY <1>5, <2>3
  <2>11. PICK x : x = a \o FlattenSeq(Upto(w, n))
    OBVIOUS
  <2>12. Wrote(x, AddLine(t, u))
    BY <2>4, <2>7, <2>11
  <2>13. Wrote(x \o StackOut(q[k]), AddLine(t, AddStack(u, MergedStack(env, q[k]))))
    BY <2>8, <2>9, <2>10, <2>12, WroteStack
  <2>14. AddStack(u, MergedStack(env, q[k])) = Part(k)
    <3>1. PICK z : z = Upto(mq, k)
      OBVIOUS
    <3>2. AddStack(u, MergedStack(env, q[k])) = [u EXCEPT !.stacks = z]
      BY <2>6, <2>8, <3>1 DEF AddStack
    <3>3. PICK y : y = Upto(mq, n)
      OBVIOUS
    <3>4. [[m EXCEPT !.stacks = y] EXCEPT !.stacks = z] = [m EXCEPT !.stacks = z]
      BY DEF Line
    <3> QED BY <2>7, <3>1, <3>2, <3>3, <3>4
  <2> QED BY <2>2, <2>5, <2>11, <2>13, <2>14
<1>12. Nat \subseteq T
  <2> HIDE DEF T
  <2> QED BY <1>10, <1>11, NatSet
<1>13. Wrote(a \o FlattenSeq(w), AddLine(t, m))
  <2>1. Len(q) \in T
    BY <1>5, <1>12
  <2>2. Wrote(a \o FlattenSeq(Upto(w, Len(q))), AddLine(t, Part(Len(q))))
    BY <1>5, <2>1
  <2>3. Upto(w, Len(q)) = w /\ Upto(mq, Len(q)) = mq
    BY <1>5, UptoIs
  <2>4. Part(Len(q)) = m
    BY <1>8, <2>3 DEF Line
  <2> QED BY <2>2, <2>3, <2>4
<1>14. a \o FlattenSeq(w) = s \o LineOut(l) /\ LineOut(l) \in Seq(Records)
  <2>1. s \in Seq(Records) /\ FlattenSeq(w) \in Seq(Records) /\ <<r>> \in Seq(Records)
    BY FlattenType DEF Wrote
  <2>2. PICK y : y = FlattenSeq(w)
    OBVIOUS
  <2>3. y \in Seq(Records)
    BY <2>1, <2>2
  <2>4. (s \o <<r>>) \o y = s \o (<<r>> \o y)
    BY <2>1, <2>3, ConcatAssociative
  <2>5. a = s \o <<r>>
    BY <1>7, <2>1
  <2>6. <<r>> \o y \in Seq(Records)
    BY <2>1, <2>3
  <2> QED BY <1>3, <2>2, <2>4, <2>5, <2>6
<1> QED BY <1>6, <1>13, <1>14

-----------------------------------------------------------------------------
(* Writing the files and then reading them. *)

LEMMA LineOutType == \A l \in Line : LineOut(l) \in Seq(Records)
<1>1. ASSUME NEW l \in Line PROVE LineOut(l) \in Seq(Records)
  <2>1. PICK r \in Records : r = [kind |-> "line", line |-> l.line, count |-> CountOut(l),
                                  abort |-> AbortOut(AbortsOf(l))]
    BY LineRecord
  <2>2. PICK w \in Seq(Seq(Records)) : w = [i \in DOMAIN l.stacks |-> StackOut(l.stacks[i])]
    BY StacksOutIs
  <2>3. LineOut(l) = <<r>> \o FlattenSeq(w)
    BY <2>1, <2>2 DEF LineOut
  <2>4. PICK y \in Seq(Records) : y = FlattenSeq(w)
    BY FlattenType
  <2> QED BY <2>3, <2>4
<1> QED BY <1>1

LEMMA LinesOutIs ==
    ASSUME NEW f \in File
    PROVE  \E w \in Seq(Seq(Records)) :
               /\ w = [i \in DOMAIN f.lines |-> LineOut(f.lines[i])]
               /\ Len(w) = Len(f.lines) /\ DOMAIN w = DOMAIN f.lines
               /\ \A i \in DOMAIN f.lines : w[i] = LineOut(f.lines[i])
<1>1. PICK w : w = [i \in DOMAIN f.lines |-> LineOut(f.lines[i])]
  OBVIOUS
<1>2. f.lines \in Seq(Line)
  BY DEF File
<1>3. DOMAIN w = DOMAIN f.lines /\ w = [i \in DOMAIN f.lines |-> w[i]]
  BY <1>1
<1>4. ASSUME NEW i \in DOMAIN f.lines PROVE w[i] = LineOut(f.lines[i]) /\ w[i] \in Seq(Records)
  <2>1. w[i] = LineOut(f.lines[i]) /\ f.lines[i] \in Line
    BY <1>1, <1>2
  <2> QED BY <2>1, LineOutType
<1>5. w \in Seq(Seq(Records)) /\ Len(w) = Len(f.lines)
  BY <1>2, <1>3, <1>4, MapIs
<1> QED BY <1>1, <1>3, <1>4, <1>5

(* The writes of a file are read as the merged file. *)
LEMMA WroteFileOut ==
    ASSUME NEW s, NEW t, Wrote(s, t), NEW f \in File,
           \A j \in DOMAIN f.lines : OneStackEach(f.lines[j])
    PROVE  /\ FileOut(f) \in Seq(Records)
           /\ Wrote(s \o FileOut(f), Append(t, MergedFile(env, f)))
<1>0. t \in Tables /\ s \in Seq(Records)
  BY DEF Wrote
<1>1. PICK r : r = [kind |-> "file", name |-> f.name]
  OBVIOUS
<1>2. PICK w \in Seq(Seq(Records)) :
               /\ w = [i \in DOMAIN f.lines |-> LineOut(f.lines[i])]
               /\ Len(w) = Len(f.lines) /\ DOMAIN w = DOMAIN f.lines
               /\ \A i \in DOMAIN f.lines : w[i] = LineOut(f.lines[i])
  BY LinesOutIs
<1>3. FileOut(f) = <<r>> \o FlattenSeq(w)
  BY <1>1, <1>2 DEF FileOut
<1>4. PICK q, mq : q = f.lines /\ mq = MergedLines(env, f.lines)
  OBVIOUS
<1>5. /\ q \in Seq(Line) /\ mq \in Seq(Line) /\ Len(mq) = Len(q) /\ Len(w) = Len(q)
      /\ DOMAIN w = DOMAIN q /\ DOMAIN mq = DOMAIN q /\ DOMAIN q = 1 .. Len(q) /\ Len(q) \in Nat
      /\ \A i \in DOMAIN q : mq[i] = MergedLine(env, q[i]) /\ w[i] = LineOut(q[i])
  <2>1. q \in Seq(Line)
    BY <1>4 DEF File
  <2>2. mq \in Seq(Line) /\ Len(mq) = Len(q)
    BY <1>4, <2>1, MergedTypes
  <2>3. DOMAIN mq = DOMAIN q /\ \A i \in DOMAIN q : mq[i] = MergedLine(env, q[i])
    BY <1>4 DEF MergedLines
  <2>4. DOMAIN q = 1 .. Len(q) /\ Len(q) \in Nat
    BY <2>1
  <2> QED BY <1>2, <1>4, <2>1, <2>2, <2>3, <2>4
<1>6. PICK m \in File : m = MergedFile(env, f)
  BY MergedTypes
<1>7. PICK a : a = Append(s, r)
  OBVIOUS
<1>8. NewFile(f.name) = [m EXCEPT !.lines = <<>>] /\ m.lines = mq
  <2>1. m = [name |-> f.name, lines |-> mq]
    BY <1>4, <1>6 DEF MergedFile
  <2> QED BY <2>1 DEF NewFile
<1>9. Wrote(a, Append(t, [m EXCEPT !.lines = <<>>])) /\ a \in Seq(Records) /\ r \in Records
  <2>1. f.name \in FileNames
    BY DEF File
  <2>2. Wrote(a, Append(t, NewFile(f.name)))
    BY <1>1, <1>7, <2>1, WroteFile
  <2>3. r \in Records
    BY <1>1, <2>1 DEF Records
  <2> QED BY <1>8, <2>2, <2>3 DEF Wrote
<1> DEFINE Part(n) == [m EXCEPT !.lines = Upto(mq, n)]
           T == {n \in Nat : n <= Len(q) =>
                     Wrote(a \o FlattenSeq(Upto(w, n)), Append(t, Part(n)))}
<1>10. 0 \in T
  <2>1. Upto(mq, 0) = <<>> /\ FlattenSeq(Upto(w, 0)) = <<>>
    BY <1>5, UptoIs, FlattenNothing
  <2>2. a \o <<>> = a
    BY <1>9
  <2> QED BY <1>9, <2>1, <2>2
<1>11. ASSUME NEW n \in Nat, n \in T PROVE n + 1 \in T
  <2>1. SUFFICES ASSUME n + 1 <= Len(q)
                 PROVE  Wrote(a \o FlattenSeq(Upto(w, n + 1)), Append(t, Part(n + 1)))
    OBVIOUS
  <2>2. PICK k : k = n + 1
    OBVIOUS
  <2>3. n <= Len(q) /\ k \in DOMAIN q
    BY <1>5, <2>1, <2>2
  <2>4. Wrote(a \o FlattenSeq(Upto(w, n)), Append(t, Part(n)))
    BY <1>11, <2>3
  <2>5. a \o FlattenSeq(Upto(w, n + 1)) = (a \o FlattenSeq(Upto(w, n))) \o LineOut(q[k])
    <3>1. n + 1 <= Len(w) /\ w[n + 1] = LineOut(q[k])
      BY <1>5, <2>1, <2>2, <2>3
    <3> QED BY <1>9, <3>1, FlattenUpto
  <2>6. /\ Upto(mq, n) \in Seq(Line) /\ Upto(mq, k) = Append(Upto(mq, n), MergedLine(env, q[k]))
    <3>1. n + 1 <= Len(mq)
      BY <1>5, <2>1
    <3>2. mq[k] = MergedLine(env, q[k])
      BY <1>5, <2>3
    <3> QED BY <1>5, <2>2, <3>1, <3>2, UptoIs
  <2>7. PICK u : u = Part(n)
    OBVIOUS
  <2>8. u \in File /\ u.lines = Upto(mq, n)
    BY <2>6, <2>7 DEF File
  <2>9. q[k] \in Line /\ OneStackEach(q[k]) /\ MergedLine(env, q[k]) \in Line
    BY <1>4, <1>5, <2>3, MergedTypes
  <2>10. PICK v : v = Append(t, u)
    OBVIOUS
  <2>11. v \in Tables /\ Len(v) # 0
    BY <1>0, <2>8, <2>10, <2>9, AddLineToNew
  <2>12. PICK x : x = a \o FlattenSeq(Upto(w, n))
    OBVIOUS
  <2>13. Wrote(x, v)
    BY <2>4, <2>7, <2>10, <2>12
  <2>14. Wrote(x \o LineOut(q[k]), AddLine(v, MergedLine(env, q[k])))
    BY <2>9, <2>11, <2>13, WroteLineOut
  <2>15. AddLine(v, MergedLine(env, q[k])) = Append(t, Part(k))
    <3>1. PICK z : z = Upto(mq, k)
      OBVIOUS
    <3>2. AddLine(v, MergedLine(env, q[k])) = Append(t, [u EXCEPT !.lines = z])
      <4>1. PICK l \in Line : l = MergedLine(env, q[k])
        BY <2>9
      <4>2. AddLine(Append(t, u), l) = Append(t, [u EXCEPT !.lines = Append(u.lines, l)])
        BY <1>0, <2>8, AddLineToNew
      <4>3. Append(u.lines, l) = z
        BY <2>6, <2>8, <3>1, <4>1
      <4> QED BY <2>10, <4>1, <4>2, <4>3, Zenon
    <3>3. PICK y : y = Upto(mq, n)
      OBVIOUS
    <3>4. [[m EXCEPT !.lines = y] EXCEPT !.lines = z] = [m EXCEPT !.lines = z]
      BY DEF File
    <3> QED BY <2>7, <3>1, <3>2, <3>3, <3>4
  <2> QED BY <2>2, <2>5, <2>12, <2>14, <2>15
<1>12. Nat \subseteq T
  <2> HIDE DEF T
  <2> QED BY <1>10, <1>11, NatSet
<1>13. Wrote(a \o FlattenSeq(w), Append(t, m))
  <2>1. Len(q) \in T
    BY <1>5, <1>12
  <2>2. Wrote(a \o FlattenSeq(Upto(w, Len(q))), Append(t, Part(Len(q))))
    BY <1>5, <2>1
  <2>3. Upto(w, Len(q)) = w /\ Upto(mq, Len(q)) = mq
    BY <1>5, UptoIs
  <2>4. Part(Len(q)) = m
    BY <1>8, <2>3 DEF File
  <2> QED BY <2>2, <2>3, <2>4
<1>14. a \o FlattenSeq(w) = s \o FileOut(f) /\ FileOut(f) \in Seq(Records)
  <2>1. s \in Seq(Records) /\ FlattenSeq(w) \in Seq(Records) /\ <<r>> \in Seq(Records)
    BY <1>9, FlattenType DEF Wrote
  <2>2. PICK y : y = FlattenSeq(w)
    OBVIOUS
  <2>3. y \in Seq(Records)
    BY <2>1, <2>2
  <2>4. (s \o <<r>>) \o y = s \o (<<r>> \o y)
    BY <2>1, <2>3, ConcatAssociative
  <2>5. a = s \o <<r>>
    BY <1>7, <1>9, <2>1
  <2>6. <<r>> \o y \in Seq(Records)
    BY <2>1, <2>3
  <2> QED BY <1>3, <2>2, <2>4, <2>5, <2>6
<1> QED BY <1>6, <1>13, <1>14

LEMMA FileOutType == \A f \in File : FileOut(f) \in Seq(Records)
<1>1. ASSUME NEW f \in File PROVE FileOut(f) \in Seq(Records)
  <2>1. PICK w \in Seq(Seq(Records)) : w = [i \in DOMAIN f.lines |-> LineOut(f.lines[i])]
    BY LinesOutIs
  <2>2. PICK r : r = [kind |-> "file", name |-> f.name]
    OBVIOUS
  <2>3. r \in Records
    <3>1. f.name \in FileNames
      BY DEF File
    <3> QED BY <2>2, <3>1 DEF Records
  <2>4. FileOut(f) = <<r>> \o FlattenSeq(w)
    BY <2>1, <2>2 DEF FileOut
  <2>5. PICK y \in Seq(Records) : y = FlattenSeq(w)
    BY FlattenType
  <2> QED BY <2>3, <2>4, <2>5
<1> QED BY <1>1

(* What is read of a file that was written whole. *)
LEMMA WroteOutput ==
    ASSUME NEW t \in Tables, OneTraceEach(t)
    PROVE  Wrote(Output(t), Merged(env, t))
<1>1. PICK w : w = [i \in DOMAIN t |-> FileOut(t[i])]
  OBVIOUS
<1>2. t \in Seq(File)
  BY DEF Tables
<1>3. DOMAIN w = DOMAIN t /\ w = [i \in DOMAIN t |-> w[i]]
  BY <1>1
<1>4. ASSUME NEW i \in DOMAIN t PROVE w[i] = FileOut(t[i]) /\ w[i] \in Seq(Records)
  <2>1. w[i] = FileOut(t[i]) /\ t[i] \in File
    BY <1>1, <1>2
  <2> QED BY <2>1, FileOutType
<1>5. w \in Seq(Seq(Records)) /\ Len(w) = Len(t)
  BY <1>2, <1>3, <1>4, MapIs
<1>6. PICK m : m = Merged(env, t)
  OBVIOUS
<1>7. /\ m \in Seq(File) /\ Len(m) = Len(t) /\ DOMAIN t = 1 .. Len(t) /\ Len(t) \in Nat
      /\ \A i \in DOMAIN t : m[i] = MergedFile(env, t[i])
  <2>1. m \in Tables /\ Len(m) = Len(t)
    BY <1>6, MergedTypes
  <2>2. \A i \in DOMAIN t : m[i] = MergedFile(env, t[i])
    BY <1>6 DEF Merged
  <2> QED BY <1>2, <2>1, <2>2 DEF Tables
<1> DEFINE T == {n \in Nat : n <= Len(t) => Wrote(FlattenSeq(Upto(w, n)), Upto(m, n))}
<1>8. 0 \in T
  <2>1. Upto(m, 0) = <<>> /\ FlattenSeq(Upto(w, 0)) = <<>>
    BY <1>5, <1>7, UptoIs, FlattenNothing
  <2>2. Wrote(<<>>, <<>>)
    <3>1. <<>> \in Tables
      BY DEF Tables
    <3> QED BY <3>1, TracedNothing, InputIs DEF Wrote
  <2> QED BY <2>1, <2>2
<1>9. ASSUME NEW n \in Nat, n \in T PROVE n + 1 \in T
  <2>1. SUFFICES ASSUME n + 1 <= Len(t)
                 PROVE  Wrote(FlattenSeq(Upto(w, n + 1)), Upto(m, n + 1))
    OBVIOUS
  <2>2. PICK k : k = n + 1
    OBVIOUS
  <2>3. n <= Len(t) /\ k \in DOMAIN t
    BY <1>7, <2>1, <2>2
  <2>4. PICK x, u : x = FlattenSeq(Upto(w, n)) /\ u = Upto(m, n)
    OBVIOUS
  <2>5. Wrote(x, u)
    BY <1>9, <2>3, <2>4
  <2>6. t[k] \in File /\ \A j \in DOMAIN t[k].lines : OneStackEach(t[k].lines[j])
    BY <1>2, <2>3 DEF OneTraceEach
  <2>7. Wrote(x \o FileOut(t[k]), Append(u, MergedFile(env, t[k])))
    BY <2>5, <2>6, WroteFileOut
  <2>8. FlattenSeq(Upto(w, k)) = x \o FileOut(t[k])
    <3>1. n + 1 <= Len(w) /\ w[k] = FileOut(t[k])
      BY <1>4, <1>5, <2>1, <2>3
    <3>2. PICK a, b : a = Upto(w, n) /\ b = w[k]
      OBVIOUS
    <3>3. Upto(w, k) = Append(a, b) /\ a \in Seq(Seq(Records)) /\ b \in Seq(Records)
      BY <1>5, <2>2, <3>1, <3>2, UptoIs
    <3> QED BY <2>4, <3>1, <3>2, <3>3, FlattenOneMore
  <2>9. Upto(m, k) = Append(u, MergedFile(env, t[k]))
    <3>1. n + 1 <= Len(m) /\ m[k] = MergedFile(env, t[k])
      BY <1>7, <2>1, <2>3
    <3> QED BY <1>7, <2>2, <2>4, <3>1, UptoIs
  <2> QED BY <2>2, <2>7, <2>8, <2>9
<1>10. Nat \subseteq T
  <2> HIDE DEF T
  <2> QED BY <1>8, <1>9, NatSet
<1>11. Wrote(FlattenSeq(Upto(w, Len(t))), Upto(m, Len(t)))
  <2>1. Len(t) \in T
    BY <1>7, <1>10
  <2> QED BY <1>7, <2>1
<1>12. Upto(w, Len(t)) = w /\ Upto(m, Len(t)) = m
  BY <1>5, <1>7, UptoIs
<1> QED BY <1>1, <1>6, <1>11, <1>12 DEF Output

-----------------------------------------------------------------------------
(* A readable file has no entry without its backtrace, so no two alike. *)

OneEach(ss) == \A j, k \in DOMAIN ss : ss[j].bt = ss[k].bt => j = k

(* All lines but the last. *)
OthersOne(t) == \A i \in DOMAIN t : \A j \in DOMAIN t[i].lines :
    (i = Len(t) /\ j = Len(t[i].lines)) \/ OneEach(t[i].lines[j].stacks)

LEMMA OneEachIs ==
    /\ \A l : OneStackEach(l) <=> OneEach(l.stacks)
    /\ \A t : OneTraceEach(t) <=>
           \A i \in DOMAIN t : \A j \in DOMAIN t[i].lines : OneEach(t[i].lines[j].stacks)
BY DEF OneStackEach, OneEach, OneTraceEach

LEMMA OneMore ==
    ASSUME NEW ss \in Seq(Stack), OneEach(ss), NEW s \in Stack, s.bt \notin Bts(ss)
    PROVE  /\ OneEach(Append(ss, s)) /\ Append(ss, s) \in Seq(Stack)
           /\ Bts(Append(ss, s)) \subseteq Bts(ss) \cup {s.bt}
<1>1. PICK a, n : a = Append(ss, s) /\ n = Len(ss) + 1
  OBVIOUS
<1>2. /\ DOMAIN a = DOMAIN ss \cup {n} /\ a[n] = s /\ a \in Seq(Stack)
      /\ \A k \in DOMAIN ss : a[k] = ss[k]
  BY <1>1, AppendIs
<1>3. \A k \in DOMAIN ss : ss[k].bt \in Bts(ss)
  BY DEF Bts
<1>4. OneEach(a)
  <2>1. SUFFICES ASSUME NEW j \in DOMAIN a, NEW k \in DOMAIN a, a[j].bt = a[k].bt PROVE j = k
    BY DEF OneEach
  <2>2. CASE j \in DOMAIN ss /\ k \in DOMAIN ss
    BY <1>2, <2>1, <2>2 DEF OneEach
  <2>3. CASE j = n \/ k = n
    BY <1>2, <1>3, <2>1, <2>3
  <2> QED BY <1>2, <2>2, <2>3
<1>5. Bts(a) \subseteq Bts(ss) \cup {s.bt}
  <2>1. SUFFICES ASSUME NEW k \in DOMAIN a PROVE a[k].bt \in Bts(ss) \/ a[k].bt = s.bt
    BY DEF Bts
  <2> QED BY <1>2, <1>3, <2>1
<1> QED BY <1>1, <1>2, <1>4, <1>5

LEMMA WithStacksOne ==
    ASSUME NEW t \in Tables, HasLine(t), OthersOne(t), NEW ss \in Seq(Stack)
    PROVE  /\ WithStacks(t, ss) \in Tables /\ HasLine(WithStacks(t, ss))
           /\ LastLine(WithStacks(t, ss)).stacks = ss
           /\ OthersOne(WithStacks(t, ss))
           /\ OneEach(ss) => OneTraceEach(WithStacks(t, ss))
<1>1. PICK ls \in Seq(Line) : LastStacks(t, ss, ls)
  BY WithStacksIs, Zenon
<1>2. /\ WithStacks(t, ss) = WithLines(t, ls)
      /\ Len(ls) = Len(LastLines(t)) /\ DOMAIN ls = DOMAIN LastLines(t)
      /\ \A j \in DOMAIN ls : j # Len(ls) => ls[j] = LastLines(t)[j]
      /\ ls[Len(ls)].stacks = ss
  BY <1>1 DEF LastStacks
<1>3. Len(t) # 0 /\ Len(ls) # 0
  BY <1>2 DEF HasLine
<1>4. PICK u : u = WithLines(t, ls)
  OBVIOUS
<1>5. /\ u \in Tables /\ Len(u) = Len(t) /\ DOMAIN u = DOMAIN t
      /\ \A i \in DOMAIN t : i # Len(t) => u[i] = t[i]
      /\ u[Len(t)].lines = ls
  BY <1>3, <1>4, WithLinesIs
<1>6. LastLines(u) = ls /\ HasLine(u) /\ LastLine(u).stacks = ss
  BY <1>2, <1>3, <1>5 DEF LastLines, HasLine, LastLine
<1>7. ASSUME NEW i \in DOMAIN u, NEW j \in DOMAIN u[i].lines,
             ~(i = Len(u) /\ j = Len(u[i].lines))
      PROVE  OneEach(u[i].lines[j].stacks)
  <2>1. CASE i # Len(t)
    <3>1. u[i] = t[i]
      BY <1>5, <2>1
    <3> QED BY <1>5, <1>7, <2>1, <3>1 DEF OthersOne
  <2>2. CASE i = Len(t)
    <3>1. u[i].lines = ls /\ j # Len(ls) /\ j \in DOMAIN t[i].lines /\ i \in DOMAIN t
      BY <1>2, <1>5, <1>7, <2>2 DEF LastLines
    <3>2. ls[j] = t[i].lines[j] /\ Len(t[i].lines) = Len(ls)
      BY <1>2, <1>7, <2>2, <3>1 DEF LastLines
    <3> QED BY <2>2, <3>1, <3>2 DEF OthersOne
  <2> QED BY <2>1, <2>2
<1>8. OthersOne(u)
  BY <1>7 DEF OthersOne
<1>9. ASSUME OneEach(ss) PROVE OneTraceEach(u)
  <2>1. ASSUME NEW i \in DOMAIN u, NEW j \in DOMAIN u[i].lines PROVE OneEach(u[i].lines[j].stacks)
    <3>1. CASE i = Len(u) /\ j = Len(u[i].lines)
      BY <1>2, <1>5, <1>9, <3>1
    <3> QED BY <1>7, <3>1
  <2> QED BY <2>1, OneEachIs
<1> QED BY <1>2, <1>4, <1>5, <1>6, <1>8, <1>9

LastKind(f) == IF f = <<>> THEN "end" ELSE f[Len(f)].kind

Follows(before, kind) ==
    CASE kind = "trace" -> before = "stack"
      [] kind = "end"   -> before = "trace"
      [] OTHER          -> before \notin {"stack", "trace"}

Orderly(f) == \A i \in 1 .. Len(f) :
    Follows(IF i = 1 THEN "end" ELSE f[i - 1].kind, f[i].kind)

LEMMA ReadableIs ==
    ASSUME NEW f \in Seq(Records), Readable(f)
    PROVE  Orderly(f) /\ LastKind(f) \notin {"stack", "trace"}
<1>1. Len(f) \in Nat
  OBVIOUS
<1>2. ASSUME NEW i \in 1 .. Len(f)
      PROVE  Follows(IF i = 1 THEN "end" ELSE f[i - 1].kind, f[i].kind)
  <2>1. i \in 1 .. Len(f) + 1 /\ ~(i > Len(f))
    BY <1>1
  <2>2. PICK b, k : b = (IF i = 1 THEN "end" ELSE f[i - 1].kind) /\ k = f[i].kind
    OBVIOUS
  <2>3. (CASE k = "trace" -> b = "stack"
           [] k = "end"   -> b = "trace"
           [] OTHER       -> b \notin {"stack", "trace"})
    BY <2>1, <2>2 DEF Readable
  <2>4. Follows(b, k)
    BY <2>3 DEF Follows
  <2> QED BY <2>2, <2>4
<1>3. LastKind(f) \notin {"stack", "trace"}
  <2>1. PICK n : n = Len(f) + 1
    OBVIOUS
  <2>2. n \in 1 .. Len(f) + 1 /\ n > Len(f) /\ n - 1 = Len(f) /\ (n = 1 <=> f = <<>>)
    BY <1>1, <2>1
  <2>3. (IF n = 1 THEN "end" ELSE f[n - 1].kind) \notin {"stack", "trace"}
    BY <2>2 DEF Readable
  <2> QED BY <2>2, <2>3 DEF LastKind
<1> QED BY <1>2, <1>3 DEF Orderly

LEMMA OrderlyIs ==
    ASSUME NEW f \in Seq(Records), NEW r \in Records, Orderly(Append(f, r))
    PROVE  Orderly(f) /\ Follows(LastKind(f), r.kind) /\ LastKind(Append(f, r)) = r.kind
<1>1. PICK a, n : a = Append(f, r) /\ n = Len(f) + 1
  OBVIOUS
<1>2. /\ DOMAIN f = 1 .. Len(f) /\ Len(f) \in Nat /\ Len(a) = n /\ a[n] = r
      /\ \A i \in DOMAIN f : a[i] = f[i]
      /\ n \in 1 .. n /\ n - 1 = Len(f) /\ (n = 1 <=> f = <<>>) /\ a # <<>>
  BY <1>1, AppendIs
<1>3. ASSUME NEW i \in 1 .. Len(f)
      PROVE  Follows(IF i = 1 THEN "end" ELSE f[i - 1].kind, f[i].kind)
  <2>1. i \in 1 .. n
    BY <1>1, <1>2
  <2>2. Follows(IF i = 1 THEN "end" ELSE a[i - 1].kind, a[i].kind)
    BY <1>1, <1>2, <2>1 DEF Orderly
  <2>3. i # 1 => i - 1 \in DOMAIN f
    BY <1>2
  <2>4. a[i] = f[i] /\ (i # 1 => a[i - 1] = f[i - 1])
    BY <1>2, <2>3
  <2> QED BY <2>2, <2>4
<1>4. Follows(LastKind(f), r.kind)
  <2>1. Follows(IF n = 1 THEN "end" ELSE a[n - 1].kind, a[n].kind)
    BY <1>1, <1>2 DEF Orderly
  <2>2. n # 1 => Len(f) \in DOMAIN f
    BY <1>2
  <2> QED BY <1>2, <2>1, <2>2 DEF LastKind
<1>5. LastKind(a) = r.kind
  BY <1>2 DEF LastKind
<1> QED BY <1>1, <1>3, <1>4, <1>5 DEF Orderly

(* Every backtrace has its text; or the last one has not. *)
Titled(f) == OneTraceEach(Input(f)) /\ LastTraces(Input(f)) \subseteq Open(f)

Unnamed(f) ==
    \/ ~HasLine(Input(f)) /\ OneTraceEach(Input(f))
    \/ /\ HasLine(Input(f)) /\ OthersOne(Input(f))
       /\ \E ss \in Seq(Stack) : \E s \in Stack :
            /\ LastLine(Input(f)).stacks = Append(ss, s)
            /\ OneEach(ss) /\ Bts(ss) \subseteq Open(f)

LEMMA NamedTake ==
    ASSUME NEW f \in Seq(Records), NEW r \in Records, Titled(f),
           r.kind \notin {"stack", "trace"}
    PROVE  Titled(Append(f, r))
<1>1. PICK t, u : t = Input(f) /\ u = Input(Append(f, r))
  OBVIOUS
<1>2. t \in Tables /\ u = Take(t, r)
  BY <1>1, InputType, InputIs
<1>3. OneTraceEach(t) /\ LastTraces(t) \subseteq Open(f)
  BY <1>1 DEF Titled
<1>4. CASE r.kind = "file"
  <2>1. u = Append(t, NewFile(r.name)) /\ NewFile(r.name) \in File
    BY <1>2, <1>4, TakeIs, NewType
  <2>2. PICK n, x : n = Len(t) + 1 /\ x = NewFile(r.name)
    OBVIOUS
  <2>3. /\ DOMAIN u = DOMAIN t \cup {n} /\ u[n] = x /\ Len(u) = n
        /\ \A i \in DOMAIN t : u[i] = t[i]
    BY <1>2, <2>1, <2>2, AppendIs DEF Tables
  <2>4. x.lines = <<>>
    BY <2>2 DEF NewFile
  <2>5. ~HasLine(u)
    BY <2>3, <2>4 DEF HasLine, LastLines
  <2>6. OneTraceEach(u)
    <3>1. ASSUME NEW i \in DOMAIN u, NEW j \in DOMAIN u[i].lines PROVE OneStackEach(u[i].lines[j])
      <4>1. i # n
        BY <2>3, <2>4, <3>1
      <4>2. i \in DOMAIN t /\ u[i] = t[i]
        BY <2>3, <4>1
      <4> QED BY <1>3, <3>1, <4>2 DEF OneTraceEach
    <3> QED BY <3>1 DEF OneTraceEach
  <2>7. LastTraces(u) = {}
    BY <2>5 DEF LastTraces
  <2> QED BY <1>1, <2>6, <2>7 DEF Titled
<1>5. CASE r.kind = "line" /\ Len(t) # 0
  <2>1. PICK l \in Line : l = NewLine(r)
    BY <1>5, NewType
  <2>2. PICK ls : ls = Append(LastLines(t), l)
    OBVIOUS
  <2>3. u = WithLines(t, ls) /\ u = AddLine(t, l)
    BY <1>2, <1>5, <2>1, <2>2, TakeIs DEF AddLine
  <2>4. LastLines(t) \in Seq(Line)
    BY <1>2, <1>5, LastIs
  <2>5. PICK n : n = Len(LastLines(t)) + 1
    OBVIOUS
  <2>6. /\ ls \in Seq(Line) /\ DOMAIN ls = DOMAIN LastLines(t) \cup {n} /\ ls[n] = l
        /\ \A j \in DOMAIN LastLines(t) : ls[j] = LastLines(t)[j]
    BY <2>2, <2>4, <2>5, AppendIs
  <2>7. /\ DOMAIN u = DOMAIN t /\ u[Len(t)].lines = ls
        /\ \A i \in DOMAIN t : i # Len(t) => u[i] = t[i]
    <3>1. u = WithLines(t, ls) /\ ls \in Seq(Line) /\ t \in Tables /\ Len(t) # 0
      BY <1>2, <1>5, <2>3, <2>6
    <3> HIDE DEF AddLine
    <3> QED BY <3>1, WithLinesIs
  <2>8. l.stacks = <<>>
    BY <2>1 DEF NewLine
  <2>9. OneStackEach(l) /\ Bts(l.stacks) = {}
    BY <2>8 DEF OneStackEach, Bts
  <2>10. OneTraceEach(u)
    <3>1. ASSUME NEW i \in DOMAIN u, NEW j \in DOMAIN u[i].lines PROVE OneStackEach(u[i].lines[j])
      <4>1. CASE i # Len(t)
        <5>1. u[i] = t[i] /\ i \in DOMAIN t
          BY <2>7, <4>1
        <5> QED BY <1>3, <3>1, <5>1 DEF OneTraceEach
      <4>2. CASE i = Len(t) /\ j # n
        <5>1. /\ u[i].lines = ls /\ j \in DOMAIN t[i].lines /\ i \in DOMAIN t
              /\ ls[j] = t[i].lines[j]
          BY <2>6, <2>7, <3>1, <4>2 DEF LastLines
        <5> QED BY <1>3, <5>1 DEF OneTraceEach
      <4>3. CASE i = Len(t) /\ j = n
        BY <2>6, <2>7, <2>9, <4>3
      <4> QED BY <4>1, <4>2, <4>3
    <3> QED BY <3>1 DEF OneTraceEach
  <2>11. LastTraces(u) = {}
    <3>1. LastLine(u) = l /\ HasLine(u)
      BY <1>2, <1>5, <2>3, AddLineIs
    <3> QED BY <2>9, <3>1 DEF LastTraces
  <2> QED BY <1>1, <2>10, <2>11 DEF Titled
<1>6. CASE r.kind = "line" /\ Len(t) = 0
  <2>1. u = t /\ ~HasLine(t)
    BY <1>2, <1>6, TakeIs DEF HasLine
  <2>2. LastTraces(u) = {}
    BY <2>1 DEF LastTraces
  <2> QED BY <1>1, <1>3, <2>1, <2>2 DEF Titled
<1>7. CASE r.kind = "end"
  <2>1. u = t
    BY <1>2, <1>7, TakeIs
  <2>2. Open(Append(f, r)) = Open(f)
    BY <1>7, OpenIs
  <2> QED BY <1>1, <1>3, <2>1, <2>2 DEF Titled
<1>8. r.kind \in {"file", "line", "end"}
  BY RecordIs DEF Kinds
<1> QED BY <1>4, <1>5, <1>6, <1>7, <1>8

LEMMA NamedStack ==
    ASSUME NEW f \in Seq(Records), NEW r \in Records, Titled(f), r.kind = "stack"
    PROVE  Unnamed(Append(f, r))
<1>1. PICK t, u : t = Input(f) /\ u = Input(Append(f, r))
  OBVIOUS
<1>2. t \in Tables /\ u = Take(t, r)
  BY <1>1, InputType, InputIs
<1>3. OneTraceEach(t) /\ LastTraces(t) \subseteq Open(f)
  BY <1>1 DEF Titled
<1>4. CASE ~HasLine(t)
  <2>1. u = t
    BY <1>2, <1>4, TakeIs
  <2> QED BY <1>1, <1>3, <1>4, <2>1 DEF Unnamed
<1>5. CASE HasLine(t)
  <2>1. PICK ss, s, a : ss = LastLine(t).stacks /\ s = OldStack(r) /\ a = Append(ss, s)
    OBVIOUS
  <2>2. /\ ss \in Seq(Stack) /\ Len(t) \in DOMAIN t
        /\ Len(LastLines(t)) \in DOMAIN LastLines(t)
    BY <1>2, <1>5, <2>1, LastIs DEF HasLine
  <2>3. s \in Stack
    BY <2>1, RecordIs DEF OldStack, Stack, Traces
  <2>4. a \in Seq(Stack) /\ u = WithStacks(t, a)
    BY <1>2, <1>5, <2>1, <2>2, <2>3, TakeIs
  <2>5. OthersOne(t) /\ OneEach(ss)
    <3>1. OthersOne(t)
      BY <1>3, OneEachIs DEF OthersOne
    <3>2. OneEach(ss)
      BY <1>3, <2>1, <2>2, OneEachIs DEF LastLine, LastLines
    <3> QED BY <3>1, <3>2
  <2>6. HasLine(u) /\ OthersOne(u) /\ LastLine(u).stacks = a
    BY <1>2, <1>5, <2>4, <2>5, WithStacksOne
  <2>7. Bts(ss) \subseteq Open(Append(f, r))
    BY <1>3, <1>5, <2>1, OpenIs DEF LastTraces
  <2> QED BY <1>1, <2>1, <2>2, <2>3, <2>5, <2>6, <2>7 DEF Unnamed
<1> QED BY <1>4, <1>5

LEMMA NamedIs ==
    ASSUME NEW ss \in Seq(Stack), NEW s \in Stack, NEW b \in Traces
    PROVE  Named(Append(ss, s), b) = Append(ss, [s EXCEPT !.bt = b])
<1>1. PICK a, n, x, c : /\ a = Append(ss, s) /\ n = Len(ss) + 1 /\ x = [s EXCEPT !.bt = b]
                        /\ c = Append(ss, x)
  OBVIOUS
<1>2. x \in Stack
  BY <1>1 DEF Stack
<1>3. /\ a \in Seq(Stack) /\ Len(a) = n /\ DOMAIN a = DOMAIN ss \cup {n} /\ a[n] = s
      /\ \A k \in DOMAIN ss : a[k] = ss[k] /\ k < n
  BY <1>1, AppendIs
<1>4. /\ c \in Seq(Stack) /\ Len(c) = n /\ DOMAIN c = DOMAIN ss \cup {n} /\ c[n] = x
      /\ \A k \in DOMAIN ss : c[k] = ss[k]
  BY <1>1, <1>2, AppendIs
<1>5. PICK d : d = [a EXCEPT ![n] = x]
  OBVIOUS
<1>6. /\ d \in Seq(Stack) /\ Len(d) = n /\ DOMAIN d = DOMAIN a
      /\ \A k \in DOMAIN a : d[k] = IF k = n THEN x ELSE a[k]
  BY <1>2, <1>3, <1>5, PutIs
<1>7. \A k \in 1 .. Len(d) : d[k] = c[k]
  <2>1. DOMAIN d = 1 .. Len(d)
    BY <1>6
  <2> QED BY <1>3, <1>4, <1>6, <2>1
<1>8. d = c
  BY <1>4, <1>6, <1>7, SeqEqual
<1> QED BY <1>1, <1>3, <1>5, <1>8 DEF Named

LEMMA UnnamedTrace ==
    ASSUME NEW f \in Seq(Records), NEW r \in Records, Unnamed(f), r.kind = "trace",
           r.bt \notin Open(f)
    PROVE  Titled(Append(f, r))
<1>1. PICK t, u : t = Input(f) /\ u = Input(Append(f, r))
  OBVIOUS
<1>2. t \in Tables /\ u = Take(t, r)
  BY <1>1, InputType, InputIs
<1>3. CASE ~HasLine(t)
  <2>1. u = t /\ OneTraceEach(t)
    BY <1>1, <1>2, <1>3, TakeIs DEF Unnamed
  <2> QED BY <1>1, <1>3, <2>1 DEF Titled, LastTraces
<1>4. CASE HasLine(t)
  <2>1. OthersOne(t)
    BY <1>1, <1>4 DEF Unnamed
  <2>2. PICK ss \in Seq(Stack), s \in Stack : /\ LastLine(t).stacks = Append(ss, s)
                                              /\ OneEach(ss) /\ Bts(ss) \subseteq Open(f)
    BY <1>1, <1>4 DEF Unnamed
  <2>3. r.bt \in Traces
    BY RecordIs
  <2>4. PICK x, a : x = [s EXCEPT !.bt = r.bt] /\ a = Append(ss, x)
    OBVIOUS
  <2>5. x \in Stack /\ x.bt = r.bt
    BY <2>3, <2>4 DEF Stack
  <2>6. Named(Append(ss, s), r.bt) = a
    BY <2>3, <2>4, NamedIs
  <2>7. OneEach(a) /\ a \in Seq(Stack) /\ Bts(a) \subseteq Bts(ss) \cup {r.bt}
    BY <2>2, <2>4, <2>5, OneMore
  <2>8. u = WithStacks(t, a)
    BY <1>2, <1>4, <2>2, <2>6, TakeIs
  <2>9. OneTraceEach(u) /\ HasLine(u) /\ LastLine(u).stacks = a
    BY <1>2, <1>4, <2>1, <2>7, <2>8, WithStacksOne
  <2>10. Open(Append(f, r)) = Open(f) \cup {r.bt}
    BY OpenIs
  <2> QED BY <1>1, <2>2, <2>7, <2>9, <2>10 DEF Titled, LastTraces
<1> QED BY <1>3, <1>4

(* What a run starts from has no backtrace of a line twice. *)
LEMMA InputNamed ==
    ASSUME NEW f \in Seq(Records), Readable(f), Traced(f)
    PROVE  OneTraceEach(Input(f))
<1> DEFINE Good(g) == Orderly(g) /\ Traced(g) =>
                /\ LastKind(g) # "stack" => Titled(g)
                /\ LastKind(g) = "stack" => Unnamed(g)
           T == {g \in Seq(Records) : Good(g)}
<1>1. <<>> \in T
  <2>1. LastKind(<<>>) = "end"
    BY DEF LastKind
  <2>2. Input(<<>>) = <<>> /\ ~HasLine(<<>>) /\ OneTraceEach(<<>>)
    BY InputIs DEF HasLine, OneTraceEach
  <2>3. Titled(<<>>)
    BY <2>2 DEF Titled, LastTraces
  <2> QED BY <2>1, <2>3
<1>2. ASSUME NEW g \in Seq(Records), NEW r \in Records, g \in T PROVE Append(g, r) \in T
  <2>1. SUFFICES ASSUME Orderly(Append(g, r)), Traced(Append(g, r))
                 PROVE  /\ LastKind(Append(g, r)) # "stack" => Titled(Append(g, r))
                        /\ LastKind(Append(g, r)) = "stack" => Unnamed(Append(g, r))
    OBVIOUS
  <2>2. Orderly(g) /\ Follows(LastKind(g), r.kind) /\ LastKind(Append(g, r)) = r.kind
    BY <2>1, OrderlyIs
  <2>3. Traced(g) /\ (r.kind = "trace" => r.bt \notin Open(g))
    BY <2>1, TracedIs
  <2>4. (LastKind(g) # "stack" => Titled(g)) /\ (LastKind(g) = "stack" => Unnamed(g))
    BY <1>2, <2>2, <2>3
  <2>5. CASE r.kind = "trace"
    <3>1. Unnamed(g)
      BY <2>2, <2>4, <2>5 DEF Follows
    <3> QED BY <2>2, <2>3, <2>5, <3>1, UnnamedTrace
  <2>6. CASE r.kind = "stack"
    <3>1. Titled(g)
      BY <2>2, <2>4, <2>6 DEF Follows
    <3> QED BY <2>2, <2>6, <3>1, NamedStack
  <2>7. CASE r.kind \notin {"stack", "trace"}
    <3>1. Titled(g)
      BY <2>2, <2>4, <2>7 DEF Follows
    <3> QED BY <2>2, <2>7, <3>1, NamedTake
  <2> QED BY <2>5, <2>6, <2>7
<1>3. Seq(Records) \subseteq T
  <2> HIDE DEF T
  <2> QED BY <1>1, <1>2, SeqGrows
<1>4. Good(f)
  BY <1>3
<1>5. Titled(f)
  BY <1>4, ReadableIs
<1> QED BY <1>5 DEF Titled

(* A table that was just read. *)
Fresh(t) == \A i \in DOMAIN t : \A j \in DOMAIN t[i].lines :
    /\ t[i].lines[j].count = 0
    /\ \A k \in DOMAIN t[i].lines[j].stacks : t[i].lines[j].stacks[k].count = 0

-----------------------------------------------------------------------------
(* The entry of a place; nothing that was read has been called in this run. *)

(* The place that an entry counts. *)
Is(t, p, i, j, k) ==
    /\ i \in DOMAIN t /\ t[i].name = p.file
    /\ j \in DOMAIN t[i].lines /\ t[i].lines[j].line = p.line
    /\ k \in DOMAIN t[i].lines[j].stacks /\ t[i].lines[j].stacks[k].bt = p.bt

Ent(t, i, j, k) == t[i].lines[j].stacks[k]

Has(t, p) == \E i, j, k \in Nat : Is(t, p, i, j, k)

LEMMA FreshTake ==
    ASSUME NEW t \in Tables, Fresh(t), NEW r \in Records
    PROVE  Fresh(Take(t, r))
<1>1. PICK u : u = Take(t, r)
  OBVIOUS
<1>2. u \in Tables
  BY <1>1, TakeType
<1>3. CASE r.kind = "file"
  <2>1. u = Append(t, NewFile(r.name)) /\ NewFile(r.name) \in File
    BY <1>1, <1>3, TakeIs, NewType
  <2>2. PICK n, x : n = Len(t) + 1 /\ x = NewFile(r.name)
    OBVIOUS
  <2>3. /\ DOMAIN u = DOMAIN t \cup {n} /\ u[n] = x
        /\ \A i \in DOMAIN t : u[i] = t[i]
    BY <2>1, <2>2, AppendIs DEF Tables
  <2>4. x.lines = <<>>
    BY <2>2 DEF NewFile
  <2>5. ASSUME NEW i \in DOMAIN u, NEW j \in DOMAIN u[i].lines
        PROVE  /\ u[i].lines[j].count = 0
               /\ \A k \in DOMAIN u[i].lines[j].stacks : u[i].lines[j].stacks[k].count = 0
    <3>1. i # n
      BY <2>3, <2>4, <2>5
    <3>2. i \in DOMAIN t /\ u[i] = t[i]
      BY <2>3, <3>1
    <3> QED BY <2>5, <3>2 DEF Fresh
  <2> QED BY <1>1, <2>5 DEF Fresh
<1>4. ASSUME NEW ls \in Seq(Line), Len(t) # 0, u = WithLines(t, ls),
             \A j \in DOMAIN ls : /\ ls[j].count = 0
                                  /\ \A k \in DOMAIN ls[j].stacks : ls[j].stacks[k].count = 0
      PROVE  Fresh(u)
  <2>1. /\ DOMAIN u = DOMAIN t /\ u[Len(t)].lines = ls
        /\ \A i \in DOMAIN t : i # Len(t) => u[i] = t[i]
    BY <1>4, WithLinesIs
  <2>2. ASSUME NEW i \in DOMAIN u, NEW j \in DOMAIN u[i].lines
        PROVE  /\ u[i].lines[j].count = 0
               /\ \A k \in DOMAIN u[i].lines[j].stacks : u[i].lines[j].stacks[k].count = 0
    <3>1. CASE i = Len(t)
      BY <1>4, <2>1, <2>2, <3>1
    <3>2. CASE i # Len(t)
      <4>1. i \in DOMAIN t /\ u[i] = t[i]
        BY <2>1, <3>2
      <4> QED BY <2>2, <4>1 DEF Fresh
    <3> QED BY <3>1, <3>2
  <2> QED BY <2>2 DEF Fresh
<1>5. ASSUME Len(t) # 0
      PROVE  /\ LastLines(t) \in Seq(Line)
             /\ \A j \in DOMAIN LastLines(t) :
                  /\ LastLines(t)[j].count = 0
                  /\ \A k \in DOMAIN LastLines(t)[j].stacks : LastLines(t)[j].stacks[k].count = 0
  BY <1>5, LastIs DEF Fresh, LastLines
<1>6. CASE r.kind = "line" /\ Len(t) # 0
  <2>1. PICK l \in Line : l = NewLine(r)
    BY <1>6, NewType
  <2>2. PICK ls, n : ls = Append(LastLines(t), l) /\ n = Len(LastLines(t)) + 1
    OBVIOUS
  <2>3. /\ ls \in Seq(Line) /\ DOMAIN ls = DOMAIN LastLines(t) \cup {n} /\ ls[n] = l
        /\ \A j \in DOMAIN LastLines(t) : ls[j] = LastLines(t)[j]
    BY <1>5, <1>6, <2>2, AppendIs
  <2>4. l.count = 0 /\ l.stacks = <<>>
    BY <2>1 DEF NewLine
  <2>5. u = WithLines(t, ls)
    BY <1>1, <1>6, <2>1, <2>2, TakeIs
  <2>6. \A j \in DOMAIN ls : /\ ls[j].count = 0
                             /\ \A k \in DOMAIN ls[j].stacks : ls[j].stacks[k].count = 0
    BY <1>5, <1>6, <2>3, <2>4
  <2> QED BY <1>1, <1>4, <1>6, <2>3, <2>5, <2>6
<1>7. ASSUME HasLine(t), NEW ss \in Seq(Stack), u = WithStacks(t, ss),
             \A k \in DOMAIN ss : ss[k].count = 0
      PROVE  Fresh(u)
  <2>0. Len(t) # 0
    BY <1>7 DEF HasLine
  <2>1. PICK ls \in Seq(Line) : LastStacks(t, ss, ls)
    BY <1>7, WithStacksIs, Zenon
  <2>2. /\ u = WithLines(t, ls)
        /\ DOMAIN ls = DOMAIN LastLines(t)
        /\ \A j \in DOMAIN ls : j # Len(ls) => ls[j] = LastLines(t)[j]
        /\ Len(ls) = Len(LastLines(t))
        /\ ls[Len(ls)] = [LastLine(t) EXCEPT !.stacks = ss]
        /\ ls[Len(ls)].stacks = ss
    BY <1>7, <2>1 DEF LastStacks
  <2>3. LastLine(t) \in Line /\ LastLine(t).count = 0
    <3>1. LastLine(t) \in Line /\ Len(LastLines(t)) \in DOMAIN LastLines(t)
      BY <1>7, <2>0, LastIs
    <3> QED BY <1>5, <2>0, <3>1 DEF LastLine
  <2>4. ls[Len(ls)].count = 0
    BY <2>2, <2>3 DEF Line
  <2>5. \A j \in DOMAIN ls : /\ ls[j].count = 0
                             /\ \A k \in DOMAIN ls[j].stacks : ls[j].stacks[k].count = 0
    <3>1. ASSUME NEW j \in DOMAIN ls
          PROVE  /\ ls[j].count = 0
                 /\ \A k \in DOMAIN ls[j].stacks : ls[j].stacks[k].count = 0
      <4>1. CASE j = Len(ls)
        BY <1>7, <2>2, <2>4, <4>1
      <4>2. CASE j # Len(ls)
        BY <1>5, <2>0, <2>2, <3>1, <4>2
      <4> QED BY <4>1, <4>2
    <3> QED BY <3>1
  <2> QED BY <1>4, <2>0, <2>2, <2>5
<1>8. CASE r.kind \in {"stack", "trace"} /\ HasLine(t)
  <2>1. PICK ss : ss = LastLine(t).stacks
    OBVIOUS
  <2>2. ss \in Seq(Stack) /\ \A k \in DOMAIN ss : ss[k].count = 0
    <3>1. Len(t) # 0 /\ Len(LastLines(t)) \in DOMAIN LastLines(t) /\ ss \in Seq(Stack)
      BY <1>8, <2>1, LastIs DEF HasLine
    <3> QED BY <1>5, <2>1, <3>1 DEF LastLine
  <2>3. CASE r.kind = "stack"
    <3>1. PICK a, s, n : s = OldStack(r) /\ a = Append(ss, s) /\ n = Len(ss) + 1
      OBVIOUS
    <3>2. a \in Seq(Stack) /\ s.count = 0 /\ s \in Stack
      <4>1. s \in Stack
        BY <2>3, <3>1, RecordIs DEF OldStack, Stack, Traces
      <4>2. s.count = 0
        BY <3>1 DEF OldStack
      <4>3. a \in Seq(Stack)
        BY <2>2, <3>1, <4>1
      <4> QED BY <4>1, <4>2, <4>3
    <3>3. DOMAIN a = DOMAIN ss \cup {n} /\ a[n] = s /\ \A k \in DOMAIN ss : a[k] = ss[k]
      BY <2>2, <3>1, <3>2, AppendIs
    <3>4. \A k \in DOMAIN a : a[k].count = 0
      BY <2>2, <3>2, <3>3
    <3>5. u = WithStacks(t, a)
      BY <1>1, <1>8, <2>1, <2>3, <3>1, TakeIs
    <3> QED BY <1>1, <1>7, <1>8, <3>2, <3>4, <3>5
  <2>4. CASE r.kind = "trace"
    <3>1. PICK x : x = [ss[Len(ss)] EXCEPT !.bt = r.bt]
      OBVIOUS
    <3>2. PICK a : a = [ss EXCEPT ![Len(ss)] = x]
      OBVIOUS
    <3>3. Len(ss) \in DOMAIN ss => x \in Stack /\ x.count = 0
      <4>1. SUFFICES ASSUME Len(ss) \in DOMAIN ss PROVE x \in Stack /\ x.count = 0
        OBVIOUS
      <4>2. ss[Len(ss)] \in Stack /\ ss[Len(ss)].count = 0 /\ r.bt \in Traces
        BY <2>2, <2>4, <4>1, RecordIs
      <4> QED BY <3>1, <4>2 DEF Stack
    <3>4. /\ a \in Seq(Stack) /\ DOMAIN a = DOMAIN ss
          /\ \A k \in DOMAIN ss : a[k] = IF k = Len(ss) THEN x ELSE ss[k]
      BY <2>2, <3>2, <3>3, PutIs
    <3>5. \A k \in DOMAIN a : a[k].count = 0
      BY <2>2, <3>3, <3>4
    <3>6. u = WithStacks(t, a)
      BY <1>1, <1>8, <2>1, <2>4, <3>1, <3>2, TakeIs DEF Named
    <3> QED BY <1>1, <1>7, <1>8, <3>4, <3>5, <3>6
  <2> QED BY <1>8, <2>3, <2>4
<1>9. CASE \/ r.kind = "end"
           \/ r.kind = "line" /\ Len(t) = 0
           \/ r.kind \in {"stack", "trace"} /\ ~HasLine(t)
  <2>1. Take(t, r) = t
    BY <1>9, TakeIs
  <2> QED BY <2>1
<1>10. r.kind \in Kinds
  BY RecordIs
<1>11. \/ r.kind = "file"
       \/ r.kind = "line" /\ Len(t) # 0
       \/ r.kind \in {"stack", "trace"} /\ HasLine(t)
       \/ /\ \/ r.kind = "end"
             \/ r.kind = "line" /\ Len(t) = 0
             \/ r.kind \in {"stack", "trace"} /\ ~HasLine(t)
  BY <1>10 DEF Kinds
<1> QED BY <1>3, <1>6, <1>8, <1>9, <1>11

(* A run starts with no calls. *)
LEMMA InputFresh == ASSUME NEW f \in Seq(Records) PROVE Fresh(Input(f))
<1> DEFINE T == {g \in Seq(Records) : Fresh(Input(g))}
<1>1. <<>> \in T
  <2>1. Fresh(<<>>)
    BY DEF Fresh
  <2> QED BY <2>1, InputIs
<1>2. ASSUME NEW g \in Seq(Records), NEW r \in Records, g \in T PROVE Append(g, r) \in T
  BY <1>2, InputType, InputIs, FreshTake
<1>3. Seq(Records) \subseteq T
  <2> HIDE DEF T
  <2> QED BY <1>1, <1>2, SeqGrows
<1> QED BY <1>3

-----------------------------------------------------------------------------
(* Counting a call. *)

LEMMA MinIs ==
    ASSUME NEW s \in SUBSET Nat, s # {}
    PROVE  /\ Min(s) \in s
           /\ \A i \in s : Min(s) <= i
<1>1. \E x \in s : \A i \in s : x <= i
  BY NatMin
<1> QED BY <1>1 DEF Min

(* Where a table is searched. *)
LEMMA IndexesAre ==
    /\ \A t \in Tables : \A n : LET i == FileIndex(t, n) IN
           \/ i \in DOMAIN t /\ t[i].name = n /\ i # 0
           \/ i = 0 /\ \A k \in DOMAIN t : t[k].name # n
    /\ \A ls \in Seq(Line) : \A n : LET i == LineIndex(ls, n) IN
           \/ i \in DOMAIN ls /\ ls[i].line = n /\ i # 0
           \/ i = 0 /\ \A k \in DOMAIN ls : ls[k].line # n
    /\ \A ss \in Seq(Stack) : \A n : LET i == StackIndex(ss, n) IN
           \/ i \in DOMAIN ss /\ ss[i].bt = n /\ i # 0
           \/ i = 0 /\ \A k \in DOMAIN ss : ss[k].bt # n
<1>1. ASSUME NEW t \in Tables, NEW n
      PROVE  LET i == FileIndex(t, n) IN
                 \/ i \in DOMAIN t /\ t[i].name = n /\ i # 0
                 \/ i = 0 /\ \A k \in DOMAIN t : t[k].name # n
  <2>1. PICK s : s = {i \in 1 .. Len(t) : t[i].name = n}
    OBVIOUS
  <2>2. s \in SUBSET Nat /\ DOMAIN t = 1 .. Len(t) /\ \A i \in s : i # 0
    BY <2>1 DEF Tables
  <2>3. FileIndex(t, n) = IF s # {} THEN Min(s) ELSE 0
    BY <2>1 DEF FileIndex, SelectInSeq
  <2> QED BY <2>1, <2>2, <2>3, MinIs
<1>2. ASSUME NEW ls \in Seq(Line), NEW n
      PROVE  LET i == LineIndex(ls, n) IN
                 \/ i \in DOMAIN ls /\ ls[i].line = n /\ i # 0
                 \/ i = 0 /\ \A k \in DOMAIN ls : ls[k].line # n
  <2>1. PICK s : s = {i \in 1 .. Len(ls) : ls[i].line = n}
    OBVIOUS
  <2>2. s \in SUBSET Nat /\ DOMAIN ls = 1 .. Len(ls) /\ \A i \in s : i # 0
    BY <2>1
  <2>3. LineIndex(ls, n) = IF s # {} THEN Min(s) ELSE 0
    BY <2>1 DEF LineIndex, SelectInSeq
  <2> QED BY <2>1, <2>2, <2>3, MinIs
<1>3. ASSUME NEW ss \in Seq(Stack), NEW n
      PROVE  LET i == StackIndex(ss, n) IN
                 \/ i \in DOMAIN ss /\ ss[i].bt = n /\ i # 0
                 \/ i = 0 /\ \A k \in DOMAIN ss : ss[k].bt # n
  <2>1. PICK s : s = {i \in 1 .. Len(ss) : ss[i].bt = n}
    OBVIOUS
  <2>2. s \in SUBSET Nat /\ DOMAIN ss = 1 .. Len(ss) /\ \A i \in s : i # 0
    BY <2>1
  <2>3. StackIndex(ss, n) = IF s # {} THEN Min(s) ELSE 0
    BY <2>1 DEF StackIndex, SelectInSeq
  <2> QED BY <2>1, <2>2, <2>3, MinIs
<1> QED BY <1>1, <1>2, <1>3

Increased(s) == [s EXCEPT !.count = s.count + 1]

LEMMA IncreasedIs ==
    ASSUME NEW s \in Stack
    PROVE  /\ Increased(s) \in Stack /\ Increased(s).bt = s.bt
           /\ Increased(s)["count"] = s["count"] + 1 /\ Increased(s)["prev"] = s["prev"]
           /\ Increased(s)["abort"] = s["abort"]
<1>1. PICK n : n = s.count + 1
  OBVIOUS
<1>2. n \in Nat
  BY <1>1 DEF Stack
<1>3. PICK x : x = [s EXCEPT !.count = n]
  OBVIOUS
<1>4. /\ x \in Stack /\ x.bt = s.bt /\ x["count"] = n /\ x["prev"] = s["prev"]
      /\ x["abort"] = s["abort"]
  BY <1>2, <1>3 DEF Stack
<1> QED BY <1>1, <1>3, <1>4 DEF Increased

(* A backtrace is counted. *)
StacksCounted(ss, bt, u) ==
    /\ u \in Seq(Stack) /\ OneEach(u) /\ DOMAIN ss \subseteq DOMAIN u
    /\ \A k \in DOMAIN ss : u[k] = IF ss[k].bt = bt THEN Increased(ss[k]) ELSE ss[k]
    /\ \A k \in DOMAIN u : k \notin DOMAIN ss =>
           u[k] = NewStack(bt) /\ \A i \in DOMAIN ss : ss[i].bt # bt
    /\ \E k \in DOMAIN u : u[k].bt = bt
    /\ Total(u, "count") = Total(ss, "count") + 1
    /\ Total(u, "prev") = Total(ss, "prev")

(* CountStack adds one to one entry, or makes one. *)
LEMMA CountStackIs ==
    ASSUME NEW ss \in Seq(Stack), OneEach(ss), NEW bt \in Traces
    PROVE  StacksCounted(ss, bt, CountStack(ss, bt))
<1>1. PICK i, u : i = StackIndex(ss, bt) /\ u = CountStack(ss, bt)
  OBVIOUS
<1>2. \/ i \in DOMAIN ss /\ ss[i].bt = bt /\ i # 0
      \/ i = 0 /\ \A k \in DOMAIN ss : ss[k].bt # bt
  BY <1>1, IndexesAre
<1>3. "count" \in Fields /\ "prev" \in Fields
  BY DEF Fields
<1>4. CASE i = 0 /\ \A k \in DOMAIN ss : ss[k].bt # bt
  <2>1. PICK s : s = NewStack(bt)
    OBVIOUS
  <2>2. s \in Stack /\ s.bt = bt /\ s["count"] = 1 /\ s["prev"] = 0
    BY <2>1 DEF NewStack, Stack
  <2>3. u = Append(ss, s)
    BY <1>1, <1>4, <2>1 DEF CountStack
  <2>4. PICK n : n = Len(ss) + 1
    OBVIOUS
  <2>5. /\ u \in Seq(Stack) /\ DOMAIN u = DOMAIN ss \cup {n} /\ u[n] = s
        /\ \A k \in DOMAIN ss : u[k] = ss[k]
    BY <2>2, <2>3, <2>4, AppendIs
  <2>6. OneEach(u)
    <3>1. bt \notin Bts(ss)
      BY <1>4 DEF Bts
    <3> QED BY <2>2, <2>3, <3>1, OneMore
  <2>7. /\ Total(u, "count") = Total(ss, "count") + s["count"]
        /\ Total(u, "prev") = Total(ss, "prev") + s["prev"]
    <3>1. "count" # "take" /\ "prev" # "take"
      OBVIOUS
    <3>2. /\ Total(Append(ss, s), "count") = Total(ss, "count") + s["count"]
          /\ Total(Append(ss, s), "prev") = Total(ss, "prev") + s["prev"]
      BY <2>2, <3>1, FoldOfOneMore, Zenon
    <3> QED BY <2>3, <3>2
  <2>8. Total(ss, "count") \in Nat /\ Total(ss, "prev") \in Nat
    BY <1>3, TotalType
  <2>9. Total(u, "count") = Total(ss, "count") + 1 /\ Total(u, "prev") = Total(ss, "prev")
    BY <2>2, <2>7, <2>8
  <2>10. \A k \in DOMAIN ss : u[k] = IF ss[k].bt = bt THEN Increased(ss[k]) ELSE ss[k]
    BY <1>4, <2>5
  <2>11. \E k \in DOMAIN u : u[k].bt = bt
    BY <2>2, <2>5
  <2> QED BY <1>1, <1>4, <2>1, <2>5, <2>6, <2>9, <2>10, <2>11 DEF StacksCounted
<1>5. CASE i \in DOMAIN ss /\ ss[i].bt = bt /\ i # 0
  <2>1. PICK s : s = Increased(ss[i])
    OBVIOUS
  <2>2. ss[i] \in Stack
    BY <1>5
  <2>3. s \in Stack /\ s.bt = bt /\ s["count"] = ss[i]["count"] + 1 /\ s["prev"] = ss[i]["prev"]
    BY <1>5, <2>1, <2>2, IncreasedIs
  <2>4. u = [ss EXCEPT ![i] = s]
    BY <1>1, <1>5, <2>1 DEF CountStack, Increased
  <2>5. /\ u \in Seq(Stack) /\ Len(u) = Len(ss) /\ DOMAIN u = DOMAIN ss
        /\ \A k \in DOMAIN ss : u[k] = IF k = i THEN s ELSE ss[k]
    BY <2>3, <2>4, PutIs
  <2>6. \A k \in DOMAIN ss : (ss[k].bt = bt <=> k = i) /\ u[k].bt = ss[k].bt
    BY <1>5, <2>3, <2>5 DEF OneEach
  <2>7. OneEach(u)
    BY <2>5, <2>6 DEF OneEach
  <2>8. Total(u, "count") = Total(ss, "count") + 1
    <3>1. OneMoreAt(ss, u, i, "count")
      BY <1>5, <2>3, <2>5 DEF OneMoreAt
    <3>2. Len(ss) \in Nat /\ i \in 1 .. Len(ss)
      BY <1>5
    <3> QED BY <1>3, <2>5, <3>1, <3>2, TotalOneMore
  <2>9. Total(u, "prev") = Total(ss, "prev")
    <3>1. \A k \in DOMAIN u : u[k]["prev"] = ss[k]["prev"]
      BY <1>5, <2>3, <2>5
    <3> QED BY <1>3, <2>5, <3>1, TotalEqual
  <2>10. \A k \in DOMAIN ss : u[k] = IF ss[k].bt = bt THEN Increased(ss[k]) ELSE ss[k]
    BY <2>1, <2>5, <2>6
  <2>11. \E k \in DOMAIN u : u[k].bt = bt
    BY <1>5, <2>5, <2>6
  <2> QED BY <1>1, <2>5, <2>7, <2>8, <2>9, <2>10, <2>11 DEF StacksCounted
<1> QED BY <1>2, <1>4, <1>5

CountedLine(l, p) == [l EXCEPT !.count = l.count + 1, !.stacks = CountStack(l.stacks, p.bt)]

FirstLine(p) == [line |-> p.line, count |-> 1, prev |-> 0, abort |-> 0,
                 stacks |-> CountStack(<<>>, p.bt)]

LEMMA PlaceParts ==
    ASSUME NEW p \in Places
    PROVE  p.file \in FileNames /\ p.line \in LineNames /\ p.bt \in Traces
BY DEF FileNames, LineNames, Traces

(* A place is its file, its line and its backtrace. *)
LEMMA PlacesDiffer ==
    ASSUME NEW p \in Places, NEW q \in Places, p.file = q.file, p.line = q.line, p.bt = q.bt
    PROVE  p = q
<1>1. /\ p = [file |-> p.file, line |-> p.line, bt |-> p.bt]
      /\ q = [file |-> q.file, line |-> q.line, bt |-> q.bt]
  BY CountAssumption
<1> QED BY <1>1, Zenon

LEMMA LineCounted ==
    /\ \A p \in Places :
        /\ FirstLine(p) \in Line /\ FirstLine(p).line = p.line
        /\ StacksCounted(<<>>, p.bt, FirstLine(p).stacks)
    /\ \A l \in Line, p \in Places : OneStackEach(l) =>
        /\ CountedLine(l, p) \in Line /\ CountedLine(l, p).line = l.line
        /\ CountedLine(l, p).count = l.count + 1 /\ CountedLine(l, p).prev = l.prev
        /\ StacksCounted(l.stacks, p.bt, CountedLine(l, p).stacks)
<1>1. ASSUME NEW p \in Places
      PROVE  /\ FirstLine(p) \in Line /\ FirstLine(p).line = p.line
             /\ StacksCounted(<<>>, p.bt, FirstLine(p).stacks)
  <2>1. PICK ss, n : ss = CountStack(<<>>, p.bt) /\ n = p.line
    OBVIOUS
  <2>2. <<>> \in Seq(Stack) /\ OneEach(<<>>)
    BY DEF OneEach
  <2>3. StacksCounted(<<>>, p.bt, ss)
    BY <2>1, <2>2, PlaceParts, CountStackIs
  <2>4. ss \in Seq(Stack) /\ n \in LineNames
    BY <2>1, <2>3, PlaceParts DEF StacksCounted
  <2>5. PICK l : l = [line |-> n, count |-> 1, prev |-> 0, abort |-> 0, stacks |-> ss]
    OBVIOUS
  <2>6. l \in Line /\ l.line = n /\ l.stacks = ss
    BY <2>4, <2>5 DEF Line
  <2>7. FirstLine(p) = l
    BY <2>1, <2>5 DEF FirstLine
  <2> QED BY <2>1, <2>3, <2>6, <2>7
<1>2. ASSUME NEW l \in Line, NEW p \in Places, OneStackEach(l)
      PROVE  /\ CountedLine(l, p) \in Line /\ CountedLine(l, p).line = l.line
             /\ CountedLine(l, p).count = l.count + 1 /\ CountedLine(l, p).prev = l.prev
             /\ StacksCounted(l.stacks, p.bt, CountedLine(l, p).stacks)
  <2>1. PICK ss, n : ss = CountStack(l.stacks, p.bt) /\ n = l.count + 1
    OBVIOUS
  <2>2. l.stacks \in Seq(Stack) /\ OneEach(l.stacks)
    BY <1>2, OneEachIs DEF Line
  <2>3. StacksCounted(l.stacks, p.bt, ss)
    BY <2>1, <2>2, PlaceParts, CountStackIs
  <2>4. ss \in Seq(Stack) /\ n \in Nat
    BY <2>1, <2>3 DEF StacksCounted, Line
  <2>5. PICK m : m = [l EXCEPT !.count = n, !.stacks = ss]
    OBVIOUS
  <2>6. m \in Line /\ m.line = l.line /\ m.count = n /\ m.prev = l.prev /\ m.stacks = ss
    BY <2>4, <2>5 DEF Line
  <2>7. CountedLine(l, p) = m
    BY <2>1, <2>5 DEF CountedLine
  <2> QED BY <2>1, <2>3, <2>6, <2>7
<1> QED BY <1>1, <1>2

LinesCounted(ls, p, ms, j) ==
    /\ ms \in Seq(Line) /\ j \in DOMAIN ms /\ DOMAIN ls \subseteq DOMAIN ms
    /\ \A b \in DOMAIN ms : b = j \/ (b \in DOMAIN ls /\ ms[b] = ls[b])
    /\ ms[j].line = p.line
    /\ \/ j \in DOMAIN ls /\ ls[j].line = p.line /\ ms[j] = CountedLine(ls[j], p)
       \/ /\ j \notin DOMAIN ls /\ ms[j] = FirstLine(p)
          /\ \A b \in DOMAIN ls : ls[b].line # p.line

LEMMA CountLineIs ==
    ASSUME NEW ls \in Seq(Line), \A b \in DOMAIN ls : OneStackEach(ls[b]), NEW p \in Places
    PROVE  /\ \E j : LinesCounted(ls, p, CountLine(ls, p), j)
           /\ Len(CountLine(ls, p)) = IF LineIndex(ls, p.line) = 0 THEN Len(ls) + 1 ELSE Len(ls)
<1>1. PICK i, u : i = LineIndex(ls, p.line) /\ u = CountLine(ls, p)
  OBVIOUS
<1>2. \/ i \in DOMAIN ls /\ ls[i].line = p.line /\ i # 0
      \/ i = 0 /\ \A k \in DOMAIN ls : ls[k].line # p.line
  BY <1>1, IndexesAre
<1>3. CASE i = 0 /\ \A k \in DOMAIN ls : ls[k].line # p.line
  <2>1. PICK l, n : l = FirstLine(p) /\ n = Len(ls) + 1
    OBVIOUS
  <2>2. l \in Line /\ l.line = p.line
    BY <2>1, LineCounted
  <2>3. u = Append(ls, l)
    BY <1>1, <1>3, <2>1 DEF CountLine, FirstLine
  <2>4. /\ u \in Seq(Line) /\ DOMAIN u = DOMAIN ls \cup {n} /\ u[n] = l /\ Len(u) = n
        /\ n \notin DOMAIN ls
        /\ \A k \in DOMAIN ls : u[k] = ls[k]
    BY <2>1, <2>2, <2>3, AppendIs
  <2>5. LinesCounted(ls, p, u, n)
    BY <1>3, <2>1, <2>2, <2>4 DEF LinesCounted
  <2> QED BY <1>1, <1>3, <2>1, <2>4, <2>5
<1>4. CASE i \in DOMAIN ls /\ ls[i].line = p.line /\ i # 0
  <2>1. PICK l : l = CountedLine(ls[i], p)
    OBVIOUS
  <2>2. l \in Line /\ l.line = p.line /\ ls[i] \in Line
    BY <1>4, <2>1, LineCounted
  <2>3. u = [ls EXCEPT ![i] = l]
    BY <1>1, <1>4, <2>1 DEF CountLine, CountedLine
  <2>4. /\ u \in Seq(Line) /\ DOMAIN u = DOMAIN ls /\ Len(u) = Len(ls)
        /\ \A k \in DOMAIN ls : u[k] = IF k = i THEN l ELSE ls[k]
    BY <2>2, <2>3, PutIs
  <2>5. LinesCounted(ls, p, u, i)
    BY <1>4, <2>1, <2>2, <2>4 DEF LinesCounted
  <2> QED BY <1>1, <1>4, <2>4, <2>5
<1> QED BY <1>2, <1>3, <1>4

FilesCounted(t, p, u, i, j) ==
    /\ u \in Tables /\ i \in DOMAIN u /\ DOMAIN t \subseteq DOMAIN u
    /\ \A a \in DOMAIN u : a = i \/ (a \in DOMAIN t /\ u[a] = t[a])
    /\ u[i].name = p.file
    /\ \/ i \in DOMAIN t /\ t[i].name = p.file /\ LinesCounted(t[i].lines, p, u[i].lines, j)
       \/ /\ i \notin DOMAIN t /\ LinesCounted(<<>>, p, u[i].lines, j)
          /\ \A a \in DOMAIN t : t[a].name # p.file

(* There is room for the place, or plus_persistcount ends the run. *)
Room(t, p) == LET i == FileIndex(t, p.file) IN
    IF i = 0 THEN ~FileTableFull(t)
    ELSE ~(LineIndex(t[i].lines, p.line) = 0 /\ Len(t[i].lines) = MAX_LINE_LENGTH)

(* CountFile does so in one line of one file, and keeps to the arrays. *)
LEMMA CountFileIs ==
    ASSUME NEW t \in Tables, OneTraceEach(t), Framed(t), NEW p \in Places, Room(t, p)
    PROVE  /\ \E i, j : FilesCounted(t, p, CountFile(t, p), i, j)
           /\ Len(CountFile(t, p)) <= MAX_FILE_LENGTH
           /\ \A a \in DOMAIN CountFile(t, p) : Len(CountFile(t, p)[a].lines) <= MAX_LINE_LENGTH
<1>1. PICK i, u : i = FileIndex(t, p.file) /\ u = CountFile(t, p)
  OBVIOUS
<1>2. \/ i \in DOMAIN t /\ t[i].name = p.file /\ i # 0
      \/ i = 0 /\ \A k \in DOMAIN t : t[k].name # p.file
  BY <1>1, IndexesAre
<1>0. /\ Len(t) <= MAX_FILE_LENGTH /\ \A a \in DOMAIN t : Len(t[a].lines) <= MAX_LINE_LENGTH
      /\ MAX_FILE_LENGTH \in Nat /\ MAX_LINE_LENGTH \in Nat /\ MAX_LINE_LENGTH >= 1
  BY CountAssumption DEF Framed
<1>3. CASE i = 0 /\ \A k \in DOMAIN t : t[k].name # p.file
  <2>0. <<>> \in Seq(Line) /\ \A b \in DOMAIN <<>> : OneStackEach(<<>>[b])
    OBVIOUS
  <2>1. PICK ms : ms = CountLine(<<>>, p)
    OBVIOUS
  <2>2. PICK j : LinesCounted(<<>>, p, ms, j)
    BY <2>0, <2>1, CountLineIs
  <2>3. Len(ms) <= MAX_LINE_LENGTH
    <3>1. PICK e \in Seq(Line) : e = <<>>
      BY <2>0
    <3>2. Len(e) = 0 /\ (\A k \in DOMAIN e : FALSE) /\ ms = CountLine(e, p)
      BY <2>1, <3>1
    <3>3. PICK k : k = LineIndex(e, p.line)
      OBVIOUS
    <3>4. k \in DOMAIN e \/ k = 0
      BY <3>1, <3>3, IndexesAre
    <3>5. k = 0
      BY <3>2, <3>4
    <3>6. Len(ms) = Len(e) + 1
      <4>1. \A b \in DOMAIN e : OneStackEach(e[b])
        BY <3>2
      <4> QED BY <3>1, <3>2, <3>3, <3>5, <4>1, CountLineIs
    <3> QED BY <1>0, <3>2, <3>6
  <2>4. PICK f, n : f = [name |-> p.file, lines |-> ms] /\ n = Len(t) + 1
    OBVIOUS
  <2>5. f \in File /\ f.name = p.file /\ f.lines = ms
    BY <2>2, <2>4, PlaceParts DEF File, LinesCounted
  <2>6. u = Append(t, f)
    BY <1>1, <1>3, <2>1, <2>4 DEF CountFile
  <2>7. /\ u \in Tables /\ DOMAIN u = DOMAIN t \cup {n} /\ u[n] = f /\ Len(u) = n
        /\ n \notin DOMAIN t
        /\ \A k \in DOMAIN t : u[k] = t[k]
    BY <2>4, <2>5, <2>6, AppendIs DEF Tables
  <2>8. FilesCounted(t, p, u, n, j)
    BY <1>3, <2>2, <2>5, <2>7 DEF FilesCounted
  <2>9. Len(u) <= MAX_FILE_LENGTH
    <3>1. Len(t) # MAX_FILE_LENGTH /\ Len(t) \in Nat
      BY <1>1, <1>3 DEF Room, FileTableFull, Tables
    <3> QED BY <1>0, <2>4, <2>7, <3>1
  <2>10. \A a \in DOMAIN u : Len(u[a].lines) <= MAX_LINE_LENGTH
    BY <1>0, <2>3, <2>5, <2>7
  <2> QED BY <1>1, <2>8, <2>9, <2>10
<1>4. CASE i \in DOMAIN t /\ t[i].name = p.file /\ i # 0
  <2>0. /\ t[i] \in File /\ t[i].lines \in Seq(Line) /\ t \in Seq(File)
        /\ Len(t[i].lines) \in Nat
        /\ \A b \in DOMAIN t[i].lines : OneStackEach(t[i].lines[b])
    <3>1. t[i] \in File /\ t \in Seq(File)
      BY <1>4 DEF Tables
    <3>2. t[i].lines \in Seq(Line)
      BY <3>1 DEF File
    <3> QED BY <1>4, <3>1, <3>2 DEF OneTraceEach
  <2>1. PICK ms : ms = CountLine(t[i].lines, p)
    OBVIOUS
  <2>2. PICK j : LinesCounted(t[i].lines, p, ms, j)
    BY <2>0, <2>1, CountLineIs
  <2>3. Len(ms) <= MAX_LINE_LENGTH
    <3>1. Len(ms) = IF LineIndex(t[i].lines, p.line) = 0 THEN Len(t[i].lines) + 1
                    ELSE Len(t[i].lines)
      BY <2>0, <2>1, CountLineIs
    <3>2. LineIndex(t[i].lines, p.line) = 0 => Len(t[i].lines) # MAX_LINE_LENGTH
      BY <1>1, <1>4 DEF Room
    <3>3. Len(t[i].lines) <= MAX_LINE_LENGTH
      BY <1>0, <1>4
    <3> QED BY <1>0, <2>0, <3>1, <3>2, <3>3
  <2>4. PICK f : f = [t[i] EXCEPT !.lines = ms]
    OBVIOUS
  <2>5. f \in File /\ f.name = p.file /\ f.lines = ms
    BY <1>4, <2>0, <2>2, <2>4 DEF File, LinesCounted
  <2>6. u = [t EXCEPT ![i] = f]
    BY <1>1, <1>4, <2>0, <2>1, <2>4 DEF CountFile
  <2>7. /\ u \in Seq(File) /\ DOMAIN u = DOMAIN t /\ Len(u) = Len(t)
        /\ \A k \in DOMAIN t : u[k] = IF k = i THEN f ELSE t[k]
    BY <2>0, <2>5, <2>6, PutIs
  <2>8. FilesCounted(t, p, u, i, j)
    BY <1>4, <2>2, <2>5, <2>7 DEF FilesCounted, Tables
  <2>9. Len(u) <= MAX_FILE_LENGTH /\ \A a \in DOMAIN u : Len(u[a].lines) <= MAX_LINE_LENGTH
    BY <1>0, <2>3, <2>5, <2>7
  <2> QED BY <1>1, <2>8, <2>9
<1> QED BY <1>2, <1>3, <1>4

(* Where a line of the table comes from when a call is counted. *)
SameLine(t, p, u, a, b) ==
    /\ a \in DOMAIN t /\ b \in DOMAIN t[a].lines
    /\ u[a].name = t[a].name /\ u[a].lines[b] = t[a].lines[b]
    /\ ~(t[a].name = p.file /\ t[a].lines[b].line = p.line)

NextLine(t, p, u, a, b) ==
    /\ a \in DOMAIN t /\ b \in DOMAIN t[a].lines
    /\ u[a].name = t[a].name /\ t[a].name = p.file /\ t[a].lines[b].line = p.line
    /\ u[a].lines[b] = CountedLine(t[a].lines[b], p)

OnlyLine(t, p, u, a, b) ==
    /\ u[a].name = p.file /\ u[a].lines[b] = FirstLine(p)
    /\ ~(a \in DOMAIN t /\ b \in DOMAIN t[a].lines)
    /\ \A x \in DOMAIN t : \A y \in DOMAIN t[x].lines :
           ~(t[x].name = p.file /\ t[x].lines[y].line = p.line)

LinesFrom(t, p, u) ==
    /\ \A a \in DOMAIN u : \A b \in DOMAIN u[a].lines :
           SameLine(t, p, u, a, b) \/ NextLine(t, p, u, a, b) \/ OnlyLine(t, p, u, a, b)
    /\ \A a \in DOMAIN t : /\ a \in DOMAIN u /\ u[a].name = t[a].name
                           /\ DOMAIN t[a].lines \subseteq DOMAIN u[a].lines
    /\ \E a \in DOMAIN u : \E b \in DOMAIN u[a].lines :
           NextLine(t, p, u, a, b) \/ OnlyLine(t, p, u, a, b)

LEMMA LinesFromIs ==
    ASSUME NEW t \in Tables, Framed(t), NEW p \in Places, NEW u, NEW i, NEW j,
           FilesCounted(t, p, u, i, j)
    PROVE  LinesFrom(t, p, u)
<1>1. /\ i \in DOMAIN u /\ DOMAIN t \subseteq DOMAIN u /\ u[i].name = p.file
      /\ \A a \in DOMAIN u : a = i \/ (a \in DOMAIN t /\ u[a] = t[a])
      /\ \/ i \in DOMAIN t /\ t[i].name = p.file /\ LinesCounted(t[i].lines, p, u[i].lines, j)
         \/ /\ i \notin DOMAIN t /\ LinesCounted(<<>>, p, u[i].lines, j)
            /\ \A a \in DOMAIN t : t[a].name # p.file
  BY DEF FilesCounted
<1>2. /\ \A a, b \in DOMAIN t : t[a].name = t[b].name => a = b
      /\ \A a \in DOMAIN t : \A b, c \in DOMAIN t[a].lines :
             t[a].lines[b].line = t[a].lines[c].line => b = c
  BY DEF Framed
<1>3. CASE i \in DOMAIN t /\ t[i].name = p.file /\ LinesCounted(t[i].lines, p, u[i].lines, j)
  <2>1. /\ j \in DOMAIN u[i].lines /\ DOMAIN t[i].lines \subseteq DOMAIN u[i].lines
        /\ \A b \in DOMAIN u[i].lines :
               b = j \/ (b \in DOMAIN t[i].lines /\ u[i].lines[b] = t[i].lines[b])
        /\ \/ /\ j \in DOMAIN t[i].lines /\ t[i].lines[j].line = p.line
              /\ u[i].lines[j] = CountedLine(t[i].lines[j], p)
           \/ /\ j \notin DOMAIN t[i].lines /\ u[i].lines[j] = FirstLine(p)
              /\ \A b \in DOMAIN t[i].lines : t[i].lines[b].line # p.line
    BY <1>3 DEF LinesCounted
  <2>2. NextLine(t, p, u, i, j) \/ OnlyLine(t, p, u, i, j)
    <3>1. CASE j \in DOMAIN t[i].lines /\ t[i].lines[j].line = p.line
               /\ u[i].lines[j] = CountedLine(t[i].lines[j], p)
      BY <1>1, <1>3, <3>1 DEF NextLine
    <3>2. CASE j \notin DOMAIN t[i].lines /\ u[i].lines[j] = FirstLine(p)
               /\ \A b \in DOMAIN t[i].lines : t[i].lines[b].line # p.line
      <4>1. ASSUME NEW x \in DOMAIN t, NEW y \in DOMAIN t[x].lines,
                   t[x].name = p.file, t[x].lines[y].line = p.line
            PROVE  FALSE
        <5>1. x = i
          BY <1>2, <1>3, <4>1
        <5> QED BY <3>2, <4>1, <5>1
      <4> QED BY <1>1, <3>2, <4>1 DEF OnlyLine
    <3> QED BY <2>1, <3>1, <3>2
  <2>3. ASSUME NEW a \in DOMAIN u, NEW b \in DOMAIN u[a].lines, ~(a = i /\ b = j)
        PROVE  SameLine(t, p, u, a, b)
    <3>1. CASE a # i
      <4>1. a \in DOMAIN t /\ u[a] = t[a]
        BY <1>1, <3>1
      <4>2. t[a].name # p.file
        BY <1>2, <1>3, <3>1, <4>1
      <4> QED BY <2>3, <4>1, <4>2 DEF SameLine
    <3>2. CASE a = i
      <4>1. b # j /\ b \in DOMAIN t[i].lines /\ u[i].lines[b] = t[i].lines[b]
        BY <2>1, <2>3, <3>2
      <4>2. \A c, d \in DOMAIN t[i].lines : t[i].lines[c].line = t[i].lines[d].line => c = d
        BY <1>2, <1>3
      <4>3. t[i].lines[b].line # p.line
        BY <2>1, <4>1, <4>2
      <4> QED BY <1>1, <1>3, <3>2, <4>1, <4>3 DEF SameLine
    <3> QED BY <3>1, <3>2
  <2>4. \A a \in DOMAIN u : \A b \in DOMAIN u[a].lines :
            SameLine(t, p, u, a, b) \/ NextLine(t, p, u, a, b) \/ OnlyLine(t, p, u, a, b)
    BY <2>2, <2>3
  <2>5. \A a \in DOMAIN t : /\ a \in DOMAIN u /\ u[a].name = t[a].name
                            /\ DOMAIN t[a].lines \subseteq DOMAIN u[a].lines
    BY <1>1, <1>3, <2>1
  <2> QED BY <1>1, <2>1, <2>2, <2>4, <2>5 DEF LinesFrom
<1>4. CASE /\ i \notin DOMAIN t /\ LinesCounted(<<>>, p, u[i].lines, j)
           /\ \A a \in DOMAIN t : t[a].name # p.file
  <2>1. /\ j \in DOMAIN u[i].lines /\ \A b \in DOMAIN u[i].lines : b = j
        /\ u[i].lines[j] = FirstLine(p)
    BY <1>4 DEF LinesCounted
  <2>2. OnlyLine(t, p, u, i, j)
    BY <1>1, <1>4, <2>1 DEF OnlyLine
  <2>3. ASSUME NEW a \in DOMAIN u, NEW b \in DOMAIN u[a].lines, ~(a = i /\ b = j)
        PROVE  SameLine(t, p, u, a, b)
    <3>1. a # i
      BY <1>4, <2>1, <2>3
    <3>2. a \in DOMAIN t /\ u[a] = t[a] /\ t[a].name # p.file
      BY <1>1, <1>4, <3>1
    <3> QED BY <2>3, <3>2 DEF SameLine
  <2>4. \A a \in DOMAIN u : \A b \in DOMAIN u[a].lines :
            SameLine(t, p, u, a, b) \/ NextLine(t, p, u, a, b) \/ OnlyLine(t, p, u, a, b)
    BY <2>2, <2>3
  <2>5. \A a \in DOMAIN t : /\ a \in DOMAIN u /\ u[a].name = t[a].name
                            /\ DOMAIN t[a].lines \subseteq DOMAIN u[a].lines
    BY <1>1, <1>4
  <2> QED BY <1>1, <2>1, <2>2, <2>4, <2>5 DEF LinesFrom
<1> QED BY <1>1, <1>3, <1>4

LEMMA LinesFramed ==
    ASSUME NEW ls, NEW p, NEW ms, NEW j, LinesCounted(ls, p, ms, j),
           \A a, b \in DOMAIN ls : ls[a].line = ls[b].line => a = b
    PROVE  \A a, b \in DOMAIN ms : ms[a].line = ms[b].line => a = b
BY DEF LinesCounted

LEMMA CountedFramed ==
    ASSUME NEW t \in Tables, Framed(t), NEW p \in Places, NEW u, NEW i, NEW j,
           FilesCounted(t, p, u, i, j), Len(u) <= MAX_FILE_LENGTH,
           \A a \in DOMAIN u : Len(u[a].lines) <= MAX_LINE_LENGTH
    PROVE  Framed(u)
<1>1. /\ i \in DOMAIN u /\ DOMAIN t \subseteq DOMAIN u /\ u[i].name = p.file
      /\ \A a \in DOMAIN u : a = i \/ (a \in DOMAIN t /\ u[a] = t[a])
      /\ \/ i \in DOMAIN t /\ t[i].name = p.file /\ LinesCounted(t[i].lines, p, u[i].lines, j)
         \/ /\ i \notin DOMAIN t /\ LinesCounted(<<>>, p, u[i].lines, j)
            /\ \A a \in DOMAIN t : t[a].name # p.file
  BY DEF FilesCounted
<1>2. /\ \A a, b \in DOMAIN t : t[a].name = t[b].name => a = b
      /\ \A a \in DOMAIN t : \A b, c \in DOMAIN t[a].lines :
             t[a].lines[b].line = t[a].lines[c].line => b = c
  BY DEF Framed
<1>3. \A a, b \in DOMAIN u : u[a].name = u[b].name => a = b
  BY <1>1, <1>2
<1>4. ASSUME NEW a \in DOMAIN u
      PROVE  \A b, c \in DOMAIN u[a].lines :
                 u[a].lines[b].line = u[a].lines[c].line => b = c
  <2>1. CASE a # i
    BY <1>1, <1>2, <2>1
  <2>2. CASE a = i /\ i \in DOMAIN t /\ LinesCounted(t[i].lines, p, u[i].lines, j)
    BY <1>2, <2>2, LinesFramed
  <2>3. CASE a = i /\ LinesCounted(<<>>, p, u[i].lines, j)
    <3>1. \A b, c \in DOMAIN <<>> : <<>>[b].line = <<>>[c].line => b = c
      OBVIOUS
    <3> QED BY <2>3, <3>1, LinesFramed
  <2> QED BY <1>1, <2>1, <2>2, <2>3
<1> QED BY <1>3, <1>4 DEF Framed

LEMMA LineAt ==
    ASSUME NEW t \in Tables, NEW a \in DOMAIN t, NEW b \in DOMAIN t[a].lines
    PROVE  t[a].lines[b] \in Line /\ t[a].lines[b].stacks \in Seq(Stack)
BY TableParts

LEMMA CountedNamed ==
    ASSUME NEW t \in Tables, OneTraceEach(t), NEW p \in Places, NEW u, LinesFrom(t, p, u)
    PROVE  OneTraceEach(u)
<1>1. ASSUME NEW a \in DOMAIN u, NEW b \in DOMAIN u[a].lines
      PROVE  OneEach(u[a].lines[b].stacks)
  <2>1. CASE SameLine(t, p, u, a, b)
    BY <2>1, OneEachIs DEF SameLine
  <2>2. CASE NextLine(t, p, u, a, b)
    <3>1. PICK l \in Line : l = t[a].lines[b] /\ OneStackEach(l)
      BY <2>2, LineAt DEF NextLine, OneTraceEach
    <3>2. StacksCounted(l.stacks, p.bt, CountedLine(l, p).stacks)
      BY <3>1, LineCounted
    <3> QED BY <2>2, <3>1, <3>2 DEF NextLine, StacksCounted
  <2>3. CASE OnlyLine(t, p, u, a, b)
    <3>1. StacksCounted(<<>>, p.bt, FirstLine(p).stacks)
      BY LineCounted
    <3> QED BY <2>3, <3>1 DEF OnlyLine, StacksCounted
  <2> QED BY <2>1, <2>2, <2>3 DEF LinesFrom
<1> QED BY <1>1, OneEachIs

(* What a call does to the entries of the places. *)
EntriesFrom(t, p, u) ==
    /\ \A q \in Places : \A a, b, c : q # p =>
           /\ Is(u, q, a, b, c) => Is(t, q, a, b, c) /\ Ent(u, a, b, c) = Ent(t, a, b, c)
           /\ Is(t, q, a, b, c) => Is(u, q, a, b, c)
    /\ \A a, b, c : Is(u, p, a, b, c) =>
           \/ Is(t, p, a, b, c) /\ Ent(u, a, b, c) = Increased(Ent(t, a, b, c))
           \/ ~Has(t, p) /\ Ent(u, a, b, c) = NewStack(p.bt)
    /\ Has(u, p)

LEMMA NextLineIs ==
    ASSUME NEW t \in Tables, OneTraceEach(t), NEW p \in Places, NEW u, NEW a, NEW b,
           NextLine(t, p, u, a, b)
    PROVE  /\ StacksCounted(t[a].lines[b].stacks, p.bt, u[a].lines[b].stacks)
           /\ u[a].lines[b].line = p.line
<1>1. PICK l : l = t[a].lines[b]
  OBVIOUS
<1>2. l \in Line /\ OneStackEach(l)
  BY <1>1, LineAt DEF NextLine, OneTraceEach
<1>3. /\ CountedLine(l, p).line = l.line
      /\ StacksCounted(l.stacks, p.bt, CountedLine(l, p).stacks)
  BY <1>2, LineCounted
<1> QED BY <1>1, <1>3 DEF NextLine

LEMMA EntriesFromIs ==
    ASSUME NEW t \in Tables, Framed(t), OneTraceEach(t), NEW p \in Places,
           NEW u \in Tables, LinesFrom(t, p, u)
    PROVE  EntriesFrom(t, p, u)
<1>1. /\ \A a, b \in DOMAIN t : t[a].name = t[b].name => a = b
      /\ \A a \in DOMAIN t : \A b, c \in DOMAIN t[a].lines :
             t[a].lines[b].line = t[a].lines[c].line => b = c
  BY DEF Framed
<1>2. ASSUME NEW a \in DOMAIN u, NEW b \in DOMAIN u[a].lines, OnlyLine(t, p, u, a, b)
      PROVE  /\ \A k \in DOMAIN u[a].lines[b].stacks :
                    u[a].lines[b].stacks[k] = NewStack(p.bt)
             /\ u[a].lines[b].line = p.line /\ u[a].name = p.file
             /\ \E k \in DOMAIN u[a].lines[b].stacks : u[a].lines[b].stacks[k].bt = p.bt
             /\ ~Has(t, p)
  <2>1. StacksCounted(<<>>, p.bt, u[a].lines[b].stacks) /\ u[a].lines[b].line = p.line
    BY <1>2, LineCounted DEF OnlyLine
  <2>2. ~Has(t, p)
    BY <1>2 DEF Has, Is, OnlyLine
  <2> QED BY <1>2, <2>1, <2>2 DEF StacksCounted, OnlyLine
<1>3. NewStack(p.bt).bt = p.bt
  BY DEF NewStack
<1>4. ASSUME NEW q \in Places, NEW a, NEW b, NEW c, Is(u, q, a, b, c), q # p
      PROVE  Is(t, q, a, b, c) /\ Ent(u, a, b, c) = Ent(t, a, b, c)
  <2>1. a \in DOMAIN u /\ b \in DOMAIN u[a].lines /\ c \in DOMAIN u[a].lines[b].stacks
    BY <1>4 DEF Is
  <2>2. CASE SameLine(t, p, u, a, b)
    BY <1>4, <2>2 DEF Is, Ent, SameLine
  <2>3. CASE NextLine(t, p, u, a, b)
    <3>1. PICK ss, us : ss = t[a].lines[b].stacks /\ us = u[a].lines[b].stacks
      OBVIOUS
    <3>2. StacksCounted(ss, p.bt, us) /\ u[a].lines[b].line = p.line
      BY <2>3, <3>1, NextLineIs
    <3>3. q.bt # p.bt
      BY <1>4, <2>3, <3>2, PlacesDiffer DEF Is, NextLine
    <3>4. us[c].bt = q.bt /\ c \in DOMAIN us
      BY <1>4, <3>1 DEF Is
    <3>5. c \in DOMAIN ss
      BY <1>3, <3>2, <3>3, <3>4 DEF StacksCounted
    <3>6. us[c] = ss[c]
      <4>1. us[c] = IF ss[c].bt = p.bt THEN Increased(ss[c]) ELSE ss[c]
        BY <3>2, <3>5 DEF StacksCounted
      <4>2. ss[c] \in Stack
        BY <2>3, <3>1, <3>5, LineAt DEF NextLine
      <4>3. Increased(ss[c]).bt = ss[c].bt
        BY <4>2, IncreasedIs
      <4> QED BY <3>3, <3>4, <4>1, <4>3
    <3> QED BY <1>4, <2>3, <3>1, <3>2, <3>4, <3>5, <3>6 DEF Is, Ent, NextLine
  <2>4. CASE OnlyLine(t, p, u, a, b)
    <3>1. q.file = p.file /\ q.line = p.line /\ q.bt = p.bt
      BY <1>2, <1>3, <1>4, <2>1, <2>4 DEF Is
    <3> QED BY <1>4, <3>1, PlacesDiffer
  <2> QED BY <2>1, <2>2, <2>3, <2>4 DEF LinesFrom
<1>5. ASSUME NEW q \in Places, NEW a, NEW b, NEW c, Is(t, q, a, b, c), q # p
      PROVE  Is(u, q, a, b, c)
  <2>1. /\ a \in DOMAIN u /\ u[a].name = t[a].name /\ b \in DOMAIN u[a].lines
        /\ a \in DOMAIN t /\ b \in DOMAIN t[a].lines
    BY <1>5 DEF Is, LinesFrom
  <2>2. CASE SameLine(t, p, u, a, b)
    BY <1>5, <2>1, <2>2 DEF Is, SameLine
  <2>3. CASE NextLine(t, p, u, a, b)
    <3>1. PICK ss, us : ss = t[a].lines[b].stacks /\ us = u[a].lines[b].stacks
      OBVIOUS
    <3>2. StacksCounted(ss, p.bt, us) /\ u[a].lines[b].line = p.line
      BY <2>3, <3>1, NextLineIs
    <3>3. c \in DOMAIN ss /\ ss[c] \in Stack /\ ss[c].bt = q.bt
      BY <1>5, <2>1, <3>1, LineAt DEF Is
    <3>4. c \in DOMAIN us /\ us[c].bt = ss[c].bt
      BY <3>2, <3>3, IncreasedIs DEF StacksCounted
    <3> QED BY <1>5, <2>1, <2>3, <3>1, <3>2, <3>3, <3>4 DEF Is, NextLine
  <2>4. CASE OnlyLine(t, p, u, a, b)
    BY <2>1, <2>4 DEF OnlyLine
  <2> QED BY <2>1, <2>2, <2>3, <2>4 DEF LinesFrom
<1>6. ASSUME NEW a, NEW b, NEW c, Is(u, p, a, b, c)
      PROVE  \/ Is(t, p, a, b, c) /\ Ent(u, a, b, c) = Increased(Ent(t, a, b, c))
             \/ ~Has(t, p) /\ Ent(u, a, b, c) = NewStack(p.bt)
  <2>1. a \in DOMAIN u /\ b \in DOMAIN u[a].lines /\ c \in DOMAIN u[a].lines[b].stacks
    BY <1>6 DEF Is
  <2>2. ~SameLine(t, p, u, a, b)
    BY <1>6 DEF SameLine, Is
  <2>3. CASE OnlyLine(t, p, u, a, b)
    BY <1>2, <2>1, <2>3 DEF Ent
  <2>4. CASE NextLine(t, p, u, a, b)
    <3>1. PICK ss, us : ss = t[a].lines[b].stacks /\ us = u[a].lines[b].stacks
      OBVIOUS
    <3>2. StacksCounted(ss, p.bt, us)
      BY <2>4, <3>1, NextLineIs
    <3>3. c \in DOMAIN us /\ us[c].bt = p.bt
      BY <1>6, <3>1 DEF Is
    <3>4. CASE c \in DOMAIN ss
      <4>1. us[c] = IF ss[c].bt = p.bt THEN Increased(ss[c]) ELSE ss[c]
        BY <3>2, <3>4 DEF StacksCounted
      <4>2. ss[c] \in Stack
        BY <2>4, <3>1, <3>4, LineAt DEF NextLine
      <4>3. ss[c].bt = p.bt
        BY <3>3, <4>1, <4>2, IncreasedIs
      <4> QED BY <2>4, <3>1, <3>4, <4>1, <4>3 DEF Is, Ent, NextLine
    <3>5. CASE c \notin DOMAIN ss
      <4>1. us[c] = NewStack(p.bt) /\ \A k \in DOMAIN ss : ss[k].bt # p.bt
        BY <3>2, <3>3, <3>5 DEF StacksCounted
      <4>2. ASSUME NEW x, NEW y, NEW z, Is(t, p, x, y, z) PROVE FALSE
        <5>1. x = a
          BY <1>1, <2>4, <4>2 DEF Is, NextLine
        <5>2. y = b
          BY <1>1, <2>4, <4>2, <5>1 DEF Is, NextLine
        <5> QED BY <3>1, <4>1, <4>2, <5>1, <5>2 DEF Is
      <4> QED BY <3>1, <4>1, <4>2 DEF Has, Ent
    <3> QED BY <3>4, <3>5
  <2> QED BY <2>1, <2>2, <2>3, <2>4 DEF LinesFrom
<1>7. Has(u, p)
  <2>0. PICK a \in DOMAIN u : \E b \in DOMAIN u[a].lines :
            NextLine(t, p, u, a, b) \/ OnlyLine(t, p, u, a, b)
    BY DEF LinesFrom
  <2>1. PICK b \in DOMAIN u[a].lines : NextLine(t, p, u, a, b) \/ OnlyLine(t, p, u, a, b)
    BY <2>0
  <2>2. /\ u[a].name = p.file /\ u[a].lines[b].line = p.line
        /\ \E k \in DOMAIN u[a].lines[b].stacks : u[a].lines[b].stacks[k].bt = p.bt
    BY <1>2, <2>1, NextLineIs DEF NextLine, StacksCounted
  <2>3. PICK k \in DOMAIN u[a].lines[b].stacks : u[a].lines[b].stacks[k].bt = p.bt
    BY <2>2
  <2>4. a \in Nat /\ b \in Nat /\ k \in Nat
    BY TableParts
  <2> QED BY <2>2, <2>3, <2>4 DEF Has, Is
<1> QED BY <1>4, <1>5, <1>6, <1>7 DEF EntriesFrom

(* A line accounts for its backtraces: for the calls of this run, and for  *)
(* those of the runs before.                                               *)
CountAdds(l) == l.count = Total(l.stacks, "count")

PrevCovers(l) ==
    /\ \A k \in DOMAIN l.stacks : l.stacks[k].prev <= l.prev
    /\ l.prev <= Total(l.stacks, "prev")

CountsAdd(t)   == \A i \in DOMAIN t : \A j \in DOMAIN t[i].lines : CountAdds(t[i].lines[j])
PrevsCover(t)  == \A i \in DOMAIN t : \A j \in DOMAIN t[i].lines : PrevCovers(t[i].lines[j])

LEMMA CountedLineAdds ==
    ASSUME NEW l \in Line, OneStackEach(l), NEW p \in Places
    PROVE  /\ CountAdds(l) => CountAdds(CountedLine(l, p))
           /\ PrevCovers(l) => PrevCovers(CountedLine(l, p))
<1>1. PICK m : m = CountedLine(l, p)
  OBVIOUS
<1>2. /\ m.count = l.count + 1 /\ m.prev = l.prev /\ m \in Line
      /\ StacksCounted(l.stacks, p.bt, m.stacks)
  BY <1>1, LineCounted
<1>3. PICK ss, us : ss = l.stacks /\ us = m.stacks
  OBVIOUS
<1>4. /\ Total(us, "count") = Total(ss, "count") + 1 /\ Total(us, "prev") = Total(ss, "prev")
      /\ \A k \in DOMAIN ss : us[k] = IF ss[k].bt = p.bt THEN Increased(ss[k]) ELSE ss[k]
      /\ \A k \in DOMAIN us : k \notin DOMAIN ss => us[k] = NewStack(p.bt)
      /\ ss \in Seq(Stack) /\ us \in Seq(Stack)
  BY <1>2, <1>3 DEF StacksCounted, Line
<1>5. CountAdds(l) => CountAdds(m)
  BY <1>2, <1>3, <1>4 DEF CountAdds
<1>6. ASSUME PrevCovers(l) PROVE PrevCovers(m)
  <2>1. ASSUME NEW k \in DOMAIN us PROVE us[k].prev <= m.prev
    <3>1. l.prev \in Nat
      BY DEF Line
    <3>2. CASE k \in DOMAIN ss
      <4>1. ss[k] \in Stack /\ ss[k].prev <= l.prev
        BY <1>3, <1>4, <1>6, <3>2 DEF PrevCovers
      <4>2. us[k].prev = ss[k].prev
        BY <1>4, <3>2, <4>1, IncreasedIs
      <4> QED BY <1>2, <4>1, <4>2
    <3>3. CASE k \notin DOMAIN ss
      <4>1. us[k].prev = 0
        BY <1>4, <3>3 DEF NewStack
      <4> QED BY <1>2, <3>1, <4>1
    <3> QED BY <3>2, <3>3
  <2> QED BY <1>2, <1>3, <1>4, <1>6, <2>1 DEF PrevCovers
<1> QED BY <1>1, <1>5, <1>6

LEMMA FirstLineAdds ==
    ASSUME NEW p \in Places
    PROVE  CountAdds(FirstLine(p)) /\ PrevCovers(FirstLine(p))
<1>1. PICK m : m = FirstLine(p)
  OBVIOUS
<1>2. m.count = 1 /\ m.prev = 0
  BY <1>1 DEF FirstLine
<1>3. PICK us : us = m.stacks
  OBVIOUS
<1>4. /\ Total(us, "count") = Total(<<>>, "count") + 1
      /\ Total(us, "prev") = Total(<<>>, "prev")
      /\ \A k \in DOMAIN us : us[k] = NewStack(p.bt)
  BY <1>1, <1>3, LineCounted DEF StacksCounted
<1>5. Total(<<>>, "count") = 0 /\ Total(<<>>, "prev") = 0
  BY FoldOfNothing
<1>6. \A k \in DOMAIN us : us[k].prev = 0
  BY <1>4 DEF NewStack
<1> QED BY <1>1, <1>2, <1>3, <1>4, <1>5, <1>6 DEF CountAdds, PrevCovers

LEMMA CountedAdds ==
    ASSUME NEW t \in Tables, OneTraceEach(t), NEW p \in Places, NEW u \in Tables,
           LinesFrom(t, p, u)
    PROVE  /\ CountsAdd(t) => CountsAdd(u)
           /\ PrevsCover(t) => PrevsCover(u)
<1>1. ASSUME NEW a \in DOMAIN u, NEW b \in DOMAIN u[a].lines
      PROVE  /\ CountsAdd(t) => CountAdds(u[a].lines[b])
             /\ PrevsCover(t) => PrevCovers(u[a].lines[b])
  <2>1. CASE SameLine(t, p, u, a, b)
    BY <2>1 DEF SameLine, CountsAdd, PrevsCover
  <2>2. CASE NextLine(t, p, u, a, b)
    <3>1. PICK l \in Line : l = t[a].lines[b] /\ OneStackEach(l)
      BY <2>2, LineAt DEF NextLine, OneTraceEach
    <3>2. /\ CountsAdd(t) => CountAdds(l)
          /\ PrevsCover(t) => PrevCovers(l)
      BY <2>2, <3>1 DEF NextLine, CountsAdd, PrevsCover
    <3> QED BY <2>2, <3>1, <3>2, CountedLineAdds DEF NextLine
  <2>3. CASE OnlyLine(t, p, u, a, b)
    BY <2>3, FirstLineAdds DEF OnlyLine
  <2> QED BY <2>1, <2>2, <2>3 DEF LinesFrom
<1> QED BY <1>1 DEF CountsAdd, PrevsCover

-----------------------------------------------------------------------------
(* A place has one entry. *)
LEMMA IsUnique ==
    ASSUME NEW t \in Tables, Framed(t), OneTraceEach(t), NEW p,
           NEW a, NEW b, NEW c, Is(t, p, a, b, c),
           NEW x, NEW y, NEW z, Is(t, p, x, y, z)
    PROVE  x = a /\ y = b /\ z = c
<1>1. x = a
  BY DEF Framed, Is
<1>2. y = b
  BY <1>1 DEF Framed, Is
<1>3. a \in DOMAIN t /\ b \in DOMAIN t[a].lines
  BY DEF Is
<1>4. OneEach(t[a].lines[b].stacks)
  BY <1>3, OneEachIs
<1> QED BY <1>1, <1>2, <1>4 DEF OneEach, Is

(* At finds it. *)
LEMMA AtIs ==
    ASSUME NEW t \in Tables, Framed(t), NEW p \in Places, Has(t, p)
    PROVE  \E a, b, c : At(t, p) = <<a, b, c>> /\ Is(t, p, a, b, c)
<1>1. PICK x, y, z : Is(t, p, x, y, z)
  BY DEF Has
<1>2. PICK a : a = FileIndex(t, p.file)
  OBVIOUS
<1>3. a \in DOMAIN t /\ t[a].name = p.file
  <2>1. \/ a \in DOMAIN t /\ t[a].name = p.file /\ a # 0
        \/ a = 0 /\ \A k \in DOMAIN t : t[k].name # p.file
    BY <1>2, IndexesAre
  <2> QED BY <1>1, <2>1 DEF Is
<1>4. x = a
  BY <1>1, <1>3 DEF Framed, Is
<1>5. PICK ls \in Seq(Line) : ls = t[a].lines
  BY <1>3, TableParts
<1>6. PICK b : b = LineIndex(ls, p.line)
  OBVIOUS
<1>7. b \in DOMAIN ls /\ ls[b].line = p.line
  <2>1. \/ b \in DOMAIN ls /\ ls[b].line = p.line /\ b # 0
        \/ b = 0 /\ \A k \in DOMAIN ls : ls[k].line # p.line
    BY <1>6, IndexesAre
  <2> QED BY <1>1, <1>4, <1>5, <2>1 DEF Is
<1>8. y = b
  BY <1>1, <1>3, <1>4, <1>5, <1>7 DEF Framed, Is
<1>9. PICK ss \in Seq(Stack) : ss = t[a].lines[b].stacks
  BY <1>3, <1>5, <1>7, LineAt
<1>10. PICK c : c = StackIndex(ss, p.bt)
  OBVIOUS
<1>11. c \in DOMAIN ss /\ ss[c].bt = p.bt
  <2>1. \/ c \in DOMAIN ss /\ ss[c].bt = p.bt /\ c # 0
        \/ c = 0 /\ \A k \in DOMAIN ss : ss[k].bt # p.bt
    BY <1>10, IndexesAre
  <2> QED BY <1>1, <1>4, <1>8, <1>9, <2>1 DEF Is
<1>12. Is(t, p, a, b, c)
  BY <1>3, <1>5, <1>7, <1>9, <1>11 DEF Is
<1>13. At(t, p) = <<a, b, c>>
  BY <1>2, <1>5, <1>6, <1>9, <1>10 DEF At
<1> QED BY <1>12, <1>13

PutLine(t, a, b, l) ==
    [t EXCEPT ![a] = [t[a] EXCEPT !.lines = [t[a].lines EXCEPT ![b] = l]]]

LEMMA PutLineIs ==
    ASSUME NEW t \in Tables, NEW a \in DOMAIN t, NEW b \in DOMAIN t[a].lines, NEW l \in Line
    PROVE  /\ PutLine(t, a, b, l) \in Tables
           /\ Len(PutLine(t, a, b, l)) = Len(t) /\ DOMAIN PutLine(t, a, b, l) = DOMAIN t
           /\ \A x \in DOMAIN t :
                /\ PutLine(t, a, b, l)[x].name = t[x].name
                /\ Len(PutLine(t, a, b, l)[x].lines) = Len(t[x].lines)
                /\ DOMAIN PutLine(t, a, b, l)[x].lines = DOMAIN t[x].lines
                /\ \A y \in DOMAIN t[x].lines :
                     PutLine(t, a, b, l)[x].lines[y] = IF x = a /\ y = b THEN l
                                                      ELSE t[x].lines[y]
<1>1. t[a] \in File /\ t[a].lines \in Seq(Line) /\ t \in Seq(File)
  BY TableParts DEF Tables
<1>2. PICK ls : ls = [t[a].lines EXCEPT ![b] = l]
  OBVIOUS
<1>3. /\ ls \in Seq(Line) /\ Len(ls) = Len(t[a].lines) /\ DOMAIN ls = DOMAIN t[a].lines
      /\ \A k \in DOMAIN t[a].lines : ls[k] = IF k = b THEN l ELSE t[a].lines[k]
  BY <1>1, <1>2, PutIs
<1>4. PICK f : f = [t[a] EXCEPT !.lines = ls]
  OBVIOUS
<1>5. f \in File /\ f.name = t[a].name /\ f.lines = ls
  BY <1>1, <1>3, <1>4 DEF File
<1>6. PICK v : v = [t EXCEPT ![a] = f]
  OBVIOUS
<1>7. /\ v \in Seq(File) /\ Len(v) = Len(t) /\ DOMAIN v = DOMAIN t
      /\ \A k \in DOMAIN t : v[k] = IF k = a THEN f ELSE t[k]
  BY <1>1, <1>5, <1>6, PutIs
<1>8. PutLine(t, a, b, l) = v
  BY <1>2, <1>4, <1>6 DEF PutLine
<1>9. \A x \in DOMAIN t :
        /\ v[x].name = t[x].name /\ Len(v[x].lines) = Len(t[x].lines)
        /\ DOMAIN v[x].lines = DOMAIN t[x].lines
        /\ \A y \in DOMAIN t[x].lines :
               v[x].lines[y] = IF x = a /\ y = b THEN l ELSE t[x].lines[y]
  BY <1>3, <1>5, <1>7
<1> QED BY <1>7, <1>8, <1>9 DEF Tables

-----------------------------------------------------------------------------
(* Charging a call with a crash. *)

ChargedStack(s)  == [s EXCEPT !.abort = s.abort + 1]
ChargedLine(l, c) ==
    [l EXCEPT !.stacks = [l.stacks EXCEPT ![c] = ChargedStack(l.stacks[c])]]

LEMMA ChargedStackIs ==
    ASSUME NEW s \in Stack
    PROVE  /\ ChargedStack(s) \in Stack /\ ChargedStack(s).bt = s.bt
           /\ ChargedStack(s)["count"] = s["count"] /\ ChargedStack(s)["prev"] = s["prev"]
           /\ ChargedStack(s)["abort"] = s["abort"] + 1
<1>1. PICK n : n = s.abort + 1
  OBVIOUS
<1>2. n \in Nat
  BY <1>1 DEF Stack
<1>3. PICK x : x = [s EXCEPT !.abort = n]
  OBVIOUS
<1>4. /\ x \in Stack /\ x.bt = s.bt /\ x["count"] = s["count"] /\ x["prev"] = s["prev"]
      /\ x["abort"] = n
  BY <1>2, <1>3 DEF Stack
<1> QED BY <1>1, <1>3, <1>4 DEF ChargedStack

LEMMA ChargedLineIs ==
    ASSUME NEW l \in Line, NEW c \in DOMAIN l.stacks
    PROVE  LET m == ChargedLine(l, c) IN
           /\ m \in Line /\ m.line = l.line /\ m.count = l.count /\ m.prev = l.prev
           /\ m.stacks \in Seq(Stack) /\ Len(m.stacks) = Len(l.stacks)
           /\ DOMAIN m.stacks = DOMAIN l.stacks
           /\ \A k \in DOMAIN l.stacks :
                m.stacks[k] = IF k = c THEN ChargedStack(l.stacks[k]) ELSE l.stacks[k]
<1>1. l.stacks \in Seq(Stack)
  BY DEF Line
<1>2. PICK s : s = ChargedStack(l.stacks[c])
  OBVIOUS
<1>3. s \in Stack
  BY <1>1, <1>2, ChargedStackIs
<1>4. PICK ss : ss = [l.stacks EXCEPT ![c] = s]
  OBVIOUS
<1>5. /\ ss \in Seq(Stack) /\ Len(ss) = Len(l.stacks) /\ DOMAIN ss = DOMAIN l.stacks
      /\ \A k \in DOMAIN l.stacks : ss[k] = IF k = c THEN s ELSE l.stacks[k]
  BY <1>1, <1>3, <1>4, PutIs
<1>6. PICK m : m = [l EXCEPT !.stacks = ss]
  OBVIOUS
<1>7. /\ m \in Line /\ m.line = l.line /\ m.count = l.count /\ m.prev = l.prev
      /\ m.stacks = ss
  BY <1>5, <1>6 DEF Line
<1>8. ChargedLine(l, c) = m
  BY <1>2, <1>4, <1>6 DEF ChargedLine
<1> QED BY <1>2, <1>5, <1>7, <1>8

LEMMA ChargedLineAdds ==
    ASSUME NEW l \in Line, NEW c \in DOMAIN l.stacks
    PROVE  /\ OneEach(l.stacks) => OneEach(ChargedLine(l, c).stacks)
           /\ CountAdds(l) => CountAdds(ChargedLine(l, c))
           /\ PrevCovers(l) => PrevCovers(ChargedLine(l, c))
<1>1. PICK m : m = ChargedLine(l, c)
  OBVIOUS
<1>2. /\ m \in Line /\ m.line = l.line /\ m.count = l.count /\ m.prev = l.prev
      /\ m.stacks \in Seq(Stack) /\ Len(m.stacks) = Len(l.stacks)
      /\ DOMAIN m.stacks = DOMAIN l.stacks
      /\ \A k \in DOMAIN l.stacks :
             m.stacks[k] = IF k = c THEN ChargedStack(l.stacks[k]) ELSE l.stacks[k]
  BY <1>1, ChargedLineIs
<1>3. l.stacks \in Seq(Stack) /\ \A k \in DOMAIN l.stacks : l.stacks[k] \in Stack
  BY DEF Line
<1>4. \A k \in DOMAIN l.stacks :
         /\ m.stacks[k].bt = l.stacks[k].bt /\ m.stacks[k]["count"] = l.stacks[k]["count"]
         /\ m.stacks[k]["prev"] = l.stacks[k]["prev"]
  BY <1>2, <1>3, ChargedStackIs
<1>5. /\ Total(m.stacks, "count") = Total(l.stacks, "count")
      /\ Total(m.stacks, "prev") = Total(l.stacks, "prev")
  <2>1. "count" \in Fields /\ "prev" \in Fields
    BY DEF Fields
  <2>2. \A k \in DOMAIN m.stacks : m.stacks[k]["count"] = l.stacks[k]["count"]
    BY <1>2, <1>4
  <2>3. \A k \in DOMAIN m.stacks : m.stacks[k]["prev"] = l.stacks[k]["prev"]
    BY <1>2, <1>4
  <2>4. Total(m.stacks, "count") = Total(l.stacks, "count")
    BY <1>2, <1>3, <2>1, <2>2, TotalEqual
  <2>5. Total(m.stacks, "prev") = Total(l.stacks, "prev")
    BY <1>2, <1>3, <2>1, <2>3, TotalEqual
  <2> QED BY <2>4, <2>5
<1>6. \A k \in DOMAIN l.stacks : m.stacks[k].prev = l.stacks[k].prev
  BY <1>4
<1>7. OneEach(l.stacks) => OneEach(m.stacks)
  BY <1>2, <1>4 DEF OneEach
<1>8. CountAdds(l) => CountAdds(m)
  BY <1>2, <1>5 DEF CountAdds
<1>9. PrevCovers(l) => PrevCovers(m)
  BY <1>2, <1>5, <1>6 DEF PrevCovers
<1> QED BY <1>1, <1>7, <1>8, <1>9

(* What a charge does to the entries of the places. *)
ChargedFrom(u, p, v) ==
    /\ v \in Tables /\ Framed(v) /\ OneTraceEach(v)
    /\ \A q, a, b, c : Is(v, q, a, b, c) <=> Is(u, q, a, b, c)
    /\ \A q \in Places : \A a, b, c : q # p /\ Is(u, q, a, b, c) =>
           Ent(v, a, b, c) = Ent(u, a, b, c)
    /\ \A a, b, c : Is(u, p, a, b, c) => Ent(v, a, b, c) = ChargedStack(Ent(u, a, b, c))
    /\ CountsAdd(u) => CountsAdd(v)
    /\ PrevsCover(u) => PrevsCover(v)

LEMMA ChargeIs ==
    ASSUME NEW u \in Tables, Framed(u), OneTraceEach(u), NEW p \in Places, Has(u, p)
    PROVE  ChargedFrom(u, p, Charge(u, p))
<1>1. PICK a, b, c : At(u, p) = <<a, b, c>> /\ Is(u, p, a, b, c)
  BY AtIs
<1>2. a \in DOMAIN u /\ b \in DOMAIN u[a].lines /\ c \in DOMAIN u[a].lines[b].stacks
  BY <1>1 DEF Is
<1>3. PICK l : l = u[a].lines[b]
  OBVIOUS
<1>4. l \in Line /\ c \in DOMAIN l.stacks /\ \A k \in DOMAIN l.stacks : l.stacks[k] \in Stack
  BY <1>2, <1>3, LineAt
<1>5. PICK m : m = ChargedLine(l, c)
  OBVIOUS
<1>6. /\ m \in Line /\ m.line = l.line /\ m.count = l.count /\ m.prev = l.prev
      /\ m.stacks \in Seq(Stack) /\ Len(m.stacks) = Len(l.stacks)
      /\ DOMAIN m.stacks = DOMAIN l.stacks
      /\ \A k \in DOMAIN l.stacks :
             m.stacks[k] = IF k = c THEN ChargedStack(l.stacks[k]) ELSE l.stacks[k]
  BY <1>4, <1>5, ChargedLineIs
<1>7. PICK v : v = PutLine(u, a, b, m)
  OBVIOUS
<1>8. /\ v \in Tables /\ Len(v) = Len(u) /\ DOMAIN v = DOMAIN u
      /\ \A x \in DOMAIN u :
           /\ v[x].name = u[x].name /\ Len(v[x].lines) = Len(u[x].lines)
           /\ DOMAIN v[x].lines = DOMAIN u[x].lines
           /\ \A y \in DOMAIN u[x].lines :
                  v[x].lines[y] = IF x = a /\ y = b THEN m ELSE u[x].lines[y]
  BY <1>2, <1>6, <1>7, PutLineIs
<1>9. Charge(u, p) = v
  BY <1>1, <1>3, <1>5, <1>7 DEF Charge, PutLine, ChargedLine, ChargedStack
<1>10. \A x \in DOMAIN u : \A y \in DOMAIN u[x].lines :
          /\ v[x].lines[y].line = u[x].lines[y].line
          /\ DOMAIN v[x].lines[y].stacks = DOMAIN u[x].lines[y].stacks
          /\ \A z \in DOMAIN u[x].lines[y].stacks :
                 v[x].lines[y].stacks[z].bt = u[x].lines[y].stacks[z].bt
  <2>1. \A k \in DOMAIN l.stacks : m.stacks[k].bt = l.stacks[k].bt
    BY <1>4, <1>6, ChargedStackIs
  <2>2. ASSUME NEW x \in DOMAIN u, NEW y \in DOMAIN u[x].lines
        PROVE  /\ v[x].lines[y].line = u[x].lines[y].line
               /\ DOMAIN v[x].lines[y].stacks = DOMAIN u[x].lines[y].stacks
               /\ \A z \in DOMAIN u[x].lines[y].stacks :
                      v[x].lines[y].stacks[z].bt = u[x].lines[y].stacks[z].bt
    <3>1. v[x].lines[y] = IF x = a /\ y = b THEN m ELSE u[x].lines[y]
      BY <1>8, <2>2
    <3>2. CASE x = a /\ y = b
      <4>1. v[x].lines[y] = m /\ u[x].lines[y] = l
        BY <1>3, <3>1, <3>2
      <4> QED BY <1>6, <2>1, <4>1
    <3>3. CASE ~(x = a /\ y = b)
      BY <3>1, <3>3
    <3> QED BY <3>2, <3>3
  <2> QED BY <2>2
<1>11. Framed(v)
  BY <1>8, <1>10 DEF Framed
<1>12. ASSUME NEW x \in DOMAIN v, NEW y \in DOMAIN v[x].lines
       PROVE  /\ OneEach(v[x].lines[y].stacks)
              /\ CountsAdd(u) => CountAdds(v[x].lines[y])
              /\ PrevsCover(u) => PrevCovers(v[x].lines[y])
  <2>1. x \in DOMAIN u /\ y \in DOMAIN u[x].lines
    BY <1>8, <1>12
  <2>2. PICK k : k = u[x].lines[y]
    OBVIOUS
  <2>3. /\ OneEach(k.stacks) /\ (CountsAdd(u) => CountAdds(k))
        /\ (PrevsCover(u) => PrevCovers(k))
    BY <2>1, <2>2, OneEachIs DEF CountsAdd, PrevsCover
  <2>4. CASE x = a /\ y = b
    <3>1. v[x].lines[y] = m /\ k = l
      BY <1>3, <1>8, <2>1, <2>2, <2>4
    <3> QED BY <1>4, <1>5, <2>3, <3>1, ChargedLineAdds
  <2>5. CASE ~(x = a /\ y = b)
    <3>1. v[x].lines[y] = k
      BY <1>8, <2>1, <2>2, <2>5
    <3> QED BY <2>3, <3>1
  <2> QED BY <2>4, <2>5
<1>13. OneTraceEach(v) /\ (CountsAdd(u) => CountsAdd(v)) /\ (PrevsCover(u) => PrevsCover(v))
  BY <1>12, OneEachIs DEF CountsAdd, PrevsCover
<1>14. \A q, x, y, z : Is(v, q, x, y, z) <=> Is(u, q, x, y, z)
  BY <1>8, <1>10 DEF Is
<1>15. ASSUME NEW q \in Places, NEW x, NEW y, NEW z, q # p, Is(u, q, x, y, z)
       PROVE  Ent(v, x, y, z) = Ent(u, x, y, z)
  <2>1. x \in DOMAIN u /\ y \in DOMAIN u[x].lines /\ z \in DOMAIN u[x].lines[y].stacks
    BY <1>15 DEF Is
  <2>2. CASE x = a /\ y = b
    <3>1. z # c
      <4>1. SUFFICES ASSUME z = c PROVE FALSE
        OBVIOUS
      <4>2. q.file = p.file /\ q.line = p.line /\ q.bt = p.bt
        BY <1>1, <1>15, <2>2, <4>1 DEF Is
      <4> QED BY <1>15, <4>2, PlacesDiffer
    <3>2. v[x].lines[y] = m /\ u[x].lines[y] = l
      BY <1>3, <1>8, <2>1, <2>2
    <3> QED BY <1>6, <2>1, <3>1, <3>2 DEF Ent
  <2>3. CASE ~(x = a /\ y = b)
    BY <1>8, <2>1, <2>3 DEF Ent
  <2> QED BY <2>2, <2>3
<1>16. ASSUME NEW x, NEW y, NEW z, Is(u, p, x, y, z)
       PROVE  Ent(v, x, y, z) = ChargedStack(Ent(u, x, y, z))
  <2>1. x = a /\ y = b /\ z = c
    BY <1>1, <1>16, IsUnique
  <2>2. v[a].lines[b] = m
    BY <1>2, <1>8
  <2> QED BY <1>3, <1>4, <1>6, <2>1, <2>2 DEF Ent
<1> QED BY <1>8, <1>9, <1>11, <1>13, <1>14, <1>15, <1>16 DEF ChargedFrom

(* A call, and what it is charged. *)
Called(t, p, u, d) ==
    /\ u \in Tables /\ Framed(u) /\ OneTraceEach(u)
    /\ \A q \in Places : \A a, b, c : q # p =>
           /\ Is(u, q, a, b, c) => Is(t, q, a, b, c) /\ Ent(u, a, b, c) = Ent(t, a, b, c)
           /\ Is(t, q, a, b, c) => Is(u, q, a, b, c)
    /\ \A a, b, c : Is(u, p, a, b, c) =>
           \/ /\ Is(t, p, a, b, c) /\ Ent(u, a, b, c).count = Ent(t, a, b, c).count + 1
              /\ Ent(u, a, b, c).prev = Ent(t, a, b, c).prev
              /\ Ent(u, a, b, c).abort = Ent(t, a, b, c).abort + d
           \/ /\ ~Has(t, p) /\ Ent(u, a, b, c).count = 1
              /\ Ent(u, a, b, c).prev = 0 /\ Ent(u, a, b, c).abort = d
    /\ Has(u, p)
    /\ CountsAdd(t) => CountsAdd(u)
    /\ PrevsCover(t) => PrevsCover(u)

LEMMA EntIs ==
    ASSUME NEW t \in Tables, NEW p, NEW a, NEW b, NEW c, Is(t, p, a, b, c)
    PROVE  Ent(t, a, b, c) \in Stack
BY LineAt DEF Is, Ent

LEMMA CallIs ==
    ASSUME NEW t \in Tables, Framed(t), OneTraceEach(t), NEW p \in Places, Room(t, p)
    PROVE  /\ Called(t, p, CountFile(t, p), 0)
           /\ Called(t, p, Charge(CountFile(t, p), p), 1)
<1>1. PICK u : u = CountFile(t, p)
  OBVIOUS
<1>2. PICK i, j : FilesCounted(t, p, u, i, j)
  BY <1>1, CountFileIs
<1>3. u \in Tables /\ Framed(u)
  <2>1. Len(u) <= MAX_FILE_LENGTH /\ \A a \in DOMAIN u : Len(u[a].lines) <= MAX_LINE_LENGTH
    BY <1>1, CountFileIs
  <2>2. u \in Tables
    BY <1>2 DEF FilesCounted
  <2> QED BY <1>2, <2>1, <2>2, CountedFramed
<1>4. LinesFrom(t, p, u)
  BY <1>2, LinesFromIs
<1>5. OneTraceEach(u) /\ EntriesFrom(t, p, u)
  BY <1>3, <1>4, CountedNamed, EntriesFromIs
<1>6. /\ CountsAdd(t) => CountsAdd(u)
      /\ PrevsCover(t) => PrevsCover(u)
  BY <1>3, <1>4, CountedAdds
<1>7. ASSUME NEW a, NEW b, NEW c, Is(u, p, a, b, c)
      PROVE  \/ /\ Is(t, p, a, b, c) /\ Ent(u, a, b, c).count = Ent(t, a, b, c).count + 1
                /\ Ent(u, a, b, c).prev = Ent(t, a, b, c).prev
                /\ Ent(u, a, b, c).abort = Ent(t, a, b, c).abort
                /\ Ent(t, a, b, c).abort \in Nat
             \/ /\ ~Has(t, p) /\ Ent(u, a, b, c).count = 1
                /\ Ent(u, a, b, c).prev = 0 /\ Ent(u, a, b, c).abort = 0
  <2>1. CASE ~Has(t, p) /\ Ent(u, a, b, c) = NewStack(p.bt)
    BY <2>1 DEF NewStack
  <2>2. CASE Is(t, p, a, b, c) /\ Ent(u, a, b, c) = Increased(Ent(t, a, b, c))
    <3>1. PICK s \in Stack : s = Ent(t, a, b, c)
      BY <2>2, EntIs
    <3>2. s.abort \in Nat
      BY DEF Stack
    <3> QED BY <2>2, <3>1, <3>2, IncreasedIs
  <2> QED BY <1>5, <1>7, <2>1, <2>2 DEF EntriesFrom
<1>8. Called(t, p, u, 0)
  <2>1. ASSUME NEW a, NEW b, NEW c, Is(u, p, a, b, c)
        PROVE  \/ /\ Is(t, p, a, b, c) /\ Ent(u, a, b, c).count = Ent(t, a, b, c).count + 1
                  /\ Ent(u, a, b, c).prev = Ent(t, a, b, c).prev
                  /\ Ent(u, a, b, c).abort = Ent(t, a, b, c).abort + 0
               \/ /\ ~Has(t, p) /\ Ent(u, a, b, c).count = 1
                  /\ Ent(u, a, b, c).prev = 0 /\ Ent(u, a, b, c).abort = 0
    <3>1. \A n \in Nat : n + 0 = n
      OBVIOUS
    <3> QED BY <1>7, <2>1, <3>1
  <2> QED BY <1>3, <1>5, <1>6, <2>1 DEF Called, EntriesFrom
<1>9. PICK v : v = Charge(u, p)
  OBVIOUS
<1>10. ChargedFrom(u, p, v)
  BY <1>3, <1>5, <1>9, ChargeIs DEF EntriesFrom
<1>11. Called(t, p, v, 1)
  <2>1. ASSUME NEW a, NEW b, NEW c, Is(v, p, a, b, c)
        PROVE  \/ /\ Is(t, p, a, b, c) /\ Ent(v, a, b, c).count = Ent(t, a, b, c).count + 1
                  /\ Ent(v, a, b, c).prev = Ent(t, a, b, c).prev
                  /\ Ent(v, a, b, c).abort = Ent(t, a, b, c).abort + 1
               \/ /\ ~Has(t, p) /\ Ent(v, a, b, c).count = 1
                  /\ Ent(v, a, b, c).prev = 0 /\ Ent(v, a, b, c).abort = 1
    <3>1. Is(u, p, a, b, c) /\ Ent(v, a, b, c) = ChargedStack(Ent(u, a, b, c))
      BY <1>10, <2>1 DEF ChargedFrom
    <3>2. PICK s \in Stack : s = Ent(u, a, b, c)
      BY <1>3, <3>1, EntIs
    <3>3. /\ Ent(v, a, b, c).count = s.count /\ Ent(v, a, b, c).prev = s.prev
          /\ Ent(v, a, b, c).abort = s.abort + 1
      BY <3>1, <3>2, ChargedStackIs
    <3> QED BY <1>7, <3>1, <3>2, <3>3
  <2>2. Has(v, p)
    BY <1>5, <1>10 DEF ChargedFrom, EntriesFrom, Has
  <2>3. ASSUME NEW q \in Places, NEW a, NEW b, NEW c, q # p
        PROVE  /\ Is(v, q, a, b, c) => Is(t, q, a, b, c) /\ Ent(v, a, b, c) = Ent(t, a, b, c)
               /\ Is(t, q, a, b, c) => Is(v, q, a, b, c)
    BY <1>5, <1>10, <2>3 DEF ChargedFrom, EntriesFrom
  <2>4. /\ v \in Tables /\ Framed(v) /\ OneTraceEach(v)
        /\ CountsAdd(t) => CountsAdd(v)
        /\ PrevsCover(t) => PrevsCover(v)
    BY <1>6, <1>10 DEF ChargedFrom
  <2> QED BY <2>1, <2>2, <2>3, <2>4 DEF Called
<1> QED BY <1>1, <1>8, <1>9, <1>11

(* A line of the file is charged with the crashes of its backtraces. *)
AbortsAdd(t) == \A i \in DOMAIN t : \A j \in DOMAIN t[i].lines :
    t[i].lines[j].abort = Total(t[i].lines[j].stacks, "abort")

LEMMA MergedParts ==
    ASSUME NEW e, NEW t \in Tables
    PROVE  /\ Merged(e, t) \in Tables /\ Len(Merged(e, t)) = Len(t)
           /\ DOMAIN Merged(e, t) = DOMAIN t
           /\ \A i \in DOMAIN t :
                /\ Merged(e, t)[i].name = t[i].name
                /\ Len(Merged(e, t)[i].lines) = Len(t[i].lines)
                /\ DOMAIN Merged(e, t)[i].lines = DOMAIN t[i].lines
                /\ \A j \in DOMAIN t[i].lines :
                     Merged(e, t)[i].lines[j] = MergedLine(e, t[i].lines[j])
<1>1. PICK m : m = Merged(e, t)
  OBVIOUS
<1>2. m \in Tables /\ Len(m) = Len(t)
  BY <1>1, MergedTypes
<1>3. DOMAIN m = DOMAIN t /\ \A i \in DOMAIN t : m[i] = MergedFile(e, t[i])
  BY <1>1 DEF Merged
<1>4. ASSUME NEW i \in DOMAIN t
      PROVE  /\ m[i].name = t[i].name /\ Len(m[i].lines) = Len(t[i].lines)
             /\ DOMAIN m[i].lines = DOMAIN t[i].lines
             /\ \A j \in DOMAIN t[i].lines : m[i].lines[j] = MergedLine(e, t[i].lines[j])
  <2>1. PICK f \in File : f = t[i]
    BY TableParts
  <2>2. PICK ls : ls = MergedLines(e, f.lines)
    OBVIOUS
  <2>3. f.lines \in Seq(Line) /\ Len(ls) = Len(f.lines)
    BY <2>2, MergedTypes DEF File
  <2>4. DOMAIN ls = DOMAIN f.lines /\ \A j \in DOMAIN f.lines : ls[j] = MergedLine(e, f.lines[j])
    BY <2>2 DEF MergedLines
  <2>5. m[i].name = f.name /\ m[i].lines = ls
    BY <1>3, <2>1, <2>2 DEF MergedFile
  <2> QED BY <2>1, <2>3, <2>4, <2>5
<1> QED BY <1>1, <1>2, <1>3, <1>4

LEMMA MergedStacksAre ==
    ASSUME NEW e, NEW ss \in Seq(Stack)
    PROVE  LET ms == MergedStacks(e, ss) IN
           /\ ms \in Seq(Stack) /\ Len(ms) = Len(ss) /\ DOMAIN ms = DOMAIN ss
           /\ \A k \in DOMAIN ss :
                /\ ms[k] = MergedStack(e, ss[k]) /\ ms[k].bt = ss[k].bt
                /\ ms[k]["prev"] = CountOf(e, ss[k])
                /\ ms[k]["abort"] = AbortOf(e, ss[k].abort)
<1>1. PICK ms : ms = MergedStacks(e, ss)
  OBVIOUS
<1>2. /\ ms \in Seq(Stack) /\ Len(ms) = Len(ss) /\ DOMAIN ms = DOMAIN ss
      /\ \A k \in DOMAIN ss : ms[k] = MergedStack(e, ss[k])
  BY <1>1, MergedTypes DEF MergedStacks
<1>3. \A k \in DOMAIN ss :
        /\ ms[k].bt = ss[k].bt /\ ms[k]["prev"] = CountOf(e, ss[k])
        /\ ms[k]["abort"] = AbortOf(e, ss[k].abort)
  BY <1>2 DEF MergedStack
<1> QED BY <1>1, <1>2, <1>3

(* What the file says of a place once the tables are written. *)
LEMMA MergedIs ==
    ASSUME NEW e, NEW t \in Tables, Framed(t)
    PROVE  /\ Merged(e, t) \in Tables /\ Framed(Merged(e, t))
           /\ \A q, a, b, c : Is(Merged(e, t), q, a, b, c) <=> Is(t, q, a, b, c)
           /\ \A q, a, b, c : Is(t, q, a, b, c) =>
                /\ Ent(Merged(e, t), a, b, c).prev = CountOf(e, Ent(t, a, b, c))
                /\ Ent(Merged(e, t), a, b, c).abort = AbortOf(e, Ent(t, a, b, c).abort)
<1>1. PICK m : m = Merged(e, t)
  OBVIOUS
<1>2. /\ m \in Tables /\ Len(m) = Len(t) /\ DOMAIN m = DOMAIN t
      /\ \A i \in DOMAIN t :
           /\ m[i].name = t[i].name /\ Len(m[i].lines) = Len(t[i].lines)
           /\ DOMAIN m[i].lines = DOMAIN t[i].lines
           /\ \A j \in DOMAIN t[i].lines : m[i].lines[j] = MergedLine(e, t[i].lines[j])
  BY <1>1, MergedParts
<1>3. ASSUME NEW i \in DOMAIN t, NEW j \in DOMAIN t[i].lines
      PROVE  /\ m[i].lines[j].line = t[i].lines[j].line
             /\ DOMAIN m[i].lines[j].stacks = DOMAIN t[i].lines[j].stacks
             /\ \A k \in DOMAIN t[i].lines[j].stacks :
                  /\ m[i].lines[j].stacks[k].bt = t[i].lines[j].stacks[k].bt
                  /\ m[i].lines[j].stacks[k].prev = CountOf(e, t[i].lines[j].stacks[k])
                  /\ m[i].lines[j].stacks[k].abort = AbortOf(e, t[i].lines[j].stacks[k].abort)
  <2>1. PICK ss \in Seq(Stack) : ss = t[i].lines[j].stacks
    BY LineAt
  <2>2. m[i].lines[j].line = t[i].lines[j].line /\ m[i].lines[j].stacks = MergedStacks(e, ss)
    <3>1. PICK l \in Line : l = t[i].lines[j]
      BY LineAt
    <3>2. m[i].lines[j] = MergedLine(e, l)
      BY <1>2, <3>1
    <3>3. PICK n, c, a, ms : /\ n = l.line /\ c = CountOf(e, l)
                               /\ a = AbortOf(e, AbortsOf(l)) /\ ms = MergedStacks(e, ss)
      OBVIOUS
    <3>4. m[i].lines[j] = [line |-> n, count |-> 0, prev |-> c, abort |-> a, stacks |-> ms]
      BY <2>1, <3>1, <3>2, <3>3 DEF MergedLine
    <3> QED BY <3>1, <3>3, <3>4
  <2> QED BY <2>1, <2>2, MergedStacksAre
<1>4. Framed(m)
  BY <1>2, <1>3 DEF Framed
<1>5. \A q, a, b, c : Is(m, q, a, b, c) <=> Is(t, q, a, b, c)
  BY <1>2, <1>3 DEF Is
<1>6. \A q, a, b, c : Is(t, q, a, b, c) =>
        /\ Ent(m, a, b, c).prev = CountOf(e, Ent(t, a, b, c))
        /\ Ent(m, a, b, c).abort = AbortOf(e, Ent(t, a, b, c).abort)
  BY <1>3 DEF Is, Ent
<1> QED BY <1>1, <1>2, <1>4, <1>5, <1>6

LEMMA CountOfIs ==
    ASSUME NEW e, NEW n \in Nat, NEW m \in Nat, NEW x, x.count = n, x.prev = m
    PROVE  /\ CountOf(e, x) = IF e = "ADD" THEN IF n > m THEN n ELSE m ELSE n
           /\ CountOf(e, x) \in Nat /\ n <= CountOf(e, x)
           /\ e = "ADD" => m <= CountOf(e, x)
BY DEF CountOf, larger_count

(* The larger counts of a line still cover its backtraces: a line is       *)
(* called as often as all of them together.                                *)
LEMMA MergedLineCovers ==
    ASSUME NEW e, NEW l \in Line, CountAdds(l), e = "ADD" => PrevCovers(l)
    PROVE  /\ PrevCovers(MergedLine(e, l))
           /\ MergedLine(e, l).abort = Total(MergedLine(e, l).stacks, "abort")
<1>1. PICK m, ss : m = MergedLine(e, l) /\ ss = l.stacks
  OBVIOUS
<1>2. ss \in Seq(Stack) /\ l.count \in Nat /\ l.prev \in Nat
  BY <1>1 DEF Line
<1>3. PICK ms : ms = MergedStacks(e, ss)
  OBVIOUS
<1>4. m.stacks = ms /\ m.prev = CountOf(e, l) /\ m.abort = AbortOf(e, Total(ss, "abort"))
  BY <1>1, <1>3 DEF MergedLine, AbortsOf
<1>5. /\ ms \in Seq(Stack) /\ Len(ms) = Len(ss) /\ DOMAIN ms = DOMAIN ss
      /\ \A k \in DOMAIN ss :
           /\ ms[k]["prev"] = CountOf(e, ss[k]) /\ ms[k]["abort"] = AbortOf(e, ss[k].abort)
  BY <1>2, <1>3, MergedStacksAre
<1>6. "count" \in Fields /\ "prev" \in Fields /\ "abort" \in Fields
  BY DEF Fields
<1>7. PICK x : x = CountOf(e, l)
  OBVIOUS
<1>8. /\ x = IF e = "ADD" THEN IF l.count > l.prev THEN l.count ELSE l.prev ELSE l.count
      /\ x \in Nat
  BY <1>2, <1>7, CountOfIs
<1>9. l.count = Total(ss, "count")
  BY <1>1 DEF CountAdds
<1>10. ASSUME NEW k \in DOMAIN ss
       PROVE  /\ ss[k]["count"] <= l.count /\ ss[k]["count"] \in Nat /\ ss[k]["prev"] \in Nat
              /\ (e = "ADD" => ss[k]["prev"] <= l.prev)
              /\ ms[k]["prev"] = IF e = "ADD"
                                 THEN IF ss[k]["count"] > ss[k]["prev"] THEN ss[k]["count"]
                                      ELSE ss[k]["prev"]
                                 ELSE ss[k]["count"]
  <2>1. ss[k]["count"] <= l.count
    BY <1>2, <1>6, <1>9, <1>10, TotalCovers
  <2>2. ss[k] \in Stack
    BY <1>2, <1>10
  <2>3. ss[k]["count"] \in Nat /\ ss[k]["prev"] \in Nat
    BY <2>2 DEF Stack
  <2>4. e = "ADD" => ss[k]["prev"] <= l.prev
    BY <1>1, <1>10 DEF PrevCovers
  <2>5. ms[k]["prev"] = CountOf(e, ss[k])
    BY <1>5, <1>10
  <2>9. PICK y : y = ss[k]
    OBVIOUS
  <2>6. PICK a \in Nat, b \in Nat : a = ss[k]["count"] /\ b = ss[k]["prev"]
    BY <2>3
  <2>7. y.count = a /\ y.prev = b
    BY <2>6, <2>9
  <2>8. CountOf(e, y) = IF e = "ADD" THEN IF a > b THEN a ELSE b ELSE a
    BY <2>7, CountOfIs
  <2> QED BY <2>1, <2>3, <2>4, <2>5, <2>6, <2>8, <2>9
<1>11. \A k \in DOMAIN ss : ms[k]["prev"] <= x
  BY <1>2, <1>8, <1>10
<1>12. PICK n : n = Len(ss) /\ n \in Nat /\ DOMAIN ss = 1 .. n
  BY <1>2
<1>13. Total(ss, "count") <= Total(ms, "prev")
  <2>1. \A k \in 1 .. n : ss[k]["count"] <= ms[k]["prev"]
    BY <1>10, <1>12
  <2> QED BY <1>2, <1>5, <1>6, <1>12, <2>1, TotalMonotone
<1>14. e = "ADD" => l.prev <= Total(ms, "prev")
  <2>1. SUFFICES ASSUME e = "ADD" PROVE l.prev <= Total(ms, "prev")
    OBVIOUS
  <2>2. \A k \in 1 .. n : ss[k]["prev"] <= ms[k]["prev"]
    BY <1>10, <1>12, <2>1
  <2>3. Total(ss, "prev") <= Total(ms, "prev")
    BY <1>2, <1>5, <1>6, <1>12, <2>2, TotalMonotone
  <2>4. l.prev <= Total(ss, "prev")
    BY <1>1, <2>1 DEF PrevCovers
  <2>5. Total(ss, "prev") \in Nat /\ Total(ms, "prev") \in Nat
    BY <1>2, <1>5, <1>6, TotalType
  <2> QED BY <1>2, <2>3, <2>4, <2>5
<1>15. x <= Total(ms, "prev")
  BY <1>8, <1>9, <1>13, <1>14
<1>16. \A k \in DOMAIN ms : ms[k].prev <= x
  BY <1>5, <1>11
<1>17. PrevCovers(m)
  BY <1>4, <1>7, <1>15, <1>16 DEF PrevCovers
<1>18. m.abort = Total(ms, "abort")
  <2>1. CASE e = "ADD"
    <3>1. \A k \in DOMAIN ms : ms[k]["abort"] = ss[k]["abort"]
      BY <1>5, <2>1 DEF AbortOf
    <3>2. Total(ms, "abort") = Total(ss, "abort")
      BY <1>2, <1>5, <1>6, <3>1, TotalEqual
    <3> QED BY <1>4, <2>1, <3>2 DEF AbortOf
  <2>2. CASE e # "ADD"
    <3>1. \A k \in DOMAIN ms : ms[k]["abort"] = 0
      BY <1>5, <2>2 DEF AbortOf
    <3>2. Total(ms, "abort") = 0
      BY <1>5, <1>6, <3>1, TotalZero
    <3> QED BY <1>4, <2>2, <3>2 DEF AbortOf
  <2> QED BY <2>1, <2>2
<1> QED BY <1>1, <1>4, <1>17, <1>18

LEMMA MergedCovers ==
    ASSUME NEW e, NEW t \in Tables, CountsAdd(t), e = "ADD" => PrevsCover(t)
    PROVE  PrevsCover(Merged(e, t)) /\ AbortsAdd(Merged(e, t))
<1>1. PICK m : m = Merged(e, t)
  OBVIOUS
<1>2. /\ DOMAIN m = DOMAIN t
      /\ \A i \in DOMAIN t :
           /\ DOMAIN m[i].lines = DOMAIN t[i].lines
           /\ \A j \in DOMAIN t[i].lines : m[i].lines[j] = MergedLine(e, t[i].lines[j])
  BY <1>1, MergedParts
<1>3. ASSUME NEW i \in DOMAIN m, NEW j \in DOMAIN m[i].lines
      PROVE  /\ PrevCovers(m[i].lines[j])
             /\ m[i].lines[j].abort = Total(m[i].lines[j].stacks, "abort")
  <2>1. i \in DOMAIN t /\ j \in DOMAIN t[i].lines
    BY <1>2, <1>3
  <2>2. PICK l \in Line : l = t[i].lines[j]
    BY <2>1, LineAt
  <2>3. CountAdds(l) /\ (e = "ADD" => PrevCovers(l))
    BY <2>1, <2>2 DEF CountsAdd, PrevsCover
  <2>4. m[i].lines[j] = MergedLine(e, l)
    BY <1>2, <2>1, <2>2
  <2> QED BY <2>3, <2>4, MergedLineCovers
<1> QED BY <1>1, <1>3 DEF PrevsCover, AbortsAdd

LEMMA FreshAdds ==
    ASSUME NEW t \in Tables, Fresh(t)
    PROVE  CountsAdd(t)
<1>1. ASSUME NEW i \in DOMAIN t, NEW j \in DOMAIN t[i].lines
      PROVE  CountAdds(t[i].lines[j])
  <2>1. PICK l \in Line : l = t[i].lines[j] /\ l.stacks \in Seq(Stack)
    BY LineAt
  <2>2. l.count = 0 /\ \A k \in DOMAIN l.stacks : l.stacks[k]["count"] = 0
    BY <2>1 DEF Fresh
  <2>3. "count" \in Fields
    BY DEF Fields
  <2>4. Total(l.stacks, "count") = 0
    BY <2>1, <2>2, <2>3, TotalZero
  <2> QED BY <2>1, <2>2, <2>4 DEF CountAdds
<1> QED BY <1>1 DEF CountsAdd

-----------------------------------------------------------------------------
(* The invariant. *)

(* The file owes nothing to the ledger, nor the ledger to the file. *)
Kept(t, g) == \A p \in Places :
    /\ \A i, j, k : Is(t, p, i, j, k) =>
           Ent(t, i, j, k).prev = g[p].count /\ Ent(t, i, j, k).abort = g[p].abort
    /\ ~Has(t, p) => g[p].count = 0 /\ g[p].abort = 0

(* The tables have counted the calls of this run. *)
Counted(t, s, c) == \A p \in Places :
    /\ \A i, j, k : Is(t, p, i, j, k) => Ent(t, i, j, k).count = s[p]
    /\ ~Has(t, p) => s[p] = 0 /\ c[p] = 0

(* They have what the file had, and what this run was charged. *)
Owed(t, g, c) == \A p \in Places :
    /\ \A i, j, k : Is(t, p, i, j, k) =>
           /\ Ent(t, i, j, k).prev = g[p].count
           /\ Ent(t, i, j, k).abort = g[p].abort + c[p]
    /\ ~Has(t, p) => g[p].count = 0 /\ g[p].abort = 0

Ledgers == [Places -> [count : Nat, abort : Nat]]

CTypes ==
    /\ pc \in {"off", "on", "ending", "writing", "undefined"}
    /\ again \in BOOLEAN /\ torn \in BOOLEAN /\ suspect \in BOOLEAN /\ lost \in BOOLEAN
    /\ env \in {"YES", "ADD", "NO"} /\ pmemwrap_abort \in {0, 1} /\ abortflag \in {0, 1}
    /\ tables \in Tables /\ file \in Seq(Records) /\ out \in Seq(Records)
    /\ seen \in [Places -> Nat] /\ charged \in [Places -> Nat] /\ ledger \in Ledgers

Shaped ==
    /\ Framed(tables) /\ OneTraceEach(tables)
    /\ Framed(Input(file \o out)) /\ Traced(file \o out)

FileIsRight ==
    Kept(Input(file), ledger) /\ PrevsCover(Input(file)) /\ AbortsAdd(Input(file))

RunIsRight ==
    /\ Counted(tables, seen, charged) /\ CountsAdd(tables)
    /\ suspect = FALSE => Owed(tables, ledger, charged) /\ PrevsCover(tables)

CInv ==
    /\ CTypes /\ Shaped
    /\ pc # "writing" => out = <<>>
    /\ torn = FALSE => FileIsRight
    /\ pc \in {"on", "ending", "writing"} => RunIsRight
    /\ pc = "writing" =>
           torn = TRUE /\ (lost = FALSE => Input(file \o out) = Merged(env, tables))

LEMMA NothingIs ==
    /\ <<>> \in Tables /\ Framed(<<>>) /\ OneTraceEach(<<>>)
    /\ \A p : ~Has(<<>>, p)
    /\ PrevsCover(<<>>) /\ AbortsAdd(<<>>)
<1>1. PICK t : t = <<>>
  OBVIOUS
<1>2. t \in Tables /\ Len(t) = 0 /\ DOMAIN t = {}
  BY <1>1 DEF Tables
<1>3. Framed(t)
  <2>1. Len(t) <= MAX_FILE_LENGTH
    BY <1>2, CountAssumption
  <2> QED BY <1>2, <2>1 DEF Framed
<1>4. OneTraceEach(t) /\ (\A p : ~Has(t, p)) /\ PrevsCover(t) /\ AbortsAdd(t)
  BY <1>2 DEF OneTraceEach, Has, Is, PrevsCover, AbortsAdd
<1> QED BY <1>1, <1>2, <1>3, <1>4

LEMMA NothingBehind ==
    ASSUME NEW s \in Seq(Records)
    PROVE  s \o <<>> = s /\ <<>> \o s = s
OBVIOUS

LEMMA CInit == Init => CInv
<1> SUFFICES ASSUME Init PROVE CInv
  OBVIOUS
<1>1. /\ pc = "off" /\ tables = <<>> /\ file = <<>> /\ out = <<>> /\ torn = FALSE
      /\ suspect = FALSE
  BY DEF Init
<1>2. PICK s : s = <<>>
  OBVIOUS
<1>3. s \in Seq(Records) /\ s \o s = s
  BY <1>2
<1>4. Input(s) = s /\ Traced(s)
  BY <1>2, InputIs, TracedNothing
<1>5. s \in Tables /\ Framed(s) /\ OneTraceEach(s) /\ PrevsCover(s) /\ AbortsAdd(s)
  BY <1>2, NothingIs
<1>6. Shaped
  BY <1>1, <1>2, <1>3, <1>4, <1>5 DEF Shaped
<1>7. \A p \in Places : ledger[p].count = 0 /\ ledger[p].abort = 0
  BY DEF Init
<1>8. CTypes
  <2>1. seen \in [Places -> Nat] /\ charged \in [Places -> Nat]
    BY DEF Init, Zero
  <2>2. ledger \in Ledgers
    BY DEF Init, Ledgers
  <2>3. tables \in Tables /\ file \in Seq(Records) /\ out \in Seq(Records)
    BY <1>1, <1>2, <1>3, <1>5
  <2> QED BY <2>1, <2>2, <2>3 DEF CTypes, Init
<1>9. FileIsRight
  <2>1. \A p : \A i, j, k : ~Is(s, p, i, j, k)
    <3>1. DOMAIN s = {}
      BY <1>2
    <3> QED BY <3>1 DEF Is
  <2>2. Kept(s, ledger)
    BY <1>7, <2>1 DEF Kept
  <2> QED BY <1>1, <1>2, <1>4, <1>5, <2>2 DEF FileIsRight
<1> QED BY <1>1, <1>6, <1>8, <1>9 DEF CInv

LEMMA CStart == CInv /\ Start => CInv'
<1> SUFFICES ASSUME CInv, Start PROVE CInv'
  OBVIOUS
<1>1. /\ pc = "off" /\ out' = out /\ out = <<>> /\ file' = file /\ ledger' = ledger
      /\ torn' = torn /\ lost' = lost /\ again' = again /\ suspect' = torn
      /\ seen' = Zero /\ charged' = Zero /\ abortflag' = 0
      /\ env' \in {"YES", "ADD", "NO"} /\ pmemwrap_abort' \in {0, 1}
      /\ \/ Readable(file) /\ pc' = "on" /\ tables' = Input(file)
         \/ pc' = "undefined" /\ tables' = <<>>
  BY DEF Start, CInv
<1>2. CTypes /\ Shaped /\ (torn = FALSE => FileIsRight)
  BY DEF CInv
<1>3. file \in Seq(Records) /\ file \o out = file /\ Traced(file) /\ Framed(Input(file))
  BY <1>1, <1>2, NothingBehind DEF CTypes, Shaped
<1>4. Input(file) \in Tables
  BY <1>3, InputType
<1>5. /\ tables' \in Tables /\ Framed(tables') /\ OneTraceEach(tables')
      /\ pc' \in {"on", "undefined"}
  <2>1. CASE Readable(file) /\ pc' = "on" /\ tables' = Input(file)
    BY <1>3, <1>4, <2>1, InputNamed
  <2>2. CASE pc' = "undefined" /\ tables' = <<>>
    BY <2>2, NothingIs
  <2> QED BY <1>1, <2>1, <2>2
<1>6. CTypes'
  <2>1. Zero \in [Places -> Nat]
    BY DEF Zero
  <2> QED BY <1>1, <1>2, <1>5, <2>1 DEF CTypes
<1>7. Shaped'
  BY <1>1, <1>2, <1>5 DEF Shaped
<1>8. torn' = FALSE => FileIsRight'
  BY <1>1, <1>2 DEF FileIsRight
<1>9. ASSUME pc' = "on" PROVE RunIsRight'
  <2>1. tables' = Input(file)
    BY <1>1, <1>9
  <2>2. PICK t \in Tables : t = Input(file) /\ Fresh(t)
    BY <1>3, <1>4, InputFresh
  <2>3. \A p \in Places : Zero[p] = 0
    BY DEF Zero
  <2>4. Counted(t, Zero, Zero)
    <3>1. \A p, i, j, k : Is(t, p, i, j, k) => Ent(t, i, j, k).count = 0
      BY <2>2 DEF Fresh, Is, Ent
    <3> QED BY <2>3, <3>1 DEF Counted
  <2>5. CountsAdd(t)
    BY <2>2, FreshAdds
  <2>6. ASSUME torn = FALSE PROVE Owed(t, ledger, Zero) /\ PrevsCover(t)
    <3>1. Kept(t, ledger) /\ PrevsCover(t)
      BY <1>2, <2>2, <2>6 DEF FileIsRight
    <3>2. \A p \in Places : ledger[p].abort + Zero[p] = ledger[p].abort
      <4>1. \A p \in Places : ledger[p].abort \in Nat
        BY <1>2 DEF CTypes, Ledgers
      <4> QED BY <2>3, <4>1
    <3> QED BY <3>1, <3>2 DEF Kept, Owed
  <2>7. (suspect = FALSE => Owed(tables, ledger, charged) /\ PrevsCover(tables))'
    BY <1>1, <2>1, <2>2, <2>6
  <2>8. (Counted(tables, seen, charged) /\ CountsAdd(tables))'
    BY <1>1, <2>1, <2>2, <2>4, <2>5
  <2> QED BY <2>7, <2>8 DEF RunIsRight
<1> QED BY <1>1, <1>5, <1>6, <1>7, <1>8, <1>9 DEF CInv

(* A call keeps what the tables know of every place. *)
LEMMA CallKeeps ==
    ASSUME NEW t \in Tables, NEW p \in Places, NEW u, NEW d \in {0, 1}, Called(t, p, u, d),
           NEW g \in Ledgers,
           NEW s \in [Places -> Nat], NEW c \in [Places -> Nat], Counted(t, s, c),
           NEW s2 \in [Places -> Nat], NEW c2 \in [Places -> Nat],
           s2[p] = s[p] + 1, c2[p] = c[p] + d,
           \A q \in Places : q # p => s2[q] = s[q] /\ c2[q] = c[q]
    PROVE  /\ Counted(u, s2, c2)
           /\ Owed(t, g, c) => Owed(u, g, c2)
<1>1. ASSUME NEW q \in Places, q # p
      PROVE  /\ \A i, j, k : Is(u, q, i, j, k) => Ent(u, i, j, k).count = s2[q]
             /\ ~Has(u, q) => s2[q] = 0 /\ c2[q] = 0
             /\ Owed(t, g, c) =>
                  /\ \A i, j, k : Is(u, q, i, j, k) =>
                       /\ Ent(u, i, j, k).prev = g[q].count
                       /\ Ent(u, i, j, k).abort = g[q].abort + c2[q]
                  /\ ~Has(u, q) => g[q].count = 0 /\ g[q].abort = 0
  <2>1. /\ \A i, j, k : Is(u, q, i, j, k) =>
                            Is(t, q, i, j, k) /\ Ent(u, i, j, k) = Ent(t, i, j, k)
        /\ \A i, j, k : Is(t, q, i, j, k) => Is(u, q, i, j, k)
    BY <1>1 DEF Called
  <2>2. ~Has(u, q) => ~Has(t, q)
    BY <2>1 DEF Has
  <2>3. s2[q] = s[q] /\ c2[q] = c[q]
    BY <1>1
  <2>4. /\ \A i, j, k : Is(u, q, i, j, k) => Ent(u, i, j, k).count = s2[q]
        /\ ~Has(u, q) => s2[q] = 0 /\ c2[q] = 0
    BY <2>1, <2>2, <2>3 DEF Counted
  <2>5. ASSUME Owed(t, g, c)
        PROVE  /\ \A i, j, k : Is(u, q, i, j, k) =>
                     /\ Ent(u, i, j, k).prev = g[q].count
                     /\ Ent(u, i, j, k).abort = g[q].abort + c2[q]
               /\ ~Has(u, q) => g[q].count = 0 /\ g[q].abort = 0
    BY <2>1, <2>2, <2>3, <2>5 DEF Owed
  <2> QED BY <2>4, <2>5
<1>2. Has(u, p)
  BY DEF Called
<1>3. ASSUME NEW i, NEW j, NEW k, Is(u, p, i, j, k)
      PROVE  /\ Ent(u, i, j, k).count = s2[p]
             /\ Owed(t, g, c) => /\ Ent(u, i, j, k).prev = g[p].count
                                 /\ Ent(u, i, j, k).abort = g[p].abort + c2[p]
  <2>1. PICK x, y : x = Ent(u, i, j, k) /\ y = Ent(t, i, j, k)
    OBVIOUS
  <2>2. g[p].abort \in Nat /\ c[p] \in Nat
    BY DEF Ledgers
  <2>3. CASE /\ Is(t, p, i, j, k) /\ x.count = y.count + 1 /\ x.prev = y.prev
             /\ x.abort = y.abort + d
    <3>1. y.count = s[p]
      BY <2>1, <2>3 DEF Counted
    <3>2. Owed(t, g, c) => y.prev = g[p].count /\ y.abort = g[p].abort + c[p]
      BY <2>1, <2>3 DEF Owed
    <3>3. (g[p].abort + c[p]) + d = g[p].abort + (c[p] + d)
      BY <2>2
    <3> QED BY <2>1, <2>3, <3>1, <3>2, <3>3
  <2>4. CASE ~Has(t, p) /\ x.count = 1 /\ x.prev = 0 /\ x.abort = d
    <3>1. s[p] = 0 /\ c[p] = 0
      BY <2>4 DEF Counted
    <3>2. s2[p] = 1 /\ c2[p] = d
      BY <3>1
    <3>3. Owed(t, g, c) => g[p].count = 0 /\ g[p].abort = 0
      BY <2>4 DEF Owed
    <3>4. 0 + d = d
      OBVIOUS
    <3> QED BY <2>1, <2>4, <3>2, <3>3, <3>4
  <2> QED BY <1>3, <2>1, <2>3, <2>4 DEF Called
<1> QED BY <1>1, <1>2, <1>3 DEF Counted, Owed

LEMMA CCall == ASSUME NEW p \in Places PROVE CInv /\ Call(p) => CInv'
<1> SUFFICES ASSUME CInv, Call(p) PROVE CInv'
  OBVIOUS
<1>1. /\ pc = "on" /\ ~Overflows(p) /\ seen' = [seen EXCEPT ![p] = @ + 1]
      /\ \/ /\ abortflag' = 1 /\ tables' = Charge(CountFile(tables, p), p)
            /\ charged' = [charged EXCEPT ![p] = @ + 1]
         \/ /\ tables' = CountFile(tables, p) /\ abortflag' = abortflag
            /\ charged' = charged
      /\ pc' = pc /\ again' = again /\ env' = env /\ pmemwrap_abort' = pmemwrap_abort
      /\ file' = file /\ out' = out /\ ledger' = ledger /\ torn' = torn
      /\ suspect' = suspect /\ lost' = lost
  BY DEF Call
<1>2. CTypes /\ Shaped /\ (torn = FALSE => FileIsRight) /\ RunIsRight /\ out = <<>>
  BY <1>1 DEF CInv
<1>3. Room(tables, p)
  BY <1>1 DEF Overflows, Room
<1>4. tables \in Tables /\ Framed(tables) /\ OneTraceEach(tables)
  BY <1>2 DEF CTypes, Shaped
<1>5. PICK d \in {0, 1} : /\ Called(tables, p, tables', d)
                          /\ charged' \in [Places -> Nat] /\ charged'[p] = charged[p] + d
                          /\ \A q \in Places : q # p => charged'[q] = charged[q]
                          /\ abortflag' \in {0, 1}
  <2>0. charged \in [Places -> Nat] /\ abortflag \in {0, 1} /\ charged[p] \in Nat
    BY <1>2 DEF CTypes
  <2>1. CASE /\ abortflag' = 1 /\ tables' = Charge(CountFile(tables, p), p)
             /\ charged' = [charged EXCEPT ![p] = @ + 1]
    <3>1. Called(tables, p, tables', 1)
      BY <1>3, <1>4, <2>1, CallIs
    <3> QED BY <2>0, <2>1, <3>1
  <2>2. CASE /\ tables' = CountFile(tables, p) /\ abortflag' = abortflag
             /\ charged' = charged
    <3>1. Called(tables, p, tables', 0)
      BY <1>3, <1>4, <2>2, CallIs
    <3>2. charged'[p] = charged[p] + 0
      BY <2>0, <2>2
    <3> QED BY <2>0, <2>2, <3>1, <3>2
  <2> QED BY <1>1, <2>1, <2>2
<1>6. /\ seen' \in [Places -> Nat] /\ seen'[p] = seen[p] + 1
      /\ \A q \in Places : q # p => seen'[q] = seen[q]
  BY <1>1, <1>2 DEF CTypes
<1>7. tables' \in Tables /\ Framed(tables') /\ OneTraceEach(tables')
  BY <1>5 DEF Called
<1>8. CTypes'
  BY <1>1, <1>2, <1>5, <1>6, <1>7 DEF CTypes
<1>9. Shaped'
  BY <1>1, <1>2, <1>7 DEF Shaped
<1>10. torn' = FALSE => FileIsRight'
  BY <1>1, <1>2 DEF FileIsRight
<1>11. RunIsRight'
  <2>1. /\ seen \in [Places -> Nat] /\ charged \in [Places -> Nat] /\ ledger \in Ledgers
        /\ Counted(tables, seen, charged) /\ CountsAdd(tables)
        /\ suspect = FALSE => Owed(tables, ledger, charged) /\ PrevsCover(tables)
    BY <1>2 DEF CTypes, RunIsRight
  <2>2. \A q \in Places : q # p => seen'[q] = seen[q] /\ charged'[q] = charged[q]
    BY <1>5, <1>6
  <2>3. /\ Counted(tables', seen', charged')
        /\ Owed(tables, ledger, charged) => Owed(tables', ledger, charged')
    BY <1>4, <1>5, <1>6, <2>1, <2>2, CallKeeps
  <2>4. CountsAdd(tables') /\ (PrevsCover(tables) => PrevsCover(tables'))
    BY <1>5, <2>1 DEF Called
  <2> QED BY <1>1, <2>1, <2>3, <2>4 DEF RunIsRight
<1> QED BY <1>1, <1>2, <1>8, <1>9, <1>10, <1>11 DEF CInv

-----------------------------------------------------------------------------
(* The file as it stands, whatever is still to be written. *)
LEMMA FileShaped ==
    ASSUME CTypes, Shaped
    PROVE  Framed(Input(file)) /\ Traced(file) /\ file \o <<>> = file
<1>1. file \in Seq(Records) /\ out \in Seq(Records) /\ file \o out \in Seq(Records)
  BY DEF CTypes
<1>2. Traced(file)
  BY <1>1, TracedPrefix DEF Shaped
<1>3. Extends(Input(file), Input(file \o out))
  BY <1>1, InputExtends
<1>4. Framed(Input(file))
  BY <1>1, <1>3, InputType, FramedPrefix DEF Shaped
<1> QED BY <1>1, <1>2, <1>4, NothingBehind

LEMMA CGone ==
    ASSUME CInv, Gone, file' = file,
           ledger' \in Ledgers, torn' \in BOOLEAN, torn' = FALSE => FileIsRight'
    PROVE  CInv'
<1>1. /\ pc' = "off" /\ again' = FALSE /\ env' = "YES" /\ pmemwrap_abort' = 0
      /\ abortflag' = 0 /\ tables' = <<>> /\ out' = <<>> /\ seen' = Zero /\ charged' = Zero
      /\ suspect' = FALSE /\ lost' = FALSE
  BY DEF Gone
<1>2. Framed(Input(file)) /\ Traced(file) /\ file \o <<>> = file
  BY FileShaped DEF CInv
<1>3. <<>> \in Tables /\ Framed(<<>>) /\ OneTraceEach(<<>>)
  BY NothingIs
<1>4. CTypes'
  <2>1. Zero \in [Places -> Nat]
    BY DEF Zero
  <2>2. <<>> \in Seq(Records)
    OBVIOUS
  <2>3. file \in Seq(Records)
    BY DEF CInv, CTypes
  <2> QED BY <1>1, <1>3, <2>1, <2>2, <2>3 DEF CTypes
<1>5. Shaped'
  BY <1>1, <1>2, <1>3 DEF Shaped
<1> QED BY <1>1, <1>4, <1>5 DEF CInv

LEMMA CEnds == ASSUME NEW b \in BOOLEAN PROVE CInv /\ Ends(b) => CInv'
<1> SUFFICES ASSUME CInv, Ends(b) PROVE CInv'
  OBVIOUS
<1>1. /\ pc = "on" /\ pc' = "ending" /\ again' = b /\ env' = env
      /\ pmemwrap_abort' = pmemwrap_abort /\ abortflag' = abortflag /\ tables' = tables
      /\ out' = out /\ file' = file /\ seen' = seen /\ charged' = charged
      /\ ledger' = ledger /\ torn' = torn /\ suspect' = suspect /\ lost' = lost
  BY DEF Ends, history
<1>2. CTypes'
  BY <1>1 DEF CInv, CTypes
<1>3. Shaped'
  BY <1>1 DEF CInv, Shaped
<1>4. (torn' = FALSE => FileIsRight') /\ RunIsRight'
  BY <1>1 DEF CInv, FileIsRight, RunIsRight
<1> QED BY <1>1, <1>2, <1>3, <1>4 DEF CInv

-----------------------------------------------------------------------------
(* The steps of the writing. *)

LEMMA CTruncate == CInv /\ Truncate => CInv'
<1> SUFFICES ASSUME CInv, Truncate PROVE CInv'
  OBVIOUS
<1>0. ledger' = ledger /\ pc = "ending" /\ CTypes /\ Shaped
  BY DEF Truncate, CInv
<1>1. CASE env = "NO" /\ Gone /\ file' = file /\ torn' = torn
  <2>1. /\ ledger' \in Ledgers /\ torn' \in BOOLEAN
        /\ torn' = FALSE => FileIsRight'
    BY <1>0, <1>1 DEF CInv, CTypes, FileIsRight
  <2> QED BY <1>1, <2>1, CGone
<1>2. CASE /\ env # "NO" /\ pc' = "writing" /\ out' = Output(tables) /\ file' = <<>>
           /\ torn' = TRUE /\ lost' = FALSE /\ again' = again /\ env' = env
           /\ pmemwrap_abort' = pmemwrap_abort /\ abortflag' = abortflag
           /\ tables' = tables /\ seen' = seen /\ charged' = charged /\ suspect' = suspect
  <2>1. tables \in Tables /\ Framed(tables) /\ OneTraceEach(tables)
    BY <1>0 DEF CTypes, Shaped
  <2>2. Wrote(Output(tables), Merged(env, tables))
    BY <2>1, WroteOutput
  <2>3. /\ out' \in Seq(Records) /\ Traced(out') /\ Input(out') = Merged(env, tables)
    BY <1>2, <2>2 DEF Wrote
  <2>4. Framed(Merged(env, tables))
    BY <2>1, MergedIs
  <2>5. file' \o out' = out' /\ file' \in Seq(Records)
    BY <1>2, <2>3, NothingBehind
  <2>6. CTypes'
    BY <1>0, <1>2, <2>3, <2>5 DEF CTypes
  <2>7. Shaped'
    BY <1>2, <2>1, <2>3, <2>4, <2>5 DEF Shaped
  <2>8. RunIsRight'
    BY <1>0, <1>2 DEF CInv, RunIsRight
  <2>9. Input(file' \o out') = Merged(env', tables')
    BY <1>2, <2>3, <2>5
  <2> QED BY <1>2, <2>6, <2>7, <2>8, <2>9 DEF CInv
<1> QED BY <1>1, <1>2 DEF Truncate

LEMMA WrittenIs ==
    ASSUME NEW R, NEW f \in Seq(R), NEW g \in Seq(R), g # <<>>
    PROVE  /\ Head(g) \in R /\ Tail(g) \in Seq(R)
           /\ Append(f, Head(g)) \in Seq(R)
           /\ Append(f, Head(g)) \o Tail(g) = f \o g
<1>1. Head(g) \in R /\ Tail(g) \in Seq(R) /\ Append(f, Head(g)) \in Seq(R)
  OBVIOUS
<1>2. Append(f, Head(g)) \o Tail(g) = f \o g
  <2>1. PICK r, t, a, n, m : /\ r = Head(g) /\ t = Tail(g) /\ a = Append(f, r)
                            /\ n = Len(f) /\ m = Len(g)
    OBVIOUS
  <2>2. /\ n \in Nat /\ m \in Nat \ {0} /\ Len(t) = m - 1 /\ Len(a) = n + 1
        /\ t \in Seq(R) /\ a \in Seq(R) /\ r = g[1]
        /\ \A i \in 1 .. m - 1 : t[i] = g[i + 1]
        /\ \A i \in 1 .. n : a[i] = f[i]
        /\ a[n + 1] = r
    BY <1>1, <2>1
  <2>3. a \o t \in Seq(R) /\ f \o g \in Seq(R) /\ Len(a \o t) = n + m /\ Len(f \o g) = n + m
    BY <2>1, <2>2
  <2>4. ASSUME NEW i \in 1 .. n + m PROVE (a \o t)[i] = (f \o g)[i]
    <3>1. CASE i <= n
      BY <2>1, <2>2, <3>1
    <3>2. CASE i = n + 1
      BY <2>1, <2>2, <3>2
    <3>3. CASE i > n + 1
      <4>1. PICK k \in 1 .. m - 1 : i = n + 1 + k
        BY <2>2, <3>3
      <4>2. (a \o t)[i] = t[k] /\ (f \o g)[i] = g[k + 1]
        BY <2>1, <2>2, <4>1
      <4> QED BY <2>2, <4>2
    <3>4. n \in Nat /\ i \in Int
      BY <2>2
    <3>5. i <= n \/ i = n + 1 \/ i > n + 1
      BY <3>4
    <3> QED BY <3>1, <3>2, <3>3, <3>5
  <2>5. a \o t = f \o g
    BY <2>3, <2>4
  <2> QED BY <2>1, <2>5
<1> QED BY <1>1, <1>2

LEMMA CWrite == CInv /\ Write => CInv'
<1> SUFFICES ASSUME CInv, Write PROVE CInv'
  OBVIOUS
<1>1. /\ pc = "writing" /\ out # <<>> /\ file' = Append(file, Head(out))
      /\ out' = Tail(out) /\ pc' = pc /\ again' = again /\ env' = env
      /\ pmemwrap_abort' = pmemwrap_abort /\ abortflag' = abortflag /\ tables' = tables
      /\ seen' = seen /\ charged' = charged /\ ledger' = ledger /\ torn' = torn
      /\ suspect' = suspect /\ lost' = lost
  BY DEF Write, history
<1>2. CTypes /\ Shaped /\ RunIsRight /\ torn = TRUE
      /\ (lost = FALSE => Input(file \o out) = Merged(env, tables))
  BY <1>1 DEF CInv
<1>3. file' \in Seq(Records) /\ out' \in Seq(Records) /\ file' \o out' = file \o out
  BY <1>1, <1>2, WrittenIs DEF CTypes
<1>4. CTypes'
  BY <1>1, <1>2, <1>3 DEF CTypes
<1>5. Shaped'
  BY <1>1, <1>2, <1>3 DEF Shaped
<1>6. RunIsRight'
  BY <1>1, <1>2 DEF RunIsRight
<1> QED BY <1>1, <1>2, <1>3, <1>4, <1>5, <1>6 DEF CInv

LEMMA CExitOne ==
    ASSUME CInv, pc \in {"ending", "writing"}, ExitOne,
           file' = file, ledger' = ledger, torn' = torn
    PROVE  CInv'
<1>1. CASE Gone
  <2>1. /\ ledger' \in Ledgers /\ torn' \in BOOLEAN
        /\ torn' = FALSE => FileIsRight'
    BY DEF CInv, CTypes, FileIsRight
  <2> QED BY <1>1, <2>1, CGone
<1>2. CASE /\ pc' = "ending" /\ again' = FALSE /\ out' = <<>> /\ env' = env
           /\ pmemwrap_abort' = pmemwrap_abort /\ abortflag' = abortflag
           /\ tables' = tables /\ seen' = seen /\ charged' = charged
           /\ suspect' = suspect /\ lost' = lost
  <2>1. CTypes /\ Shaped /\ RunIsRight /\ (torn = FALSE => FileIsRight)
    BY DEF CInv
  <2>2. Framed(Input(file)) /\ Traced(file) /\ file \o <<>> = file
    BY <2>1, FileShaped
  <2>3. <<>> \in Seq(Records)
    OBVIOUS
  <2>4. CTypes'
    BY <1>2, <2>1, <2>3 DEF CTypes
  <2>5. Shaped'
    BY <1>2, <2>1, <2>2 DEF Shaped
  <2>6. RunIsRight' /\ (torn' = FALSE => FileIsRight')
    BY <1>2, <2>1 DEF RunIsRight, FileIsRight
  <2> QED BY <1>2, <2>4, <2>5, <2>6 DEF CInv
<1> QED BY <1>1, <1>2 DEF ExitOne

LEMMA CWriteIsLost == CInv /\ WriteIsLost => CInv'
<1> SUFFICES ASSUME CInv, WriteIsLost PROVE CInv'
  OBVIOUS
<1>1. /\ pc = "writing" /\ out # <<>> /\ ~Checked(Head(out)) /\ file' = file
      /\ out' = Tail(out) /\ pc' = pc /\ again' = again /\ env' = env
      /\ pmemwrap_abort' = pmemwrap_abort /\ abortflag' = abortflag /\ tables' = tables
      /\ seen' = seen /\ charged' = charged /\ ledger' = ledger /\ torn' = torn
      /\ suspect' = suspect /\ lost' = TRUE
  BY DEF WriteIsLost
<1>2. CTypes /\ Shaped /\ RunIsRight /\ torn = TRUE
  BY <1>1 DEF CInv
<1>3. file \in Seq(Records) /\ out \in Seq(Records)
  BY <1>2 DEF CTypes
<1>4. PICK x, g : x = Head(out) /\ g = Tail(out)
  OBVIOUS
<1>5. /\ x \in Records /\ g \in Seq(Records) /\ Append(file, x) \in Seq(Records)
      /\ Append(file, x) \o g = file \o out /\ ~Checked(x)
  BY <1>1, <1>3, <1>4, WrittenIs
<1>6. Alike(Input(file \o g), Input(file \o out))
  BY <1>3, <1>5, InputWithout
<1>7. Framed(Input(file \o g))
  <2>1. Input(file \o g) \in Tables /\ Input(file \o out) \in Tables
    <3>1. file \o g \in Seq(Records) /\ file \o out \in Seq(Records)
      BY <1>3, <1>5
    <3> QED BY <3>1, InputType
  <2> QED BY <1>2, <1>6, <2>1, FramedPrefix DEF Alike, Shaped
<1>8. Traced(file \o g)
  <2>1. Traced(Append(file, x) \o g)
    BY <1>2, <1>5 DEF Shaped
  <2> QED BY <1>3, <1>5, <2>1, TracedWithout
<1>9. CTypes'
  BY <1>1, <1>2, <1>4, <1>5 DEF CTypes
<1>10. Shaped'
  BY <1>1, <1>2, <1>4, <1>7, <1>8 DEF Shaped
<1>11. RunIsRight'
  BY <1>1, <1>2 DEF RunIsRight
<1> QED BY <1>1, <1>2, <1>9, <1>10, <1>11 DEF CInv

(* What is written is what the ledger says, for every mode of writing. *)
LEMMA LedgerKept ==
    ASSUME NEW t \in Tables, Framed(t), NEW g \in Ledgers, NEW h, NEW e,
           NEW s \in [Places -> Nat], NEW c \in [Places -> Nat], Counted(t, s, c),
           e = "ADD" => Owed(t, g, c),
           h = [p \in Places |->
                   IF e = "ADD"
                   THEN [count |-> IF s[p] > g[p].count THEN s[p] ELSE g[p].count,
                         abort |-> g[p].abort + c[p]]
                   ELSE [count |-> s[p], abort |-> 0]]
    PROVE  h \in Ledgers /\ Kept(Merged(e, t), h)
<1>1. ASSUME NEW p \in Places
      PROVE  /\ h[p] \in [count : Nat, abort : Nat]
             /\ h[p].count = IF e = "ADD" THEN IF s[p] > g[p].count THEN s[p]
                                               ELSE g[p].count
                             ELSE s[p]
             /\ h[p].abort = IF e = "ADD" THEN g[p].abort + c[p] ELSE 0
             /\ s[p] \in Nat /\ c[p] \in Nat /\ g[p].count \in Nat /\ g[p].abort \in Nat
  <2>1. s[p] \in Nat /\ c[p] \in Nat /\ g[p].count \in Nat /\ g[p].abort \in Nat
    BY DEF Ledgers
  <2>2. PICK n, a : /\ n = IF e = "ADD" THEN IF s[p] > g[p].count THEN s[p]
                                             ELSE g[p].count
                           ELSE s[p]
                    /\ a = IF e = "ADD" THEN g[p].abort + c[p] ELSE 0
    OBVIOUS
  <2>3. n \in Nat /\ a \in Nat
    BY <2>1, <2>2
  <2>4. h[p] = [count |-> n, abort |-> a]
    BY <2>2
  <2> QED BY <2>1, <2>2, <2>3, <2>4
<1>2. h \in Ledgers
  BY <1>1 DEF Ledgers
<1>3. PICK m : m = Merged(e, t)
  OBVIOUS
<1>4. /\ \A q, a, b, d : Is(m, q, a, b, d) <=> Is(t, q, a, b, d)
      /\ \A q, a, b, d : Is(t, q, a, b, d) =>
           /\ Ent(m, a, b, d).prev = CountOf(e, Ent(t, a, b, d))
           /\ Ent(m, a, b, d).abort = AbortOf(e, Ent(t, a, b, d).abort)
  BY <1>3, MergedIs
<1>5. ASSUME NEW p \in Places, NEW i, NEW j, NEW k, Is(m, p, i, j, k)
      PROVE  Ent(m, i, j, k).prev = h[p].count /\ Ent(m, i, j, k).abort = h[p].abort
  <2>1. PICK x : x = Ent(t, i, j, k)
    OBVIOUS
  <2>2. /\ Is(t, p, i, j, k) /\ Ent(m, i, j, k).prev = CountOf(e, x)
        /\ Ent(m, i, j, k).abort = AbortOf(e, x.abort)
    BY <1>4, <1>5, <2>1
  <2>3. x.count = s[p]
    BY <2>1, <2>2 DEF Counted
  <2>4. e = "ADD" => x.prev = g[p].count /\ x.abort = g[p].abort + c[p]
    BY <2>1, <2>2 DEF Owed
  <2>5. CASE e = "ADD"
    <3>1. CountOf(e, x) = IF s[p] > g[p].count THEN s[p] ELSE g[p].count
      BY <2>3, <2>4, <2>5 DEF CountOf, larger_count
    <3>2. AbortOf(e, x.abort) = g[p].abort + c[p]
      BY <2>4, <2>5 DEF AbortOf
    <3> QED BY <1>1, <2>2, <2>5, <3>1, <3>2
  <2>6. CASE e # "ADD"
    BY <1>1, <2>2, <2>3, <2>6 DEF CountOf, AbortOf
  <2> QED BY <2>5, <2>6
<1>6. ASSUME NEW p \in Places, ~Has(m, p)
      PROVE  h[p].count = 0 /\ h[p].abort = 0
  <2>1. ~Has(t, p)
    BY <1>4, <1>6 DEF Has
  <2>2. s[p] = 0 /\ c[p] = 0 /\ (e = "ADD" => g[p].count = 0 /\ g[p].abort = 0)
    BY <2>1 DEF Counted, Owed
  <2> QED BY <1>1, <2>2
<1> QED BY <1>2, <1>3, <1>5, <1>6 DEF Kept

LEMMA CWriteEnds == CInv /\ WriteEnds => CInv'
<1> SUFFICES ASSUME CInv, WriteEnds PROVE CInv'
  OBVIOUS
<1>1. /\ pc = "writing" /\ out = <<>> /\ torn' = (lost \/ (suspect /\ env = "ADD"))
      /\ ledger' = [p \in Places |->
            IF env = "ADD"
            THEN [count |-> IF seen[p] > ledger[p].count THEN seen[p]
                            ELSE ledger[p].count,
                  abort |-> ledger[p].abort + charged[p]]
            ELSE [count |-> seen[p], abort |-> 0]]
      /\ Gone /\ file' = file
  BY DEF WriteEnds
<1>2. /\ CTypes /\ Shaped /\ RunIsRight
      /\ lost = FALSE => Input(file \o out) = Merged(env, tables)
  BY <1>1 DEF CInv
<1>3. /\ tables \in Tables /\ Framed(tables) /\ ledger \in Ledgers
      /\ seen \in [Places -> Nat] /\ charged \in [Places -> Nat]
      /\ Counted(tables, seen, charged) /\ CountsAdd(tables)
      /\ suspect = FALSE => Owed(tables, ledger, charged) /\ PrevsCover(tables)
      /\ lost \in BOOLEAN /\ suspect \in BOOLEAN
  BY <1>2 DEF CTypes, Shaped, RunIsRight
<1>4. file \o out = file
  BY <1>1, <1>2, FileShaped
<1>5. ledger' \in Ledgers
  <2>1. ASSUME NEW p \in Places
        PROVE  /\ seen[p] \in Nat /\ charged[p] \in Nat /\ ledger[p].count \in Nat
               /\ ledger[p].abort \in Nat
    BY <1>3 DEF Ledgers
  <2>2. ASSUME NEW p \in Places PROVE ledger'[p] \in [count : Nat, abort : Nat]
    <3>1. CASE env = "ADD"
      <4>1. PICK n, a : /\ n = IF seen[p] > ledger[p].count THEN seen[p]
                               ELSE ledger[p].count
                        /\ a = ledger[p].abort + charged[p]
        OBVIOUS
      <4>2. n \in Nat /\ a \in Nat
        BY <2>1, <4>1
      <4>3. ledger'[p] = [count |-> n, abort |-> a]
        BY <1>1, <3>1, <4>1
      <4> QED BY <4>2, <4>3
    <3>2. CASE env # "ADD"
      <4>1. ledger'[p] = [count |-> seen[p], abort |-> 0]
        BY <1>1, <3>2
      <4> QED BY <2>1, <4>1
    <3> QED BY <3>1, <3>2
  <2> QED BY <1>1, <2>2 DEF Ledgers
<1>6. ASSUME torn' = FALSE PROVE FileIsRight'
  <2>1. lost = FALSE /\ (env = "ADD" => suspect = FALSE)
    BY <1>1, <1>3, <1>6
  <2>2. Input(file) = Merged(env, tables)
    BY <1>2, <1>4, <2>1
  <2>3. env = "ADD" => Owed(tables, ledger, charged) /\ PrevsCover(tables)
    BY <1>3, <2>1
  <2>4. PICK h : h = ledger'
    OBVIOUS
  <2>5. Kept(Merged(env, tables), h)
    BY <1>1, <1>3, <2>3, <2>4, LedgerKept
  <2>6. PrevsCover(Merged(env, tables)) /\ AbortsAdd(Merged(env, tables))
    BY <1>3, <2>3, MergedCovers
  <2> QED BY <1>1, <2>2, <2>4, <2>5, <2>6 DEF FileIsRight
<1>7. torn' \in BOOLEAN
  BY <1>1, <1>3
<1> QED BY <1>1, <1>5, <1>6, <1>7, CGone

LEMMA CKill == CInv /\ Kill => CInv'
<1> SUFFICES ASSUME CInv, Kill PROVE CInv'
  OBVIOUS
<1>1. Gone /\ file' = file /\ ledger' = ledger /\ torn' = torn
  BY DEF Kill
<1>2. /\ ledger' \in Ledgers /\ torn' \in BOOLEAN
      /\ torn' = FALSE => FileIsRight'
  BY <1>1 DEF CInv, CTypes, FileIsRight
<1> QED BY <1>1, <1>2, CGone

LEMMA CUnchanged == CInv /\ UNCHANGED cvars => CInv'
<1> SUFFICES ASSUME CInv, UNCHANGED cvars PROVE CInv'
  OBVIOUS
<1>1. /\ pc' = pc /\ again' = again /\ env' = env /\ pmemwrap_abort' = pmemwrap_abort
      /\ abortflag' = abortflag /\ tables' = tables /\ out' = out /\ file' = file
      /\ seen' = seen /\ charged' = charged /\ ledger' = ledger /\ torn' = torn
      /\ suspect' = suspect /\ lost' = lost
  BY DEF cvars, process, history
<1>2. CTypes' /\ Shaped' /\ (torn' = FALSE => FileIsRight')
      /\ (pc' \in {"on", "ending", "writing"} => RunIsRight')
  BY <1>1 DEF CInv, CTypes, Shaped, FileIsRight, RunIsRight
<1> QED BY <1>1, <1>2 DEF CInv

(* The invariant is inductive: one lemma for each action. *)
LEMMA CNext == CInv /\ [Next]_cvars => CInv'
<1> SUFFICES ASSUME CInv, [Next]_cvars PROVE CInv'
  OBVIOUS
<1>1. CASE Start
  BY <1>1, CStart
<1>2. CASE End
  BY <1>2, CEnds DEF End
<1>3. CASE Truncate
  BY <1>3, CTruncate
<1>4. CASE Write
  BY <1>4, CWrite
<1>5. CASE WriteEnds
  BY <1>5, CWriteEnds
<1>6. CASE OpenFails \/ WriteFails
  <2>1. /\ pc \in {"ending", "writing"} /\ ExitOne /\ file' = file /\ ledger' = ledger
        /\ torn' = torn
    BY <1>6 DEF OpenFails, WriteFails
  <2> QED BY <2>1, CExitOne
<1>7. CASE WriteIsLost
  BY <1>7, CWriteIsLost
<1>8. CASE Kill
  BY <1>8, CKill
<1>9. CASE Finished
  BY <1>9, CUnchanged DEF Finished
<1>10. ASSUME NEW p \in Places, Call(p) PROVE CInv'
  BY <1>10, CCall
<1>11. ASSUME NEW p \in Places, Overflow(p) PROVE CInv'
  BY <1>11, CEnds DEF Overflow
<1>12. CASE UNCHANGED cvars
  BY <1>12, CUnchanged
<1> QED BY <1>1, <1>2, <1>3, <1>4, <1>5, <1>6, <1>7, <1>8, <1>9, <1>10, <1>11, <1>12 DEF Next

-----------------------------------------------------------------------------
(* The theorems. *)

(* The invariant, for every run of every length: CInv is inductive.        *)
THEOREM CountInvariant == Spec => []CInv
BY CInit, CNext, PTL DEF Spec

(* The tables hold counts and never outgrow file_list and                  *)
(* persist_line_list, also when they are read from a file that a killed    *)
(* run cut off: what a cut file holds are the first of the entries that a  *)
(* table held when it was written.                                         *)
THEOREM CountsWellTyped == Spec => []CountTypeOK
<1>1. CInv => CountTypeOK
  <2> SUFFICES ASSUME CInv PROVE CountTypeOK
    OBVIOUS
  <2>1. CTypes /\ Framed(tables)
    BY DEF CInv, Shaped
  <2>2. tables \in Tables
    BY <2>1 DEF CTypes
  <2>3. ASSUME NEW i \in DOMAIN tables, NEW j \in DOMAIN tables[i].lines
        PROVE  /\ CountsOf(tables[i].lines[j]) \in Entry
               /\ \A k \in DOMAIN tables[i].lines[j].stacks :
                      CountsOf(tables[i].lines[j].stacks[k]) \in Entry
    <3>1. PICK l \in Line : l = tables[i].lines[j] /\ l.stacks \in Seq(Stack)
      BY <2>2, LineAt
    <3>2. CountsOf(l) \in Entry
      <4>1. l.count \in Nat /\ l.prev \in Nat /\ l.abort \in Nat
        BY DEF Line
      <4> QED BY <4>1 DEF CountsOf, Entry
    <3>3. ASSUME NEW k \in DOMAIN l.stacks PROVE CountsOf(l.stacks[k]) \in Entry
      <4>1. PICK s \in Stack : s = l.stacks[k]
        BY <3>1
      <4>2. s.count \in Nat /\ s.prev \in Nat /\ s.abort \in Nat
        BY DEF Stack
      <4> QED BY <4>1, <4>2 DEF CountsOf, Entry
    <3> QED BY <3>1, <3>2, <3>3
  <2>4. /\ {again, torn, suspect, lost} \subseteq BOOLEAN
        /\ {pmemwrap_abort, abortflag} \subseteq {0, 1}
    BY <2>1 DEF CTypes
  <2>5. /\ pc \in {"off", "on", "ending", "writing", "undefined"}
        /\ env \in {"YES", "ADD", "NO"}
    BY <2>1 DEF CTypes
  <2>6. /\ Len(tables) <= MAX_FILE_LENGTH
        /\ \A i \in DOMAIN tables : Len(tables[i].lines) <= MAX_LINE_LENGTH
    BY <2>1 DEF Framed
  <2> QED BY <2>3, <2>4, <2>5, <2>6 DEF CountTypeOK
<1> QED BY <1>1, CountInvariant, PTL

(* plus_persistcount and read_persistcountfile never make a second entry   *)
(* for a file, a line or a backtrace, so the counts of a place are never   *)
(* split; a lost write does not do it either, because the writes of a file *)
(* and of a line are checked and those of a backtrace only ever drop it    *)
(* or make the file unreadable.                                            *)
THEOREM OneEntryPerPlace == Spec => []NoPlaceTwice
<1>1. CInv => NoPlaceTwice
  <2> SUFFICES ASSUME CInv PROVE NoPlaceTwice
    OBVIOUS
  <2>1. Framed(tables) /\ OneTraceEach(tables)
    BY DEF CInv, Shaped
  <2>2. \A i, j \in DOMAIN tables : tables[i].name = tables[j].name => i = j
    BY <2>1 DEF Framed
  <2>3. \A i \in DOMAIN tables : \A j, k \in DOMAIN tables[i].lines :
            tables[i].lines[j].line = tables[i].lines[k].line => j = k
    BY <2>1 DEF Framed
  <2>4. \A i \in DOMAIN tables : \A j \in DOMAIN tables[i].lines :
            \A k, m \in DOMAIN tables[i].lines[j].stacks :
                tables[i].lines[j].stacks[k].bt = tables[i].lines[j].stacks[m].bt => k = m
    BY <2>1 DEF OneTraceEach, OneStackEach
  <2> QED BY <2>2, <2>3, <2>4 DEF NoPlaceTwice, Distinct
<1> QED BY <1>1, CountInvariant, PTL

LEMMA RecordedIs ==
    ASSUME NEW p \in Places, Input(file) \in Tables
    PROVE  /\ \A x \in Recorded(p) : \E i, j, k :
                /\ Is(Input(file), p, i, j, k)
                /\ x = [count |-> Ent(Input(file), i, j, k).prev,
                        abort |-> Ent(Input(file), i, j, k).abort]
           /\ Has(Input(file), p) => Recorded(p) # {}
<1>1. PICK t \in Tables : t = Input(file)
  OBVIOUS
<1>2. PICK fs : fs = {f \in ToSet(t) : f.name = p.file}
  OBVIOUS
<1>3. PICK ls : ls = {l \in UNION {ToSet(f.lines) : f \in fs} : l.line = p.line}
  OBVIOUS
<1>4. PICK ss : ss = {s \in UNION {ToSet(l.stacks) : l \in ls} : s.bt = p.bt}
  OBVIOUS
<1>5. Recorded(p) = {[count |-> s.prev, abort |-> s.abort] : s \in ss}
  BY <1>1, <1>2, <1>3, <1>4 DEF Recorded
<1>6. ASSUME NEW x \in Recorded(p)
      PROVE  \E i, j, k : /\ Is(t, p, i, j, k)
                          /\ x = [count |-> Ent(t, i, j, k).prev,
                                  abort |-> Ent(t, i, j, k).abort]
  <2>1. PICK s \in ss : x = [count |-> s.prev, abort |-> s.abort]
    BY <1>5
  <2>2. PICK l \in ls : s \in ToSet(l.stacks) /\ s.bt = p.bt
    BY <1>4
  <2>3. PICK f \in fs : l \in ToSet(f.lines) /\ l.line = p.line
    BY <1>3
  <2>4. f \in ToSet(t) /\ f.name = p.file
    BY <1>2
  <2>5. PICK i \in DOMAIN t : t[i] = f
    BY <2>4 DEF ToSet
  <2>6. PICK j \in DOMAIN f.lines : f.lines[j] = l
    BY <2>3 DEF ToSet
  <2>7. PICK k \in DOMAIN l.stacks : l.stacks[k] = s
    BY <2>2 DEF ToSet
  <2>8. Is(t, p, i, j, k) /\ Ent(t, i, j, k) = s
    BY <2>2, <2>3, <2>4, <2>5, <2>6, <2>7 DEF Is, Ent
  <2> QED BY <2>1, <2>8
<1>7. ASSUME Has(t, p) PROVE Recorded(p) # {}
  <2>1. PICK i, j, k : Is(t, p, i, j, k)
    BY <1>7 DEF Has
  <2>2. PICK f, l, s : f = t[i] /\ l = f.lines[j] /\ s = l.stacks[k]
    OBVIOUS
  <2>3. f \in fs
    BY <1>2, <2>1, <2>2 DEF Is, ToSet
  <2>4. l \in ls
    BY <1>3, <2>1, <2>2, <2>3 DEF Is, ToSet
  <2>5. s \in ss
    BY <1>4, <2>1, <2>2, <2>4 DEF Is, ToSet
  <2> QED BY <1>5, <2>5
<1> QED BY <1>1, <1>6, <1>7

(* Whatever ended the runs in between, a countfile_plus.txt that is whole  *)
(* has of every place the most calls a completed run made since the last   *)
(* profile, and all the crashes charged to it: write_persistcountfile puts *)
(* out what read_persistcountfile took in, merged with this run, even when *)
(* the destructor writes it after a first attempt that failed.             *)
THEOREM FileKeepsLedger == Spec => []FileIsLedger
<1>1. CInv => FileIsLedger
  <2> SUFFICES ASSUME CInv, Settled, NEW p \in Places
               PROVE  \/ Recorded(p) = {ledger[p]}
                      \/ Recorded(p) = {} /\ ledger[p] = [count |-> 0, abort |-> 0]
    BY DEF FileIsLedger
  <2>1. CTypes /\ FileIsRight
    BY DEF CInv, CTypes, Settled
  <2>2. PICK t : t = Input(file)
    OBVIOUS
  <2>3. t \in Tables /\ Kept(t, ledger)
    BY <2>1, <2>2, InputType DEF CTypes, FileIsRight
  <2>4. PICK n, a : ledger[p] = [count |-> n, abort |-> a]
    BY <2>1 DEF CTypes, Ledgers
  <2>5. ledger[p].count = n /\ ledger[p].abort = a
    BY <2>4
  <2>6. \A x \in Recorded(p) : x = ledger[p]
    <3>1. ASSUME NEW x \in Recorded(p) PROVE x = ledger[p]
      <4>1. PICK i, j, k : /\ Is(t, p, i, j, k)
                           /\ x = [count |-> Ent(t, i, j, k).prev,
                                   abort |-> Ent(t, i, j, k).abort]
        BY <2>2, <2>3, RecordedIs
      <4>2. Ent(t, i, j, k).prev = n /\ Ent(t, i, j, k).abort = a
        BY <2>3, <2>5, <4>1 DEF Kept
      <4> QED BY <2>4, <4>1, <4>2
    <3> QED BY <3>1
  <2>7. CASE Has(t, p)
    <3>1. Recorded(p) # {}
      BY <2>2, <2>3, <2>7, RecordedIs
    <3> QED BY <2>6, <3>1
  <2>8. CASE ~Has(t, p)
    <3>1. n = 0 /\ a = 0
      BY <2>3, <2>5, <2>8 DEF Kept
    <3>2. Recorded(p) = {} \/ Recorded(p) = {ledger[p]}
      BY <2>6
    <3> QED BY <2>4, <3>1, <3>2
  <2> QED BY <2>7, <2>8
<1> QED BY <1>1, CountInvariant, PTL

(* write_persistcountfile keeps the counts of a line between the largest   *)
(* and the sum of those of its backtraces, and its crashes at their sum:   *)
(* a line with a backtrace that was ever called is one of those that       *)
(* read_persistcountfile counts into persist_place_sum.                    *)
THEOREM LinesAccount == Spec => []LineCountsItsStacks
<1>1. CInv => LineCountsItsStacks
  <2> SUFFICES ASSUME CInv, Settled PROVE LineCountsItsStacks
    BY DEF LineCountsItsStacks
  <2>1. FileIsRight
    BY DEF CInv, CTypes, Settled
  <2>2. PICK t : t = Input(file)
    OBVIOUS
  <2>3. ASSUME NEW i \in DOMAIN t, NEW j \in DOMAIN t[i].lines
        PROVE  LET l == t[i].lines[j] IN
               /\ \A k \in DOMAIN l.stacks : l.stacks[k].prev <= l.prev
               /\ l.prev <= Total(l.stacks, "prev")
               /\ l.abort = AbortsOf(l)
    <3>1. /\ PrevCovers(t[i].lines[j])
          /\ t[i].lines[j].abort = Total(t[i].lines[j].stacks, "abort")
      BY <2>1, <2>2 DEF FileIsRight, PrevsCover, AbortsAdd
    <3> QED BY <3>1 DEF PrevCovers, AbortsOf
  <2> QED BY <2>2, <2>3 DEF LineCountsItsStacks
<1> QED BY <1>1, CountInvariant, PTL
=============================================================================
