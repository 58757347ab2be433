-------------------------------- MODULE StoreProofs --------------------------
(* The key-value stores keep their entries: for an array of any size, keys *)
(* that fit their fields, any such commands, runs, aborted transactions,   *)
(* kills, write-backs and power failures.  A transaction is followed step  *)
(* by step towards the store T that it is to leave, which is fixed when    *)
(* the command starts.                                                     *)
EXTENDS ProgramsProofs

(* The contents of a store: a shorter key matches a longer one, so a slot  *)
(* is read up to its keylen.                                               *)
Sound(mem) ==
    /\ mem = [c \in KVstruct |-> mem[c]] /\ mem[number] \in 0 .. MAX_STORE
    /\ \A i \in Slot :
          /\ mem[key(i)] \in Seq(Nat) /\ mem[keylen(i)] \in 0 .. Len(mem[key(i)])
          /\ mem[value(i)] \in Int

Entry == [key : Seq(Nat), value : Int]

EntryAt(mem, i) == [key |-> Prefix(mem[key(i - 1)], mem[keylen(i - 1)]),
                    value |-> mem[value(i - 1)]]

LEMMA PrefixIs ==
    ASSUME NEW k \in Seq(Nat), NEW n \in 0 .. Len(k)
    PROVE  /\ Prefix(k, n) \in Seq(Nat) /\ Len(Prefix(k, n)) = n
           /\ Prefix(k, n) = SubSeq(k, 1, n)
           /\ \A i \in 1 .. n : Prefix(k, n)[i] = k[i]
<1>1. Len(k) \in Nat /\ \A i \in 1 .. n : k[i] \in Nat
  BY LenProperties, ElementOfSeq
<1>2. n \in Int /\ 1 \in Int /\ n <= Len(k) /\ n >= 0
  BY <1>1
<1>3. /\ SubSeq(k, 1, n) \in Seq(Nat)
      /\ Len(SubSeq(k, 1, n)) = IF 1 <= n THEN n - 1 + 1 ELSE 0
      /\ \A i \in 1 .. n - 1 + 1 : SubSeq(k, 1, n)[i] = k[1 + i - 1]
  BY <1>1, <1>2, SubSeqProperties
<1>4. Prefix(k, n) = SubSeq(k, 1, n)
  BY <1>2 DEF Prefix
<1>5. Len(SubSeq(k, 1, n)) = n
  BY <1>2, <1>3
<1>6. \A i \in 1 .. n : SubSeq(k, 1, n)[i] = k[i]
  BY <1>2, <1>3
<1> QED BY <1>3, <1>4, <1>5, <1>6

LEMMA OntoIs ==
    ASSUME NEW k \in Seq(Nat), NEW old \in Seq(Nat)
    PROVE  /\ Onto(k, old) \in Seq(Nat) /\ Len(k) \in 0 .. Len(Onto(k, old))
           /\ Prefix(Onto(k, old), Len(k)) = k
<1> DEFINE rest == SubSeq(old, Len(k) + 1, Len(old))
<1>1. Len(k) \in Nat /\ Len(old) \in Nat /\ \A i \in 1 .. Len(old) : old[i] \in Nat
  BY LenProperties, ElementOfSeq
<1>2. /\ Len(k) + 1 \in Int /\ Len(old) \in Int
      /\ \A i \in Len(k) + 1 .. Len(old) : old[i] \in Nat
  BY <1>1
<1>3. rest \in Seq(Nat) /\ Len(rest) \in Nat
  BY <1>2, SubSeqProperties, LenProperties
<1> HIDE DEF rest
<1> DEFINE o == k \o rest
<1>4. /\ o \in Seq(Nat) /\ Len(o) = Len(k) + Len(rest)
      /\ \A i \in 1 .. Len(k) + Len(rest) : o[i] = IF i <= Len(k) THEN k[i] ELSE rest[i - Len(k)]
  BY <1>3, ConcatProperties
<1>5. Onto(k, old) = o
  BY DEF Onto, rest
<1> HIDE DEF o
<1>6. Len(k) \in 0 .. Len(o)
  BY <1>1, <1>3, <1>4
<1>7. Prefix(o, Len(k)) \in Seq(Nat) /\ Len(Prefix(o, Len(k))) = Len(k)
      /\ \A i \in 1 .. Len(k) : Prefix(o, Len(k))[i] = o[i]
  BY <1>4, <1>6, PrefixIs
<1>8. \A i \in 1 .. Len(k) : o[i] = k[i]
  BY <1>1, <1>3, <1>4
<1>9. Prefix(o, Len(k)) = k
  BY <1>7, <1>8, SeqEqual
<1> QED BY <1>4, <1>5, <1>6, <1>9

LEMMA EntryIs ==
    ASSUME NEW mem, Sound(mem), NEW i \in 1 .. MAX_STORE
    PROVE  EntryAt(mem, i) \in Entry
<1>1. i - 1 \in Slot
  BY StoreAssumption DEF Slot
<1>2. Prefix(mem[key(i - 1)], mem[keylen(i - 1)]) \in Seq(Nat) /\ mem[value(i - 1)] \in Int
  BY <1>1, PrefixIs DEF Sound
<1> QED BY <1>2 DEF EntryAt, Entry

LEMMA ListIs ==
    ASSUME NEW mem, Sound(mem)
    PROVE  /\ List(mem) \in Seq(Entry) /\ Len(List(mem)) = mem[number]
           /\ mem[number] \in 0 .. MAX_STORE /\ MAX_STORE \in Nat
           /\ DOMAIN List(mem) = 1 .. mem[number]
           /\ \A i \in 1 .. mem[number] : List(mem)[i] = EntryAt(mem, i)
<1> DEFINE n == mem[number]
<1>1. n \in 0 .. MAX_STORE /\ MAX_STORE \in Nat
  BY StoreAssumption DEF Sound
<1>2. List(mem) = [i \in 1 .. n |-> EntryAt(mem, i)]
  BY DEF List, EntryAt
<1> HIDE DEF n
<1>3. \A i \in 1 .. n : EntryAt(mem, i) \in Entry
  BY <1>1, EntryIs
<1>4. List(mem) \in [1 .. n -> Entry]
  BY <1>2, <1>3
<1>5. List(mem) \in Seq(Entry)
  BY <1>1, <1>4, SeqDef
<1>6. DOMAIN List(mem) = 1 .. n /\ DOMAIN List(mem) = 1 .. Len(List(mem)) /\ Len(List(mem)) \in Nat
  BY <1>2, <1>5, LenProperties
<1>7. Len(List(mem)) = n
  BY <1>1, <1>6
<1> QED BY <1>1, <1>2, <1>5, <1>6, <1>7 DEF n

(* A list is known from its entries.                                       *)
LEMMA ListEqual ==
    ASSUME NEW mem, Sound(mem), NEW list \in Seq(Entry), Len(list) = mem[number],
           \A i \in 1 .. mem[number] : list[i] = EntryAt(mem, i)
    PROVE  List(mem) = list
BY ListIs, SeqEqual

(* Slots that are equal hold equal entries.                                *)
LEMMA SameEntry ==
    ASSUME NEW f, NEW g, NEW i, f[key(i - 1)] = g[key(i - 1)],
           f[keylen(i - 1)] = g[keylen(i - 1)], f[value(i - 1)] = g[value(i - 1)]
    PROVE  EntryAt(f, i) = EntryAt(g, i)
BY DEF EntryAt

-----------------------------------------------------------------------------
(* What a command makes of the slots. *)

Item(k, v) == [key |-> k, value |-> v]

(* What a write makes of a slot, and of the number.                        *)
Filled(mem, i, k, v) == [c \in KVstruct |->
    IF c = keylen(i) THEN Len(k) ELSE IF c = value(i) THEN v
    ELSE IF c = key(i) THEN Onto(k, mem[key(i)]) ELSE mem[c]]

Counted(mem, n) == [mem EXCEPT ![number] = n]

Taken(mem, i) == [c \in KVstruct |->
    IF c \in data(i) THEN mem[<<c[1], mem[number] - 1>>] ELSE mem[c]]

LEMMA FilledIs ==
    ASSUME NEW mem, Sound(mem), NEW i \in Slot, NEW k \in Seq(Nat), NEW v \in Int
    PROVE  LET f == Filled(mem, i, k, v) IN
           /\ Sound(f) /\ f[number] = mem[number]
           /\ EntryAt(f, i + 1) = Item(k, v) /\ Item(k, v) \in Entry
           /\ \A j \in 1 .. MAX_STORE : j # i + 1 => EntryAt(f, j) = EntryAt(mem, j)
<1> DEFINE f == Filled(mem, i, k, v)
<1>1. /\ f = [c \in KVstruct |-> f[c]] /\ f[number] = mem[number]
      /\ f[keylen(i)] = Len(k) /\ f[value(i)] = v /\ f[key(i)] = Onto(k, mem[key(i)])
      /\ \A j \in Slot : j # i => /\ f[keylen(j)] = mem[keylen(j)] /\ f[key(j)] = mem[key(j)]
                                  /\ f[value(j)] = mem[value(j)]
  <2>1. number \in KVstruct /\ keylen(i) \in KVstruct /\ value(i) \in KVstruct /\ key(i) \in KVstruct
    BY CellsAre
  <2>2. f[number] = mem[number]
    BY <2>1, CellsDiffer DEF Filled
  <2>3. f[keylen(i)] = Len(k) /\ f[value(i)] = v /\ f[key(i)] = Onto(k, mem[key(i)])
    BY <2>1, CellsDiffer DEF Filled
  <2>4. ASSUME NEW j \in Slot, j # i
        PROVE  f[keylen(j)] = mem[keylen(j)] /\ f[key(j)] = mem[key(j)] /\ f[value(j)] = mem[value(j)]
    BY <2>4, CellsAre, CellsDiffer DEF Filled
  <2>5. f = [c \in KVstruct |-> f[c]]
    BY DEF Filled
  <2> QED BY <2>2, <2>3, <2>4, <2>5
<1> HIDE DEF f
<1>2. /\ mem[key(i)] \in Seq(Nat) /\ Onto(k, mem[key(i)]) \in Seq(Nat)
      /\ Len(k) \in 0 .. Len(Onto(k, mem[key(i)]))
      /\ Prefix(Onto(k, mem[key(i)]), Len(k)) = k
  BY OntoIs DEF Sound
<1>3. Sound(f)
  BY <1>1, <1>2 DEF Sound
<1>4. PICK m \in Int : m = i + 1 /\ m - 1 = i
  BY DEF Slot
<1>5. EntryAt(f, i + 1) = Item(k, v)
  <2>1. EntryAt(f, m) = Item(k, v)
    BY <1>1, <1>2, <1>4, Zenon DEF EntryAt, Item
  <2> QED BY <1>4, <2>1
<1>6. ASSUME NEW j \in 1 .. MAX_STORE, j # i + 1 PROVE EntryAt(f, j) = EntryAt(mem, j)
  <2>1. j - 1 \in Slot /\ j - 1 # i
    BY <1>6, StoreAssumption DEF Slot
  <2> QED BY <1>1, <2>1, SameEntry
<1>7. Item(k, v) \in Entry
  BY DEF Item, Entry
<1> QED BY <1>1, <1>3, <1>5, <1>6, <1>7 DEF f

LEMMA CountedIs ==
    ASSUME NEW mem, Sound(mem), NEW n \in 0 .. MAX_STORE
    PROVE  LET f == Counted(mem, n) IN
           /\ Sound(f) /\ f[number] = n
           /\ \A c \in KVstruct : c # number => f[c] = mem[c]
           /\ \A j \in 1 .. MAX_STORE : EntryAt(f, j) = EntryAt(mem, j)
<1> DEFINE f == Counted(mem, n)
<1>1. /\ f = [c \in KVstruct |-> f[c]] /\ f[number] = n
      /\ \A c \in KVstruct : c # number => f[c] = mem[c]
  BY CellsAre DEF Sound, Counted
<1>2. \A i : keylen(i) # number /\ value(i) # number /\ key(i) # number
  BY CellsDiffer
<1> HIDE DEF f
<1>3. \A i \in Slot : f[keylen(i)] = mem[keylen(i)] /\ f[key(i)] = mem[key(i)]
                      /\ f[value(i)] = mem[value(i)]
  BY <1>1, <1>2, CellsAre
<1>4. Sound(f)
  BY <1>1, <1>3 DEF Sound
<1>5. ASSUME NEW j \in 1 .. MAX_STORE PROVE EntryAt(f, j) = EntryAt(mem, j)
  <2>1. j - 1 \in Slot
    BY StoreAssumption DEF Slot
  <2> QED BY <1>3, <2>1, SameEntry
<1> QED BY <1>1, <1>4, <1>5 DEF f

LEMMA TakenIs ==
    ASSUME NEW mem, Sound(mem), NEW i \in Slot, mem[number] \in 1 .. MAX_STORE
    PROVE  LET f == Taken(mem, i) IN
           /\ Sound(f) /\ f[number] = mem[number]
           /\ EntryAt(f, i + 1) = EntryAt(mem, mem[number])
           /\ \A j \in 1 .. MAX_STORE : j # i + 1 => EntryAt(f, j) = EntryAt(mem, j)
<1> DEFINE f == Taken(mem, i)
<1> DEFINE l == mem[number] - 1
<1>0. l \in Slot /\ mem[number] - 1 = l
  BY StoreAssumption DEF Slot
<1>1. /\ f = [c \in KVstruct |-> f[c]] /\ f[number] = mem[number]
      /\ f[keylen(i)] = mem[keylen(l)] /\ f[value(i)] = mem[value(l)] /\ f[key(i)] = mem[key(l)]
      /\ \A j \in Slot : j # i => /\ f[keylen(j)] = mem[keylen(j)] /\ f[key(j)] = mem[key(j)]
                                  /\ f[value(j)] = mem[value(j)]
  <2>1. number \in KVstruct /\ keylen(i) \in KVstruct /\ value(i) \in KVstruct /\ key(i) \in KVstruct
    BY CellsAre
  <2>2. f[number] = mem[number]
    BY <2>1, CellsDiffer DEF Taken, data
  <2>3. f[keylen(i)] = mem[keylen(l)] /\ f[value(i)] = mem[value(l)] /\ f[key(i)] = mem[key(l)]
    BY <2>1 DEF Taken, data, keylen, key, value
  <2>4. ASSUME NEW j \in Slot, j # i
        PROVE  f[keylen(j)] = mem[keylen(j)] /\ f[key(j)] = mem[key(j)] /\ f[value(j)] = mem[value(j)]
    BY <2>4, CellsAre, CellsDiffer DEF Taken, data
  <2>5. f = [c \in KVstruct |-> f[c]]
    BY DEF Taken
  <2> QED BY <2>2, <2>3, <2>4, <2>5
<1> HIDE DEF f
<1>3. Sound(f)
  <2> HIDE DEF l
  <2> QED BY <1>0, <1>1 DEF Sound
<1>4. PICK m \in Int : m = i + 1 /\ m - 1 = i
  BY DEF Slot
<1>5. EntryAt(f, i + 1) = EntryAt(mem, mem[number])
  <2>1. EntryAt(f, m) = EntryAt(mem, mem[number])
    BY <1>0, <1>1, <1>4, Zenon DEF EntryAt
  <2> QED BY <1>4, <2>1
<1>6. ASSUME NEW j \in 1 .. MAX_STORE, j # i + 1 PROVE EntryAt(f, j) = EntryAt(mem, j)
  <2>1. j - 1 \in Slot /\ j - 1 # i
    BY <1>6, StoreAssumption DEF Slot
  <2> QED BY <1>1, <2>1, SameEntry
<1> QED BY <1>1, <1>3, <1>5, <1>6 DEF f
-----------------------------------------------------------------------------
(* The lists these make.                                                   *)
LEMMA WrittenList ==
    ASSUME NEW mem, Sound(mem), mem[number] \in Slot, NEW k \in Seq(Nat), NEW v \in Int
    PROVE  LET f == Filled(mem, mem[number], k, v) IN
           /\ List(f) = List(mem)
           /\ List(Counted(f, mem[number] + 1)) = Append(List(mem), Item(k, v))
<1> DEFINE n == mem[number]
<1> DEFINE f == Filled(mem, n, k, v)
<1> DEFINE g == Counted(f, n + 1)
<1>1. n \in Nat /\ n + 1 \in 0 .. MAX_STORE /\ 1 .. n + 1 \subseteq 1 .. MAX_STORE
      /\ 1 .. n \subseteq 1 .. MAX_STORE
  BY StoreAssumption DEF Slot
<1>2. /\ Sound(f) /\ f[number] = n /\ EntryAt(f, n + 1) = Item(k, v) /\ Item(k, v) \in Entry
      /\ \A j \in 1 .. MAX_STORE : j # n + 1 => EntryAt(f, j) = EntryAt(mem, j)
  BY FilledIs
<1> HIDE DEF f
<1>3. Sound(g) /\ g[number] = n + 1 /\ \A j \in 1 .. MAX_STORE : EntryAt(g, j) = EntryAt(f, j)
  BY <1>1, <1>2, CountedIs
<1> HIDE DEF g
<1>4. /\ List(mem) \in Seq(Entry) /\ Len(List(mem)) = n
      /\ \A i \in 1 .. n : List(mem)[i] = EntryAt(mem, i)
  BY ListIs
<1>5. \A i \in 1 .. n : i # n + 1
  BY <1>1
<1> HIDE DEF n
<1>6. List(f) = List(mem)
  BY <1>1, <1>2, <1>4, <1>5, ListEqual
<1> DEFINE a == Append(List(mem), Item(k, v))
<1>7. /\ a \in Seq(Entry) /\ Len(a) = n + 1 /\ \A i \in 1 .. n : a[i] = EntryAt(mem, i)
      /\ a[n + 1] = Item(k, v)
  BY <1>2, <1>4, AppendProperties
<1> HIDE DEF a
<1>8. \A i \in 1 .. n + 1 : a[i] = EntryAt(g, i)
  BY <1>1, <1>2, <1>3, <1>7
<1>9. List(g) = a
  BY <1>3, <1>7, <1>8, ListEqual
<1> QED BY <1>6, <1>9 DEF a, g, f, n

LEMMA DataList ==
    ASSUME NEW mem, Sound(mem), NEW i \in Slot, NEW k \in Seq(Nat), NEW v \in Int
    PROVE  List(Filled(mem, i, k, v)) =
              IF i < Len(List(mem)) THEN [List(mem) EXCEPT ![i + 1] = Item(k, v)]
              ELSE List(mem)
<1> DEFINE n == mem[number]
<1> DEFINE f == Filled(mem, i, k, v)
<1> DEFINE l == List(mem)
<1>1. n \in 0 .. MAX_STORE /\ MAX_STORE \in Nat /\ 1 .. n \subseteq 1 .. MAX_STORE /\ i \in Nat
  BY StoreAssumption DEF Slot, Sound
<1>2. /\ Sound(f) /\ f[number] = n /\ EntryAt(f, i + 1) = Item(k, v) /\ Item(k, v) \in Entry
      /\ \A j \in 1 .. MAX_STORE : j # i + 1 => EntryAt(f, j) = EntryAt(mem, j)
  BY FilledIs
<1>3. l \in Seq(Entry) /\ Len(l) = n /\ \A j \in 1 .. n : l[j] = EntryAt(mem, j)
  BY ListIs
<1> HIDE DEF f, l, n
<1>4. CASE i < n
  <2> DEFINE e == [l EXCEPT ![i + 1] = Item(k, v)]
  <2>1. i + 1 \in 1 .. Len(l)
    BY <1>1, <1>3, <1>4
  <2>2. e \in Seq(Entry) /\ Len(e) = n
        /\ \A j \in 1 .. n : e[j] = IF j = i + 1 THEN Item(k, v) ELSE l[j]
    BY <1>2, <1>3, <2>1, ExceptSeq
  <2> HIDE DEF e
  <2>3. \A j \in 1 .. n : e[j] = EntryAt(f, j)
    BY <1>1, <1>2, <1>3, <2>2
  <2>4. List(f) = e
    BY <1>2, <2>2, <2>3, ListEqual
  <2> QED BY <1>3, <1>4, <2>4 DEF e, f, l
<1>5. CASE ~(i < n)
  <2>1. \A j \in 1 .. n : j # i + 1
    BY <1>1, <1>5
  <2>2. \A j \in 1 .. n : l[j] = EntryAt(f, j)
    BY <1>1, <1>2, <1>3, <2>1
  <2>3. List(f) = l
    BY <1>2, <1>3, <2>2, ListEqual
  <2> QED BY <1>3, <1>5, <2>3 DEF f, l
<1> QED BY <1>4, <1>5

LEMMA NumberList ==
    ASSUME NEW mem, Sound(mem), NEW n \in 0 .. mem[number]
    PROVE  /\ List(Counted(mem, n)) = SubSeq(List(mem), 1, n)
           /\ n \in 0 .. MAX_STORE
<1> DEFINE g == Counted(mem, n)
<1> DEFINE l == List(mem)
<1>1. /\ l \in Seq(Entry) /\ Len(l) = mem[number] /\ mem[number] \in 0 .. MAX_STORE
      /\ MAX_STORE \in Nat /\ \A j \in 1 .. mem[number] : l[j] = EntryAt(mem, j)
  BY ListIs
<1>2. n \in 0 .. MAX_STORE /\ n \in Int /\ 1 \in Int /\ 1 .. n \subseteq 1 .. mem[number]
      /\ 1 .. n \subseteq 1 .. MAX_STORE /\ 0 <= n
  BY <1>1
<1>3. Sound(g) /\ g[number] = n /\ \A j \in 1 .. MAX_STORE : EntryAt(g, j) = EntryAt(mem, j)
  BY <1>2, CountedIs
<1> HIDE DEF l, g
<1> DEFINE s == SubSeq(l, 1, n)
<1>4. \A j \in 1 .. n : l[j] \in Entry
  BY <1>1, <1>2, ElementOfSeq
<1>5. s \in Seq(Entry) /\ Len(s) = (IF 1 <= n THEN n - 1 + 1 ELSE 0)
      /\ \A j \in 1 .. n - 1 + 1 : s[j] = l[1 + j - 1]
  BY <1>2, <1>4, SubSeqProperties
<1> HIDE DEF s
<1>6. Len(s) = n /\ \A j \in 1 .. n : s[j] = l[j]
  BY <1>2, <1>5
<1>7. \A j \in 1 .. n : s[j] = EntryAt(g, j)
  BY <1>1, <1>2, <1>3, <1>6
<1>8. List(g) = s
  BY <1>3, <1>5, <1>6, <1>7, ListEqual
<1> QED BY <1>2, <1>8 DEF s, g, l

Removed(i, list) == SubSeq([list EXCEPT ![i] = list[Len(list)]], 1, Len(list) - 1)

LEMMA DeletedList ==
    ASSUME NEW mem, Sound(mem), NEW i \in Slot, i < mem[number]
    PROVE  /\ List(Counted(Taken(mem, i), mem[number] - 1)) = Removed(i + 1, List(mem))
           /\ i = mem[number] - 1 =>
                 List(Counted(mem, mem[number] - 1)) = Removed(i + 1, List(mem))
           /\ mem[number] \in 1 .. MAX_STORE
<1> DEFINE n == mem[number]
<1> DEFINE l == List(mem)
<1> DEFINE f == Taken(mem, i)
<1> DEFINE e == [l EXCEPT ![i + 1] = l[Len(l)]]
<1> DEFINE s == SubSeq(e, 1, n - 1)
<1>1. /\ l \in Seq(Entry) /\ Len(l) = n /\ n \in 0 .. MAX_STORE
      /\ MAX_STORE \in Nat /\ \A j \in 1 .. n : l[j] = EntryAt(mem, j)
  BY ListIs
<1>2. n \in 1 .. MAX_STORE /\ i + 1 \in 1 .. n /\ n - 1 \in 0 .. MAX_STORE
      /\ 1 .. n - 1 \subseteq 1 .. n /\ 1 .. n \subseteq 1 .. MAX_STORE /\ n \in 1 .. n
      /\ n - 1 \in Int /\ 1 \in Int /\ n - 1 \in 0 .. n
  BY <1>1 DEF Slot
<1>3. /\ Sound(f) /\ f[number] = n /\ EntryAt(f, i + 1) = EntryAt(mem, n)
      /\ \A j \in 1 .. MAX_STORE : j # i + 1 => EntryAt(f, j) = EntryAt(mem, j)
  BY <1>2, TakenIs
<1> HIDE DEF f, l, n
<1>4. l[n] \in Entry
  BY <1>1, <1>2, ElementOfSeq
<1>5. e \in Seq(Entry) /\ Len(e) = n
      /\ \A j \in 1 .. n : e[j] = IF j = i + 1 THEN l[n] ELSE l[j]
  BY <1>1, <1>2, <1>4, ExceptSeq
<1> HIDE DEF e
<1>6. \A j \in 1 .. n - 1 : e[j] \in Entry
  BY <1>2, <1>5, ElementOfSeq
<1>7. s \in Seq(Entry) /\ Len(s) = (IF 1 <= n - 1 THEN n - 1 - 1 + 1 ELSE 0)
      /\ \A j \in 1 .. n - 1 - 1 + 1 : s[j] = e[1 + j - 1]
  BY <1>2, <1>6, SubSeqProperties
<1> HIDE DEF s
<1>8. Len(s) = n - 1 /\ \A j \in 1 .. n - 1 : s[j] = e[j]
  BY <1>2, <1>7
<1>9. Removed(i + 1, l) = s
  BY <1>1 DEF Removed, s, e
<1> DEFINE g == Counted(f, n - 1)
<1>10. Sound(g) /\ g[number] = n - 1 /\ \A j \in 1 .. MAX_STORE : EntryAt(g, j) = EntryAt(f, j)
  BY <1>2, <1>3, CountedIs
<1> HIDE DEF g
<1>11. \A j \in 1 .. n - 1 : s[j] = EntryAt(g, j)
  BY <1>1, <1>2, <1>3, <1>5, <1>8, <1>10
<1>12. List(g) = s
  BY <1>7, <1>8, <1>10, <1>11, ListEqual
<1> DEFINE h == Counted(mem, n - 1)
<1>13. ASSUME i = n - 1 PROVE List(h) = s
  <2>1. Sound(h) /\ h[number] = n - 1 /\ \A j \in 1 .. MAX_STORE : EntryAt(h, j) = EntryAt(mem, j)
    BY <1>2, CountedIs
  <2> HIDE DEF h
  <2>2. \A j \in 1 .. n - 1 : j # i + 1
    BY <1>2, <1>13
  <2>3. \A j \in 1 .. n - 1 : s[j] = EntryAt(h, j)
    BY <1>1, <1>2, <1>5, <1>8, <2>1, <2>2
  <2> QED BY <1>7, <1>8, <2>1, <2>3, ListEqual
<1> QED BY <1>2, <1>9, <1>12, <1>13 DEF g, h, f, l, n

-----------------------------------------------------------------------------
(* Keys, and the effects of the commands. *)

(* A key matches a slot when it begins with the key of its entry.          *)
LEMMA MatchesIs ==
    ASSUME NEW mem, Sound(mem), NEW i \in Slot, NEW k \in Seq(Nat)
    PROVE  Matches(mem, i, k) <=>
               Promise!IsPrefix(Prefix(mem[key(i)], mem[keylen(i)]), k)
<1> DEFINE n == mem[keylen(i)]
<1> DEFINE p == Prefix(mem[key(i)], n)
<1>1. /\ mem[key(i)] \in Seq(Nat) /\ n \in 0 .. Len(mem[key(i)])
      /\ Len(mem[key(i)]) \in Nat /\ Len(k) \in Nat
  BY LenProperties DEF Sound
<1>2. p \in Seq(Nat) /\ Len(p) = n /\ n \in Nat
  BY <1>1, PrefixIs
<1> HIDE DEF p
<1>3. Matches(mem, i, k) <=> p = Prefix(k, n)
  BY DEF Matches, p
<1> HIDE DEF n
<1>4. SubSeq(p, 1, n) = p
  <2>1. n \in 0 .. Len(p)
    BY <1>2
  <2>2. /\ SubSeq(p, 1, n) \in Seq(Nat) /\ Len(SubSeq(p, 1, n)) = n
        /\ \A j \in 1 .. n : SubSeq(p, 1, n)[j] = p[j]
    BY <1>2, <2>1, PrefixIs
  <2> QED BY <1>2, <2>2, SeqEqual
<1>5. Promise!IsPrefix(p, k) <=> n <= Len(k) /\ p = SubSeq(k, 1, n)
  BY <1>2, <1>4 DEF Promise!IsPrefix
<1>6. Prefix(k, n) = IF n <= Len(k) THEN SubSeq(k, 1, n) ELSE k
  BY Zenon DEF Prefix
<1>7. p = Prefix(k, n) <=> n <= Len(k) /\ p = SubSeq(k, 1, n)
  BY <1>1, <1>2, <1>6
<1> QED BY <1>3, <1>5, <1>7 DEF p, n

LEMMA NamedIs ==
    ASSUME NEW mem, Sound(mem), NEW k \in Seq(Nat)
    PROVE  Promise!Named(k, List(mem)) = {j \in 1 .. mem[number] : j - 1 \in Found(mem, k)}
<1> DEFINE l == List(mem)
<1>1. /\ DOMAIN l = 1 .. mem[number] /\ mem[number] \in 0 .. MAX_STORE /\ MAX_STORE \in Nat
      /\ \A j \in 1 .. mem[number] : l[j] = EntryAt(mem, j)
  BY ListIs
<1> HIDE DEF l
<1>2. ASSUME NEW j \in 1 .. mem[number]
      PROVE  Promise!IsPrefix(l[j].key, k) <=> j - 1 \in Found(mem, k)
  <2>1. j - 1 \in Slot /\ j - 1 \in 0 .. mem[number] - 1
    BY <1>1 DEF Slot
  <2>2. l[j].key = Prefix(mem[key(j - 1)], mem[keylen(j - 1)])
    <3>1. l[j] = EntryAt(mem, j)
      BY <1>1
    <3>2. \A a, b : [key |-> a, value |-> b].key = a
      OBVIOUS
    <3>3. EntryAt(mem, j).key = Prefix(mem[key(j - 1)], mem[keylen(j - 1)])
      BY <3>2, Zenon DEF EntryAt
    <3> QED BY <3>1, <3>3, Zenon
  <2>3. Matches(mem, j - 1, k) <=> Promise!IsPrefix(l[j].key, k)
    BY <2>1, <2>2, MatchesIs
  <2> QED BY <2>1, <2>3 DEF Found
<1>3. Promise!Named(k, l) = {j \in 1 .. mem[number] : Promise!IsPrefix(l[j].key, k)}
  BY <1>1 DEF Promise!Named
<1> QED BY <1>2, <1>3 DEF l

LEMMA LowestIs ==
    ASSUME NEW mem, Sound(mem), NEW k \in Seq(Nat)
    PROVE  LET named == Promise!Named(k, List(mem)) IN
           /\ named = {} <=> Found(mem, k) = {}
           /\ Found(mem, k) # {} => Promise!Lowest(named) = First(mem, k) + 1
           /\ Found(mem, k) # {} => First(mem, k) \in Slot /\ First(mem, k) < mem[number]
<1> DEFINE named == Promise!Named(k, List(mem))
<1>0. mem[number] \in 0 .. MAX_STORE /\ MAX_STORE \in Nat
  BY StoreAssumption DEF Sound
<1>1. named = {j \in 1 .. mem[number] : j - 1 \in Found(mem, k)}
  BY NamedIs
<1> HIDE DEF named
<1>2. Found(mem, k) \subseteq 0 .. mem[number] - 1
  BY DEF Found
<1>3. \A i \in Found(mem, k) : i + 1 \in named
  BY <1>0, <1>1, <1>2
<1>4. named = {} <=> Found(mem, k) = {}
  BY <1>1, <1>3
<1>5. CASE Found(mem, k) # {}
  <2> DEFINE f == First(mem, k)
  <2>1. f \in Found(mem, k) /\ \A j \in Found(mem, k) : f <= j
    BY <1>0, <1>5, FoundIs
  <2> HIDE DEF f
  <2>2. f + 1 \in named /\ \A j \in named : f + 1 <= j
    BY <1>0, <1>1, <1>2, <1>3, <2>1
  <2>3. Promise!Lowest(named) \in named /\ \A j \in named : Promise!Lowest(named) <= j
    BY <2>2, Zenon DEF Promise!Lowest
  <2>4. Promise!Lowest(named) = f + 1
    BY <1>0, <1>1, <2>2, <2>3
  <2>5. f \in Slot /\ f < mem[number]
    BY <1>0, <1>2, <2>1 DEF Slot
  <2> QED BY <1>4, <1>5, <2>4, <2>5 DEF f, named
<1> QED BY <1>4, <1>5 DEF named

(* The effects of the commands.                                            *)
LEMMA EffectIs ==
    ASSUME NEW c, NEW list
    PROVE  /\ c.name \in {"read", "read_all", "read_id"} => Promise!Effect(c, list) = list
           /\ c.name = "write" =>
                 Promise!Effect(c, list) = Append(list, Item(c.key, c.value))
           /\ c.name = "delete" /\ Promise!Named(c.key, list) = {} =>
                 Promise!Effect(c, list) = list
           /\ c.name = "delete" /\ Promise!Named(c.key, list) # {} =>
                 Promise!Effect(c, list) =
                     Removed(Promise!Lowest(Promise!Named(c.key, list)), list)
           /\ c.name = "data" => Promise!Effect(c, list) =
                 IF c.id < Len(list) THEN [list EXCEPT ![c.id + 1] = Item(c.key, c.value)]
                 ELSE list
           /\ c.name = "number" => Promise!Effect(c, list) = SubSeq(list, 1, c.number)
<1>1. c.name \in {"read", "read_all", "read_id"} => Promise!Effect(c, list) = list
  BY DEF Promise!Effect
<1>2. c.name = "write" => Promise!Effect(c, list) = Append(list, Item(c.key, c.value))
  BY DEF Promise!Effect, Promise!Item, Item
<1>3. c.name = "delete" /\ Promise!Named(c.key, list) = {} => Promise!Effect(c, list) = list
  BY DEF Promise!Effect
<1>4. ASSUME c.name = "delete", Promise!Named(c.key, list) # {}
      PROVE  Promise!Effect(c, list) = Removed(Promise!Lowest(Promise!Named(c.key, list)), list)
  <2>1. Promise!Effect(c, list) =
            Promise!Without(Promise!Lowest(Promise!Named(c.key, list)), list)
    BY <1>4 DEF Promise!Effect
  <2> DEFINE i == Promise!Lowest(Promise!Named(c.key, list))
  <2>2. Promise!Without(i, list) = Promise!Front([list EXCEPT ![i] = Promise!Last(list)])
    BY DEF Promise!Without
  <2>3. Len([list EXCEPT ![i] = list[Len(list)]]) = Len(list)
    OBVIOUS
  <2> QED BY <2>1, <2>2, <2>3 DEF Promise!Front, Promise!Last, Removed
<1>5. c.name = "data" => Promise!Effect(c, list) =
          IF c.id < Len(list) THEN [list EXCEPT ![c.id + 1] = Item(c.key, c.value)] ELSE list
  BY DEF Promise!Effect, Promise!Item, Item
<1>6. c.name = "number" => Promise!Effect(c, list) = SubSeq(list, 1, c.number)
  BY DEF Promise!Effect
<1> QED BY <1>1, <1>2, <1>3, <1>4, <1>5, <1>6

-----------------------------------------------------------------------------
(* What a writer has ahead of it. *)

(* The round a writer is in: the steps s it has left up to the end of its  *)
(* transaction, the e-th, and what they make of the store, T.              *)
Ahead(s, e, T) ==
    \A j \in 1 .. e - 1 :
        \/ s[j].op = "begin" /\ j = 1
        \/ /\ s[j].op = "add" /\ (j = 1 \/ (j = 2 /\ s[1].op = "begin"))
           /\ s[j].cells # {} /\ s[j].cells \subseteq KVstruct
           /\ program # "PmemKVS3" => s[j].cells = KVstruct
        \/ s[j].op = "store" /\ \A c \in DOMAIN s[j].to : s[j].to[c] = T[c]

Stored(s, e, c) == \E j \in 1 .. e - 1 : s[j].op = "store" /\ c \in DOMAIN s[j].to

AddAhead(s, e) == \E j \in 1 .. e - 1 : s[j].op = "add"

(* Only the number, at last, and downwards.                                *)
Loosely(s, e, T, mem) == \A j \in 1 .. e - 1 : s[j].op = "store" =>
    j = e - 1 /\ DOMAIN s[j].to = {number} /\ T[number] <= mem[number]

LastRound(s, e) == Len(s) = e + 1 /\ s[e + 1].op = "close"

(* PmemKVS.c has a second transaction, which counts the slot.              *)
FirstRound(s, e, n) ==
    /\ HalfWritten /\ Len(s) = e + 5 /\ n \in 0 .. MAX_STORE
    /\ s[e + 1].op = "begin" /\ s[e + 2].op = "add" /\ s[e + 2].cells = KVstruct
    /\ s[e + 3].op = "store" /\ DOMAIN s[e + 3].to = {number} /\ s[e + 3].to[number] = n
    /\ s[e + 4].op = "end" /\ s[e + 5].op = "close"

Round(s, e, T, mem) ==
    /\ Listed(s) /\ e \in 2 .. Len(s) /\ s[1].op = "begin" /\ s[e].op = "end"
    /\ Sound(T) /\ Ahead(s, e, T)
    /\ \A c \in KVstruct : mem[c] = T[c] \/ Stored(s, e, c)
    /\ AddAhead(s, e) \/ Loosely(s, e, T, mem)
    /\ \/ LastRound(s, e) /\ List(T) = Promise!Effect(cmd, List(mem))
       \/ \E n \in 0 .. MAX_STORE :
             /\ FirstRound(s, e, n) /\ List(T) = List(mem)
             /\ List(Counted(T, n)) = Promise!Effect(cmd, List(mem))

LEMMA FilledCells ==
    ASSUME NEW mem, NEW i \in Slot, NEW k, NEW v
    PROVE  LET f == Filled(mem, i, k, v) IN
           /\ f[keylen(i)] = Len(k) /\ f[value(i)] = v /\ f[key(i)] = Onto(k, mem[key(i)])
           /\ f[number] = mem[number]
           /\ \A c \in KVstruct :
                 c = keylen(i) \/ c = value(i) \/ c = key(i) \/ f[c] = mem[c]
<1>1. number \in KVstruct /\ keylen(i) \in KVstruct /\ value(i) \in KVstruct /\ key(i) \in KVstruct
  BY CellsAre
<1> QED BY <1>1, CellsDiffer DEF Filled

LEMMA BeginsOps ==
    ASSUME NEW s, NEW C, Begins(s, C)
    PROVE  s[1].op = "begin" /\ s[2].op = "add" /\ s[2].cells = C
BY Steps DEF Begins

(* A slot is filled by steps three to five, which store what is meant.     *)
StoresSlot(s, i, T) ==
    /\ \A j \in 3 .. 5 : s[j].op = "store" /\ \A c \in DOMAIN s[j].to : s[j].to[c] = T[c]
    /\ keylen(i) \in DOMAIN s[3].to /\ value(i) \in DOMAIN s[4].to
    /\ key(i) \in DOMAIN s[5].to

LEMMA FillsOps ==
    ASSUME NEW s, NEW mem, NEW i \in Slot, NEW k, NEW v, Fills(s, mem, i, k, v),
           NEW T, \A c \in data(i) : T[c] = Filled(mem, i, k, v)[c]
    PROVE  StoresSlot(s, i, T)
<1>1. T[keylen(i)] = Len(k) /\ T[value(i)] = v /\ T[key(i)] = Onto(k, mem[key(i)])
  BY FilledCells DEF data
<1>2. /\ s[3].op = "store" /\ DOMAIN s[3].to = {keylen(i)} /\ s[3].to[keylen(i)] = Len(k)
      /\ s[4].op = "store" /\ DOMAIN s[4].to = {value(i)} /\ s[4].to[value(i)] = v
      /\ s[5].op = "store" /\ DOMAIN s[5].to = {key(i)}
      /\ s[5].to[key(i)] = Onto(k, mem[key(i)])
  BY PutIs DEF Fills
<1>3. \A j \in 3 .. 5 : j = 3 \/ j = 4 \/ j = 5
  OBVIOUS
<1> QED BY <1>1, <1>2, <1>3, Zenon DEF StoresSlot

LEMMA WriteRound ==
    ASSUME IsStore, cmd \in CommandLines, cmd.name = "write",
           NEW mem, Sound(mem), mem[number] \in Slot,
           NEW s, s = write_KVS(program, cmd, mem, mem[number])
    PROVE  \E T, e : Round(s, e, T, mem)
<1> DEFINE i == mem[number]
<1> DEFINE f == Filled(mem, i, cmd.key, cmd.value)
<1> DEFINE g == Counted(f, i + 1)
<1>1. /\ cmd.key \in Seq(Nat) /\ cmd.value \in Int /\ i + 1 \in 0 .. MAX_STORE
      /\ program \in {"PmemKVS", "PmemKVS3", "PmemKVS4"}
  BY KnownCommands, CommandsAssumption, StoreAssumption DEF Slot
<1>2. /\ Sound(f) /\ List(f) = List(mem)
      /\ List(g) = Promise!Effect(cmd, List(mem))
  <2>1. Sound(f)
    BY <1>1, FilledIs
  <2>2. List(f) = List(mem) /\ List(g) = Append(List(mem), Item(cmd.key, cmd.value))
    BY <1>1, WrittenList
  <2>3. Promise!Effect(cmd, List(mem)) = Append(List(mem), Item(cmd.key, cmd.value))
    BY EffectIs
  <2> QED BY <2>1, <2>2, <2>3
<1>3. Sound(g) /\ g[number] = i + 1 /\ \A c \in KVstruct : c # number => g[c] = f[c]
  BY <1>1, <1>2, CountedIs
<1>4. \A c \in KVstruct : c = keylen(i) \/ c = value(i) \/ c = key(i) \/ f[c] = mem[c]
  BY FilledCells
<1>5. \A c \in data(i) : c \in KVstruct /\ c # number /\ g[c] = f[c]
  BY <1>3, CellsAre, CellsDiffer DEF data
<1>6. /\ KVstruct # {} /\ {keylen(0), value(0)} # {}
      /\ {keylen(0), value(0)} \subseteq KVstruct
  BY CellsAre, StoreAssumption DEF Slot
<1>7. ASSUME program = "PmemKVS" PROVE Round(s, 6, f, mem)
  <2>1. s = PmemKVS_write(mem, i, cmd.key, cmd.value)
    BY <1>7 DEF write_KVS
  <2>2. /\ Listed(s) /\ Len(s) = 11 /\ Begins(s, KVstruct)
        /\ Fills(s, mem, i, cmd.key, cmd.value)
        /\ s[6] = TX_END(48) /\ s[7] = TX_BEGIN /\ s[8] = TX_ADD(KVstruct)
        /\ s[9] = Put(number, i + 1) /\ s[10] = TX_END(53) /\ s[11] = Close
    BY <2>1, WritesAre
  <2>3. /\ s[6].op = "end" /\ s[7].op = "begin" /\ s[8].op = "add" /\ s[8].cells = KVstruct
        /\ s[10].op = "end" /\ s[11].op = "close"
    BY <2>2, Steps
  <2>4. s[9].op = "store" /\ DOMAIN s[9].to = {number} /\ s[9].to[number] = i + 1
    BY <2>2, PutIs
  <2>5. s[1].op = "begin" /\ s[2].op = "add" /\ s[2].cells = KVstruct
    BY <2>2, BeginsOps
  <2>6. StoresSlot(s, i, f)
    <3>1. \A c \in data(i) : f[c] = Filled(mem, i, cmd.key, cmd.value)[c]
      OBVIOUS
    <3> HIDE DEF i, f
    <3> QED BY <2>2, <3>1, FillsOps DEF i
  <2> HIDE DEF f, g, i
  <2>7. Ahead(s, 6, f)
    BY <1>6, <2>5, <2>6 DEF Ahead, StoresSlot
  <2>8. \A c \in KVstruct : mem[c] = f[c] \/ Stored(s, 6, c)
    BY <1>4, <2>6 DEF Stored, StoresSlot
  <2>9. AddAhead(s, 6)
    BY <2>5 DEF AddAhead
  <2>10. FirstRound(s, 6, i + 1)
    BY <1>1, <1>7, <2>2, <2>3, <2>4 DEF FirstRound, HalfWritten
  <2> QED BY <1>1, <1>2, <2>2, <2>3, <2>5, <2>7, <2>8, <2>9, <2>10 DEF Round, g
<1>8. ASSUME program # "PmemKVS" PROVE Round(s, 7, g, mem)
  <2>1. \/ program = "PmemKVS3" /\ s = PmemKVS3_write(mem, i, cmd.key, cmd.value)
        \/ program # "PmemKVS3" /\ s = PmemKVS4_write(mem, i, cmd.key, cmd.value)
    BY <1>1, <1>8 DEF write_KVS
  <2>2. /\ Listed(s) /\ Len(s) = 8
        /\ \/ Begins(s, KVstruct)
           \/ program = "PmemKVS3" /\ Begins(s, {keylen(0), value(0)})
        /\ Fills(s, mem, i, cmd.key, cmd.value)
        /\ s[6] = Put(number, i + 1) /\ s[8] = Close
        /\ \E at : s[7] = TX_END(at)
    BY <2>1, WritesAre
  <2>3. s[7].op = "end" /\ s[8].op = "close"
    BY <2>2, Steps
  <2>4. s[6].op = "store" /\ DOMAIN s[6].to = {number} /\ s[6].to[number] = i + 1
    BY <2>2, PutIs
  <2>5. /\ s[1].op = "begin" /\ s[2].op = "add" /\ s[2].cells # {} /\ s[2].cells \subseteq KVstruct
        /\ program # "PmemKVS3" => s[2].cells = KVstruct
    BY <1>6, <2>2, BeginsOps
  <2>6. StoresSlot(s, i, g)
    <3>1. \A c \in data(i) : g[c] = Filled(mem, i, cmd.key, cmd.value)[c]
      BY <1>5
    <3> HIDE DEF i, g
    <3> QED BY <2>2, <3>1, FillsOps DEF i
  <2> HIDE DEF f, g, i
  <2>7. Ahead(s, 7, g)
    BY <1>3, <2>4, <2>5, <2>6 DEF Ahead, StoresSlot
  <2>8. \A c \in KVstruct : mem[c] = g[c] \/ Stored(s, 7, c)
    BY <1>3, <1>4, <2>4, <2>6 DEF Stored, StoresSlot
  <2>9. AddAhead(s, 7)
    BY <2>5 DEF AddAhead
  <2>10. LastRound(s, 7)
    BY <2>2, <2>3 DEF LastRound
  <2> QED BY <1>2, <1>3, <2>2, <2>3, <2>5, <2>7, <2>8, <2>9, <2>10 DEF Round
<1> QED BY <1>7, <1>8

LEMMA DataRound ==
    ASSUME IsStore, cmd \in CommandLines, cmd.name = "data", NEW mem, Sound(mem),
           NEW s, s = manipulate_data(mem, cmd.id, cmd.key, cmd.value)
    PROVE  \E T, e : Round(s, e, T, mem)
<1> DEFINE i == cmd.id
<1> DEFINE f == Filled(mem, i, cmd.key, cmd.value)
<1>1. cmd.key \in Seq(Nat) /\ cmd.value \in Int /\ i \in Slot
  BY KnownCommands, CommandsAssumption DEF Slot
<1>2. Sound(f) /\ List(f) = Promise!Effect(cmd, List(mem))
  BY <1>1, FilledIs, DataList, EffectIs
<1>4. \A c \in KVstruct : c = keylen(i) \/ c = value(i) \/ c = key(i) \/ f[c] = mem[c]
  BY <1>1, FilledCells
<1>6. KVstruct # {}
  BY CellsAre
<1>7. Round(s, 6, f, mem)
  <2>2. /\ Listed(s) /\ Len(s) = 7 /\ Begins(s, KVstruct)
        /\ Fills(s, mem, i, cmd.key, cmd.value)
        /\ s[6] = TX_END(186) /\ s[7] = Close
    BY WritesAre
  <2>3. s[6].op = "end" /\ s[7].op = "close"
    BY <2>2, Steps
  <2>5. s[1].op = "begin" /\ s[2].op = "add" /\ s[2].cells = KVstruct
    BY <2>2, BeginsOps
  <2>6. StoresSlot(s, i, f)
    <3>1. \A c \in data(i) : f[c] = Filled(mem, i, cmd.key, cmd.value)[c]
      OBVIOUS
    <3> HIDE DEF i, f
    <3> QED BY <1>1, <2>2, <3>1, FillsOps
  <2> HIDE DEF f, i
  <2>7. Ahead(s, 6, f)
    BY <1>6, <2>5, <2>6 DEF Ahead, StoresSlot
  <2>8. \A c \in KVstruct : mem[c] = f[c] \/ Stored(s, 6, c)
    BY <1>4, <2>6 DEF Stored, StoresSlot
  <2>9. AddAhead(s, 6)
    BY <2>5 DEF AddAhead
  <2>10. LastRound(s, 6)
    BY <2>2, <2>3 DEF LastRound
  <2> QED BY <1>2, <2>2, <2>3, <2>5, <2>7, <2>8, <2>9, <2>10 DEF Round
<1> QED BY <1>7

LEMMA NumberRound ==
    ASSUME IsStore, cmd \in CommandLines, cmd.name = "number", NEW mem, Sound(mem),
           cmd.number <= mem[number], NEW s, s = manipulate_number(cmd.number)
    PROVE  \E T, e : Round(s, e, T, mem)
<1> DEFINE n == cmd.number
<1> DEFINE g == Counted(mem, n)
<1>1. n \in 0 .. mem[number] /\ mem[number] \in 0 .. MAX_STORE
  BY KnownCommands, CommandsAssumption, StoreAssumption DEF Sound
<1>2. n \in 0 .. MAX_STORE /\ List(g) = Promise!Effect(cmd, List(mem))
  <2>1. n \in 0 .. MAX_STORE /\ List(g) = SubSeq(List(mem), 1, n)
    BY <1>1, NumberList
  <2>2. Promise!Effect(cmd, List(mem)) = SubSeq(List(mem), 1, cmd.number)
    BY EffectIs
  <2> QED BY <2>1, <2>2
<1>3. Sound(g) /\ g[number] = n /\ \A c \in KVstruct : c # number => g[c] = mem[c]
  BY <1>2, CountedIs
<1>4. KVstruct # {}
  BY CellsAre
<1>5. /\ Listed(s) /\ Len(s) = 5 /\ Begins(s, KVstruct)
      /\ s[3] = Put(number, n) /\ s[4] = TX_END(218) /\ s[5] = Close
  BY NumberIs
<1>6. s[4].op = "end" /\ s[5].op = "close"
  BY <1>5, Steps
<1>7. s[1].op = "begin" /\ s[2].op = "add" /\ s[2].cells = KVstruct
  BY <1>5, BeginsOps
<1>8. s[3].op = "store" /\ DOMAIN s[3].to = {number} /\ s[3].to[number] = n
  BY <1>5, PutIs
<1> HIDE DEF g, n
<1>9. Ahead(s, 4, g)
  BY <1>3, <1>4, <1>7, <1>8 DEF Ahead
<1>10. \A c \in KVstruct : mem[c] = g[c] \/ Stored(s, 4, c)
  BY <1>3, <1>8 DEF Stored
<1>11. AddAhead(s, 4)
  BY <1>7 DEF AddAhead
<1>12. LastRound(s, 4)
  BY <1>5, <1>6 DEF LastRound
<1>13. Round(s, 4, g, mem)
  BY <1>2, <1>3, <1>5, <1>6, <1>7, <1>9, <1>10, <1>11, <1>12 DEF Round
<1> QED BY <1>13

LEMMA DeletionRound ==
    ASSUME IsStore, cmd \in CommandLines, cmd.name = "delete", NEW mem, Sound(mem),
           NEW at, NEW s, s = Deletion(mem, cmd.key, at)
    PROVE  \/ /\ Listed(s) /\ Len(s) = 1 /\ s[1].op = "close"
              /\ List(mem) = Promise!Effect(cmd, List(mem))
           \/ \E T, e : Round(s, e, T, mem)
<1> DEFINE k == cmd.key
<1> DEFINE n == mem[number]
<1> DEFINE i == First(mem, k)
<1> DEFINE l == List(mem)
<1>1. k \in Seq(Nat)
  BY KnownCommands, CommandsAssumption
<1>2. /\ Promise!Named(k, l) = {} <=> Found(mem, k) = {}
      /\ Found(mem, k) # {} => /\ Promise!Lowest(Promise!Named(k, l)) = i + 1
                               /\ i \in Slot /\ i < n
  BY <1>1, LowestIs
<1>3. CASE Found(mem, k) = {}
  <2>1. Listed(s) /\ Len(s) = 1 /\ s[1] = Close
    BY <1>3, DeletionIs
  <2>2. s[1].op = "close"
    BY <2>1, Steps
  <2>3. Promise!Effect(cmd, l) = l
    BY <1>2, <1>3, EffectIs
  <2> QED BY <2>1, <2>2, <2>3
<1>4. CASE Found(mem, k) # {}
  <2>1. i \in Slot /\ i < n /\ Promise!Effect(cmd, l) = Removed(i + 1, l)
    BY <1>2, <1>4, EffectIs
  <2>2. /\ List(Counted(Taken(mem, i), n - 1)) = Removed(i + 1, l)
        /\ i = n - 1 => List(Counted(mem, n - 1)) = Removed(i + 1, l)
        /\ n \in 1 .. MAX_STORE
    BY <2>1, DeletedList
  <2>3. n - 1 \in 0 .. MAX_STORE /\ n - 1 <= n
    BY <2>2, StoreAssumption
  <2>4. CASE i = n - 1
    <3> DEFINE g == Counted(mem, n - 1)
    <3>1. Sound(g) /\ g[number] = n - 1 /\ \A c \in KVstruct : c # number => g[c] = mem[c]
      BY <2>3, CountedIs
    <3>2. /\ Listed(s) /\ Len(s) = 4 /\ s[1] = TX_BEGIN
          /\ s[2] = Put(number, n - 1) /\ s[3] = TX_END(at) /\ s[4] = Close
      BY <1>4, <2>4, DeletionIs
    <3>3. s[1].op = "begin" /\ s[3].op = "end" /\ s[4].op = "close"
      BY <3>2, Steps
    <3>4. s[2].op = "store" /\ DOMAIN s[2].to = {number} /\ s[2].to[number] = n - 1
      BY <3>2, PutIs
    <3>5. List(g) = Promise!Effect(cmd, l)
      BY <2>1, <2>2, <2>4
    <3> HIDE DEF g
    <3>6. Ahead(s, 3, g)
      BY <3>1, <3>3, <3>4 DEF Ahead
    <3>7. \A c \in KVstruct : mem[c] = g[c] \/ Stored(s, 3, c)
      BY <3>1, <3>4 DEF Stored
    <3>8. Loosely(s, 3, g, mem)
      BY <2>3, <3>1, <3>3, <3>4 DEF Loosely
    <3>9. LastRound(s, 3)
      BY <3>2, <3>3 DEF LastRound
    <3>10. Round(s, 3, g, mem)
      BY <3>1, <3>2, <3>3, <3>5, <3>6, <3>7, <3>8, <3>9 DEF Round
    <3> QED BY <3>10
  <2>5. CASE i # n - 1
    <3> DEFINE f == Taken(mem, i)
    <3> DEFINE g == Counted(f, n - 1)
    <3>1. Sound(f)
      BY <2>1, <2>2, TakenIs
    <3>2. Sound(g) /\ g[number] = n - 1 /\ \A c \in KVstruct : c # number => g[c] = f[c]
      BY <2>3, <3>1, CountedIs
    <3>3. /\ \A c \in KVstruct : c \in data(i) \/ f[c] = mem[c]
          /\ \A c \in data(i) : c # number /\ c \in KVstruct /\ f[c] = Moved(mem, i)[c]
          /\ data(i) = DOMAIN Moved(mem, i)
      BY <2>1, CellsAre, CellsDiffer DEF Taken, Moved, data
    <3>4. /\ Listed(s) /\ Len(s) = 6 /\ Begins(s, KVstruct)
          /\ s[3] = PutAll(Moved(mem, i))
          /\ s[4] = Put(number, n - 1) /\ s[5] = TX_END(at) /\ s[6] = Close
      BY <1>4, <2>5, DeletionIs
    <3>5. s[1].op = "begin" /\ s[2].op = "add" /\ s[2].cells = KVstruct
      BY <3>4, BeginsOps
    <3>6. s[3].op = "store" /\ s[3].to = Moved(mem, i) /\ s[5].op = "end" /\ s[6].op = "close"
      BY <3>4, Steps
    <3>7. s[4].op = "store" /\ DOMAIN s[4].to = {number} /\ s[4].to[number] = n - 1
      BY <3>4, PutIs
    <3>8. List(g) = Promise!Effect(cmd, l)
      BY <2>1, <2>2
    <3>9. KVstruct # {}
      BY CellsAre
    <3> HIDE DEF f, g, i
    <3>10. Ahead(s, 5, g)
      BY <3>2, <3>3, <3>5, <3>6, <3>7, <3>9 DEF Ahead
    <3>11. \A c \in KVstruct : mem[c] = g[c] \/ Stored(s, 5, c)
      BY <3>2, <3>3, <3>6, <3>7 DEF Stored
    <3>12. AddAhead(s, 5)
      BY <3>5 DEF AddAhead
    <3>13. LastRound(s, 5)
      BY <3>4, <3>6 DEF LastRound
    <3>14. Round(s, 5, g, mem)
      BY <3>2, <3>4, <3>5, <3>6, <3>8, <3>10, <3>11, <3>12, <3>13 DEF Round
    <3> QED BY <3>14
  <2> QED BY <2>4, <2>5
<1> QED BY <1>3, <1>4

(* Whatever a store is told to do, it does nothing or has a round ahead.   *)
LEMMA WriterRound ==
    ASSUME IsStore, cmd \in CommandLines, ~ReadsOnly(cmd), NEW mem, Sound(mem),
           created => mem[number] = 0,
           cmd.name = "write" => mem[number] < MAX_STORE,
           cmd.name = "number" => cmd.number <= mem[number],
           NEW s, s = Writes(program, cmd, mem, created)
    PROVE  \/ /\ Listed(s) /\ Len(s) = 1 /\ s[1].op = "close"
              /\ List(mem) = Promise!Effect(cmd, List(mem))
           \/ \E T, e : Round(s, e, T, mem)
<1>1. /\ cmd.name \in {"write", "delete", "data", "number"}
      /\ program \in {"PmemKVS", "PmemKVS3", "PmemKVS4"}
  BY KnownCommands DEF ReadsOnly
<1>2. CASE cmd.name = "write"
  <2>1. NextSlot(mem, created) = mem[number]
    BY DEF NextSlot
  <2>2. mem[number] \in Slot
    BY <1>2, StoreAssumption DEF Sound, Slot
  <2>3. s = write_KVS(program, cmd, mem, mem[number])
    BY <1>2, <2>1 DEF Writes
  <2> QED BY <1>2, <2>2, <2>3, WriteRound
<1>3. CASE cmd.name = "delete"
  <2>1. PICK at : s = Deletion(mem, cmd.key, at)
    BY <1>1, <1>3 DEF Writes, delete_KVS, PmemKVS_delete, PmemKVS3_delete, PmemKVS4_delete
  <2> QED BY <1>3, <2>1, DeletionRound
<1>4. CASE cmd.name = "data"
  <2>1. s = manipulate_data(mem, cmd.id, cmd.key, cmd.value)
    BY <1>4 DEF Writes
  <2> QED BY <1>4, <2>1, DataRound
<1>5. CASE cmd.name = "number"
  <2>1. s = manipulate_number(cmd.number)
    BY <1>5 DEF Writes
  <2> QED BY <1>5, <2>1, NumberRound
<1> QED BY <1>1, <1>2, <1>3, <1>4, <1>5

-----------------------------------------------------------------------------
(* What is to come of the store, at any moment of a command. *)

(* PmemKVS3.c logs too little to be safe from failures.                    *)
Logs == program # "PmemKVS3"

Intended == Promise!Effect(cmd, acked)

Broken == failed /\ HalfWritten

(* The command has done all it will.                                       *)
Ended ==
    /\ Len(code) <= 1 /\ (code # <<>> => code[1].op = "close") /\ log = Nothing
    /\ Broken \/ List(cache) = IF failed THEN acked ELSE Intended

Undone(e) == failed /\ e = 1 /\ stage # "WORK"

Staged(e) ==
    /\ e > 1 => stage = IF code[1].op = "begin" THEN "NONE" ELSE "WORK"
    /\ e = 1 /\ stage # "WORK" => log = Nothing
    /\ AddAhead(code, e) \/ (e > 1 /\ code[1].op = "begin") => log = Nothing

Reached(T, e) ==
    /\ Undone(e) \/ \A c \in KVstruct : cache[c] = T[c] \/ Stored(code, e, c)
    /\ AddAhead(code, e) \/ log # Nothing \/ Loosely(code, e, T, cache)

Behind(T, e) ==
    \/ /\ LastRound(code, e)
       /\ IF failed THEN HalfWritten \/ (Undone(e) /\ List(cache) = acked)
          ELSE List(T) = Intended
    \/ \E n \in 0 .. MAX_STORE :
          /\ FirstRound(code, e, n)
          /\ IF failed THEN Undone(e)
             ELSE List(T) = acked /\ List(Counted(T, n)) = Intended

Before(e) == Broken \/
    /\ e > 1 /\ log = Nothing => List(cache) = acked
    /\ Logs /\ log # Nothing => List(log) = acked

(* A transaction, whose end is the e-th step ahead, leads to T.            *)
Coming(T, e) ==
    /\ e \in 1 .. Len(code) /\ code[e].op = "end" /\ Sound(T) /\ Ahead(code, e, T)
    /\ Staged(e) /\ Reached(T, e) /\ Behind(T, e) /\ Before(e)

(* What is loose is the number, and what was deleted is still on the medium. *)
OnlyNumber ==
    /\ \A c \in KVstruct : c # number => medium[c] = cache[c]
    /\ cache[number] <= medium[number]

MemoryInv ==
    /\ log = Nothing => Sound(cache)
    /\ Logs /\ log # Nothing => Sound(log)
    /\ Logs /\ log = Nothing => OnlyNumber

WorkInv ==
    /\ Ended \/ \E T, e : Coming(T, e)
    /\ Broken => spoiled

-----------------------------------------------------------------------------
(* One step less ahead.                                                    *)
LEMMA OneLess ==
    ASSUME Listed(code), NEW e \in 2 .. Len(code), NEW T, Ahead(code, e, T),
           NEW u, u = Tail(code)
    PROVE  /\ Len(code) \in Nat /\ code # <<>> /\ Len(u) = Len(code) - 1 /\ Listed(u)
           /\ e - 1 \in 1 .. Len(u) /\ u[e - 1] = code[e] /\ Ahead(u, e - 1, T)
           /\ \A c : Stored(code, e, c) <=>
                 (code[1].op = "store" /\ c \in DOMAIN code[1].to) \/ Stored(u, e - 1, c)
           /\ AddAhead(u, e - 1) => code[1].op = "begin" /\ AddAhead(code, e)
           /\ code[1].op \in {"begin", "store"} /\ AddAhead(code, e) => AddAhead(u, e - 1)
           /\ \A mem : Loosely(code, e, T, mem) => Loosely(u, e - 1, T, mem)
           /\ LastRound(code, e) => LastRound(u, e - 1)
           /\ \A n : FirstRound(code, e, n) => FirstRound(u, e - 1, n)
           /\ e - 1 > 1 => u[1].op \in {"add", "store"}
<1>1. Len(code) \in Nat /\ code # <<>>
  <2>1. Len(code) \in Nat /\ Len(code) # 0
    BY DEF Listed
  <2> QED BY <2>1, EmptySeq
<1>2. /\ Len(u) = Len(code) - 1 /\ Listed(u)
      /\ \A i \in 1 .. Len(code) - 1 : u[i] = code[i + 1]
      /\ \A i \in 1 .. Len(code) : i # 1 => i - 1 \in 1 .. Len(code) - 1 /\ u[i - 1] = code[i]
  BY <1>1, Popped
<1>3. /\ e - 1 \in 1 .. Len(u) /\ u[e - 1] = code[e]
      /\ \A j \in 1 .. e - 1 - 1 : j + 1 \in 1 .. e - 1 /\ j + 1 # 1 /\ u[j] = code[j + 1]
      /\ \A j \in 1 .. e - 1 : j # 1 => j - 1 \in 1 .. e - 1 - 1 /\ u[j - 1] = code[j]
      /\ e \in Nat /\ 1 \in 1 .. e - 1
  BY <1>1, <1>2
<1>4. Ahead(u, e - 1, T)
  <2> SUFFICES ASSUME NEW j \in 1 .. e - 1 - 1
               PROVE \/ u[j].op = "begin" /\ j = 1
                     \/ /\ u[j].op = "add" /\ (j = 1 \/ (j = 2 /\ u[1].op = "begin"))
                        /\ u[j].cells # {} /\ u[j].cells \subseteq KVstruct
                        /\ program # "PmemKVS3" => u[j].cells = KVstruct
                     \/ u[j].op = "store" /\ \A c \in DOMAIN u[j].to : u[j].to[c] = T[c]
    BY DEF Ahead
  <2>1. j + 1 \in 1 .. e - 1 /\ j + 1 # 1 /\ u[j] = code[j + 1] /\ (j + 1 = 2 => j = 1)
    BY <1>3
  <2> QED BY <2>1 DEF Ahead
<1>5. ASSUME NEW c
      PROVE  Stored(code, e, c) <=>
                 (code[1].op = "store" /\ c \in DOMAIN code[1].to) \/ Stored(u, e - 1, c)
  <2>1. ASSUME Stored(code, e, c)
        PROVE  (code[1].op = "store" /\ c \in DOMAIN code[1].to) \/ Stored(u, e - 1, c)
    <3>1. PICK j \in 1 .. e - 1 : code[j].op = "store" /\ c \in DOMAIN code[j].to
      BY <2>1 DEF Stored
    <3> QED BY <1>3, <3>1 DEF Stored
  <2>2. ASSUME Stored(u, e - 1, c) PROVE Stored(code, e, c)
    BY <1>3, <2>2 DEF Stored
  <2>3. ASSUME code[1].op = "store" /\ c \in DOMAIN code[1].to PROVE Stored(code, e, c)
    BY <1>3, <2>3 DEF Stored
  <2> QED BY <2>1, <2>2, <2>3
<1>6. ASSUME AddAhead(u, e - 1) PROVE code[1].op = "begin" /\ AddAhead(code, e)
  <2>1. PICK j \in 1 .. e - 1 - 1 : u[j].op = "add"
    BY <1>6 DEF AddAhead
  <2>2. j + 1 \in 1 .. e - 1 /\ j + 1 # 1 /\ code[j + 1].op = "add"
    BY <1>3, <2>1
  <2> QED BY <2>2 DEF Ahead, AddAhead
<1>7. code[1].op \in {"begin", "store"} /\ AddAhead(code, e) => AddAhead(u, e - 1)
  BY <1>3 DEF AddAhead
<1>8. \A mem : Loosely(code, e, T, mem) => Loosely(u, e - 1, T, mem)
  BY <1>3 DEF Loosely
<1>9. LastRound(code, e) => LastRound(u, e - 1)
  BY <1>1, <1>2, <1>3 DEF LastRound
<1>10. \A n : FirstRound(code, e, n) => FirstRound(u, e - 1, n)
  <2> SUFFICES ASSUME NEW n, FirstRound(code, e, n) PROVE FirstRound(u, e - 1, n)
    OBVIOUS
  <2>1. Len(code) = e + 5
    BY DEF FirstRound
  <2>2. /\ u[e] = code[e + 1] /\ u[e + 1] = code[e + 2] /\ u[e + 2] = code[e + 3]
        /\ u[e + 3] = code[e + 4] /\ u[e + 4] = code[e + 5] /\ Len(u) = e + 4
    BY <1>1, <1>2, <1>3, <2>1
  <2>3. e - 1 + 1 = e /\ e - 1 + 2 = e + 1 /\ e - 1 + 3 = e + 2 /\ e - 1 + 4 = e + 3 /\ e - 1 + 5 = e + 4
    BY <1>3
  <2> QED BY <2>2, <2>3 DEF FirstRound
<1>11. e - 1 > 1 => u[1].op \in {"add", "store"}
  <2> SUFFICES ASSUME e - 1 > 1 PROVE u[1].op \in {"add", "store"}
    OBVIOUS
  <2>1. u[1] = code[2] /\ 2 \in 1 .. e - 1 /\ 2 # 1
    BY <1>1, <1>2, <1>3
  <2> QED BY <2>1 DEF Ahead
<1> QED BY <1>1, <1>2, <1>3, <1>4, <1>5, <1>6, <1>7, <1>8, <1>9, <1>10, <1>11

-----------------------------------------------------------------------------
(* One step further. *)

LEMMA SameCommand ==
    ASSUME UNCHANGED <<program, cmd, acked>>
    PROVE  /\ \A s, e, T : Ahead(s, e, T) => Ahead(s, e, T)'
           /\ \A s, e, n : FirstRound(s, e, n) => FirstRound(s, e, n)'
           /\ Logs' = Logs /\ HalfWritten' = HalfWritten /\ Intended' = Intended
           /\ IsStore' = IsStore
<1>1. HalfWritten' = HalfWritten /\ Logs' = Logs /\ IsStore' = IsStore
  BY DEF HalfWritten, Logs, IsStore
<1>2. Intended' = Intended
  BY DEF Intended
<1>3. \A s, e, T : Ahead(s, e, T) => Ahead(s, e, T)'
  BY DEF Ahead
<1>4. \A s, e, n : FirstRound(s, e, n) => FirstRound(s, e, n)'
  BY <1>1 DEF FirstRound
<1> QED BY <1>1, <1>2, <1>3, <1>4

LEMMA StoreHas ==
    ASSUME IsStore, PoolFits
    PROVE  /\ cache = [c \in KVstruct |-> cache[c]] /\ medium = [c \in KVstruct |-> medium[c]]
           /\ cache[number] \in 0 .. MAX_STORE /\ medium[number] \in 0 .. MAX_STORE
           /\ DOMAIN log \subseteq KVstruct /\ Listed(code) /\ number \in KVstruct
           /\ log = Nothing => DOMAIN log = {} /\ Recovered(cache) = cache /\ Durable = medium
           /\ DOMAIN Nothing = {} /\ MAX_STORE \in Nat
BY StoreCells, OfNothing, Recovering, StoreAssumption, CellsAre
   DEF PoolFits, Fits, Numbers, LogFits, CodeFits

(* What is ahead of the end has to do with it.                             *)
LEMMA WhereItIs ==
    ASSUME NEW T, NEW e, Coming(T, e), Listed(code)
    PROVE  /\ Len(code) \in Nat /\ e \in Nat /\ code # <<>>
           /\ e = 1 => code[1].op = "end"
           /\ e # 1 => code[1].op \in {"begin", "add", "store"} /\ e \in 2 .. Len(code)
           /\ Ended => FALSE
<1>1. Len(code) \in Nat /\ e \in 1 .. Len(code) /\ code[e].op = "end"
  BY DEF Coming, Listed
<1>2. code # <<>>
  BY <1>1, EmptySeq
<1>3. e = 1 => code[1].op = "end"
  BY <1>1
<1>4. ASSUME e # 1 PROVE code[1].op \in {"begin", "add", "store"} /\ e \in 2 .. Len(code)
  <2>1. 1 \in 1 .. e - 1 /\ e \in 2 .. Len(code)
    BY <1>1, <1>4
  <2> QED BY <2>1 DEF Coming, Ahead
<1>5. Ended => FALSE
  <2> SUFFICES ASSUME Ended PROVE FALSE
    OBVIOUS
  <2>1. Len(code) = 1 /\ code[1].op = "close"
    BY <1>1, <1>2 DEF Ended
  <2> QED BY <1>1, <2>1
<1> QED BY <1>1, <1>2, <1>3, <1>4, <1>5

(* The next step, short of the end.                                        *)
LEMMA OneOn ==
    ASSUME IsStore, PoolFits, NEW T, NEW e, Coming(T, e), code # <<>>, code[1].op # "end",
           code' = Tail(code), UNCHANGED <<program, cmd, acked, failed>>
    PROVE  /\ e \in 2 .. Len(code) /\ Sound(T) /\ Staged(e) /\ Reached(T, e) /\ Before(e)
           /\ \A c \in KVstruct : cache[c] = T[c] \/ Stored(code, e, c)
           /\ (e - 1 \in 1 .. Len(code))' /\ code'[e - 1].op = "end"
           /\ Ahead(code, e - 1, T)' /\ Behind(T, e - 1)'
           /\ e - 1 > 1 => code'[1].op \in {"add", "store"}
           /\ \A c : Stored(code, e, c) <=>
                 (code[1].op = "store" /\ c \in DOMAIN code[1].to) \/ Stored(code', e - 1, c)
           /\ AddAhead(code', e - 1) => code[1].op = "begin" /\ AddAhead(code, e)
           /\ code[1].op \in {"begin", "store"} /\ AddAhead(code, e) => AddAhead(code', e - 1)
           /\ \A mem : Loosely(code, e, T, mem) => Loosely(code', e - 1, T, mem)
<1>1. /\ Listed(code) /\ e \in 2 .. Len(code) /\ Len(code) \in Nat /\ Ahead(code, e, T)
      /\ code[e].op = "end" /\ Sound(T) /\ Staged(e) /\ Reached(T, e) /\ Behind(T, e) /\ Before(e)
  BY StoreHas, WhereItIs DEF Coming
<1>2. ~Undone(e) /\ \A c \in KVstruct : cache[c] = T[c] \/ Stored(code, e, c)
  BY <1>1 DEF Undone, Reached
<1> DEFINE u == Tail(code)
<1>3. /\ Len(u) = Len(code) - 1 /\ e - 1 \in 1 .. Len(u) /\ u[e - 1] = code[e]
      /\ Ahead(u, e - 1, T)
      /\ e - 1 > 1 => u[1].op \in {"add", "store"}
      /\ LastRound(code, e) => LastRound(u, e - 1)
      /\ \A n : FirstRound(code, e, n) => FirstRound(u, e - 1, n)
  BY <1>1, OneLess
<1>4. /\ \A c : Stored(code, e, c) <=>
            (code[1].op = "store" /\ c \in DOMAIN code[1].to) \/ Stored(u, e - 1, c)
      /\ AddAhead(u, e - 1) => code[1].op = "begin" /\ AddAhead(code, e)
      /\ code[1].op \in {"begin", "store"} /\ AddAhead(code, e) => AddAhead(u, e - 1)
      /\ \A mem : Loosely(code, e, T, mem) => Loosely(u, e - 1, T, mem)
  BY <1>1, OneLess
<1> HIDE DEF u
<1>5. code' = u
  BY DEF u
<1>6. failed' = failed /\ HalfWritten' = HalfWritten /\ Intended' = Intended /\ acked' = acked
  BY SameCommand
<1>7. Behind(T, e - 1)'
  <2>1. CASE LastRound(code, e)
    <3>1. LastRound(code', e - 1)
      BY <1>3, <1>5, <2>1
    <3>2. IF failed THEN HalfWritten ELSE List(T) = Intended
      BY <1>1, <1>2, <2>1 DEF Behind, LastRound, FirstRound
    <3> QED BY <1>6, <3>1, <3>2 DEF Behind
  <2>2. ASSUME NEW n \in 0 .. MAX_STORE, FirstRound(code, e, n),
               IF failed THEN Undone(e) ELSE List(T) = acked /\ List(Counted(T, n)) = Intended
        PROVE  Behind(T, e - 1)'
    <3>1. FirstRound(code, e - 1, n)'
      BY <1>3, <1>5, <2>2, SameCommand
    <3> QED BY <1>2, <1>6, <2>2, <3>1 DEF Behind
  <2> QED BY <1>1, <2>1, <2>2 DEF Behind
<1>8. Ahead(code, e - 1, T)'
  BY <1>3, <1>5, SameCommand
<1> QED BY <1>1, <1>2, <1>3, <1>4, <1>5, <1>7, <1>8

LEMMA BeginStep ==
    ASSUME IsStore, PoolFits, MemoryInv, NEW T, NEW e, Coming(T, e), TxBegin,
           UNCHANGED <<program, cmd, acked>>
    PROVE  MemoryInv' /\ Coming(T, e - 1)'
<1>1. /\ code' = Tail(code) /\ stage' = "WORK" /\ UNCHANGED <<cache, medium, log, failed>>
      /\ code[1].op = "begin" /\ code # <<>> /\ UNCHANGED <<program, cmd, acked, failed>>
  BY AtHead DEF TxBegin, Rest, contents
<1>2. e \in 2 .. Len(code) /\ Sound(T) /\ Staged(e) /\ Reached(T, e) /\ Before(e)
      /\ (e - 1 \in 1 .. Len(code))' /\ code'[e - 1].op = "end"
      /\ Ahead(code, e - 1, T)' /\ Behind(T, e - 1)'
  BY <1>1, OneOn
<1>3. log = Nothing
  BY <1>1, <1>2 DEF Staged
<1>4. Staged(e - 1)'
  <2>1. e - 1 > 1 => code'[1].op \in {"add", "store"}
    BY <1>1, OneOn
  <2> QED BY <1>1, <1>2, <1>3, <2>1 DEF Staged
<1>5. Reached(T, e - 1)'
  <2>1. \A c \in KVstruct : cache[c] = T[c] \/ Stored(code', e - 1, c)
    BY <1>1, OneOn
  <2>2. AddAhead(code', e - 1) \/ log # Nothing \/ Loosely(code', e - 1, T, cache)
    BY <1>1, <1>2, OneOn DEF Reached
  <2> QED BY <1>1, <2>1, <2>2 DEF Reached
<1>6. Before(e - 1)'
  BY <1>1, <1>2, <1>3, SameCommand DEF Before, Broken
<1>7. Coming(T, e - 1)'
  BY <1>2, <1>4, <1>5, <1>6 DEF Coming
<1> QED BY <1>1, <1>7, SameCommand DEF MemoryInv, OnlyNumber

LEMMA AddStep ==
    ASSUME IsStore, PoolFits, MemoryInv, NEW T, NEW e, Coming(T, e), TxAdd,
           UNCHANGED <<program, cmd, acked>>
    PROVE  MemoryInv' /\ Coming(T, e - 1)'
<1>1. /\ code' = Tail(code) /\ stage' = "WORK" /\ UNCHANGED <<cache, medium, failed>>
      /\ log' = Logged(code[1].cells) /\ stage = "WORK"
      /\ code[1].op = "add" /\ code # <<>> /\ UNCHANGED <<program, cmd, acked, failed>>
  BY AtHead DEF TxAdd, Rest
<1>2. e \in 2 .. Len(code) /\ Sound(T) /\ Staged(e) /\ Reached(T, e) /\ Before(e)
      /\ (e - 1 \in 1 .. Len(code))' /\ code'[e - 1].op = "end"
      /\ Ahead(code, e - 1, T)' /\ Behind(T, e - 1)'
  BY <1>1, OneOn
<1>3. /\ code[1].cells # {} /\ code[1].cells \subseteq KVstruct
      /\ Logs => code[1].cells = KVstruct
      /\ AddAhead(code, e)
  <2>1. 1 \in 1 .. e - 1
    BY <1>2
  <2>2. Ahead(code, e, T)
    BY DEF Coming
  <2> QED BY <1>1, <2>1, <2>2 DEF Ahead, AddAhead, Logs
<1>4. log = Nothing /\ Sound(cache) /\ DOMAIN log = {} /\ DOMAIN Nothing = {}
  BY <1>2, <1>3, StoreHas DEF Staged, MemoryInv
<1>5. log' = [c \in code[1].cells |-> cache[c]] /\ log' # Nothing
  BY <1>1, <1>3, <1>4 DEF Logged
<1>6. Logs => log' = cache
  BY <1>3, <1>5, StoreHas
<1>7. Staged(e - 1)'
  <2>1. (e - 1 > 1 => code'[1].op \in {"add", "store"}) /\ ~AddAhead(code', e - 1)
    BY <1>1, OneOn
  <2> QED BY <1>1, <2>1 DEF Staged
<1>8. Reached(T, e - 1)'
  <2>1. \A c \in KVstruct : cache[c] = T[c] \/ Stored(code', e - 1, c)
    BY <1>1, OneOn
  <2> QED BY <1>1, <1>5, <2>1 DEF Reached
<1>9. Before(e - 1)'
  <2>1. Broken \/ List(cache) = acked
    BY <1>2, <1>4 DEF Before
  <2>2. Broken' = Broken /\ Logs' = Logs
    BY <1>1, SameCommand DEF Broken
  <2>3. CASE Broken
    BY <2>2, <2>3 DEF Before
  <2>4. CASE List(cache) = acked
    <3>1. Logs' => List(log)' = acked'
      BY <1>1, <1>6, <2>2, <2>4
    <3> QED BY <1>5, <3>1 DEF Before
  <2> QED BY <2>1, <2>3, <2>4
<1>10. Coming(T, e - 1)'
  BY <1>2, <1>7, <1>8, <1>9 DEF Coming
<1>11. MemoryInv'
  BY <1>4, <1>5, <1>6, SameCommand DEF MemoryInv
<1> QED BY <1>10, <1>11

LEMMA StoreStep ==
    ASSUME IsStore, PoolFits, MemoryInv, NEW T, NEW e, Coming(T, e), Store,
           UNCHANGED <<program, cmd, acked>>
    PROVE  MemoryInv' /\ Coming(T, e - 1)'
<1>1. /\ code' = Tail(code) /\ UNCHANGED <<medium, log, stage, failed>>
      /\ cache' = Overlay(code[1].to, cache)
      /\ code[1].op = "store" /\ code # <<>> /\ UNCHANGED <<program, cmd, acked, failed>>
  BY AtHead DEF Store, Rest
<1>2. e \in 2 .. Len(code) /\ Sound(T) /\ Staged(e) /\ Reached(T, e) /\ Before(e)
      /\ (e - 1 \in 1 .. Len(code))' /\ code'[e - 1].op = "end"
      /\ Ahead(code, e - 1, T)' /\ Behind(T, e - 1)'
  BY <1>1, OneOn
<1>3. \A c \in DOMAIN code[1].to : code[1].to[c] = T[c]
  <2>1. 1 \in 1 .. e - 1
    BY <1>2
  <2>2. Ahead(code, e, T)
    BY DEF Coming
  <2> QED BY <1>1, <2>1, <2>2 DEF Ahead
<1>4. stage = "WORK" /\ stage' = "WORK"
  BY <1>1, <1>2 DEF Staged
<1>5. ~AddAhead(code', e - 1) /\ ~AddAhead(code, e)
  BY <1>1, OneOn
<1>6. Staged(e - 1)'
  <2>1. e - 1 > 1 => code'[1].op \in {"add", "store"}
    BY <1>1, OneOn
  <2> QED BY <1>4, <1>5, <2>1 DEF Staged
<1>7. DOMAIN cache = KVstruct /\ \A c \in KVstruct :
          cache'[c] = IF c \in DOMAIN code[1].to THEN code[1].to[c] ELSE cache[c]
  BY <1>1, StoreHas DEF Overlay
<1>8. \A c \in KVstruct : cache'[c] = T[c] \/ Stored(code', e - 1, c)
  <2>1. \A c \in KVstruct : cache[c] = T[c] \/ c \in DOMAIN code[1].to \/ Stored(code', e - 1, c)
    BY <1>1, OneOn
  <2> QED BY <1>3, <1>7, <2>1
<1>9. ASSUME log = Nothing
      PROVE  /\ e - 1 = 1 /\ DOMAIN code[1].to = {number} /\ code[1].to[number] = T[number]
             /\ T[number] <= cache[number] /\ T[number] \in 0 .. MAX_STORE
  <2>1. Loosely(code, e, T, cache)
    BY <1>2, <1>5, <1>9 DEF Reached
  <2>2. 1 \in 1 .. e - 1
    BY <1>2
  <2>3. 1 = e - 1 /\ DOMAIN code[1].to = {number} /\ T[number] <= cache[number]
    BY <1>1, <2>1, <2>2 DEF Loosely
  <2> QED BY <1>2, <1>3, <2>3 DEF Sound
<1>10. Reached(T, e - 1)'
  <2>1. ASSUME log = Nothing PROVE Loosely(code', e - 1, T, cache')
    BY <1>9, <2>1 DEF Loosely
  <2> QED BY <1>1, <1>8, <2>1 DEF Reached
<1>11. Before(e - 1)'
  BY <1>1, <1>2, <1>9, SameCommand DEF Before, Broken
<1>12. Coming(T, e - 1)'
  BY <1>2, <1>6, <1>10, <1>11 DEF Coming
<1>13. ASSUME log = Nothing PROVE Sound(cache)' /\ (Logs => OnlyNumber')
  <2>1. /\ Sound(cache) /\ cache[number] \in 0 .. MAX_STORE
        /\ medium[number] \in 0 .. MAX_STORE /\ MAX_STORE \in Nat
    BY <1>13, StoreHas DEF MemoryInv
  <2>2. cache' = Counted(cache, T[number])
    BY <1>1, <1>7, <1>9, <1>13, StoreHas DEF Counted, Overlay
  <2>3. Sound(cache)' /\ cache'[number] = T[number]
        /\ \A c \in KVstruct : c # number => cache'[c] = cache[c]
    BY <1>9, <1>13, <2>1, <2>2, CountedIs
  <2>4. T[number] <= cache[number] /\ T[number] \in 0 .. MAX_STORE
    BY <1>9, <1>13
  <2>5. ASSUME Logs PROVE OnlyNumber'
    <3>1. OnlyNumber
      BY <1>13, <2>5 DEF MemoryInv
    <3> QED BY <1>1, <2>1, <2>3, <2>4, <3>1 DEF OnlyNumber
  <2> QED BY <2>3, <2>5
<1>14. MemoryInv'
  BY <1>1, <1>13, SameCommand DEF MemoryInv
<1> QED BY <1>12, <1>14

LEMMA AddFailsStep ==
    ASSUME IsStore, PoolFits, MemoryInv, NEW T, NEW e, Coming(T, e), TxAddFails,
           UNCHANGED <<program, cmd, acked>>
    PROVE  MemoryInv' /\ Coming(T, 1)'
<1>1. /\ stage = "WORK" /\ stage' = "ONABORT" /\ failed' = TRUE /\ log' = Nothing
      /\ cache' = Overlay(log, cache) /\ medium' = Overlay(log, medium)
      /\ code[1].op = "add" /\ code # <<>> /\ UNCHANGED <<program, cmd, acked>>
  BY AtHead DEF TxAddFails
<1>2. /\ Listed(code) /\ Len(code) \in Nat /\ e \in 2 .. Len(code) /\ code[e].op = "end"
      /\ Ahead(code, e, T) /\ Sound(T)
      /\ Staged(e) /\ Behind(T, e) /\ Before(e)
  BY <1>1, StoreHas, WhereItIs DEF Coming
<1>3. AddAhead(code, e) /\ log = Nothing
  <2>1. 1 \in 1 .. e - 1
    BY <1>2
  <2>2. AddAhead(code, e)
    BY <1>1, <2>1 DEF AddAhead
  <2> QED BY <1>2, <2>2 DEF Staged
<1>4. UNCHANGED <<cache, medium, log>>
  BY <1>1, <1>3, StoreHas DEF Recovered, Durable
<1>5. NextEnd = e
  <2>1. e \in 1 .. Len(code)
    BY <1>2
  <2>2. NextEnd \in 1 .. Len(code) /\ code[NextEnd].op = "end" /\ NextEnd <= e
    BY <1>2, <2>1, NextEndIs
  <2>3. \A j \in 1 .. e - 1 : code[j].op # "end"
    BY <1>2 DEF Ahead
  <2> QED BY <1>2, <2>2, <2>3
<1> DEFINE u == SubSeq(code, e, Len(code))
<1>6. /\ Len(u) = Len(code) - e + 1 /\ 1 \in 1 .. Len(u)
      /\ \A i \in 1 .. Len(u) : u[i] = code[e + i - 1]
  <2>1. e \in 1 .. Len(code)
    BY <1>2
  <2>2. /\ Len(u) = Len(code) - e + 1
        /\ \A i \in 1 .. Len(u) : u[i] = code[e + i - 1]
    BY <1>2, <2>1, Dropped
  <2> HIDE DEF u
  <2> QED BY <1>2, <2>2
<1>7. code' = u
  BY <1>5 DEF TxAddFails
<1> HIDE DEF u
<1>8. u[1].op = "end"
  <2>1. e + 1 - 1 = e
    BY <1>2
  <2> QED BY <1>2, <1>6, <2>1
<1>9. HalfWritten' = HalfWritten /\ acked' = acked
  BY <1>1, SameCommand
<1>10. Undone(1)'
  BY <1>1 DEF Undone
<1>11. HalfWritten \/ List(cache) = acked
  BY <1>2, <1>3 DEF Before, Broken
<1>12. Behind(T, 1)'
  <2>1. CASE LastRound(code, e)
    <3>1. Len(u) = 2 /\ u[2] = code[e + 1]
      <4>1. e + 2 - 1 = e + 1 /\ Len(code) = e + 1
        BY <1>2, <2>1 DEF LastRound
      <4>2. Len(u) = 2 /\ 2 \in 1 .. Len(u)
        BY <1>2, <1>6, <4>1
      <4> QED BY <1>6, <4>1, <4>2
    <3>2. LastRound(code, 1)'
      BY <1>7, <2>1, <3>1 DEF LastRound
    <3> QED BY <1>1, <1>4, <1>9, <1>10, <1>11, <3>2 DEF Behind
  <2>2. ASSUME NEW n \in 0 .. MAX_STORE, FirstRound(code, e, n)
        PROVE  Behind(T, 1)'
    <3>1. Len(code) = e + 5
      BY <2>2 DEF FirstRound
    <3>2. Len(u) = 6 /\ \A i \in 1 .. 6 : u[i] = code[e + i - 1]
      <4>1. e \in Nat /\ e + 5 - e + 1 = 6
        BY <1>2
      <4>2. Len(u) = 6
        BY <1>6, <3>1, <4>1
      <4> QED BY <1>6, <4>2
    <3>3. /\ e + 2 - 1 = e + 1 /\ e + 3 - 1 = e + 2 /\ e + 4 - 1 = e + 3
          /\ e + 5 - 1 = e + 4 /\ e + 6 - 1 = e + 5
      BY <1>2
    <3>4. /\ u[2] = code[e + 1] /\ u[3] = code[e + 2] /\ u[4] = code[e + 3]
          /\ u[5] = code[e + 4] /\ u[6] = code[e + 5]
      BY <3>2, <3>3
    <3>5. /\ 1 + 1 = 2 /\ 1 + 2 = 3 /\ 1 + 3 = 4 /\ 1 + 4 = 5 /\ 1 + 5 = 6
      OBVIOUS
    <3>6. FirstRound(u, 1, n)
      BY <2>2, <3>2, <3>4, <3>5 DEF FirstRound
    <3>7. FirstRound(code, 1, n)'
      BY <1>7, <3>6, SameCommand
    <3> QED BY <1>1, <1>10, <2>2, <3>7 DEF Behind
  <2> QED BY <1>2, <2>1, <2>2 DEF Behind
<1>13. /\ (1 \in 1 .. Len(code))' /\ code'[1].op = "end"
       /\ Ahead(code, 1, T)' /\ ~AddAhead(code, 1)'
  <2>1. 1 .. 1 - 1 = {}
    OBVIOUS
  <2> QED BY <1>6, <1>7, <1>8, <2>1 DEF Ahead, AddAhead
<1>14. Staged(1)'
  BY <1>1, <1>13 DEF Staged
<1>15. Reached(T, 1)'
  <2>1. 1 .. 1 - 1 = {}
    OBVIOUS
  <2> QED BY <1>10, <2>1 DEF Reached, Loosely
<1>16. Before(1)'
  BY <1>1 DEF Before
<1>17. Coming(T, 1)'
  BY <1>2, <1>12, <1>13, <1>14, <1>15, <1>16 DEF Coming
<1>18. MemoryInv'
  BY <1>1, <1>4, SameCommand DEF MemoryInv, OnlyNumber
<1> QED BY <1>17, <1>18

(* At the end itself.                                                      *)
LEMMA AtEnd ==
    ASSUME IsStore, PoolFits, NEW T, NEW e, Coming(T, e), Doing("end")
    PROVE  /\ e = 1 /\ code[1].op = "end" /\ code # <<>> /\ Listed(code) /\ Sound(T)
           /\ Staged(1) /\ Reached(T, 1) /\ Behind(T, 1) /\ Before(1)
           /\ Ahead(code, 1, T) /\ 1 \in 1 .. Len(code) /\ Len(code) \in Nat
           /\ ~AddAhead(code, 1) /\ \A c : ~Stored(code, 1, c)
<1>1. code[1].op = "end" /\ code # <<>>
  BY AtHead
<1>2. e = 1 /\ Len(code) \in Nat /\ Listed(code)
  BY <1>1, StoreHas, WhereItIs
<1>3. 1 .. 1 - 1 = {}
  OBVIOUS
<1>4. ~AddAhead(code, 1) /\ \A c : ~Stored(code, 1, c)
  BY <1>3 DEF AddAhead, Stored
<1> QED BY <1>1, <1>2, <1>4 DEF Coming

LEMMA CommitStep ==
    ASSUME IsStore, PoolFits, MemoryInv, NEW T, NEW e, Coming(T, e), TxCommit,
           UNCHANGED <<program, cmd, acked>>
    PROVE  MemoryInv' /\ Coming(T, 1)' /\ cache = T
<1>1. /\ stage = "WORK" /\ stage' = "ONCOMMIT" /\ log' = Nothing
      /\ UNCHANGED <<cache, code, failed>> /\ medium' = Overlay(Part(cache, DOMAIN log), medium)
      /\ UNCHANGED <<program, cmd, acked>> /\ Doing("end")
  BY DEF TxCommit
<1>2. /\ code[1].op = "end" /\ Sound(T) /\ Reached(T, 1) /\ Behind(T, 1) /\ Before(1)
      /\ Ahead(code, 1, T) /\ 1 \in 1 .. Len(code)
      /\ ~AddAhead(code, 1) /\ \A c : ~Stored(code, 1, c)
  BY <1>1, AtEnd
<1>3. ~Undone(1)
  BY <1>1 DEF Undone
<1>4. cache = T
  <2>1. \A c \in KVstruct : cache[c] = T[c]
    BY <1>2, <1>3 DEF Reached
  <2> QED BY <1>2, <2>1, StoreHas DEF Sound
<1>5. /\ HalfWritten' = HalfWritten /\ Intended' = Intended /\ acked' = acked
      /\ Logs' = Logs
  BY <1>1, SameCommand
<1>6. failed => HalfWritten /\ LastRound(code, 1)
  BY <1>2, <1>3 DEF Behind
<1>7. Behind(T, 1)'
  <2>1. CASE LastRound(code, 1)
    <3>1. IF failed THEN HalfWritten ELSE List(T) = Intended
      BY <1>2, <1>3, <1>6, <2>1 DEF Behind, LastRound, FirstRound
    <3>2. LastRound(code, 1)'
      BY <1>1, <2>1 DEF LastRound
    <3> QED BY <1>1, <1>5, <3>1, <3>2 DEF Behind
  <2>2. ASSUME NEW n \in 0 .. MAX_STORE, FirstRound(code, 1, n),
               IF failed THEN Undone(1) ELSE List(T) = acked /\ List(Counted(T, n)) = Intended
        PROVE  Behind(T, 1)'
    <3>1. FirstRound(code, 1, n)'
      BY <1>1, <2>2, SameCommand
    <3> QED BY <1>1, <1>3, <1>5, <2>2, <3>1 DEF Behind
  <2> QED BY <1>2, <2>1, <2>2 DEF Behind
<1>8. Staged(1)' /\ Before(1)'
  BY <1>1, <1>2 DEF Staged, Before
<1>9. Reached(T, 1)'
  <2>1. 1 .. 1 - 1 = {}
    OBVIOUS
  <2> QED BY <1>1, <1>4, <2>1 DEF Reached, Loosely
<1>10. Ahead(code, 1, T)'
  BY <1>1, <1>2, SameCommand
<1>11. Coming(T, 1)'
  BY <1>1, <1>2, <1>7, <1>8, <1>9, <1>10 DEF Coming
<1>12. ASSUME Logs PROVE OnlyNumber'
  <2>1. CASE log = Nothing
    <3>1. OnlyNumber
      BY <1>12, <2>1 DEF MemoryInv
    <3>2. medium' = medium
      BY <1>1, <2>1, StoreHas DEF Overlay, Part
    <3> QED BY <1>1, <3>1, <3>2 DEF OnlyNumber
  <2>2. CASE log # Nothing
    <3>1. Sound(log)
      BY <1>12, <2>2 DEF MemoryInv
    <3>2. DOMAIN log = KVstruct
      BY <3>1 DEF Sound
    <3>3. \A c \in KVstruct : medium'[c] = cache[c]
      BY <1>1, <3>2, StoreHas DEF Overlay, Part
    <3>4. cache[number] \in 0 .. MAX_STORE /\ number \in KVstruct /\ MAX_STORE \in Nat
      BY StoreHas
    <3>5. cache[number] <= medium'[number]
      BY <3>3, <3>4
    <3> QED BY <1>1, <3>3, <3>5 DEF OnlyNumber
  <2> QED BY <2>1, <2>2
<1>13. MemoryInv'
  BY <1>1, <1>2, <1>4, <1>5, <1>12 DEF MemoryInv
<1> QED BY <1>4, <1>11, <1>13

LEMMA ProcessStep ==
    ASSUME IsStore, PoolFits, MemoryInv, NEW T, NEW e, Coming(T, e), TxProcess,
           UNCHANGED <<program, cmd, acked>>
    PROVE  MemoryInv' /\ Coming(T, 1)'
<1>1. /\ stage # "WORK" /\ stage' # "WORK" /\ UNCHANGED <<cache, medium, log, code, failed>>
      /\ UNCHANGED <<program, cmd, acked>> /\ Doing("end")
  BY DEF TxProcess, contents
<1>2. /\ code[1].op = "end" /\ Sound(T) /\ Staged(1) /\ Reached(T, 1) /\ Behind(T, 1)
      /\ Before(1) /\ Ahead(code, 1, T) /\ 1 \in 1 .. Len(code)
  BY <1>1, AtEnd
<1>3. Undone(1)' = Undone(1)
  BY <1>1 DEF Undone
<1>4. /\ HalfWritten' = HalfWritten /\ Intended' = Intended /\ acked' = acked
      /\ Logs' = Logs
  BY <1>1, SameCommand
<1>5. Behind(T, 1)'
  <2>1. CASE LastRound(code, 1) /\ IF failed THEN HalfWritten \/ (Undone(1) /\ List(cache) = acked)
                                   ELSE List(T) = Intended
    <3>1. LastRound(code, 1)'
      BY <1>1, <2>1 DEF LastRound
    <3> QED BY <1>1, <1>3, <1>4, <2>1, <3>1 DEF Behind
  <2>2. ASSUME NEW n \in 0 .. MAX_STORE, FirstRound(code, 1, n),
               IF failed THEN Undone(1) ELSE List(T) = acked /\ List(Counted(T, n)) = Intended
        PROVE  Behind(T, 1)'
    <3>1. FirstRound(code, 1, n)'
      BY <1>1, <2>2, SameCommand
    <3> QED BY <1>1, <1>3, <1>4, <2>2, <3>1 DEF Behind
  <2> QED BY <1>2, <2>1, <2>2 DEF Behind
<1>6. Staged(1)' /\ Before(1)'
  BY <1>1, <1>2, <1>4 DEF Staged, Before, Broken, AddAhead
<1>7. Reached(T, 1)'
  BY <1>1, <1>2, <1>3 DEF Reached, Loosely, Stored, AddAhead
<1>8. Ahead(code, 1, T)'
  BY <1>1, <1>2, SameCommand
<1>9. Coming(T, 1)'
  BY <1>1, <1>2, <1>5, <1>6, <1>7, <1>8 DEF Coming
<1> QED BY <1>1, <1>4, <1>9 DEF MemoryInv, OnlyNumber

LEMMA EndStep ==
    ASSUME IsStore, PoolFits, MemoryInv, NEW T, NEW e, Coming(T, e), TxEnd,
           UNCHANGED <<program, cmd, acked>>
    PROVE  MemoryInv' /\ (Ended' \/ \E T1, e1 : Coming(T1, e1)')
<1>1. /\ stage = "NONE" /\ UNCHANGED <<cache, medium, log, stage, failed>>
      /\ code' = Tail(code) /\ UNCHANGED <<program, cmd, acked>> /\ Doing("end")
  BY DEF TxEnd, contents, Rest
<1>2. /\ code # <<>> /\ Listed(code) /\ Sound(T) /\ Staged(1) /\ Reached(T, 1) /\ Behind(T, 1)
      /\ Len(code) \in Nat /\ \A c : ~Stored(code, 1, c)
  BY <1>1, AtEnd
<1>3. log = Nothing /\ Sound(cache)
  BY <1>1, <1>2 DEF Staged, MemoryInv
<1>4. failed \/ cache = T
  <2>1. failed \/ \A c \in KVstruct : cache[c] = T[c]
    BY <1>2 DEF Reached, Undone
  <2> QED BY <1>2, <2>1, StoreHas DEF Sound
<1>5. /\ HalfWritten' = HalfWritten /\ Intended' = Intended /\ acked' = acked
      /\ Logs' = Logs /\ Broken' = Broken /\ failed' = failed
  BY <1>1, SameCommand DEF Broken
<1>6. MemoryInv'
  BY <1>1, <1>5 DEF MemoryInv, OnlyNumber
<1> DEFINE u == Tail(code)
<1>7. /\ Len(u) = Len(code) - 1
      /\ \A i \in 1 .. Len(code) - 1 : u[i] = code[i + 1]
  BY <1>2, Popped
<1> HIDE DEF u
<1>8. code' = u
  BY <1>1 DEF u
<1>9. ASSUME LastRound(code, 1),
             IF failed THEN HalfWritten \/ (Undone(1) /\ List(cache) = acked)
             ELSE List(T) = Intended
      PROVE  Ended'
  <2>1. Len(code) = 2 /\ code[2].op = "close"
    BY <1>9 DEF LastRound
  <2>2. Len(u) = 1 /\ u[1] = code[2]
    BY <1>7, <2>1
  <2>3. Len(code') <= 1 /\ code'[1].op = "close"
    BY <1>8, <2>1, <2>2
  <2>4. Broken \/ List(cache) = IF failed THEN acked ELSE Intended
    BY <1>4, <1>9 DEF Broken
  <2> QED BY <1>1, <1>3, <1>5, <2>3, <2>4 DEF Ended
<1>10. ASSUME NEW n \in 0 .. MAX_STORE, FirstRound(code, 1, n),
              IF failed THEN Undone(1) ELSE List(T) = acked /\ List(Counted(T, n)) = Intended
       PROVE  \E T1, e1 : Coming(T1, e1)'
  <2>0. PICK g : g = Counted(cache, n)
    OBVIOUS
  <2>1. Sound(g) /\ g[number] = n /\ \A c \in KVstruct : c # number => g[c] = cache[c]
    BY <1>3, <2>0, CountedIs
  <2>2. /\ HalfWritten /\ Len(code) = 6
        /\ code[2].op = "begin" /\ code[3].op = "add" /\ code[3].cells = KVstruct
        /\ code[4].op = "store" /\ DOMAIN code[4].to = {number} /\ code[4].to[number] = n
        /\ code[5].op = "end" /\ code[6].op = "close"
    <3>1. /\ 1 + 1 = 2 /\ 1 + 2 = 3 /\ 1 + 3 = 4 /\ 1 + 4 = 5 /\ 1 + 5 = 6
      OBVIOUS
    <3> QED BY <1>10, <3>1 DEF FirstRound
  <2>3. /\ Len(u) = 5 /\ u[1] = code[2] /\ u[2] = code[3] /\ u[3] = code[4]
        /\ u[4] = code[5] /\ u[5] = code[6]
    BY <1>7, <2>2
  <2>4. KVstruct # {}
    BY CellsAre
  <2>5. failed \/ (List(cache) = acked /\ List(g) = Intended)
    BY <1>4, <1>10, <2>0
  <2>6. Ahead(u, 4, g)
    <3>1. \A j \in 1 .. 4 - 1 : j = 1 \/ j = 2 \/ j = 3
      OBVIOUS
    <3> QED BY <2>1, <2>2, <2>3, <2>4, <3>1 DEF Ahead
  <2>7. AddAhead(u, 4) /\ \A c \in KVstruct : cache[c] = g[c] \/ Stored(u, 4, c)
    <3>1. 2 \in 1 .. 4 - 1 /\ 3 \in 1 .. 4 - 1
      OBVIOUS
    <3> QED BY <2>1, <2>2, <2>3, <3>1 DEF AddAhead, Stored
  <2>8. LastRound(u, 4)
    BY <2>2, <2>3 DEF LastRound
  <2>9. Staged(4)'
    BY <1>1, <1>3, <1>8, <2>2, <2>3 DEF Staged
  <2>10. Reached(g, 4)'
    BY <1>1, <1>8, <2>7 DEF Reached, AddAhead, Stored
  <2>11. Behind(g, 4)'
    <3>1. LastRound(code, 4)'
      BY <1>8, <2>8 DEF LastRound
    <3> QED BY <1>5, <2>2, <2>5, <3>1 DEF Behind
  <2>12. Before(4)'
    BY <1>1, <1>3, <1>5, <2>2, <2>5 DEF Before, Broken
  <2>13. Ahead(code, 4, g)'
    BY <1>1, <1>8, <2>6, SameCommand
  <2>14. (4 \in 1 .. Len(code))' /\ code'[4].op = "end"
    BY <1>8, <2>2, <2>3
  <2>15. Coming(g, 4)'
    BY <2>1, <2>9, <2>10, <2>11, <2>12, <2>13, <2>14 DEF Coming
  <2> QED BY <2>15
<1>11. Ended' \/ \E T1, e1 : Coming(T1, e1)'
  BY <1>2, <1>9, <1>10 DEF Behind
<1> QED BY <1>6, <1>11

LEMMA CloseStep ==
    ASSUME PoolFits, MemoryInv, Ended, ClosePool, UNCHANGED <<program, cmd, acked>>
    PROVE  MemoryInv' /\ Ended'
<1>1. /\ UNCHANGED <<cache, medium, log, failed>> /\ code' = Tail(code)
      /\ UNCHANGED <<program, cmd, acked>> /\ code # <<>>
  BY DEF ClosePool, contents, Rest, Doing
<1>2. Listed(code) /\ Len(code) <= 1
  BY DEF PoolFits, CodeFits, Ended
<1>3. Len(Tail(code)) = 0 /\ Listed(Tail(code))
  <2>1. /\ Len(code) \in Nat \ {0} /\ Len(Tail(code)) = Len(code) - 1
        /\ Listed(Tail(code))
    BY <1>1, <1>2, Popped
  <2> QED BY <1>2, <2>1
<1>4. Tail(code) = <<>>
  <2>1. PICK S : Tail(code) \in Seq(S)
    BY <1>3, ListedIs
  <2> QED BY <1>3, <2>1, EmptySeq
<1>5. Len(code') <= 1 /\ code' = <<>>
  BY <1>1, <1>3, <1>4
<1>6. /\ Logs' = Logs /\ Intended' = Intended /\ Broken' = Broken
  BY <1>1, SameCommand DEF Broken
<1>7. Ended'
  BY <1>1, <1>5, <1>6 DEF Ended
<1> QED BY <1>1, <1>6, <1>7 DEF MemoryInv, OnlyNumber

(* Whatever the process does next, its command comes to the end it should. *)
LEMMA WorkStep ==
    ASSUME IsStore, PoolFits, MemoryInv, WorkInv, Work
    PROVE  MemoryInv' /\ WorkInv'
<1>1. /\ PoolStep /\ UNCHANGED <<program, cmd, acked>>
      /\ spoiled' = (spoiled \/ (failed' /\ HalfWritten))
  BY DEF Work, now
<1>2. Broken' => spoiled'
  BY <1>1, SameCommand DEF Broken
<1>3. ASSUME Ended PROVE MemoryInv' /\ Ended'
  <2>1. \A op : Doing(op) => op = "close"
    BY <1>3, AtHead DEF Ended
  <2>2. ClosePool
    BY <1>1, <2>1 DEF PoolStep, Store, PersistRange, AllocObject, TxBegin, TxAdd, TxAddFails,
       TxCommit, TxProcess, TxEnd
  <2> QED BY <1>1, <1>3, <2>2, CloseStep
<1>4. ASSUME NEW T, NEW e, Coming(T, e)
      PROVE  MemoryInv' /\ (Ended' \/ \E T1, e1 : Coming(T1, e1)')
  <2>1. \A op : Doing(op) => op \in {"begin", "add", "store", "end"}
    <3>1. code[1].op \in {"begin", "add", "store", "end"}
      BY <1>4, StoreHas, WhereItIs
    <3> QED BY <3>1, AtHead
  <2>2. ~PersistRange /\ ~AllocObject /\ ~ClosePool
    BY <2>1 DEF PersistRange, AllocObject, ClosePool
  <2>3. CASE TxBegin
    BY <1>1, <1>4, <2>3, BeginStep
  <2>4. CASE TxAdd
    BY <1>1, <1>4, <2>4, AddStep
  <2>5. CASE Store
    BY <1>1, <1>4, <2>5, StoreStep
  <2>6. CASE TxAddFails
    BY <1>1, <1>4, <2>6, AddFailsStep
  <2>7. CASE TxCommit
    BY <1>1, <1>4, <2>7, CommitStep
  <2>8. CASE TxProcess
    BY <1>1, <1>4, <2>8, ProcessStep
  <2>9. CASE TxEnd
    BY <1>1, <1>4, <2>9, EndStep
  <2> QED BY <1>1, <2>2, <2>3, <2>4, <2>5, <2>6, <2>7, <2>8, <2>9 DEF PoolStep
<1> QED BY <1>2, <1>3, <1>4 DEF WorkInv

-----------------------------------------------------------------------------
(* Reads; what is found when the file is opened. *)

(* What a read is to print.                                                *)
Shows(out, e) == IsPrefix(e.key, out[1]) /\ out[2] = e.value

Shown(c, out, list) ==
    CASE c.name = "read_all" ->
             Len(out) = Len(list) /\ \A i \in DOMAIN list : Shows(out[i], list[i])
      [] c.name = "read_id" -> c.id < Len(list) => Shows(out[1], list[c.id + 1])
      [] c.name = "read" ->
             IF Promise!Named(c.key, list) = {} THEN out = <<>>
             ELSE out # <<>> /\ Shows(out[1], list[Promise!Lowest(Promise!Named(c.key, list))])

LEMMA ShownIs ==
    ReadShowsStore <=> (Intact /\ phase = "running" /\ Reading => Shown(cmd, answer, acked))
BY DEF ReadShowsStore, Shown, Shows

LEMMA PrintedShows ==
    ASSUME NEW mem, Sound(mem), NEW i \in Slot
    PROVE  Shows(Printed(mem, i), EntryAt(mem, i + 1))
<1> DEFINE k == mem[key(i)]
<1> DEFINE n == mem[keylen(i)]
<1>1. k \in Seq(Nat) /\ n \in 0 .. Len(k) /\ Len(k) \in Nat
  BY LenProperties DEF Sound
<1>2. PICK m : m = i + 1 /\ m - 1 = i
  BY StoreAssumption DEF Slot
<1> DEFINE p == Prefix(k, n)
<1>3. EntryAt(mem, m) = [key |-> p, value |-> mem[value(i)]]
  <2>1. EntryAt(mem, m) = [key |-> Prefix(mem[key(m - 1)], mem[keylen(m - 1)]),
                           value |-> mem[value(m - 1)]]
    BY Zenon DEF EntryAt
  <2> QED BY <1>2, <2>1, Zenon
<1>4. /\ p \in Seq(Nat) /\ Len(p) = n /\ p = SubSeq(k, 1, n)
      /\ \A j \in 1 .. n : p[j] = k[j]
  BY <1>1, PrefixIs
<1> HIDE DEF p
<1>5. SubSeq(p, 1, n) = p
  <2>1. n \in 0 .. Len(p)
    BY <1>1, <1>4
  <2>2. /\ SubSeq(p, 1, n) \in Seq(Nat) /\ Len(SubSeq(p, 1, n)) = n
        /\ \A j \in 1 .. n : SubSeq(p, 1, n)[j] = p[j]
    BY <1>4, <2>1, PrefixIs
  <2> QED BY <1>4, <2>2, SeqEqual
<1>6. IsPrefix(p, k)
  BY <1>1, <1>4, <1>5 DEF IsPrefix
<1>7. Printed(mem, i) = <<k, mem[value(i)]>>
  BY DEF Printed
<1> HIDE DEF k, n
<1>8. Printed(mem, i)[1] = k /\ Printed(mem, i)[2] = mem[value(i)]
  BY <1>7
<1>9. EntryAt(mem, m).key = p /\ EntryAt(mem, m).value = mem[value(i)]
  BY <1>3
<1> QED BY <1>2, <1>6, <1>8, <1>9, Zenon DEF Shows

LEMMA ReadShows ==
    ASSUME IsStore, cmd \in CommandLines, ReadsOnly(cmd), NEW mem, Sound(mem)
    PROVE  Shown(cmd, Reads(program, cmd, mem), List(mem))
<1> DEFINE l == List(mem)
<1> DEFINE out == PmemKVS_read(mem, cmd)
<1>1. Reads(program, cmd, mem) = out
  BY KnownCommands DEF Reads, PmemKVS3_read, PmemKVS4_read
<1>2. /\ Len(l) = mem[number] /\ DOMAIN l = 1 .. mem[number]
      /\ mem[number] \in 0 .. MAX_STORE /\ MAX_STORE \in Nat
      /\ \A i \in 1 .. mem[number] : l[i] = EntryAt(mem, i)
  BY ListIs
<1> HIDE DEF l
<1>3. CASE cmd.name = "read_all"
  <2>1. out = [i \in 1 .. mem[number] |-> Printed(mem, i - 1)]
    BY <1>3 DEF PmemKVS_read
  <2> HIDE DEF out
  <2>2. Len(out) = Len(l)
    <3>1. mem[number] \in Nat
      BY <1>2
    <3> QED BY <1>2, <2>1, <3>1
  <2>3. ASSUME NEW i \in DOMAIN l PROVE Shows(out[i], l[i])
    <3>1. i - 1 \in Slot /\ i - 1 + 1 = i
      BY <1>2 DEF Slot
    <3>2. Shows(Printed(mem, i - 1), EntryAt(mem, i))
      BY <3>1, PrintedShows
    <3> QED BY <1>2, <2>1, <3>2
  <2> QED BY <1>1, <1>3, <2>2, <2>3 DEF Shown, l
<1>4. CASE cmd.name = "read_id"
  <2>1. out = <<Printed(mem, cmd.id)>>
    BY <1>4 DEF PmemKVS_read
  <2> HIDE DEF out
  <2>2. ASSUME cmd.id < Len(l) PROVE Shows(out[1], l[cmd.id + 1])
    <3>1. cmd.id \in 0 .. MAX_STORE - 1
      BY <1>4, KnownCommands, CommandsAssumption
    <3>2. cmd.id \in Slot /\ cmd.id + 1 \in 1 .. mem[number]
      BY <1>2, <2>2, <3>1 DEF Slot
    <3>3. Shows(Printed(mem, cmd.id), EntryAt(mem, cmd.id + 1))
      BY <3>2, PrintedShows
    <3> QED BY <1>2, <2>1, <3>2, <3>3
  <2> QED BY <1>1, <1>4, <2>2 DEF Shown, l
<1>5. CASE cmd.name = "read"
  <2>1. cmd.key \in Seq(Nat)
    BY <1>5, KnownCommands, CommandsAssumption
  <2>2. /\ Promise!Named(cmd.key, l) = {} <=> Found(mem, cmd.key) = {}
        /\ Found(mem, cmd.key) # {} =>
              /\ Promise!Lowest(Promise!Named(cmd.key, l)) = First(mem, cmd.key) + 1
              /\ First(mem, cmd.key) \in Slot /\ First(mem, cmd.key) < mem[number]
    BY <2>1, LowestIs DEF l
  <2>3. out = IF Found(mem, cmd.key) = {} THEN <<>> ELSE <<Printed(mem, First(mem, cmd.key))>>
    BY <1>5 DEF PmemKVS_read
  <2> HIDE DEF out
  <2>4. ASSUME Found(mem, cmd.key) # {}
        PROVE  out # <<>> /\ Shows(out[1], l[First(mem, cmd.key) + 1])
    <3>1. First(mem, cmd.key) + 1 \in 1 .. mem[number]
      BY <1>2, <2>2, <2>4 DEF Slot
    <3>2. Shows(Printed(mem, First(mem, cmd.key)), EntryAt(mem, First(mem, cmd.key) + 1))
      BY <2>2, <2>4, PrintedShows
    <3> QED BY <1>2, <2>3, <2>4, <3>1, <3>2
  <2> QED BY <1>1, <1>5, <2>2, <2>3, <2>4, Zenon DEF Shown, l
<1> QED BY <1>3, <1>4, <1>5 DEF ReadsOnly

(* What opening the file makes of a store.                                 *)
LEMMA RecoveredIs ==
    ASSUME IsStore, PoolFits, MemoryInv, Logs \/ log = Nothing
    PROVE  /\ Sound(Recovered(cache))
           /\ Logs => /\ \A c \in KVstruct : c # number =>
                             Recovered(medium)[c] = Recovered(cache)[c]
                      /\ Recovered(cache)[number] <= Recovered(medium)[number]
           /\ Logs => Sound(Recovered(medium))
           /\ log # Nothing => Recovered(cache) = log /\ Recovered(medium) = log
<1>1. CASE log = Nothing
  <2>1. Recovered(cache) = cache /\ Recovered(medium) = medium /\ Sound(cache)
    BY <1>1, Recovering DEF MemoryInv
  <2>2. ASSUME Logs PROVE Sound(medium) /\ OnlyNumber
    <3>1. OnlyNumber
      BY <1>1, <2>2 DEF MemoryInv
    <3>2. medium = Counted(cache, medium[number])
      BY <3>1, StoreHas DEF OnlyNumber, Counted
    <3>3. medium[number] \in 0 .. MAX_STORE
      BY StoreHas
    <3> QED BY <2>1, <3>1, <3>2, <3>3, CountedIs
  <2> QED BY <1>1, <2>1, <2>2 DEF OnlyNumber
<1>2. CASE log # Nothing
  <2>1. Logs /\ Sound(log) /\ log = [c \in KVstruct |-> log[c]]
    BY <1>2 DEF MemoryInv, Sound
  <2>2. Recovered(cache) = log /\ Recovered(medium) = log
    BY <2>1, StoreHas DEF Recovered, Overlay
  <2>3. log[number] <= log[number]
    BY <2>1, StoreAssumption DEF Sound
  <2> QED BY <1>2, <2>1, <2>2, <2>3
<1> QED BY <1>1, <1>2

(* The store and what is to come of it, whatever happened.                 *)
StoreInv == fails \in Nat /\
    (Intact =>
        /\ MemoryInv
        /\ Logs \/ phase = "running" \/ log = Nothing
        /\ phase # "running" => List(Recovered(cache)) = acked
        /\ phase = "running" => WorkInv)

LEMMA StoreInit ==
    ASSUME Init PROVE StoreInv /\ ReadShowsStore
<1>1. /\ cache = Cells(program) /\ medium = cache /\ log = Nothing /\ phase = "idle"
      /\ acked = <<>> /\ fails = 0
  BY DEF Init
<1>2. ASSUME IsStore PROVE Sound(cache) /\ List(cache) = <<>> /\ OnlyNumber
  <2>1. cache = ZeroStruct /\ cache[number] = 0
    BY <1>1, <1>2, ZeroFits
  <2>2. ASSUME NEW i \in Slot
        PROVE  cache[key(i)] = <<>> /\ cache[keylen(i)] = 0 /\ cache[value(i)] = 0
    BY <2>1, CellsAre DEF ZeroStruct, key, keylen, value
  <2>3. <<>> \in Seq(Nat) /\ Len(<<>>) = 0 /\ 0 \in 0 .. 0
    BY EmptySeq
  <2>4. cache = [c \in KVstruct |-> cache[c]] /\ 0 \in 0 .. MAX_STORE /\ 0 \in Int /\ 0 <= 0
    BY <2>1, StoreAssumption DEF ZeroStruct
  <2>5. Sound(cache)
    BY <2>1, <2>2, <2>3, <2>4 DEF Sound
  <2>6. List(cache) \in Seq(Entry) /\ Len(List(cache)) = 0
    BY <2>1, <2>5, ListIs
  <2> QED BY <1>1, <2>1, <2>4, <2>5, <2>6, EmptySeq DEF OnlyNumber
<1>3. Recovered(cache) = cache
  BY <1>1, Recovering, TypeInit DEF TypeInv
<1> QED BY <1>1, <1>2, <1>3 DEF StoreInv, ReadShowsStore, Intact, MemoryInv

(* A file opened holds what was recovered, and nothing is under way.       *)
LEMMA OpenedStore ==
    ASSUME IsStore, PoolFits, MemoryInv, Logs \/ log = Nothing,
           NEW s, OpenPool(s), UNCHANGED <<program, cmd, acked>>,
           List(Recovered(cache)) = acked
    PROVE  /\ MemoryInv' /\ Sound(cache)' /\ log' = Nothing /\ code' = s /\ stage' = "NONE"
           /\ failed' = FALSE /\ ~Broken' /\ (List(cache) = acked)'
           /\ cache' = Recovered(cache) /\ Sound(Recovered(cache))
<1>1. /\ cache' = Recovered(cache) /\ medium' = Recovered(medium) /\ log' = Nothing
      /\ code' = s /\ stage' = "NONE" /\ failed' = FALSE
  BY DEF OpenPool
<1>2. /\ Sound(Recovered(cache))
      /\ Logs => /\ \A c \in KVstruct : c # number =>
                        Recovered(medium)[c] = Recovered(cache)[c]
                 /\ Recovered(cache)[number] <= Recovered(medium)[number]
  BY RecoveredIs
<1>3. Sound(cache)'
  BY <1>1, <1>2
<1>4. MemoryInv'
  BY <1>1, <1>2, <1>3, SameCommand DEF MemoryInv, OnlyNumber
<1> QED BY <1>1, <1>2, <1>3, <1>4 DEF Broken

LEMMA EndsAtOnce ==
    ASSUME IsStore, PoolFits, MemoryInv, Logs \/ log = Nothing,
           NEW s, OpenPool(s), UNCHANGED <<program, cmd, acked>>,
           List(Recovered(cache)) = acked,
           Listed(s), Len(s) = 1, s[1].op = "close", acked = Promise!Effect(cmd, acked)
    PROVE  MemoryInv' /\ WorkInv'
<1>1. /\ MemoryInv' /\ log' = Nothing /\ code' = s /\ failed' = FALSE /\ ~Broken'
      /\ (List(cache) = acked)'
  BY OpenedStore
<1>2. Intended' = Intended /\ acked' = acked
  BY SameCommand
<1>3. (List(cache) = Intended)'
  BY <1>1, <1>2 DEF Intended
<1>4. Len(code') <= 1 /\ code'[1].op = "close"
  <2>1. Len(code') = 1 /\ code'[1].op = "close"
    BY <1>1, Zenon
  <2> QED BY <2>1
<1>5. Ended'
  BY <1>1, <1>3, <1>4 DEF Ended
<1> QED BY <1>1, <1>5 DEF WorkInv

LEMMA RoundOpens ==
    ASSUME IsStore, PoolFits, MemoryInv, Logs \/ log = Nothing,
           NEW s, OpenPool(s), UNCHANGED <<program, cmd, acked>>,
           List(Recovered(cache)) = acked,
           NEW T, NEW e, Round(s, e, T, Recovered(cache))
    PROVE  MemoryInv' /\ WorkInv'
<1> DEFINE mem == Recovered(cache)
<1>1. /\ MemoryInv' /\ log' = Nothing /\ code' = s /\ stage' = "NONE" /\ failed' = FALSE
      /\ ~Broken' /\ (List(cache) = acked)' /\ cache' = mem
  BY OpenedStore
<1>2. /\ e \in 2 .. Len(s) /\ s[1].op = "begin" /\ s[e].op = "end" /\ Sound(T)
      /\ Ahead(s, e, T) /\ Len(s) \in Nat
      /\ \A c \in KVstruct : mem[c] = T[c] \/ Stored(s, e, c)
      /\ AddAhead(s, e) \/ Loosely(s, e, T, mem)
  BY DEF Round, Listed
<1>3. /\ List(mem) = acked /\ Intended' = Intended /\ acked' = acked
  BY SameCommand
<1>4. Behind(T, e)'
  <2>1. CASE LastRound(s, e) /\ List(T) = Promise!Effect(cmd, List(mem))
    <3>1. LastRound(code, e)'
      BY <1>1, <2>1 DEF LastRound
    <3>2. (List(T) = Intended)'
      BY <1>3, <2>1 DEF Intended
    <3> QED BY <1>1, <3>1, <3>2 DEF Behind
  <2>2. ASSUME NEW n \in 0 .. MAX_STORE, FirstRound(s, e, n), List(T) = List(mem),
               List(Counted(T, n)) = Promise!Effect(cmd, List(mem))
        PROVE  Behind(T, e)'
    <3>1. FirstRound(code, e, n)'
      BY <1>1, <2>2, SameCommand
    <3>2. (List(T) = acked)' /\ (List(Counted(T, n)) = Intended)'
      BY <1>3, <2>2 DEF Intended
    <3> QED BY <1>1, <3>1, <3>2 DEF Behind
  <2> QED BY <2>1, <2>2 DEF Round
<1>5. (e \in 1 .. Len(code))' /\ code'[e].op = "end" /\ e > 1
  BY <1>1, <1>2
<1>6. Ahead(code, e, T)'
  BY <1>1, <1>2, SameCommand
<1>7. Staged(e)'
  BY <1>1, <1>2, <1>5 DEF Staged
<1> HIDE DEF mem
<1>8. Reached(T, e)'
  BY <1>1, <1>2 DEF Reached, Stored, AddAhead, Loosely
<1>9. Before(e)'
  BY <1>1 DEF Before
<1>10. Coming(T, e)'
  BY <1>2, <1>4, <1>5, <1>6, <1>7, <1>8, <1>9 DEF Coming
<1> QED BY <1>1, <1>10 DEF WorkInv

(* A write-back is not seen by the process, and brings the number closer.  *)
LEMMA WriteBackKeeps ==
    ASSUME IsStore, PoolFits, MemoryInv, Evict, UNCHANGED program
    PROVE  MemoryInv'
<1>1. /\ \A c \in KVstruct : medium'[c] = medium[c] \/ medium'[c] = cache[c]
      /\ UNCHANGED <<cache, log>>
  BY EvictIs, StoreCells DEF Evict
<1>2. /\ number \in KVstruct /\ cache[number] \in 0 .. MAX_STORE /\ MAX_STORE \in Nat
  BY StoreHas
<1>3. Logs' = Logs
  BY DEF Logs
<1>4. ASSUME OnlyNumber PROVE OnlyNumber'
  <2>1. cache[number] <= medium[number] /\ cache[number] <= cache[number]
    BY <1>2, <1>4 DEF OnlyNumber
  <2> QED BY <1>1, <1>2, <1>4, <2>1 DEF OnlyNumber
<1> QED BY <1>1, <1>3, <1>4 DEF MemoryInv

LEMMA WorkSame ==
    ASSUME WorkInv, UNCHANGED <<cache, log, code, stage, failed, program, cmd, acked, spoiled>>
    PROVE  WorkInv'
<1>1. /\ HalfWritten' = HalfWritten /\ Intended' = Intended /\ Logs' = Logs
      /\ Broken' = Broken
  BY SameCommand DEF Broken
<1>2. Ended => Ended'
  BY <1>1 DEF Ended
<1>3. ASSUME NEW T, NEW e, Coming(T, e) PROVE Coming(T, e)'
  <2>1. /\ e \in 1 .. Len(code) /\ code[e].op = "end" /\ Sound(T) /\ Ahead(code, e, T)
        /\ Staged(e) /\ Reached(T, e) /\ Behind(T, e) /\ Before(e)
    BY <1>3 DEF Coming
  <2>2. Ahead(code, e, T)'
    BY <2>1, SameCommand
  <2>3. Staged(e)' /\ Reached(T, e)' /\ Before(e)'
    BY <1>1, <2>1 DEF Staged, Reached, Before, Undone, AddAhead, Stored, Loosely
  <2>4. Undone(e)' = Undone(e)
    BY DEF Undone
  <2>5. Behind(T, e)'
    <3>1. CASE LastRound(code, e) /\ IF failed THEN HalfWritten \/ (Undone(e) /\ List(cache) = acked)
                                     ELSE List(T) = Intended
      <4>1. LastRound(code, e)'
        BY <3>1 DEF LastRound
      <4> QED BY <1>1, <2>4, <3>1, <4>1 DEF Behind
    <3>2. ASSUME NEW n \in 0 .. MAX_STORE, FirstRound(code, e, n),
                 IF failed THEN Undone(e) ELSE List(T) = acked /\ List(Counted(T, n)) = Intended
          PROVE  Behind(T, e)'
      <4>1. FirstRound(code, e, n)'
        BY <3>2, SameCommand
      <4> QED BY <1>1, <2>4, <3>2, <4>1 DEF Behind
    <3> QED BY <2>1, <3>1, <3>2 DEF Behind
  <2> QED BY <2>1, <2>2, <2>3, <2>5 DEF Coming
<1> QED BY <1>1, <1>2, <1>3 DEF WorkInv

LEMMA MemorySame ==
    ASSUME MemoryInv, UNCHANGED <<cache, medium, log, program>>
    PROVE  MemoryInv' /\ Logs' = Logs
BY DEF MemoryInv, OnlyNumber, Logs

LEMMA RecoveredSame ==
    ASSUME UNCHANGED <<cache, log>> PROVE Recovered(cache)' = Recovered(cache)
BY DEF Recovered

(* When the machine fails, the undo log makes up for what was lost.        *)
LEMMA PowerKeeps ==
    ASSUME IsStore, PoolFits, MemoryInv, Logs, PowerFail, UNCHANGED program
    PROVE  MemoryInv' /\ Recovered(cache)' = Durable
<1>1. cache' = medium /\ UNCHANGED <<medium, log>> /\ Logs' = Logs
  BY DEF PowerFail, Logs
<1>2. Recovered(cache)' = Durable
  BY <1>1 DEF Recovered, Durable
<1>3. log = Nothing => Sound(medium)
  BY RecoveredIs, Recovering
<1>4. log = Nothing => OnlyNumber'
  <2>1. medium[number] \in 0 .. MAX_STORE /\ MAX_STORE \in Nat
    BY StoreHas
  <2> QED BY <1>1, <2>1 DEF OnlyNumber
<1> QED BY <1>1, <1>2, <1>3, <1>4 DEF MemoryInv

-----------------------------------------------------------------------------
(* All steps. *)

LEMMA OpenedToRead ==
    ASSUME TypeInv, StoreInv, OpenToRead, Intact
    PROVE  MemoryInv' /\ WorkInv' /\ Shown(cmd, answer, acked)'
<1>1. /\ IsStore /\ MemoryInv /\ (Logs \/ log = Nothing) /\ List(Recovered(cache)) = acked
      /\ phase = "opening" /\ cmd \in CommandLines
  BY DEF StoreInv, OpenToRead, Opening, Intact, TypeInv, CommandInv
<1>2. PoolFits /\ OpenPool(<<Close>>) /\ UNCHANGED <<program, cmd, acked>> /\ ReadsOnly(cmd)
  BY <1>1 DEF TypeInv, OpenToRead, Reading
<1>3. answer' = Reads(program, cmd, Recovered(cache))
  BY <1>1 DEF OpenToRead
<1>4. Listed(<<Close>>) /\ Len(<<Close>>) = 1 /\ <<Close>>[1].op = "close"
  <2>1. <<Close>> \in Seq({Close}) /\ Len(<<Close>>) = 1 /\ <<Close>>[1] = Close
    OBVIOUS
  <2>2. Close.op = "close"
    BY DEF Close
  <2> QED BY <2>1, <2>2, ListedIs
<1>5. acked = Promise!Effect(cmd, acked)
  BY <1>2, EffectIs DEF ReadsOnly
<1>6. MemoryInv' /\ WorkInv'
  BY <1>1, <1>2, <1>4, <1>5, EndsAtOnce
<1>7. Sound(Recovered(cache))
  BY <1>1, <1>2, OpenedStore
<1>8. Shown(cmd, answer', acked)
  BY <1>1, <1>2, <1>3, <1>7, ReadShows
<1>9. Shown(cmd, answer, acked)'
  BY <1>2, <1>8 DEF Shown, Shows
<1> QED BY <1>6, <1>9

LEMMA OpenedToWrite ==
    ASSUME TypeInv, StoreInv, OpenToWrite, Intact
    PROVE  MemoryInv' /\ WorkInv' /\ ~Reading'
<1>1. /\ IsStore /\ MemoryInv /\ (Logs \/ log = Nothing) /\ List(Recovered(cache)) = acked
      /\ phase = "opening" /\ cmd \in CommandLines /\ Legal(cmd) /\ PoolFits
  BY DEF StoreInv, OpenToWrite, Opening, Intact, TypeInv, CommandInv
<1> DEFINE mem == Recovered(cache)
<1> DEFINE s == Writes(program, cmd, mem, created)
<1>2. OpenPool(s) /\ UNCHANGED <<program, cmd, acked>> /\ ~ReadsOnly(cmd)
  BY <1>1 DEF OpenToWrite, Reading, past
<1>3. Sound(mem)
  BY <1>1, <1>2, OpenedStore
<1>4. created => mem[number] = 0
  <2> SUFFICES ASSUME created PROVE mem[number] = 0
    OBVIOUS
  <2>1. cache = Cells(program) /\ log = Nothing
    BY <1>1 DEF TypeInv, FileInv, Fresh
  <2> QED BY <1>1, <2>1, ZeroFits, Recovering
<1>5. /\ cmd.name = "write" => mem[number] < MAX_STORE
      /\ cmd.name = "number" => cmd.number <= mem[number]
  BY <1>1 DEF Legal
<1>6. \/ /\ Listed(s) /\ Len(s) = 1 /\ s[1].op = "close"
         /\ List(mem) = Promise!Effect(cmd, List(mem))
      \/ \E T, e : Round(s, e, T, mem)
  <2> HIDE DEF mem
  <2> QED BY <1>1, <1>2, <1>3, <1>4, <1>5, WriterRound
<1> HIDE DEF s
<1>7. MemoryInv' /\ WorkInv'
  <2>1. CASE /\ Listed(s) /\ Len(s) = 1 /\ s[1].op = "close"
             /\ List(mem) = Promise!Effect(cmd, List(mem))
    BY <1>1, <1>2, <2>1, EndsAtOnce
  <2>2. ASSUME NEW T, NEW e, Round(s, e, T, mem) PROVE MemoryInv' /\ WorkInv'
    BY <1>1, <1>2, <2>2, RoundOpens
  <2> QED BY <1>6, <2>1, <2>2
<1>8. ~Reading'
  BY <1>1, <1>2, SameCommand DEF Reading, ReadsOnly
<1> QED BY <1>7, <1>8

LEMMA ResultIs ==
    ASSUME IsStore, PoolFits, WorkInv, MemoryInv, Exit
    PROVE  log = Nothing /\ (List(Recovered(cache)) = acked)'
<1>1. /\ code = <<>> /\ acked' = Result /\ UNCHANGED <<cache, log>>
  BY DEF Exit, poolvars, contents
<1>2. Ended
  <2>1. \A T, e : ~Coming(T, e)
    BY <1>1, StoreHas, WhereItIs
  <2> QED BY <2>1 DEF WorkInv
<1>3. log = Nothing /\ (Broken \/ List(cache) = IF failed THEN acked ELSE Intended)
  BY <1>2 DEF Ended
<1>4. Result = List(cache)
  BY <1>3 DEF Result, Entries, Broken, Intended
<1>5. Recovered(cache) = cache
  BY <1>3, StoreHas
<1> QED BY <1>1, <1>3, <1>4, <1>5, RecoveredSame

LEMMA StoreInvStep ==
    ASSUME TypeInv, StoreInv, ReadShowsStore, [Next]_vars
    PROVE  StoreInv' /\ ReadShowsStore'
<1>1. UNCHANGED program /\ fails' \in Nat /\ (fails' = 0 => fails = 0)
  BY DEF Next, vars, now, past, Start, Create, Complete, CannotOpen, OpenToRead, ReaderDies,
     OpenToWrite, Work, Aborts, Exit, WriteBack, Killed, PowerFails, Dies, StoreInv
<1>0. (Intact /\ phase = "running" /\ Reading => Shown(cmd, answer, acked))' => ReadShowsStore'
  BY DEF ReadShowsStore, Shown, Shows
<1>2. SUFFICES ASSUME Intact'
               PROVE  /\ MemoryInv' /\ (Logs \/ phase = "running" \/ log = Nothing)'
                      /\ (phase # "running" => List(Recovered(cache)) = acked)'
                      /\ (phase = "running" => WorkInv)'
                      /\ (phase = "running" /\ Reading => Shown(cmd, answer, acked))'
  BY <1>0, <1>1 DEF StoreInv
<1>3. /\ Intact /\ IsStore /\ IsStore' /\ MemoryInv /\ PoolFits
      /\ Logs \/ phase = "running" \/ log = Nothing
      /\ phase # "running" => List(Recovered(cache)) = acked
      /\ phase = "running" => WorkInv
      /\ phase = "running" /\ Reading => Shown(cmd, answer, acked)
  BY <1>1, <1>2, ShownIs DEF StoreInv, Intact, IsStore, TypeInv
<1>4. ASSUME UNCHANGED <<cache, medium, log, acked>>, phase # "running", phase' # "running"
      PROVE  /\ MemoryInv' /\ (Logs \/ log = Nothing)'
             /\ (List(Recovered(cache)) = acked)'
  BY <1>1, <1>3, <1>4, MemorySame, RecoveredSame
<1>5. ASSUME UNCHANGED <<cmd, answer, acked, created>>
      PROVE  (Reading => Shown(cmd, answer, acked)) => (Reading => Shown(cmd, answer, acked))'
  BY <1>1, <1>3, <1>5 DEF Shown, Shows, Reading
<1>6. CASE UNCHANGED vars
  <2>1. UNCHANGED <<cache, medium, log, code, stage, failed, cmd, acked, spoiled, phase,
                    answer, created>>
    BY <1>6 DEF vars, poolvars, contents, now, past
  <2>2. MemoryInv' /\ Logs' = Logs
    BY <1>1, <1>3, <2>1, MemorySame
  <2>3. (phase = "running" => WorkInv)'
    BY <1>1, <1>3, <2>1, WorkSame
  <2> QED BY <1>3, <1>5, <2>1, <2>2, <2>3, RecoveredSame
<1>7. ASSUME NEW c \in CommandLines, Start(c)
      PROVE  UNCHANGED <<cache, medium, log, acked>> /\ phase # "running" /\ phase' # "running"
  BY <1>7 DEF Start, poolvars, contents
<1>8. ASSUME Create \/ Complete \/ CannotOpen
      PROVE  UNCHANGED <<cache, medium, log, acked>> /\ phase # "running" /\ phase' # "running"
  BY <1>8 DEF Create, Complete, CannotOpen, CreateFile, FinishFile, poolvars, contents, now, past
<1>9. CASE OpenToRead
  <2>1. phase' = "running"
    BY <1>9 DEF OpenToRead
  <2> QED BY <1>3, <1>9, <2>1, OpenedToRead
<1>10. CASE ReaderDies
  BY <1>3, <1>10 DEF ReaderDies
<1>11. CASE OpenToWrite
  <2>1. phase' = "running"
    BY <1>11 DEF OpenToWrite
  <2> QED BY <1>3, <1>11, <2>1, OpenedToWrite
<1>12. CASE Work
  <2>1. phase = "running" /\ phase' = "running" /\ UNCHANGED <<cmd, answer, acked, created>>
    BY <1>12 DEF Work, now
  <2> QED BY <1>3, <1>5, <1>12, <2>1, WorkStep
<1>13. CASE Aborts
  <2>1. phase = "running" /\ Doing("abort")
    BY <1>13 DEF Aborts, AbortHere
  <2>2. code[1].op = "abort" /\ code # <<>>
    BY <1>3, <2>1, AtHead
  <2>3. ~Ended
    BY <2>2 DEF Ended
  <2>4. \A T, e : ~Coming(T, e)
    BY <1>3, <2>2, StoreHas, WhereItIs
  <2> QED BY <1>3, <2>1, <2>3, <2>4 DEF WorkInv
<1>14. CASE Exit
  <2>1. phase = "running" /\ phase' = "idle" /\ UNCHANGED <<cache, medium, log>>
    BY <1>14 DEF Exit, poolvars, contents
  <2>2. log = Nothing /\ (List(Recovered(cache)) = acked)'
    BY <1>3, <1>14, <2>1, ResultIs
  <2> QED BY <1>1, <1>3, <2>1, <2>2, MemorySame
<1>15. CASE WriteBack
  <2>1. /\ UNCHANGED <<cache, log, code, stage, failed, cmd, acked, spoiled, phase, answer, created>>
        /\ Evict
    BY <1>15 DEF WriteBack, Evict, now, past
  <2>2. MemoryInv'
    BY <1>1, <1>3, <2>1, WriteBackKeeps
  <2>3. (phase = "running" => WorkInv)' /\ Logs' = Logs
    BY <1>1, <1>3, <2>1, WorkSame DEF Logs
  <2> QED BY <1>3, <1>5, <2>1, <2>2, <2>3, RecoveredSame
<1>16. ASSUME NEW mem, Dies(mem) PROVE phase' = "idle" /\ acked' = Entries(mem) /\ Logs /\ Logs'
  <2>1. fails' # 0
    BY <1>16 DEF Dies, StoreInv
  <2> QED BY <1>1, <1>2, <1>16, <2>1 DEF Dies, Intact, Logs
<1>17. CASE Killed
  <2>1. UNCHANGED <<cache, medium, log>> /\ Dies(Recovered(cache))
    BY <1>17 DEF Killed, Kill, contents
  <2>2. phase' = "idle" /\ acked' = Entries(Recovered(cache)) /\ Logs'
    BY <1>16, <2>1
  <2> QED BY <1>1, <1>3, <2>1, <2>2, MemorySame, RecoveredSame DEF Entries
<1>18. CASE PowerFails
  <2>1. PowerFail /\ Dies(Durable)
    BY <1>18 DEF PowerFails
  <2>2. phase' = "idle" /\ acked' = Entries(Durable) /\ Logs /\ Logs'
    BY <1>16, <2>1
  <2>3. MemoryInv' /\ Recovered(cache)' = Durable
    BY <1>1, <1>3, <2>1, <2>2, PowerKeeps
  <2> QED BY <1>3, <2>2, <2>3 DEF Entries
<1>19. ASSUME UNCHANGED <<cache, medium, log, acked>>, phase # "running", phase' # "running"
       PROVE  /\ MemoryInv' /\ (Logs \/ phase = "running" \/ log = Nothing)'
              /\ (phase # "running" => List(Recovered(cache)) = acked)'
              /\ (phase = "running" => WorkInv)'
              /\ (phase = "running" /\ Reading => Shown(cmd, answer, acked))'
  BY <1>4, <1>19
<1> QED
  BY <1>6, <1>7, <1>8, <1>9, <1>10, <1>11, <1>12, <1>13, <1>14, <1>15, <1>17, <1>18, <1>19
  DEF Next

LEMMA StoreInvariant == Spec => [](TypeInv /\ StoreInv /\ ReadShowsStore)
<1>1. TypeInv /\ StoreInv /\ ReadShowsStore /\ [Next]_vars
      => (TypeInv /\ StoreInv /\ ReadShowsStore)'
  BY TypeStep, StoreInvStep
<1>2. Init => TypeInv /\ StoreInv /\ ReadShowsStore
  BY TypeInit, StoreInit
<1> QED BY <1>1, <1>2, PTL DEF Spec

(* The next process finds what the commands before it left, for stores of  *)
(* any size, keys that fit their field, any number of runs, and failures   *)
(* anywhere; of PmemKVS3.c, which logs eight bytes only, as long as        *)
(* nothing fails.                                                          *)
THEOREM NextFindsTheStore == Spec => []CacheHoldsStore
<1>1. StoreInv => CacheHoldsStore
  BY DEF StoreInv, CacheHoldsStore, Intact, Entries
<1> QED BY StoreInvariant, <1>1, PTL

(* A read prints the entry the key, or the id, names in the list that the  *)
(* commands before it made, or all entries (read_KVS, PmemKVS.c:74).       *)
THEOREM ReadersSeeTheStore == Spec => []ReadShowsStore
BY StoreInvariant, PTL

-----------------------------------------------------------------------------
(* Power failures. *)

(* What a power failure leaves of a store outside a transaction: what the  *)
(* caches hold, or more entries.                                           *)
LEMMA LooseList ==
    ASSUME IsStore, PoolFits, MemoryInv, Logs, log = Nothing
    PROVE  /\ Sound(medium) /\ Sound(cache) /\ Durable = medium /\ List(medium) \in Seq(Entry)
           /\ cache = medium \/
                 /\ cache[number] \in 0 .. Len(List(medium)) - 1
                 /\ List(cache) = SubSeq(List(medium), 1, cache[number])
           /\ cache[number] < medium[number] \/ cache = medium
           /\ Len(List(medium)) \in Nat
<1>1. Sound(cache) /\ OnlyNumber
  BY DEF MemoryInv
<1>2. /\ Durable = medium /\ cache = [c \in KVstruct |-> cache[c]]
      /\ medium = [c \in KVstruct |-> medium[c]] /\ number \in KVstruct
      /\ cache[number] \in 0 .. MAX_STORE /\ medium[number] \in 0 .. MAX_STORE
      /\ MAX_STORE \in Nat
  BY StoreHas
<1>3. Sound(medium)
  BY <1>1, RecoveredIs, Recovering
<1>4. List(medium) \in Seq(Entry) /\ Len(List(medium)) = medium[number]
  BY <1>3, ListIs
<1>5. CASE cache[number] = medium[number]
  <2>1. \A c \in KVstruct : cache[c] = medium[c]
    BY <1>1, <1>5 DEF OnlyNumber
  <2>2. cache = medium
    BY <1>2, <2>1
  <2> QED BY <1>1, <1>2, <1>3, <1>4, <2>2
<1>6. CASE cache[number] # medium[number]
  <2>1. cache[number] < medium[number] /\ cache[number] \in 0 .. medium[number]
    BY <1>1, <1>2, <1>6 DEF OnlyNumber
  <2>2. cache = Counted(medium, cache[number])
    BY <1>1, <1>2 DEF OnlyNumber, Counted
  <2>3. List(cache) = SubSeq(List(medium), 1, cache[number])
    BY <1>3, <2>1, <2>2, NumberList
  <2>4. cache[number] \in 0 .. Len(List(medium)) - 1
    BY <1>2, <1>4, <2>1
  <2> QED BY <1>1, <1>2, <1>3, <1>4, <2>1, <2>3, <2>4
<1> QED BY <1>5, <1>6

LEMMA LoggedList ==
    ASSUME IsStore, PoolFits, MemoryInv, Logs, log # Nothing
    PROVE  Sound(log) /\ Durable = log /\ DOMAIN log = KVstruct
<1>1. Sound(log)
  BY DEF MemoryInv
<1>2. Recovered(medium) = log
  BY RecoveredIs
<1> QED BY <1>1, <1>2, Recovering DEF Sound

LEMMA DurableIsSound ==
    ASSUME IsStore, PoolFits, MemoryInv, Logs
    PROVE  Sound(Durable) /\ List(Durable) \in Seq(Entry)
BY LooseList, LoggedList, ListIs

LEMMA KeptIs ==
    ASSUME IsStore, PoolFits, MemoryInv, Logs
    PROVE  Kept = IF log = Nothing THEN List(cache) ELSE List(log)
<1>1. DOMAIN medium = KVstruct /\ number \in KVstruct /\ Entries(Durable) = List(Durable)
  BY StoreHas DEF Entries
<1>2. CASE log = Nothing
  <2>1. Durable = medium /\ DOMAIN log = {}
    BY <1>2, StoreHas
  <2>2. CASE cache = medium
    <3>1. Loose = {}
      BY <2>2 DEF Loose
    <3> QED BY <1>1, <1>2, <2>1, <2>2, <3>1 DEF Kept, DeletedLoosely
  <2>3. CASE cache # medium
    <3>1. /\ cache[number] < medium[number]
          /\ List(cache) = SubSeq(List(medium), 1, cache[number])
      BY <1>2, <2>3, LooseList
    <3>2. medium[number] # cache[number]
      BY <3>1, StoreHas
    <3>3. DeletedLoosely
      BY <1>1, <2>1, <3>1, <3>2 DEF DeletedLoosely, Loose
    <3> QED BY <1>1, <1>2, <2>1, <3>1, <3>3 DEF Kept
  <2> QED BY <2>2, <2>3
<1>3. CASE log # Nothing
  <2>1. Durable = log /\ DOMAIN log = KVstruct
    BY <1>3, LoggedList
  <2>2. number \notin Loose
    BY <1>1, <2>1 DEF Loose
  <2> QED BY <1>1, <1>3, <2>1, <2>2 DEF Kept, DeletedLoosely
<1> QED BY <1>2, <1>3

LEMMA SurvivesNow ==
    ASSUME TypeInv, StoreInv PROVE CompletedSurvives
<1> SUFFICES ASSUME program \in {"PmemKVS", "PmemKVS4"}, ~Broken
             PROVE  IF phase = "running" THEN Kept \in Outcomes ELSE Kept = acked
  BY DEF CompletedSurvives, Broken
<1>1. IsStore /\ Intact /\ Logs
  BY DEF IsStore, Stores, Intact, Logs
<1>2. /\ MemoryInv /\ PoolFits
      /\ phase # "running" => List(Recovered(cache)) = acked
      /\ phase = "running" => WorkInv
  BY <1>1 DEF StoreInv, TypeInv
<1>3. Kept = IF log = Nothing THEN List(cache) ELSE List(log)
  BY <1>1, <1>2, KeptIs
<1>4. Outcomes = {acked, Intended}
  BY DEF Outcomes, Intended
<1>5. CASE phase # "running"
  <2>1. log = Nothing => Recovered(cache) = cache
    BY <1>1, <1>2, StoreHas
  <2>2. log # Nothing => Recovered(cache) = log
    BY <1>1, <1>2, RecoveredIs
  <2> QED BY <1>2, <1>3, <1>5, <2>1, <2>2
<1>6. ASSUME Ended PROVE Kept \in Outcomes
  BY <1>3, <1>4, <1>6 DEF Ended
<1>7. ASSUME NEW T, NEW e, Coming(T, e) PROVE Kept \in Outcomes
  <2>1. /\ Before(e) /\ Behind(T, e) /\ Reached(T, e) /\ Sound(T) /\ e \in 1 .. Len(code)
    BY <1>7 DEF Coming
  <2>2. log # Nothing => Kept = acked
    BY <1>1, <1>3, <2>1 DEF Before
  <2>3. e > 1 /\ log = Nothing => Kept = acked
    BY <1>3, <2>1 DEF Before
  <2>4. ASSUME e = 1, log = Nothing PROVE Kept \in Outcomes
    <3>1. ~failed => cache = T
      <4>1. ~failed => \A c \in KVstruct : cache[c] = T[c]
        <5>1. 1 .. 1 - 1 = {}
          OBVIOUS
        <5> QED BY <2>1, <2>4, <5>1 DEF Reached, Undone, Stored
      <4> QED BY <1>1, <1>2, <2>1, <4>1, StoreHas DEF Sound
    <3>2. failed => List(cache) = acked
      BY <2>1 DEF Behind, Broken, FirstRound
    <3>3. ~failed => List(T) \in {acked, Intended}
      BY <2>1 DEF Behind
    <3> QED BY <1>3, <1>4, <2>4, <3>1, <3>2, <3>3
  <2>5. e = 1 \/ e > 1
    BY <2>1
  <2> QED BY <1>4, <2>2, <2>3, <2>4, <2>5
<1> QED BY <1>2, <1>5, <1>6, <1>7 DEF WorkInv

(* Whenever power fails, every command of PmemKVS.c and PmemKVS4.c that    *)
(* returned has had its effect, and the one that was running all of it or  *)
(* none: their undo log covers all they store but the number that a        *)
(* deletion of the last entry lowers (PmemKVS.c:148), which Kept allows.   *)
THEOREM CompletedCommandsSurvive == Spec => []CompletedSurvives
<1>1. TypeInv /\ StoreInv => CompletedSurvives
  BY SurvivesNow
<1> QED BY StoreInvariant, <1>1, PTL

-----------------------------------------------------------------------------
(* The refinement. *)

Promising == program \in {"PmemKVS", "PmemKVS4"} /\ ~spoiled

Promised == IF Promising THEN Entries(Durable) ELSE <<>>

LEMMA PromiseIs ==
    /\ \A c \in Commands : Promised' = Promise!Effect(c, Promised) => Promise!Next
    /\ \A n \in 0 .. Len(Promised) - 1 : Promised' = SubSeq(Promised, 1, n) => Promise!Next
<1>1. ASSUME NEW c \in Commands, Promised' = Promise!Effect(c, Promised) PROVE Promise!Next
  BY <1>1 DEF Promise!Next, Promise!Command, Promised, Promising
<1>2. ASSUME NEW n \in 0 .. Len(Promised) - 1, Promised' = SubSeq(Promised, 1, n)
      PROVE  Promise!Next
  BY <1>2 DEF Promise!Next, Promise!LastOnesGo, Promised, Promising
<1> QED BY <1>1, <1>2

(* An entry list step: one command, or the last entries gone.              *)
ListStep(old, new) ==
    \/ new = old
    \/ \E c \in Commands : new = Promise!Effect(c, old)
    \/ \E n \in 0 .. Len(old) - 1 : new = SubSeq(old, 1, n)

LEMMA DurableSame ==
    /\ UNCHANGED <<medium, log>> => Durable' = Durable
    /\ log' = Nothing /\ medium' = Recovered(medium) /\ PoolFits => Durable' = Durable
<1>1. UNCHANGED <<medium, log>> => Durable' = Durable
  BY DEF Durable
<1>2. ASSUME log' = Nothing, medium' = Recovered(medium), PoolFits PROVE Durable' = Durable
  <2>1. Fits(Durable)
    BY <1>2, RecoveryFits, Recovering
  <2>2. Durable' = Overlay(Nothing, medium')
    BY <1>2 DEF Durable
  <2> QED BY <1>2, <2>1, <2>2, OfNothing, Recovering
<1> QED BY <1>1, <1>2

LEMMA EvictList ==
    ASSUME IsStore, PoolFits, MemoryInv, Logs, Evict
    PROVE  ListStep(List(Durable), List(Durable)')
<1>1. PICK c \in DOMAIN medium : medium[c] # cache[c] /\ medium' = [medium EXCEPT ![c] = cache[c]]
  BY DEF Evict
<1>2. log' = log
  BY DEF Evict
<1>3. /\ medium = [x \in KVstruct |-> medium[x]] /\ cache = [x \in KVstruct |-> cache[x]]
      /\ DOMAIN log = {} <=> log = Nothing
  BY StoreHas, LoggedList, CellsAre
<1>4. CASE log = Nothing
  <2>1. OnlyNumber
    BY <1>4 DEF MemoryInv
  <2>2. c = number
    BY <1>1, <1>3, <2>1 DEF OnlyNumber
  <2>3. medium' = cache
    BY <1>1, <1>3, <2>1, <2>2 DEF OnlyNumber
  <2>4. Durable = medium /\ Durable' = cache
    <3>1. Fits(cache)
      BY DEF PoolFits
    <3> QED BY <1>2, <1>4, <2>3, <3>1, StoreHas, OfNothing DEF Durable
  <2>5. /\ cache[number] \in 0 .. Len(List(medium)) - 1
        /\ List(cache) = SubSeq(List(medium), 1, cache[number])
    BY <1>1, <1>4, LooseList
  <2> QED BY <2>4, <2>5 DEF ListStep
<1>5. CASE log # Nothing
  <2>1. DOMAIN log = KVstruct
    BY <1>5, LoggedList
  <2>2. Durable' = Durable
    BY <1>1, <1>2, <1>3, <2>1 DEF Durable, Overlay
  <2> QED BY <2>2 DEF ListStep
<1> QED BY <1>4, <1>5

(* A transaction's log takes the place of what the medium holds.           *)
LEMMA AddList ==
    ASSUME IsStore, PoolFits, MemoryInv, Logs, NEW T, NEW e, Coming(T, e), TxAdd,
           UNCHANGED <<program, cmd, acked>>
    PROVE  ListStep(List(Durable), List(Durable)')
<1>1. /\ medium' = medium /\ log' = Logged(code[1].cells) /\ code[1].op = "add"
      /\ code # <<>>
  BY AtHead DEF TxAdd
<1>2. e \in 2 .. Len(code) /\ Ahead(code, e, T) /\ Staged(e) /\ Len(code) \in Nat
  BY <1>1, StoreHas, WhereItIs DEF Coming
<1>3. code[1].cells = KVstruct /\ AddAhead(code, e)
  <2>1. 1 \in 1 .. e - 1
    BY <1>2
  <2> QED BY <1>1, <1>2, <2>1 DEF Ahead, AddAhead, Logs
<1>4. log = Nothing
  BY <1>2, <1>3 DEF Staged
<1>5. log' = cache
  <2>1. log' = [c \in KVstruct |-> cache[c]]
    BY <1>1, <1>3, <1>4, StoreHas DEF Logged
  <2> QED BY <2>1, StoreHas
<1>6. Durable' = cache
  <2>1. DOMAIN medium' = KVstruct /\ DOMAIN log' = KVstruct
    BY <1>1, <1>5, StoreHas
  <2>2. Durable' = [c \in KVstruct |-> cache[c]]
    BY <1>5, <2>1 DEF Durable, Overlay
  <2> QED BY <2>2, StoreHas
<1> QED BY <1>4, <1>6, LooseList DEF ListStep

(* The commit is the moment a command takes effect.                        *)
LEMMA CommitList ==
    ASSUME IsStore, PoolFits, MemoryInv, Logs, NEW T, NEW e, Coming(T, e), TxCommit,
           UNCHANGED <<program, cmd, acked>>, ~Broken, cmd \in Commands
    PROVE  ListStep(List(Durable), List(Durable)')
<1>1. /\ stage = "WORK" /\ log' = Nothing /\ Doing("end")
      /\ medium' = Overlay(Part(cache, DOMAIN log), medium)
  BY DEF TxCommit
<1>2. Behind(T, 1) /\ Before(1) /\ ~Undone(1)
  BY <1>1, AtEnd DEF Undone
<1>3. cache = T
  BY CommitStep
<1>4. CASE log = Nothing
  <2>1. medium' = medium
    BY <1>1, <1>4, StoreHas DEF Overlay, Part
  <2>2. Durable' = Durable
    BY <1>1, <1>4, <2>1, DurableSame
  <2> QED BY <2>2 DEF ListStep
<1>5. CASE log # Nothing
  <2>1. Durable = log /\ DOMAIN log = KVstruct
    BY <1>5, LoggedList
  <2>2. List(Durable) = acked
    BY <1>2, <1>5, <2>1 DEF Before
  <2>3. medium' = cache
    <3>1. medium' = [c \in KVstruct |-> cache[c]]
      BY <1>1, <2>1, StoreHas DEF Overlay, Part
    <3> QED BY <3>1, StoreHas
  <2>4. Durable' = cache
    <3>1. Fits(cache) /\ Durable' = Overlay(Nothing, cache)
      BY <1>1, <2>3 DEF PoolFits, Durable
    <3> QED BY <3>1, OfNothing
  <2>5. ~failed
    BY <1>2 DEF Behind, FirstRound, Broken
  <2>6. List(T) = acked \/ List(T) = Intended
    BY <1>2, <2>5 DEF Behind
  <2>7. List(Durable)' = List(T)
    BY <1>3, <2>4
  <2> QED BY <2>2, <2>6, <2>7 DEF ListStep, Intended
<1> QED BY <1>4, <1>5

LEMMA WorkList ==
    ASSUME IsStore, PoolFits, MemoryInv, WorkInv, Logs, Work, ~spoiled, cmd \in Commands
    PROVE  ListStep(List(Durable), List(Durable)')
<1>1. PoolStep /\ UNCHANGED <<program, cmd, acked>> /\ ~Broken
  BY DEF Work, now, WorkInv
<1>2. UNCHANGED <<medium, log>> => ListStep(List(Durable), List(Durable)')
  BY DurableSame DEF ListStep
<1>3. CASE TxBegin \/ TxProcess \/ TxEnd \/ ClosePool \/ Store \/ AllocObject
  BY <1>2, <1>3 DEF TxBegin, TxProcess, TxEnd, ClosePool, Store, AllocObject, contents
<1>4. ASSUME ~(TxBegin \/ TxProcess \/ TxEnd \/ ClosePool \/ Store \/ AllocObject)
      PROVE  PersistRange \/ TxAdd \/ TxAddFails \/ TxCommit
  BY <1>1, <1>4 DEF PoolStep
<1>5. ASSUME PersistRange \/ TxAdd \/ TxAddFails \/ TxCommit
      PROVE  \E T, e : Coming(T, e)
  <2>1. PICK op \in {"persist", "add", "end"} : Doing(op)
    BY <1>5 DEF PersistRange, TxAdd, TxAddFails, TxCommit
  <2>2. ~Ended
    BY <2>1, AtHead DEF Ended
  <2> QED BY <2>2 DEF WorkInv
<1>6. CASE PersistRange
  <2>1. PICK T, e : Coming(T, e)
    BY <1>5, <1>6
  <2>2. code[1].op = "persist"
    BY <1>6, AtHead DEF PersistRange
  <2> QED BY <2>1, <2>2, StoreHas, WhereItIs
<1>7. CASE TxAdd
  BY <1>1, <1>5, <1>7, AddList
<1>8. CASE TxAddFails
  <2>1. medium' = Recovered(medium) /\ log' = Nothing
    BY <1>8 DEF TxAddFails, Recovered
  <2> QED BY <2>1, DurableSame DEF ListStep
<1>9. CASE TxCommit
  BY <1>1, <1>5, <1>9, CommitList
<1> QED BY <1>3, <1>4, <1>6, <1>7, <1>8, <1>9

LEMMA PromiseStep ==
    ASSUME TypeInv, StoreInv, [Next]_vars
    PROVE  Promised' = Promised \/ Promise!Next
<1>1. UNCHANGED program
  BY DEF Next, vars, now, Start, Create, Complete, CannotOpen, OpenToRead, ReaderDies,
     OpenToWrite, Work, Aborts, Exit, WriteBack, Killed, PowerFails, Dies
<1>2. CASE ~Promising
  <2>1. spoiled => spoiled'
    BY DEF Next, vars, past, Start, Create, Complete, CannotOpen, OpenToRead, ReaderDies,
       OpenToWrite, Work, Aborts, Exit, WriteBack, Killed, PowerFails, Dies
  <2>2. ~Promising'
    BY <1>1, <1>2, <2>1 DEF Promising
  <2> QED BY <1>2, <2>2 DEF Promised
<1>3. CASE Promising
  <2>1. IsStore /\ Intact /\ Logs /\ ~spoiled
    BY <1>3 DEF Promising, IsStore, Stores, Intact, Logs
  <2>2. /\ MemoryInv /\ PoolFits /\ (phase = "running" => WorkInv) /\ IsStore'
        /\ (phase = "running" => cmd \in Commands)
    BY <1>1, <2>1, KnownCommands DEF StoreInv, TypeInv, CommandInv, IsStore
  <2>3. Promised = List(Durable) /\ Promised \in Seq(Entry)
    BY <1>3, <2>1, <2>2, DurableIsSound DEF Promised, Entries
  <2>4. CASE ~Promising'
    <3>1. Promised' = <<>>
      BY <2>4 DEF Promised
    <3>2. CASE Promised = <<>>
      BY <3>1, <3>2
    <3>3. CASE Promised # <<>>
      <4>1. 0 \in 0 .. Len(Promised) - 1
        BY <2>3, <3>3, EmptySeq, LenProperties
      <4>2. SubSeq(Promised, 1, 0) = <<>>
        <5>1. PICK list \in Seq(Entry) : list = Promised
          BY <2>3
        <5>2. SubSeq(list, 1, 0) \in Seq(Entry) /\ Len(SubSeq(list, 1, 0)) = 0
          BY <5>1, SubSeqProperties
        <5> QED BY <5>1, <5>2, EmptySeq
      <4> QED BY <3>1, <4>1, <4>2, PromiseIs
    <3> QED BY <3>2, <3>3
  <2>5. CASE Promising'
    <3>1. Promised' = List(Durable)'
      BY <2>2, <2>5 DEF Promised, Entries
    <3>2. ASSUME ListStep(List(Durable), List(Durable)') PROVE Promised' = Promised \/ Promise!Next
      BY <2>3, <3>1, <3>2, PromiseIs DEF ListStep
    <3>3. Durable' = Durable => ListStep(List(Durable), List(Durable)')
      BY DEF ListStep
    <3>4. CASE UNCHANGED vars
      BY <3>2, <3>3, <3>4, DurableSame DEF vars, poolvars, contents
    <3>5. CASE Work
      BY <2>1, <2>2, <3>2, <3>5, WorkList DEF Work
    <3>6. CASE WriteBack
      BY <2>1, <2>2, <3>2, <3>6, EvictList DEF WriteBack
    <3>7. CASE OpenToRead \/ ReaderDies \/ OpenToWrite
      <4>1. medium' = Recovered(medium) /\ log' = Nothing
        BY <3>7 DEF OpenToRead, ReaderDies, OpenToWrite, OpenPool
      <4> QED BY <2>2, <3>2, <3>3, <4>1, DurableSame
    <3>8. CASE Killed \/ PowerFails \/ Aborts \/ Exit
      <4>1. UNCHANGED <<medium, log>>
        BY <3>8 DEF Killed, Kill, PowerFails, PowerFail, Aborts, AbortHere, Exit, poolvars, contents
      <4> QED BY <3>2, <3>3, <4>1, DurableSame
    <3>9. CASE Create \/ Complete \/ CannotOpen \/ \E c \in CommandLines : Start(c)
      <4>1. UNCHANGED <<medium, log>>
        BY <3>9 DEF Create, Complete, CannotOpen, CreateFile, FinishFile, Start, poolvars, contents
      <4> QED BY <3>2, <3>3, <4>1, DurableSame
    <3> QED BY <3>4, <3>5, <3>6, <3>7, <3>8, <3>9 DEF Next
  <2> QED BY <2>4, <2>5
<1> QED BY <1>2, <1>3

LEMMA PromiseInit ==
    ASSUME Init PROVE Promise!Init
<1>1. /\ program \in Programs /\ cache = Cells(program) /\ medium = cache /\ log = Nothing
  BY DEF Init
<1>2. Promised = <<>>
  <2>1. CASE Promising
    <3>1. IsStore /\ Intact
      BY <2>1 DEF Promising, IsStore, Stores, Intact
    <3>2. Recovered(cache) = cache /\ Durable = cache /\ List(Recovered(cache)) = acked
      <4>1. PoolFits /\ StoreInv /\ phase = "idle"
        BY TypeInit, StoreInit DEF TypeInv, Init
      <4> QED BY <1>1, <3>1, <4>1, Recovering DEF StoreInv
    <3>3. acked = <<>>
      BY DEF Init
    <3> QED BY <2>1, <3>1, <3>2, <3>3 DEF Promised, Entries
  <2> QED BY <2>1 DEF Promised
<1> QED BY <1>2 DEF Promise!Init, Promised, Promising

(* Power may fail at any step: what is found then changes as the list does *)
(* that EntryList promises.  A command takes its effect when its           *)
(* transaction commits, and at no other step.                              *)
THEOREM StoreRefinesList == Spec => StoreKeepsPromise
<1>1. TypeInv /\ StoreInv /\ [Next]_vars => [Promise!Next]_(
          IF program \in {"PmemKVS", "PmemKVS4"} /\ ~spoiled THEN Entries(Durable) ELSE <<>>)
  BY PromiseStep DEF Promised, Promising
<1> QED BY PromiseInit, StoreInvariant, <1>1, PTL DEF Spec, StoreKeepsPromise, Promise!Spec

-----------------------------------------------------------------------------
(* What a program leaves loose when it returns. *)

LEMMA StoreLeaves ==
    ASSUME TypeInv, StoreInv, IsStore, Logs, phase = "running", code = <<>>
    PROVE  log = Nothing /\ (Loose = {} \/ (Loose = {number} /\ DeletedLoosely))
<1>1. MemoryInv /\ PoolFits /\ WorkInv
  BY DEF StoreInv, TypeInv, Intact, Logs
<1>2. log = Nothing
  <2>1. Listed(code)
    BY <1>1, StoreHas
  <2>2. \A T, e : ~Coming(T, e)
    BY <2>1, WhereItIs
  <2> QED BY <1>1, <2>2 DEF WorkInv, Ended
<1>3. OnlyNumber /\ DOMAIN medium = KVstruct /\ DOMAIN log = {}
  BY <1>1, <1>2, StoreHas DEF MemoryInv
<1>4. CASE cache = medium
  BY <1>2, <1>4 DEF Loose
<1>5. CASE cache # medium
  <2>1. cache[number] < medium[number]
    BY <1>1, <1>2, <1>5, LooseList
  <2>2. number \in KVstruct /\ medium[number] # cache[number]
    BY <1>1, <2>1, StoreHas
  <2>3. Loose = {number}
    BY <1>3, <2>2 DEF Loose, OnlyNumber
  <2> QED BY <1>2, <1>3, <2>1, <2>2, <2>3 DEF DeletedLoosely
<1> QED BY <1>4, <1>5

(* Every program that logs or persists what it stores has done so by the   *)
(* time it returns: nothing it wrote depends on a write-back any more, but *)
(* the number after a deletion of the last entry (PmemKVS.c:148).          *)
THEOREM NothingIsLeftBehind == Spec => []NothingLeftBehind
<1>1. TypeInv /\ StoreInv /\ SampleInv => NothingLeftBehind
  <2> SUFFICES ASSUME TypeInv, StoreInv, SampleInv, phase = "running", code = <<>>, ~Reading,
                      program \notin Careless
               PROVE  /\ log = Nothing
                      /\ Loose = {} \/ (IsStore /\ Loose = {number} /\ DeletedLoosely)
    BY DEF NothingLeftBehind
  <2>1. Logs
    BY DEF Logs, Careless
  <2> QED BY <2>1, StoreLeaves, SampleLeaves
<1> QED BY StoreInvariant, SampleInvariant, <1>1, PTL

=============================================================================
