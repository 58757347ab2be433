------------------------ MODULE PmemWrapShadowProofs ------------------------
(* What the copy files hold: nothing that was flushed is forgotten, and    *)
(* nothing that was flushed and drained is missing.                        *)
EXTENDS PmemWrapRaiseProofs

(* Neither the shadow nor what a thread flushed is ahead of memory.        *)
Behind ==
    /\ \A l \in Claimed : shadow[l] <= orig[l]
    /\ \A l \in Lines : durable[l] <= orig[l]
    /\ \A t \in Threads : \A l \in Lines : pending[t][l] <= orig[l]

ShadowInv == Behind /\ FlushedIsQueued /\ PersistedIsShadowed

-----------------------------------------------------------------------------
(* The line arithmetic of a drain, for every address and size. *)

(* Rounding is exact: on a line-aligned mapping the copy starts and ends   *)
(* on line boundaries, so a drain never tears a line                       *)
(* (wraplibpmem.c:840-842).                                                *)
THEOREM CopyIsAligned ==
    ASSUME NEW base \in Nat, NEW addr \in Nat, NEW len \in Nat,
           base % 64 = 0, base <= addr
    PROVE  /\ CopyStart(base, addr) % 64 = 0
           /\ CopyLength(base, addr, len) % 64 = 0
BY DEF CopyStart, CopyLength, CACHE_LINE_SIZE

(* What a drain copies covers what the flush named: no byte a flush was    *)
(* called for is left out of the copy.                                     *)
THEOREM CopyCoversFlush ==
    ASSUME NEW base \in Nat, NEW addr \in Nat, NEW len \in Nat,
           base % 64 = 0, base <= addr
    PROVE  TouchedLines(addr, len) \subseteq CopiedLines(base, addr, len)
BY DEF TouchedLines, CopiedLines, CopyStart, CopyLength, CACHE_LINE_SIZE

(* A drain copies no line beyond the ones the flush named.                 *)
THEOREM CopyIsMinimal ==
    ASSUME NEW base \in Nat, NEW addr \in Nat, NEW len \in Nat \ {0},
           base % 64 = 0, base <= addr
    PROVE  CopiedLines(base, addr, len) \subseteq TouchedLines(addr, len)
BY DEF TouchedLines, CopiedLines, CopyStart, CopyLength, CACHE_LINE_SIZE

-----------------------------------------------------------------------------
(* Lines, ranges and files. *)

LEMMA InsideTouches ==
    ASSUME NEW r \in Regions, NEW rng \in [addr : Nat, len : Nat],
           Inside(rng, r)
    PROVE  TouchedLines(rng.addr, rng.len) \subseteq RegionLines(r)
<1>1. /\ Base[r] \in Nat /\ Size[r] \in Nat
      /\ rng.addr \in Nat /\ rng.len \in Nat
  BY RegionsAssumption
<1> QED BY <1>1 DEF Inside, RegionLines, TouchedLines, CACHE_LINE_SIZE

LEMMA BodyInside ==
    ASSUME NEW r \in Regions
    PROVE  BodyLines(r) \subseteq RegionLines(r) /\ RegionLines(r) \subseteq Lines
<1>1. /\ Base[r] \in Nat /\ Size[r] \in Nat /\ HeaderSize \in Nat
      /\ Kind[r] # "PMEM_FILE" => HeaderSize <= Size[r]
  BY RegionsAssumption
<1>2. BodyLines(r) \subseteq RegionLines(r)
  BY <1>1 DEF BodyLines, RegionLines, TouchedLines, CACHE_LINE_SIZE
<1> QED BY <1>2 DEF Lines

LEMMA CopyCovers ==
    ASSUME NEW r \in Regions, NEW rng \in [addr : Nat, len : Nat],
           Inside(rng, r)
    PROVE  TouchedLines(rng.addr, rng.len)
              \subseteq CopiedLines(Base[r], rng.addr, rng.len)
<1>1. /\ Base[r] \in Nat /\ Base[r] % 64 = 0 /\ Base[r] <= rng.addr
      /\ rng.addr \in Nat /\ rng.len \in Nat
  BY RegionsAssumption DEF Inside, CACHE_LINE_SIZE
<1> QED BY <1>1, CopyCoversFlush

LEMMA OwnLines ==
    ASSUME NEW r \in Regions, NEW q \in Regions, NEW l \in RegionLines(r),
           l \in RegionLines(q)
    PROVE  r = q
BY RegionsAssumption

LEMMA RegisteredType ==
    ASSUME TypeOK
    PROVE  Registered \subseteq Regions /\ Claimed \subseteq Lines
<1>1. Registered \subseteq Regions
  BY ListType DEF Registered
<1> QED BY <1>1, BodyInside DEF Claimed

LEMMA WaitType ==
    ASSUME TypeOK
    PROVE  /\ wait \in Seq([rng : [addr : Nat, len : Nat], set : Chunks])
           /\ Len(wait) \in Nat /\ DOMAIN wait = 1..Len(wait)
           /\ \A i \in 1..Len(wait) : wait[i].rng \in [addr : Nat, len : Nat]
<1>1. wait \in Seq([rng : [addr : Nat, len : Nat], set : Chunks])
  BY DEF TypeOK, MemoryType
<1>2. \A i \in 1..Len(wait) :
         wait[i] \in [rng : [addr : Nat, len : Nat], set : Chunks]
  BY <1>1, ElementOfSeq
<1> QED BY <1>1, <1>2, LenProperties

LEMMA ContentsType ==
    ASSUME TypeOK, NEW l \in Lines
    PROVE  /\ orig[l] \in Nat /\ shadow[l] \in Nat /\ durable[l] \in Nat
           /\ \A t \in Threads : pending[t][l] \in Nat
BY DEF TypeOK, MemoryType, HistoryType

-----------------------------------------------------------------------------
(* One lemma for each step that moves data. *)

(* Steps that at most let the program store. *)
LEMMA ShadowQuiet ==
    ASSUME TypeOK, TypeOK', ShadowInv,
           UNCHANGED <<shadow, list, wait, pending, durable>>,
           \A l \in Lines : orig[l] <= orig'[l]
    PROVE  ShadowInv'
<1>1. Claimed' = Claimed /\ Claimed \subseteq Lines
  BY RegisteredType DEF Claimed, Registered
<1>2. Behind'
  BY <1>1, ContentsType DEF ShadowInv, Behind, TypeOK, MemoryType
<1>3. FlushedIsQueued'
  BY <1>1 DEF ShadowInv, FlushedIsQueued, SetOf
<1>4. PersistedIsShadowed'
  BY <1>1 DEF ShadowInv, PersistedIsShadowed
<1> QED BY <1>2, <1>3, <1>4 DEF ShadowInv

(* A wait entry with a live set will copy the line.                        *)
Awaited(l) ==
    \E i \in DOMAIN wait : \E j \in DOMAIN list :
        SetOf(wait[i], j) /\ l \in TouchedLines(wait[i].rng.addr, wait[i].rng.len)

LEMMA QueuedMeans ==
    FlushedIsQueued <=> \A t \in Threads : \A l \in Claimed :
                           pending[t][l] <= shadow[l] \/ Awaited(l)
BY DEF FlushedIsQueued, Awaited

LEMMA FlushKeepsShadow ==
    ASSUME TypeOK, TypeOK', ShadowInv, NEW t \in Threads, FlushQueued(t)
    PROVE  ShadowInv'
<1> DEFINE rng  == call[t].rng
<1> DEFINE flushed == TouchedLines(rng.addr, rng.len)
<1>1. PICK i \in DOMAIN list :
         /\ Inside(rng, list[i].reg)
         /\ wait' = Append(wait, [rng |-> rng, set |-> list[i].chunk])
  BY DEF FlushQueued
<1>2. UNCHANGED <<orig, shadow, list, durable>>
  BY DEF FlushQueued
<1>3. /\ \A u \in Threads \ {t} : pending'[u] = pending[u]
      /\ \A l \in Lines : pending'[t][l] =
            IF l \in flushed THEN orig[l] ELSE pending[t][l]
  BY DEF FlushQueued, TypeOK, HistoryType
<1>4. Claimed' = Claimed /\ Claimed \subseteq Lines
  BY <1>2, RegisteredType DEF Claimed, Registered
<1>5. /\ DOMAIN wait' = 1..(Len(wait) + 1)
      /\ \A k \in 1..Len(wait) : wait'[k] = wait[k]
      /\ wait'[Len(wait) + 1] = [rng |-> rng, set |-> list[i].chunk]
  <2> DEFINE e == [rng |-> rng, set |-> list[i].chunk]
  <2>1. list[i].chunk \in Chunks /\ rng \in [addr : Nat, len : Nat]
    <3>1. list[i] \in [chunk : Chunks, reg : Regions]
      BY <1>1, ListType, ElementOfSeq
    <3> QED BY <3>1, CallType DEF Calls
  <2>2. e \in [rng : [addr : Nat, len : Nat], set : Chunks]
    BY <2>1
  <2> HIDE DEF e
  <2>3. /\ Append(wait, e) \in Seq([rng : [addr : Nat, len : Nat], set : Chunks])
        /\ Len(Append(wait, e)) = Len(wait) + 1
        /\ \A k \in 1..Len(wait) : Append(wait, e)[k] = wait[k]
        /\ Append(wait, e)[Len(wait) + 1] = e
    BY <2>2, WaitType, AppendProperties
  <2>4. DOMAIN Append(wait, e) = 1..(Len(wait) + 1)
    BY <2>3, LenProperties
  <2> QED BY <1>1, <2>3, <2>4 DEF e
<1>6. Len(wait) + 1 \in DOMAIN wait' /\ DOMAIN wait \subseteq DOMAIN wait'
  BY <1>5, WaitType
<1>7. \A l \in flushed : Awaited(l)'
  BY <1>1, <1>2, <1>5, <1>6 DEF Awaited, SetOf
<1>8. \A l : Awaited(l) => Awaited(l)'
  BY <1>2, <1>5, <1>6, WaitType DEF Awaited, SetOf
<1> HIDE DEF flushed, rng
<1>9. Behind'
  BY <1>2, <1>3, <1>4, ContentsType DEF ShadowInv, Behind
<1>10. FlushedIsQueued'
  <2> SUFFICES ASSUME NEW u \in Threads, NEW l \in Claimed'
               PROVE  pending'[u][l] <= shadow'[l] \/ Awaited(l)'
    BY DEF FlushedIsQueued, Awaited
  <2>1. pending[u][l] <= shadow[l] \/ Awaited(l)
    BY <1>4, QueuedMeans DEF ShadowInv
  <2>2. CASE l \in flushed
    BY <2>2, <1>7
  <2>3. CASE l \notin flushed
    <3>1. pending'[u][l] = pending[u][l]
      BY <1>3, <1>4, <2>3
    <3> QED BY <2>1, <3>1, <1>2, <1>8
  <2> QED BY <2>2, <2>3
<1>11. PersistedIsShadowed'
  BY <1>2, <1>4 DEF ShadowInv, PersistedIsShadowed
<1> QED BY <1>9, <1>10, <1>11 DEF ShadowInv

LEMMA CopyKeepsShadow ==
    ASSUME TypeOK, TypeOK', ShadowInv, NEW t \in Threads, CopyEntry(t)
    PROVE  ShadowInv'
<1>1. /\ wait # <<>> /\ wait' = Tail(wait)
      /\ UNCHANGED <<orig, list, pending, durable>>
  BY DEF CopyEntry, history
<1>2. PICK i \in DOMAIN list :
         /\ SetOf(Head(wait), i)
         /\ shadow' = [l \in Lines |->
               IF l \in CopiedLines(Base[list[i].reg], Head(wait).rng.addr,
                                    Head(wait).rng.len)
               THEN orig[l] ELSE shadow[l]]
  BY DEF CopyEntry
<1> DEFINE r == list[i].reg
<1> DEFINE copied == CopiedLines(Base[r], wait[1].rng.addr, wait[1].rng.len)
<1>3. Head(wait) = wait[1] /\ Len(wait) \in Nat \ {0} /\ 1 \in 1..Len(wait)
  BY <1>1, WaitType, EmptySeq
<1>4. \A l \in Lines : shadow'[l] = IF l \in copied THEN orig[l] ELSE shadow[l]
  BY <1>2, <1>3
<1>5. Claimed' = Claimed /\ Claimed \subseteq Lines
  BY <1>1, RegisteredType DEF Claimed, Registered
<1>6. TouchedLines(wait[1].rng.addr, wait[1].rng.len) \subseteq copied
  <2>1. Inside(wait[1].rng, r)
    BY <1>2, <1>3 DEF SetOf
  <2>2. r \in Regions /\ wait[1].rng \in [addr : Nat, len : Nat]
    BY <1>3, ListType, WaitType
  <2> QED BY <2>1, <2>2, CopyCovers
<1>7. /\ DOMAIN wait' = 1..(Len(wait) - 1)
      /\ \A k \in 1..(Len(wait) - 1) : wait'[k] = wait[k + 1]
  BY <1>1, WaitType, HeadTailProperties, LenProperties
<1>8. \A l : Awaited(l) => l \in copied \/ Awaited(l)'
  <2> SUFFICES ASSUME NEW k \in DOMAIN wait, NEW j \in DOMAIN list,
                      SetOf(wait[k], j), k # 1
               PROVE  \E m \in DOMAIN wait' : wait'[m] = wait[k]
    BY <1>1, <1>6 DEF Awaited, SetOf
  <2>1. k - 1 \in 1..(Len(wait) - 1) /\ (k - 1) + 1 = k
    BY WaitType
  <2> QED BY <2>1, <1>7
<1> HIDE DEF copied
<1>9. Behind'
  BY <1>1, <1>4, <1>5, ContentsType DEF ShadowInv, Behind
<1>10. FlushedIsQueued'
  <2> SUFFICES ASSUME NEW u \in Threads, NEW l \in Claimed'
               PROVE  pending'[u][l] <= shadow'[l] \/ Awaited(l)'
    BY DEF FlushedIsQueued, Awaited
  <2>1. pending[u][l] <= shadow[l] \/ Awaited(l)
    BY <1>5, QueuedMeans DEF ShadowInv
  <2>2. pending[u][l] <= orig[l] /\ l \in Lines
    BY <1>5 DEF ShadowInv, Behind
  <2>3. CASE l \in copied
    BY <2>2, <2>3, <1>1, <1>4
  <2>4. CASE l \notin copied
    BY <2>1, <2>2, <2>4, <1>1, <1>4, <1>8
  <2> QED BY <2>3, <2>4
<1>11. PersistedIsShadowed'
  BY <1>1, <1>4, <1>5 DEF ShadowInv, Behind, PersistedIsShadowed
<1> QED BY <1>9, <1>10, <1>11 DEF ShadowInv

LEMMA DrainKeepsShadow ==
    ASSUME TypeOK, TypeOK', ShadowInv, NEW t \in Threads, DrainEnds(t)
    PROVE  ShadowInv'
<1>1. /\ wait = <<>> /\ UNCHANGED <<orig, shadow, list, wait>>
      /\ \A l \in Lines : durable'[l] = Newer(durable[l], pending[t][l])
      /\ \A u \in Threads \ {t} : pending'[u] = pending[u]
      /\ \A l \in Lines : pending'[t][l] = 0
  BY DEF DrainEnds, memory, TypeOK, HistoryType
<1>2. Claimed' = Claimed /\ Claimed \subseteq Lines
  BY <1>1, RegisteredType DEF Claimed, Registered
<1>3. \A u \in Threads : \A l \in Claimed : pending[u][l] <= shadow[l]
  BY <1>1 DEF ShadowInv, FlushedIsQueued
<1>4. Behind'
  BY <1>1, <1>2, ContentsType DEF ShadowInv, Behind, Newer
<1>5. FlushedIsQueued'
  BY <1>1, <1>2, <1>3, ContentsType DEF FlushedIsQueued
<1>6. PersistedIsShadowed'
  BY <1>1, <1>2, <1>3 DEF ShadowInv, PersistedIsShadowed, Newer
<1> QED BY <1>4, <1>5, <1>6 DEF ShadowInv

LEMMA AppendRegisters ==
    ASSUME TypeOK, NEW r \in Regions, NEW k \in FreeChunks,
           list' = Append(list, [chunk |-> k, reg |-> r])
    PROVE  /\ Registered' = Registered \cup {r}
           /\ DOMAIN list \subseteq DOMAIN list'
           /\ \A i \in DOMAIN list : list'[i] = list[i]
<1> DEFINE e == [chunk |-> k, reg |-> r]
<1>1. e \in [chunk : Chunks, reg : Regions] /\ e.reg = r
  BY DEF FreeChunks
<1>2. list' = Append(list, e)
  OBVIOUS
<1> HIDE DEF e
<1>3. /\ list' \in Seq([chunk : Chunks, reg : Regions])
      /\ Len(list') = Len(list) + 1
      /\ \A i \in 1..Len(list) : list'[i] = list[i]
      /\ list'[Len(list) + 1] = e
  BY <1>1, <1>2, ListType, AppendProperties
<1>4. DOMAIN list' = 1..(Len(list) + 1)
  BY <1>3, LenProperties
<1> QED BY <1>1, <1>3, <1>4, ListType DEF Registered

LEMMA NotClaimed ==
    ASSUME TypeOK, NEW r \in Regions, r \notin Registered
    PROVE  \A l \in Claimed : l \notin RegionLines(r) /\ l \notin BodyLines(r)
<1> SUFFICES ASSUME NEW q \in Registered, NEW l \in BodyLines(q)
             PROVE  l \notin RegionLines(r)
  BY BodyInside DEF Claimed
<1>1. q \in Regions /\ q # r
  BY RegisteredType
<1>2. l \in RegionLines(q)
  BY <1>1, BodyInside
<1> QED BY <1>1, <1>2, OwnLines

LEMMA AddKeepsShadow ==
    ASSUME TypeOK, TypeOK', MappingsOwned, ShadowInv,
           NEW t \in Threads, add_PMEMaddrset(t)
    PROVE  /\ ShadowInv'
           /\ \A l \in Claimed : shadow'[l] = shadow[l]
<1> DEFINE r == call[t].reg
<1>1. /\ At(t, "add") /\ UNCHANGED <<orig, wait, pending, durable>>
      /\ \/ UNCHANGED <<list, shadow>>
         \/ /\ \E k \in FreeChunks :
                  list' = Append(list, [chunk |-> k, reg |-> r])
            /\ shadow' = [l \in Lines |->
                  IF l \in BodyLines(r) THEN orig[l]
                  ELSE IF l \in RegionLines(r) THEN 0 ELSE shadow[l]]
  BY DEF add_PMEMaddrset, history
<1>2. CASE UNCHANGED <<list, shadow>>
  BY <1>1, <1>2, ShadowQuiet, ContentsType
<1>3. ASSUME NEW k \in FreeChunks,
             list' = Append(list, [chunk |-> k, reg |-> r]),
             shadow' = [l \in Lines |->
                  IF l \in BodyLines(r) THEN orig[l]
                  ELSE IF l \in RegionLines(r) THEN 0 ELSE shadow[l]]
      PROVE  /\ ShadowInv'
             /\ \A l \in Claimed : shadow'[l] = shadow[l]
  <2>1. r \in Regions /\ r \notin Registered
    <3>1. region[r] = "mapping"
      BY <1>1, AtFirst DEF MappingsOwned, Adders, Ahead
    <3> QED BY <3>1, CallType, ListType
            DEF MappingsOwned, RegisteredHeld, Registered
  <2>2. /\ Registered' = Registered \cup {r}
        /\ DOMAIN list \subseteq DOMAIN list'
        /\ \A i \in DOMAIN list : list'[i] = list[i]
    BY <1>3, <2>1, AppendRegisters
  <2>3. Claimed' = Claimed \cup BodyLines(r) /\ Claimed' \subseteq Lines
    BY <2>1, <2>2, RegisteredType, BodyInside DEF Claimed
  <2>4. \A l \in Claimed : l \notin RegionLines(r) /\ l \notin BodyLines(r)
    BY <2>1, NotClaimed
  <2>5. /\ \A l \in Claimed : shadow'[l] = shadow[l]
        /\ \A l \in Claimed' \ Claimed : shadow'[l] = orig[l]
    BY <1>3, <2>3, <2>4
  <2>6. \A l : Awaited(l) => Awaited(l)'
    BY <1>1, <2>2, ListType DEF Awaited, SetOf
  <2>7. Behind'
    BY <1>1, <2>3, <2>5, ContentsType DEF ShadowInv, Behind
  <2>8. FlushedIsQueued'
    <3> SUFFICES ASSUME NEW u \in Threads, NEW l \in Claimed'
                 PROVE  pending'[u][l] <= shadow'[l] \/ Awaited(l)'
      BY DEF FlushedIsQueued, Awaited
    <3>1. CASE l \in Claimed
      BY <3>1, <1>1, <2>5, <2>6, QueuedMeans DEF ShadowInv
    <3>2. CASE l \notin Claimed
      BY <3>2, <1>1, <2>3, <2>5 DEF ShadowInv, Behind
    <3> QED BY <3>1, <3>2
  <2>9. PersistedIsShadowed'
    BY <1>1, <2>3, <2>5 DEF ShadowInv, Behind, PersistedIsShadowed
  <2> QED BY <2>5, <2>7, <2>8, <2>9 DEF ShadowInv
<1> QED BY <1>1, <1>2, <1>3

LEMMA DeleteRegisters ==
    ASSUME TypeOK, MappingsOwned, NEW t \in Threads, delete_PMEMaddrset(t),
           NEW r \in Registered, r = call[t].reg
    PROVE  /\ Registered' = Registered \ {r}
           /\ \A j \in DOMAIN list : list[j].reg # r =>
                 \E k \in DOMAIN list' : list'[k] = list[j]
<1>1. PICK i \in 1..Len(list) : list[i].reg = r /\ list' = Unlink(i)
  BY ListType DEF delete_PMEMaddrset
<1>2. /\ DOMAIN list' = 1..(Len(list) - 1)
      /\ \A k \in 1..(Len(list) - 1) :
            list'[k] = IF k < i THEN list[k] ELSE list[k + 1]
  BY <1>1, ListType, UnlinkElements, LenProperties
<1>3. \A j \in 1..Len(list) : list[j].reg # r =>
         \E k \in DOMAIN list' : list'[k] = list[j]
  <2> SUFFICES ASSUME NEW j \in 1..Len(list), j # i
               PROVE  \E k \in DOMAIN list' : list'[k] = list[j]
    BY <1>1
  <2>1. CASE j < i
    BY <2>1, <1>2, ListType
  <2>2. CASE ~(j < i)
    <3>1. j - 1 \in 1..(Len(list) - 1) /\ ~(j - 1 < i) /\ (j - 1) + 1 = j
      BY <2>2, ListType
    <3> QED BY <3>1, <1>2
  <2> QED BY <2>1, <2>2
<1>4. \A k \in DOMAIN list' : \E j \in 1..Len(list) :
         list'[k] = list[j] /\ j # i
  <2> SUFFICES ASSUME NEW k \in DOMAIN list'
               PROVE  \E j \in 1..Len(list) : list'[k] = list[j] /\ j # i
    OBVIOUS
  <2>1. CASE k < i
    BY <2>1, <1>2, ListType
  <2>2. CASE ~(k < i)
    <3>1. k + 1 \in 1..Len(list) /\ k + 1 # i
      BY <2>2, <1>2, ListType
    <3> QED BY <3>1, <2>2, <1>2
  <2> QED BY <2>1, <2>2
<1>5. r \notin Registered' /\ Registered' \subseteq Registered
  BY <1>1, <1>4, ListType DEF Registered, MappingsOwned, Distinct
<1>6. Registered \ {r} \subseteq Registered'
  BY <1>3, ListType DEF Registered
<1> QED BY <1>3, <1>5, <1>6, ListType

LEMMA DeleteKeepsShadow ==
    ASSUME TypeOK, TypeOK', MappingsOwned, ShadowInv,
           NEW t \in Threads, delete_PMEMaddrset(t)
    PROVE  ShadowInv'
<1> DEFINE r == call[t].reg
<1>1. /\ UNCHANGED <<orig, shadow, wait, pending, durable>>
      /\ IF r \in Registered
         THEN \E i \in DOMAIN list : list[i].reg = r /\ list' = Unlink(i)
         ELSE UNCHANGED list
  BY DEF delete_PMEMaddrset, history
<1>2. CASE r \notin Registered
  BY <1>1, <1>2, ShadowQuiet, ContentsType
<1>3. CASE r \in Registered
  <2>1. /\ Registered' = Registered \ {r}
        /\ \A j \in DOMAIN list : list[j].reg # r =>
              \E k \in DOMAIN list' : list'[k] = list[j]
    BY <1>3, DeleteRegisters
  <2>2. Claimed' \subseteq Claimed /\ Claimed \subseteq Lines
    BY <2>1, RegisteredType DEF Claimed
  <2>3. \A l \in Claimed' : Awaited(l) => Awaited(l)'
    <3> SUFFICES ASSUME NEW q \in Registered', NEW l \in BodyLines(q),
                        NEW m \in DOMAIN wait, NEW j \in DOMAIN list,
                        SetOf(wait[m], j),
                        l \in TouchedLines(wait[m].rng.addr, wait[m].rng.len)
                 PROVE  list[j].reg # r
      BY <1>1, <2>1, ListType DEF Awaited, Claimed, SetOf
    <3>1. /\ list[j].reg \in Regions /\ q \in Regions /\ q # r
          /\ wait[m].rng \in [addr : Nat, len : Nat]
      BY <2>1, ListType, WaitType, RegisteredType
    <3>2. l \in RegionLines(list[j].reg) /\ l \in RegionLines(q)
      BY <3>1, InsideTouches, BodyInside DEF SetOf
    <3> QED BY <3>1, <3>2, OwnLines
  <2>4. Behind'
    BY <1>1, <2>2 DEF ShadowInv, Behind
  <2>5. FlushedIsQueued'
    <3> SUFFICES ASSUME NEW u \in Threads, NEW l \in Claimed'
                 PROVE  pending'[u][l] <= shadow'[l] \/ Awaited(l)'
      BY DEF FlushedIsQueued, Awaited
    <3> QED BY <1>1, <2>2, <2>3, QueuedMeans DEF ShadowInv
  <2>6. PersistedIsShadowed'
    BY <1>1, <2>2 DEF ShadowInv, PersistedIsShadowed
  <2> QED BY <2>4, <2>5, <2>6 DEF ShadowInv
<1> QED BY <1>2, <1>3

-----------------------------------------------------------------------------
(* A step moves data, or leaves it where it is, or only stores.            *)
LEMMA Movers ==
    ASSUME TypeOK, [Next]_vars
    PROVE  \/ /\ UNCHANGED <<shadow, list, wait, pending, durable>>
              /\ \A l \in Lines : orig[l] <= orig'[l]
           \/ \E t \in Threads :
                 \/ FlushQueued(t) \/ CopyEntry(t) \/ DrainEnds(t)
                 \/ add_PMEMaddrset(t) \/ delete_PMEMaddrset(t)
<1>1. CASE UNCHANGED <<orig, shadow, list, wait, pending, durable>>
  BY <1>1, ContentsType
<1>2. CASE UNCHANGED vars \/ Return \/ Ended
  BY <1>1, <1>2 DEF vars, memory, history, Return, Ended, Terminate
<1>3. ASSUME NEW t \in Threads, Call(t)
      PROVE  UNCHANGED <<orig, shadow, list, wait, pending, durable>>
  BY <1>3 DEF Call, history
<1>4. ASSUME NEW t \in Threads, Store(t)
      PROVE  /\ UNCHANGED <<shadow, list, wait, pending, durable>>
             /\ \A l \in Lines : orig[l] <= orig'[l]
  <2>1. PICK m : orig' = [orig EXCEPT ![m] = @ + 1]
    BY <1>4 DEF Store
  <2>2. \A l \in Lines : orig[l] <= orig'[l]
    BY <2>1, ContentsType DEF TypeOK, MemoryType
  <2> QED BY <1>4, <2>2 DEF Store, history
<1>5. ASSUME NEW t \in Threads, LibpmemMemcpy(t) \/ LibpmemMemcpyPersist(t)
      PROVE  /\ UNCHANGED <<shadow, list, wait, pending, durable>>
             /\ \A l \in Lines : orig[l] <= orig'[l]
  <2>1. LibpmemStores(t)
    BY <1>5 DEF LibpmemMemcpy, LibpmemMemcpyPersist
  <2>2. \A l \in Lines : orig[l] <= orig'[l]
    BY <2>1, ContentsType DEF LibpmemStores
  <2> QED BY <1>5, <2>2 DEF LibpmemMemcpy, LibpmemMemcpyPersist, history
<1>6. ASSUME NEW t \in Threads, Thread(t),
             ~LibpmemMemcpy(t), ~LibpmemMemcpyPersist(t),
             ~FlushQueued(t), ~CopyEntry(t), ~DrainEnds(t),
             ~add_PMEMaddrset(t), ~delete_PMEMaddrset(t)
      PROVE  UNCHANGED <<orig, shadow, list, wait, pending, durable>>
  BY <1>6
     DEF Thread, plus_persistcount, Gate, Recheck, Raise, Spare,
         WriteBacktrace, SetAbortflag, SetThrough, MapFile, MapFileFails,
         MapPool, MapPoolFails, AddFails, BacktraceFails, DrainIfRaised, Unmap, FlushIgnored,
         FlushPassesThrough, FlushOverruns, DrainFails, DrainStarts,
         StaleEntry, DrainAborts, Terminate, memory, history
<1> QED BY <1>1, <1>2, <1>3, <1>4, <1>5, <1>6 DEF Next

LEMMA ShadowInit == Init => ShadowInv
<1> SUFFICES ASSUME Init PROVE ShadowInv
  OBVIOUS
<1>1. Claimed = {}
  BY DEF Init, Claimed, Registered
<1> QED BY <1>1 DEF Init, ShadowInv, Behind, FlushedIsQueued,
                    PersistedIsShadowed

LEMMA ShadowStep ==
    ASSUME TypeOK, TypeOK', MappingsOwned, ShadowInv, [Next]_vars
    PROVE  ShadowInv'
BY Movers, ShadowQuiet, FlushKeepsShadow, CopyKeepsShadow, DrainKeepsShadow,
   AddKeepsShadow, DeleteKeepsShadow

LEMMA ShadowInvariant == Spec => []ShadowInv
<1>1. TypeOK /\ TypeOK' /\ MappingsOwned /\ ShadowInv /\ [Next]_vars
         => ShadowInv'
  BY ShadowStep
<1> QED BY ShadowInit, <1>1, TypeCorrect, RegistryIsSound, PTL DEF Spec

(* Whatever the threads store, flush, drain, map and unmap at once, the    *)
(* copy file of a registered mapping has every line as some thread flushed *)
(* and drained it, or newer (wraplibpmem.c:745-866).                       *)
THEOREM PersistedSurvives == Spec => []PersistedIsShadowed
<1>1. ShadowInv => PersistedIsShadowed
  BY DEF ShadowInv
<1> QED BY <1>1, ShadowInvariant, PTL

(* No flush of a registered mapping gets lost on its way to the shadow,    *)
(* even when another thread's drain takes its wait entry or another file   *)
(* is unmapped meanwhile (wraplibpmem.c:659-743, 827-862).                 *)
THEOREM NoFlushForgotten == Spec => []FlushedIsQueued
<1>1. ShadowInv => FlushedIsQueued
  BY DEF ShadowInv
<1> QED BY <1>1, ShadowInvariant, PTL

(* An image that has each line from the file or from its copy, as          *)
(* PmemWrap_memcpy makes them.                                             *)
Image(image) == \A l \in Claimed : image[l] \in {orig[l], shadow[l]}

Possible(image) ==
    \A l \in Claimed : durable[l] <= image[l] /\ image[l] <= orig[l]

(* Whichever lines the tool takes from the copy, the recovery run starts   *)
(* from contents the hardware could have left: no line is older than what  *)
(* was flushed and drained, none newer than what was stored                *)
(* (wraplibpmem.c:793-866, PmemWrap_memcpy.c:25-135).                      *)
THEOREM ImagesArePossible == Spec => [](\A image : Image(image) => Possible(image))
<1>1. ASSUME TypeOK, ShadowInv, NEW image, Image(image)
      PROVE  Possible(image)
  <2> SUFFICES ASSUME NEW l \in Claimed
               PROVE  durable[l] <= image[l] /\ image[l] <= orig[l]
    BY DEF Possible
  <2>1. l \in Lines
    BY <1>1, RegisteredType
  <2>2. /\ durable[l] <= shadow[l] /\ shadow[l] <= orig[l]
        /\ durable[l] <= orig[l]
    BY <1>1, <2>1 DEF ShadowInv, Behind, PersistedIsShadowed
  <2>3. orig[l] \in Nat /\ shadow[l] \in Nat /\ durable[l] \in Nat
    BY <1>1, <2>1, ContentsType
  <2>4. image[l] = orig[l] \/ image[l] = shadow[l]
    BY <1>1 DEF Image
  <2> QED BY <2>2, <2>3, <2>4
<1>2. TypeOK /\ ShadowInv => \A image : Image(image) => Possible(image)
  BY <1>1
<1> QED BY <1>2, TypeCorrect, ShadowInvariant, PTL

(* From the raise to the abort the shadow is the image of the crash point: *)
(* no drain that runs meanwhile changes it (wraplibpmem.c:793-866).        *)
THEOREM CrashPointIsKept == Spec => RaiseFreezesShadow
<1>1. ASSUME TypeOK, TypeOK', MappingsOwned, RaiseInv, ShadowInv,
             [Next]_vars, abortflag = 1, ~forced, NEW l \in Claimed
      PROVE  shadow'[l] = shadow[l]
  <2>1. ASSUME NEW t \in Threads, CopyEntry(t) PROVE FALSE
    <3>1. Ahead(todo[t], Locked)
      BY <1>1, <2>1, AtFirst DEF CopyEntry, Ahead, Locked
    <3> QED BY <1>1, <3>1 DEF RaiseInv, FlagDown
  <2>2. ASSUME NEW t \in Threads,
               FlushQueued(t) \/ DrainEnds(t) \/ delete_PMEMaddrset(t)
        PROVE  UNCHANGED shadow
    BY <2>2 DEF FlushQueued, DrainEnds, delete_PMEMaddrset, memory
  <2> QED BY <1>1, <2>1, <2>2, Movers, AddKeepsShadow
<1>2. TypeOK /\ TypeOK' /\ MappingsOwned /\ RaiseInv /\ ShadowInv /\ [Next]_vars
         => [abortflag = 1 /\ ~forced =>
                \A l \in Claimed \cap Claimed' : shadow'[l] = shadow[l]]_vars
  BY <1>1
<1> QED BY <1>2, TypeCorrect, RegistryIsSound, RaiseInvariant, ShadowInvariant,
           PTL DEF Spec, RaiseFreezesShadow

-----------------------------------------------------------------------------
(* The refinement: each step of the shim is one of the memory's or none.   *)

Medium == [l \in Lines |-> IF l \in Claimed THEN shadow[l] ELSE 0]

(* Steps the memory does not see. *)
LEMMA Unseen ==
    ASSUME UNCHANGED <<orig, shadow, list, pending, durable, status>>
    PROVE  UNCHANGED PM!pmVars
BY DEF PM!pmVars, Claimed, Registered

LEMMA CrashMaps ==
    ASSUME status = "running", status' # "running",
           UNCHANGED <<orig, shadow, list, pending, durable>>
    PROVE  PM!PMNext
BY DEF PM!PMNext, PM!Crash, Claimed, Registered

LEMMA StoreMaps ==
    ASSUME TypeOK, TypeOK', status = "running", NEW L \in SUBSET Lines,
           orig' = [l \in Lines |-> IF l \in L THEN orig[l] + 1 ELSE orig[l]],
           UNCHANGED <<shadow, list, pending, durable, status>>
    PROVE  PM!PMNext
BY DEF PM!PMNext, PM!StoreTo, Claimed, Registered

LEMMA FlushMaps ==
    ASSUME TypeOK, TypeOK', NEW t \in Threads, FlushQueued(t)
    PROVE  PM!PMNext
<1> DEFINE L == TouchedLines(call[t].rng.addr, call[t].rng.len) \cap Lines
<1>1. /\ UNCHANGED <<orig, shadow, list, durable, status>>
      /\ status = "running"
      /\ pending' = [pending EXCEPT ![t] = [l \in Lines |->
            IF l \in TouchedLines(call[t].rng.addr, call[t].rng.len)
            THEN orig[l] ELSE @[l]]]
  BY AtFirst DEF FlushQueued
<1>2. pending' = [pending EXCEPT ![t] =
         [l \in Lines |-> IF l \in L THEN orig[l] ELSE pending[t][l]]]
  BY <1>1 DEF TypeOK, HistoryType
<1> HIDE DEF L
<1>3. PM!FlushOf(t, L)
  <2>1. Claimed' = Claimed
    BY <1>1 DEF Claimed, Registered
  <2>2. UNCHANGED <<orig, Medium, Claimed, durable, status>>
    BY <1>1, <2>1 DEF Medium
  <2> QED BY <1>2, <2>2, Zenon DEF PM!FlushOf, Medium
<1>4. L \in SUBSET Lines
  BY DEF L
<1> QED BY <1>1, <1>3, <1>4 DEF PM!PMNext

LEMMA DrainMaps ==
    ASSUME TypeOK, TypeOK', ShadowInv, NEW t \in Threads, DrainEnds(t)
    PROVE  PM!PMNext
<1>1. /\ UNCHANGED <<orig, shadow, list, status>> /\ status = "running"
      /\ wait = <<>>
      /\ durable' = [l \in Lines |-> Newer(durable[l], pending[t][l])]
      /\ pending' = [pending EXCEPT ![t] = [l \in Lines |-> 0]]
  BY AtFirst DEF DrainEnds, memory
<1>2. \A l \in Claimed : pending[t][l] <= shadow[l] /\ l \in Lines
  BY <1>1, RegisteredType DEF ShadowInv, FlushedIsQueued
<1>3. PM!FenceOf(t)
  BY <1>1, <1>2 DEF PM!FenceOf, Claimed, Registered, Newer
<1> QED BY <1>1, <1>3 DEF PM!PMNext

LEMMA CopyMaps ==
    ASSUME TypeOK, TypeOK', NEW t \in Threads, CopyEntry(t)
    PROVE  PM!PMNext
<1>1. /\ UNCHANGED <<orig, list, pending, durable, status>>
      /\ status = "running"
  BY AtFirst DEF CopyEntry, history, threads
<1>2. PICK i \in DOMAIN list :
         shadow' = [l \in Lines |->
            IF l \in CopiedLines(Base[list[i].reg], Head(wait).rng.addr,
                                 Head(wait).rng.len)
            THEN orig[l] ELSE shadow[l]]
  BY DEF CopyEntry
<1> DEFINE copied == CopiedLines(Base[list[i].reg], Head(wait).rng.addr,
                                 Head(wait).rng.len)
<1>3. Claimed' = Claimed /\ Claimed \subseteq Lines
  BY <1>1, RegisteredType DEF Claimed, Registered
<1>4. shadow' = [l \in Lines |-> IF l \in copied THEN orig[l] ELSE shadow[l]]
  BY <1>2
<1>5. PICK L \in SUBSET Lines : L = copied \cap Claimed
  BY <1>3
<1> HIDE DEF copied
<1>6. Medium' = [l \in Lines |-> IF l \in L THEN orig[l] ELSE Medium[l]]
  BY <1>3, <1>4, <1>5 DEF Medium
<1>7. PM!WriteBack(L)
  BY <1>1, <1>3, <1>5, <1>6 DEF PM!WriteBack, Medium
<1> QED BY <1>1, <1>7 DEF PM!PMNext

LEMMA AddMaps ==
    ASSUME TypeOK, TypeOK', MappingsOwned, ShadowInv,
           NEW t \in Threads, add_PMEMaddrset(t)
    PROVE  PM!PMNext \/ UNCHANGED PM!pmVars
<1>1. /\ At(t, "add") /\ UNCHANGED <<orig, pending, durable, status>>
      /\ status = "running"
  BY AtFirst DEF add_PMEMaddrset, history
<1>2. CASE UNCHANGED <<list, shadow>>
  BY <1>1, <1>2, Unseen
<1>3. CASE ~UNCHANGED <<list, shadow>>
  <2>1. PICK r \in Regions : r = call[t].reg
    BY CallType
  <2>2. PICK k \in FreeChunks :
           /\ list' = Append(list, [chunk |-> k, reg |-> r])
           /\ shadow' = [l \in Lines |->
                 IF l \in BodyLines(r) THEN orig[l]
                 ELSE IF l \in RegionLines(r) THEN 0 ELSE shadow[l]]
    BY <1>3, <2>1 DEF add_PMEMaddrset
  <2>3. r \notin Registered
    <3>1. region[r] = "mapping"
      BY <1>1, <2>1, AtFirst DEF MappingsOwned, Adders, Ahead
    <3> QED BY <3>1, ListType DEF MappingsOwned, RegisteredHeld, Registered
  <2>4. Registered' = Registered \cup {r}
    BY <2>1, <2>2, AppendRegisters
  <2>5. PICK L \in SUBSET Lines : L = BodyLines(r)
    BY BodyInside
  <2>6. Claimed' = Claimed \cup L /\ Claimed \subseteq Lines
    BY <2>4, <2>5, RegisteredType DEF Claimed
  <2>7. \A l \in Claimed : l \notin RegionLines(r)
    BY <2>3, NotClaimed
  <2>8. L \cap Claimed = {}
    BY <2>5, <2>7, BodyInside
  <2>9. Medium' = [l \in Lines |-> IF l \in L THEN orig[l] ELSE Medium[l]]
    BY <2>2, <2>5, <2>6, <2>7 DEF Medium
  <2>10. PM!Attach(L)
    BY <1>1, <2>6, <2>8, <2>9 DEF PM!Attach, Medium
  <2> QED BY <1>1, <2>10 DEF PM!PMNext
<1> QED BY <1>2, <1>3

LEMMA DeleteMaps ==
    ASSUME TypeOK, TypeOK', MappingsOwned,
           NEW t \in Threads, delete_PMEMaddrset(t)
    PROVE  PM!PMNext \/ UNCHANGED PM!pmVars
<1>1. /\ UNCHANGED <<orig, shadow, pending, durable, status>>
      /\ status = "running"
  BY AtFirst DEF delete_PMEMaddrset, history
<1>2. PICK r \in Regions : r = call[t].reg
  BY CallType
<1>3. CASE r \notin Registered
  BY <1>1, <1>2, <1>3, Unseen DEF delete_PMEMaddrset
<1>4. CASE r \in Registered
  <2>1. Registered' = Registered \ {r}
    BY <1>2, <1>4, DeleteRegisters
  <2>2. PICK L \in SUBSET Lines : L = BodyLines(r)
    BY BodyInside
  <2>3. \A q \in Registered \ {r} : BodyLines(q) \cap L = {}
    <3> SUFFICES ASSUME NEW q \in Registered \ {r}, NEW l \in BodyLines(q),
                        l \in BodyLines(r)
                 PROVE  FALSE
      BY <2>2
    <3>1. q \in Regions
      BY RegisteredType
    <3> QED BY <3>1, BodyInside, OwnLines
  <2>4. Claimed' = Claimed \ L /\ Claimed \subseteq Lines
    BY <1>4, <2>1, <2>2, <2>3, RegisteredType DEF Claimed
  <2>5. Medium' = [l \in Lines |-> IF l \in L THEN 0 ELSE Medium[l]]
    BY <1>1, <2>4 DEF Medium
  <2>6. PM!Detach(L)
    BY <1>1, <2>4, <2>5 DEF PM!Detach, Medium
  <2> QED BY <1>1, <2>6 DEF PM!PMNext
<1> QED BY <1>3, <1>4

LEMMA RefinementInit == Init => PM!Start
<1> SUFFICES ASSUME Init PROVE PM!Start
  OBVIOUS
<1>1. Claimed = {}
  BY DEF Init, Claimed, Registered
<1> QED BY <1>1 DEF Init, PM!Start

LEMMA RefinementStep ==
    ASSUME TypeOK, TypeOK', MappingsOwned, ShadowInv, [Next]_vars
    PROVE  PM!PMNext \/ UNCHANGED PM!pmVars
<1>1. CASE UNCHANGED vars \/ Ended
  BY <1>1, Unseen DEF Ended, vars, memory, threads, history
<1>2. CASE Return
  BY <1>2, CrashMaps DEF Return, Terminate, history
<1>3. ASSUME NEW t \in Threads, Call(t) PROVE UNCHANGED PM!pmVars
  BY <1>3, Unseen DEF Call, history
<1>4. ASSUME NEW t \in Threads, Store(t) PROVE PM!PMNext
  <2>1. PICK m : m \in Lines /\ orig' = [orig EXCEPT ![m] = @ + 1]
    BY <1>4 DEF Store, Lines
  <2>2. orig' = [l \in Lines |-> IF l \in {m} THEN orig[l] + 1 ELSE orig[l]]
    BY <2>1 DEF TypeOK, MemoryType
  <2> QED BY <1>4, <2>1, <2>2, StoreMaps DEF Store, threads, history
<1>5. ASSUME NEW t \in Threads, LibpmemMemcpy(t) \/ LibpmemMemcpyPersist(t)
      PROVE  PM!PMNext
  <2>1. LibpmemStores(t) /\ status = "running"
        /\ UNCHANGED <<shadow, list, pending, durable, status>>
    BY <1>5, AtFirst DEF LibpmemMemcpy, LibpmemMemcpyPersist, history
  <2>2. PICK L \in SUBSET Lines :
           L = TouchedLines(call[t].rng.addr, call[t].rng.len) \cap Lines
    OBVIOUS
  <2>3. orig' = [l \in Lines |-> IF l \in L THEN orig[l] + 1 ELSE orig[l]]
    BY <2>1, <2>2 DEF LibpmemStores
  <2> QED BY <2>1, <2>3, StoreMaps
<1>6. ASSUME NEW t \in Threads, Thread(t),
             ~LibpmemMemcpy(t), ~LibpmemMemcpyPersist(t)
      PROVE  PM!PMNext \/ UNCHANGED PM!pmVars
  <2>1. CASE FlushQueued(t) \/ CopyEntry(t) \/ DrainEnds(t)
    BY <2>1, FlushMaps, CopyMaps, DrainMaps
  <2>2. CASE add_PMEMaddrset(t) \/ delete_PMEMaddrset(t)
    BY <2>2, AddMaps, DeleteMaps
  <2>3. CASE ~(\/ FlushQueued(t) \/ CopyEntry(t) \/ DrainEnds(t)
               \/ add_PMEMaddrset(t) \/ delete_PMEMaddrset(t))
    <3>1. /\ UNCHANGED <<orig, shadow, list, pending, durable>>
          /\ status = "running"
      BY <1>6, <2>3
         DEF Thread, At, plus_persistcount, Gate, Recheck, Raise, Spare,
             WriteBacktrace, SetAbortflag, SetThrough, MapFile, MapFileFails,
             MapPool, MapPoolFails, AddFails, BacktraceFails, DrainIfRaised, Unmap,
             FlushIgnored, FlushPassesThrough, FlushOverruns, DrainFails,
             DrainStarts, StaleEntry, DrainAborts, Terminate, memory, history
    <3> QED BY <3>1, Unseen, CrashMaps
  <2> QED BY <2>1, <2>2, <2>3
<1> QED BY <1>1, <1>2, <1>3, <1>4, <1>5, <1>6 DEF Next

(* The copy files are the medium of a persistent memory: stores, flushes   *)
(* and drains of the shim, in every interleaving, are the memory's stores, *)
(* flushes and fences, and every way the process ends is a crash of it     *)
(* (wraplibpmem.c:598-866).                                                *)
THEOREM ShadowRefinesMemory == Spec => ShadowIsPersistentMemory
<1>1. TypeOK /\ TypeOK' /\ MappingsOwned /\ ShadowInv /\ [Next]_vars
         => [PM!PMNext]_(PM!pmVars)
  BY RefinementStep
<1> QED BY RefinementInit, <1>1, TypeCorrect, RegistryIsSound,
           ShadowInvariant, PTL
        DEF Spec, ShadowIsPersistentMemory, PM!PMSpec

-----------------------------------------------------------------------------
(* No entry of the wait list outlives the set it points to, as long as the *)
(* program drains before it unmaps.  What carries the property:            *)

(* A range in use lies in a file that is mapped to stay. *)
UsesHeld ==
    \A t \in Threads : \A r \in Regions :
        Overlaps(call[t].rng, r) => region[r] = "held"

(* Every flush is of some byte. *)
FlushesSome ==
    \A t \in Threads : Has(todo[t], "flush") => call[t].rng.len # 0

(* A call that deletes a set goes on to unmap its file. *)
DeletesUnmap ==
    \A t \in Threads : Has(todo[t], "delete") => Has(todo[t], "unmap")

(* A file about to be unmapped has nothing queued. *)
ClosedDrained ==
    \A r \in Regions : region[r] = "closing" =>
        \A i \in DOMAIN wait : ~Inside(wait[i].rng, r)

CallsFit == UsesHeld /\ FlushesSome /\ DeletesUnmap

LiveInv == CallsFit /\ ClosedDrained /\ EntriesAreLive

-----------------------------------------------------------------------------
(* Calls, and what they use. *)

LEMMA SomeOverlaps ==
    ASSUME NEW r \in Regions, NEW rng \in [addr : Nat, len : Nat],
           Inside(rng, r), rng.len # 0
    PROVE  Overlaps(rng, r)
<1>1. Base[r] \in Nat /\ Size[r] \in Nat /\ rng.addr \in Nat /\ rng.len \in Nat
  BY RegionsAssumption
<1>2. rng.addr \div 64 \in TouchedLines(rng.addr, rng.len)
  BY <1>1 DEF TouchedLines, CACHE_LINE_SIZE
<1> QED BY <1>2, InsideTouches DEF Overlaps

LEMMA NoCallOverlaps == \A r \in Regions : ~Overlaps(NoCall.rng, r)
BY DEF NoCall, Overlaps, TouchedLines

(* What a step of a call does to the call. *)
KeepsFit(t) ==
    /\ call'[t].rng \in {call[t].rng, NoCall.rng}
    /\ Has(todo'[t], "flush") =>
          Has(todo[t], "flush") /\ call'[t].rng = call[t].rng
    /\ Has(todo'[t], "delete") =>
          /\ Has(todo[t], "delete")
          /\ Has(todo[t], "unmap") => Has(todo'[t], "unmap")

LEMMA ContinueKeepsFit ==
    ASSUME TypeOK, CallsOrdered, NEW t \in Threads, NEW op, At(t, op),
           \/ Continue(t, <<>>) \/ Continue(t, Rest(t))
           \/ \E new \in {"recheck", "coin", "copy", "drain"} :
                 Continue(t, <<new>> \o Rest(t))
    PROVE  KeepsFit(t)
<1> DEFINE s == todo[t]
<1> DEFINE Fits(rest) ==
      /\ Has(rest, "flush") => Has(s, "flush")
      /\ Has(rest, "delete") => Has(s, "delete")
                               /\ (Has(s, "unmap") => Has(rest, "unmap"))
<1>1. s \in Seq(Ops) /\ s # <<>> /\ Tail(s) \in Seq(Ops) /\ Ordered(s)
  BY AtFirst, HeadTailProperties DEF CallsOrdered
<1>2. \A op2 : ~Has(<<>>, op2)
  BY DEF Has
<1>3. ASSUME NEW rest, Continue(t, rest), Fits(rest) PROVE KeepsFit(t)
  <2>1. /\ todo'[t] = rest
        /\ call'[t] = call[t] \/ call'[t] = NoCall
        /\ rest # <<>> => call'[t] = call[t]
    BY <1>3 DEF Continue, TypeOK, ThreadType
  <2> QED BY <1>2, <1>3, <2>1 DEF KeepsFit
<1>4. Fits(Tail(s))
  BY <1>1, HasTail, UnmapStaysBehind
<1>5. ASSUME NEW new \in {"recheck", "coin", "copy", "drain"}
      PROVE  Fits(<<new>> \o Tail(s))
  <2>1. /\ <<new>> \in Seq(Ops)
        /\ ~Has(<<new>>, "flush") /\ ~Has(<<new>>, "delete")
    BY DEF Has, Ops
  <2> QED BY <1>1, <1>4, <2>1, HasConcat
<1>6. Fits(<<>>)
  BY <1>2
<1> QED BY <1>3, <1>4, <1>5, <1>6 DEF Rest

LEMMA ThreadKeepsFit ==
    ASSUME TypeOK, CallsOrdered, NEW t \in Threads, Thread(t)
    PROVE  KeepsFit(t)
<1>1. ASSUME UNCHANGED <<todo, call>> PROVE KeepsFit(t)
  BY <1>1 DEF KeepsFit
<1>2. CASE MapFile(t) \/ MapPool(t)
  <2>1. /\ todo' = [todo EXCEPT ![t] = Rest(t)]
        /\ \E r \in Regions : call' = [call EXCEPT ![t].reg = r]
        /\ At(t, "map_file") \/ At(t, "map_pool")
    BY <1>2 DEF MapFile, MapPool
  <2>2. /\ todo[t] \in Seq(Ops) /\ todo[t] # <<>>
        /\ todo'[t] = Tail(todo[t]) /\ call'[t].rng = call[t].rng
    BY <2>1, AtFirst, CallType DEF Rest, TypeOK, ThreadType, Calls
  <2>3. Ordered(todo[t])
    BY DEF CallsOrdered
  <2> QED BY <2>2, <2>3, HasTail, UnmapStaysBehind DEF KeepsFit
<1>3. CASE AddFails(t) \/ BacktraceFails(t) \/ FlushOverruns(t) \/ CopyEntry(t) \/ StaleEntry(t)
           \/ DrainAborts(t) \/ DrainFails(t)
  BY <1>1, <1>3
     DEF AddFails, BacktraceFails, FlushOverruns, DrainFails, CopyEntry, StaleEntry,
         DrainAborts, Terminate, threads
<1>4. CASE MapFileFails(t) \/ MapPoolFails(t)
  <2>1. UNCHANGED <<todo, call>> \/ \E op : At(t, op) /\ Continue(t, <<>>)
    BY <1>4 DEF MapFileFails, MapPoolFails
  <2> QED BY <2>1, <1>1, ContinueKeepsFit
<1>5. CASE Gate(t) \/ Recheck(t) \/ DrainIfRaised(t) \/ DrainStarts(t)
  <2>1. \E op : At(t, op) /\
           \/ Continue(t, Rest(t))
           \/ \E new \in {"recheck", "coin", "copy", "drain"} :
                 Continue(t, <<new>> \o Rest(t))
    BY <1>5 DEF Gate, Recheck, DrainIfRaised, DrainStarts
  <2> QED BY <2>1, ContinueKeepsFit
<1>6. CASE \/ plus_persistcount(t) \/ Raise(t) \/ Spare(t)
           \/ WriteBacktrace(t) \/ SetAbortflag(t) \/ SetThrough(t)
           \/ add_PMEMaddrset(t) \/ delete_PMEMaddrset(t) \/ Unmap(t)
           \/ FlushIgnored(t) \/ FlushPassesThrough(t) \/ FlushQueued(t)
           \/ DrainEnds(t) \/ LibpmemMemcpy(t) \/ LibpmemMemcpyPersist(t)
  <2>1. \E op : At(t, op) /\ Continue(t, Rest(t))
    BY <1>6
       DEF plus_persistcount, Raise, Spare, WriteBacktrace, SetAbortflag,
           SetThrough, add_PMEMaddrset, delete_PMEMaddrset, Unmap,
           FlushIgnored, FlushPassesThrough, FlushQueued, DrainEnds,
           LibpmemMemcpy, LibpmemMemcpyPersist
  <2> QED BY <2>1, ContinueKeepsFit
<1> QED BY <1>2, <1>3, <1>4, <1>5, <1>6 DEF Thread

(* No step of a call takes a mapped file away or starts to unmap one. *)
LEMMA ThreadKeepsHeld ==
    ASSUME TypeOK, CallsOrdered, MappingsOwned, NEW t \in Threads, Thread(t)
    PROVE  \A r \in Regions :
              /\ region[r] = "held" => region'[r] = "held"
              /\ region'[r] = "closing" => region[r] = "closing"
<1>1. ASSUME UNCHANGED region
      PROVE  \A r \in Regions :
                /\ region[r] = "held" => region'[r] = "held"
                /\ region'[r] = "closing" => region[r] = "closing"
  BY <1>1
<1>2. CASE MapFile(t) \/ MapPool(t)
  <2>1. PICK q \in Regions : /\ region[q] = "free"
                             /\ region' = [region EXCEPT ![q] = "mapping"]
    BY <1>2 DEF MapFile, MapPool
  <2> QED BY <2>1 DEF TypeOK, MemoryType
<1>3. CASE add_PMEMaddrset(t)
  <2>1. region' = [region EXCEPT ![call[t].reg] = "held"]
    BY <1>3 DEF add_PMEMaddrset
  <2> QED BY <2>1, CallType DEF TypeOK, MemoryType
<1>4. CASE Unmap(t)
  <2>1. At(t, "unmap") /\ region' = [region EXCEPT ![call[t].reg] = "free"]
    BY <1>4 DEF Unmap
  <2>2. todo[t] \in Seq(Ops) /\ todo[t] # <<>> /\ todo[t][1] = "unmap"
    BY <2>1, AtFirst
  <2>3. Unmaps(todo[t])
    BY <2>2, EmptySeq DEF Unmaps
  <2>4. region[call[t].reg] = "closing"
    BY <2>3 DEF MappingsOwned, Closers
  <2> QED BY <2>1, <2>4, CallType DEF TypeOK, MemoryType
<1>5. CASE ~(MapFile(t) \/ MapPool(t) \/ add_PMEMaddrset(t) \/ Unmap(t))
  <2>1. UNCHANGED region
    BY <1>5
       DEF Thread, plus_persistcount, Gate, Recheck, Raise, Spare,
           WriteBacktrace, SetAbortflag, SetThrough, MapFileFails,
           MapPoolFails, AddFails, BacktraceFails, DrainIfRaised, delete_PMEMaddrset,
           FlushIgnored, FlushPassesThrough, FlushQueued, FlushOverruns,
           DrainFails, DrainStarts, CopyEntry, StaleEntry, DrainEnds,
           DrainAborts, LibpmemMemcpy, LibpmemMemcpyPersist, Terminate, memory
  <2> QED BY <2>1, <1>1
<1> QED BY <1>2, <1>3, <1>4, <1>5

(* A program that drains before it unmaps and flushes no empty range. *)
Disciplined ==
    DrainBeforeUnmap /\ \A rng \in Ranges : rng.len # 0

(* What a new call brings along. *)
LEMMA CallBrings ==
    ASSUME TypeOK, CallsFit, Disciplined,
           NEW t \in Threads, Call(t)
    PROVE  CallsFit'
           /\ \A r \in Regions : region'[r] = "closing" /\ region[r] # "closing"
                 => \A i \in DOMAIN wait : ~Inside(wait[i].rng, r)
<1>1. PICK api \in Api : \E args \in Arguments(api) :
         /\ Legal(t, api, args)
         /\ todo' = [todo EXCEPT ![t] = Steps[api]]
         /\ call' = [call EXCEPT ![t] = args]
         /\ region' = IF Takes(api, {"unmap"})
                      THEN [region EXCEPT ![args.reg] = "closing"] ELSE region
  BY DEF Call
<1>2. PICK args \in Arguments(api) :
         /\ Legal(t, api, args)
         /\ todo' = [todo EXCEPT ![t] = Steps[api]]
         /\ call' = [call EXCEPT ![t] = args]
         /\ region' = IF Takes(api, {"unmap"})
                      THEN [region EXCEPT ![args.reg] = "closing"] ELSE region
  BY <1>1
<1>3. /\ api \in DOMAIN Steps /\ Steps[api] \in Seq(Ops)
      /\ args \in Calls /\ args.reg \in Regions
  BY ApiAssumption, StepsAreOps, ArgumentsType DEF Calls
<1>4. /\ todo'[t] = Steps[api] /\ call'[t] = args
      /\ \A u \in Threads \ {t} : todo'[u] = todo[u] /\ call'[u] = call[u]
  BY <1>2 DEF TypeOK, ThreadType
<1>5. \A op : Takes(api, {op}) <=> Has(Steps[api], op)
  BY <1>3, LenProperties DEF Has, Takes
<1>6. Has(Steps[api], "unmap") => args.rng = NoCall.rng
  <2>1. Has(Steps[api], "unmap") =>
           ~Takes(api, {"flush", "libpmem_memcpy", "libpmem_memcpy_persist"})
    BY <1>3, <1>5, UnmapFunctions DEF Takes
  <2> QED BY <2>1 DEF Arguments
<1>7. Has(Steps[api], "flush") => args.rng \in Ranges
  <2>1. Has(Steps[api], "flush") =>
           Takes(api, {"flush", "libpmem_memcpy", "libpmem_memcpy_persist"})
    BY <1>3, <1>5 DEF Takes
  <2> QED BY <2>1 DEF Arguments
<1>8. /\ \A r \in Regions : Overlaps(args.rng, r) => region[r] = "held"
      /\ Has(Steps[api], "unmap") =>
            /\ \A u \in Threads : ~Overlaps(call[u].rng, args.reg)
            /\ \A i \in DOMAIN wait : ~Inside(wait[i].rng, args.reg)
  BY <1>2, <1>5 DEF Legal, Disciplined
<1>9. \A r \in Regions : region'[r] =
         IF Has(Steps[api], "unmap") /\ r = args.reg THEN "closing" ELSE region[r]
  BY <1>2, <1>3, <1>5 DEF TypeOK, MemoryType
<1>10. UsesHeld'
  <2> SUFFICES ASSUME NEW u \in Threads, NEW r \in Regions,
                      Overlaps(call'[u].rng, r)
               PROVE  region'[r] = "held"
    BY DEF UsesHeld, Overlaps
  <2>1. CASE u = t
    BY <2>1, <1>4, <1>6, <1>8, <1>9, NoCallOverlaps
  <2>2. CASE u # t
    BY <2>2, <1>4, <1>8, <1>9 DEF CallsFit, UsesHeld
  <2> QED BY <2>1, <2>2
<1>11. FlushesSome'
  BY <1>4, <1>7 DEF CallsFit, FlushesSome, Disciplined
<1>12. DeletesUnmap'
  BY <1>3, <1>4, UnmapFunctions DEF CallsFit, DeletesUnmap
<1> QED BY <1>8, <1>9, <1>10, <1>11, <1>12 DEF CallsFit

LEMMA ThreadKeepsUses ==
    ASSUME TypeOK, CallsOrdered, MappingsOwned, CallsFit,
           NEW t \in Threads, Thread(t)
    PROVE  CallsFit'
<1>1. OthersWait(t) /\ KeepsFit(t)
  BY ThreadSteps, ThreadKeepsFit
<1>2. \A r \in Regions : region[r] = "held" => region'[r] = "held"
  BY ThreadKeepsHeld
<1>3. \A u \in Threads : call'[u].rng \in {call[u].rng, NoCall.rng}
  BY <1>1 DEF OthersWait, KeepsFit
<1>4. UsesHeld'
  <2> SUFFICES ASSUME NEW u \in Threads, NEW r \in Regions,
                      Overlaps(call'[u].rng, r)
               PROVE  region'[r] = "held"
    BY DEF UsesHeld, Overlaps
  <2>1. Overlaps(call[u].rng, r)
    BY <1>3, NoCallOverlaps
  <2> QED BY <2>1, <1>2 DEF CallsFit, UsesHeld
<1>5. FlushesSome'
  BY <1>1 DEF CallsFit, FlushesSome, OthersWait, KeepsFit
<1>6. DeletesUnmap'
  BY <1>1 DEF CallsFit, DeletesUnmap, OthersWait, KeepsFit
<1> QED BY <1>4, <1>5, <1>6 DEF CallsFit

LEMMA UsesStep ==
    ASSUME TypeOK, CallsOrdered, MappingsOwned, CallsFit,
           Disciplined, [Next]_vars
    PROVE  /\ CallsFit'
           /\ \A r \in Regions : region'[r] = "closing" /\ region[r] # "closing"
                 => \A i \in DOMAIN wait : ~Inside(wait[i].rng, r)
<1>1. CASE UNCHANGED <<todo, call, region>>
  BY <1>1 DEF CallsFit, UsesHeld, FlushesSome, DeletesUnmap, Overlaps
<1>2. CASE UNCHANGED vars \/ Return \/ Ended
  BY <1>1, <1>2 DEF vars, memory, threads, Return, Ended, Terminate
<1>3. ASSUME NEW t \in Threads, Store(t)
      PROVE  UNCHANGED <<todo, call, region>>
  BY <1>3 DEF Store, threads
<1>4. ASSUME NEW t \in Threads, Thread(t)
      PROVE  /\ CallsFit'
             /\ \A r \in Regions :
                   region'[r] = "closing" => region[r] = "closing"
  BY <1>4, ThreadKeepsUses, ThreadKeepsHeld
<1> QED BY <1>1, <1>2, <1>3, <1>4, CallBrings DEF Next

-----------------------------------------------------------------------------
(* The wait list. *)

(* Steps that take away entries or sets no entry is left in. *)
LEMMA FewerKeepLive ==
    ASSUME LiveInv,
           \A k \in DOMAIN wait' : \E i \in DOMAIN wait : wait'[k] = wait[i],
           \A i \in DOMAIN wait : \A j \in DOMAIN list :
              SetOf(wait[i], j) => \E m \in DOMAIN list' : list'[m] = list[j]
    PROVE  /\ \A k \in DOMAIN wait' : \E m \in DOMAIN list' : SetOf(wait[k], m)'
           /\ \A r \in Regions : region[r] = "closing" =>
                 \A k \in DOMAIN wait' : ~Inside(wait'[k].rng, r)
<1>1. \A k \in DOMAIN wait' : \E m \in DOMAIN list' : SetOf(wait[k], m)'
  BY DEF LiveInv, EntriesAreLive, SetOf
<1>2. \A r \in Regions : region[r] = "closing" =>
         \A k \in DOMAIN wait' : ~Inside(wait'[k].rng, r)
  BY DEF LiveInv, ClosedDrained
<1> QED BY <1>1, <1>2

LEMMA FlushKeepsLive ==
    ASSUME TypeOK, LiveInv, NEW t \in Threads, FlushQueued(t)
    PROVE  /\ \A k \in DOMAIN wait' : \E m \in DOMAIN list' : SetOf(wait[k], m)'
           /\ \A r \in Regions : region[r] = "closing" =>
                 \A k \in DOMAIN wait' : ~Inside(wait'[k].rng, r)
<1> DEFINE rng == call[t].rng
<1>1. PICK i \in DOMAIN list :
         /\ Inside(rng, list[i].reg)
         /\ wait' = Append(wait, [rng |-> rng, set |-> list[i].chunk])
  BY DEF FlushQueued
<1> DEFINE e == [rng |-> rng, set |-> list[i].chunk]
<1>2. list[i] \in [chunk : Chunks, reg : Regions] /\ rng \in [addr : Nat, len : Nat]
  BY <1>1, ListType, ElementOfSeq, CallType DEF Calls
<1>3. rng.len # 0
  <2>1. At(t, "flush")
    BY DEF FlushQueued
  <2>2. todo[t] \in Seq(Ops) /\ todo[t] # <<>> /\ todo[t][1] = "flush"
    BY <2>1, AtFirst
  <2>3. Has(todo[t], "flush")
    BY <2>2, EmptySeq DEF Has
  <2> QED BY <2>3 DEF LiveInv, CallsFit, FlushesSome
<1>4. UNCHANGED list /\ SetOf(e, i)
  BY <1>1 DEF FlushQueued, SetOf
<1>5. \A r \in Regions : region[r] = "closing" => ~Inside(rng, r)
  BY <1>2, <1>3, SomeOverlaps DEF LiveInv, CallsFit, UsesHeld
<1>6. \A k \in DOMAIN wait' : wait'[k] = e \/ \E m \in DOMAIN wait : wait'[k] = wait[m]
  <2>1. e \in [rng : [addr : Nat, len : Nat], set : Chunks] /\ wait' = Append(wait, e)
    BY <1>1, <1>2
  <2> HIDE DEF e
  <2>2. /\ Len(wait') = Len(wait) + 1 /\ DOMAIN wait' = 1..Len(wait')
        /\ \A k \in 1..Len(wait) : wait'[k] = wait[k]
        /\ wait'[Len(wait) + 1] = e
    BY <2>1, WaitType, AppendProperties, LenProperties
  <2> QED BY <2>2, WaitType
<1>7. e.rng = rng
  OBVIOUS
<1> HIDE DEF e, rng
<1>8. \A k \in DOMAIN wait' : \E m \in DOMAIN list' : SetOf(wait[k], m)'
  BY <1>4, <1>6, <1>1 DEF LiveInv, EntriesAreLive, SetOf
<1>9. \A r \in Regions : region[r] = "closing" =>
         \A k \in DOMAIN wait' : ~Inside(wait'[k].rng, r)
  BY <1>5, <1>6, <1>7 DEF LiveInv, ClosedDrained
<1> QED BY <1>8, <1>9

LEMMA WaitStep ==
    ASSUME TypeOK, TypeOK', MappingsOwned, LiveInv, [Next]_vars
    PROVE  /\ \A k \in DOMAIN wait' : \E m \in DOMAIN list' : SetOf(wait[k], m)'
           /\ \A r \in Regions : region[r] = "closing" =>
                 \A k \in DOMAIN wait' : ~Inside(wait'[k].rng, r)
<1>1. CASE UNCHANGED <<wait, list>>
  BY <1>1, FewerKeepLive
<1>2. ASSUME NEW t \in Threads, CopyEntry(t)
      PROVE  /\ UNCHANGED list
             /\ \A k \in DOMAIN wait' : \E i \in DOMAIN wait : wait'[k] = wait[i]
  <2>1. wait # <<>> /\ wait' = Tail(wait) /\ UNCHANGED list
    BY <1>2 DEF CopyEntry
  <2>2. /\ DOMAIN wait' = 1..(Len(wait) - 1)
        /\ \A k \in 1..(Len(wait) - 1) : wait'[k] = wait[k + 1]
    BY <2>1, WaitType, HeadTailProperties, LenProperties
  <2>3. \A k \in 1..(Len(wait) - 1) : k + 1 \in DOMAIN wait
    BY WaitType
  <2> QED BY <2>1, <2>2, <2>3
<1>3. ASSUME NEW t \in Threads, add_PMEMaddrset(t)
      PROVE  /\ UNCHANGED wait
             /\ \A j \in DOMAIN list : \E m \in DOMAIN list' : list'[m] = list[j]
  <2>1. UNCHANGED wait /\ call[t].reg \in Regions
        /\ \/ UNCHANGED list
           \/ \E k \in FreeChunks :
                 list' = Append(list, [chunk |-> k, reg |-> call[t].reg])
    BY <1>3, CallType DEF add_PMEMaddrset
  <2> QED BY <2>1, AppendRegisters
<1>4. ASSUME NEW t \in Threads, delete_PMEMaddrset(t)
      PROVE  /\ UNCHANGED wait
             /\ \A i \in DOMAIN wait : \A j \in DOMAIN list : SetOf(wait[i], j)
                   => \E m \in DOMAIN list' : list'[m] = list[j]
  <2> DEFINE r == call[t].reg
  <2>1. /\ UNCHANGED wait /\ At(t, "delete") /\ Continue(t, Rest(t))
        /\ r \notin Registered => UNCHANGED list
    BY <1>4 DEF delete_PMEMaddrset
  <2>2. CASE r \notin Registered
    BY <2>1, <2>2
  <2>3. CASE r \in Registered
    <3>1. \A j \in DOMAIN list : list[j].reg # r =>
             \E m \in DOMAIN list' : list'[m] = list[j]
      BY <1>4, <2>3, DeleteRegisters
    <3>2. region[r] = "closing" /\ r \in Regions
      <4>1. todo[t] \in Seq(Ops) /\ todo[t] # <<>> /\ todo[t][1] = "delete"
        BY <2>1, AtFirst
      <4>2. Has(todo[t], "delete")
        BY <4>1, EmptySeq DEF Has
      <4>3. Unmaps(todo[t])
        BY <4>2 DEF LiveInv, CallsFit, DeletesUnmap, Has, Unmaps
      <4> QED BY <4>3, CallType DEF MappingsOwned, Closers
    <3>3. \A i \in DOMAIN wait : \A j \in DOMAIN list :
             SetOf(wait[i], j) => list[j].reg # r
      BY <3>2 DEF LiveInv, ClosedDrained, SetOf
    <3> QED BY <2>1, <3>1, <3>3
  <2> QED BY <2>2, <2>3
<1>5. CASE UNCHANGED <<shadow, list, wait, pending, durable>>
  BY <1>5, <1>1
<1>6. ASSUME NEW t \in Threads, DrainEnds(t)
      PROVE  UNCHANGED <<wait, list>>
  BY <1>6 DEF DrainEnds, memory
<1> QED BY <1>1, <1>2, <1>3, <1>4, <1>5, <1>6, Movers, FewerKeepLive, FlushKeepsLive

LEMMA LiveStep ==
    ASSUME TypeOK, TypeOK', CallsOrdered, MappingsOwned, LiveInv, Disciplined,
           [Next]_vars
    PROVE  LiveInv'
<1>1. CallsFit'
  BY UsesStep DEF LiveInv
<1>2. \A k \in DOMAIN wait' : \E m \in DOMAIN list' : SetOf(wait[k], m)'
  BY WaitStep
<1>3. status' # "undefined"
  <2>1. ASSUME NEW t \in Threads, StaleEntry(t) PROVE FALSE
    <3>1. wait # <<>> /\ Head(wait) = wait[1] /\ 1 \in DOMAIN wait
      BY <2>1, WaitType, EmptySeq DEF StaleEntry
    <3> QED BY <2>1, <3>1 DEF StaleEntry, LiveInv, EntriesAreLive
  <2>2. ASSUME status' # status
        PROVE  status' # "undefined" \/ \E t \in Threads : StaleEntry(t)
    BY <2>2
       DEF Next, vars, Return, Ended, Call, Store, threads,
           Thread, plus_persistcount, Gate, Recheck, Raise, Spare,
           WriteBacktrace, SetAbortflag, SetThrough, MapFile, MapFileFails,
           MapPool, MapPoolFails, add_PMEMaddrset, AddFails, BacktraceFails, DrainIfRaised,
           delete_PMEMaddrset, Unmap, FlushIgnored, FlushPassesThrough,
           FlushQueued, FlushOverruns, DrainFails, DrainStarts, CopyEntry,
           DrainEnds, DrainAborts, LibpmemMemcpy, LibpmemMemcpyPersist,
           Terminate
  <2> QED BY <2>1, <2>2 DEF LiveInv, EntriesAreLive
<1>4. ClosedDrained'
  <2>1. CASE UNCHANGED wait
    BY <2>1, UsesStep DEF LiveInv, ClosedDrained, Inside
  <2>2. CASE UNCHANGED region
    BY <2>2, WaitStep DEF ClosedDrained, Inside
  <2>3. UNCHANGED wait \/ UNCHANGED region
    BY Movers
       DEF FlushQueued, CopyEntry, DrainEnds, add_PMEMaddrset,
           delete_PMEMaddrset, memory
  <2> QED BY <2>1, <2>2, <2>3
<1> QED BY <1>1, <1>2, <1>3, <1>4 DEF LiveInv, EntriesAreLive

LEMMA LiveInit == Init => LiveInv
<1> SUFFICES ASSUME Init PROVE LiveInv
  OBVIOUS
<1>1. CallsFit
  BY NoCallOverlaps DEF Init, CallsFit, UsesHeld, FlushesSome, DeletesUnmap, Has
<1> QED BY <1>1 DEF Init, LiveInv, ClosedDrained, EntriesAreLive

(* A program that drains before it unmaps is safe with the shim: whatever  *)
(* its threads map, flush, drain and unmap at once, no drain reads a set   *)
(* that was freed (wraplibpmem.c:659-683, 827-862).                        *)
THEOREM EntriesStayLive ==
    ASSUME Disciplined PROVE Spec => []EntriesAreLive
<1>1. TypeOK /\ TypeOK' /\ CallsOrdered /\ MappingsOwned /\ LiveInv /\ [Next]_vars
         => LiveInv'
  BY LiveStep
<1>2. LiveInv => EntriesAreLive
  BY DEF LiveInv
<1> QED BY LiveInit, <1>1, <1>2, TypeCorrect, RegistryIsSound, PTL DEF Spec

=============================================================================
