-------------------------- MODULE CrashImageProofs --------------------------
(* What the image holds, for every pair of files: whole lines, and a       *)
(* pool's own header.                                                      *)
EXTENDS CrashImage, TLAPS

LEMMA Constants ==
    /\ PageSize \in Nat /\ PageSize % 64 = 0 /\ PageSize >= 64
    /\ SizeMod \in Nat /\ SizeMod > 64
    /\ \A n \in Sizes : n \in Nat /\ n > 0 /\ n < SizeMod
<1>1. /\ PageSize \in Nat /\ PageSize > 0 /\ PageSize % 64 = 0
      /\ SizeMod \in Nat /\ PageSize < SizeMod
    BY ToolAssumption DEF CACHE_LINE_SIZE
<1>2. PageSize >= 64
    BY <1>1
<1>3. \A n \in Sizes : n \in Nat /\ n > 0 /\ n < SizeMod
    BY ToolAssumption
<1> QED
    BY <1>1, <1>2, <1>3

LEMMA MinusIsUnsigned ==
    ASSUME NEW a \in Int, NEW b \in Int
    PROVE  Minus(a, b) \in 0 .. SizeMod - 1
BY ToolAssumption, SMT DEF Minus

LEMMA MinusIsMinus ==
    ASSUME NEW a \in Int, NEW b \in Int, a >= b, a - b < SizeMod
    PROVE  Minus(a, b) = a - b
<1>1. PICK d \in Int : d = a - b
    OBVIOUS
<1>2. SizeMod \in Int /\ 0 <= d /\ d < SizeMod
    BY <1>1, ToolAssumption
<1>3. d % SizeMod = d
    BY <1>2, SMT
<1> QED
    BY <1>1, <1>3 DEF Minus

(* A piece of whole lines, or one that reaches the end of the file, splits *)
(* no line.                                                                *)
LEMMA BytesOfWholeLines ==
    ASSUME diff \subseteq 0 .. size - 1, size \in Nat,
           NEW from \in Nat, NEW n \in Nat, from % CACHE_LINE_SIZE = 0,
           n % CACHE_LINE_SIZE = 0 \/ from + n >= size,
           NEW b \in diff, NEW c \in diff, SameLine(b, c)
    PROVE  b \in Bytes(from, n) <=> c \in Bytes(from, n)
<1>1. b \in Nat /\ c \in Nat /\ b < size /\ c < size
    OBVIOUS
<1>2. b \div 64 = c \div 64 /\ from % 64 = 0 /\ (n % 64 = 0 \/ from + n >= size)
    BY DEF SameLine, CACHE_LINE_SIZE
<1>3. from <= b <=> from <= c
    BY <1>1, <1>2
<1>4. b < from + n <=> c < from + n
    BY <1>1, <1>2
<1> QED
    BY <1>3, <1>4 DEF Bytes

(* What holds of the tool at every moment. *)
ImageInv ==
    /\ ImageTypeOK
    /\ offset % CACHE_LINE_SIZE = 0
    /\ asked \in Seq([offset : Nat, len : Nat])
    /\ pc = "normal" => offset + len >= size
    /\ is_obj /\ pc \in {"normal", "rand"} => offset >= PageSize
    /\ pc = "main" => fetched = {}
    /\ mode = "NORMAL_MEMCPY" => pc \notin {"rand", "selected"}
    /\ mode = "RAND_MEMCPY" => pc \notin {"normal", "selected"}
    /\ LinesAreWhole
    /\ HeaderKept

LEMMA ImageInit == Init => ImageInv
<1> SUFFICES ASSUME Init PROVE ImageInv
    OBVIOUS
<1>1. size \in Nat \ {0} /\ SizeMod \in Nat \ {0} /\ PageSize \in Nat
    BY Constants DEF Init
<1>2. diff \subseteq 0 .. size - 1
    BY <1>1, ToolAssumption DEF Init
<1>3. ranges \in Seq([offset : Nat, len : Nat])
    BY ToolAssumption DEF Init
<1>4. ImageTypeOK
  <2>1. zeroed \in BOOLEAN /\ comparable \in BOOLEAN /\ is_obj \in BOOLEAN
      BY Zenon DEF Init
  <2>2. size \in Sizes /\ offset \in Nat /\ len \in 0 .. SizeMod - 1
      BY <1>1 DEF Init
  <2> QED
      BY <1>2, <1>3, <2>1, <2>2, Zenon DEF Init, ImageTypeOK
<1>5. LinesAreWhole /\ HeaderKept
    BY DEF Init, LinesAreWhole, HeaderKept
<1> QED
    BY <1>3, <1>4, <1>5 DEF Init, ImageInv, CACHE_LINE_SIZE

LEMMA MaxLength ==
    /\ memcpy_len_max \in Nat /\ memcpy_len_max % CACHE_LINE_SIZE = 0
    /\ memcpy_len_max >= CACHE_LINE_SIZE
BY ToolAssumption DEF memcpy_len_max, CACHE_LINE_SIZE

(* The rest after the last full line reaches the end of the file, or is    *)
(* empty.                                                                  *)
LEMMA RemainderIsTheRest ==
    ASSUME ImageInv, pc = "rand", offset >= size,
           NEW last \in Int, last = offset - CACHE_LINE_SIZE
    PROVE  LET n == Minus(size, last) % CACHE_LINE_SIZE IN
           /\ n \in Nat /\ last % CACHE_LINE_SIZE = 0
           /\ last \in Nat
           /\ last < size => n = 0 \/ last + n >= size
           /\ last < PageSize /\ offset >= PageSize /\ size >= PageSize => n = 0
<1> DEFINE n == Minus(size, last) % CACHE_LINE_SIZE
<1>1. size \in Nat \ {0} /\ offset \in Nat /\ SizeMod \in Nat
      /\ PageSize \in Nat /\ SizeMod > 64 /\ offset % 64 = 0
      /\ PageSize % 64 = 0 /\ size < SizeMod
    BY Constants DEF ImageInv, ImageTypeOK, CACHE_LINE_SIZE
<1>2. n \in Nat
    BY MinusIsUnsigned, <1>1 DEF CACHE_LINE_SIZE
<1>3. last % CACHE_LINE_SIZE = 0 /\ last \in Nat
    BY <1>1 DEF CACHE_LINE_SIZE
<1>4. ASSUME last < size PROVE n = 0 \/ last + n >= size
  <2>1. size - last \in 1 .. 64
      BY <1>1, <1>4 DEF CACHE_LINE_SIZE
  <2>2. Minus(size, last) = size - last
      BY <2>1, <1>1, MinusIsMinus
  <2> QED
      BY <2>1, <2>2, <1>1 DEF CACHE_LINE_SIZE
<1>5. ASSUME last < PageSize, offset >= PageSize, size >= PageSize
      PROVE  n = 0
  <2>1. offset = PageSize /\ size = PageSize
      BY <1>1, <1>5 DEF CACHE_LINE_SIZE
  <2>2. size - last = 64
      BY <2>1, <1>1 DEF CACHE_LINE_SIZE
  <2>3. Minus(size, last) = 64
      BY <2>2, <1>1, MinusIsMinus
  <2> QED
      BY <2>3 DEF CACHE_LINE_SIZE
<1> QED
    BY <1>2, <1>3, <1>4, <1>5

(* Taking bytes that split no line keeps the lines whole.                  *)
LEMMA TakeKeepsLines ==
    ASSUME ImageTypeOK, LinesAreWhole, pc # "fault",
           NEW from \in Nat, NEW n \in Nat, from % CACHE_LINE_SIZE = 0,
           n % CACHE_LINE_SIZE = 0 \/ from + n >= size,
           diff' = diff, fetched' = fetched \cup Bytes(from, n)
    PROVE  LinesAreWhole' /\ fetched' \subseteq diff
<1>1. diff \subseteq 0 .. size - 1 /\ size \in Nat
    BY ToolAssumption DEF ImageTypeOK
<1>2. ASSUME NEW b \in diff, NEW c \in diff, SameLine(b, c)
      PROVE  b \in Bytes(from, n) <=> c \in Bytes(from, n)
    BY <1>1, <1>2, BytesOfWholeLines
<1>3. Bytes(from, n) \subseteq diff
    BY DEF Bytes
<1> QED
    BY <1>2, <1>3 DEF LinesAreWhole, ImageTypeOK, SameLine

-----------------------------------------------------------------------------
(* Steps. *)

(* What the steps of the copying loops leave alone. *)
LEMMA LoopTypes ==
    ASSUME ImageTypeOK, UNCHANGED <<input, is_obj>>,
           pc' \in {"normal", "rand", "selected", "done", "fault"},
           offset' \in Nat, len' \in 0 .. SizeMod - 1,
           ranges' \in Seq([offset : Nat, len : Nat]), fetched' \subseteq diff
    PROVE  ImageTypeOK'
BY Zenon DEF ImageTypeOK, input

LEMMA MainStep == ImageInv /\ Main => ImageInv'
<1> SUFFICES ASSUME ImageInv, Main PROVE ImageInv'
    OBVIOUS
<1>1. fetched' = {} /\ ranges' \in Seq([offset : Nat, len : Nat])
      /\ asked' \in Seq([offset : Nat, len : Nat])
    BY DEF ImageInv, ImageTypeOK, Main, input
<1>2. offset' \in Nat /\ offset' % CACHE_LINE_SIZE = 0
    BY Constants DEF ImageInv, ImageTypeOK, Main, StartOffset, CACHE_LINE_SIZE
<1>3. size \in Nat /\ size < SizeMod /\ SizeMod \in Nat /\ size' = size
    BY Constants DEF ImageInv, ImageTypeOK, Main, input
<1>4. len' \in 0 .. SizeMod - 1
    BY <1>2, <1>3, MinusIsUnsigned DEF ImageInv, ImageTypeOK, Main
<1>5. pc' = "normal" => offset' + len' >= size'
  <2> SUFFICES ASSUME pc' = "normal" PROVE offset' + len' >= size
      BY <1>3
  <2>1. len' = Minus(size, offset')
      BY DEF Main, ImageInv, ImageTypeOK, Modes
  <2>2. PICK o \in Nat : o = offset'
      BY <1>2
  <2>3. PICK l \in Nat : l = len'
      BY <1>3, <1>4
  <2>4. o + l >= size
    <3>1. CASE o >= size
        BY <1>3, <3>1
    <3>2. CASE o < size
      <4>1. l = size - o
          BY <1>3, <2>1, <2>2, <2>3, <3>2, MinusIsMinus
      <4> QED
          BY <1>3, <4>1
    <3> QED
        BY <1>3, <3>1, <3>2
  <2> QED
      BY <2>2, <2>3, <2>4
<1>6. is_obj' /\ pc' \in {"normal", "rand"} => offset' >= PageSize
    BY Constants DEF Main, StartOffset, ImageInv, ImageTypeOK, Modes
<1>7. ImageTypeOK'
  <2>1. zeroed' \in BOOLEAN /\ comparable' \in BOOLEAN /\ is_obj' \in BOOLEAN
      BY Zenon DEF Main, ImageInv, ImageTypeOK, input
  <2>2. size' \in Sizes /\ diff' \subseteq 0 .. size' - 1
        /\ mode' \in Modes
        /\ pc' \in {"normal", "rand", "selected", "done"}
      BY DEF Main, ImageInv, ImageTypeOK, Modes, input
  <2> QED
      BY <1>1, <1>2, <1>4, <2>1, <2>2, Zenon DEF ImageTypeOK
<1>8. /\ mode' = "NORMAL_MEMCPY" => pc' \notin {"rand", "selected"}
      /\ mode' = "RAND_MEMCPY" => pc' \notin {"normal", "selected"}
      /\ pc' # "main"
    BY DEF Main, ImageInv, ImageTypeOK, Modes, input
<1>9. LinesAreWhole' /\ HeaderKept'
    BY <1>1 DEF LinesAreWhole, HeaderKept
<1> QED
    BY <1>1, <1>2, <1>5, <1>6, <1>7, <1>8, <1>9, Zenon DEF ImageInv

LEMMA RefuseStep == ImageInv /\ Refuse => ImageInv'
<1> SUFFICES ASSUME ImageInv, Refuse PROVE ImageInv'
    OBVIOUS
<1>1. ImageTypeOK'
    BY Zenon DEF Refuse, ImageInv, ImageTypeOK, input
<1>2. LinesAreWhole' /\ HeaderKept'
    BY Zenon DEF Refuse, ImageInv, LinesAreWhole, HeaderKept, SameLine, input
<1> QED
    BY <1>1, <1>2, Zenon DEF Refuse, ImageInv, input

LEMMA NoEnvironmentStep == ImageInv /\ NoEnvironment => ImageInv'
<1> SUFFICES ASSUME ImageInv, NoEnvironment PROVE ImageInv'
    OBVIOUS
<1>1. /\ pc' = "segv" /\ mode = "UNSET" /\ is_obj' = zeroed
      /\ UNCHANGED <<size, diff, zeroed, comparable, mode, asked>>
      /\ UNCHANGED <<offset, len, ranges, fetched>>
    BY Zenon DEF NoEnvironment, input
<1>2. ImageTypeOK'
    BY <1>1, Zenon DEF ImageInv, ImageTypeOK
<1>3. LinesAreWhole'
  <2>1. pc # "fault"
      BY DEF NoEnvironment
  <2> QED
      BY <1>1, <2>1, Zenon DEF ImageInv, LinesAreWhole, SameLine
<1>4. HeaderKept'
    BY <1>1 DEF HeaderKept
<1>5. /\ pc' \notin {"main", "normal", "rand"}
      /\ mode' \notin {"NORMAL_MEMCPY", "RAND_MEMCPY"}
    BY <1>1
<1> QED
    BY <1>1, <1>2, <1>3, <1>4, <1>5, Zenon DEF ImageInv

(* A fetch of whole lines, or of the rest of the file, at or behind the    *)
(* header of a pool.                                                       *)
LEMMA FetchKeeps ==
    ASSUME ImageInv, NEW from \in Nat, NEW n \in Nat, NEW next,
           pc # "fault", Fetch(from, n, next), from % CACHE_LINE_SIZE = 0,
           n % CACHE_LINE_SIZE = 0 \/ from + n >= size,
           is_obj /\ mode \in {"NORMAL_MEMCPY", "RAND_MEMCPY"} => from >= PageSize,
           UNCHANGED <<input, is_obj>>
    PROVE  LinesAreWhole' /\ HeaderKept' /\ fetched' \subseteq diff
<1>1. fetched' \subseteq fetched \cup Bytes(from, n)
    BY DEF Fetch
<1>2. \A b \in Bytes(from, n) : b \in diff /\ b >= from /\ b \in Nat
    BY DEF Bytes, ImageInv, ImageTypeOK
<1>3. HeaderKept'
    BY <1>1, <1>2, Constants DEF HeaderKept, ImageInv, input
<1>4. fetched' \subseteq diff
    BY <1>1, <1>2 DEF ImageInv, ImageTypeOK
<1>5. LinesAreWhole'
  <2>1. CASE OutOfMapping(from, n)
      BY <2>1 DEF Fetch, LinesAreWhole
  <2>2. CASE ~OutOfMapping(from, n)
    <3>1. fetched' = fetched \cup Bytes(from, n) /\ diff' = diff
        BY <2>2 DEF Fetch, input
    <3> QED
        BY <3>1, TakeKeepsLines DEF ImageInv
  <2> QED
      BY <2>1, <2>2
<1> QED
    BY <1>3, <1>4, <1>5

LEMMA NormalPieceStep == ImageInv /\ NormalPiece => ImageInv'
<1> SUFFICES ASSUME ImageInv, NormalPiece PROVE ImageInv'
    OBVIOUS
<1> DEFINE m == memcpy_len_max
<1>1. /\ offset \in Nat /\ len \in Nat /\ len < SizeMod /\ size \in Nat
      /\ m \in Nat /\ m % 64 = 0 /\ m >= 64 /\ offset % 64 = 0
      /\ PageSize \in Nat /\ SizeMod \in Nat
    BY Constants, MaxLength DEF ImageInv, ImageTypeOK, CACHE_LINE_SIZE
<1>2. /\ offset' = offset + m /\ len' = len - m /\ len > m
      /\ offset + len >= size /\ pc' \in {"normal", "fault"}
      /\ is_obj => offset >= PageSize
      /\ mode \notin {"RAND_MEMCPY"}
    BY DEF NormalPiece, NextPiece, Fetch, ImageInv
<1>3. /\ offset' \in Nat /\ len' \in 0 .. SizeMod - 1 /\ offset' % 64 = 0
      /\ offset' + len' >= size /\ (is_obj => offset' >= PageSize)
  <2> HIDE DEF m
  <2>1. offset + m \in Nat /\ len - m \in 0 .. SizeMod - 1
        /\ (offset + m) % 64 = 0 /\ (offset + m) + (len - m) >= size
        /\ (is_obj => offset + m >= PageSize)
      BY <1>1, <1>2
  <2> QED
      BY <1>2, <2>1
<1>4. LinesAreWhole' /\ HeaderKept' /\ fetched' \subseteq diff
    BY <1>1, <1>2, FetchKeeps DEF NormalPiece, CACHE_LINE_SIZE
<1>5. ImageTypeOK'
    BY <1>2, <1>3, <1>4, LoopTypes, Zenon
    DEF NormalPiece, ImageInv, ImageTypeOK
<1>6. UNCHANGED <<size, mode, asked, is_obj>>
    BY DEF NormalPiece, input
<1> QED
    BY <1>2, <1>3, <1>4, <1>5, <1>6 DEF ImageInv, CACHE_LINE_SIZE

LEMMA NormalRestStep == ImageInv /\ NormalRest => ImageInv'
<1> SUFFICES ASSUME ImageInv, NormalRest PROVE ImageInv'
    OBVIOUS
<1>1. /\ offset \in Nat /\ len \in Nat
      /\ offset % CACHE_LINE_SIZE = 0 /\ offset + len >= size
      /\ is_obj => offset >= PageSize
    BY Constants DEF ImageInv, ImageTypeOK, NormalRest
<1>2. pc' \in {"done", "fault"} /\ UNCHANGED <<size, mode, asked, offset, len, ranges>>
    BY DEF NormalRest, Fetch, input
<1>3. LinesAreWhole' /\ HeaderKept' /\ fetched' \subseteq diff
    BY <1>1, FetchKeeps DEF NormalRest
<1>4. ImageTypeOK'
    BY <1>2, <1>3, LoopTypes, Zenon DEF NormalRest, ImageInv, ImageTypeOK
<1> QED
    BY <1>1, <1>2, <1>3, <1>4, Zenon DEF ImageInv

(* A toss takes the bytes or leaves them. *)
LEMMA TossKeeps ==
    ASSUME ImageInv, NEW from \in Nat, NEW n \in Nat,
           pc # "fault", Toss(from, n), from % CACHE_LINE_SIZE = 0,
           n % CACHE_LINE_SIZE = 0 \/ from + n >= size,
           is_obj /\ size >= PageSize
             => from >= PageSize \/ Bytes(from, n) = {},
           UNCHANGED <<input, is_obj>>
    PROVE  LinesAreWhole' /\ HeaderKept' /\ fetched' \subseteq diff
<1>1. fetched' \subseteq fetched \cup Bytes(from, n)
    BY DEF Toss
<1>2. \A b \in Bytes(from, n) : b \in diff /\ b >= from /\ b \in Nat
    BY DEF Bytes, ImageInv, ImageTypeOK
<1>3. HeaderKept'
    BY <1>1, <1>2, Constants DEF HeaderKept, ImageInv, input
<1>4. LinesAreWhole'
  <2>1. CASE fetched' = fetched
      BY <2>1, Zenon DEF LinesAreWhole, ImageInv, input, SameLine
  <2>2. CASE fetched' = fetched \cup Bytes(from, n)
    <3>1. diff' = diff
        BY DEF input
    <3> QED
        BY <2>2, <3>1, TakeKeepsLines DEF ImageInv
  <2> QED
      BY <2>1, <2>2 DEF Toss
<1> QED
    BY <1>1, <1>2, <1>3, <1>4 DEF ImageInv, ImageTypeOK

LEMMA RandLineStep == ImageInv /\ RandLine => ImageInv'
<1> SUFFICES ASSUME ImageInv, RandLine PROVE ImageInv'
    OBVIOUS
<1>1. /\ offset \in Nat /\ offset % 64 = 0 /\ PageSize \in Nat
      /\ is_obj => offset >= PageSize
    BY Constants DEF ImageInv, ImageTypeOK, RandLine, CACHE_LINE_SIZE
<1>2. offset' = offset + 64 /\ pc = "rand" /\ pc' = pc
      /\ UNCHANGED <<size, mode, asked, len, ranges, is_obj>>
    BY DEF RandLine, input, CACHE_LINE_SIZE
<1>3. offset' \in Nat /\ offset' % 64 = 0 /\ (is_obj => offset' >= PageSize)
  <2>1. offset + 64 \in Nat /\ (offset + 64) % 64 = 0
        /\ (is_obj => offset + 64 >= PageSize)
      BY <1>1
  <2> QED
      BY <1>2, <2>1
<1>4. LinesAreWhole' /\ HeaderKept' /\ fetched' \subseteq diff
    BY <1>1, <1>2, TossKeeps DEF RandLine, CACHE_LINE_SIZE
<1>5. ImageTypeOK'
    BY <1>2, <1>3, <1>4, LoopTypes, Zenon DEF RandLine, ImageInv, ImageTypeOK
<1> QED
    BY <1>2, <1>3, <1>4, <1>5 DEF ImageInv, CACHE_LINE_SIZE

LEMMA RandRemainderStep == ImageInv /\ RandRemainder => ImageInv'
<1> SUFFICES ASSUME ImageInv, RandRemainder PROVE ImageInv'
    OBVIOUS
<1>1. PICK last \in Int : last = offset - CACHE_LINE_SIZE
    BY DEF ImageInv, ImageTypeOK, CACHE_LINE_SIZE
<1>2. PICK n \in Nat : n = Minus(size, last) % CACHE_LINE_SIZE
    BY <1>1, RemainderIsTheRest DEF RandRemainder
<1>3. /\ n \in Nat /\ last \in Nat /\ last % CACHE_LINE_SIZE = 0
      /\ last < size => n = 0 \/ last + n >= size
      /\ last < PageSize /\ offset >= PageSize /\ size >= PageSize => n = 0
    BY <1>1, <1>2, RemainderIsTheRest DEF RandRemainder
<1>4. /\ size \in Nat /\ PageSize \in Nat
      /\ is_obj => offset >= PageSize
    BY Constants DEF ImageInv, ImageTypeOK, RandRemainder
<1>5. n % CACHE_LINE_SIZE = 0 \/ last + n >= size
    BY <1>3, <1>4 DEF CACHE_LINE_SIZE
<1>6. is_obj /\ size >= PageSize => last >= PageSize \/ Bytes(last, n) = {}
  <2>1. ASSUME n = 0 PROVE Bytes(last, n) = {}
    <3>1. \A b \in diff : b \in Int
        BY Constants DEF ImageInv, ImageTypeOK
    <3> QED
        BY <1>3, <2>1, <3>1 DEF Bytes
  <2> QED
      BY <1>3, <1>4, <2>1
<1>7. Toss(last, n) /\ pc' = "done" /\ pc # "fault"
      /\ UNCHANGED <<input, is_obj, offset, len, ranges>>
    BY <1>1, <1>2 DEF RandRemainder
<1>8. LinesAreWhole' /\ HeaderKept' /\ fetched' \subseteq diff
    BY <1>3, <1>5, <1>6, <1>7, TossKeeps
<1>9. ImageTypeOK'
    BY <1>7, <1>8, LoopTypes, Zenon DEF ImageInv, ImageTypeOK
<1> QED
    BY <1>7, <1>8, <1>9, Zenon DEF ImageInv, input

LEMMA Rounding ==
    ASSUME NEW x \in Nat, NEW y \in Nat
    PROVE  LET from == RoundedDown(x)  to == RoundedUp(x + y) IN
           /\ from \in Nat /\ from % CACHE_LINE_SIZE = 0
           /\ to - from \in Nat /\ (to - from) % CACHE_LINE_SIZE = 0
BY DEF RoundedDown, RoundedUp, CACHE_LINE_SIZE

LEMMA HeadOfSeq ==
    ASSUME NEW S, NEW s \in Seq(S), s # <<>>
    PROVE  Head(s) \in S /\ Tail(s) \in Seq(S)
OBVIOUS

LEMMA SelectedRangeStep == ImageInv /\ SelectedRange => ImageInv'
<1> SUFFICES ASSUME ImageInv, SelectedRange PROVE ImageInv'
    OBVIOUS
<1>1. /\ Head(ranges).offset \in Nat /\ Head(ranges).len \in Nat
      /\ Tail(ranges) \in Seq([offset : Nat, len : Nat])
  <2>1. ranges \in Seq([offset : Nat, len : Nat]) /\ ranges # <<>>
      BY DEF ImageInv, ImageTypeOK, SelectedRange
  <2>2. Head(ranges) \in [offset : Nat, len : Nat]
      BY <2>1, HeadOfSeq
  <2> QED
      BY <2>1, <2>2
<1> DEFINE from == RoundedDown(Head(ranges).offset)
           to   == RoundedUp(Head(ranges).offset + Head(ranges).len)
<1>2. /\ from \in Nat /\ from % CACHE_LINE_SIZE = 0
      /\ to - from \in Nat /\ (to - from) % CACHE_LINE_SIZE = 0
    BY <1>1, Rounding
<1>3. Fetch(from, to - from, "selected") /\ pc = "selected"
      /\ ranges' = Tail(ranges) /\ UNCHANGED <<input, is_obj, offset, len>>
    BY Zenon DEF SelectedRange
<1>4. pc' \in {"selected", "fault"}
    BY <1>3 DEF Fetch
<1>5. mode \notin {"NORMAL_MEMCPY", "RAND_MEMCPY"}
    BY <1>3 DEF ImageInv
<1> HIDE DEF from, to
<1>6. LinesAreWhole' /\ HeaderKept' /\ fetched' \subseteq diff
    BY <1>2, <1>3, <1>5, FetchKeeps
<1>7. ImageTypeOK'
    BY <1>1, <1>3, <1>4, <1>6, LoopTypes, Zenon DEF ImageInv, ImageTypeOK
<1> QED
    BY <1>3, <1>4, <1>5, <1>6, <1>7, Zenon DEF ImageInv, input

LEMMA SelectedEndsStep == ImageInv /\ SelectedEnds => ImageInv'
<1> SUFFICES ASSUME ImageInv, SelectedEnds PROVE ImageInv'
    OBVIOUS
<1>1. ImageTypeOK'
    BY Zenon DEF SelectedEnds, ImageInv, ImageTypeOK, input
<1>2. LinesAreWhole' /\ HeaderKept'
    BY Zenon DEF SelectedEnds, ImageInv, LinesAreWhole, HeaderKept, SameLine, input
<1> QED
    BY <1>1, <1>2, Zenon DEF SelectedEnds, ImageInv, input

LEMMA ImageStutter == ImageInv /\ UNCHANGED ivars => ImageInv'
<1> SUFFICES ASSUME ImageInv, UNCHANGED ivars PROVE ImageInv'
    OBVIOUS
<1>1. UNCHANGED <<size, diff, zeroed, comparable, mode, asked>>
      /\ UNCHANGED <<pc, is_obj, offset, len, ranges, fetched>>
    BY Zenon DEF ivars, input
<1>2. ImageTypeOK'
    BY <1>1, Zenon DEF ImageInv, ImageTypeOK
<1>3. LinesAreWhole' /\ HeaderKept'
    BY <1>1, Zenon DEF ImageInv, LinesAreWhole, HeaderKept, SameLine
<1> QED
    BY <1>1, <1>2, <1>3, Zenon DEF ImageInv

LEMMA ImageInvariant == Spec => []ImageInv
<1>1. ImageInv /\ [Next]_ivars => ImageInv'
    BY MainStep, RefuseStep, NoEnvironmentStep, NormalPieceStep, NormalRestStep, RandLineStep,
       RandRemainderStep, SelectedRangeStep, SelectedEndsStep, ImageStutter,
       Zenon
    DEF Next, Finished
<1> QED
    BY ImageInit, <1>1, PTL DEF Spec

(* The tool never tears a cache line: whatever the size of the files,      *)
(* wherever they differ, in every mode, each line is the file's or the     *)
(* copy's.                                                                 *)
THEOREM NoTornLine == Spec => []LinesAreWhole
<1>1. ImageInv => LinesAreWhole
    BY DEF ImageInv
<1> QED
    BY <1>1, ImageInvariant, PTL

(* No mode that copies by itself touches the header of a pool.             *)
THEOREM PoolKeepsHeader == Spec => []HeaderKept
<1>1. ImageInv => HeaderKept
    BY DEF ImageInv
<1> QED
    BY <1>1, ImageInvariant, PTL

(* Every variable of the tool has a value of its type; lengths stay within *)
(* a size_t although size1 - offset may wrap.                              *)
THEOREM ImageTypeCorrect == Spec => []ImageTypeOK
<1>1. ImageInv => ImageTypeOK
    BY DEF ImageInv
<1> QED
    BY <1>1, ImageInvariant, PTL

-----------------------------------------------------------------------------
(* The image is the one that was asked for. *)

(* The line after the one x is in starts behind x, within 64 bytes.        *)
LEMMA LineOf ==
    ASSUME NEW x \in Nat, NEW b \in Nat, b < ((x + 64) \div 64) * 64, b >= x
    PROVE  b \div 64 = x \div 64
<1>1. PICK q \in Nat : q = x \div 64 /\ q * 64 <= x /\ x < q * 64 + 64
    OBVIOUS
<1>2. (x + 64) \div 64 = q + 1
    BY <1>1
<1>3. q * 64 <= b /\ b < q * 64 + 64
    BY <1>1, <1>2
<1>4. b \div 64 = q
    BY <1>3
<1> QED
    BY <1>1, <1>4

LEMMA RoundUpOfAligned ==
    ASSUME NEW x \in Nat, x % 64 = 0
    PROVE  ((x + 63) \div 64) * 64 = x
OBVIOUS

LEMMA RoundUpOfOther ==
    ASSUME NEW x \in Nat, x % 64 # 0
    PROVE  (x + 63) \div 64 = (x + 64) \div 64
OBVIOUS

LEMMA ByteOfRange ==
    ASSUME NEW r \in [offset : Nat, len : Nat], NEW c
    PROVE  c \in BytesIn(r) <=>
               \/ c \in Nat /\ r.offset <= c /\ c < r.offset + r.len
               \/ c = r.offset /\ r.offset % 64 # 0
<1>1. c \in r.offset .. r.offset + r.len - 1
          <=> c \in Nat /\ r.offset <= c /\ c < r.offset + r.len
    OBVIOUS
<1>2. c \in {b \in {r.offset} : b % 64 # 0}
          <=> c = r.offset /\ r.offset % 64 # 0
    BY Zenon
<1> QED
    BY <1>1, <1>2, Zenon DEF BytesIn, CACHE_LINE_SIZE

(* A range rounded to lines is the lines its bytes are in.                 *)
LEMMA RoundingTouches ==
    ASSUME NEW r \in [offset : Nat, len : Nat], NEW b \in Nat
    PROVE  RoundedDown(r.offset) <= b /\ b < RoundedUp(r.offset + r.len)
               <=> Names(r, b)
<1> DEFINE o == r.offset  l == r.len
<1>1. o \in Nat /\ l \in Nat
    OBVIOUS
<1>2. ASSUME (o \div 64) * 64 <= b, b < ((o + l + 63) \div 64) * 64
      PROVE  \E c \in BytesIn(r) : b \div 64 = c \div 64
  <2>1. CASE b < o
    <3>1. b \div 64 = o \div 64 /\ o % 64 # 0
        BY <1>1, <1>2, <2>1
    <3> QED
        BY <3>1, ByteOfRange, Zenon
  <2>2. CASE b >= o /\ b < o + l
    <3>1. b \in BytesIn(r)
        BY <1>1, <2>2, ByteOfRange
    <3> QED
        BY <3>1
  <2>3. CASE b >= o + l /\ l > 0
    <3>1. o + l - 1 \in BytesIn(r)
        BY <1>1, <2>3, ByteOfRange
    <3>2. PICK x \in Nat : x = o + l - 1
        BY <1>1, <2>3
    <3>3. o + l + 63 = x + 64 /\ b >= x
        BY <1>1, <2>3, <3>2
    <3>4. b \div 64 = x \div 64
        BY <1>2, <3>3, LineOf
    <3> QED
        BY <3>1, <3>2, <3>4, Zenon
  <2>4. CASE b >= o + l /\ l = 0
    <3>1. o + l + 63 = o + 63 /\ b >= o
        BY <1>1, <2>4
    <3>2. o % 64 # 0
        BY <1>1, <1>2, <3>1, RoundUpOfAligned
    <3>3. b \div 64 = o \div 64
        BY <1>1, <1>2, <3>1, <3>2, RoundUpOfOther, LineOf
    <3> QED
        BY <3>2, <3>3, ByteOfRange, Zenon
  <2> QED
      BY <1>1, <2>1, <2>2, <2>3, <2>4
<1>3. ASSUME NEW c \in BytesIn(r), b \div 64 = c \div 64
      PROVE  (o \div 64) * 64 <= b /\ b < ((o + l + 63) \div 64) * 64
  <2>1. c \in Nat /\ o <= c /\ (c < o + l \/ (c = o /\ o % 64 # 0))
      BY <1>1, <1>3, ByteOfRange
  <2>2. (o \div 64) * 64 <= b
      BY <1>1, <1>3, <2>1
  <2>3. CASE c < o + l
      BY <1>1, <1>3, <2>1, <2>3, <2>2
  <2>4. CASE c = o /\ o % 64 # 0
      BY <1>1, <1>3, <2>4, <2>2
  <2> QED
      BY <2>1, <2>3, <2>4
<1>4. /\ RoundedDown(o) = (o \div 64) * 64
      /\ RoundedUp(o + l) = ((o + l + 63) \div 64) * 64
    BY <1>1 DEF RoundedDown, RoundedUp, CACHE_LINE_SIZE
<1> QED
    BY <1>2, <1>3, <1>4 DEF Names, SameLine, CACHE_LINE_SIZE

(* The differing bytes of the first n ranges. *)
Processed(n) == {b \in diff : \E i \in 1 .. n : Names(asked[i], b)}

(* The ranges not yet done are the last ones of the selection. *)
IsRest(r, a) ==
    /\ Len(r) <= Len(a)
    /\ \A i \in 1 .. Len(r) : r[i] = a[Len(a) - Len(r) + i]

Left == Len(ranges)

(* Where each mode has got to. *)
Progress ==
    /\ pc = "main" => ranges = asked
    /\ ~comparable => pc \in {"main", "refused"}
    /\ pc = "refused" => ~comparable /\ fetched = {}
    /\ pc = "segv" => mode = "UNSET"
    /\ mode \in {"NO_MEMCPY", "UNSET"} =>
           pc \in {"main", "done", "refused", "segv"} /\ fetched = {}
    /\ pc = "normal" =>
           /\ mode = "NORMAL_MEMCPY" /\ StartOffset(is_obj) <= offset
           /\ fetched = {b \in diff : StartOffset(is_obj) <= b /\ b < offset}
    /\ pc = "rand" => mode = "RAND_MEMCPY"
    /\ pc = "selected" =>
           /\ mode = "SELECTED_MEMCPY" /\ IsRest(ranges, asked)
           /\ fetched = Processed(Len(asked) - Left)
    /\ pc = "done" /\ mode = "NORMAL_MEMCPY" => fetched = diff \ Header
    /\ pc = "done" /\ mode = "SELECTED_MEMCPY" => fetched = Processed(Len(asked))

LEMMA ProgressInit == Init => Progress
BY Zenon DEF Init, Progress

LEMMA ProgressMain ==
    ImageInv /\ Progress /\ Main => Progress'
<1> SUFFICES ASSUME ImageInv, Progress, Main PROVE Progress'
    OBVIOUS
<1>1. /\ pc = "main" /\ comparable /\ ranges = asked /\ fetched = {}
      /\ ranges' = ranges /\ fetched' = fetched /\ UNCHANGED input
    BY Zenon DEF ImageInv, Progress, Main
<1>2. UNCHANGED <<size, diff, comparable, mode, asked>>
    BY <1>1 DEF input
<1>3. /\ pc' # "main" /\ pc' # "refused" /\ pc' # "segv" /\ mode # "UNSET"
      /\ mode = "NO_MEMCPY" => pc' = "done"
      /\ mode = "NORMAL_MEMCPY" => pc' = "normal"
      /\ mode = "RAND_MEMCPY" => pc' = "rand"
      /\ mode = "SELECTED_MEMCPY" => pc' = "selected"
      /\ mode \in {"NO_MEMCPY", "NORMAL_MEMCPY", "RAND_MEMCPY", "SELECTED_MEMCPY"}
    BY DEF Main, ImageInv, ImageTypeOK, Modes
<1>4. ASSUME pc' = "normal"
      PROVE  /\ StartOffset(is_obj') <= offset'
             /\ fetched' = {b \in diff' : StartOffset(is_obj') <= b /\ b < offset'}
  <2>1. mode = "NORMAL_MEMCPY"
      BY <1>3, <1>4
  <2>2. offset' = StartOffset(zeroed) /\ is_obj' = zeroed
      BY <2>1 DEF Main
  <2>3. StartOffset(zeroed) \in Nat
      BY Constants DEF StartOffset
  <2>4. \A b \in diff : b \in Int
      BY Constants DEF ImageInv, ImageTypeOK
  <2> QED
      BY <1>1, <1>2, <2>2, <2>3, <2>4
<1>5. ASSUME pc' = "selected"
      PROVE  /\ IsRest(ranges, asked)'
             /\ fetched' = Processed(Len(asked) - Left)'
  <2>1. asked \in Seq([offset : Nat, len : Nat])
      BY DEF ImageInv
  <2>2. Left' = Len(asked) /\ Len(asked) \in Nat /\ ranges' = asked /\ asked' = asked
      BY <1>1, <1>2, <2>1 DEF Left
  <2>3. Processed(0)' = {}
      BY DEF Processed
  <2> QED
      BY <1>1, <2>2, <2>3 DEF IsRest
<1> QED
    BY <1>1, <1>2, <1>3, <1>4, <1>5, Zenon DEF Progress

LEMMA ProgressRefuse == ImageInv /\ Progress /\ Refuse => Progress'
<1> SUFFICES ASSUME ImageInv, Progress, Refuse PROVE Progress'
    OBVIOUS
<1>1. pc = "main" /\ ~comparable /\ pc' = "refused" /\ fetched' = fetched
      /\ comparable' = comparable /\ fetched = {}
    BY Zenon DEF Refuse, input, ImageInv
<1> QED
    BY <1>1, Zenon DEF Progress

LEMMA ProgressNoEnvironment ==
    ImageInv /\ Progress /\ NoEnvironment => Progress'
<1> SUFFICES ASSUME ImageInv, Progress, NoEnvironment PROVE Progress'
    OBVIOUS
<1>1. /\ comparable /\ mode = "UNSET" /\ pc' = "segv" /\ fetched' = fetched
      /\ comparable' = comparable /\ mode' = mode /\ fetched = {}
    BY Zenon DEF NoEnvironment, input, ImageInv
<1> QED
    BY <1>1, Zenon DEF Progress

LEMMA ProgressPiece == ImageInv /\ Progress /\ NormalPiece => Progress'
<1> SUFFICES ASSUME ImageInv, Progress, NormalPiece PROVE Progress'
    OBVIOUS
<1> DEFINE m == memcpy_len_max  s == StartOffset(is_obj)
<1>1. /\ pc = "normal" /\ mode = "NORMAL_MEMCPY" /\ comparable
      /\ Fetch(offset, m, "normal") /\ offset' = offset + m
      /\ UNCHANGED <<diff, comparable, mode, asked, is_obj, ranges>>
    BY Zenon DEF NormalPiece, NextPiece, Progress, input
<1>2. /\ m \in Nat /\ offset \in Nat /\ s \in Nat /\ s <= offset
      /\ \A b \in diff : b \in Int
      /\ fetched = {b \in diff : s <= b /\ b < offset}
    BY <1>1, MaxLength, Constants
    DEF ImageInv, ImageTypeOK, Progress, StartOffset
<1>3. CASE pc' = "fault"
    BY <1>1, <1>3, Zenon DEF Progress
<1>4. CASE pc' # "fault"
  <2>1. pc' = "normal" /\ fetched' = fetched \cup Bytes(offset, m)
      BY <1>1, <1>4, Zenon DEF Fetch
  <2>2. fetched' = {b \in diff : s <= b /\ b < offset + m}
    <3> HIDE DEF m, s
    <3> QED
        BY <1>2, <2>1 DEF Bytes
  <2>3. s <= offset + m
    <3> HIDE DEF m, s
    <3> QED
        BY <1>2
  <2>4. StartOffset(is_obj)' = s
      BY <1>1 DEF StartOffset
  <2> QED
      BY <1>1, <2>1, <2>2, <2>3, <2>4, Zenon DEF Progress
<1> QED
    BY <1>3, <1>4

LEMMA ProgressRest == ImageInv /\ Progress /\ NormalRest => Progress'
<1> SUFFICES ASSUME ImageInv, Progress, NormalRest PROVE Progress'
    OBVIOUS
<1> DEFINE s == StartOffset(is_obj)
<1>1. /\ pc = "normal" /\ mode = "NORMAL_MEMCPY" /\ comparable
      /\ Fetch(offset, len, "done")
      /\ UNCHANGED <<diff, comparable, mode, asked, is_obj, ranges>>
    BY Zenon DEF NormalRest, Progress, input
<1>2. /\ len \in Nat /\ offset \in Nat /\ s \in Nat /\ s <= offset
      /\ size \in Nat /\ offset + len >= size
      /\ \A b \in diff : b \in Nat /\ b < size
      /\ fetched = {b \in diff : s <= b /\ b < offset}
    BY <1>1, Constants DEF ImageInv, ImageTypeOK, Progress, StartOffset
<1>3. CASE pc' = "fault"
    BY <1>1, <1>3, Zenon DEF Progress
<1>4. CASE pc' # "fault"
  <2>1. pc' = "done" /\ fetched' = fetched \cup Bytes(offset, len)
      BY <1>1, <1>4, Zenon DEF Fetch
  <2>2. fetched' = {b \in diff : s <= b}
    <3> HIDE DEF s
    <3> QED
        BY <1>2, <2>1 DEF Bytes
  <2>3. diff \ Header = {b \in diff : s <= b}
      BY <1>2, Constants DEF Header, StartOffset
  <2>4. Header' = Header
      BY <1>1 DEF Header
  <2> QED
      BY <1>1, <2>1, <2>2, <2>3, <2>4, Zenon DEF Progress
<1> QED
    BY <1>3, <1>4

LEMMA ProgressRand ==
    ImageInv /\ Progress /\ (RandLine \/ RandRemainder) => Progress'
<1> SUFFICES ASSUME ImageInv, Progress, RandLine \/ RandRemainder
             PROVE  Progress'
    OBVIOUS
<1>1. /\ pc = "rand" /\ mode = "RAND_MEMCPY" /\ comparable
      /\ pc' \in {"rand", "done"} /\ UNCHANGED <<comparable, mode>>
    BY DEF RandLine, RandRemainder, Progress, input
<1> QED
    BY <1>1 DEF Progress

(* What is left of the selection after its first range. *)
LEMMA TailIsRest ==
    ASSUME NEW S, NEW a \in Seq(S), NEW r \in Seq(S), r # <<>>, IsRest(r, a)
    PROVE  /\ Len(Tail(r)) = Len(r) - 1
           /\ Head(r) = a[Len(a) - Len(r) + 1]
           /\ IsRest(Tail(r), a)
<1>1. Len(Tail(r)) = Len(r) - 1 /\ Len(r) \in Nat /\ Len(r) > 0 /\ Head(r) = r[1]
    OBVIOUS
<1>2. ASSUME NEW i \in 1 .. Len(Tail(r))
      PROVE  Tail(r)[i] = a[Len(a) - Len(Tail(r)) + i]
  <2>1. Tail(r)[i] = r[i + 1] /\ i + 1 \in 1 .. Len(r)
      BY <1>1
  <2>2. Len(a) - Len(r) + (i + 1) = Len(a) - Len(Tail(r)) + i
      BY <1>1
  <2>3. i + 1 \in 1 .. Len(r) => r[i + 1] = a[Len(a) - Len(r) + (i + 1)]
      BY Zenon DEF IsRest
  <2> QED
      BY <2>1, <2>2, <2>3
<1>3. Len(Tail(r)) <= Len(a)
    BY <1>1 DEF IsRest
<1>4. Head(r) = a[Len(a) - Len(r) + 1]
    BY <1>1 DEF IsRest
<1> QED
    BY <1>1, <1>2, <1>3, <1>4, Zenon DEF IsRest

LEMMA ProgressRange == ImageInv /\ Progress /\ SelectedRange => Progress'
<1> SUFFICES ASSUME ImageInv, Progress, SelectedRange PROVE Progress'
    OBVIOUS
<1> DEFINE r    == Head(ranges)
           from == RoundedDown(r.offset)
           to   == RoundedUp(r.offset + r.len)
<1>1. /\ pc = "selected" /\ mode = "SELECTED_MEMCPY" /\ comparable
      /\ ranges # <<>> /\ ranges' = Tail(ranges)
      /\ Fetch(from, to - from, "selected")
      /\ UNCHANGED <<diff, comparable, mode, asked>>
    BY Zenon DEF SelectedRange, Progress, input
<1>2. CASE pc' = "fault"
    BY <1>1, <1>2, Zenon DEF Progress
<1>3. CASE pc' # "fault"
  <2>1. pc' = "selected" /\ fetched' = fetched \cup Bytes(from, to - from)
      BY <1>1, <1>3, Zenon DEF Fetch
  <2>2. /\ ranges \in Seq([offset : Nat, len : Nat])
        /\ asked \in Seq([offset : Nat, len : Nat])
        /\ IsRest(ranges, asked)
        /\ fetched = Processed(Len(asked) - Len(ranges))
      BY <1>1, Zenon DEF ImageInv, ImageTypeOK, Progress, Left
  <2>3. /\ Len(Tail(ranges)) = Len(ranges) - 1
        /\ r = asked[Len(asked) - Len(ranges) + 1]
        /\ IsRest(Tail(ranges), asked)
      BY <1>1, <2>2, TailIsRest, Zenon
  <2>4. r \in [offset : Nat, len : Nat]
      BY <1>1, <2>2, HeadOfSeq
  <2>a. PICK n \in Nat, j \in Nat : n = Len(asked) /\ j = Len(ranges)
      BY <2>2
  <2>5. PICK k \in Nat : k = n - j
    <3>1. j <= n
        BY <2>2, <2>a, Zenon DEF IsRest
    <3> QED
        BY <3>1
  <2>6. n - Len(Tail(ranges)) = k + 1
    <3>1. Len(Tail(ranges)) = j - 1
        BY <2>3, <2>a, Zenon
    <3>2. n - (j - 1) = k + 1
        BY <2>5
    <3> QED
        BY <3>1, <3>2, Zenon
  <2>7. Bytes(from, to - from) = {b \in diff : Names(r, b)}
    <3>1. from \in Nat /\ to - from \in Nat /\ to \in Int
        BY <2>4, Rounding DEF RoundedUp, RoundedDown, CACHE_LINE_SIZE
    <3>2. \A b \in diff : b \in Nat
        BY Constants DEF ImageInv, ImageTypeOK
    <3>3. ASSUME NEW b \in diff
          PROVE  from <= b /\ b < from + (to - from) <=> Names(r, b)
      <4>1. from <= b /\ b < to <=> Names(r, b)
          BY <2>4, <3>2, RoundingTouches
      <4>2. from + (to - from) = to
          BY <3>1
      <4> QED
          BY <4>1, <4>2
    <3> HIDE DEF from, to, r
    <3> QED
        BY <3>3 DEF Bytes
  <2>8. Processed(k + 1) = Processed(k) \cup {b \in diff : Names(asked[k + 1], b)}
    <3>1. 1 .. k + 1 = (1 .. k) \cup {k + 1}
        BY <2>5
    <3> QED
        BY <3>1, Zenon DEF Processed
  <2>9. fetched' = Processed(k + 1)
      BY <2>1, <2>2, <2>3, <2>a, <2>5, <2>7, <2>8
  <2>10. fetched' = Processed(Len(asked) - Left)'
      BY <1>1, <2>a, <2>6, <2>9 DEF Processed, Left, Names, SameLine
  <2>11. IsRest(ranges, asked)'
      BY <1>1, <2>3, Zenon DEF IsRest
  <2> QED
      BY <1>1, <2>1, <2>10, <2>11, Zenon DEF Progress
<1> QED
    BY <1>2, <1>3

LEMMA ProgressEnds == ImageInv /\ Progress /\ SelectedEnds => Progress'
<1> SUFFICES ASSUME ImageInv, Progress, SelectedEnds PROVE Progress'
    OBVIOUS
<1>1. /\ pc = "selected" /\ mode = "SELECTED_MEMCPY" /\ comparable
      /\ ranges = <<>> /\ pc' = "done"
      /\ UNCHANGED <<diff, comparable, mode, asked, fetched>>
    BY Zenon DEF SelectedEnds, Progress, input
<1>2. Len(asked) - Left = Len(asked)
    BY <1>1 DEF Left, ImageInv
<1>3. fetched = Processed(Len(asked))
    BY <1>1, <1>2 DEF Progress
<1>4. Processed(Len(asked))' = Processed(Len(asked))
    BY <1>1 DEF Processed, Names, SameLine
<1> QED
    BY <1>1, <1>3, <1>4, Zenon DEF Progress

LEMMA ProgressStutter == Progress /\ UNCHANGED ivars => Progress'
<1> SUFFICES ASSUME Progress, UNCHANGED ivars PROVE Progress'
    OBVIOUS
<1>1. UNCHANGED <<diff, comparable, mode, asked>>
      /\ UNCHANGED <<pc, is_obj, offset, ranges, fetched>>
    BY Zenon DEF ivars, input
<1> QED
    BY <1>1 DEF Progress, Processed, IsRest, Left, Header, StartOffset, Names, SameLine

LEMMA ProgressInvariant == Spec => []Progress
<1>1. ImageInv /\ Progress /\ [Next]_ivars => Progress'
    BY ProgressMain, ProgressRefuse, ProgressNoEnvironment, ProgressPiece,
       ProgressRest, ProgressRand, ProgressRange, ProgressEnds, ProgressStutter, Zenon
    DEF Next, Finished
<1> QED
    BY ProgressInit, ImageInvariant, <1>1, PTL DEF Spec

(* When the tool is done, the image has of every line what the mode asks   *)
(* for, for files of any size and in however many pieces it was copied.    *)
THEOREM ImageIsAsAsked == Spec => []ImageAsAsked
<1>1. ImageInv /\ Progress => ImageAsAsked
  <2> SUFFICES ASSUME ImageInv, Progress, pc \in {"done", "refused", "segv"}
               PROVE  CASE mode \in {"NO_MEMCPY", "UNSET"} \/ ~comparable -> fetched = {}
                        [] mode = "NORMAL_MEMCPY" /\ comparable -> fetched = diff \ Header
                        [] mode = "RAND_MEMCPY" /\ comparable -> fetched \subseteq diff
                        [] mode = "SELECTED_MEMCPY" /\ comparable ->
                               fetched = {b \in diff : Named(b)}
      BY DEF ImageAsAsked
  <2>1. mode \in Modes /\ fetched \subseteq diff
      BY DEF ImageInv, ImageTypeOK
  <2>2. mode \in {"NO_MEMCPY", "UNSET"} \/ ~comparable => fetched = {}
      BY DEF Progress
  <2>3. mode = "NORMAL_MEMCPY" /\ comparable => fetched = diff \ Header
      BY DEF Progress
  <2>4. mode = "SELECTED_MEMCPY" /\ comparable => fetched = {b \in diff : Named(b)}
      BY DEF Progress, Processed, Named
  <2> QED
      BY <2>1, <2>2, <2>3, <2>4 DEF Modes
<1> QED
    BY <1>1, ImageInvariant, ProgressInvariant, PTL

=============================================================================
