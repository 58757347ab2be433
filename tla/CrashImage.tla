----------------------------- MODULE CrashImage -----------------------------
(***************************************************************************)
(* PmemWrap_memcpy, run after a crash run: it copies lines of the copy     *)
(* file over the mapped file, all of them, a random choice or selected     *)
(* ranges, and leaves the image the recovery run starts from.              *)
(*                                                                         *)
(* The bytes in which the two files differ are all that matters; fetched   *)
(* is the set of those that have been taken from the copy.                 *)
(***************************************************************************)
EXTENDS Integers, Sequences

CONSTANTS
    PageSize,       \* of mmap; also the bytes of a pool header: 4096
    IntMax,         \* __INT_MAX__
    SizeMod,        \* a size_t counts modulo this: 2^64
    Sizes,          \* sizes of the two files
    Probes,         \* offsets at which they may differ
    Selections      \* contents of selected_range.txt; <<>> if there is none

CACHE_LINE_SIZE == 64

ASSUME ToolAssumption ==
    /\ PageSize \in Nat \ {0} /\ PageSize % CACHE_LINE_SIZE = 0
    /\ IntMax \in Nat /\ IntMax >= CACHE_LINE_SIZE
    /\ SizeMod \in Nat /\ SizeMod % CACHE_LINE_SIZE = 0 /\ PageSize < SizeMod
    /\ Sizes \subseteq Nat \ {0} /\ \A n \in Sizes : n < SizeMod
    /\ Probes \subseteq Nat
    /\ Selections \subseteq Seq([offset : Nat, len : Nat])

(* Rounding a range to lines stays within a size_t.                        *)
ASSUME RangesAssumption ==
    \A s \in Selections : \A i \in 1 .. Len(s) :
        s[i].offset + s[i].len + CACHE_LINE_SIZE <= SizeMod

VARIABLES
    size, diff,     \* size of both files, and where they differ
    zeroed,         \* the first page of the copy is zero
    comparable,     \* the copy exists and is as long as the file
    mode,           \* PMEMWRAP_MEMCPY; "UNSET" if it or PMEMWRAP_SEED is not
    pc, is_obj, offset, len, ranges,     \* of the tool
    fetched,        \* the bytes of diff taken from the copy
    asked           \* history: what ranges was at first

input == <<size, diff, zeroed, comparable, mode, asked>>
ivars == <<input, pc, is_obj, offset, len, ranges, fetched>>

-----------------------------------------------------------------------------
(* Memory. *)

Bytes(from, n) == {b \in diff : from <= b /\ b < from + n}

(* mmap maps whole pages; what lies around them is unknown. *)
MappedSize == ((size + PageSize - 1) \div PageSize) * PageSize

OutOfMapping(from, n) == n > 0 /\ (from < 0 \/ from + n > MappedSize)

(* Mutant: the length does not wrap. *)
SignedMinus(a, b) == a - b

Minus(a, b) == (a - b) % SizeMod

(* memcpy(mapped_file1 + from, mapped_file2 + from, n), then on to next;   *)
(* when it leaves the mapping, any part of it may have been done.          *)
Fetch(from, n, next) ==
    IF OutOfMapping(from, n)
    THEN /\ pc' = "fault"
         /\ \E part \in SUBSET Bytes(from, n) : fetched' = fetched \cup part
    ELSE pc' = next /\ fetched' = fetched \cup Bytes(from, n)

(* If the files differ there, rand() % 2 decides: the copy's or the file's. *)
Toss(from, n) == fetched' \in {fetched, fetched \cup Bytes(from, n)}

Modes == {"NO_MEMCPY", "NORMAL_MEMCPY", "RAND_MEMCPY", "SELECTED_MEMCPY",
          "UNSET"}

Init ==
    /\ size \in Sizes
    /\ diff \in SUBSET {b \in Probes : b < size}
    /\ zeroed \in BOOLEAN /\ comparable \in BOOLEAN
    /\ mode \in Modes
    /\ pc = "main" /\ is_obj = FALSE /\ fetched = {}
    /\ offset = 0 /\ len = 0
    /\ ranges \in Selections
    /\ asked = ranges

(* The copy file is missing or of another size: exit(1). *)
Refuse ==
    /\ pc = "main" /\ ~comparable
    /\ pc' = "refused"
    /\ UNCHANGED <<input, is_obj, offset, len, ranges, fetched>>

(* atoi or strcmp of a null pointer. *)
NoEnvironment ==
    /\ pc = "main" /\ comparable /\ mode = "UNSET"
    /\ is_obj' = zeroed /\ pc' = "segv"
    /\ UNCHANGED <<input, offset, len, ranges, fetched>>

(* Mutant: a pool's first page is treated like any other. *)
AlwaysZero(pool) == 0

StartOffset(pool) == IF pool THEN PageSize ELSE 0

(* A copy whose first page is zero is taken for a pool's. *)
Main ==
    /\ pc = "main" /\ comparable /\ mode # "UNSET"
    /\ is_obj' = zeroed
    /\ offset' = IF mode \in {"NORMAL_MEMCPY", "RAND_MEMCPY"}
                 THEN StartOffset(zeroed) ELSE offset
    /\ len' = IF mode = "NORMAL_MEMCPY" THEN Minus(size, offset') ELSE len
    /\ pc' = CASE mode = "NO_MEMCPY"       -> "done"
               [] mode = "NORMAL_MEMCPY"   -> "normal"
               [] mode = "RAND_MEMCPY"     -> "rand"
               [] mode = "SELECTED_MEMCPY" -> "selected"
    /\ UNCHANGED <<input, ranges, fetched>>

-----------------------------------------------------------------------------
(* normal_memcpy. *)

memcpy_len_max == (IntMax \div CACHE_LINE_SIZE) * CACHE_LINE_SIZE

(* Mutant: the second piece starts where the first one did. *)
SamePlace(from) == from

NextPiece(from) == from + memcpy_len_max

NormalPiece ==
    /\ pc = "normal" /\ len > memcpy_len_max
    /\ Fetch(offset, memcpy_len_max, "normal")
    /\ len' = len - memcpy_len_max
    /\ offset' = NextPiece(offset)
    /\ UNCHANGED <<input, is_obj, ranges>>

NormalRest ==
    /\ pc = "normal" /\ len <= memcpy_len_max
    /\ Fetch(offset, len, "done")
    /\ UNCHANGED <<input, is_obj, offset, len, ranges>>

-----------------------------------------------------------------------------
(* rand_memcpy. *)

RandLine ==
    /\ pc = "rand" /\ offset < size
    /\ Toss(offset, CACHE_LINE_SIZE)
    /\ offset' = offset + CACHE_LINE_SIZE
    /\ UNCHANGED <<input, pc, is_obj, len, ranges>>

(* A last line that is not full is tossed for once more. *)
RandRemainder ==
    LET last == offset - CACHE_LINE_SIZE IN
    /\ pc = "rand" /\ offset >= size
    /\ Toss(last, Minus(size, last) % CACHE_LINE_SIZE)
    /\ pc' = "done"
    /\ UNCHANGED <<input, is_obj, offset, len, ranges>>

-----------------------------------------------------------------------------
(* selected_memcpy: one range of selected_range.txt after the other. *)

(* Mutant: a range is copied from its first byte on. *)
AsGiven(from) == from

RoundedDown(from) == (from \div CACHE_LINE_SIZE) * CACHE_LINE_SIZE

RoundedUp(to) == RoundedDown(to + CACHE_LINE_SIZE - 1)

SelectedRange ==
    LET from == RoundedDown(Head(ranges).offset)
        to   == RoundedUp(Head(ranges).offset + Head(ranges).len)
    IN
    /\ pc = "selected" /\ ranges # <<>>
    /\ Fetch(from, to - from, "selected")
    /\ ranges' = Tail(ranges)
    /\ UNCHANGED <<input, is_obj, offset, len>>

SelectedEnds ==
    /\ pc = "selected" /\ ranges = <<>>
    /\ pc' = "done"
    /\ UNCHANGED <<input, is_obj, offset, len, ranges, fetched>>

Finished == pc \in {"done", "refused", "segv", "fault"} /\ UNCHANGED ivars

Next ==
    \/ Refuse \/ NoEnvironment \/ Main \/ NormalPiece \/ NormalRest \/ RandLine
    \/ RandRemainder \/ SelectedRange \/ SelectedEnds \/ Finished

Spec == Init /\ [][Next]_ivars

-----------------------------------------------------------------------------
(* Properties. *)

(* Every variable has a value of its C type; a length is unsigned.         *)
ImageTypeOK ==
    /\ size \in Sizes /\ diff \subseteq 0 .. size - 1
    /\ zeroed \in BOOLEAN /\ comparable \in BOOLEAN /\ is_obj \in BOOLEAN
    /\ mode \in Modes
    /\ pc \in {"main", "normal", "rand", "selected", "done", "refused", "segv",
              "fault"}
    /\ offset \in Nat /\ len \in 0 .. SizeMod - 1
    /\ ranges \in Seq([offset : Nat, len : Nat]) /\ fetched \subseteq diff

SameLine(b, c) == b \div CACHE_LINE_SIZE = c \div CACHE_LINE_SIZE

(* The hardware loses or keeps whole cache lines; so does the image, at    *)
(* every moment and in every mode, the file's partial last line included:  *)
(* no line is half the file's and half the copy's.                         *)
LinesAreWhole == pc # "fault" =>
    \A b, c \in diff : SameLine(b, c) => (b \in fetched <=> c \in fetched)

(* The copy of a pool never got a header (it is zero): normal_memcpy and   *)
(* rand_memcpy must leave the pool its own, or it could not be opened.     *)
HeaderKept ==
    is_obj /\ size >= PageSize /\ mode \in {"NORMAL_MEMCPY", "RAND_MEMCPY"}
        => \A b \in fetched : b >= PageSize

Header == {b \in diff : is_obj /\ b < PageSize}

(* The bytes of a range; one of no bytes inside a line stands for the line. *)
BytesIn(r) == r.offset .. r.offset + r.len - 1
              \cup {b \in {r.offset} : b % CACHE_LINE_SIZE # 0}

Names(r, b) == \E c \in BytesIn(r) : SameLine(b, c)

Named(b) == \E i \in 1 .. Len(asked) : Names(asked[i], b)

(* A run that ends otherwise than half-way has made the image it was asked *)
(* for: of all lines but a pool's header, of those selected, or of none;   *)
(* however many pieces the copying took.                                   *)
ImageAsAsked ==
    pc \in {"done", "refused", "segv"} =>
        CASE mode \in {"NO_MEMCPY", "UNSET"} \/ ~comparable -> fetched = {}
          [] mode = "NORMAL_MEMCPY" /\ comparable -> fetched = diff \ Header
          [] mode = "RAND_MEMCPY" /\ comparable -> fetched \subseteq diff
          [] mode = "SELECTED_MEMCPY" /\ comparable ->
                 fetched = {b \in diff : Named(b)}

(* README.md: the tool generates the data there may be after a crash; it   *)
(* does not die half-way over any two files of equal size.                 *)
ToolFinishes == pc # "fault"

=============================================================================
