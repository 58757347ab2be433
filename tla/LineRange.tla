------------------------------ MODULE LineRange ------------------------------
(***************************************************************************)
(* Cache-line arithmetic of the shim.  Addresses are byte addresses; line  *)
(* l holds the bytes l * 64 .. l * 64 + 63.  A flush names a byte range; a *)
(* drain copies whole lines, rounding the range outwards with a remainder  *)
(* relative to the base of the mapping (wraplibpmem.c:836-849).            *)
(***************************************************************************)
EXTENDS Integers

CACHE_LINE_SIZE == 64

(* The lines holding at least one byte of [addr, addr + len). *)
TouchedLines(addr, len) ==
    IF len = 0 THEN {}
    ELSE (addr \div CACHE_LINE_SIZE) .. ((addr + len - 1) \div CACHE_LINE_SIZE)

(* Mutant: the copy starts at the flushed byte, not at its line. *)
CopyStartUnrounded(base, addr) == addr

(* Where the copy of one wait entry starts: the code subtracts             *)
(* tmp = d % 64 with d the offset of addr inside its mapping.              *)
CopyStart(base, addr) == addr - ((addr - base) % CACHE_LINE_SIZE)

(* Mutant: the end of the copy is rounded as if it began on a line. *)
CopyLengthUnaligned(base, addr, len) ==
    len + ((CACHE_LINE_SIZE - (len % CACHE_LINE_SIZE)) % 64)

(* How many bytes it copies: len, the tmp bytes before it and the tmp2     *)
(* bytes that complete its last line.  The loop over __INT_MAX__ pieces    *)
(* splits this contiguous range without changing it.                       *)
CopyLength(base, addr, len) ==
    LET tmp  == (addr - base) % CACHE_LINE_SIZE
        tmp2 == (CACHE_LINE_SIZE - ((len + tmp) % CACHE_LINE_SIZE)) % 64
    IN  len + tmp + tmp2

(* The lines the copy covers completely. *)
CopiedLines(base, addr, len) ==
    LET start == CopyStart(base, addr)
    IN  ((start + CACHE_LINE_SIZE - 1) \div CACHE_LINE_SIZE) ..
        (((start + CopyLength(base, addr, len)) \div CACHE_LINE_SIZE) - 1)

=============================================================================
