------------------------------- MODULE Memory -------------------------------
(***************************************************************************)
(* memset, memset_word, memset_dword, memcpy and memmove (lib.c): one call *)
(* of one of them, instruction group by instruction group, on the          *)
(* registers the inline assembly uses. Every terminal switch copies a      *)
(* screen through memcpy, fs_init the boot block, paging_init clears the   *)
(* page directory with memset.                                             *)
(***************************************************************************)
EXTENDS Integers

CONSTANTS
  Size,    \* memory is the addresses 0 .. Size - 1
  Before,  \* what it holds when the routine is called
  Fill     \* the four bytes of the argument c, the lowest first

Addr == 0 .. Size - 1
Bytes == {Before[a] : a \in Addr} \cup {Fill[i] : i \in 0 .. 3}

ASSUME MemoryAssumption ==
  /\ Size \in Nat
  /\ Before \in [Addr -> Bytes]
  /\ Fill \in [0 .. 3 -> Bytes]

VARIABLES
  routine,          \* which routine is called
  dest, src, n,     \* its arguments
  edi, esi, ecx, edx, DF,  \* the registers and the direction flag, as 1 or -1
  mem,
  at                \* "top", "rep" or "bottom" of the routine, "entry" of memmove, "done"

registers == <<edi, esi, ecx, edx, DF>>
memVars == <<routine, dest, src, n, edi, esi, ecx, edx, DF, mem, at>>

Copies == {"memcpy", "memmove"}
Fills  == {"memset", "memset_word", "memset_dword"}

\* What n counts.
Width(r) ==
  CASE r = "memset_word" -> 2 [] r = "memset_dword" -> 4 [] OTHER -> 1

Length == n * Width(routine)

\* All arguments whose blocks lie inside the memory.
MemInit ==
  /\ routine \in Copies \cup Fills
  /\ dest \in Addr
  /\ src \in IF routine \in Copies THEN Addr ELSE {0}
  /\ n \in 0 .. Size
  /\ dest + Length <= Size
  /\ src + n <= Size
  /\ edi = dest /\ esi = src /\ ecx = n /\ edx = 0 /\ DF = 1
  /\ mem = Before
  /\ at = CASE routine \in {"memset", "memcpy"} -> "top"
            [] routine = "memmove" -> "entry"
            [] OTHER -> "rep"

\* Byte i of the element the next store writes.
Element(i) ==
  CASE routine \in Copies -> mem[esi + i]
    [] routine = "memset" -> Fill[0]
    [] OTHER -> Fill[i]

\* One store of w bytes at edi, through the pointers.
Store(w) ==
  /\ mem' = [a \in Addr |-> IF a \in edi .. edi + w - 1 THEN Element(a - edi)
                            ELSE mem[a]]
  /\ edi' = edi + DF * w
  /\ esi' = IF routine \in Copies THEN esi + DF * w ELSE esi

\* rep stos, rep movs of w bytes: one iteration, or the end of the prefix.
Repeat(w, next) ==
  /\ at = "rep"
  /\ \/ /\ ecx = 0
        /\ at' = next
        /\ UNCHANGED <<mem, registers>>
     \/ /\ ecx > 0
        /\ Store(w)
        /\ ecx' = ecx - 1
        /\ UNCHANGED <<edx, DF, at>>

SplitNoRest(count) == <<count \div 4, 0>>            \* mutant

\* shrl $2 and andl $3: dwords and left over bytes.
Split(count) == <<count \div 4, count % 4>>

\* The end of the byte loop.
Aligned == edi % 4 = 0

\* .memset_top, .memcpy_top: bytes until edi is a multiple of 4.
Top ==
  /\ at = "top"
  /\ \/ /\ ecx = 0
        /\ at' = "done"
        /\ UNCHANGED <<mem, registers>>
     \/ /\ ecx > 0
        /\ Aligned
        /\ ecx' = Split(ecx)[1]
        /\ edx' = Split(ecx)[2]
        /\ DF' = 1
        /\ at' = "rep"
        /\ UNCHANGED <<mem, edi, esi>>
     \/ /\ ecx > 0
        /\ ~Aligned
        /\ Store(1)
        /\ ecx' = ecx - 1
        /\ UNCHANGED <<edx, DF, at>>

\* .memset_bottom, .memcpy_bottom: the bytes left over.
Bottom ==
  /\ at = "bottom"
  /\ \/ /\ edx = 0
        /\ at' = "done"
        /\ UNCHANGED <<mem, registers>>
     \/ /\ edx > 0
        /\ Store(1)
        /\ edx' = edx - 1
        /\ UNCHANGED <<ecx, DF, at>>

\* cmp %edi, %esi; jae: no byte of the source is overwritten before it is read.
GoesUp == esi >= edi

\* memmove goes down from the last byte when dest lies above src.
Entry ==
  /\ at = "entry"
  /\ at' = "rep"
  /\ IF GoesUp
     THEN UNCHANGED registers
     ELSE /\ esi' = esi + ecx - 1
          /\ edi' = edi + ecx - 1
          /\ DF' = -1
          /\ UNCHANGED <<ecx, edx>>
  /\ UNCHANGED mem

memset       == routine = "memset" /\ (Top \/ Repeat(4, "bottom") \/ Bottom)
memset_word  == routine = "memset_word" /\ Repeat(2, "done")
memset_dword == routine = "memset_dword" /\ Repeat(4, "done")
memcpy       == routine = "memcpy" /\ (Top \/ Repeat(4, "bottom") \/ Bottom)
memmove      == routine = "memmove" /\ (Entry \/ Repeat(1, "done"))

MemNext ==
  /\ memset \/ memset_word \/ memset_dword \/ memcpy \/ memmove
  /\ UNCHANGED <<routine, dest, src, n>>

MemSpec == MemInit /\ [][MemNext]_memVars

-----------------------------------------------------------------------------

\* The type of the state; the pointers stay within a dword of the memory.
MemTypeOK ==
  /\ routine \in Copies \cup Fills
  /\ dest \in Addr /\ src \in Addr /\ n \in Nat
  /\ edi \in Int /\ esi \in Int /\ ecx \in Nat /\ edx \in 0 .. 3
  /\ DF \in {1, -1}
  /\ mem \in [Addr -> Bytes]
  /\ at \in {"top", "rep", "bottom", "entry", "done"}

Block == dest .. dest + Length - 1

\* The blocks of memcpy overlap so that a copy upwards overwrites what it has
\* still to read. C leaves the result open; no caller in the kernel does it.
Tangled == routine = "memcpy" /\ src < dest /\ dest < src + n

\* What byte i of the destination shall be.
Promised(i) ==
  CASE routine \in Copies -> Before[src + i]
    [] routine = "memset" -> Fill[0]
    [] OTHER -> Fill[i % Width(routine)]

\* A call that returns has filled or copied its block, whatever the alignment
\* of the pointers, the length and (memmove) the overlap: the byte loops at
\* both ends and the dwords between them meet exactly.
FilledAtEnd ==
  at = "done" /\ ~Tangled =>
    \A a \in Block : mem[a] = Promised(a - dest)

\* At no instruction has a byte outside the destination changed: a dword store
\* never reaches past either end of the block.
OnlyTheBlock == \A a \in Addr \ Block : mem[a] = Before[a]

\* A call fills its whole block, and nothing else on the way.
CallFillsBlock == FilledAtEnd /\ OnlyTheBlock

=============================================================================
