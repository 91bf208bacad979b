---------------------------- MODULE KernelProofs ----------------------------
(***************************************************************************)
(* Proofs about the kernel's small parts. Memory, for every size and       *)
(* contents of the memory and every destination, source and length;        *)
(* ReadData, for every block size, image, inode and length of the chunks;  *)
(* Pic, for every order of interrupts, calls and handlers; Rtc, for every  *)
(* number of terminals and slots, every frequency of the device and every  *)
(* number programs may pass to rtc_write.                                  *)
(***************************************************************************)
EXTENDS Memory, ReadData, Pic, Rtc, TLAPS

-----------------------------------------------------------------------------
(* Memory: memset, memcpy, memmove *)

\* The bytes already written: below edi going up, above it going down.
Finished == IF DF = 1 THEN dest .. edi - 1 ELSE edi + 1 .. dest + Length - 1

Arguments ==
  /\ dest + Length <= Size
  /\ src + n <= Size

\* The bytes still to go as the registers count them, at each label.
Up ==
  /\ DF = 1
  /\ edi >= dest
  /\ esi = IF routine \in Copies THEN src + (edi - dest) ELSE src
  /\ CASE at = "top"    -> ecx = n - (edi - dest)
       [] at = "entry"  -> edi = dest /\ ecx = n
       [] at = "bottom" -> edx = n - (edi - dest)
       [] at = "done"   -> edi - dest = Length
       [] at = "rep"    ->
            CASE routine \in {"memset", "memcpy"} -> 4 * ecx + edx = n - (edi - dest)
              [] routine = "memset_word"  -> 2 * ecx = 2 * n - (edi - dest)
              [] routine = "memset_dword" -> 4 * ecx = 4 * n - (edi - dest)
              [] OTHER -> ecx = n - (edi - dest) /\ src >= dest

Down ==
  /\ DF = -1
  /\ routine = "memmove"
  /\ src < dest
  /\ ecx <= n
  /\ edi = dest + ecx - 1
  /\ esi = src + ecx - 1
  /\ at \in {"rep", "done"}
  /\ at = "done" => ecx = 0

Labels ==
  CASE routine \in {"memset", "memcpy"} -> at \in {"top", "rep", "bottom", "done"}
    [] routine = "memmove" -> at \in {"entry", "rep", "done"}
    [] OTHER -> at \in {"rep", "done"}

Written == \A a \in Addr : a \in Finished => mem[a] = Promised(a - dest)
Untouched == \A a \in Addr : a \notin Finished => mem[a] = Before[a]

MemIInv ==
  /\ MemTypeOK
  /\ Arguments
  /\ Labels
  /\ Up \/ Down
  /\ Untouched
  /\ ~Tangled => Written

-----------------------------------------------------------------------------
(* Arithmetic *)

\* A count splits into dwords and at most three bytes.
LEMMA SplitAdds ==
  ASSUME NEW count \in Nat
  PROVE  /\ Split(count)[1] \in Nat
         /\ Split(count)[2] \in 0 .. 3
         /\ 4 * Split(count)[1] + Split(count)[2] = count
BY DEF Split

\* Byte i of a dword behind k whole dwords.
LEMMA WholeDwords ==
  ASSUME NEW k \in Nat, NEW i \in 0 .. 3
  PROVE  (4 * k + i) % 4 = i
OBVIOUS

\* Length is a number, as many bytes as elements, or two or four times as many.
LEMMA LengthOf ==
  ASSUME n \in Nat
  PROVE  /\ Length \in Nat
         /\ routine \in {"memset", "memcpy", "memmove"} => Length = n
         /\ routine = "memset_word" => Length = 2 * n
         /\ routine = "memset_dword" => Length = 4 * n
BY DEF Length, Width

ArgumentsKept == UNCHANGED <<routine, dest, src, n>>

\* The bytes of the destination are the same after a step.
LEMMA SamePromise ==
  ASSUME ArgumentsKept
  PROVE  /\ Length' = Length
         /\ Tangled' = Tangled
         /\ \A i : Promised(i)' = Promised(i)
BY DEF ArgumentsKept, Length, Width, Tangled, Promised

-----------------------------------------------------------------------------
(* One store *)

\* The element that a store going up writes is the one promised there: it
\* comes from the argument c, or from a part of the source no store has
\* reached.
LEMMA ElementUp ==
  ASSUME MemIInv, Up, ~Tangled, at \in {"top", "rep", "bottom"},
         NEW w \in 1 .. 4, edi + w <= dest + Length,
         at = "rep" => w = CASE routine = "memmove" -> 1
                             [] routine = "memset_word" -> 2
                             [] OTHER -> 4,
         at # "rep" => w = 1,
         NEW i \in 0 .. w - 1
  PROVE  Element(i) = Promised(edi - dest + i)
<1>1. /\ dest \in Int /\ src \in Int /\ n \in Nat /\ Size \in Nat
      /\ edi \in Int /\ esi \in Int /\ ecx \in Nat /\ edx \in Nat
      /\ routine \in Copies \cup Fills
  BY MemoryAssumption DEF MemIInv, MemTypeOK, Addr
<1>2. CASE routine \in Copies
  <2>1. Length = n
    BY <1>1, <1>2, LengthOf DEF Copies
  <2>2. esi + i = src + (edi - dest + i) /\ edi >= dest
    BY <1>1, <1>2 DEF Up
  <2>3. esi + i \in Addr
    <3>1. src \in 0 .. Size - 1 /\ src + n <= Size
      BY DEF MemIInv, MemTypeOK, Arguments, Addr
    <3>2. esi + i >= src /\ esi + i < src + n
      BY <1>1, <2>1, <2>2
    <3>3. QED
      BY <1>1, <3>1, <3>2 DEF Addr
  <2>4. esi + i \notin Finished
    <3>1. src >= dest \/ dest >= src + n
      <4>1. CASE routine = "memcpy"
        BY <1>1, <4>1 DEF Tangled
      <4>2. CASE routine = "memmove"
        <5>1. at = "rep"
          BY <4>2 DEF MemIInv, Labels
        <5>2. QED
          BY <1>1, <4>2, <5>1 DEF Up
      <4>3. QED
        BY <1>2, <4>1, <4>2 DEF Copies
    <3>2. QED
      BY <1>1, <2>1, <2>2, <3>1 DEF Finished, Up
  <2>5. Element(i) = Before[esi + i]
    BY <1>2, <2>3, <2>4 DEF Element, MemIInv, Untouched, Copies
  <2>6. QED
    BY <1>1, <1>2, <2>2, <2>5 DEF Promised, Copies
<1>3. CASE routine = "memset"
  BY <1>3 DEF Element, Promised, Copies
<1>4. CASE routine = "memset_word"
  <2>1. at = "rep" /\ w = 2
    BY <1>4 DEF MemIInv, Labels
  <2>2. 2 * ecx = 2 * n - (edi - dest)
    BY <1>4, <2>1 DEF Up
  <2>3. (edi - dest + i) % 2 = i
    BY <1>1, <2>1, <2>2
  <2>4. QED
    BY <1>4, <2>3 DEF Element, Promised, Copies, Width
<1>5. CASE routine = "memset_dword"
  <2>1. at = "rep" /\ w = 4
    BY <1>5 DEF MemIInv, Labels
  <2>2. 4 * ecx = 4 * n - (edi - dest)
    BY <1>5, <2>1 DEF Up
  <2>3. (edi - dest + i) % 4 = i
    <3>1. n - ecx \in Nat /\ edi - dest + i = 4 * (n - ecx) + i /\ i \in 0 .. 3
      BY <1>1, <2>1, <2>2 DEF Up
    <3>2. QED
      BY <3>1, WholeDwords
  <2>4. QED
    BY <1>5, <2>3 DEF Element, Promised, Copies, Width
<1>6. QED
  BY <1>1, <1>2, <1>3, <1>4, <1>5 DEF Fills

\* A store writes bytes of the memory.
LEMMA ElementType ==
  ASSUME MemIInv, NEW w \in 1 .. 4, NEW i \in 0 .. w - 1,
         routine \in Copies => esi + i \in Addr
  PROVE  Element(i) \in Bytes
<1>1. CASE routine \in Copies
  BY <1>1 DEF Element, MemIInv, MemTypeOK, Copies
<1>2. CASE routine \notin Copies
  <2>1. i \in 0 .. 3
    OBVIOUS
  <2>2. Fill[0] \in Bytes /\ Fill[i] \in Bytes
    BY <2>1, MemoryAssumption
  <2>3. QED
    BY <1>2, <2>2 DEF Element
<1>3. QED
  BY <1>1, <1>2

\* Going up, a store of w bytes keeps what is written, writes its own bytes
\* and touches no other.
LEMMA StoreUp ==
  ASSUME MemIInv, Up, ArgumentsKept, DF' = DF, at \in {"top", "rep", "bottom"},
         NEW w \in 1 .. 4, edi + w <= dest + Length,
         at = "rep" => w = CASE routine = "memmove" -> 1
                             [] routine = "memset_word" -> 2
                             [] OTHER -> 4,
         at # "rep" => w = 1,
         Store(w)
  PROVE  /\ mem' \in [Addr -> Bytes]
         /\ Untouched'
         /\ ~Tangled' => Written'
         /\ edi' = edi + w
         /\ esi' = IF routine \in Copies THEN esi + w ELSE esi
<1>1. /\ dest \in Int /\ src \in Int /\ n \in Nat /\ Size \in Nat
      /\ edi \in Int /\ esi \in Int /\ Length \in Nat
      /\ mem \in [Addr -> Bytes]
  BY MemoryAssumption, LengthOf DEF MemIInv, MemTypeOK, Addr
<1>2. DF = 1 /\ edi >= dest
  BY DEF Up
<1>3. Finished' = Finished \cup (edi .. edi + w - 1)
  BY <1>1, <1>2 DEF Finished, Store, ArgumentsKept
<1>4. mem' = [a \in Addr |-> IF a \in edi .. edi + w - 1 THEN Element(a - edi)
                             ELSE mem[a]]
  BY DEF Store
<1>5. mem' \in [Addr -> Bytes]
  <2>1. ASSUME NEW a \in Addr, a \in edi .. edi + w - 1
        PROVE  Element(a - edi) \in Bytes
    <3>1. a - edi \in 0 .. w - 1
      BY <1>1, <2>1
    <3>2. routine \in Copies => esi + (a - edi) \in Addr
      <4>1. SUFFICES ASSUME routine \in Copies
                     PROVE  esi + (a - edi) \in Addr
        OBVIOUS
      <4>2. Length = n
        BY <1>1, <4>1, LengthOf DEF Copies
      <4>3. src \in 0 .. Size - 1 /\ src + n <= Size
        BY DEF MemIInv, MemTypeOK, Arguments, Addr
      <4>4. esi = src + (edi - dest)
        BY <4>1 DEF Up
      <4>5. esi + (a - edi) >= src /\ esi + (a - edi) < src + n
        BY <1>1, <1>2, <2>1, <4>2, <4>4
      <4>6. QED
        BY <1>1, <2>1, <4>3, <4>5 DEF Addr
    <3>3. QED
      BY <3>1, <3>2, ElementType
  <2>2. QED
    BY <1>1, <1>4, <2>1
<1>6. Untouched'
  BY <1>1, <1>3, <1>4 DEF Untouched, MemIInv
<1>7. ASSUME ~Tangled'
      PROVE  Written'
  <2>1. ~Tangled
    BY <1>7, SamePromise
  <2>2. ASSUME NEW a \in Addr, a \in Finished'
        PROVE  mem'[a] = Promised(a - dest)
    <3>1. CASE a \in edi .. edi + w - 1
      <4>1. a - edi \in 0 .. w - 1 /\ edi - dest + (a - edi) = a - dest
        BY <1>1, <3>1
      <4>2. Element(a - edi) = Promised(edi - dest + (a - edi))
        BY <2>1, <4>1, ElementUp
      <4>3. QED
        BY <1>4, <3>1, <4>1, <4>2
    <3>2. CASE a \notin edi .. edi + w - 1
      BY <1>3, <1>4, <2>1, <2>2, <3>2 DEF MemIInv, Written
    <3>3. QED
      BY <3>1, <3>2
  <2>3. QED
    BY <2>2, SamePromise DEF Written, ArgumentsKept
<1>8. QED
  BY <1>1, <1>2, <1>5, <1>6, <1>7 DEF Store

\* Going down, likewise; the source lies below, where nothing is written yet.
LEMMA StoreDown ==
  ASSUME MemIInv, Down, ArgumentsKept, DF' = DF, at = "rep", ecx > 0, Store(1)
  PROVE  /\ mem' \in [Addr -> Bytes]
         /\ Untouched'
         /\ ~Tangled' => Written'
         /\ edi' = edi - 1
         /\ esi' = esi - 1
<1>1. /\ dest \in Int /\ src \in Int /\ n \in Nat /\ Size \in Nat
      /\ edi \in Int /\ esi \in Int /\ ecx \in Nat
      /\ mem \in [Addr -> Bytes]
  BY MemoryAssumption DEF MemIInv, MemTypeOK, Addr
<1>2. DF = -1 /\ routine = "memmove" /\ src < dest /\ Length = n
  BY <1>1, LengthOf DEF Down
<1>3. esi = src + ecx - 1 /\ edi = dest + ecx - 1
  BY DEF Down
<1>4. Finished' = Finished \cup {edi} /\ edi \notin Finished
  <2>1. edi' = edi - 1 /\ DF' = -1 /\ dest' = dest /\ Length' = n
    BY <1>1, <1>2, SamePromise DEF Store, ArgumentsKept
  <2>2. ecx <= n
    BY DEF Down
  <2>3. QED
    BY <1>1, <1>2, <1>3, <2>1, <2>2 DEF Finished
<1>5. mem' = [a \in Addr |-> IF a \in edi .. edi THEN Element(a - edi) ELSE mem[a]]
  <2>1. edi + 1 - 1 = edi
    BY <1>1
  <2>2. QED
    BY <2>1 DEF Store
<1>6. esi \in Addr /\ esi \notin Finished
  <2>1. src \in 0 .. Size - 1 /\ src + n <= Size /\ ecx <= n
    BY DEF MemIInv, MemTypeOK, Arguments, Addr, Down
  <2>2. QED
    BY <1>1, <1>2, <1>3, <2>1 DEF Finished, Addr
<1>7. Element(0) = Before[src + (edi - dest)] /\ Element(0) \in Bytes
  <2>1. Element(0) = mem[esi]
    BY <1>1, <1>2 DEF Element, Copies
  <2>2. mem[esi] = Before[esi]
    BY <1>6 DEF MemIInv, Untouched
  <2>3. QED
    BY <1>1, <1>3, <1>6, <2>1, <2>2
<1>8. Element(0) = Promised(edi - dest)
  BY <1>2, <1>7 DEF Promised, Copies
<1>9. mem' \in [Addr -> Bytes]
  <2>1. ASSUME NEW a \in Addr, a \in edi .. edi
        PROVE  Element(a - edi) \in Bytes
    <3>1. a - edi = 0
      BY <1>1, <2>1
    <3>2. QED
      BY <1>7, <3>1
  <2>2. QED
    BY <1>1, <1>5, <2>1
<1>10. Untouched'
  BY <1>1, <1>4, <1>5 DEF Untouched, MemIInv
<1>11. ASSUME ~Tangled'
       PROVE  Written'
  <2>1. ~Tangled
    BY <1>11, SamePromise
  <2>2. ASSUME NEW a \in Addr, a \in Finished'
        PROVE  mem'[a] = Promised(a - dest)
    <3>1. CASE a = edi
      BY <1>1, <1>5, <1>8, <3>1
    <3>2. CASE a # edi
      BY <1>1, <1>4, <1>5, <2>1, <2>2, <3>2 DEF MemIInv, Written, Addr
    <3>3. QED
      BY <3>1, <3>2
  <2>3. QED
    BY <2>2, SamePromise DEF Written, ArgumentsKept
<1>12. QED
  BY <1>1, <1>2, <1>9, <1>10, <1>11 DEF Store, Copies

-----------------------------------------------------------------------------
(* The steps *)

\* What every step leaves alone.
LEMMA Frame ==
  ASSUME MemIInv, ArgumentsKept
  PROVE  /\ Arguments'
         /\ routine' \in Copies \cup Fills
         /\ dest' \in Addr /\ src' \in Addr /\ n' \in Nat
         /\ dest \in Int /\ src \in Int /\ n \in Nat /\ Length \in Nat
         /\ edi \in Int /\ esi \in Int /\ ecx \in Nat /\ edx \in 0 .. 3
         /\ DF \in {1, -1}
BY SamePromise, LengthOf, MemoryAssumption
   DEF MemIInv, MemTypeOK, Arguments, ArgumentsKept, Addr, Copies, Fills, Length, Width

\* A step that stores nothing keeps what is written.
LEMMA NoStore ==
  ASSUME MemIInv, ArgumentsKept, UNCHANGED <<mem, edi, DF>>
  PROVE  Untouched' /\ (~Tangled' => Written') /\ mem' \in [Addr -> Bytes]
<1>1. Finished' = Finished
  BY SamePromise DEF Finished, ArgumentsKept
<1>2. Written => Written'
  BY <1>1, SamePromise DEF Written, ArgumentsKept
<1>3. QED
  BY <1>1, <1>2, SamePromise DEF MemIInv, Untouched, MemTypeOK

LEMMA TopKeeps ==
  ASSUME MemIInv, ArgumentsKept, routine \in {"memset", "memcpy"}, Top
  PROVE  MemIInv'
<1>1. Up /\ ecx = n - (edi - dest) /\ Length = n
  BY Frame, LengthOf DEF MemIInv, Down, Up, Top, Labels
<1>2. CASE ecx = 0 /\ at' = "done" /\ UNCHANGED <<mem, registers>>
  <2>1. Untouched' /\ (~Tangled' => Written') /\ mem' \in [Addr -> Bytes]
    BY <1>2, NoStore DEF registers
  <2>2. Up'
    BY <1>1, <1>2, Frame, SamePromise DEF Up, registers, ArgumentsKept
  <2>3. QED
    BY <1>2, <2>1, <2>2, Frame DEF MemIInv, MemTypeOK, Labels, registers, ArgumentsKept
<1>3. CASE /\ ecx > 0
           /\ ecx' = Split(ecx)[1] /\ edx' = Split(ecx)[2]
           /\ DF' = 1 /\ at' = "rep"
           /\ UNCHANGED <<mem, edi, esi>>
  <2>1. DF = 1 /\ ecx' \in Nat /\ edx' \in 0 .. 3 /\ 4 * ecx' + edx' = ecx
    BY <1>1, <1>3, Frame, SplitAdds DEF Up
  <2>2. Untouched' /\ (~Tangled' => Written') /\ mem' \in [Addr -> Bytes]
    BY <1>3, <2>1, NoStore
  <2>3. Up'
    BY <1>1, <1>3, <2>1, Frame DEF Up, ArgumentsKept
  <2>4. QED
    BY <1>3, <2>1, <2>2, <2>3, Frame DEF MemIInv, MemTypeOK, Labels, ArgumentsKept
<1>4. CASE ecx > 0 /\ Store(1) /\ ecx' = ecx - 1 /\ UNCHANGED <<edx, DF, at>>
  <2>1. at = "top" /\ edi + 1 <= dest + Length
    BY <1>1, <1>4, Frame DEF Top
  <2>2. /\ Untouched' /\ (~Tangled' => Written') /\ mem' \in [Addr -> Bytes]
        /\ edi' = edi + 1
        /\ esi' = IF routine \in Copies THEN esi + 1 ELSE esi
    BY <1>1, <1>4, <2>1, StoreUp
  <2>3. Up'
    BY <1>1, <1>4, <2>1, <2>2, Frame DEF Up, ArgumentsKept
  <2>4. QED
    BY <1>4, <2>1, <2>2, <2>3, Frame DEF MemIInv, MemTypeOK, Labels, ArgumentsKept
<1>5. QED
  BY <1>2, <1>3, <1>4 DEF Top

LEMMA BottomKeeps ==
  ASSUME MemIInv, ArgumentsKept, routine \in {"memset", "memcpy"}, Bottom
  PROVE  MemIInv'
<1>1. Up /\ edx = n - (edi - dest) /\ Length = n
  BY Frame, LengthOf DEF MemIInv, Down, Up, Bottom, Labels
<1>2. CASE edx = 0 /\ at' = "done" /\ UNCHANGED <<mem, registers>>
  <2>1. Untouched' /\ (~Tangled' => Written') /\ mem' \in [Addr -> Bytes]
    BY <1>2, NoStore DEF registers
  <2>2. Up'
    BY <1>1, <1>2, Frame, SamePromise DEF Up, registers, ArgumentsKept
  <2>3. QED
    BY <1>2, <2>1, <2>2, Frame DEF MemIInv, MemTypeOK, Labels, registers, ArgumentsKept
<1>3. CASE edx > 0 /\ Store(1) /\ edx' = edx - 1 /\ UNCHANGED <<ecx, DF, at>>
  <2>1. at = "bottom" /\ edi + 1 <= dest + Length
    BY <1>1, <1>3, Frame DEF Bottom
  <2>2. /\ Untouched' /\ (~Tangled' => Written') /\ mem' \in [Addr -> Bytes]
        /\ edi' = edi + 1
        /\ esi' = IF routine \in Copies THEN esi + 1 ELSE esi
    BY <1>1, <1>3, <2>1, StoreUp
  <2>3. Up'
    BY <1>1, <1>3, <2>1, <2>2, Frame DEF Up, ArgumentsKept
  <2>4. QED
    BY <1>3, <2>1, <2>2, <2>3, Frame DEF MemIInv, MemTypeOK, Labels, ArgumentsKept
<1>4. QED
  BY <1>2, <1>3 DEF Bottom

LEMMA EntryKeeps ==
  ASSUME MemIInv, ArgumentsKept, routine = "memmove", Entry
  PROVE  MemIInv'
<1>1. Up /\ edi = dest /\ esi = src /\ ecx = n /\ Length = n /\ DF = 1
  BY Frame, LengthOf DEF MemIInv, Down, Up, Entry, Copies
<1>2. at' = "rep" /\ mem' = mem
  BY DEF Entry
<1>3. CASE GoesUp /\ UNCHANGED registers
  <2>1. Untouched' /\ (~Tangled' => Written') /\ mem' \in [Addr -> Bytes]
    BY <1>2, <1>3, NoStore DEF registers
  <2>2. Up'
    BY <1>1, <1>2, <1>3, Frame DEF Up, registers, ArgumentsKept, GoesUp
  <2>3. QED
    BY <1>2, <1>3, <2>1, <2>2, Frame DEF MemIInv, MemTypeOK, Labels, registers, ArgumentsKept
<1>4. CASE /\ ~GoesUp
           /\ esi' = esi + ecx - 1 /\ edi' = edi + ecx - 1 /\ DF' = -1
           /\ UNCHANGED <<ecx, edx>>
  <2>1. Finished = {} /\ Finished' = {}
    BY <1>1, <1>4, Frame, SamePromise DEF Finished, ArgumentsKept
  <2>2. Untouched' /\ (~Tangled' => Written')
    BY <1>2, <2>1 DEF MemIInv, Untouched, Written
  <2>3. Down'
    BY <1>1, <1>2, <1>4, Frame DEF Down, ArgumentsKept, GoesUp
  <2>4. esi' \in Int /\ edi' \in Int /\ mem' \in [Addr -> Bytes]
    BY <1>2, <1>4, Frame DEF MemIInv, MemTypeOK
  <2>5. QED
    BY <1>2, <1>4, <2>2, <2>3, <2>4, Frame DEF MemIInv, MemTypeOK, Labels, ArgumentsKept
<1>5. QED
  BY <1>3, <1>4 DEF Entry

\* One iteration of a string instruction, or the end of it.
LEMMA RepeatKeeps ==
  ASSUME MemIInv, ArgumentsKept,
         NEW w \in 1 .. 4, NEW next \in {"bottom", "done"},
         w = CASE routine = "memmove" -> 1
               [] routine = "memset_word" -> 2
               [] OTHER -> 4,
         next = IF routine \in {"memset", "memcpy"} THEN "bottom" ELSE "done",
         Repeat(w, next)
  PROVE  MemIInv'
<1>1. at = "rep"
  BY DEF Repeat
<1>2. routine \in {"memset", "memcpy", "memmove", "memset_word", "memset_dword"}
  BY DEF MemIInv, MemTypeOK, Copies, Fills
<1>3. Up => CASE routine \in {"memset", "memcpy"} -> 4 * ecx + edx = Length - (edi - dest)
              [] routine = "memset_word"  -> 2 * ecx = Length - (edi - dest)
              [] routine = "memset_dword" -> 4 * ecx = Length - (edi - dest)
              [] OTHER -> ecx = Length - (edi - dest) /\ src >= dest
  BY <1>1, <1>2, Frame, LengthOf DEF Up
<1>4. CASE ecx = 0 /\ at' = next /\ UNCHANGED <<mem, registers>>
  <2>1. Untouched' /\ (~Tangled' => Written') /\ mem' \in [Addr -> Bytes]
    BY <1>4, NoStore DEF registers
  <2>2. Up => Up'
    <3>1. ASSUME Up, routine \in {"memset", "memcpy"}
          PROVE  Up'
      BY <1>1, <1>4, <3>1, Frame DEF Up, registers, ArgumentsKept
    <3>2. ASSUME Up, routine \notin {"memset", "memcpy"}
          PROVE  Up'
      <4>1. edi - dest = Length
        BY <1>2, <1>3, <1>4, <3>2, Frame
      <4>2. QED
        BY <1>4, <3>2, <4>1, SamePromise, Frame DEF Up, registers, ArgumentsKept
    <3>3. QED
      BY <3>1, <3>2
  <2>3. Down => Down'
    BY <1>4 DEF Down, registers, ArgumentsKept
  <2>4. QED
    BY <1>2, <1>4, <2>1, <2>2, <2>3, Frame
       DEF MemIInv, MemTypeOK, Labels, registers, ArgumentsKept
<1>5. CASE ecx > 0 /\ Store(w) /\ ecx' = ecx - 1 /\ UNCHANGED <<edx, DF, at>>
  <2>1. CASE Up
    <3>1. edi + w <= dest + Length
      BY <1>2, <1>3, <1>5, <2>1, Frame
    <3>2. /\ Untouched' /\ (~Tangled' => Written') /\ mem' \in [Addr -> Bytes]
          /\ edi' = edi + w
          /\ esi' = IF routine \in Copies THEN esi + w ELSE esi
      BY <1>1, <1>5, <2>1, <3>1, StoreUp
    <3>3. Up'
      BY <1>1, <1>2, <1>5, <2>1, <3>2, Frame DEF Up, ArgumentsKept
    <3>4. QED
      BY <1>1, <1>5, <3>2, <3>3, Frame DEF MemIInv, MemTypeOK, Labels, ArgumentsKept
  <2>2. CASE Down
    <3>1. w = 1
      BY <2>2 DEF Down
    <3>2. /\ Untouched' /\ (~Tangled' => Written') /\ mem' \in [Addr -> Bytes]
          /\ edi' = edi - 1
          /\ esi' = esi - 1
      BY <1>1, <1>5, <2>2, <3>1, StoreDown
    <3>3. Down'
      BY <1>1, <1>5, <2>2, <3>2, Frame DEF Down, ArgumentsKept
    <3>4. QED
      BY <1>1, <1>5, <3>2, <3>3, Frame DEF MemIInv, MemTypeOK, Labels, ArgumentsKept
  <2>3. QED
    BY <2>1, <2>2 DEF MemIInv
<1>6. QED
  BY <1>4, <1>5 DEF Repeat

-----------------------------------------------------------------------------

\* At every instruction of every call, the registers count the bytes to go and
\* exactly the bytes passed hold what was promised.
THEOREM MemInvariance == MemSpec => []MemIInv
<1>1. MemInit => MemIInv
  <2> SUFFICES ASSUME MemInit PROVE MemIInv
    OBVIOUS
  <2>1. /\ edi = dest /\ esi = src /\ ecx = n /\ edx = 0 /\ DF = 1 /\ mem = Before
        /\ dest \in Addr /\ n \in Nat /\ routine \in Copies \cup Fills
        /\ Arguments
    BY MemoryAssumption DEF MemInit, Addr, Arguments
  <2>2. src \in Addr
    BY MemoryAssumption, <2>1 DEF MemInit, Addr
  <2>3. Labels /\ at \in {"top", "rep", "bottom", "entry", "done"}
    BY DEF MemInit, Labels, Copies, Fills
  <2>4. MemTypeOK
    BY <2>1, <2>2, <2>3, MemoryAssumption DEF MemTypeOK, Addr
  <2>5. Up
    <3>1. dest \in Int /\ n \in Nat /\ src \in Int
      BY <2>1, <2>2 DEF Addr
    <3>2. at \in {"top", "entry", "rep"}
      BY DEF MemInit
    <3>3. at = "rep" => routine \in {"memset_word", "memset_dword"}
      BY DEF MemInit, Copies, Fills
    <3>4. edi - dest = 0 /\ src + (edi - dest) = src
      BY <2>1, <3>1
    <3>5. CASE at = "rep"
      BY <2>1, <3>1, <3>3, <3>4, <3>5 DEF Up, Copies
    <3>6. CASE at = "top"
      BY <2>1, <3>1, <3>4, <3>6 DEF Up
    <3>7. CASE at = "entry"
      BY <2>1, <3>1, <3>4, <3>7 DEF Up
    <3>8. QED
      BY <3>2, <3>5, <3>6, <3>7
  <2>6. Finished = {}
    BY <2>1, <2>2 DEF Finished, Addr
  <2>7. QED
    BY <2>1, <2>3, <2>4, <2>5, <2>6 DEF MemIInv, Untouched, Written
<1>2. MemIInv /\ [MemNext]_memVars => MemIInv'
  <2> SUFFICES ASSUME MemIInv, [MemNext]_memVars PROVE MemIInv'
    OBVIOUS
  <2>1. ASSUME MemNext PROVE MemIInv'
    <3>1. ArgumentsKept
      BY <2>1 DEF MemNext, ArgumentsKept
    <3>2. CASE memset
      BY <3>1, <3>2, TopKeeps, BottomKeeps, RepeatKeeps DEF memset
    <3>3. CASE memset_word
      BY <3>1, <3>3, RepeatKeeps DEF memset_word
    <3>4. CASE memset_dword
      BY <3>1, <3>4, RepeatKeeps DEF memset_dword
    <3>5. CASE memcpy
      BY <3>1, <3>5, TopKeeps, BottomKeeps, RepeatKeeps DEF memcpy
    <3>6. CASE memmove
      BY <3>1, <3>6, EntryKeeps, RepeatKeeps DEF memmove
    <3>7. QED
      BY <2>1, <3>2, <3>3, <3>4, <3>5, <3>6 DEF MemNext
  <2>2. CASE UNCHANGED memVars
    BY <2>2 DEF memVars, MemIInv, MemTypeOK, Arguments, Labels, Up, Down, Untouched,
                Written, Finished, Tangled, Length, Width, Promised
  <2>3. QED
    BY <2>1, <2>2
<1>3. QED
  BY <1>1, <1>2, PTL DEF MemSpec

\* The registers and labels keep their types.
THEOREM MemTypeCorrect == MemSpec => []MemTypeOK
<1>1. MemIInv => MemTypeOK
  BY DEF MemIInv
<1>2. QED
  BY <1>1, MemInvariance, PTL

\* Every call fills its block, whatever the alignment, length and overlap.
LEMMA BlockAtEnd == MemIInv => FilledAtEnd
<1> SUFFICES ASSUME MemIInv, at = "done", ~Tangled, NEW a \in Block
             PROVE  mem[a] = Promised(a - dest)
  BY DEF FilledAtEnd
<1>1. dest \in 0 .. Size - 1 /\ n \in Nat /\ Length \in Nat /\ Size \in Nat /\ edi \in Int
      /\ dest + Length <= Size
  BY MemoryAssumption, LengthOf DEF MemIInv, MemTypeOK, Addr, Arguments
<1>2. a \in Addr
  BY <1>1 DEF Block, Addr
<1>3. a \in Finished
  <2>1. CASE Up
    BY <1>1, <2>1 DEF Up, Finished, Block
  <2>2. CASE Down
    BY <1>1, <2>2 DEF Down, Finished, Block
  <2>3. QED
    BY <2>1, <2>2 DEF MemIInv
<1>4. QED
  BY <1>2, <1>3 DEF MemIInv, Written

\* No call changes a byte outside its block, not even between two
\* instructions.
LEMMA OthersUntouched == MemIInv => OnlyTheBlock
<1> SUFFICES ASSUME MemIInv, NEW a \in Addr, a \notin Block
             PROVE  mem[a] = Before[a]
  BY DEF OnlyTheBlock
<1>1. /\ dest \in Int /\ src \in Int /\ n \in Nat /\ Length \in Nat
      /\ edi \in Int /\ ecx \in Nat /\ edx \in Nat /\ a \in Int
  BY LengthOf DEF MemIInv, MemTypeOK, Addr
<1>2. a \notin Finished
  <2>1. CASE Up
    <3>1. edi <= dest + Length
      <4>1. routine \in {"memset", "memcpy", "memmove", "memset_word", "memset_dword"}
        BY DEF MemIInv, MemTypeOK, Copies, Fills
      <4>2. at \in {"top", "rep", "bottom", "entry", "done"}
        BY DEF MemIInv, MemTypeOK
      <4>3. Length >= n
        BY <1>1, <4>1, LengthOf
      <4>4. CASE at = "rep"
        <5>1. CASE routine \in {"memset", "memcpy"}
          BY <1>1, <2>1, <4>3, <4>4, <5>1 DEF Up
        <5>2. CASE routine = "memset_word"
          BY <1>1, <2>1, <4>4, <5>2, LengthOf DEF Up
        <5>3. CASE routine = "memset_dword"
          BY <1>1, <2>1, <4>4, <5>3, LengthOf DEF Up
        <5>4. CASE routine = "memmove"
          BY <1>1, <2>1, <4>3, <4>4, <5>4 DEF Up
        <5>5. QED
          BY <4>1, <5>1, <5>2, <5>3, <5>4
      <4>5. CASE at # "rep"
        <5>1. CASE at = "top"
          BY <1>1, <2>1, <4>3, <5>1 DEF Up
        <5>2. CASE at = "entry"
          BY <1>1, <2>1, <4>3, <5>2 DEF Up
        <5>3. CASE at = "bottom"
          BY <1>1, <2>1, <4>3, <5>3 DEF Up
        <5>4. CASE at = "done"
          BY <1>1, <2>1, <5>4 DEF Up
        <5>5. QED
          BY <4>2, <4>5, <5>1, <5>2, <5>3, <5>4
      <4>6. QED
        BY <4>4, <4>5
    <3>2. QED
      BY <1>1, <2>1, <3>1 DEF Up, Finished, Block
  <2>2. CASE Down
    BY <1>1, <2>2 DEF Down, Finished, Block
  <2>3. QED
    BY <2>1, <2>2 DEF MemIInv
<1>3. QED
  BY <1>2 DEF MemIInv, Untouched

\* Every call fills its block, whatever the alignment, length and overlap, and
\* changes nothing else.
THEOREM BlocksFilled == MemSpec => []CallFillsBlock
<1>1. MemIInv => CallFillsBlock
  BY BlockAtEnd, OthersUntouched DEF CallFillsBlock
<1>2. QED
  BY <1>1, MemInvariance, PTL

-----------------------------------------------------------------------------
(* ReadData: read_data returns the bytes of the file, and cat writes all of  *)
(* them                                                                      *)

-----------------------------------------------------------------------------
(* Division *)

\* A product of a positive factor is at least the other one.
LEMMA AtLeastOnce ==
  ASSUME NEW b \in Nat, NEW k \in Int, k >= 1
  PROVE  k * b >= b
<1>1. k * b = (k - 1) * b + b
  OBVIOUS
<1>2. (k - 1) * b >= 0
  OBVIOUS
<1>3. QED
  BY <1>1, <1>2

\* Quotient and remainder.
LEMMA QuotientRemainder ==
  ASSUME NEW b \in Nat \ {0}, NEW x \in Nat
  PROVE  /\ x \div b \in Nat
         /\ x % b \in 0 .. b - 1
         /\ x = (x \div b) * b + (x % b)
OBVIOUS

\* They are the only numbers of that kind.
LEMMA DivMod ==
  ASSUME NEW b \in Nat \ {0}, NEW q \in Nat, NEW r \in 0 .. b - 1
  PROVE  (q * b + r) \div b = q /\ (q * b + r) % b = r
<1> DEFINE x == q * b + r
           d == x \div b
           m == x % b
<1>1. x \in Nat
  OBVIOUS
<1>2. d \in Nat /\ m \in 0 .. b - 1 /\ x = d * b + m
  BY <1>1, QuotientRemainder
<1>3. (q - d) * b = m - r
  BY <1>2
<1>4. (d - q) * b = r - m
  BY <1>2
<1> HIDE DEF d, m, x
<1>5. ~(q - d >= 1)
  <2>1. SUFFICES ASSUME q - d >= 1 PROVE FALSE
    OBVIOUS
  <2>2. (q - d) * b >= b
    BY <1>2, <2>1, AtLeastOnce
  <2>3. QED
    BY <1>2, <1>3, <2>2
<1>6. ~(d - q >= 1)
  <2>1. SUFFICES ASSUME d - q >= 1 PROVE FALSE
    OBVIOUS
  <2>2. (d - q) * b >= b
    BY <1>2, <2>1, AtLeastOnce
  <2>3. QED
    BY <1>2, <1>4, <2>2
<1>7. q = d
  BY <1>2, <1>5, <1>6
<1>8. m = r
  BY <1>2, <1>3, <1>7
<1>9. QED
  BY <1>7, <1>8 DEF d, m, x

\* One more chunk leaves a multiple of its length.
LEMMA NextMultiple ==
  ASSUME NEW step \in Nat \ {0}, NEW x \in Nat, x % step = 0
  PROVE  (x + step) % step = 0
<1> DEFINE q == x \div step
<1>1. q \in Nat /\ x = q * step
  BY QuotientRemainder
<1>2. x + step = (q + 1) * step + 0
  BY <1>1
<1>3. QED
  BY <1>1, <1>2, DivMod

\* No multiple of a block lies inside a chunk that starts at a multiple of its
\* own length, if the length divides the block.
LEMMA NoBlockEndInside ==
  ASSUME NEW step \in Nat \ {0}, NEW b \in Nat \ {0}, b % step = 0,
         NEW x \in Nat, x % step = 0,
         NEW r \in 1 .. step - 1, NEW k \in Nat
  PROVE  x + r # k * b
<1> DEFINE q == x \div step
           c == b \div step
<1>1. q \in Nat /\ x = q * step /\ c \in Nat /\ b = c * step
  BY QuotientRemainder
<1> HIDE DEF q, c
<1>2. SUFFICES ASSUME x + r = k * b PROVE FALSE
  OBVIOUS
<1>3. k * b = (k * c) * step + 0 /\ k * c \in Nat
  BY <1>1
<1>4. (k * b) % step = 0
  BY <1>3, DivMod
<1>5. (q * step + r) % step = r
  BY <1>1, DivMod
<1>6. QED
  BY <1>1, <1>2, <1>4, <1>5

-----------------------------------------------------------------------------
(* The invariant *)

Places == BlockNumbers \X (0 .. FS_BLOCK_SIZE - 1)

\* The inode and the type of what changes.
ReadTypeOK ==
  /\ data_blocks \in [0 .. DATA_BLK - 1 -> BlockNumbers]
  /\ size \in 0 .. (DATA_BLK - 1) * FS_BLOCK_SIZE
  /\ nbytes \in Chunks
  /\ file_position \in Int
  /\ copied_bytes_done \in Nat
  /\ chunk \in Seq(Places) /\ written \in Seq(Places)
  /\ reader \in {"program", "copying", "exited"}
  /\ cnt \in Nat \cup {-1}

\* s holds the bytes of the file from byte i on.
BytesFrom(s, i) == \A k \in 1 .. Len(s) : s[k] = PlaceOf(i + k - 1)

\* Every chunk but the last is whole.
AtChunk == file_position = size \/ file_position % nbytes = 0

\* Inside read_data: where the copy stands, and that the two counters of the
\* position agree with the bytes that were copied.
Copying ==
  /\ cnt > 0
  /\ file_position \in 0 .. size
  /\ AtChunk
  /\ copied_bytes_done <= nbytes
  /\ file_position + copied_bytes_done <= size
  /\ cur_datablk \in 0 .. DATA_BLK - 1
  /\ byte_in_blk \in 0 .. FS_BLOCK_SIZE
  /\ copied_bytes_done = 0 => byte_in_blk < FS_BLOCK_SIZE
  /\ cur_datablk * FS_BLOCK_SIZE + byte_in_blk = file_position + copied_bytes_done
  /\ cur_addr = <<data_blocks[cur_datablk], byte_in_blk>>
  /\ Len(chunk) = copied_bytes_done
  /\ BytesFrom(chunk, file_position)
  /\ Len(written) = file_position

\* Between two reads, the last of which was not the end.
Between ==
  /\ file_position \in 0 .. size
  /\ AtChunk
  /\ Len(written) + Len(chunk) = file_position
  /\ BytesFrom(chunk, Len(written))

\* After a read that returned 0.
WholeFile == file_position = size /\ chunk = <<>> /\ Len(written) = size

\* After a read that failed.
Failed ==
  LET reached == file_position + 1 + copied_bytes_done IN
  /\ \E b \in 0 .. DATA_BLK - 1 :
       /\ reached = b * FS_BLOCK_SIZE
       /\ data_blocks[b] = num_datablocks
  /\ FS_BLOCK_SIZE % nbytes # 0

RInv ==
  /\ ReadTypeOK
  /\ BytesFrom(written, 0)
  /\ reader = "copying" => Copying
  /\ reader = "program" /\ cnt > 0 => Between
  /\ reader = "exited" => cnt <= 0
  /\ cnt = 0 => WholeFile
  /\ cnt = -1 => Failed

-----------------------------------------------------------------------------
(* The steps *)

\* The numbers of the inode and of the program.
LEMMA Sizes ==
  ASSUME ReadTypeOK
  PROVE  /\ FS_BLOCK_SIZE \in Nat \ {0} /\ DATA_BLK \in Nat \ {0}
         /\ nbytes \in Nat \ {0}
         /\ size \in Nat /\ size <= (DATA_BLK - 1) * FS_BLOCK_SIZE
<1>1. FS_BLOCK_SIZE \in Nat \ {0} /\ DATA_BLK \in Nat \ {0} /\ Chunks \subseteq Nat \ {0}
  BY ReadDataAssumption
<1>2. (DATA_BLK - 1) * FS_BLOCK_SIZE \in Nat
  BY <1>1
<1>3. QED
  BY <1>1, <1>2 DEF ReadTypeOK

\* Byte r of block q is byte q * FS_BLOCK_SIZE + r of the file.
LEMMA PlaceIs ==
  ASSUME ReadTypeOK, NEW q \in Nat, NEW r \in 0 .. FS_BLOCK_SIZE - 1
  PROVE  PlaceOf(q * FS_BLOCK_SIZE + r) = <<data_blocks[q], r>>
BY Sizes, DivMod DEF PlaceOf

\* A block that starts no later than the file ends has an entry in the inode.
LEMMA BlockInInode ==
  ASSUME ReadTypeOK, NEW q \in Nat, NEW r \in Nat,
         q * FS_BLOCK_SIZE + r <= size
  PROVE  q \in 0 .. DATA_BLK - 1
<1>1. /\ FS_BLOCK_SIZE \in Nat \ {0} /\ DATA_BLK \in Nat \ {0}
      /\ size \in Nat /\ size <= (DATA_BLK - 1) * FS_BLOCK_SIZE
  BY Sizes
<1>2. SUFFICES ASSUME q - (DATA_BLK - 1) >= 1 PROVE FALSE
  BY <1>1
<1>3. (q - (DATA_BLK - 1)) * FS_BLOCK_SIZE >= FS_BLOCK_SIZE
  BY <1>1, <1>2, AtLeastOnce
<1>4. (q - (DATA_BLK - 1)) * FS_BLOCK_SIZE
        = q * FS_BLOCK_SIZE - (DATA_BLK - 1) * FS_BLOCK_SIZE
  BY <1>1
<1>5. q * FS_BLOCK_SIZE \in Nat /\ (DATA_BLK - 1) * FS_BLOCK_SIZE \in Nat
  BY <1>1
<1>6. QED
  BY <1>1, <1>3, <1>4, <1>5

\* A read starts at the place of its first byte.
LEMMA CallKeeps ==
  ASSUME RInv, CallNext, UNCHANGED <<inodeVars, nbytes>>
  PROVE  RInv'
<1> DEFINE q == file_position \div FS_BLOCK_SIZE
           r == file_position % FS_BLOCK_SIZE
<1>1. /\ reader = "program" /\ cnt > 0 /\ chunk = <<>>
      /\ cur_datablk' = q /\ byte_in_blk' = r /\ cur_addr' = PlaceOf(file_position)
      /\ copied_bytes_done' = 0 /\ chunk' = <<>> /\ reader' = "copying"
      /\ UNCHANGED <<size, data_blocks, nbytes, file_position, cnt, written>>
  BY DEF CallNext, Call, inodeVars
<1>2. ReadTypeOK /\ Between
  BY <1>1 DEF RInv
<1>3. file_position \in Nat /\ file_position <= size /\ FS_BLOCK_SIZE \in Nat \ {0}
  BY <1>2, Sizes DEF Between
<1>4. q \in Nat /\ r \in 0 .. FS_BLOCK_SIZE - 1 /\ file_position = q * FS_BLOCK_SIZE + r
  BY <1>3, QuotientRemainder
<1> HIDE DEF q, r
<1>5. q \in 0 .. DATA_BLK - 1
  BY <1>2, <1>3, <1>4, BlockInInode
<1>6. cur_addr' = <<data_blocks[q], r>>
  BY <1>1, <1>2, <1>4, PlaceIs
<1>7. ReadTypeOK'
  BY <1>1, <1>2 DEF ReadTypeOK
<1>8. Copying'
  <2>1. copied_bytes_done' <= nbytes' /\ nbytes \in Nat
    BY <1>1, <1>2, Sizes
  <2>2. AtChunk'
    BY <1>1, <1>2 DEF Between, AtChunk
  <2>3. BytesFrom(chunk, file_position)'
    BY <1>1 DEF BytesFrom
  <2>4. Len(written) = file_position
    BY <1>1, <1>2, <1>3 DEF Between, ReadTypeOK
  <2>5. file_position' \in 0 .. size' /\ file_position' + copied_bytes_done' <= size'
    BY <1>1, <1>2, <1>3 DEF Between
  <2>6. /\ byte_in_blk' \in 0 .. FS_BLOCK_SIZE /\ byte_in_blk' < FS_BLOCK_SIZE
        /\ cur_datablk' \in 0 .. DATA_BLK - 1
        /\ cur_datablk' * FS_BLOCK_SIZE + byte_in_blk' = file_position' + copied_bytes_done'
    BY <1>1, <1>3, <1>4, <1>5
  <2>7. QED
    BY <1>1, <1>6, <2>1, <2>2, <2>3, <2>4, <2>5, <2>6 DEF Copying
<1>9. BytesFrom(written, 0)'
  BY <1>1 DEF RInv, BytesFrom, PlaceOf
<1>10. QED
  BY <1>1, <1>7, <1>8, <1>9 DEF RInv

\* A byte is copied from its place.
LEMMA CopyKeeps ==
  ASSUME RInv, reader = "copying", copied_bytes_done < nbytes, ~SizeReached,
         NEW blk \in 0 .. DATA_BLK - 1, NEW r \in 0 .. FS_BLOCK_SIZE - 1,
         blk * FS_BLOCK_SIZE + r = file_position + copied_bytes_done,
         CopyByte(blk, <<data_blocks[blk], r>>),
         UNCHANGED <<inodeVars, nbytes>>
  PROVE  RInv'
<1> DEFINE a == <<data_blocks[blk], r>>
<1>1. /\ chunk' = Append(chunk, a)
      /\ copied_bytes_done' = copied_bytes_done + 1
      /\ cur_datablk' = blk
      /\ byte_in_blk' = r + 1
      /\ cur_addr' = <<data_blocks[blk], r + 1>>
      /\ UNCHANGED <<size, data_blocks, nbytes, file_position, reader, cnt, written>>
  BY DEF CopyByte, inodeVars
<1>2. ReadTypeOK /\ Copying
  BY DEF RInv
<1>3. /\ copied_bytes_done \in Nat /\ nbytes \in Nat /\ size \in Nat
      /\ file_position \in Nat /\ FS_BLOCK_SIZE \in Nat \ {0} /\ cnt \in Int
      /\ file_position + copied_bytes_done + 1 <= size
  BY <1>2, Sizes DEF ReadTypeOK, Copying, SizeReached
<1>4. a \in Places
  BY <1>2 DEF ReadTypeOK, Places
<1>5. a = PlaceOf(file_position + copied_bytes_done)
  <2>1. blk \in Nat
    BY <1>2, Sizes
  <2>2. QED
    BY <1>2, <2>1, PlaceIs
<1> HIDE DEF a
<1>6. /\ chunk' \in Seq(Places) /\ Len(chunk') = copied_bytes_done + 1
      /\ \A k \in 1 .. copied_bytes_done : chunk'[k] = chunk[k]
      /\ chunk'[copied_bytes_done + 1] = a
  <2>1. chunk \in Seq(Places) /\ Len(chunk) = copied_bytes_done
    BY <1>2 DEF ReadTypeOK, Copying
  <2>2. chunk' = Append(chunk, a)
    BY <1>1
  <2>3. QED
    BY <1>3, <1>4, <2>1, <2>2
<1>7. BytesFrom(chunk, file_position)'
  <2>1. SUFFICES ASSUME NEW k \in 1 .. copied_bytes_done + 1
                 PROVE  chunk'[k] = PlaceOf(file_position + k - 1)
    BY <1>1, <1>6 DEF BytesFrom, PlaceOf
  <2>2. CASE k = copied_bytes_done + 1
    BY <1>3, <1>5, <1>6, <2>2
  <2>3. CASE k \in 1 .. copied_bytes_done
    BY <1>2, <1>6, <2>3 DEF Copying, BytesFrom
  <2>4. QED
    BY <1>3, <2>2, <2>3
<1>8. ReadTypeOK'
  BY <1>1, <1>2, <1>3, <1>6 DEF ReadTypeOK
<1>9. Copying'
  <2>1. /\ cnt' > 0 /\ file_position' \in 0 .. size' /\ AtChunk'
        /\ Len(written') = file_position'
    BY <1>1, <1>2 DEF Copying, AtChunk
  <2>2. /\ copied_bytes_done' <= nbytes'
        /\ file_position' + copied_bytes_done' <= size'
        /\ copied_bytes_done' # 0
        /\ Len(chunk') = copied_bytes_done'
    BY <1>1, <1>3, <1>6
  <2>3. /\ cur_datablk' \in 0 .. DATA_BLK - 1
        /\ byte_in_blk' \in 0 .. FS_BLOCK_SIZE
        /\ cur_addr' = <<data_blocks'[cur_datablk'], byte_in_blk'>>
    BY <1>1, <1>3
  <2>4. cur_datablk' * FS_BLOCK_SIZE + byte_in_blk' = file_position' + copied_bytes_done'
    <3>1. blk * FS_BLOCK_SIZE \in Int
      BY <1>3
    <3>2. QED
      BY <1>1, <1>3, <3>1
  <2>5. QED
    BY <1>7, <2>1, <2>2, <2>3, <2>4 DEF Copying
<1>10. BytesFrom(written, 0)'
  BY <1>1 DEF RInv, BytesFrom, PlaceOf
<1>11. reader' = "copying" /\ cnt' > 0 /\ cnt' \in Int
  BY <1>1, <1>2, <1>3 DEF Copying
<1>12. QED
  BY <1>8, <1>9, <1>10, <1>11 DEF RInv

\* A read ends with the bytes it copied; with none only at the end of the file.
LEMMA ReturnKeeps ==
  ASSUME RInv, reader = "copying",
         copied_bytes_done = nbytes \/ SizeReached,
         ReturnRead(copied_bytes_done),
         UNCHANGED <<inodeVars, nbytes>>
  PROVE  RInv'
<1>1. /\ cnt' = copied_bytes_done
      /\ file_position' = file_position + copied_bytes_done
      /\ reader' = "program"
      /\ UNCHANGED <<size, data_blocks, nbytes, copied_bytes_done, chunk, written>>
  BY DEF ReturnRead, inodeVars
<1>2. ReadTypeOK /\ Copying
  BY DEF RInv
<1>3. /\ copied_bytes_done \in Nat /\ nbytes \in Nat \ {0} /\ size \in Nat
      /\ file_position \in Nat /\ file_position + copied_bytes_done <= size
  BY <1>2, Sizes DEF ReadTypeOK, Copying
<1>4. ReadTypeOK'
  BY <1>1, <1>2, <1>3 DEF ReadTypeOK
<1>5. AtChunk'
  <2>1. CASE SizeReached
    BY <1>1, <1>3, <2>1 DEF SizeReached, AtChunk
  <2>2. CASE copied_bytes_done = nbytes
    <3>1. CASE file_position = size
      BY <1>3, <2>2, <3>1
    <3>2. CASE file_position % nbytes = 0
      <4>1. (file_position + nbytes) % nbytes = 0
        BY <1>3, <3>2, NextMultiple
      <4>2. QED
        BY <1>1, <2>2, <4>1 DEF AtChunk
    <3>3. QED
      BY <1>2, <3>1, <3>2 DEF Copying, AtChunk
  <2>3. QED
    BY <2>1, <2>2
<1>6. Between'
  <2>1. BytesFrom(chunk, Len(written))'
    BY <1>1, <1>2 DEF Copying, BytesFrom, PlaceOf
  <2>2. file_position' \in 0 .. size' /\ Len(written') + Len(chunk') = file_position'
    BY <1>1, <1>2, <1>3 DEF Copying
  <2>3. QED
    BY <1>5, <2>1, <2>2 DEF Between
<1>7. ASSUME cnt' = 0 PROVE WholeFile'
  <2>1. copied_bytes_done = 0 /\ SizeReached
    BY <1>1, <1>3, <1>7
  <2>2. file_position = size /\ Len(chunk) = 0 /\ Len(written) = size
    BY <1>2, <1>3, <2>1 DEF SizeReached, Copying
  <2>3. chunk = <<>>
    BY <1>2, <2>2 DEF ReadTypeOK
  <2>4. QED
    BY <1>1, <1>3, <2>1, <2>2, <2>3 DEF WholeFile
<1>8. BytesFrom(written, 0)'
  BY <1>1 DEF RInv, BytesFrom, PlaceOf
<1>9. QED
  BY <1>1, <1>3, <1>4, <1>6, <1>7, <1>8 DEF RInv

\* At the end of a block with bytes still to come, the next one is block
\* cur_datablk + 1, and it starts at the byte the copy has reached.
LEMMA BlockEnd ==
  ASSUME RInv, reader = "copying", AtBlockEnd
  PROVE  /\ cur_datablk + 1 \in 0 .. DATA_BLK - 1
         /\ (cur_datablk + 1) * FS_BLOCK_SIZE + 0 = file_position + copied_bytes_done
         /\ copied_bytes_done # 0
<1>1. ReadTypeOK /\ Copying
  BY DEF RInv
<1>2. /\ FS_BLOCK_SIZE \in Nat \ {0} /\ cur_datablk \in Nat /\ byte_in_blk = FS_BLOCK_SIZE
      /\ file_position + copied_bytes_done <= size
      /\ cur_datablk * FS_BLOCK_SIZE + byte_in_blk = file_position + copied_bytes_done
  BY <1>1, Sizes DEF Copying, AtBlockEnd
<1>3. (cur_datablk + 1) * FS_BLOCK_SIZE = cur_datablk * FS_BLOCK_SIZE + FS_BLOCK_SIZE
  BY <1>2
<1>4. (cur_datablk + 1) * FS_BLOCK_SIZE + 0 = file_position + copied_bytes_done
  <2>1. cur_datablk * FS_BLOCK_SIZE \in Int
    BY <1>2
  <2>2. QED
    BY <1>2, <1>3, <2>1
<1>5. cur_datablk + 1 \in 0 .. DATA_BLK - 1
  <2>1. (cur_datablk + 1) * FS_BLOCK_SIZE + 0 <= size
    BY <1>2, <1>4
  <2>2. cur_datablk + 1 \in Nat
    BY <1>2
  <2>3. QED
    BY <1>1, <2>1, <2>2, BlockInInode
<1>6. copied_bytes_done # 0
  BY <1>1, <1>2 DEF Copying
<1>7. QED
  BY <1>4, <1>5, <1>6

\* A read fails only there, and never if the chunks divide a block.
LEMMA FailKeeps ==
  ASSUME RInv, reader = "copying", copied_bytes_done < nbytes, AtBlockEnd,
         data_blocks[cur_datablk + 1] >= num_datablocks,
         ReturnRead(-1),
         UNCHANGED <<inodeVars, nbytes>>
  PROVE  RInv'
<1> DEFINE b == cur_datablk + 1
<1>1. /\ cnt' = -1
      /\ file_position' = file_position + -1
      /\ reader' = "program"
      /\ UNCHANGED <<size, data_blocks, nbytes, copied_bytes_done, chunk, written>>
  BY DEF ReturnRead, inodeVars
<1>2. ReadTypeOK /\ Copying
  BY DEF RInv
<1>3. /\ b \in 0 .. DATA_BLK - 1
      /\ b * FS_BLOCK_SIZE + 0 = file_position + copied_bytes_done
      /\ copied_bytes_done # 0
  BY BlockEnd
<1>4. /\ copied_bytes_done \in Nat /\ nbytes \in Nat \ {0} /\ size \in Nat
      /\ file_position \in Nat /\ file_position + copied_bytes_done <= size
      /\ FS_BLOCK_SIZE \in Nat \ {0}
  BY <1>2, Sizes DEF ReadTypeOK, Copying
<1> HIDE DEF b
<1>5. data_blocks[b] = num_datablocks
  BY <1>2, <1>3, ReadDataAssumption DEF ReadTypeOK, BlockNumbers, b
<1>6. file_position' + 1 + copied_bytes_done' = b * FS_BLOCK_SIZE
  <2>1. b * FS_BLOCK_SIZE \in Int
    BY <1>2, <1>3, <1>4, Sizes
  <2>2. QED
    BY <1>1, <1>3, <1>4, <2>1
<1>7. FS_BLOCK_SIZE % nbytes # 0
  <2>1. SUFFICES ASSUME FS_BLOCK_SIZE % nbytes = 0 PROVE FALSE
    OBVIOUS
  <2>2. file_position # size
    BY <1>3, <1>4
  <2>3. file_position % nbytes = 0
    BY <1>2, <2>2 DEF Copying, AtChunk
  <2>4. copied_bytes_done \in 1 .. nbytes - 1
    BY <1>3, <1>4
  <2>5. b \in Nat
    BY <1>2, <1>3, Sizes
  <2>6. file_position + copied_bytes_done # b * FS_BLOCK_SIZE
    BY <1>4, <2>1, <2>3, <2>4, <2>5, NoBlockEndInside
  <2>7. b * FS_BLOCK_SIZE \in Int
    BY <1>4, <2>5
  <2>8. QED
    BY <1>3, <2>6, <2>7
<1>8. Failed'
  BY <1>1, <1>3, <1>5, <1>6, <1>7 DEF Failed
<1>9. ReadTypeOK'
  BY <1>1, <1>2, <1>4 DEF ReadTypeOK
<1>10. BytesFrom(written, 0)'
  BY <1>1 DEF RInv, BytesFrom, PlaceOf
<1>11. QED
  BY <1>1, <1>8, <1>9, <1>10 DEF RInv

\* The loop of read_data.
LEMMA LoopKeeps ==
  ASSUME RInv, read_data, UNCHANGED <<inodeVars, nbytes>>
  PROVE  RInv'
<1>1. reader = "copying" /\ ReadTypeOK /\ Copying
  BY DEF read_data, RInv
<1>2. CASE ReturnRead(copied_bytes_done) /\ (copied_bytes_done = nbytes \/ SizeReached)
  BY <1>1, <1>2, ReturnKeeps
<1>3. CASE /\ copied_bytes_done < nbytes /\ AtBlockEnd
           /\ data_blocks[cur_datablk + 1] >= num_datablocks /\ ReturnRead(-1)
  BY <1>1, <1>3, FailKeeps
<1>4. CASE /\ copied_bytes_done < nbytes /\ AtBlockEnd /\ ~SizeReached
           /\ CopyByte(cur_datablk + 1, NextAddress)
  <2>1. /\ cur_datablk + 1 \in 0 .. DATA_BLK - 1
        /\ (cur_datablk + 1) * FS_BLOCK_SIZE + 0 = file_position + copied_bytes_done
    BY <1>1, <1>4, BlockEnd
  <2>2. 0 \in 0 .. FS_BLOCK_SIZE - 1
    BY <1>1, Sizes
  <2>3. CopyByte(cur_datablk + 1, <<data_blocks[cur_datablk + 1], 0>>)
    BY <1>4 DEF NextAddress
  <2>4. QED
    BY <1>1, <1>4, <2>1, <2>2, <2>3, CopyKeeps
<1>5. CASE /\ copied_bytes_done < nbytes /\ ~AtBlockEnd /\ ~SizeReached
           /\ CopyByte(cur_datablk, cur_addr)
  <2>1. byte_in_blk \in 0 .. FS_BLOCK_SIZE - 1
    BY <1>1, <1>5, Sizes DEF Copying, AtBlockEnd
  <2>2. /\ cur_addr = <<data_blocks[cur_datablk], byte_in_blk>>
        /\ cur_datablk \in 0 .. DATA_BLK - 1
        /\ cur_datablk * FS_BLOCK_SIZE + byte_in_blk = file_position + copied_bytes_done
    BY <1>1 DEF Copying
  <2>3. CopyByte(cur_datablk, <<data_blocks[cur_datablk], byte_in_blk>>)
    BY <1>5, <2>2
  <2>4. QED
    BY <1>1, <1>5, <2>1, <2>2, <2>3, CopyKeeps
<1>6. QED
  BY <1>2, <1>3, <1>4, <1>5 DEF read_data

\* cat writes the chunk behind what it wrote before.
LEMMA CatKeeps ==
  ASSUME RInv, cat, UNCHANGED <<inodeVars, nbytes>>
  PROVE  RInv'
<1>1. /\ reader = "program" /\ cnt > 0
      /\ written' = written \o chunk
      /\ chunk' = <<>>
      /\ UNCHANGED <<size, data_blocks, nbytes, file_position, copied_bytes_done,
                     reader, cnt>>
  BY DEF cat, inodeVars
<1>2. ReadTypeOK /\ Between /\ BytesFrom(written, 0)
  BY <1>1 DEF RInv
<1>3. /\ written \in Seq(Places) /\ chunk \in Seq(Places)
      /\ written' \in Seq(Places)
      /\ Len(written) \in Nat /\ Len(chunk) \in Nat
      /\ Len(written') = Len(written) + Len(chunk)
  BY <1>1, <1>2 DEF ReadTypeOK
<1>4. BytesFrom(written, 0)'
  <2>1. SUFFICES ASSUME NEW k \in 1 .. Len(written) + Len(chunk)
                 PROVE  written'[k] = PlaceOf(0 + k - 1)
    BY <1>1, <1>3 DEF BytesFrom, PlaceOf
  <2>2. CASE k \in 1 .. Len(written)
    <3>1. written'[k] = written[k]
      BY <1>1, <1>3, <2>2
    <3>2. QED
      BY <1>2, <2>2, <3>1 DEF BytesFrom
  <2>3. CASE k \notin 1 .. Len(written)
    <3>1. k - Len(written) \in 1 .. Len(chunk)
      BY <1>3, <2>1, <2>3
    <3>2. written'[k] = chunk[k - Len(written)]
      BY <1>1, <1>3, <2>1, <2>3
    <3>3. chunk[k - Len(written)] = PlaceOf(Len(written) + (k - Len(written)) - 1)
      BY <1>2, <3>1 DEF Between, BytesFrom
    <3>4. Len(written) + (k - Len(written)) - 1 = 0 + k - 1
      BY <1>3, <2>1
    <3>5. QED
      BY <3>2, <3>3, <3>4
  <2>4. QED
    BY <2>2, <2>3
<1>5. ReadTypeOK'
  BY <1>1, <1>2, <1>3 DEF ReadTypeOK
<1>6. Between'
  <2>1. Len(written') + Len(chunk') = file_position'
    BY <1>1, <1>2, <1>3 DEF Between
  <2>2. file_position' \in 0 .. size' /\ AtChunk'
    BY <1>1, <1>2 DEF Between, AtChunk
  <2>3. BytesFrom(chunk, Len(written))'
    BY <1>1 DEF BytesFrom
  <2>4. QED
    BY <2>1, <2>2, <2>3 DEF Between
<1>7. cnt' # 0 /\ cnt' # -1
  BY <1>1, <1>2 DEF ReadTypeOK
<1>8. QED
  BY <1>1, <1>4, <1>5, <1>6, <1>7 DEF RInv

\* main returns.
LEMMA ExitKeeps ==
  ASSUME RInv, Exit, UNCHANGED <<inodeVars, nbytes>>
  PROVE  RInv'
<1>1. /\ cnt <= 0 /\ reader' = "exited"
      /\ UNCHANGED <<size, data_blocks, nbytes, file_position, copied_bytes_done,
                     chunk, cnt, written>>
  BY DEF Exit, inodeVars
<1>2. ReadTypeOK' /\ BytesFrom(written, 0)'
  BY <1>1 DEF RInv, ReadTypeOK, BytesFrom, PlaceOf
<1>3. /\ cnt' = 0 => WholeFile'
      /\ cnt' = -1 => Failed'
  BY <1>1 DEF RInv, WholeFile, Failed
<1>4. QED
  BY <1>1, <1>2, <1>3 DEF RInv

-----------------------------------------------------------------------------
(* The theorems *)

\* No step of read_data or cat breaks the invariant.
LEMMA ReadStepKeeps ==
  ASSUME RInv, [ReadDataNext]_readDataVars
  PROVE  RInv'
<1>1. CASE ReadDataNext
  BY <1>1, CallKeeps, LoopKeeps, CatKeeps, ExitKeeps DEF ReadDataNext
<1>2. CASE UNCHANGED readDataVars
  BY <1>2 DEF readDataVars, RInv, ReadTypeOK, Copying, Between, WholeFile, Failed,
              AtChunk, BytesFrom, PlaceOf
<1>3. QED
  BY <1>1, <1>2

\* A file that was just opened.
LEMMA ReadInitHolds == ReadDataInit => RInv
<1> SUFFICES ASSUME ReadDataInit PROVE RInv
  OBVIOUS
<1>1. ReadTypeOK
  BY DEF ReadDataInit, ReadTypeOK
<1>2. file_position \in 0 .. size /\ AtChunk
  BY <1>1, Sizes DEF ReadDataInit, AtChunk
<1>3. Between /\ BytesFrom(written, 0)
  BY <1>2 DEF ReadDataInit, Between, BytesFrom
<1>4. QED
  BY <1>1, <1>3 DEF ReadDataInit, RInv

\* The invariant holds of every behaviour.
THEOREM ReadInvariance == ReadDataSpec => []RInv
<1>1. RInv /\ [ReadDataNext]_readDataVars => RInv'
  BY ReadStepKeeps
<1>2. QED
  BY <1>1, ReadInitHolds, PTL DEF ReadDataSpec

\* For every block size, inode and length, read_data copies the bytes of the
\* file in order and none behind its end, and fails only at the end of a block
\* whose successor has no number in the image.
THEOREM ReadsCorrect == ReadDataSpec => []ReadsInOrder
<1>1. ASSUME RInv PROVE ReadsInOrder
  <2>1. ReadTypeOK
    BY <1>1 DEF RInv
  <2>2. ASSUME reader = "copying"
        PROVE  /\ Len(chunk) = copied_bytes_done
               /\ \A k \in 1 .. Len(chunk) :
                    /\ chunk[k] = PlaceOf(file_position + k - 1)
                    /\ file_position + k <= size
    <3>1. /\ Len(chunk) = copied_bytes_done /\ BytesFrom(chunk, file_position)
          /\ file_position \in 0 .. size /\ copied_bytes_done \in Nat /\ size \in Nat
          /\ file_position + copied_bytes_done <= size
      BY <1>1, <2>1, <2>2, Sizes DEF RInv, Copying, ReadTypeOK
    <3>2. \A k \in 1 .. Len(chunk) : file_position + k <= size
      BY <3>1
    <3>3. QED
      BY <3>1, <3>2 DEF BytesFrom
  <2>3. ASSUME cnt = -1
        PROVE  LET reached == file_position + 1 + copied_bytes_done IN
               /\ reached % FS_BLOCK_SIZE = 0
               /\ data_blocks[reached \div FS_BLOCK_SIZE] = num_datablocks
    <3> DEFINE reached == file_position + 1 + copied_bytes_done
    <3>1. PICK b \in 0 .. DATA_BLK - 1 : /\ reached = b * FS_BLOCK_SIZE
                                        /\ data_blocks[b] = num_datablocks
      BY <1>1, <2>3 DEF RInv, Failed
    <3>2. reached = b * FS_BLOCK_SIZE + 0 /\ b \in Nat /\ FS_BLOCK_SIZE \in Nat \ {0}
      BY <2>1, <3>1, Sizes
    <3> HIDE DEF reached
    <3>3. reached \div FS_BLOCK_SIZE = b /\ reached % FS_BLOCK_SIZE = 0
      BY <3>2, DivMod
    <3>4. QED
      BY <3>1, <3>3 DEF reached
  <2>4. QED
    BY <2>2, <2>3 DEF ReadsInOrder
<1>2. QED
  BY <1>1, ReadInvariance, PTL

\* cat writes every byte of every file once and in order, or ends badly, which
\* chunks that divide a block rule out.
THEOREM CatCorrect == ReadDataSpec => []CatWritesFile
<1>1. ASSUME RInv PROVE CatWritesFile
  <2>1. ASSUME cnt = 0 PROVE written = [i \in 1 .. size |-> PlaceOf(i - 1)]
    <3>1. /\ written \in Seq(Places) /\ Len(written) = size
          /\ \A k \in 1 .. Len(written) : written[k] = PlaceOf(0 + k - 1)
      BY <1>1, <2>1 DEF RInv, WholeFile, ReadTypeOK, BytesFrom
    <3>2. \A k \in 1 .. size : 0 + k - 1 = k - 1
      OBVIOUS
    <3>3. QED
      BY <3>1, <3>2
  <2>2. cnt = -1 => FS_BLOCK_SIZE % nbytes # 0
    BY <1>1 DEF RInv, Failed
  <2>3. QED
    BY <2>1, <2>2 DEF CatWritesFile
<1>2. QED
  BY <1>1, ReadInvariance, PTL

-----------------------------------------------------------------------------
(* The interrupt controllers *)

\* A handler owes the ends of its own line and, behind the slave, of the
\* master's; without a handler nothing is owed. Interrupts go on when the boot
\* is over and off for a handler.
PicOwes ==
  /\ handling \in {{}, {Timer}, {Keyboard}, {Clock}, {Mouse}}
  /\ \A line \in in_service : \E dev \in handling : line \in {dev, MasterLine(dev)}
  /\ EFLAGS_IF => handling = {} /\ Booted
  /\ handling # {} => Booted

\* The masks after each call of enable_irq.
PicMasks ==
  /\ boot \in 0 .. 6
  /\ master_mask = Master \ (   (IF boot > 0 THEN {Cascade} ELSE {})
                           \cup (IF boot > 2 THEN {Timer} ELSE {})
                           \cup (IF boot > 3 THEN {Keyboard} ELSE {}))
  /\ slave_mask = Slave \ (   (IF boot > 1 THEN {Clock} ELSE {})
                         \cup (IF boot > 4 THEN {Mouse} ELSE {}))

PicInv == PicOwes /\ PicMasks

LEMMA PicInitHolds == Init => PicInv
  BY DEF Init, PicInv, PicOwes, PicMasks, Booted, BootCalls, maskVars

LEMMA BootCallsAre ==
  /\ Len(BootCalls) = 5
  /\ BootCalls[1] = Cascade /\ BootCalls[2] = Clock /\ BootCalls[3] = Timer
  /\ BootCalls[4] = Keyboard /\ BootCalls[5] = Mouse
  BY DEF BootCalls

LEMMA PicStepKeeps == PicInv /\ [Next]_vars => PicInv'
  <1> SUFFICES ASSUME PicInv, [Next]_vars PROVE PicInv'
    OBVIOUS
  <1> USE DEF Timer, Keyboard, Clock, Mouse, Cascade
  <1>1. PicOwes /\ PicMasks /\ Len(BootCalls) = 5
    BY BootCallsAre DEF PicInv
  <1>2. CASE BootStep
    <2>1. /\ boot \in 0 .. 4 /\ boot' = boot + 1 /\ ~Booted /\ ~Booted'
          /\ enable_irq(BootCalls[boot + 1])
      BY <1>1, <1>2, BootCallsAre DEF BootStep, PicMasks, Booted
    <2>2. PicOwes'
      BY <1>1, <1>2, <2>1 DEF BootStep, PicOwes
    <2>3. PicMasks'
      <3>1. CASE boot = 0
        BY <1>1, <2>1, <3>1, BootCallsAre DEF PicMasks, enable_irq, Master, Slave
      <3>2. CASE boot = 1
        BY <1>1, <2>1, <3>2, BootCallsAre DEF PicMasks, enable_irq, Master, Slave
      <3>3. CASE boot = 2
        BY <1>1, <2>1, <3>3, BootCallsAre DEF PicMasks, enable_irq, Master, Slave
      <3>4. CASE boot = 3
        BY <1>1, <2>1, <3>4, BootCallsAre DEF PicMasks, enable_irq, Master, Slave
      <3>5. CASE boot = 4
        BY <1>1, <2>1, <3>5, BootCallsAre DEF PicMasks, enable_irq, Master, Slave
      <3>6. QED
        BY <2>1, <3>1, <3>2, <3>3, <3>4, <3>5
    <2>4. QED
      BY <2>2, <2>3 DEF PicInv
  <1>3. CASE BootEnd
    <2>1. /\ boot = 5 /\ boot' = 6 /\ ~Booted /\ Booted'
          /\ UNCHANGED <<master_mask, slave_mask, handling, in_service>>
      BY <1>1, <1>3, BootCallsAre DEF BootEnd, Booted, maskVars
    <2>2. PicOwes'
      BY <1>1, <2>1 DEF PicOwes
    <2>3. PicMasks'
      BY <1>1, <2>1 DEF PicMasks
    <2>4. QED
      BY <2>2, <2>3 DEF PicInv
  <1>4. ASSUME UNCHANGED <<boot, maskVars>> PROVE PicMasks' /\ (Booted' <=> Booted)
    BY <1>1, <1>4 DEF PicMasks, Booted, maskVars
  <1>5. ASSUME NEW line \in Devices, Accept(line) PROVE PicInv'
    <2>1. /\ handling = {} /\ in_service = {} /\ Booted
          /\ handling' = {line} /\ in_service' = in_service \cup {line, MasterLine(line)}
          /\ ~EFLAGS_IF' /\ UNCHANGED <<boot, maskVars>>
      BY <1>1, <1>5 DEF Accept, PicOwes
    <2>2. PicOwes'
      BY <1>4, <2>1 DEF PicOwes, Devices
    <2>3. QED
      BY <1>4, <2>1, <2>2 DEF PicInv
  <1>6. ASSUME NEW line \in Devices, Leave(line), in_service' = in_service \ send_eoi(line)
        PROVE  PicInv'
    <2>1. handling = {line} /\ handling' = {} /\ Booted /\ UNCHANGED <<boot, maskVars>>
      BY <1>1, <1>6 DEF Leave, PicOwes
    <2>2. \A any \in in_service : any \in send_eoi(line)
      BY <1>1, <2>1 DEF PicOwes, MasterLine, send_eoi, Devices
    <2>3. in_service' = {}
      BY <1>6, <2>2
    <2>4. PicOwes'
      BY <1>4, <2>1, <2>3 DEF PicOwes
    <2>5. QED
      BY <1>4, <2>1, <2>4 DEF PicInv
  <1>7. CASE Handler
    BY <1>6, <1>7 DEF Handler, TimerHandler, KeyboardHandler, ClockHandler, MouseHandler,
                      TimerEnds, Devices
  <1>8. CASE \/ EnterKernel \/ LeaveKernel \/ \E line \in Devices : Raise(line)
             \/ UNCHANGED vars
    <2>1. /\ UNCHANGED <<boot, maskVars, handling, in_service>>
          /\ EFLAGS_IF' => EFLAGS_IF \/ (Booted /\ handling = {})
      BY <1>8 DEF EnterKernel, LeaveKernel, Raise, vars, maskVars
    <2>2. PicOwes'
      BY <1>1, <1>4, <2>1 DEF PicOwes
    <2>3. QED
      BY <1>4, <2>1, <2>2 DEF PicInv
  <1>9. QED
    BY <1>2, <1>3, <1>5, <1>7, <1>8 DEF Next

\* Every path out of a handler has sent all ends of interrupt it owes.
THEOREM NothingIsHeldBack == Spec => []NothingHeldBack
  <1>1. PicInv => NothingHeldBack
    BY DEF PicInv, PicOwes, NothingHeldBack
  <1>2. QED
    BY <1>1, PicInitHolds, PicStepKeeps, PTL DEF Spec

\* No step of the boot opens a line the kernel has no handler for, and all of
\* them leave none of its devices' closed.
THEOREM OpenLinesAreHandled == Spec => []OpenLinesHaveHandlers
  <1>1. PicInv => OpenLinesHaveHandlers
    <2> SUFFICES ASSUME PicInv
                 PROVE  OpenLinesHaveHandlers
      OBVIOUS
    <2>1. OpenLines \subseteq Devices \cup {Cascade}
      BY DEF PicInv, PicMasks, OpenLines, Lines, Master, Slave, Devices,
             Timer, Keyboard, Clock, Mouse, Cascade
    <2>2. ASSUME Booted PROVE OpenLines = Devices \cup {Cascade}
      <3>1. boot = 6
        BY <2>2, BootCallsAre DEF PicInv, PicMasks, Booted
      <3>2. QED
        BY <3>1 DEF PicInv, PicMasks, OpenLines, Lines, Master, Slave, Devices,
                    Timer, Keyboard, Clock, Mouse, Cascade
    <2>3. QED
      BY <2>1, <2>2 DEF OpenLinesHaveHandlers
  <1>2. QED
    BY <1>1, PicInitHolds, PicStepKeeps, PTL DEF Spec

-----------------------------------------------------------------------------
(* Rtc: the virtual clocks *)


\* Only the newest process of a terminal is inside rtc_read, with a frequency.
ReadersNewest ==
  \A p \in Pids : reading[p] => rtc_freq[p] # 0 /\ p = Newest(p[1])

RtcIInv == TypeOK /\ NoDivisionByZero /\ ReadersNewest /\ ExactWait

-----------------------------------------------------------------------------

\* A period is a whole number of interrupts, at most the device's frequency.
LEMMA DivisionInRange ==
  ASSUME NEW a \in Nat, NEW b \in Nat \ {0}
  PROVE  a \div b \in 0 .. a
  OBVIOUS

\* The process that has the CPU is one.
LEMMA NewestType ==
  ASSUME TypeOK, NEW t \in Terms
  PROVE  Newest(t) \in Pids /\ Newest(t)[1] = t
  BY DEF Newest, TypeOK, Pids

LEMMA RunningType ==
  ASSUME TypeOK
  PROVE  Running \in Pids /\ Running[1] = now_term_id
  BY NewestType DEF Running, TypeOK

\* Division by a frequency that rtc_open or rtc_write has set.
LEMMA PeriodType ==
  ASSUME TypeOK, NEW p \in Pids, rtc_freq[p] # 0
  PROVE  Period(p) \in 0 .. RTC_MAX
  <1>1. rtc_freq[p] \in {0} \cup 2 .. RTC_MAX
    BY DEF TypeOK
  <1>2. rtc_freq[p] \in Nat \ {0} /\ RTC_MAX \in Nat
    BY <1>1, RtcAssumption
  <1>3. QED
    BY <1>2, DivisionInRange DEF Period

-----------------------------------------------------------------------------

\* The handler brings every reader one interrupt nearer to its end.
LEMMA IrqKeeps ==
  ASSUME RtcIInv, Irq
  PROVE  RtcIInv'
  <1> USE DEF RtcIInv
  <1>1. /\ \A p \in Pids : rtc_counter'[p] = CountDown(p)
        /\ \A p \in Pids : elapsed'[p] =
             IF reading[p] /\ elapsed[p] < Period(p) THEN elapsed[p] + 1 ELSE elapsed[p]
        /\ UNCHANGED <<taskVars, rtc_freq, opened, reading>>
    BY DEF Irq, taskVars
  <1>2. ASSUME NEW p \in Pids
        PROVE  CountDown(p) \in 0 .. RTC_MAX
    BY RtcAssumption DEF CountDown, TypeOK
  <1>3. TypeOK'
    <2>1. rtc_counter' \in [Pids -> 0 .. RTC_MAX]
      BY <1>2 DEF Irq, taskVars
    <2>2. elapsed' \in [Pids -> 0 .. RTC_MAX]
      <3>1. ASSUME NEW p \in Pids, reading[p]
            PROVE  Period(p) \in 0 .. RTC_MAX
        BY <3>1, PeriodType DEF ReadersNewest
      <3>2. QED
        BY <3>1, RtcAssumption DEF Irq, taskVars, TypeOK
    <2>3. QED
      BY <1>1, <2>1, <2>2 DEF taskVars, TypeOK
  <1>4. ExactWait'
    <2>1. SUFFICES ASSUME NEW p \in Pids, reading[p]
                   PROVE  /\ elapsed'[p] <= Period(p)
                          /\ rtc_counter'[p] = Period(p) - elapsed'[p]
      BY <1>1 DEF ExactWait, Period
    <2>2. /\ Served(p)
          /\ rtc_freq[p] # 0
          /\ elapsed[p] <= Period(p)
          /\ rtc_counter[p] = Period(p) - elapsed[p]
      BY <2>1 DEF ReadersNewest, NoDivisionByZero, ExactWait, Served
    <2>3. Period(p) \in 0 .. RTC_MAX
      BY <2>2, PeriodType
    <2>4. elapsed[p] \in 0 .. RTC_MAX /\ RTC_MAX \in Nat
      BY RtcAssumption DEF TypeOK
    <2>5. QED
      BY <1>1, <2>1, <2>2, <2>3, <2>4 DEF CountDown
  <1>5. QED
    BY <1>1, <1>3, <1>4 DEF taskVars, NoDivisionByZero, ReadersNewest, Newest

\* A tick changes only whose turn it is, a key only what is on the screen.
LEMMA TickKeeps ==
  ASSUME RtcIInv, Tick \/ \E t \in Terms : AltF(t)
  PROVE  RtcIInv'
  <1>1. (now_term_id + 1) % TERM_MAX \in Terms
    BY RtcAssumption DEF RtcIInv, TypeOK, Terms
  <1>2. QED
    BY <1>1 DEF RtcIInv, Tick, AltF, TypeOK, NoDivisionByZero, ReadersNewest, ExactWait,
                Newest, Period, pcbVars, taskVars

\* The calls that do not spin are made by a process outside rtc_read.
LEMMA CallsKeep ==
  ASSUME RtcIInv, Open \/ Close \/ (\E freq \in Requests : Write(freq))
  PROVE  RtcIInv'
  <1> USE DEF RtcIInv
  <1>1. Running \in Pids
    BY RunningType
  <1>2. CASE Open
    <2>1. RTC_MAX \div 2 \in 0 .. RTC_MAX
      BY RtcAssumption, DivisionInRange
    <2>2. 2 \in 2 .. RTC_MAX
      BY RtcAssumption
    <2>3. TypeOK'
      BY <1>1, <1>2, <2>1, <2>2 DEF Open, taskVars, TypeOK
    <2>4. NoDivisionByZero' /\ ReadersNewest'
      BY <1>1, <1>2 DEF Open, taskVars, TypeOK, NoDivisionByZero, ReadersNewest, Newest
    <2>5. ASSUME NEW p \in Pids, reading[p]
          PROVE  p # Running /\ rtc_freq'[p] = rtc_freq[p] /\ rtc_counter'[p] = rtc_counter[p]
      BY <1>2, <2>5 DEF Open, taskVars, TypeOK
    <2>6. ExactWait'
      BY <1>2, <2>5 DEF Open, taskVars, ExactWait, Period
    <2>7. QED
      BY <2>3, <2>4, <2>6
  <1>3. CASE Close
    BY <1>1, <1>3 DEF Close, pcbVars, taskVars, TypeOK, NoDivisionByZero, ReadersNewest,
                      ExactWait, Newest, Period
  <1>4. ASSUME NEW freq \in Requests, Write(freq) PROVE RtcIInv'
    <2>1. freq \in 2 .. RTC_MAX
      BY <1>4 DEF Write, taskVars, Valid
    <2>2. TypeOK'
      BY <1>1, <1>4, <2>1 DEF Write, taskVars, TypeOK
    <2>3. NoDivisionByZero' /\ ReadersNewest'
      BY <1>1, <1>4, <2>1 DEF Write, taskVars, TypeOK, NoDivisionByZero, ReadersNewest, Newest
    <2>4. ASSUME NEW p \in Pids, reading[p]
          PROVE  p # Running /\ rtc_freq'[p] = rtc_freq[p]
      BY <1>4, <2>4 DEF Write, taskVars, TypeOK
    <2>5. ExactWait'
      BY <1>4, <2>4 DEF Write, taskVars, ExactWait, Period
    <2>6. QED
      BY <2>2, <2>3, <2>5
  <1>5. QED
    BY <1>2, <1>3, <1>4

\* A read begins with a full period to wait, and ends with its counter at 0.
LEMMA ReadKeeps ==
  ASSUME RtcIInv, Read \/ (\E t \in Terms : Return(t))
  PROVE  RtcIInv'
  <1> USE DEF RtcIInv
  <1>1. CASE Read
    <2>1. Running \in Pids /\ Running[1] = now_term_id
      BY RunningType
    <2>2. opened[Running] /\ rtc_freq[Running] # 0
      BY <1>1, <2>1 DEF Read, taskVars, NoDivisionByZero
    <2>3. Period(Running) \in 0 .. RTC_MAX
      BY <2>1, <2>2, PeriodType
    <2>4. TypeOK'
      BY <1>1, <2>1, <2>3, RtcAssumption DEF Read, taskVars, TypeOK
    <2>5. NoDivisionByZero' /\ ReadersNewest'
      BY <1>1, <2>1, <2>2 DEF Read, taskVars, TypeOK, NoDivisionByZero, ReadersNewest, Newest, Running
    <2>6. ASSUME NEW p \in Pids, reading'[p]
          PROVE  elapsed'[p] <= Period(p) /\ rtc_counter'[p] = Period(p) - elapsed'[p]
      <3>1. CASE p = Running
        BY <1>1, <2>1, <2>3, <3>1, RtcAssumption DEF Read, taskVars, TypeOK
      <3>2. CASE p # Running
        BY <1>1, <2>6, <3>2 DEF Read, taskVars, TypeOK, ExactWait
      <3>3. QED
        BY <3>1, <3>2
    <2>7. ExactWait'
      BY <1>1, <2>6 DEF Read, taskVars, ExactWait, Period
    <2>8. QED
      BY <2>4, <2>5, <2>7
  <1>2. ASSUME NEW t \in Terms, Return(t) PROVE RtcIInv'
    <2>1. Newest(t) \in Pids
      BY NewestType
    <2>2. TypeOK'
      BY <1>2, <2>1, RtcAssumption DEF Return, pcbVars, taskVars, TypeOK
    <2>3. QED
      BY <1>2, <2>1, <2>2 DEF Return, pcbVars, taskVars, TypeOK, NoDivisionByZero,
                              ReadersNewest, ExactWait, Newest, Period
  <1>3. QED
    BY <1>1, <1>2

\* A process starts above one that does not read, and ends with its read.
LEMMA StacksKeep ==
  ASSUME RtcIInv, Execute \/ Halt
  PROVE  RtcIInv'
  <1> USE DEF RtcIInv
  <1> DEFINE t == now_term_id
  <1>1. t \in Terms /\ Running \in Pids /\ Running = <<t, cur_pcb_id[t]>>
    BY RunningType DEF Running, Newest, TypeOK
  <1>2. CASE Execute
    <2>1. TypeOK' /\ NoDivisionByZero'
      BY <1>1, <1>2 DEF Execute, pcbVars, taskVars, TypeOK, NoDivisionByZero
    <2>2. ASSUME NEW p \in Pids, reading[p]
          PROVE  rtc_freq'[p] # 0 /\ p = Newest(p[1])'
      <3>1. p # Running /\ rtc_freq[p] # 0 /\ p = <<p[1], cur_pcb_id[p[1]]>>
        BY <1>2, <2>2 DEF Execute, ReadersNewest, Newest
      <3>2. p[1] # t
        BY <1>1, <3>1
      <3>3. QED
        BY <1>1, <1>2, <3>1, <3>2 DEF Execute, pcbVars, taskVars, TypeOK, Newest, Pids
    <2>3. QED
      BY <1>2, <2>1, <2>2 DEF Execute, pcbVars, taskVars, ReadersNewest, ExactWait, Period
  <1>3. CASE Halt
    <2>1. (IF cur_pcb_id[t] = 0 THEN 0 ELSE cur_pcb_id[t] - 1) \in Slots
      BY <1>1, RtcAssumption DEF TypeOK, Slots
    <2>2. TypeOK' /\ NoDivisionByZero'
      BY <1>1, <1>3, <2>1, RtcAssumption DEF Halt, pcbVars, taskVars, TypeOK, NoDivisionByZero
    <2>3. ASSUME NEW p \in Pids, reading'[p]
          PROVE  reading[p] /\ rtc_freq'[p] # 0 /\ p = Newest(p[1])' /\ elapsed'[p] = elapsed[p]
      <3>1. p # Running /\ reading[p]
        BY <1>1, <1>3, <2>3 DEF Halt, TypeOK
      <3>2. rtc_freq[p] # 0 /\ p = <<p[1], cur_pcb_id[p[1]]>>
        BY <3>1 DEF ReadersNewest, Newest
      <3>3. p[1] # t
        BY <1>1, <3>1, <3>2
      <3>4. QED
        BY <1>1, <1>3, <3>1, <3>2, <3>3 DEF Halt, pcbVars, taskVars, TypeOK, Newest, Pids
    <2>4. QED
      BY <1>3, <2>2, <2>3 DEF Halt, pcbVars, taskVars, ReadersNewest, ExactWait, Period
  <1>4. QED
    BY <1>2, <1>3

-----------------------------------------------------------------------------

\* The invariant of the virtual clocks.
THEOREM RtcInvariance == RtcSpec => []RtcIInv
  <1>1. RtcInit => RtcIInv
    <2>1. 0 \in Terms /\ TERM_MAX - 1 \in Terms /\ 0 \in Slots /\ 0 \in 0 .. RTC_MAX
      BY RtcAssumption DEF Terms, Slots
    <2>2. QED
      BY <2>1 DEF RtcInit, RtcIInv, TypeOK, NoDivisionByZero, ReadersNewest, ExactWait
  <1>2. ASSUME RtcIInv, [RtcNext]_rtcVars PROVE RtcIInv'
    <2>1. CASE UNCHANGED rtcVars
      BY <1>2, <2>1 DEF rtcVars, pcbVars, taskVars, RtcIInv, TypeOK, NoDivisionByZero,
                        ReadersNewest, ExactWait, Newest, Period
    <2>2. QED
      BY <1>2, <2>1, IrqKeeps, TickKeeps, CallsKeep, ReadKeeps, StacksKeep DEF RtcNext
  <1>3. QED
    BY <1>1, <1>2, PTL DEF RtcSpec

\* The counters stay within the device's frequency and the frequencies are 0, in
\* a slot that never opened the device, or at least 2.
THEOREM RtcTypeCorrect == RtcSpec => []TypeOK
  <1>1. RtcIInv => TypeOK
    BY DEF RtcIInv
  <1>2. QED
    BY <1>1, RtcInvariance, PTL

\* rtc_read never divides by zero, although execute leaves pcb.rtc_freq as the
\* last process of the slot left it.
THEOREM DivisorSet == RtcSpec => []NoDivisionByZero
  <1>1. RtcIInv => NoDivisionByZero
    BY DEF RtcIInv
  <1>2. QED
    BY <1>1, RtcInvariance, PTL

\* A read waits exactly the period of its own process's frequency, whatever
\* the other processes do with their clocks, as long as programs start in the
\* terminal on the screen.
THEOREM WaitsExact == RtcSpec => []ExactWait
  <1>1. RtcIInv => ExactWait
    BY DEF RtcIInv
  <1>2. QED
    BY <1>1, RtcInvariance, PTL

=============================================================================
