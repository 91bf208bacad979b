----------------------------- MODULE TextProofs -----------------------------
(***************************************************************************)
(* Proofs about the code that handles text: the string functions, printf   *)
(* and term_write, and the line typed at the shell, for all texts, all     *)
(* numbers and all names.                                                  *)
(***************************************************************************)
EXTENDS Printf, Commands, SequenceTheorems, WellFoundedInduction, TLAPS

-----------------------------------------------------------------------------
(* Induction, said of a set of numbers *)

LEMMA NatIsWellFounded == IsWellFoundedOn(OpToRel(<, Nat), Nat)
  BY Zenon, NatLessThanWellFounded

LEMMA LessIsRelated == \A m, n \in Nat : m < n => <<m, n>> \in OpToRel(<, Nat)
  BY Zenon DEF OpToRel

LEMMA LeastNumber ==
  ASSUME NEW S, S \subseteq Nat, S # {}
  PROVE  \E n \in S : \A m \in S : n <= m
  <1>1. PICK n \in S : \A m \in S : ~ (<<m, n>> \in OpToRel(<, Nat))
    BY Zenon, NatIsWellFounded, WFMin
  <1>2. \A m \in S : ~ (m < n)
    BY Zenon, <1>1, LessIsRelated
  <1>3. QED
    BY <1>2

LEMMA Induction ==
  ASSUME NEW S, 0 \in S, \A n \in Nat : n \in S => n + 1 \in S
  PROVE  Nat \subseteq S
  <1>1. SUFFICES ASSUME Nat \ S # {} PROVE FALSE
    OBVIOUS
  <1>2. PICK n \in Nat \ S : \A m \in Nat \ S : n <= m
    BY <1>1, LeastNumber
  <1>3. n # 0 /\ n - 1 \in Nat /\ n - 1 \notin Nat \ S
    BY <1>2
  <1>4. QED
    BY <1>2, <1>3

-----------------------------------------------------------------------------
(* Terminated memory *)

\* strlen finds the first terminator of a memory that has one.
LEMMA Terminator ==
  ASSUME NEW s, NEW top \in Nat, DOMAIN s = 0 .. top,
         NEW e \in 0 .. top, s[e] = NUL
  PROVE  /\ strlen(s) \in 0 .. e
         /\ s[strlen(s)] = NUL
         /\ \A j \in 0 .. strlen(s) - 1 : s[j] # NUL
  <1> DEFINE Stops == {k \in Nat : k <= top /\ s[k] = NUL}
  <1>1. PICK len \in Stops : \A k \in Stops : len <= k
    <2>1. e \in Stops
      OBVIOUS
    <2>2. Stops \subseteq Nat
      OBVIOUS
    <2> HIDE DEF Stops
    <2>3. QED
      BY <2>1, <2>2, LeastNumber
  <1>2. len \in DOMAIN s /\ s[len] = NUL /\ \A j \in 0 .. len - 1 : s[j] # NUL
    BY <1>1
  <1>3. /\ strlen(s) \in DOMAIN s
        /\ s[strlen(s)] = NUL /\ \A j \in 0 .. strlen(s) - 1 : s[j] # NUL
    BY <1>2 DEF strlen
  <1>4. QED
    BY <1>3

\* There is no other first terminator.
LEMMA TerminatorIs ==
  ASSUME NEW s, NEW top \in Nat, DOMAIN s = 0 .. top,
         NEW e \in 0 .. top, s[e] = NUL, \A j \in 0 .. e - 1 : s[j] # NUL
  PROVE  strlen(s) = e
  BY Terminator

LEMMA BufferIs ==
  ASSUME NEW text \in Seq(Characters), NEW behind \in Seq(Characters)
  PROVE  LET top == Len(text) + Len(behind) IN
         /\ top \in Nat
         /\ Buffer(text, behind) \in [0 .. top -> Characters]
         /\ \A k \in 0 .. Len(text) - 1 : Buffer(text, behind)[k] = text[k + 1]
         /\ Buffer(text, behind)[Len(text)] = NUL
  <1> DEFINE head == text \o <<NUL>>
             bytes == head \o behind
             top == Len(text) + Len(behind)
  <1>1. Len(text) \in Nat /\ Len(behind) \in Nat
    BY LenProperties
  <1>2. <<NUL>> \in Seq(Characters) /\ Len(<<NUL>>) = 1 /\ <<NUL>>[1] = NUL
    BY StringsAssumption
  <1>3. /\ head \in Seq(Characters) /\ Len(head) = Len(text) + 1
        /\ \A k \in 1 .. Len(text) + 1 : head[k] = IF k <= Len(text) THEN text[k] ELSE NUL
    <2>1. /\ head \in Seq(Characters) /\ Len(head) = Len(text) + Len(<<NUL>>)
          /\ \A k \in 1 .. Len(text) + Len(<<NUL>>) :
               head[k] = IF k <= Len(text) THEN text[k] ELSE <<NUL>>[k - Len(text)]
      BY <1>2, ConcatProperties, Zenon
    <2>2. QED
      BY <1>1, <1>2, <2>1
  <1> HIDE DEF head
  <1>4. /\ bytes \in Seq(Characters) /\ Len(bytes) = top + 1
        /\ \A k \in 1 .. Len(text) + 1 : bytes[k] = head[k]
    <2>1. /\ bytes \in Seq(Characters) /\ Len(bytes) = Len(head) + Len(behind)
          /\ \A k \in 1 .. Len(head) + Len(behind) :
               bytes[k] = IF k <= Len(head) THEN head[k] ELSE behind[k - Len(head)]
      BY <1>3, ConcatProperties, Zenon
    <2>2. QED
      BY <1>1, <1>3, <2>1
  <1>5. Buffer(text, behind) = [k \in 0 .. Len(bytes) - 1 |-> bytes[k + 1]]
    BY DEF Buffer, head
  <1> HIDE DEF bytes
  <1>6. Buffer(text, behind) = [k \in 0 .. top |-> bytes[k + 1]]
    BY <1>1, <1>4, <1>5
  <1>7. \A k \in 0 .. top : bytes[k + 1] \in Characters
    BY <1>1, <1>4, ElementOfSeq
  <1>8. \A k \in 0 .. Len(text) - 1 : Buffer(text, behind)[k] = text[k + 1]
    BY <1>1, <1>3, <1>4, <1>6
  <1>9. Buffer(text, behind)[Len(text)] = NUL
    <2>1. Len(text) \in 0 .. top /\ Len(text) + 1 \in 1 .. Len(text) + 1
      BY <1>1
    <2>2. Buffer(text, behind)[Len(text)] = bytes[Len(text) + 1]
      BY <1>6, <2>1
    <2>3. bytes[Len(text) + 1] = head[Len(text) + 1]
      BY <1>4, <2>1
    <2>4. head[Len(text) + 1] = NUL
      BY <1>1, <1>3, <2>1
    <2>5. QED
      BY <2>2, <2>3, <2>4
  <1>10. Buffer(text, behind) \in [0 .. top -> Characters]
    BY <1>6, <1>7
  <1>11. QED
    BY <1>1, <1>8, <1>9, <1>10

-----------------------------------------------------------------------------
(* Printf: where the loop stands *)

\* The format ends somewhere, in memory that has no more room for conversions
\* than the stack has words; so far two characters went by for each word.
Memory ==
  /\ data \in Seq(Characters) /\ length = Len(data)
  /\ stack \in Seq(0 .. WORD - 1)
  /\ \E top \in Nat : /\ format \in [0 .. top -> Characters]
                      /\ Len(data) <= top /\ top < 2 * Len(stack)
  /\ format[Len(data)] = NUL

Place ==
  /\ mode \in {"copying", "text", "conversion", "returned"}
  /\ buf \in Nat /\ esp \in Nat \ {0}
  /\ mode = "copying" => buf = 0 /\ client = "program"
  /\ mode = "conversion" => /\ buf # 0
                            /\ format[buf - 1] \in {"%", "#"}
                            /\ 2 * esp - 1 <= buf
  /\ mode # "conversion" => 2 * (esp - 1) <= buf

FInv == Memory /\ Place /\ StaysInFormat

LEMMA FormatEnds ==
  ASSUME Memory
  PROVE  /\ strlen(format) \in 0 .. Len(data) /\ strlen(format) \in DOMAIN format
         /\ format[strlen(format)] = NUL
         /\ \A j \in 0 .. strlen(format) - 1 : format[j] # NUL
  <1>1. PICK top \in Nat : format \in [0 .. top -> Characters] /\ Len(data) <= top
    BY DEF Memory
  <1>2. Len(data) \in 0 .. top /\ DOMAIN format = 0 .. top /\ format[Len(data)] = NUL
    BY <1>1, LenProperties DEF Memory
  <1>3. QED
    BY <1>2, Terminator

LEMMA PrintInitHolds == PrintInit => FInv
  <1> SUFFICES ASSUME PrintInit PROVE FInv
    OBVIOUS
  <1>1. PICK behind \in Behind : format = Buffer(data, behind)
    BY DEF PrintInit
  <1>2. /\ data \in Texts /\ data \in Seq(Characters) /\ behind \in Seq(Characters)
        /\ stack \in Stacks /\ stack \in Seq(0 .. WORD - 1)
    BY PrintfAssumption DEF PrintInit
  <1>3. Len(data) + Len(behind) < 2 * Len(stack)
    BY <1>2, PrintfAssumption
  <1>4. Len(data) \in Nat /\ Len(behind) \in Nat
    BY <1>2, LenProperties
  <1>5. /\ format \in [0 .. Len(data) + Len(behind) -> Characters]
        /\ format[Len(data)] = NUL
    BY <1>1, <1>2, BufferIs
  <1>6. Memory
    <2> DEFINE top == Len(data) + Len(behind)
    <2>1. top \in Nat /\ Len(data) <= top /\ format \in [0 .. top -> Characters]
      BY <1>4, <1>5
    <2>2. top < 2 * Len(stack)
      BY <1>3
    <2>3. length = Len(data)
      BY DEF PrintInit
    <2> HIDE DEF top
    <2>4. QED
      BY <1>2, <1>5, <2>1, <2>2, <2>3 DEF Memory
  <1>7. Place
    BY DEF Place, PrintInit
  <1>8. StaysInFormat
    BY <1>6, FormatEnds DEF PrintInit, StaysInFormat
  <1>9. QED
    BY <1>6, <1>7, <1>8 DEF FInv

\* term_write copies up to the first terminator of its buffer.
LEMMA CopiedIs ==
  ASSUME NEW text \in Seq(Characters)
  PROVE  LET len == Copied(text, Len(text)) IN
         /\ len \in 0 .. Len(text)
         /\ \A j \in 1 .. len : text[j] # NUL
         /\ len < Len(text) => text[len + 1] = NUL
  <1> DEFINE all == Len(text)
             Stops == {k \in Nat : k = all \/ (k < all /\ text[k + 1] = NUL)}
  <1>1. all \in Nat
    BY LenProperties
  <1>2. PICK len \in Stops : \A k \in Stops : len <= k
    <2>1. all \in Stops /\ Stops \subseteq Nat
      BY <1>1
    <2> HIDE DEF Stops
    <2>2. QED
      BY <2>1, LeastNumber
  <1>3. len \in 0 .. all /\ len \in Nat
    BY <1>1, <1>2
  <1>4. \A j \in 1 .. len : text[j] # NUL
    <2> SUFFICES ASSUME NEW j \in 1 .. len, text[j] = NUL PROVE FALSE
      OBVIOUS
    <2>1. j - 1 \in Stops
      BY <1>1, <1>3
    <2>2. QED
      BY <1>2, <1>3, <2>1
  <1>5. len = all \/ text[len + 1] = NUL
    BY <1>2
  <1>6. QED
    BY <1>3, <1>4, <1>5 DEF Copied

Fixed == <<client, data, length, sink, stack>>

LEMMA CopyKeeps ==
  ASSUME FInv, Copy, UNCHANGED Fixed
  PROVE  FInv'
  <1> DEFINE len == Copied(data, length)
  <1>1. Memory /\ Place
    BY DEF FInv
  <1>2. len \in 0 .. Len(data) /\ format' = [format EXCEPT ![len] = NUL]
    BY <1>1, CopiedIs DEF Memory, Copy
  <1> HIDE DEF len
  <1>3. PICK top \in Nat : /\ format \in [0 .. top -> Characters]
                           /\ Len(data) <= top /\ top < 2 * Len(stack)
    BY <1>1 DEF Memory
  <1>4. /\ format' \in [0 .. top -> Characters]
        /\ format'[Len(data)] = NUL
    <2>1. Len(data) \in 0 .. top
      BY <1>1, <1>3, LenProperties DEF Memory
    <2>2. QED
      BY <1>1, <1>2, <1>3, <2>1, StringsAssumption DEF Memory
  <1>5. Memory'
    BY <1>1, <1>3, <1>4 DEF Memory, Fixed
  <1>6. buf' = 0 /\ esp' = esp /\ mode' = "text" /\ client' = "program"
    BY <1>1 DEF Copy, Place, Fixed
  <1>7. Place'
    BY <1>1, <1>6 DEF Place, Copy
  <1>8. strlen(format') \in Nat
    <2>1. Len(data) \in 0 .. top /\ DOMAIN format' = 0 .. top
      BY <1>1, <1>3, <1>4, LenProperties DEF Memory
    <2>2. QED
      BY <1>4, <2>1, Terminator
  <1>9. StaysInFormat'
    BY <1>6, <1>8 DEF StaysInFormat
  <1>10. QED
    BY <1>5, <1>7, <1>9 DEF FInv

LEMMA TurnKeeps ==
  ASSUME FInv, Turn, UNCHANGED Fixed
  PROVE  FInv'
  <1> DEFINE end == strlen(format)
  <1>1. Memory /\ Place /\ StaysInFormat
    BY DEF FInv
  <1>2. format' = format /\ buf' = buf + 1 /\ buf \in Nat
    BY <1>1 DEF Turn, Place
  <1>3. Memory'
    BY <1>1, <1>2 DEF Memory, Fixed
  <1>4. end \in Nat /\ format[end] = NUL /\ \A j \in 0 .. end - 1 : format[j] # NUL
    BY <1>1, FormatEnds
  <1>5. Char # NUL => format[buf] = Char
    BY DEF Char
  <1>6. Place'
    BY <1>1, <1>2, <1>5
       DEF Turn, Place, Percent, Literal, Hash, LiteralPercent, Convert, Ignored, NUL
  <1>7. buf + 1 > end => end > 0 /\ format[end - 1] \in {"%", "#"}
    <2>1. CASE buf > end
      BY <1>1, <2>1 DEF StaysInFormat
    <2>2. CASE buf = end
      <3>1. Char = NUL
        BY <1>4, <2>2 DEF Char
      <3>2. mode = "conversion"
        BY <3>1 DEF Turn, Percent, Literal, Hash, LiteralPercent, Convert, Ignored, NUL
      <3>3. QED
        BY <1>1, <2>2, <3>2 DEF Place
    <2>3. CASE buf < end
      BY <1>2, <1>4, <2>3
    <2>4. QED
      BY <1>2, <1>4, <2>1, <2>2, <2>3
  <1>8. mode' # "returned"
    BY DEF Turn, Percent, Literal, Hash, LiteralPercent, Convert, Ignored
  <1>9. StaysInFormat'
    BY <1>2, <1>7, <1>8 DEF StaysInFormat
  <1>10. QED
    BY <1>3, <1>6, <1>9 DEF FInv

LEMMA ReturnKeeps ==
  ASSUME FInv, Return, UNCHANGED Fixed
  PROVE  FInv'
  <1> DEFINE end == strlen(format)
  <1>1. Memory /\ Place /\ StaysInFormat
    BY DEF FInv
  <1>2. /\ format' = format /\ buf' = buf /\ esp' = esp /\ buf \in Nat
        /\ mode = "text" /\ mode' = "returned"
    BY <1>1 DEF Return, Place
  <1>3. Memory' /\ Place'
    BY <1>1, <1>2 DEF Memory, Place, Fixed
  <1>4. /\ end \in Nat /\ end \in DOMAIN format
        /\ format[end] = NUL /\ \A j \in 0 .. end - 1 : format[j] # NUL
    BY <1>1, FormatEnds
  <1>5. buf <= end => buf = end
    <2>1. buf <= end => buf \in DOMAIN format
      BY <1>1, <1>2, <1>4 DEF Memory
    <2>2. Char = NUL
      BY DEF Return
    <2>3. QED
      BY <1>2, <1>4, <2>1, <2>2 DEF Char
  <1>6. client' = "kernel" => result' = buf
    BY DEF Return, Fixed
  <1>7. StaysInFormat'
    BY <1>1, <1>2, <1>5, <1>6 DEF StaysInFormat
  <1>8. QED
    BY <1>3, <1>7 DEF FInv

LEMMA PrintStepKeeps == FInv /\ [PrintNext]_printVars => FInv'
  <1> SUFFICES ASSUME FInv, [PrintNext]_printVars PROVE FInv'
    OBVIOUS
  <1>1. CASE PrintNext
    BY <1>1, CopyKeeps, TurnKeeps, ReturnKeeps DEF PrintNext, printf, multi_printf, Fixed
  <1>2. CASE UNCHANGED printVars
    BY <1>2 DEF printVars, FInv, Memory, Place, StaysInFormat
  <1>3. QED
    BY <1>1, <1>2

\* printf reads no further than the terminator of its format and returns its
\* length, unless the format ends in an open conversion.
THEOREM FormatIsLeftOnlyAtPercent == PrintSpec => []StaysInFormat
  <1>1. FInv => StaysInFormat
    BY DEF FInv
  <1>2. QED
    BY <1>1, PrintInitHolds, PrintStepKeeps, PTL DEF PrintSpec

-----------------------------------------------------------------------------
(* Printf: what a program writes *)

ToCopy == Copied(data, length)

\* The buffer of term_write holds the bytes up to the terminator, and without
\* a % among them the loop has put out those it went by.
Verbatim ==
  client = "program" =>
    /\ mode = "copying" => /\ out = <<>>
                           /\ \A k \in 0 .. length - 1 : format[k] = data[k + 1]
    /\ mode # "copying" =>
         /\ result = ToCopy
         /\ \A k \in 0 .. ToCopy - 1 : format[k] = data[k + 1]
         /\ format[ToCopy] = NUL
         /\ (\A j \in 1 .. ToCopy : data[j] # "%") =>
              /\ mode \in {"text", "returned"}
              /\ buf \in 0 .. ToCopy
              /\ out = SubSeq(data, 1, buf)
              /\ mode = "returned" => buf = ToCopy

LEMMA ToCopyIs ==
  ASSUME Memory
  PROVE  /\ ToCopy \in 0 .. length /\ ToCopy \in 0 .. Len(data)
         /\ \A j \in 1 .. ToCopy : data[j] # NUL
         /\ ToCopy < length => data[ToCopy + 1] = NUL
         /\ length \in Nat
  BY CopiedIs, LenProperties DEF Memory, ToCopy

LEMMA VerbatimInit == PrintInit => Verbatim
  <1> SUFFICES ASSUME PrintInit PROVE Verbatim
    OBVIOUS
  <1>1. PICK behind \in Behind : format = Buffer(data, behind)
    BY DEF PrintInit
  <1>2. data \in Seq(Characters) /\ behind \in Seq(Characters)
    BY PrintfAssumption DEF PrintInit
  <1>3. \A k \in 0 .. length - 1 : format[k] = data[k + 1]
    BY <1>1, <1>2, BufferIs DEF PrintInit
  <1>4. QED
    BY <1>3 DEF Verbatim, PrintInit

LEMMA VerbatimCopy ==
  ASSUME FInv, Verbatim, Copy, UNCHANGED Fixed
  PROVE  Verbatim'
  <1>1. Memory /\ Place /\ mode = "copying" /\ client = "program"
    BY DEF FInv, Copy, Place
  <1>2. /\ ToCopy \in 0 .. length /\ ToCopy \in 0 .. Len(data) /\ length \in Nat
        /\ \A j \in 1 .. ToCopy : data[j] # NUL
    BY <1>1, ToCopyIs
  <1>3. ToCopy' = ToCopy /\ result' = ToCopy /\ format' = [format EXCEPT ![ToCopy] = NUL]
    BY DEF Copy, ToCopy, Fixed
  <1>4. PICK top \in Nat : format \in [0 .. top -> Characters] /\ Len(data) <= top
    BY <1>1 DEF Memory
  <1>5. \A k \in 0 .. length - 1 : format[k] = data[k + 1]
    BY <1>1 DEF Verbatim
  <1>6. \A k \in 0 .. ToCopy - 1 : format'[k] = data'[k + 1]
    <2> SUFFICES ASSUME NEW k \in 0 .. ToCopy - 1
                 PROVE  format'[k] = data'[k + 1]
      OBVIOUS
    <2>1. length = Len(data) /\ ToCopy \in Nat
      BY <1>1, <1>2 DEF Memory
    <2>2. k \in 0 .. length - 1 /\ k \in 0 .. top /\ k # ToCopy
      BY <1>2, <1>4, <2>1
    <2>3. format'[k] = format[k]
      BY <1>3, <1>4, <2>2
    <2>4. QED
      BY <1>5, <2>2, <2>3 DEF Fixed
  <1>7. format'[ToCopy] = NUL
    BY <1>1, <1>2, <1>3, <1>4
  <1>8. buf' = 0 /\ out' = <<>> /\ mode' = "text"
    BY <1>1 DEF Copy, Place, Verbatim
  <1>9. out' = SubSeq(data', 1, buf')
    BY <1>8, SubSeqEmpty
  <1>10. QED
    BY <1>2, <1>3, <1>6, <1>7, <1>8, <1>9 DEF Verbatim

LEMMA VerbatimTurn ==
  ASSUME FInv, Verbatim, Turn, UNCHANGED Fixed
  PROVE  Verbatim'
  <1>1. Memory /\ Place /\ mode \in {"text", "conversion"} /\ mode' \in {"text", "conversion"}
    BY DEF FInv, Turn, Percent, Literal, Hash, LiteralPercent, Convert, Ignored
  <1>2. ToCopy' = ToCopy /\ result' = result /\ format' = format /\ buf' = buf + 1 /\ data' = data
    BY DEF Turn, ToCopy, Fixed
  <1>3. ToCopy \in 0 .. Len(data) /\ data \in Seq(Characters) /\ Len(data) \in Nat
    BY <1>1, ToCopyIs, LenProperties DEF Memory
  <1>4. ASSUME client = "program", \A j \in 1 .. ToCopy : data[j] # "%"
        PROVE  mode' = "text" /\ buf' \in 0 .. ToCopy /\ out' = SubSeq(data, 1, buf')
    <2>1. /\ mode = "text" /\ buf \in 0 .. ToCopy /\ out = SubSeq(data, 1, buf)
          /\ \A k \in 0 .. ToCopy - 1 : format[k] = data[k + 1]
          /\ format[ToCopy] = NUL
      BY <1>1, <1>4 DEF Verbatim
    <2>2. Char # NUL => format[buf] = Char
      BY DEF Char
    <2>3. Char # NUL
      BY <2>1 DEF Turn, Percent, Literal, Hash, LiteralPercent, Convert, Ignored, NUL
    <2>4. buf < ToCopy /\ Char = data[buf + 1] /\ Char # "%"
      BY <1>3, <1>4, <2>1, <2>2, <2>3
    <2>5. out' = Append(out, data[buf + 1]) /\ mode' = "text"
      BY <2>1, <2>4 DEF Turn, Percent, Literal, Hash, LiteralPercent, Convert, Ignored
    <2>6. SubSeq(data, 1, buf + 1) = Append(SubSeq(data, 1, buf), data[buf + 1])
      <3>1. 1 \in 1 .. Len(data) + 1 /\ buf + 1 \in 1 .. Len(data) /\ buf \in Nat
        BY <1>3, <2>1, <2>4
      <3>2. QED
        BY <1>3, <3>1, SubSeqRecursiveSecond
    <2>7. QED
      BY <1>2, <1>3, <2>1, <2>4, <2>5, <2>6
  <1>5. QED
    BY <1>1, <1>2, <1>4 DEF Verbatim, Fixed

LEMMA VerbatimReturn ==
  ASSUME FInv, Verbatim, Return, UNCHANGED Fixed
  PROVE  Verbatim'
  <1>1. Memory /\ Place /\ mode = "text" /\ mode' = "returned"
    BY DEF FInv, Return
  <1>2. ToCopy' = ToCopy /\ format' = format /\ buf' = buf /\ out' = out /\ data' = data
    BY DEF Return, ToCopy, Fixed
  <1>3. client = "program" => client' = "program" /\ result' = result
    BY DEF Return, Fixed
  <1>4. /\ ToCopy \in 0 .. Len(data) /\ \A j \in 1 .. ToCopy : data[j] # NUL
        /\ Len(data) \in Nat
    BY <1>1, ToCopyIs, LenProperties DEF Memory
  <1>5. ASSUME client = "program", \A j \in 1 .. ToCopy : data[j] # "%"
        PROVE  buf = ToCopy
    <2>1. /\ buf \in 0 .. ToCopy /\ \A k \in 0 .. ToCopy - 1 : format[k] = data[k + 1]
      BY <1>1, <1>5 DEF Verbatim
    <2>2. buf \in DOMAIN format
      BY <1>1, <1>4, <2>1 DEF Memory
    <2>3. format[buf] = NUL
      BY <2>2 DEF Return, Char
    <2>4. QED
      BY <1>4, <2>1, <2>3
  <1>6. QED
    BY <1>1, <1>2, <1>3, <1>5 DEF Verbatim, Fixed

LEMMA VerbatimKeeps == FInv /\ Verbatim /\ [PrintNext]_printVars => Verbatim'
  <1> SUFFICES ASSUME FInv, Verbatim, [PrintNext]_printVars PROVE Verbatim'
    OBVIOUS
  <1>1. CASE PrintNext
    BY <1>1, VerbatimCopy, VerbatimTurn, VerbatimReturn
       DEF PrintNext, printf, multi_printf, Fixed
  <1>2. CASE UNCHANGED printVars
    BY <1>2 DEF printVars, Verbatim, ToCopy
  <1>3. QED
    BY <1>1, <1>2

LEMMA VerbatimAtEnd == FInv /\ Verbatim => PlainTextVerbatim
  <1> SUFFICES ASSUME FInv, Verbatim, mode = "returned", client = "program",
                      ~Contains(TextOf(format), "%")
               PROVE  /\ out = SubSeq(data, 1, result)
                      /\ \A k \in 1 .. result : data[k] # NUL
                      /\ result < length => data[result + 1] = NUL
    BY DEF PlainTextVerbatim
  <1>1. Memory
    BY DEF FInv
  <1>2. /\ ToCopy \in 0 .. length /\ length = Len(data) /\ length \in Nat
        /\ \A j \in 1 .. ToCopy : data[j] # NUL
        /\ ToCopy < length => data[ToCopy + 1] = NUL
    BY <1>1, ToCopyIs DEF Memory
  <1>3. /\ result = ToCopy
        /\ \A k \in 0 .. ToCopy - 1 : format[k] = data[k + 1]
        /\ format[ToCopy] = NUL
    BY DEF Verbatim
  <1>4. strlen(format) = ToCopy
    <2>1. PICK top \in Nat : format \in [0 .. top -> Characters] /\ Len(data) <= top
      BY <1>1 DEF Memory
    <2>2. ToCopy \in 0 .. top /\ DOMAIN format = 0 .. top
      BY <1>2, <2>1
    <2>3. \A j \in 0 .. ToCopy - 1 : format[j] # NUL
      BY <1>2, <1>3
    <2>4. QED
      BY <1>3, <2>2, <2>3, TerminatorIs
  <1>5. \A j \in 1 .. ToCopy : data[j] # "%"
    <2>1. /\ TextOf(format) = [j \in 1 .. ToCopy |-> format[j - 1]]
          /\ ToCopy \in Nat
      BY <1>2, <1>4 DEF TextOf
    <2>2. Len(TextOf(format)) = ToCopy
      BY <2>1
    <2>3. \A j \in 1 .. ToCopy : TextOf(format)[j] = data[j]
      BY <1>2, <1>3, <2>1
    <2>4. QED
      BY <2>2, <2>3 DEF Contains
  <1>6. buf = ToCopy /\ out = SubSeq(data, 1, buf)
    BY <1>5 DEF Verbatim
  <1>7. QED
    BY <1>2, <1>3, <1>6

\* What a program writes without a % comes out unchanged, up to a terminator,
\* and term_write returns how much that is.
THEOREM PlainTextComesOut == PrintSpec => []PlainTextVerbatim
  <1>1. QED
    BY PrintInitHolds, PrintStepKeeps, VerbatimInit, VerbatimKeeps, VerbatimAtEnd, PTL
       DEF PrintSpec

-----------------------------------------------------------------------------
(* Digits and numbers *)

LEMMA Quotient ==
  ASSUME NEW radix \in {10, 16}, NEW v \in Nat
  PROVE  /\ v \div radix \in Nat /\ v % radix \in 0 .. radix - 1
         /\ v = radix * (v \div radix) + (v % radix)
         /\ v > 0 => v \div radix < v
         /\ v >= radix => v \div radix > 0
         /\ v < radix => v \div radix = 0 /\ v % radix = v
  <1>1. CASE radix = 10
    BY <1>1
  <1>2. CASE radix = 16
    BY <1>2
  <1>3. QED
    BY <1>1, <1>2

LEMMA QuotientGrows ==
  ASSUME NEW radix \in {10, 16}, NEW v \in Nat, NEW w \in Nat, v <= w
  PROVE  v \div radix <= w \div radix
  <1>1. CASE radix = 10
    BY <1>1
  <1>2. CASE radix = 16
    BY <1>2
  <1>3. QED
    BY <1>1, <1>2

\* The function in Emitted, on the numbers up to n.
EmitsUpTo(f, n, radix) ==
  f = [v \in 0 .. n |->
         IF v = 0 THEN <<>> ELSE <<Lookup[(v % radix) + 1]>> \o f[v \div radix]]

LEMMA EmitsSame ==
  ASSUME NEW radix \in {10, 16}, NEW n \in Nat, NEW m \in Nat, NEW f, NEW g,
         EmitsUpTo(f, n, radix), EmitsUpTo(g, m, radix),
         NEW v \in Nat, v <= n, v <= m
  PROVE  f[v] = g[v]
  <1> DEFINE Bad == {u \in Nat : u <= n /\ u <= m /\ f[u] # g[u]}
  <1>1. SUFFICES ASSUME Bad # {} PROVE FALSE
    OBVIOUS
  <1>2. PICK u \in Bad : \A t \in Bad : u <= t
    <2>1. Bad \subseteq Nat
      OBVIOUS
    <2> HIDE DEF Bad
    <2>2. QED
      BY <1>1, <2>1, LeastNumber
  <1>3. u \in Nat /\ u \in 0 .. n /\ u \in 0 .. m /\ f[u] # g[u]
    BY <1>2
  <1>4. /\ f[u] = IF u = 0 THEN <<>> ELSE <<Lookup[(u % radix) + 1]>> \o f[u \div radix]
        /\ g[u] = IF u = 0 THEN <<>> ELSE <<Lookup[(u % radix) + 1]>> \o g[u \div radix]
    BY <1>3, Zenon DEF EmitsUpTo
  <1>5. u # 0 /\ f[u \div radix] # g[u \div radix]
    BY <1>3, <1>4, Zenon
  <1>6. u \div radix \in Nat /\ u \div radix < u
    BY <1>3, <1>5, Quotient
  <1>7. u \div radix \in Bad
    BY <1>3, <1>5, <1>6
  <1>8. QED
    BY <1>2, <1>3, <1>6, <1>7

LEMMA EmitsExist ==
  ASSUME NEW radix \in {10, 16}, NEW n \in Nat
  PROVE  \E f : EmitsUpTo(f, n, radix)
  <1> DEFINE S == {m \in Nat : \E f : EmitsUpTo(f, m, radix)}
  <1>1. 0 \in S
    <2> DEFINE f == [v \in 0 .. 0 |-> <<>>]
    <2>1. EmitsUpTo(f, 0, radix)
      BY DEF EmitsUpTo
    <2>2. QED
      BY <2>1
  <1>2. ASSUME NEW m \in Nat, m \in S PROVE m + 1 \in S
    <2>1. PICK f : EmitsUpTo(f, m, radix)
      BY <1>2
    <2> DEFINE last_one == <<Lookup[((m + 1) % radix) + 1]>> \o f[(m + 1) \div radix]
               g == [v \in 0 .. m + 1 |-> IF v = m + 1 THEN last_one ELSE f[v]]
    <2>2. \A v \in 0 .. m : g[v] = f[v]
      OBVIOUS
    <2>3. \A v \in 1 .. m + 1 : v \div radix \in 0 .. m
      BY Quotient
    <2>4. ASSUME NEW v \in 0 .. m + 1
          PROVE  g[v] = IF v = 0 THEN <<>>
                        ELSE <<Lookup[(v % radix) + 1]>> \o g[v \div radix]
      <3>1. CASE v = m + 1
        <4>1. g[v] = last_one /\ v # 0 /\ v \in 1 .. m + 1
          BY <3>1
        <4>2. g[v \div radix] = f[v \div radix]
          BY <2>2, <2>3, <4>1
        <4> HIDE DEF g
        <4>3. QED
          BY <3>1, <4>1, <4>2, Zenon
      <3>2. CASE v # m + 1
        <4>1. v \in 0 .. m
          BY <3>2
        <4>2. f[v] = IF v = 0 THEN <<>> ELSE <<Lookup[(v % radix) + 1]>> \o f[v \div radix]
          BY <2>1, <4>1, Zenon DEF EmitsUpTo
        <4>3. g[v] = f[v]
          BY <2>2, <4>1
        <4>4. v # 0 => g[v \div radix] = f[v \div radix]
          <5>1. v # 0 => v \in 1 .. m + 1
            BY <4>1
          <5>2. v # 0 => v \div radix \in 0 .. m
            BY <2>3, <5>1
          <5> HIDE DEF g
          <5>3. QED
            BY <2>2, <5>2, Zenon
        <4> HIDE DEF g
        <4>5. QED
          BY <4>2, <4>3, <4>4, Zenon
      <3>3. QED
        BY <3>1, <3>2
    <2>5. DOMAIN g = 0 .. m + 1
      OBVIOUS
    <2>6. g = [v \in DOMAIN g |-> g[v]]
      OBVIOUS
    <2> HIDE DEF g
    <2>7. EmitsUpTo(g, m + 1, radix)
      BY <2>4, <2>5, <2>6, Zenon DEF EmitsUpTo
    <2>8. QED
      BY <2>7
  <1> HIDE DEF S
  <1>3. Nat \subseteq S
    BY <1>1, <1>2, Induction
  <1>4. QED
    BY <1>3 DEF S

\* What the loop of itoa does to a number, once round.
LEMMA EmittedIs ==
  ASSUME NEW radix \in {10, 16}, NEW value \in Nat
  PROVE  Emitted(value, radix) =
           IF value = 0 THEN <<>>
           ELSE <<Lookup[(value % radix) + 1]>> \o Emitted(value \div radix, radix)
  <1> DEFINE the(n) == CHOOSE f : EmitsUpTo(f, n, radix)
             next == value \div radix
  <1>1. \A n \in Nat : EmitsUpTo(the(n), n, radix)
    BY EmitsExist
  <1>2. \A n \in Nat : Emitted(n, radix) = the(n)[n]
    BY Zenon DEF Emitted, EmitsUpTo
  <1>3. next \in Nat /\ next <= value
    BY Quotient
  <1> HIDE DEF the
  <1>4. the(value)[value] = IF value = 0 THEN <<>>
                            ELSE <<Lookup[(value % radix) + 1]>> \o the(value)[next]
    <2>1. value \in 0 .. value
      OBVIOUS
    <2>2. QED
      BY <1>1, <2>1, Zenon DEF EmitsUpTo
  <1> HIDE DEF next
  <1>5. the(value)[next] = the(next)[next]
    BY <1>1, <1>3, EmitsSame
  <1>6. Emitted(value, radix) =
          IF value = 0 THEN <<>>
          ELSE <<Lookup[(value % radix) + 1]>> \o Emitted(next, radix)
    BY <1>2, <1>3, <1>4, <1>5, Zenon
  <1>7. QED
    BY <1>6 DEF next

DigitSet == {Lookup[k + 1] : k \in 0 .. 15}

\* Every digit has one value, and a minus sign is none.
LEMMA DigitsAre ==
  /\ \A k \in 0 .. 15 : Lookup[k + 1] \in DigitSet /\ Digit(Lookup[k + 1]) = k
  /\ \A d \in DigitSet : d # "-"
  <1>1. \A k, j \in 0 .. 15 : Lookup[k + 1] = Lookup[j + 1] => k = j
    BY DEF Lookup
  <1>2. \A k \in 0 .. 15 : Lookup[k + 1] # "-"
    BY DEF Lookup
  <1>3. \A k \in 0 .. 15 : Digit(Lookup[k + 1]) = k
    BY <1>1 DEF Digit
  <1>4. QED
    BY <1>2, <1>3 DEF DigitSet

LEMMA Reversed ==
  ASSUME NEW s \in Seq(DigitSet), NEW d \in DigitSet
  PROVE  /\ <<d>> \o s \in Seq(DigitSet)
         /\ strrev(<<d>> \o s) = Append(strrev(s), d)
         /\ strrev(s) \in Seq(DigitSet) /\ Len(strrev(s)) = Len(s)
  <1> DEFINE all == <<d>> \o s
             n == Len(s)
  <1>1. n \in Nat /\ <<d>> \in Seq(DigitSet) /\ Len(<<d>>) = 1 /\ <<d>>[1] = d
    BY LenProperties
  <1>2. all \in Seq(DigitSet) /\ Len(all) = n + 1 /\ all[1] = d
        /\ \A k \in 2 .. n + 1 : all[k] = s[k - 1]
    <2>1. /\ all \in Seq(DigitSet) /\ Len(all) = Len(<<d>>) + Len(s)
          /\ \A k \in 1 .. Len(<<d>>) + Len(s) :
               all[k] = IF k <= Len(<<d>>) THEN <<d>>[k] ELSE s[k - Len(<<d>>)]
      BY <1>1, ConcatProperties, Zenon
    <2>2. QED
      BY <1>1, <2>1
  <1> HIDE DEF all
  <1>3. strrev(s) = [k \in 1 .. n |-> s[n + 1 - k]]
    BY DEF strrev
  <1>4. strrev(s) \in [1 .. n -> DigitSet]
    <2>1. \A k \in 1 .. n : s[n + 1 - k] \in DigitSet
      <3>1. \A k \in 1 .. n : n + 1 - k \in 1 .. Len(s)
        BY <1>1
      <3>2. QED
        BY <3>1, ElementOfSeq
    <2>2. QED
      BY <1>3, <2>1
  <1>5. strrev(s) \in Seq(DigitSet) /\ Len(strrev(s)) = n
    BY <1>1, <1>4
  <1>6. strrev(all) = [k \in 1 .. n + 1 |-> all[n + 2 - k]]
    <2>1. \A k \in 1 .. n + 1 : Len(all) + 1 - k = n + 2 - k
      BY <1>1, <1>2
    <2>2. QED
      BY <1>2, <2>1 DEF strrev
  <1>7. Append(strrev(s), d) =
          [k \in 1 .. n + 1 |-> IF k = n + 1 THEN d ELSE strrev(s)[k]]
    <2> DEFINE r == strrev(s)
    <2> HIDE DEF r
    <2>1. r \in Seq(DigitSet) /\ Len(r) = n
      BY <1>5 DEF r
    <2>2. Append(r, d) = [k \in 1 .. n + 1 |-> IF k = n + 1 THEN d ELSE r[k]]
      <3>1. /\ Append(r, d) \in Seq(DigitSet) /\ Len(Append(r, d)) = n + 1
            /\ \A k \in 1 .. n : Append(r, d)[k] = r[k]
            /\ Append(r, d)[n + 1] = d
        BY <2>1, AppendProperties
      <3>2. DOMAIN Append(r, d) = 1 .. n + 1
            /\ Append(r, d) = [k \in DOMAIN Append(r, d) |-> Append(r, d)[k]]
        BY <3>1, LenProperties
      <3>3. \A k \in 1 .. n + 1 : Append(r, d)[k] = IF k = n + 1 THEN d ELSE r[k]
        BY <1>1, <3>1
      <3>4. QED
        BY <3>2, <3>3
    <2>3. QED
      BY <2>2 DEF r
  <1>8. \A k \in 1 .. n + 1 :
          all[n + 2 - k] = IF k = n + 1 THEN d ELSE strrev(s)[k]
    <2> SUFFICES ASSUME NEW k \in 1 .. n + 1
                 PROVE  all[n + 2 - k] = IF k = n + 1 THEN d ELSE strrev(s)[k]
      OBVIOUS
    <2>1. CASE k = n + 1
      <3>1. n + 2 - k = 1
        BY <1>1, <2>1
      <3>2. QED
        BY <1>2, <2>1, <3>1
    <2>2. CASE k # n + 1
      <3>1. /\ n + 2 - k \in 2 .. n + 1 /\ (n + 2 - k) - 1 = n + 1 - k /\ k \in 1 .. n
        BY <1>1, <2>2
      <3>2. all[n + 2 - k] = s[n + 1 - k]
        BY <1>2, <3>1
      <3>3. strrev(s)[k] = s[n + 1 - k]
        BY <1>3, <3>1
      <3>4. QED
        BY <2>2, <3>2, <3>3
    <2>3. QED
      BY <2>1, <2>2
  <1>9. strrev(all) = Append(strrev(s), d)
    BY <1>6, <1>7, <1>8
  <1>10. QED
    BY <1>2, <1>5, <1>9 DEF all

LEMMA EmittedAreDigits ==
  ASSUME NEW radix \in {10, 16}, NEW value \in Nat
  PROVE  Emitted(value, radix) \in Seq(DigitSet)
  <1> DEFINE Bad == {v \in Nat : Emitted(v, radix) \notin Seq(DigitSet)}
  <1>1. SUFFICES ASSUME Bad # {} PROVE FALSE
    OBVIOUS
  <1>2. PICK v \in Bad : \A u \in Bad : v <= u
    <2>1. Bad \subseteq Nat
      OBVIOUS
    <2> HIDE DEF Bad
    <2>2. QED
      BY <1>1, <2>1, LeastNumber
  <1>3. v \in Nat /\ Emitted(v, radix) \notin Seq(DigitSet)
    BY <1>2
  <1>4. v # 0
    <2>1. <<>> \in Seq(DigitSet)
      OBVIOUS
    <2>2. QED
      BY <1>3, <2>1, EmittedIs, Zenon
  <1> DEFINE next == v \div radix
             d == Lookup[(v % radix) + 1]
  <1>5. /\ next \in Nat /\ next < v /\ v % radix \in 0 .. 15
    BY <1>3, <1>4, Quotient
  <1>6. Emitted(v, radix) = <<d>> \o Emitted(next, radix)
    BY <1>3, <1>4, EmittedIs, Zenon
  <1>7. d \in DigitSet
    BY <1>5, DigitsAre
  <1> HIDE DEF next, d
  <1>8. Emitted(next, radix) \in Seq(DigitSet)
    <2>1. next \notin Bad
      BY <1>2, <1>3, <1>5
    <2>2. QED
      BY <1>5, <2>1
  <1>9. QED
    BY <1>3, <1>6, <1>7, <1>8, Reversed

\* itoa writes the digits of the quotient and then the last one.
LEMMA ItoaIs ==
  ASSUME NEW radix \in {10, 16}, NEW value \in Nat
  PROVE  /\ itoa(value, radix) \in Seq(DigitSet)
         /\ Lookup[(value % radix) + 1] \in DigitSet
         /\ itoa(value, radix) =
              IF value < radix THEN <<Lookup[(value % radix) + 1]>>
              ELSE Append(itoa(value \div radix, radix), Lookup[(value % radix) + 1])
  <1> DEFINE next == value \div radix
             d == Lookup[(value % radix) + 1]
  <1>1. /\ next \in Nat /\ value % radix \in 0 .. 15
        /\ value >= radix => next # 0
        /\ value < radix => next = 0 /\ value % radix = value
        /\ 0 < radix /\ radix \in Nat
    BY Quotient
  <1>2. d \in DigitSet
    BY <1>1, DigitsAre
  <1>3. Emitted(next, radix) \in Seq(DigitSet) /\ Emitted(0, radix) = <<>>
    BY <1>1, EmittedAreDigits, EmittedIs
  <1>4. value # 0 => Emitted(value, radix) = <<d>> \o Emitted(next, radix)
    BY EmittedIs, Zenon
  <1>5. value = 0 => d = "0"
    <2>1. value = 0 => value % radix = 0
      BY <1>1
    <2>2. Lookup[1] = "0"
      BY DEF Lookup
    <2>3. value = 0 => (value % radix) + 1 = 1
      BY <2>1
    <2>4. QED
      BY <2>2, <2>3
  <1> HIDE DEF next, d
  <1>6. CASE value = 0
    <2>1. itoa(value, radix) = <<d>> /\ value < radix
      BY <1>1, <1>5, <1>6 DEF itoa
    <2>2. <<d>> \in Seq(DigitSet)
      BY <1>2
    <2>3. QED
      BY <1>2, <2>1, <2>2 DEF d
  <1>7. CASE value # 0
    <2>1. itoa(value, radix) = Append(strrev(Emitted(next, radix)), d)
      BY <1>2, <1>3, <1>4, <1>7, Reversed, Zenon DEF itoa
    <2>2. strrev(Emitted(next, radix)) \in Seq(DigitSet)
      BY <1>2, <1>3, Reversed
    <2>3. itoa(value, radix) \in Seq(DigitSet)
      BY <1>2, <2>1, <2>2, AppendProperties
    <2>4. CASE value < radix
      <3>1. Emitted(next, radix) = <<>>
        BY <1>1, <1>3, <2>4
      <3>2. strrev(<<>>) = <<>> /\ Append(<<>>, d) = <<d>>
        BY DEF strrev
      <3>3. QED
        BY <1>2, <2>1, <2>3, <2>4, <3>1, <3>2 DEF d
    <2>5. CASE ~(value < radix)
      <3>1. next # 0
        BY <1>1, <2>5
      <3>2. itoa(next, radix) = strrev(Emitted(next, radix))
        BY <3>1, Zenon DEF itoa
      <3>3. QED
        BY <1>2, <2>1, <2>3, <2>5, <3>2 DEF d, next
    <2>6. QED
      BY <2>4, <2>5
  <1>8. QED
    BY <1>6, <1>7

\* A larger number has no fewer digits.
LEMMA ItoaGrows ==
  ASSUME NEW radix \in {10, 16}, NEW v \in Nat, NEW w \in Nat, v <= w
  PROVE  Len(itoa(v, radix)) <= Len(itoa(w, radix))
  <1> DEFINE len(u) == Len(itoa(u, radix))
             Bad == {u \in Nat : \E t \in Nat : t <= u /\ ~(len(t) <= len(u))}
  <1>1. SUFFICES ASSUME Bad # {} PROVE FALSE
    OBVIOUS
  <1>2. PICK u \in Bad : \A t \in Bad : u <= t
    <2>1. Bad \subseteq Nat
      OBVIOUS
    <2> HIDE DEF Bad
    <2>2. QED
      BY <1>1, <2>1, LeastNumber
  <1>3. PICK t \in Nat : t <= u /\ ~(len(t) <= len(u))
    BY <1>2
  <1>4. u \in Nat
    BY <1>2
  <1>5. ASSUME NEW x \in Nat
        PROVE  /\ len(x) \in Nat /\ len(x) >= 1
               /\ x < radix => len(x) = 1
               /\ x >= radix => len(x) = len(x \div radix) + 1
    <2> DEFINE d == Lookup[(x % radix) + 1]
               next == x \div radix
    <2>1. next \in Nat
      BY Quotient
    <2>2. /\ itoa(x, radix) \in Seq(DigitSet) /\ d \in DigitSet
          /\ itoa(x, radix) = IF x < radix THEN <<d>> ELSE Append(itoa(next, radix), d)
      BY ItoaIs
    <2>3. itoa(next, radix) \in Seq(DigitSet)
      BY <2>1, ItoaIs
    <2> HIDE DEF d, next
    <2>4. x < radix => len(x) = 1
      BY <2>2
    <2>5. x >= radix => len(x) = len(next) + 1
      <3>1. Len(Append(itoa(next, radix), d)) = Len(itoa(next, radix)) + 1
        BY <2>2, <2>3, AppendProperties
      <3>2. x >= radix => ~(x < radix)
        BY Quotient
      <3>3. QED
        BY <2>2, <3>1, <3>2
    <2>6. len(x) \in Nat /\ len(next) \in Nat
      BY <2>2, <2>3, LenProperties
    <2> HIDE DEF len
    <2>7. x < radix \/ x >= radix
      OBVIOUS
    <2>8. QED
      BY <2>4, <2>5, <2>6, <2>7 DEF next
  <1> HIDE DEF len
  <1>6. t >= radix /\ u >= radix
    BY <1>3, <1>4, <1>5
  <1> DEFINE t1 == t \div radix
             u1 == u \div radix
  <1>7. t1 \in Nat /\ u1 \in Nat /\ t1 <= u1 /\ u1 < u
    <2>1. u > 0
      BY <1>4, <1>6
    <2>2. QED
      BY <1>3, <1>4, <2>1, Quotient, QuotientGrows
  <1>8. len(t) = len(t1) + 1 /\ len(u) = len(u1) + 1 /\ len(t1) \in Nat /\ len(u1) \in Nat
    <2>1. t1 \in Nat /\ u1 \in Nat
      BY <1>7
    <2>2. len(t) = len(t1) + 1 /\ len(u) = len(u1) + 1
      BY <1>3, <1>4, <1>5, <1>6
    <2> HIDE DEF t1, u1
    <2>3. QED
      BY <1>5, <2>1, <2>2
  <1> HIDE DEF t1, u1
  <1>9. u1 \notin Bad
    BY <1>2, <1>7
  <1>10. len(t1) <= len(u1)
    BY <1>7, <1>9
  <1>11. QED
    BY <1>3, <1>8, <1>10

\* The function in Denoted, on the first n places.
SumsUpTo(f, digits, n, radix) ==
  f = [k \in 0 .. n |-> IF k = 0 THEN 0 ELSE radix * f[k - 1] + Digit(digits[k])]

\* The second text of digits stands behind the first z places of the first.
StandsBehind(s, t, z, n, m) ==
  \A k \in 1 .. m : z + k <= n => s[z + k] = t[k]

IsSum(place, z, j) == place = z + j

\* Digits that agree behind the first z places, which denote zero, denote the
\* same.
LEMMA SumsSame ==
  ASSUME NEW radix, NEW n \in Nat, NEW m \in Nat, NEW z \in Nat, NEW f, NEW g,
         NEW s, NEW t, SumsUpTo(f, s, n, radix), SumsUpTo(g, t, m, radix),
         z <= n, f[z] = 0,
         StandsBehind(s, t, z, n, m),
         NEW j \in Nat, NEW place \in Nat, IsSum(place, z, j), place <= n, j <= m
  PROVE  f[place] = g[j]
  <1> DEFINE Bad == {u \in Nat : z + u <= n /\ u <= m /\ f[z + u] # g[u]}
  <1>1. SUFFICES ASSUME Bad # {} PROVE FALSE
    BY DEF IsSum
  <1>2. PICK u \in Bad : \A v \in Bad : u <= v
    <2>1. Bad \subseteq Nat
      OBVIOUS
    <2> HIDE DEF Bad
    <2>2. QED
      BY <1>1, <2>1, LeastNumber
  <1>3. u \in Nat /\ u \in 0 .. m /\ z + u \in 0 .. n /\ f[z + u] # g[u]
    BY <1>2
  <1>4. g[u] = IF u = 0 THEN 0 ELSE radix * g[u - 1] + Digit(t[u])
    BY <1>3, Zenon DEF SumsUpTo
  <1>5. u # 0
    <2>1. z + 0 = z
      OBVIOUS
    <2>2. u = 0 => f[z + u] = 0
      BY <2>1
    <2>3. QED
      BY <1>3, <1>4, <2>2
  <1> DEFINE p == z + u
  <1>6. p \in 0 .. n /\ p # 0 /\ p - 1 = z + (u - 1) /\ u - 1 \in Nat
    BY <1>3, <1>5
  <1>7. s[p] = t[u]
    BY <1>3, <1>5 DEF StandsBehind
  <1>8. f[p] # g[u]
    BY <1>3
  <1>9. f[z + (u - 1)] = g[u - 1]
    <2>1. u - 1 \notin Bad
      BY <1>2, <1>3, <1>5
    <2>2. QED
      BY <1>3, <1>5, <2>1
  <1> HIDE DEF p
  <1>10. f[p] = radix * f[p - 1] + Digit(s[p])
    BY <1>6, Zenon DEF SumsUpTo
  <1>11. QED
    BY <1>4, <1>5, <1>6, <1>7, <1>8, <1>9, <1>10, Zenon

LEMMA SumsExist ==
  ASSUME NEW radix, NEW digits, NEW n \in Nat
  PROVE  \E f : SumsUpTo(f, digits, n, radix)
  <1> DEFINE S == {m \in Nat : \E f : SumsUpTo(f, digits, m, radix)}
  <1>1. 0 \in S
    <2> DEFINE f == [k \in 0 .. 0 |-> 0]
    <2>1. SumsUpTo(f, digits, 0, radix)
      BY DEF SumsUpTo
    <2>2. QED
      BY <2>1
  <1>2. ASSUME NEW m \in Nat, m \in S PROVE m + 1 \in S
    <2>1. PICK f : SumsUpTo(f, digits, m, radix)
      BY <1>2
    <2> DEFINE next == radix * f[m] + Digit(digits[m + 1])
               g == [k \in 0 .. m + 1 |-> IF k = m + 1 THEN next ELSE f[k]]
    <2>2. \A k \in 0 .. m : g[k] = f[k]
      OBVIOUS
    <2>3. ASSUME NEW k \in 0 .. m + 1
          PROVE  g[k] = IF k = 0 THEN 0 ELSE radix * g[k - 1] + Digit(digits[k])
      <3>1. CASE k = m + 1
        <4>1. g[k] = next /\ k # 0 /\ k - 1 = m /\ g[m] = f[m]
          BY <2>2, <3>1
        <4> HIDE DEF g
        <4>2. QED
          BY <3>1, <4>1, Zenon
      <3>2. CASE k # m + 1
        <4>1. k \in 0 .. m /\ (k # 0 => k - 1 \in 0 .. m)
          BY <3>2
        <4>2. f[k] = IF k = 0 THEN 0 ELSE radix * f[k - 1] + Digit(digits[k])
          BY <2>1, <4>1, Zenon DEF SumsUpTo
        <4> HIDE DEF g
        <4>3. QED
          BY <2>2, <4>1, <4>2, Zenon
      <3>3. QED
        BY <3>1, <3>2
    <2>4. DOMAIN g = 0 .. m + 1 /\ g = [k \in DOMAIN g |-> g[k]]
      OBVIOUS
    <2> HIDE DEF g
    <2>5. SumsUpTo(g, digits, m + 1, radix)
      BY <2>3, <2>4, Zenon DEF SumsUpTo
    <2>6. QED
      BY <2>5
  <1> HIDE DEF S
  <1>3. Nat \subseteq S
    BY <1>1, <1>2, Induction
  <1>4. QED
    BY <1>3 DEF S

LEMMA DenotedSums ==
  ASSUME NEW radix, NEW digits \in Seq(DigitSet)
  PROVE  \E f : /\ SumsUpTo(f, digits, Len(digits), radix)
                /\ Denoted(digits, radix) = f[Len(digits)]
  <1> DEFINE the == CHOOSE f : SumsUpTo(f, digits, Len(digits), radix)
  <1>1. SumsUpTo(the, digits, Len(digits), radix)
    BY SumsExist, LenProperties
  <1>2. Denoted(digits, radix) = the[Len(digits)]
    BY Zenon DEF Denoted, SumsUpTo
  <1> HIDE DEF the
  <1>3. QED
    BY <1>1, <1>2

\* A digit behind a number.
LEMMA DenotedAppend ==
  ASSUME NEW radix \in {10, 16}, NEW s \in Seq(DigitSet), NEW d \in DigitSet
  PROVE  Denoted(Append(s, d), radix) = radix * Denoted(s, radix) + Digit(d)
  <1> DEFINE n == Len(s)
             t == Append(s, d)
  <1>1. /\ n \in Nat /\ t \in Seq(DigitSet) /\ Len(t) = n + 1
        /\ \A k \in 1 .. n : t[k] = s[k]
        /\ t[n + 1] = d
    BY AppendProperties, LenProperties
  <1>2. PICK f : SumsUpTo(f, t, Len(t), radix) /\ Denoted(t, radix) = f[Len(t)]
    BY <1>1, DenotedSums
  <1>3. PICK g : SumsUpTo(g, s, n, radix) /\ Denoted(s, radix) = g[n]
    BY DenotedSums
  <1> HIDE DEF t, n
  <1>4. SumsUpTo(f, t, n + 1, radix) /\ Denoted(t, radix) = f[n + 1]
    BY <1>1, <1>2
  <1>5. n + 1 \in 0 .. n + 1 /\ 0 \in 0 .. n + 1 /\ n + 1 # 0 /\ (n + 1) - 1 = n
    BY <1>1
  <1>6. f[0] = 0
    BY <1>4, <1>5, Zenon DEF SumsUpTo
  <1>7. f[n + 1] = radix * f[n] + Digit(d)
    <2>1. f[n + 1] = radix * f[(n + 1) - 1] + Digit(t[n + 1])
      BY <1>4, <1>5, Zenon DEF SumsUpTo
    <2>2. QED
      BY <1>1, <1>5, <2>1, Zenon
  <1>8. f[n] = g[n]
    <2>0. PICK z \in Nat, m \in Nat, top \in Nat : z = 0 /\ m = n /\ top = n + 1
      BY <1>1
    <2>1. StandsBehind(t, s, z, top, m)
      BY <1>1, <2>0 DEF StandsBehind
    <2>2. SumsUpTo(f, t, top, radix) /\ SumsUpTo(g, s, m, radix)
      BY <1>3, <1>4, <2>0
    <2>3. z <= top /\ IsSum(m, z, m) /\ m <= top /\ m <= m /\ f[z] = 0
      BY <1>1, <1>6, <2>0 DEF IsSum
    <2>4. f[m] = g[m]
      BY ONLY z \in Nat, m \in Nat, top \in Nat, <2>1, <2>2, <2>3, SumsSame
    <2>5. QED
      BY <2>0, <2>4
  <1>9. QED
    BY <1>3, <1>4, <1>7, <1>8 DEF t

LEMMA DenotedOne ==
  ASSUME NEW radix \in {10, 16}, NEW d \in DigitSet, Digit(d) \in Nat
  PROVE  Denoted(<<d>>, radix) = Digit(d)
  <1>1. <<>> \in Seq(DigitSet) /\ Append(<<>>, d) = <<d>> /\ Len(<<>>) = 0
    OBVIOUS
  <1>2. PICK f : SumsUpTo(f, <<>>, 0, radix) /\ Denoted(<<>>, radix) = f[0]
    BY <1>1, DenotedSums
  <1>3. f[0] = 0
    <2>1. 0 \in 0 .. 0
      OBVIOUS
    <2>2. QED
      BY <1>2, <2>1, Zenon DEF SumsUpTo
  <1>4. Denoted(<<d>>, radix) = radix * 0 + Digit(d)
    <2>1. PICK none \in Seq(DigitSet) : none = <<>>
      BY <1>1
    <2>2. Denoted(none, radix) = 0
      BY <1>2, <1>3, <2>1
    <2>3. Denoted(Append(none, d), radix) = radix * Denoted(none, radix) + Digit(d)
      BY DenotedAppend
    <2>4. Append(none, d) = <<d>>
      BY <1>1, <2>1
    <2>5. QED
      BY <2>2, <2>3, <2>4
  <1>5. QED
    BY <1>4

\* What itoa writes denotes the number.
LEMMA ItoaReadsBack ==
  ASSUME NEW radix \in {10, 16}, NEW value \in Nat
  PROVE  Denoted(itoa(value, radix), radix) = value
  <1> DEFINE Bad == {v \in Nat : Denoted(itoa(v, radix), radix) # v}
  <1>1. SUFFICES ASSUME Bad # {} PROVE FALSE
    OBVIOUS
  <1>2. PICK v \in Bad : \A u \in Bad : v <= u
    <2>1. Bad \subseteq Nat
      OBVIOUS
    <2> HIDE DEF Bad
    <2>2. QED
      BY <1>1, <2>1, LeastNumber
  <1>3. v \in Nat /\ Denoted(itoa(v, radix), radix) # v
    BY <1>2
  <1> DEFINE next == v \div radix
             rest == v % radix
             d == Lookup[rest + 1]
  <1>4. /\ next \in Nat /\ rest \in 0 .. 15 /\ v = radix * next + rest
        /\ v >= radix => next < v
        /\ v < radix => rest = v
    BY <1>3, Quotient
  <1>5. d \in DigitSet /\ Digit(d) = rest
    BY <1>4, DigitsAre
  <1>6. itoa(v, radix) = IF v < radix THEN <<d>> ELSE Append(itoa(next, radix), d)
    BY <1>3, ItoaIs
  <1> HIDE DEF next, rest, d
  <1>7. itoa(next, radix) \in Seq(DigitSet)
    BY <1>4, ItoaIs
  <1>8. CASE v < radix
    <2>1. Denoted(<<d>>, radix) = Digit(d)
      BY <1>4, <1>5, DenotedOne
    <2>2. QED
      BY <1>3, <1>4, <1>5, <1>6, <1>8, <2>1
  <1>9. CASE ~(v < radix)
    <2>1. next < v
      BY <1>3, <1>4, <1>9
    <2>2. next \notin Bad
      BY <1>2, <1>3, <1>4, <2>1
    <2>3. Denoted(itoa(next, radix), radix) = next
      BY <1>4, <2>2
    <2>4. Denoted(Append(itoa(next, radix), d), radix)
            = radix * Denoted(itoa(next, radix), radix) + Digit(d)
      BY <1>5, <1>7, DenotedAppend
    <2>5. QED
      BY <1>3, <1>4, <1>5, <1>6, <1>9, <2>3, <2>4
  <1>10. QED
    BY <1>8, <1>9

LEMMA ZerosAreNothing ==
  ASSUME NEW radix \in {10, 16}, NEW n \in Nat, NEW z \in Nat, NEW f, NEW s,
         SumsUpTo(f, s, n, radix), z <= n, \A k \in 1 .. z : s[k] = "0"
  PROVE  f[z] = 0
  <1> DEFINE Bad == {u \in Nat : u <= z /\ f[u] # 0}
  <1>1. SUFFICES ASSUME Bad # {} PROVE FALSE
    OBVIOUS
  <1>2. PICK u \in Bad : \A v \in Bad : u <= v
    <2>1. Bad \subseteq Nat
      OBVIOUS
    <2> HIDE DEF Bad
    <2>2. QED
      BY <1>1, <2>1, LeastNumber
  <1>3. u \in Nat /\ u \in 0 .. n /\ u <= z /\ f[u] # 0
    BY <1>2
  <1>4. f[u] = IF u = 0 THEN 0 ELSE radix * f[u - 1] + Digit(s[u])
    BY <1>3, Zenon DEF SumsUpTo
  <1>5. u # 0
    BY <1>3, <1>4
  <1>6. f[u - 1] = 0 /\ s[u] = "0"
    <2>1. u - 1 \notin Bad /\ u - 1 \in Nat /\ u - 1 <= z /\ u \in 1 .. z
      BY <1>2, <1>3, <1>5
    <2>2. QED
      BY <2>1
  <1>7. Digit("0") = 0
    <2>1. Lookup[0 + 1] = "0" /\ 0 \in 0 .. 15
      BY DEF Lookup
    <2>2. QED
      BY <2>1, DigitsAre
  <1>8. radix * 0 + 0 = 0
    OBVIOUS
  <1>9. QED
    BY <1>3, <1>4, <1>5, <1>6, <1>7, <1>8

\* %#x: all digits of the word.
LEMMA PaddedReadsBack ==
  ASSUME NEW w \in 0 .. WORD - 1
  PROVE  Len(PaddedDigits(w)) = HexDigits /\ Denoted(PaddedDigits(w), 16) = w
  <1> DEFINE digits == itoa(w, 16)
             m == Len(digits)
             z == HexDigits - m
             zeros == [k \in 1 .. z |-> "0"]
             all == zeros \o digits
  <1>1. WORD \in Nat \ {0} /\ w \in Nat /\ WORD - 1 \in Nat /\ w <= WORD - 1 /\ 16 \in {10, 16}
    BY PrintfAssumption
  <1>2. digits \in Seq(DigitSet) /\ m \in Nat
    BY <1>1, ItoaIs, LenProperties
  <1>3. z \in Nat /\ HexDigits = z + m /\ HexDigits \in Nat
    <2>1. itoa(WORD - 1, 16) \in Seq(DigitSet) /\ HexDigits = Len(itoa(WORD - 1, 16))
      BY <1>1, ItoaIs, PrintfAssumption
    <2>2. HexDigits \in Nat
      BY <2>1, LenProperties
    <2>3. m <= HexDigits
      BY <1>1, <2>1, ItoaGrows
    <2> HIDE DEF m
    <2>4. QED
      BY <1>2, <2>2, <2>3
  <1>4. Denoted(digits, 16) = w
    BY <1>1, ItoaReadsBack
  <1>5. all = PaddedDigits(w)
    BY DEF PaddedDigits
  <1> HIDE DEF m, digits, z
  <1>6. zeros \in Seq(DigitSet) /\ Len(zeros) = z
    <2>1. "0" \in DigitSet
      <3>1. Lookup[0 + 1] = "0" /\ 0 \in 0 .. 15
        BY DEF Lookup
      <3>2. QED
        BY <3>1, DigitsAre
    <2>2. QED
      BY <1>3, <2>1
  <1>7. /\ all \in Seq(DigitSet) /\ Len(all) = z + m
        /\ \A k \in 1 .. z : all[k] = "0"
        /\ \A k \in 1 .. m : all[z + k] = digits[k]
    <2>1. \A k \in 1 .. z : zeros[k] = "0"
      OBVIOUS
    <2> HIDE DEF zeros
    <2>2. /\ all \in Seq(DigitSet) /\ Len(all) = Len(zeros) + Len(digits)
          /\ \A k \in 1 .. Len(zeros) + Len(digits) :
               all[k] = IF k <= Len(zeros) THEN zeros[k] ELSE digits[k - Len(zeros)]
      BY <1>2, <1>6, ConcatProperties, Zenon
    <2>3. Len(zeros) = z /\ Len(digits) = m
      BY <1>6 DEF m
    <2> HIDE DEF all
    <2>4. \A k \in 1 .. z : all[k] = "0"
      BY <1>2, <1>3, <2>1, <2>2, <2>3
    <2>5. ASSUME NEW k \in 1 .. m PROVE all[z + k] = digits[k]
      <3>1. z + k \in 1 .. z + m /\ ~(z + k <= z) /\ (z + k) - z = k
        BY <1>2, <1>3
      <3>2. QED
        BY <2>2, <2>3, <3>1
    <2>6. QED
      BY <2>2, <2>3, <2>4, <2>5
  <1> HIDE DEF all, zeros
  <1>8. PICK f : SumsUpTo(f, all, Len(all), 16) /\ Denoted(all, 16) = f[Len(all)]
    BY <1>7, DenotedSums
  <1>9. PICK g : SumsUpTo(g, digits, m, 16) /\ Denoted(digits, 16) = g[m]
    BY <1>2, DenotedSums DEF m
  <1>10. f[HexDigits] = g[m]
    <2>0. PICK places \in Nat, head \in Nat, top \in Nat :
            places = m /\ head = z /\ top = HexDigits
      BY <1>2, <1>3
    <2>1. StandsBehind(all, digits, head, top, places)
      BY <1>7, <2>0 DEF StandsBehind
    <2>2. SumsUpTo(f, all, top, 16) /\ SumsUpTo(g, digits, places, 16)
      BY <1>3, <1>7, <1>8, <1>9, <2>0
    <2>3. head <= top /\ IsSum(top, head, places) /\ top <= top /\ places <= places
      BY <1>3, <2>0 DEF IsSum
    <2>4. f[head] = 0
      BY <1>1, <1>7, <2>0, <2>2, <2>3, ZerosAreNothing
    <2>5. f[top] = g[places]
      BY ONLY head \in Nat, places \in Nat, top \in Nat, <2>1, <2>2, <2>3, <2>4, SumsSame
    <2>6. QED
      BY <2>0, <2>5
  <1>11. QED
    BY <1>3, <1>4, <1>5, <1>7, <1>8, <1>9, <1>10

\* What a conversion of a word puts out.
ReadsBack(letter, alt, w, p) ==
  /\ letter = "x" => Denoted(p, 16) = w
  /\ letter = "x" /\ alt => Len(p) = HexDigits
  /\ letter = "u" => Denoted(p, 10) = w
  /\ letter = "d" =>
       IF p[1] = "-" THEN Denoted(Tail(p), 10) = WORD - w /\ 2 * w >= WORD
       ELSE Denoted(p, 10) = w /\ 2 * w < WORD

LEMMA NumberComesOut ==
  ASSUME NEW w \in 0 .. WORD - 1, NEW alt \in BOOLEAN,
         NEW letter \in {"x", "u", "d", "c", "s"}
  PROVE  ReadsBack(letter, alt, w, Converted(letter, alt, w))
  <1> DEFINE p == Converted(letter, alt, w)
  <1>1. WORD \in Nat \ {0} /\ WORD % 2 = 0 /\ w \in Nat /\ w < WORD
    BY PrintfAssumption
  <1>2. CASE letter = "x" /\ alt
    <2>1. p = PaddedDigits(w)
      BY <1>2 DEF Converted
    <2> HIDE DEF p
    <2>2. ReadsBack(letter, alt, w, p)
      BY <1>2, <2>1, PaddedReadsBack DEF ReadsBack
    <2>3. QED
      BY <2>2 DEF p
  <1>3. CASE letter = "x" /\ ~alt
    <2>1. p = itoa(w, 16)
      BY <1>3 DEF Converted
    <2> HIDE DEF p
    <2>2. ReadsBack(letter, alt, w, p)
      BY <1>1, <1>3, <2>1, ItoaReadsBack DEF ReadsBack
    <2>3. QED
      BY <2>2 DEF p
  <1>4. CASE letter = "u"
    <2>1. p = itoa(w, 10)
      BY <1>4 DEF Converted
    <2> HIDE DEF p
    <2>2. ReadsBack(letter, alt, w, p)
      BY <1>1, <1>4, <2>1, ItoaReadsBack DEF ReadsBack
    <2>3. QED
      BY <2>2 DEF p
  <1>5. CASE letter = "d" /\ w >= WORD \div 2
    <2>1. p = Negative(w)
      <3>1. WORD \div 2 \in Int /\ ~(w < WORD \div 2) /\ letter = "d"
        BY <1>1, <1>5
      <3>2. QED
        BY <1>5, <3>1 DEF Converted
    <2>2. (WORD - w) % WORD = WORD - w /\ WORD - w \in Nat /\ 2 * w >= WORD
      <3>1. w > 0
        <4>1. WORD # 1
          BY <1>1
        <4>2. WORD \div 2 > 0
          BY <1>1, <4>1
        <4>3. QED
          BY <1>1, <1>5, <4>2
      <3>2. WORD - w \in 0 .. WORD - 1
        BY <1>1, <3>1
      <3>3. \A v \in 0 .. WORD - 1 : v % WORD = v
        BY <1>1
      <3>4. 2 * w >= WORD
        BY <1>1, <1>5
      <3>5. QED
        BY <3>2, <3>3, <3>4
    <2> DEFINE digits == itoa(WORD - w, 10)
    <2>3. digits \in Seq(DigitSet) /\ Denoted(digits, 10) = WORD - w
      BY <2>2, ItoaIs, ItoaReadsBack
    <2>4. p = <<"-">> \o digits
      BY <2>1, <2>2 DEF Negative
    <2> HIDE DEF p, digits
    <2>5. p[1] = "-" /\ Tail(p) = digits
      BY <2>3, <2>4
    <2>6. QED
      BY <1>5, <2>2, <2>3, <2>5 DEF ReadsBack, p
  <1>6. CASE letter = "d" /\ w < WORD \div 2
    <2> DEFINE digits == itoa(w, 10)
    <2>1. p = digits
      BY <1>6 DEF Converted
    <2>2. digits \in Seq(DigitSet) /\ Denoted(digits, 10) = w
      BY <1>1, ItoaIs, ItoaReadsBack
    <2>3. digits # <<>>
      <3>1. \A s \in Seq(DigitSet), d \in DigitSet : Append(s, d) # <<>> /\ <<d>> # <<>>
        OBVIOUS
      <3>2. w \div 10 \in Nat
        BY <1>1
      <3>3. 10 \in {10, 16}
        OBVIOUS
      <3>4. itoa(w \div 10, 10) \in Seq(DigitSet)
        BY <3>2, <3>3, ItoaIs
      <3>5. QED
        BY <1>1, <3>1, <3>3, <3>4, ItoaIs, Zenon
    <2>4. 2 * w < WORD
      BY <1>1, <1>6
    <2> HIDE DEF p, digits
    <2>5. p[1] # "-"
      <3>1. 1 \in 1 .. Len(digits)
        BY <2>2, <2>3
      <3>2. digits[1] \in DigitSet
        BY <2>2, <3>1, ElementOfSeq
      <3>3. QED
        BY <2>1, <3>2, DigitsAre
    <2>6. QED
      BY <1>6, <2>1, <2>2, <2>4, <2>5 DEF ReadsBack, p
  <1>7. CASE letter \in {"c", "s"}
    BY <1>7 DEF ReadsBack
  <1>8. w >= WORD \div 2 \/ w < WORD \div 2
    BY <1>1
  <1>9. QED
    BY <1>2, <1>3, <1>4, <1>5, <1>6, <1>7, <1>8

-----------------------------------------------------------------------------
(* Printf: the numbers it puts out *)

NInv == FInv /\ alternate \in BOOLEAN /\ NumbersReadBack

LEMMA NumbersInit == PrintInit => NInv
  <1> SUFFICES ASSUME PrintInit PROVE NInv
    OBVIOUS
  <1>1. alternate = FALSE /\ last = NoConversion
    BY DEF PrintInit
  <1>2. NumbersReadBack
    BY <1>1 DEF NumbersReadBack, NoConversion
  <1>3. QED
    BY <1>1, <1>2, PrintInitHolds DEF NInv

\* The word a conversion takes is on the stack.
LEMMA WordIsThere ==
  ASSUME FInv, Convert
  PROVE  stack[esp] \in 0 .. WORD - 1
  <1>1. /\ stack \in Seq(0 .. WORD - 1)
        /\ buf \in Nat /\ esp \in Nat \ {0} /\ 2 * esp - 1 <= buf
    BY DEF FInv, Memory, Place, Convert
  <1>2. PICK top \in Nat : format \in [0 .. top -> Characters] /\ top < 2 * Len(stack)
    BY DEF FInv, Memory
  <1>3. buf \in 0 .. top
    <2>1. Char # NUL
      BY DEF Convert, NUL
    <2>2. buf \in DOMAIN format
      BY <2>1 DEF Char
    <2>3. QED
      BY <1>2, <2>2
  <1>4. Len(stack) \in Nat
    BY <1>1, LenProperties
  <1>5. esp \in 1 .. Len(stack)
    BY <1>1, <1>2, <1>3, <1>4
  <1>6. QED
    BY <1>1, <1>5, ElementOfSeq

LEMMA NumbersKeep == NInv /\ [PrintNext]_printVars => NInv'
  <1> SUFFICES ASSUME NInv, [PrintNext]_printVars PROVE NInv'
    OBVIOUS
  <1>1. FInv /\ alternate \in BOOLEAN /\ NumbersReadBack
    BY DEF NInv
  <1>2. FInv'
    BY <1>1, PrintStepKeeps
  <1>3. alternate' \in BOOLEAN
    BY <1>1 DEF PrintNext, printf, multi_printf, Copy, Turn, Return, Percent,
                Literal, Hash, LiteralPercent, Convert, Ignored, printVars
  <1>4. NumbersReadBack'
    <2>1. CASE last' = last
      BY <1>1, <2>1 DEF NumbersReadBack
    <2>2. CASE Convert
      <3>1. PICK w \in 0 .. WORD - 1, letter \in {"x", "u", "d", "c", "s"} :
              w = stack[esp] /\ letter = Char
        BY <1>1, <2>2, WordIsThere DEF Convert
      <3>2. PICK piece : piece = Converted(letter, alternate, w)
        OBVIOUS
      <3>3. last' = [letter |-> letter, alternate |-> alternate,
                     word |-> w, piece |-> piece]
        BY <2>2, <3>1, <3>2 DEF Convert
      <3>4. ReadsBack(letter, alternate, w, piece)
        BY <1>1, <3>2, NumberComesOut
      <3>5. QED
        BY <3>3, <3>4 DEF NumbersReadBack, ReadsBack
    <2>3. last' = last \/ Convert
      BY DEF PrintNext, printf, multi_printf, Copy, Turn, Return, Percent,
             Literal, Hash, LiteralPercent, Ignored, printVars
    <2>4. QED
      BY <2>1, <2>2, <2>3
  <1>5. QED
    BY <1>2, <1>3, <1>4 DEF NInv

\* Every number printf puts out, read as a number, is the word it was given:
\* every word, every conversion, zero and the smallest negative one included.
THEOREM NumbersComeOut == PrintSpec => []NumbersReadBack
  <1>1. NInv => NumbersReadBack
    BY DEF NInv
  <1>2. QED
    BY <1>1, NumbersInit, NumbersKeep, PTL DEF PrintSpec

-----------------------------------------------------------------------------
(* Commands: what the parser has seen *)

\* The part of the command gone by: k spaces, the word, ends at e, spaces, and
\* from m on the rest. The arrays hold the word and the rest, and zeros.
Spaced(k, e, m) == \A j \in 0 .. m - 1 : (command[j] = Space) <=> ~(k <= j /\ j < e)
Named(k, len) ==
  \A j \in 0 .. MAX_FILENAME_LENGTH - 1 :
    filename[j] = IF j < len THEN command[k + j] ELSE NUL
Argued(m, len) ==
  \A j \in 0 .. MAX_ARG_LENGTH :
    fileargs[j] = IF j < len THEN command[m + j] ELSE NUL

FlagIs(k, e, m) ==
  \/ filename_flag = -1 /\ k = i /\ offset = 0
  \/ filename_flag = 0 /\ k < e /\ e = i /\ offset = e - k
  \/ filename_flag = 1 /\ k < e /\ e < m /\ m = i /\ offset = 0
  \/ filename_flag = 2 /\ k < e /\ e < m /\ m < i /\ command[m] # Space /\ offset = i - m

Seen(k, e, m) ==
  /\ k <= e /\ e <= m /\ m <= i
  /\ e - k <= MAX_FILENAME_LENGTH /\ i - m <= MAX_ARG_LENGTH
  /\ Spaced(k, e, m) /\ Named(k, e - k) /\ Argued(m, i - m)
  /\ FlagIs(k, e, m)

Early == {"typed", "not executed", "parsing", "derailed", "parsed", "accepted"}

CommandMemory ==
  /\ \E top \in Nat : command \in [0 .. top -> Characters] /\ command[top] = NUL
  /\ DOMAIN filename = 0 .. MAX_FILENAME_LENGTH + 1
  /\ filename[MAX_FILENAME_LENGTH + 1] = NUL
  /\ DOMAIN fileargs = 0 .. MAX_ARG_LENGTH

Progress ==
  /\ stage \in Early \cup {"running", "returned", "reported"}
  /\ stage \in {"typed", "parsing", "parsed", "accepted", "running"} =>
       /\ i \in 0 .. strlen(command)
       /\ \E k, e, m \in Nat : Seen(k, e, m)
  /\ stage \in {"parsed", "accepted", "running"} => command[i] = NUL
  /\ stage = "accepted" =>
       \E name \in read_dentry_by_name(filename) : TRUE \in HeaderAccepted(name)
  /\ stage \in Early => given[1] = 0
  /\ stage = "running" => argbuf = Arguments

\* A slot is taken only for a program that runs or whose file is damaged.
SlotHeld ==
  /\ slot_taken => stage \in {"running", "returned", "reported"}
  /\ slot_taken /\ stage # "running" =>
       \E name \in read_dentry_by_name(filename) : KindOf[name] = "corrupt"
  /\ said # "nothing" => stage = "reported"

CInv == CommandMemory /\ Progress /\ SlotHeld /\ CommandUnderstood

-----------------------------------------------------------------------------
(* Commands: words and names *)

LEMMA TextOfIs ==
  ASSUME NEW s, NEW top \in Nat, s \in [0 .. top -> Characters],
         NEW e \in 0 .. top, s[e] = NUL
  PROVE  /\ strlen(s) \in 0 .. e
         /\ TextOf(s) \in Seq(Characters) /\ Len(TextOf(s)) = strlen(s)
         /\ \A j \in 1 .. strlen(s) : TextOf(s)[j] = s[j - 1]
  <1>1. strlen(s) \in 0 .. e
    BY Terminator
  <1> DEFINE len == strlen(s)
  <1>2. TextOf(s) = [j \in 1 .. len |-> s[j - 1]]
    BY DEF TextOf
  <1> HIDE DEF len
  <1>3. \A j \in 1 .. len : s[j - 1] \in Characters
    BY <1>1 DEF len
  <1>4. len \in Nat
    BY <1>1 DEF len
  <1>5. QED
    BY <1>1, <1>2, <1>3, <1>4 DEF len

LEMMA InSubsequences ==
  ASSUME NEW text, NEW a \in 1 .. Len(text) + 1, NEW b \in 0 .. Len(text)
  PROVE  SubSeq(text, a, b) \in Subsequences(text)
  BY DEF Subsequences

\* The first m characters are k spaces, a word that ends at e, and spaces.
Shaped(text, k, e, m) ==
  \A j \in 0 .. m - 1 : (text[j + 1] = Space) <=> ~(k <= j /\ j < e)

\* A line that is spaces, a word, and spaces up to a rest means that word.
LEMMA MeansIs ==
  ASSUME NEW text \in Seq(Characters), NEW k \in Nat, NEW e \in Nat, NEW m \in Nat,
         k < e, e <= m, m <= Len(text),
         Shaped(text, k, e, m),
         m < Len(text) => m > e /\ text[m + 1] # Space
  PROVE  \E word, rest \in Subsequences(text) :
           /\ Means(text, word, rest)
           /\ word \in Seq(Characters) /\ rest \in Seq(Characters)
           /\ Len(word) = e - k /\ Len(rest) = Len(text) - m
           /\ \A j \in 1 .. e - k : word[j] = text[k + j]
           /\ \A j \in 1 .. Len(text) - m : rest[j] = text[m + j]
  <1> DEFINE word == SubSeq(text, k + 1, e)
             len == Len(text)
             rest == SubSeq(text, m + 1, len)
  <1>1. len \in Nat
    BY LenProperties
  <1>2. /\ word \in Seq(Characters) /\ Len(word) = e - k
        /\ \A j \in 1 .. e - k : word[j] = text[k + j]
    <2>1. \A j \in k + 1 .. e : text[j] \in Characters
      BY <1>1, ElementOfSeq
    <2>2. /\ word \in Seq(Characters)
          /\ Len(word) = IF k + 1 <= e THEN e - (k + 1) + 1 ELSE 0
          /\ \A j \in 1 .. e - (k + 1) + 1 : word[j] = text[(k + 1) + j - 1]
      BY <2>1, SubSeqProperties
    <2>3. QED
      BY <2>2
  <1>3. /\ rest \in Seq(Characters) /\ Len(rest) = len - m
        /\ \A j \in 1 .. len - m : rest[j] = text[m + j]
    <2>1. \A j \in m + 1 .. len : text[j] \in Characters
      BY <1>1, ElementOfSeq
    <2>2. /\ rest \in Seq(Characters)
          /\ Len(rest) = IF m + 1 <= len THEN len - (m + 1) + 1 ELSE 0
          /\ \A j \in 1 .. len - (m + 1) + 1 : rest[j] = text[(m + 1) + j - 1]
      BY <1>1, <2>1, SubSeqProperties
    <2>3. QED
      BY <1>1, <2>2
  <1>4. word \in Subsequences(text)
    <2>1. k + 1 \in 1 .. len + 1 /\ e \in 0 .. len
      BY <1>1
    <2>2. QED
      BY <2>1, InSubsequences
  <1>5. rest \in Subsequences(text)
    <2>1. m + 1 \in 1 .. len + 1 /\ len \in 0 .. len
      BY <1>1
    <2>2. QED
      BY <2>1, InSubsequences
  <1>6. word = SubSeq(text, k + 1, k + Len(word))
    <2> HIDE DEF word
    <2>1. k + Len(word) = e
      BY <1>2
    <2>2. QED
      BY <2>1 DEF word
  <1>7. rest = SubSeq(text, len - Len(rest) + 1, len)
    <2> HIDE DEF rest, len
    <2>1. len - Len(rest) + 1 = m + 1
      BY <1>1, <1>3
    <2>2. QED
      BY <2>1 DEF rest
  <1>8. rest # <<>> => m < len
    <2>1. m = len => rest = <<>>
      BY SubSeqEmpty
    <2>2. QED
      BY <1>1, <2>1
  <1>9. word # <<>>
    BY <1>2
  <1> HIDE DEF word, rest, len
  <1>10. Means(text, word, rest)
    <2>1. k + Len(word) + (m - e) + Len(rest) = len
      BY <1>1, <1>2, <1>3
    <2>2. rest # <<>> => m - e > 0 /\ rest[1] # Space
      BY <1>1, <1>3, <1>8 DEF len
    <2>3. \A j \in 1 .. Len(word) : word[j] # Space
      <3> SUFFICES ASSUME NEW j \in 1 .. Len(word) PROVE word[j] # Space
        OBVIOUS
      <3>1. word[j] = text[k + j] /\ j \in 1 .. e - k
        BY <1>2
      <3> DEFINE at == k + j - 1
      <3>2. at \in 0 .. m - 1 /\ k <= at /\ at < e /\ at + 1 = k + j
        BY <3>1
      <3> HIDE DEF at
      <3>3. QED
        BY <3>1, <3>2 DEF Shaped
    <2>4. \A j \in 1 .. len :
            j <= k \/ (j > k + Len(word) /\ j <= k + Len(word) + (m - e)) => text[j] = Space
      <3> SUFFICES ASSUME NEW j \in 1 .. len, j <= k \/ (j > e /\ j <= m)
                   PROVE  text[j] = Space
        BY <1>2
      <3> DEFINE at == j - 1
      <3>1. at \in 0 .. m - 1 /\ ~(k <= at /\ at < e) /\ at + 1 = j
        OBVIOUS
      <3> HIDE DEF at
      <3>2. QED
        BY <3>1 DEF Shaped
    <2>5. k \in 0 .. len /\ m - e \in 0 .. len
      BY <1>1 DEF len
    <2>6. QED
      BY <1>6, <1>7, <1>9, <2>1, <2>2, <2>3, <2>4, <2>5 DEF Means, len
  <1>11. QED
    BY <1>2, <1>3, <1>4, <1>5, <1>10 DEF len

\* A line with a word in it means some word and rest, and the word is as long
\* as any run of characters that begins with it.
LEMMA WordGoesOn ==
  ASSUME NEW text \in Seq(Characters), NEW k \in Nat, NEW t \in Nat,
         k < t, t <= Len(text),
         \A j \in 0 .. t - 1 : (text[j + 1] = Space) <=> j < k
  PROVE  \E word, rest \in Subsequences(text) :
           Means(text, word, rest) /\ Len(word) >= t - k
  <1> DEFINE len == Len(text)
             Stops == {e \in Nat : t <= e /\ e <= len /\ (e = len \/ text[e + 1] = Space)}
  <1>1. len \in Nat
    BY LenProperties
  <1>2. PICK e \in Stops : \A j \in Stops : e <= j
    <2>1. len \in Stops /\ Stops \subseteq Nat
      BY <1>1
    <2> HIDE DEF Stops
    <2>2. QED
      BY <2>1, LeastNumber
  <1> DEFINE Rests == {m \in Nat : e <= m /\ m <= len /\ (m = len \/ text[m + 1] # Space)}
  <1>3. PICK m \in Rests : \A j \in Rests : m <= j
    <2>1. len \in Rests /\ Rests \subseteq Nat
      BY <1>1, <1>2
    <2> HIDE DEF Rests
    <2>2. QED
      BY <2>1, LeastNumber
  <1>4. /\ e \in Nat /\ m \in Nat /\ t <= e /\ e <= m /\ m <= len
        /\ m < len => m > e /\ text[m + 1] # Space
    BY <1>1, <1>2, <1>3
  <1>5. Shaped(text, k, e, m)
    <2> SUFFICES ASSUME NEW j \in 0 .. m - 1
                 PROVE  (text[j + 1] = Space) <=> ~(k <= j /\ j < e)
      BY DEF Shaped
    <2>1. CASE j < t
      BY <1>4, <2>1
    <2>2. CASE t <= j /\ j < e
      <3>1. j \notin Stops
        BY <1>2, <1>4, <2>2
      <3>2. QED
        BY <1>1, <1>4, <2>2, <3>1
    <2>3. CASE e <= j
      <3>1. j \notin Rests
        BY <1>3, <1>4, <2>3
      <3>2. QED
        BY <1>1, <1>4, <2>3, <3>1
    <2>4. QED
      BY <1>4, <2>1, <2>2, <2>3
  <1> HIDE DEF Stops, Rests
  <1>6. PICK word, rest \in Subsequences(text) :
          Means(text, word, rest) /\ Len(word) = e - k
    <2>1. k < e
      BY <1>4
    <2>2. QED
      BY <1>4, <1>5, <2>1, MeansIs
  <1>7. Len(word) >= t - k
    BY <1>4, <1>6
  <1>8. QED
    BY <1>6, <1>7

LEMMA RestGoesOn ==
  ASSUME NEW text \in Seq(Characters), NEW k \in Nat, NEW e \in Nat, NEW m \in Nat,
         k < e, e < m, m < Len(text), text[m + 1] # Space, Shaped(text, k, e, m)
  PROVE  \E word, rest \in Subsequences(text) :
           Means(text, word, rest) /\ Len(rest) = Len(text) - m
  <1>1. k < e /\ e <= m /\ m <= Len(text)
    OBVIOUS
  <1>2. m < Len(text) => m > e /\ text[m + 1] # Space
    OBVIOUS
  <1>3. QED
    BY <1>1, <1>2, MeansIs

\* What the parser has seen of a line determines its first word.
LEMMA SameWord ==
  ASSUME NEW text, Len(text) \in Nat, NEW k \in Nat, NEW e \in Nat, NEW m \in Nat,
         k <= e, e <= m, m <= Len(text), Shaped(text, k, e, m),
         NEW a \in Nat, NEW b \in Nat, FirstWord(text, a, b)
  PROVE  /\ k < e => a = k /\ e <= b
         /\ m = Len(text) \/ (k < e /\ e < m) => k < e /\ b = e
  <1>1. /\ a < b /\ b <= Len(text)
        /\ \A j \in 1 .. b : text[j] = Space <=> j <= a
        /\ b = Len(text) \/ text[b + 1] = Space
    BY DEF FirstWord
  <1>2. \A j \in 1 .. m : text[j] = Space <=> ~(k < j /\ j <= e)
    <2> SUFFICES ASSUME NEW j \in 1 .. m PROVE text[j] = Space <=> ~(k < j /\ j <= e)
      OBVIOUS
    <2> DEFINE at == j - 1
    <2>1. at \in 0 .. m - 1 /\ at + 1 = j
      OBVIOUS
    <2> HIDE DEF at
    <2>2. text[at + 1] = Space <=> ~(k <= at /\ at < e)
      BY <2>1 DEF Shaped
    <2>3. QED
      BY <2>1, <2>2
  <1>3. ASSUME k < e PROVE a = k /\ e <= b
    <2>1. a + 1 \in 1 .. b /\ k + 1 \in 1 .. m
      BY <1>1, <1>3
    <2>2. text[a + 1] # Space /\ text[k + 1] # Space
      BY <1>1, <1>2, <1>3, <2>1
    <2>3. ~(a < k)
      <3>1. a < k => a + 1 \in 1 .. m /\ ~(k < a + 1)
        BY <1>3
      <3>2. QED
        BY <1>2, <2>2, <3>1
    <2>4. ~(k < a)
      <3>1. k < a => k + 1 \in 1 .. b /\ k + 1 <= a
        BY <1>1
      <3>2. QED
        BY <1>1, <2>2, <3>1
    <2>5. ~(b < e)
      <3>1. b < e => b + 1 \in 1 .. m /\ k < b + 1 /\ b + 1 <= e /\ b # Len(text)
        BY <1>1, <1>3, <2>3, <2>4
      <3>2. QED
        BY <1>1, <1>2, <3>1
    <2>6. QED
      BY <2>3, <2>4, <2>5
  <1>4. ASSUME m = Len(text) \/ (k < e /\ e < m) PROVE k < e /\ b = e
    <2>1. k < e
      <3>1. k = e => a + 1 \in 1 .. m /\ a + 1 \in 1 .. b
        BY <1>1, <1>4
      <3>2. k = e => text[a + 1] = Space /\ text[a + 1] # Space
        BY <1>1, <1>2, <3>1
      <3>3. QED
        BY <3>2
    <2>2. a = k /\ e <= b
      BY <1>3, <2>1
    <2>3. ~(e < b)
      <3>1. e < b => e + 1 \in 1 .. b /\ e + 1 \in 1 .. m /\ ~(e + 1 <= a)
        BY <1>1, <1>4, <2>1, <2>2
      <3>2. e < b => text[e + 1] # Space /\ text[e + 1] = Space
        BY <1>1, <1>2, <3>1
      <3>3. QED
        BY <3>2
    <2>4. QED
      BY <2>1, <2>2, <2>3
  <1>5. QED
    BY <1>3, <1>4

\* Of a name in the directory, the entry's bytes begin with it and then have a
\* zero, if there is room.
LEMMA EntryIs ==
  ASSUME NEW name \in Directory
  PROVE  LET len == Len(name)
             entry == EntryBytes(name)
         IN /\ len \in 1 .. MAX_FILENAME_LENGTH
            /\ \A j \in 0 .. len - 1 : entry[j] = name[j + 1] /\ entry[j] # NUL
            /\ len < MAX_FILENAME_LENGTH => entry[len] = NUL
            /\ TruncatedLength(entry) = len
  <1> DEFINE len == Len(name)
             top == MAX_FILENAME_LENGTH + 1
             entry == EntryBytes(name)
  <1>1. len \in 1 .. MAX_FILENAME_LENGTH /\ name \in Seq(Characters \ {NUL})
        /\ top \in Nat /\ MAX_FILENAME_LENGTH \in Nat
    BY CommandsAssumption
  <1>2. entry = [k \in 0 .. top |-> IF k < len THEN name[k + 1]
                   ELSE IF k = MAX_FILENAME_LENGTH THEN "type" ELSE NUL]
    BY DEF EntryBytes
  <1>3. \A j \in 0 .. len - 1 : name[j + 1] \in Characters \ {NUL}
    BY <1>1, ElementOfSeq
  <1> HIDE DEF entry, len
  <1>4. \A j \in 0 .. len - 1 : entry[j] = name[j + 1] /\ entry[j] # NUL
    BY <1>1, <1>2, <1>3
  <1>5. len < MAX_FILENAME_LENGTH => entry[len] = NUL
    BY <1>1, <1>2
  <1>6. entry[top] = NUL /\ DOMAIN entry = 0 .. top
    BY <1>1, <1>2
  <1>7. entry[MAX_FILENAME_LENGTH] # NUL
    BY <1>1, <1>2 DEF NUL
  <1>8. TruncatedLength(entry) = len
    <2>1. CASE len < MAX_FILENAME_LENGTH
      <3>1. strlen(entry) = len
        <4>1. len \in 0 .. top /\ entry[len] = NUL
          BY <1>1, <1>5, <2>1
        <4>2. \A j \in 0 .. len - 1 : entry[j] # NUL
          BY <1>4
        <4>3. QED
          BY <1>1, <1>6, <4>1, <4>2, TerminatorIs
      <3>2. QED
        BY <1>1, <2>1, <3>1 DEF TruncatedLength
    <2>2. CASE len = MAX_FILENAME_LENGTH
      <3>1. \A j \in 0 .. MAX_FILENAME_LENGTH : entry[j] # NUL
        BY <1>1, <1>4, <1>7, <2>2
      <3>2. strlen(entry) = top
        BY <1>1, <1>6, <3>1, TerminatorIs
      <3>3. QED
        BY <1>1, <2>2, <3>2 DEF TruncatedLength
    <2>3. QED
      BY <1>1, <2>1, <2>2
  <1>9. QED
    BY <1>1, <1>4, <1>5, <1>8 DEF entry, len

\* What execute finds under a word is the file of exactly that name, also when
\* the word fills its array and has no terminator there.
LEMMA OnlyItsName ==
  ASSUME NEW fname, DOMAIN fname = 0 .. MAX_FILENAME_LENGTH + 1,
         fname[MAX_FILENAME_LENGTH + 1] = NUL,
         NEW word \in Seq(Characters), Len(word) <= MAX_FILENAME_LENGTH,
         \A j \in 0 .. Len(word) - 1 : fname[j] = word[j + 1] /\ fname[j] # NUL,
         Len(word) < MAX_FILENAME_LENGTH => fname[Len(word)] = NUL,
         NEW name \in read_dentry_by_name(fname)
  PROVE  name = word
  <1> DEFINE len == Len(name)
             size_of == Len(word)
             entry == EntryBytes(name)
  <1>1. /\ name \in Directory
        /\ strncmp(entry, fname, strlen(fname))
        /\ strncmp(entry, fname, TruncatedLength(entry))
    BY DEF read_dentry_by_name, Matches
  <1>2. /\ len \in 1 .. MAX_FILENAME_LENGTH /\ name \in Seq(Characters \ {NUL})
        /\ MAX_FILENAME_LENGTH \in Nat /\ size_of \in 0 .. MAX_FILENAME_LENGTH
    BY <1>1, CommandsAssumption, LenProperties
  <1>3. /\ \A j \in 0 .. len - 1 : entry[j] = name[j + 1] /\ entry[j] # NUL
        /\ len < MAX_FILENAME_LENGTH => entry[len] = NUL
        /\ TruncatedLength(entry) = len
    BY <1>1, EntryIs
  <1>4. strlen(fname) \in Nat /\ strlen(fname) >= size_of
    <2>1. strlen(fname) \in 0 .. MAX_FILENAME_LENGTH + 1 /\ fname[strlen(fname)] = NUL
      BY <1>2, Terminator
    <2>2. QED
      BY <1>2, <2>1
  <1> HIDE DEF entry, len, size_of
  <1>5. PICK k1 \in 0 .. strlen(fname) :
          /\ \A j \in 0 .. k1 - 1 : entry[j] = fname[j] /\ entry[j] # NUL
          /\ k1 < strlen(fname) => entry[k1] = NUL /\ fname[k1] = NUL
    BY <1>1 DEF strncmp
  <1>6. PICK k2 \in 0 .. len :
          /\ \A j \in 0 .. k2 - 1 : entry[j] = fname[j] /\ entry[j] # NUL
          /\ k2 < len => entry[k2] = NUL /\ fname[k2] = NUL
    BY <1>1, <1>3 DEF strncmp
  <1>7. size_of <= len
    <2>1. k1 >= size_of
      BY <1>2, <1>4, <1>5 DEF size_of
    <2>2. \A j \in 0 .. size_of - 1 : entry[j] # NUL
      BY <1>2, <1>4, <1>5, <2>1
    <2>3. QED
      BY <1>2, <1>3, <2>2
  <1>8. k2 = len
    BY <1>2, <1>3, <1>6
  <1>9. len <= size_of
    <2>1. \A j \in 0 .. len - 1 : fname[j] # NUL
      BY <1>2, <1>6, <1>8
    <2>2. QED
      BY <1>2, <2>1 DEF size_of
  <1>10. \A j \in 1 .. len : name[j] = word[j]
    <2> SUFFICES ASSUME NEW j \in 1 .. len PROVE name[j] = word[j]
      OBVIOUS
    <2> DEFINE at == j - 1
    <2>1. at \in 0 .. len - 1 /\ at \in 0 .. size_of - 1 /\ at + 1 = j
      BY <1>2, <1>7, <1>9
    <2> HIDE DEF at
    <2>2. QED
      BY <1>3, <1>6, <1>8, <2>1 DEF size_of
  <1>11. len = size_of
    BY <1>2, <1>7, <1>9
  <1>12. name \in Seq(Characters \cup {NUL}) /\ word \in Seq(Characters \cup {NUL})
    BY <1>2, StringsAssumption
  <1>13. QED
    BY <1>10, <1>11, <1>12, SeqEqual DEF len, size_of

-----------------------------------------------------------------------------
(* Commands: the parser *)

LEMMA CommandEnds ==
  ASSUME CommandMemory
  PROVE  /\ strlen(command) \in Nat /\ command[strlen(command)] = NUL
         /\ \A j \in 0 .. strlen(command) - 1 : command[j] # NUL
         /\ TextOf(command) \in Seq(Characters)
         /\ Len(TextOf(command)) = strlen(command)
         /\ \A j \in 1 .. strlen(command) : TextOf(command)[j] = command[j - 1]
  <1>1. PICK top \in Nat : command \in [0 .. top -> Characters] /\ command[top] = NUL
    BY DEF CommandMemory
  <1>2. top \in 0 .. top /\ DOMAIN command = 0 .. top
    BY <1>1
  <1>3. /\ strlen(command) \in 0 .. top /\ command[strlen(command)] = NUL
        /\ \A j \in 0 .. strlen(command) - 1 : command[j] # NUL
    BY <1>1, <1>2, Terminator
  <1>4. /\ TextOf(command) \in Seq(Characters)
        /\ Len(TextOf(command)) = strlen(command)
        /\ \A j \in 1 .. strlen(command) : TextOf(command)[j] = command[j - 1]
    BY <1>1, <1>2, TextOfIs
  <1>5. QED
    BY <1>3, <1>4

LEMMA CommandInitHolds == CommandInit => CInv
  <1> SUFFICES ASSUME CommandInit PROVE CInv
    OBVIOUS
  <1>1. CommandMemory
    <2>1. PICK text \in Lines : command = Buffer(text, <<>>)
      BY DEF CommandInit
    <2>2. /\ text \in Seq(Characters) /\ <<>> \in Seq(Characters) /\ Len(<<>>) = 0
          /\ MAX_FILENAME_LENGTH \in Nat /\ Len(text) \in Nat
      BY CommandsAssumption, LenProperties
    <2>3. command \in [0 .. Len(text) + 0 -> Characters] /\ command[Len(text)] = NUL
      BY <2>1, <2>2, BufferIs
    <2>4. \E top \in Nat : command \in [0 .. top -> Characters] /\ command[top] = NUL
      BY <2>2, <2>3
    <2>5. /\ DOMAIN filename = 0 .. MAX_FILENAME_LENGTH + 1
          /\ filename[MAX_FILENAME_LENGTH + 1] = NUL
          /\ DOMAIN fileargs = 0 .. MAX_ARG_LENGTH
      BY <2>2 DEF CommandInit
    <2>6. QED
      BY <2>4, <2>5 DEF CommandMemory
  <1>2. MAX_FILENAME_LENGTH \in Nat /\ MAX_ARG_LENGTH \in Nat
    BY CommandsAssumption
  <1>3. /\ \A j \in 0 .. MAX_FILENAME_LENGTH - 1 : filename[j] = NUL
        /\ \A j \in 0 .. MAX_ARG_LENGTH : fileargs[j] = NUL
        /\ i = 0 /\ offset = 0 /\ filename_flag = -1
    BY <1>2 DEF CommandInit
  <1>4. Seen(0, 0, 0)
    BY <1>2, <1>3 DEF Seen, Spaced, Named, Argued, FlagIs
  <1>5. Progress
    BY <1>1, <1>3, <1>4, CommandEnds DEF Progress, Early, CommandInit
  <1>6. SlotHeld /\ CommandUnderstood
    BY DEF SlotHeld, CommandUnderstood, CommandInit
  <1>7. QED
    BY <1>1, <1>5, <1>6 DEF CInv

\* After one more character the picture is one character longer, or the line
\* has a word or a rest longer than its array.
LEMMA SeenGoesOn ==
  ASSUME CommandMemory, i \in 0 .. strlen(command), command[i] # NUL, i' = i + 1,
         stage = "parsing", NEW k \in Nat, NEW e \in Nat, NEW m \in Nat, Seen(k, e, m),
         LeadingSpaces \/ NameCharacter \/ SpacesBehindName \/ ArgumentCharacter,
         command' = command
  PROVE  /\ CommandMemory'
         /\ i + 1 <= strlen(command)
         /\ \/ stage' = "parsing" /\ \E k1, e1, m1 \in Nat : Seen(k1, e1, m1)'
            \/ stage' = "derailed" /\
               \E word, rest \in Subsequences(TextOf(command)) :
                 /\ Means(TextOf(command), word, rest)
                 /\ Len(word) > MAX_FILENAME_LENGTH \/ Len(rest) > MAX_ARG_LENGTH
  <1> DEFINE end == strlen(command)
             text == TextOf(command)
  <1>1. /\ end \in Nat /\ command[end] = NUL
        /\ text \in Seq(Characters) /\ Len(text) = end
        /\ \A j \in 1 .. end : text[j] = command[j - 1]
        /\ MAX_FILENAME_LENGTH \in Nat /\ MAX_ARG_LENGTH \in Nat
    BY CommandEnds, CommandsAssumption
  <1>2. \A j \in 0 .. end - 1 : text[j + 1] = command[j]
    <2> SUFFICES ASSUME NEW j \in 0 .. end - 1 PROVE text[j + 1] = command[j]
      OBVIOUS
    <2> HIDE DEF text, end
    <2>1. j + 1 \in 1 .. end /\ (j + 1) - 1 = j
      BY <1>1
    <2>2. QED
      BY <1>1, <2>1
  <1> HIDE DEF end, text
  <1>n. i \in Nat /\ i <= end /\ i # end
    BY <1>1 DEF end
  <1> PICK next \in Nat : next = i + 1
    BY <1>n
  <1>3. /\ i \in Nat /\ next \in Nat /\ next <= end
        /\ next = i + 1 /\ next - 1 = i /\ i' = next
    BY <1>1, <1>n
  <1>4. /\ DOMAIN filename = 0 .. MAX_FILENAME_LENGTH + 1
        /\ DOMAIN fileargs = 0 .. MAX_ARG_LENGTH
        /\ filename[MAX_FILENAME_LENGTH + 1] = NUL
    BY DEF CommandMemory
  <1>5. /\ k <= e /\ e <= m /\ m <= i
        /\ e - k <= MAX_FILENAME_LENGTH /\ i - m <= MAX_ARG_LENGTH
        /\ Spaced(k, e, m) /\ Named(k, e - k) /\ Argued(m, i - m)
        /\ FlagIs(k, e, m)
    BY DEF Seen
  <1>6. CASE LeadingSpaces
    <2>1. /\ k = i /\ e = i /\ m = i /\ offset = 0 /\ filename_flag = -1
          /\ command[i] = Space
          /\ filename' = filename /\ fileargs' = fileargs /\ filename_flag' = -1
          /\ offset' = 0 /\ stage' = "parsing"
      BY <1>3, <1>5, <1>6 DEF LeadingSpaces, FlagIs
    <2>2. Spaced(next, next, next)'
      BY <1>3, <1>5, <2>1 DEF Spaced
    <2>3. Named(next, 0)'
      BY <1>1, <1>3, <1>5, <2>1 DEF Named
    <2>4. Argued(next, 0)'
      BY <1>1, <1>3, <1>5, <2>1 DEF Argued
    <2>5. FlagIs(next, next, next)'
      BY <1>3, <2>1 DEF FlagIs
    <2>6. Seen(next, next, next)'
      BY <1>1, <1>3, <2>2, <2>3, <2>4, <2>5 DEF Seen
    <2>7. CommandMemory'
      BY <2>1 DEF CommandMemory
    <2>8. QED
      BY <1>3, <2>1, <2>6, <2>7 DEF end
  <1>7. CASE NameCharacter
    <2>p. /\ e = i /\ m = i /\ offset = i - k /\ k <= i /\ command[i] # Space
          /\ i - k <= MAX_FILENAME_LENGTH
      BY <1>3, <1>5, <1>7 DEF NameCharacter, FlagIs
    <2> PICK at \in 0 .. MAX_FILENAME_LENGTH : at = offset
      BY <1>1, <1>3, <2>p
    <2>1. /\ e = i /\ m = i /\ offset = at /\ at = i - k /\ k <= i /\ command[i] # Space
          /\ at \in 0 .. MAX_FILENAME_LENGTH /\ at \in Nat /\ k + at = i
      BY <1>1, <1>3, <2>p
    <2>2. /\ filename' = [filename EXCEPT ![at] = command[i]]
          /\ offset' = at + 1 /\ filename_flag' = 0 /\ fileargs' = fileargs
          /\ stage' = IF at < MAX_FILENAME_LENGTH THEN stage ELSE "derailed"
      BY <1>7, <2>1 DEF NameCharacter
    <2>3. CommandMemory'
      BY <1>1, <1>4, <2>1, <2>2 DEF CommandMemory
    <2>4. \A j \in 0 .. i : (command[j] = Space) <=> ~(k <= j /\ j < next)
      BY <1>3, <1>5, <2>1 DEF Spaced
    <2>5. CASE at < MAX_FILENAME_LENGTH
      <3>1. Named(k, at + 1)'
        BY <1>1, <1>4, <1>5, <2>1, <2>2 DEF Named
      <3>2. Spaced(k, next, next)'
        BY <1>3, <2>4 DEF Spaced
      <3>3. Argued(next, 0)'
        BY <1>1, <1>3, <1>5, <2>1, <2>2 DEF Argued
      <3>4. next - k = at + 1 /\ next - next = 0
        BY <1>3, <2>1
      <3>5. FlagIs(k, next, next)'
        BY <1>3, <2>1, <2>2, <3>4 DEF FlagIs
      <3>6. Seen(k, next, next)'
        BY <1>1, <1>3, <2>1, <2>5, <3>1, <3>2, <3>3, <3>4, <3>5 DEF Seen
      <3>7. QED
        BY <1>3, <2>2, <2>3, <2>5, <3>6 DEF end
    <2>6. CASE ~(at < MAX_FILENAME_LENGTH)
      <3>1. k < next /\ next <= Len(text) /\ next - k > MAX_FILENAME_LENGTH
        BY <1>1, <1>3, <2>1, <2>6
      <3>2. \A j \in 0 .. next - 1 : (text[j + 1] = Space) <=> j < k
        <4>1. \A j \in 0 .. i : text[j + 1] = command[j]
          BY <1>1, <1>2, <1>3
        <4>2. \A j \in 0 .. i : (command[j] = Space) <=> j < k
          BY <1>3, <2>4
        <4>3. QED
          BY <1>3, <4>1, <4>2
      <3>3. PICK word, rest \in Subsequences(text) :
              Means(text, word, rest) /\ Len(word) >= next - k
        BY <1>1, <1>3, <3>1, <3>2, WordGoesOn
      <3>4. Len(word) > MAX_FILENAME_LENGTH
        <4>1. Len(word) \in Nat
          <5>1. PICK a \in 1 .. Len(text) + 1, b \in 0 .. Len(text) : word = SubSeq(text, a, b)
            BY DEF Subsequences
          <5>2. \A j \in a .. b : text[j] \in Characters
            BY <1>1, ElementOfSeq
          <5>3. QED
            BY <1>1, <5>1, <5>2, SubSeqProperties
        <4>2. QED
          BY <1>1, <1>3, <3>1, <3>3, <4>1
      <3>5. stage' = "derailed"
        BY <2>2, <2>6
      <3>6. QED
        BY <1>3, <2>3, <3>3, <3>4, <3>5 DEF end, text
    <2>7. QED
      BY <2>5, <2>6
  <1>8. CASE SpacesBehindName
    <2>1. /\ e <= i /\ m = i /\ k < e /\ command[i] = Space
          /\ filename_flag' = 1 /\ offset' = 0
          /\ filename' = filename /\ fileargs' = fileargs /\ stage' = stage
      BY <1>3, <1>5, <1>8 DEF SpacesBehindName, FlagIs
    <2>2. Spaced(k, e, next)'
      BY <1>3, <1>5, <2>1 DEF Spaced
    <2>3. Named(k, e - k)'
      BY <1>5, <2>1 DEF Named
    <2>4. Argued(next, 0)'
      BY <1>1, <1>3, <1>5, <2>1 DEF Argued
    <2>5. FlagIs(k, e, next)' /\ next - next = 0 /\ e <= next
      BY <1>3, <2>1 DEF FlagIs
    <2>6. Seen(k, e, next)'
      BY <1>1, <1>3, <1>5, <2>1, <2>2, <2>3, <2>4, <2>5 DEF Seen
    <2>7. CommandMemory'
      BY <2>1 DEF CommandMemory
    <2>8. QED
      BY <1>3, <2>1, <2>6, <2>7 DEF end
  <1>9. CASE ArgumentCharacter
    <2>p. /\ k < e /\ e < m /\ offset = i - m /\ command[m] # Space
      <3>1. \/ filename_flag = 1 /\ k < e /\ e < m /\ m = i /\ offset = 0
               /\ command[i] # Space
            \/ filename_flag = 2 /\ k < e /\ e < m /\ m < i /\ command[m] # Space
               /\ offset = i - m
        BY <1>5, <1>9 DEF ArgumentCharacter, FlagIs
      <3>2. QED
        BY <1>3, <1>5, <3>1
    <2> PICK at \in 0 .. MAX_ARG_LENGTH : at = offset
      BY <1>1, <1>3, <1>5, <2>p
    <2>1. /\ k < e /\ e < m /\ offset = at /\ at = i - m /\ command[m] # Space
          /\ at \in 0 .. MAX_ARG_LENGTH /\ at \in Nat /\ m + at = i
      BY <1>1, <1>3, <2>p
    <2>2. /\ fileargs' = [fileargs EXCEPT ![at] = command[i]]
          /\ offset' = at + 1 /\ filename_flag' = 2 /\ filename' = filename
          /\ stage' = IF at < MAX_ARG_LENGTH THEN stage ELSE "derailed"
      BY <1>9, <2>1 DEF ArgumentCharacter
    <2>3. CommandMemory'
      BY <1>1, <1>4, <2>1, <2>2 DEF CommandMemory
    <2>4. CASE at < MAX_ARG_LENGTH
      <3>1. Argued(m, at + 1)'
        <4>1. \A j \in 0 .. MAX_ARG_LENGTH :
                fileargs[j] = IF j < at THEN command[m + j] ELSE NUL
          BY <1>5, <2>1 DEF Argued
        <4>2. \A j \in 0 .. MAX_ARG_LENGTH :
                fileargs'[j] = IF j < at + 1 THEN command[m + j] ELSE NUL
          BY <1>1, <1>4, <2>1, <2>2, <4>1
        <4>3. QED
          BY <4>2 DEF Argued
      <3>2. Spaced(k, e, m)' /\ Named(k, e - k)'
        BY <1>5, <2>2 DEF Spaced, Named
      <3>3. next - m = at + 1 /\ m < next
        BY <1>3, <2>1
      <3>4. FlagIs(k, e, m)'
        BY <1>3, <2>1, <2>2, <3>3 DEF FlagIs
      <3>5. Seen(k, e, m)'
        <4>1. /\ k <= e /\ e <= m /\ m <= next
              /\ e - k <= MAX_FILENAME_LENGTH /\ next - m <= MAX_ARG_LENGTH
          BY <1>1, <1>3, <1>5, <2>1, <2>4, <3>3
        <4>2. Argued(m, next - m)'
          BY <3>1, <3>3
        <4>3. QED
          BY <1>3, <3>2, <3>4, <4>1, <4>2 DEF Seen
      <3>6. QED
        BY <1>3, <2>2, <2>3, <2>4, <3>5 DEF end
    <2>5. CASE ~(at < MAX_ARG_LENGTH)
      <3>1. Shaped(text, k, e, m)
        <4>1. \A j \in 0 .. m - 1 : text[j + 1] = command[j]
          <5>1. \A j \in 0 .. m - 1 : j \in 0 .. end - 1
            BY <1>1, <1>3, <1>5
          <5>2. QED
            BY <1>2, <5>1
        <4>2. QED
          BY <1>5, <4>1 DEF Spaced, Shaped
      <3>2. k < e /\ e < m /\ m < Len(text) /\ text[m + 1] # Space
        <4>1. m \in 0 .. end - 1 /\ m < end
          BY <1>1, <1>3, <1>5
        <4>2. text[m + 1] = command[m]
          BY <1>2, <4>1
        <4>3. QED
          BY <1>1, <2>1, <4>1, <4>2
      <3>3. PICK word, rest \in Subsequences(text) :
              Means(text, word, rest) /\ Len(rest) = Len(text) - m
        <4>1. text \in Seq(Characters)
          BY <1>1
        <4>2. k < e /\ e < m /\ m < Len(text) /\ text[m + 1] # Space
          BY <3>2
        <4>3. QED
          BY ONLY <3>1, <4>1, <4>2, RestGoesOn, k \in Nat, e \in Nat, m \in Nat
      <3>4. Len(rest) > MAX_ARG_LENGTH
        BY <1>1, <1>3, <2>1, <2>5, <3>3
      <3>5. stage' = "derailed"
        BY <2>2, <2>5
      <3>6. QED
        BY <1>3, <2>3, <3>3, <3>4, <3>5 DEF end, text
    <2>6. QED
      BY <2>4, <2>5
  <1>10. QED
    BY <1>6, <1>7, <1>8, <1>9

\* The line behind a picture of its first part.
LEMMA PictureIs ==
  ASSUME CommandMemory, i \in 0 .. strlen(command),
         NEW k \in Nat, NEW e \in Nat, NEW m \in Nat, Seen(k, e, m)
  PROVE  /\ Len(TextOf(command)) = strlen(command) /\ strlen(command) \in Nat
         /\ k <= e /\ e <= m /\ m <= strlen(command)
         /\ Shaped(TextOf(command), k, e, m)
         /\ \A j \in 0 .. strlen(command) - 1 :
              TextOf(command)[j + 1] = command[j] /\ command[j] # NUL
  <1> DEFINE end == strlen(command)
             text == TextOf(command)
  <1>1. /\ end \in Nat /\ Len(text) = end
        /\ \A j \in 0 .. end - 1 : command[j] # NUL
        /\ \A j \in 1 .. end : text[j] = command[j - 1]
    BY CommandEnds
  <1>2. i \in 0 .. end
    OBVIOUS
  <1> HIDE DEF end, text
  <1>3. \A j \in 0 .. end - 1 : text[j + 1] = command[j]
    <2> SUFFICES ASSUME NEW j \in 0 .. end - 1 PROVE text[j + 1] = command[j]
      OBVIOUS
    <2>1. j + 1 \in 1 .. end /\ (j + 1) - 1 = j
      BY <1>1
    <2>2. QED
      BY <1>1, <2>1
  <1>4. k <= e /\ e <= m /\ m <= i /\ Spaced(k, e, m)
    BY DEF Seen
  <1>5. m <= end
    BY <1>1, <1>2, <1>4
  <1>6. Shaped(text, k, e, m)
    <2>1. \A j \in 0 .. m - 1 : j \in 0 .. end - 1
      BY <1>1, <1>5
    <2>2. QED
      BY <1>3, <1>4, <2>1 DEF Shaped, Spaced
  <1>7. QED
    BY <1>1, <1>3, <1>4, <1>5, <1>6 DEF end, text

\* A name too long for the parser is no program's the line names.
LEMMA TooLongNamesNone ==
  ASSUME CommandMemory, i \in 0 .. strlen(command), TooLong,
         NEW k \in Nat, NEW e \in Nat, NEW m \in Nat, Seen(k, e, m)
  PROVE  ~NamesProgram(TextOf(command))
  <1> DEFINE text == TextOf(command)
  <1> SUFFICES ASSUME NEW a \in 0 .. Len(text), NEW b \in 0 .. Len(text),
                      FirstWord(text, a, b), b <= MAX_FILENAME_LENGTH
               PROVE  FALSE
    BY DEF NamesProgram
  <1>1. /\ Len(text) \in Nat /\ k <= e /\ e <= m /\ m <= Len(text)
        /\ Shaped(text, k, e, m) /\ i \in 0 .. Len(text)
    BY PictureIs
  <1>2. k < e /\ e = i /\ i > MAX_FILENAME_LENGTH
    <2>1. filename_flag = 0 /\ i > MAX_FILENAME_LENGTH
      BY DEF TooLong
    <2>2. QED
      BY <2>1 DEF Seen, FlagIs
  <1> HIDE DEF text
  <1>3. a \in Nat /\ b \in Nat
    BY <1>1
  <1>4. e <= b
    BY <1>1, <1>2, <1>3, SameWord
  <1>5. QED
    BY <1>1, <1>2, <1>3, <1>4, CommandsAssumption

\* A step that neither starts nor passes by nor refuses anything.
LEMMA NothingNew ==
  ASSUME CommandUnderstood, command' = command, rval' = rval \/ rval' # -1,
         stage' \notin {"running", "derailed", "not executed"}
  PROVE  CommandUnderstood'
  BY DEF CommandUnderstood

LEMMA ParserKeeps ==
  ASSUME CInv, Parse, UNCHANGED <<command, slot_free>>
  PROVE  CInv'
  <1>1. /\ CommandMemory /\ Progress /\ SlotHeld /\ CommandUnderstood
        /\ stage = "parsing" /\ command' = command
    BY DEF CInv, Parse
  <1>2. ~slot_taken /\ said = "nothing" /\ given[1] = 0
    BY <1>1 DEF SlotHeld, Progress, Early
  <1>3. /\ slot_taken' = slot_taken /\ said' = said /\ given' = given
    BY DEF Parse, Fail, outcomeVars
  <1>4. i \in 0 .. strlen(command)
    BY <1>1 DEF Progress
  <1>5. PICK k, e, m \in Nat : Seen(k, e, m)
    BY <1>1 DEF Progress
  <1>6. SlotHeld'
    BY <1>2, <1>3 DEF SlotHeld
  <1>7. CASE command[i] # NUL /\ TooLong /\ Fail /\ UNCHANGED parserVars
    <2>1. stage' = "returned"
      BY <1>7 DEF Fail
    <2>2. CommandMemory'
      BY <1>1, <1>7 DEF CommandMemory, parserVars
    <2>3. ~NamesProgram(TextOf(command))
      BY <1>1, <1>4, <1>5, <1>7, TooLongNamesNone
    <2>4. CommandUnderstood'
      BY <1>1, <2>1, <2>3 DEF CommandUnderstood
    <2>5. QED
      BY <1>6, <2>1, <2>2, <2>4 DEF CInv, Progress, Early
  <1>8. CASE /\ command[i] # NUL /\ i' = i + 1 /\ rval' = rval
             /\ LeadingSpaces \/ NameCharacter \/ SpacesBehindName \/ ArgumentCharacter
    <2>1. /\ CommandMemory' /\ i + 1 <= strlen(command)
          /\ \/ stage' = "parsing" /\ \E k1, e1, m1 \in Nat : Seen(k1, e1, m1)'
             \/ stage' = "derailed" /\
                \E word, rest \in Subsequences(TextOf(command)) :
                  /\ Means(TextOf(command), word, rest)
                  /\ Len(word) > MAX_FILENAME_LENGTH \/ Len(rest) > MAX_ARG_LENGTH
      BY <1>1, <1>4, <1>5, <1>8, SeenGoesOn
    <2>2. i' \in 0 .. strlen(command')
      BY <1>1, <1>4, <1>8, <2>1, CommandEnds
    <2>3. CASE stage' = "parsing"
      <3>1. \E k1, e1, m1 \in Nat : Seen(k1, e1, m1)'
        BY <2>1, <2>3
      <3>2. Progress'
        BY <1>2, <1>3, <2>2, <2>3, <3>1 DEF Progress, Early
      <3>3. CommandUnderstood'
        BY <1>1, <1>8, <2>3, NothingNew
      <3>4. QED
        BY <1>6, <2>1, <3>2, <3>3 DEF CInv
    <2>4. CASE stage' = "derailed"
      <3>1. \E word, rest \in Subsequences(TextOf(command)) :
              /\ Means(TextOf(command), word, rest)
              /\ Len(word) > MAX_FILENAME_LENGTH \/ Len(rest) > MAX_ARG_LENGTH
        BY <2>1, <2>4
      <3>2. Progress'
        BY <1>2, <1>3, <2>4 DEF Progress, Early
      <3>3. CommandUnderstood'
        BY <1>1, <1>8, <2>4, <3>1 DEF CommandUnderstood
      <3>4. QED
        BY <1>6, <2>1, <3>2, <3>3 DEF CInv
    <2>5. QED
      BY <2>1, <2>3, <2>4
  <1>9. CASE command[i] = NUL /\ stage' = "parsed" /\ UNCHANGED parserVars /\ rval' = rval
    <2>1. CommandMemory' /\ Seen(k, e, m)'
      BY <1>1, <1>5, <1>9
         DEF CommandMemory, parserVars, Seen, Spaced, Named, Argued, FlagIs
    <2>2. Progress'
      BY <1>1, <1>2, <1>3, <1>4, <1>9, <2>1 DEF Progress, Early, parserVars
    <2>3. CommandUnderstood'
      BY <1>1, <1>9, NothingNew
    <2>4. QED
      BY <1>6, <2>1, <2>2, <2>3 DEF CInv
  <1>10. QED
    BY <1>7, <1>8, <1>9 DEF Parse, outcomeVars

-----------------------------------------------------------------------------
(* Commands: the checks and the program's arguments *)

\* Behind the whole line, what is found in the directory is the first word.
LEMMA FoundIsWord ==
  ASSUME CommandMemory, i \in 0 .. strlen(command), command[i] = NUL,
         NEW k \in Nat, NEW e \in Nat, NEW m \in Nat, Seen(k, e, m),
         NEW name \in read_dentry_by_name(filename)
  PROVE  \E word, rest \in Subsequences(TextOf(command)) :
           /\ Means(TextOf(command), word, rest)
           /\ \A other \in read_dentry_by_name(filename) : other = word
           /\ rest = TextOf(Arguments)
  <1> DEFINE end == strlen(command)
             text == TextOf(command)
  <1>1. /\ end \in Nat /\ \A j \in 0 .. end - 1 : command[j] # NUL
        /\ text \in Seq(Characters) /\ Len(text) = end
        /\ \A j \in 1 .. end : text[j] = command[j - 1]
        /\ MAX_FILENAME_LENGTH \in Nat /\ MAX_ARG_LENGTH \in Nat
    BY CommandEnds, CommandsAssumption
  <1>2. \A j \in 0 .. end - 1 : text[j + 1] = command[j]
    <2> SUFFICES ASSUME NEW j \in 0 .. end - 1 PROVE text[j + 1] = command[j]
      OBVIOUS
    <2> HIDE DEF text, end
    <2>1. j + 1 \in 1 .. end /\ (j + 1) - 1 = j
      BY <1>1
    <2>2. QED
      BY <1>1, <2>1
  <1>3. i \in 0 .. end
    OBVIOUS
  <1> HIDE DEF end, text
  <1>4. i = end
    BY <1>1, <1>3
  <1>5. /\ k <= e /\ e <= m /\ m <= end
        /\ e - k <= MAX_FILENAME_LENGTH /\ end - m <= MAX_ARG_LENGTH
        /\ Spaced(k, e, m) /\ Named(k, e - k) /\ Argued(m, end - m)
        /\ FlagIs(k, e, m)
    BY <1>4 DEF Seen
  <1>6. MAX_FILENAME_LENGTH > 0 /\ filename[0] # NUL
    <2>1. name \in Directory /\ filename[0] # NUL
      BY DEF read_dentry_by_name, Matches
    <2>2. Len(name) \in 1 .. MAX_FILENAME_LENGTH
      BY <2>1, CommandsAssumption
    <2>3. QED
      BY <1>1, <2>1, <2>2
  <1>7. k < e
    <2>1. 0 < e - k
      BY <1>1, <1>5, <1>6 DEF Named
    <2>2. QED
      BY <2>1
  <1>8. m < end => e < m /\ command[m] # Space
    BY <1>1, <1>4, <1>5 DEF FlagIs
  <1>9. Shaped(text, k, e, m)
    <2>1. \A j \in 0 .. m - 1 : j \in 0 .. end - 1
      BY <1>1, <1>5
    <2>2. \A j \in 0 .. m - 1 : text[j + 1] = command[j]
      BY <1>2, <2>1
    <2>3. QED
      BY <1>5, <2>2 DEF Shaped, Spaced
  <1>10. m < Len(text) => m > e /\ text[m + 1] # Space
    <2>1. m < end => m \in 0 .. end - 1
      BY <1>1
    <2>2. QED
      BY <1>1, <1>2, <1>8, <2>1
  <1>11. PICK word, rest \in Subsequences(text) :
           /\ Means(text, word, rest)
           /\ word \in Seq(Characters) /\ rest \in Seq(Characters)
           /\ Len(word) = e - k /\ Len(rest) = Len(text) - m
           /\ \A j \in 1 .. e - k : word[j] = text[k + j]
           /\ \A j \in 1 .. Len(text) - m : rest[j] = text[m + j]
    <2>1. text \in Seq(Characters) /\ Len(text) = end
      BY <1>1
    <2>2. k < e /\ e <= m /\ m <= Len(text)
      BY <1>1, <1>5, <1>7
    <2>3. QED
      BY ONLY <1>9, <1>10, <2>1, <2>2, MeansIs, k \in Nat, e \in Nat, m \in Nat
  <1>12. ASSUME NEW other \in read_dentry_by_name(filename)
         PROVE  other = word
    <2> DEFINE size_of == Len(word)
    <2>1. size_of \in Nat /\ size_of = e - k /\ size_of <= MAX_FILENAME_LENGTH
      BY <1>5, <1>11, LenProperties
    <2> HIDE DEF size_of
    <2>2. \A j \in 0 .. size_of - 1 : filename[j] = word[j + 1] /\ filename[j] # NUL
      <3> SUFFICES ASSUME NEW j \in 0 .. size_of - 1
                   PROVE  filename[j] = word[j + 1] /\ filename[j] # NUL
        OBVIOUS
      <3>1. filename[j] = command[k + j]
        <4>1. j \in 0 .. MAX_FILENAME_LENGTH - 1 /\ j < e - k
          BY <1>1, <2>1
        <4>2. Named(k, e - k)
          BY <1>5
        <4>3. QED
          BY <4>1, <4>2 DEF Named
      <3>2. word[j + 1] = text[(k + j) + 1]
        <4>1. j + 1 \in 1 .. e - k
          BY <2>1
        <4>2. k + (j + 1) = (k + j) + 1
          BY <2>1
        <4>3. \A at \in 1 .. e - k : word[at] = text[k + at]
          BY <1>11
        <4>4. word[j + 1] = text[k + (j + 1)]
          BY ONLY <4>1, <4>3
        <4>5. QED
          BY <4>2, <4>4
      <3>3. k + j \in 0 .. end - 1
        BY <1>1, <1>5, <2>1
      <3>4. QED
        BY <1>1, <1>2, <3>1, <3>2, <3>3
    <2>3. size_of < MAX_FILENAME_LENGTH => filename[size_of] = NUL
      BY <1>1, <1>5, <2>1 DEF Named
    <2>4. /\ DOMAIN filename = 0 .. MAX_FILENAME_LENGTH + 1
          /\ filename[MAX_FILENAME_LENGTH + 1] = NUL
      BY DEF CommandMemory
    <2>5. QED
      BY ONLY <1>11, <2>1, <2>2, <2>3, <2>4, OnlyItsName,
              other \in read_dentry_by_name(filename) DEF size_of
  <1>13. rest = TextOf(Arguments)
    <2> DEFINE len == end - m
    <2>1. len \in 0 .. MAX_ARG_LENGTH
      BY <1>1, <1>5
    <2>2. Len(rest) = len
      BY <1>1, <1>11
    <2> HIDE DEF len
    <2>3. /\ DOMAIN Arguments = 0 .. MAX_ARG_LENGTH
          /\ \A j \in 0 .. MAX_ARG_LENGTH :
               Arguments[j] = IF j < len THEN command[m + j] ELSE NUL
      BY <1>1, <1>5, <2>1 DEF Arguments, Argued, len
    <2>4. \A j \in 0 .. len - 1 : /\ Arguments[j] = command[m + j]
                                  /\ m + j \in 0 .. end - 1
      <3> SUFFICES ASSUME NEW j \in 0 .. len - 1
                   PROVE  Arguments[j] = command[m + j] /\ m + j \in 0 .. end - 1
        OBVIOUS
      <3>1. j \in 0 .. MAX_ARG_LENGTH /\ j < len
        BY <1>1, <2>1
      <3>2. m + j \in 0 .. end - 1
        BY <1>1, <1>5, <3>1 DEF len
      <3>3. QED
        BY <2>3, <3>1, <3>2
    <2>5. strlen(Arguments) = len
      <3>1. Arguments[len] = NUL /\ \A j \in 0 .. len - 1 : Arguments[j] # NUL
        <4>1. len \in 0 .. MAX_ARG_LENGTH /\ ~(len < len)
          BY <1>1, <2>1
        <4>2. Arguments[len] = NUL
          BY <2>3, <4>1
        <4>3. QED
          BY <1>1, <2>4, <4>2
      <3>2. QED
        BY <1>1, <2>1, <2>3, <3>1, TerminatorIs
    <2>6. TextOf(Arguments) = [j \in 1 .. len |-> Arguments[j - 1]]
      BY <2>5 DEF TextOf
    <2>7. \A j \in 1 .. len : Arguments[j - 1] = rest[j]
      <3> SUFFICES ASSUME NEW j \in 1 .. len PROVE Arguments[j - 1] = rest[j]
        OBVIOUS
      <3>1. j - 1 \in 0 .. len - 1 /\ (m + (j - 1)) + 1 = m + j
        BY <2>1
      <3>2. Arguments[j - 1] = text[m + j]
        BY <1>2, <2>4, <3>1
      <3>3. QED
        BY <1>1, <1>11, <3>2 DEF len
    <2>8. TextOf(Arguments) \in Seq(Characters) /\ Len(TextOf(Arguments)) = len
      <3>1. \A j \in 1 .. len : rest[j] \in Characters
        BY <1>11, <2>2, ElementOfSeq
      <3>2. len \in Nat
        BY <1>1, <2>1
      <3>3. QED
        BY <2>6, <2>7, <3>1, <3>2
    <2>9. \A j \in 1 .. len : TextOf(Arguments)[j] = rest[j]
      BY <2>6, <2>7
    <2>10. QED
      BY <1>11, <2>2, <2>8, <2>9, SeqEqual
  <1>14. QED
    BY <1>11, <1>12, <1>13 DEF text

\* Behind the whole line, the program it names is found, and nothing else.
LEMMA NamedIsFound ==
  ASSUME CommandMemory, i \in 0 .. strlen(command), command[i] = NUL,
         NEW k \in Nat, NEW e \in Nat, NEW m \in Nat, Seen(k, e, m),
         NamesProgram(TextOf(command))
  PROVE  \E name \in read_dentry_by_name(filename) :
           /\ KindOf[name] = "program"
           /\ \A other \in read_dentry_by_name(filename) : other = name
  <1> DEFINE text == TextOf(command)
             end == strlen(command)
  <1>1. /\ Len(text) = end /\ end \in Nat /\ k <= e /\ e <= m /\ m <= end
        /\ Shaped(text, k, e, m) /\ i \in 0 .. end
        /\ \A j \in 0 .. end - 1 : text[j + 1] = command[j] /\ command[j] # NUL
    BY PictureIs
  <1>2. PICK a \in 0 .. Len(text), b \in 0 .. Len(text) :
          /\ FirstWord(text, a, b)
          /\ b <= MAX_FILENAME_LENGTH /\ b - a < MAX_FILENAME_LENGTH
          /\ SubSeq(text, a + 1, b) \in Directory
          /\ KindOf[SubSeq(text, a + 1, b)] = "program"
    BY DEF NamesProgram
  <1> DEFINE word == SubSeq(text, a + 1, b)
  <1>3. i = end
    BY <1>1
  <1>4. m = end \/ (k < e /\ e < m)
    BY <1>1, <1>3 DEF Seen, FlagIs
  <1>t. text \in Seq(Characters)
    BY CommandEnds
  <1> HIDE DEF text, end
  <1>5. a = k /\ b = e /\ k < e /\ a \in Nat /\ b \in Nat
    <2>1. a \in Nat /\ b \in Nat
      BY <1>1, <1>2
    <2>e. /\ Len(text) \in Nat /\ k <= e /\ e <= m /\ m <= Len(text)
          /\ Shaped(text, k, e, m) /\ FirstWord(text, a, b)
          /\ m = Len(text) \/ (k < e /\ e < m)
      BY <1>1, <1>2, <1>4
    <2>2. k < e /\ b = e
      BY ONLY <2>1, <2>e, SameWord, k \in Nat, e \in Nat, m \in Nat
    <2>3. a = k
      BY ONLY <2>1, <2>2, <2>e, SameWord, k \in Nat, e \in Nat, m \in Nat
    <2>4. QED
      BY <2>1, <2>2, <2>3
  <1> PICK len \in Nat : len = e - k
    BY <1>5
  <1>6. len \in 1 .. MAX_FILENAME_LENGTH - 1 /\ k + len = e /\ MAX_FILENAME_LENGTH \in Nat
        /\ b - a = len
    BY <1>2, <1>5, CommandsAssumption
  <1>7. Len(word) = len /\ \A j \in 1 .. len : word[j] = text[k + j]
    <2>1. \A j \in a + 1 .. b : text[j] \in Characters
      BY <1>1, <1>2, <1>t, ElementOfSeq
    <2>2. /\ Len(word) = IF a + 1 <= b THEN b - (a + 1) + 1 ELSE 0
          /\ \A j \in 1 .. b - (a + 1) + 1 : word[j] = text[(a + 1) + j - 1]
      BY <1>5, <2>1, SubSeqProperties
    <2>3. QED
      BY <1>5, <1>6, <2>2
  <1> HIDE DEF word
  <1>8. /\ \A j \in 0 .. len - 1 : filename[j] = word[j + 1] /\ filename[j] # NUL
        /\ filename[len] = NUL
    <2>1. Named(k, e - k)
      BY DEF Seen
    <2>2. \A j \in 0 .. MAX_FILENAME_LENGTH - 1 :
            filename[j] = IF j < len THEN command[k + j] ELSE NUL
      BY <2>1 DEF Named
    <2>3. filename[len] = NUL
      BY <1>6, <2>2
    <2>4. ASSUME NEW j \in 0 .. len - 1
          PROVE  filename[j] = word[j + 1] /\ filename[j] # NUL
      <3>1. filename[j] = command[k + j] /\ k + j \in 0 .. end - 1
        BY <1>1, <1>6, <2>2
      <3>2. text[(k + j) + 1] = command[k + j] /\ command[k + j] # NUL
        BY <1>1, <3>1
      <3>3. word[j + 1] = text[(k + j) + 1]
        <4>1. j + 1 \in 1 .. len
          BY <1>6
        <4>2. k + (j + 1) = (k + j) + 1
          BY <1>6
        <4>3. \A at \in 1 .. len : word[at] = text[k + at]
          BY <1>7
        <4>4. word[j + 1] = text[k + (j + 1)]
          BY ONLY <4>1, <4>3
        <4>5. QED
          BY <4>2, <4>4
      <3>4. QED
        BY <3>1, <3>2, <3>3
    <2>5. QED
      BY <2>3, <2>4
  <1>9. strlen(filename) = len
    <2>1. DOMAIN filename = 0 .. MAX_FILENAME_LENGTH + 1
      BY DEF CommandMemory
    <2>2. len \in 0 .. MAX_FILENAME_LENGTH + 1 /\ MAX_FILENAME_LENGTH + 1 \in Nat
      BY <1>6
    <2>3. QED
      BY <1>8, <2>1, <2>2, TerminatorIs
  <1>10. word \in Directory /\ KindOf[word] = "program"
    BY <1>2 DEF word
  <1>11. /\ \A j \in 0 .. len - 1 : /\ EntryBytes(word)[j] = word[j + 1]
                                     /\ EntryBytes(word)[j] # NUL
         /\ TruncatedLength(EntryBytes(word)) = len
    BY <1>6, <1>7, <1>10, EntryIs
  <1>12. strncmp(EntryBytes(word), filename, len)
    <2>1. \A j \in 0 .. len - 1 : /\ EntryBytes(word)[j] = filename[j]
                                  /\ EntryBytes(word)[j] # NUL
      BY <1>8, <1>11
    <2>2. len \in 0 .. len /\ ~(len < len)
      OBVIOUS
    <2>3. QED
      BY <2>1, <2>2 DEF strncmp
  <1>13. word \in read_dentry_by_name(filename)
    <2>1. filename[0] # NUL
      BY <1>6, <1>8
    <2>2. QED
      BY <1>9, <1>10, <1>11, <1>12, <2>1 DEF read_dentry_by_name, Matches
  <1>14. \A other \in read_dentry_by_name(filename) : other = word
    BY <1>13, FoundIsWord
  <1>15. QED
    BY <1>10, <1>13, <1>14

-----------------------------------------------------------------------------
(* Commands: the steps *)

Parsed == <<command, slot_free, parserVars>>

\* A step behind the parser leaves its picture of the line alone.
LEMMA PictureStays ==
  ASSUME CommandMemory, UNCHANGED Parsed
  PROVE  /\ CommandMemory' /\ Arguments' = Arguments
         /\ strlen(command') = strlen(command)
         /\ TextOf(command') = TextOf(command)
         /\ \A name : name \in read_dentry_by_name(filename)
                        <=> name \in read_dentry_by_name(filename')
         /\ (\E k, e, m \in Nat : Seen(k, e, m)) => \E k, e, m \in Nat : Seen(k, e, m)'
  <1>1. command' = command /\ i' = i /\ offset' = offset /\ filename' = filename
        /\ fileargs' = fileargs /\ filename_flag' = filename_flag
    BY DEF Parsed, parserVars
  <1>2. CommandMemory' /\ Arguments' = Arguments
    BY <1>1 DEF CommandMemory, Arguments
  <1>3. ASSUME NEW k \in Nat, NEW e \in Nat, NEW m \in Nat, Seen(k, e, m)
        PROVE  Seen(k, e, m)'
    BY <1>1, <1>3 DEF Seen, Spaced, Named, Argued, FlagIs
  <1>4. QED
    BY <1>1, <1>2, <1>3

\* A line the shell does not execute is empty or "exit".
LEMMA PassedBy ==
  ASSUME CommandMemory,
         ece391_strcmp(command, Buffer(ExitLine, <<>>)) \/ command[0] = NUL
  PROVE  TextOf(command) \in {<<>>, ExitLine}
  <1>1. CASE command[0] = NUL
    <2>1. strlen(command) = 0
      BY <1>1, CommandEnds
    <2>2. TextOf(command) = <<>>
      BY <2>1 DEF TextOf
    <2>3. QED
      BY <2>2
  <1>2. CASE ece391_strcmp(command, Buffer(ExitLine, <<>>))
    <2> DEFINE exit == Buffer(ExitLine, <<>>)
               len == Len(ExitLine)
    <2>1. ExitLine \in Seq(Characters) /\ <<>> \in Seq(Characters) /\ Len(<<>>) = 0
      BY CommandsAssumption
    <2>2. len \in Nat /\ ExitLine = [j \in 1 .. len |-> ExitLine[j]]
      BY <2>1, LenProperties
    <2>3. \A j \in 1 .. len : ExitLine[j] # NUL
      BY CommandsAssumption, ElementOfSeq
    <2>4. /\ DOMAIN exit = 0 .. len /\ exit[len] = NUL
          /\ \A j \in 0 .. len - 1 : exit[j] = ExitLine[j + 1]
      <3>1. exit \in [0 .. len + 0 -> Characters] /\ exit[len] = NUL
            /\ \A j \in 0 .. len - 1 : exit[j] = ExitLine[j + 1]
        BY <2>1, BufferIs
      <3>2. QED
        BY <2>2, <3>1
    <2> HIDE DEF exit, len
    <2>5. \A j \in 0 .. len - 1 : exit[j] # NUL
      <3> SUFFICES ASSUME NEW j \in 0 .. len - 1 PROVE exit[j] # NUL
        OBVIOUS
      <3>1. j + 1 \in 1 .. len
        BY <2>2
      <3>2. QED
        BY <2>3, <2>4, <3>1
    <2>6. strlen(exit) = len
      BY <2>2, <2>4, <2>5, TerminatorIs
    <2>7. TextOf(exit) = [j \in 1 .. len |-> exit[j - 1]]
      BY <2>6 DEF TextOf
    <2>8. \A j \in 1 .. len : exit[j - 1] = ExitLine[j]
      <3> SUFFICES ASSUME NEW j \in 1 .. len PROVE exit[j - 1] = ExitLine[j]
        OBVIOUS
      <3>1. j - 1 \in 0 .. len - 1 /\ (j - 1) + 1 = j
        BY <2>2
      <3>2. QED
        BY <2>4, <3>1
    <2>9. TextOf(exit) = ExitLine
      BY <2>2, <2>7, <2>8
    <2>10. QED
      BY <1>2, <2>9 DEF ece391_strcmp, exit
  <1>3. QED
    BY <1>1, <1>2

LEMMA ShellReadsKeeps ==
  ASSUME CInv, ShellReads, UNCHANGED <<command, slot_free>>
  PROVE  CInv'
  <1>1. /\ CommandMemory /\ Progress /\ SlotHeld /\ CommandUnderstood /\ stage = "typed"
        /\ stage' \in {"not executed", "parsing"}
    BY DEF CInv, ShellReads
  <1>2. UNCHANGED Parsed /\ UNCHANGED outcomeVars
    BY DEF ShellReads, Parsed
  <1>3. CommandMemory' /\ strlen(command') = strlen(command) /\ i' = i
        /\ ((\E k, e, m \in Nat : Seen(k, e, m)) => \E k, e, m \in Nat : Seen(k, e, m)')
    BY <1>1, <1>2, PictureStays DEF Parsed, parserVars
  <1>4. Progress'
    BY <1>1, <1>2, <1>3 DEF Progress, Early, outcomeVars
  <1>5. SlotHeld'
    BY <1>1, <1>2 DEF SlotHeld, outcomeVars
  <1>6. command' = command /\ rval' = rval
    BY <1>2 DEF Parsed, outcomeVars
  <1>7. stage' = "not executed" => TextOf(command) \in {<<>>, ExitLine}
    BY <1>1, PassedBy DEF ShellReads
  <1>8. CommandUnderstood'
    BY <1>1, <1>6, <1>7 DEF CommandUnderstood
  <1>9. QED
    BY <1>3, <1>4, <1>5, <1>8 DEF CInv

LEMMA CheckKeeps ==
  ASSUME CInv, Check, UNCHANGED <<command, slot_free>>
  PROVE  CInv'
  <1>1. /\ CommandMemory /\ Progress /\ SlotHeld /\ CommandUnderstood /\ stage = "parsed"
        /\ UNCHANGED <<slot_taken, argbuf, given, said>>
    BY DEF CInv, Check
  <1>2. UNCHANGED Parsed
    BY DEF Check, Parsed
  <1>3. /\ CommandMemory' /\ strlen(command') = strlen(command) /\ i' = i
        /\ ((\E k, e, m \in Nat : Seen(k, e, m)) => \E k, e, m \in Nat : Seen(k, e, m)')
        /\ command' = command /\ filename' = filename
    BY <1>1, <1>2, PictureStays DEF Parsed, parserVars
  <1>4. \/ stage' = "returned"
        \/ /\ stage' = "accepted"
           /\ \E name \in read_dentry_by_name(filename) : TRUE \in HeaderAccepted(name)
    BY DEF Check, Fail
  <1>5. Progress'
    BY <1>1, <1>3, <1>4 DEF Progress, Early
  <1>6. SlotHeld'
    BY <1>1, <1>4 DEF SlotHeld
  <1>7. CASE stage' = "accepted" /\ rval' = rval
    <2>1. CommandUnderstood'
      BY <1>1, <1>3, <1>7, NothingNew
    <2>2. QED
      BY <1>3, <1>5, <1>6, <2>1 DEF CInv
  <1>8. CASE /\ Fail
             /\ read_dentry_by_name(filename) = {} \/
                  \E other \in read_dentry_by_name(filename) : FALSE \in HeaderAccepted(other)
    <2>1. ~NamesProgram(TextOf(command))
      <3> SUFFICES ASSUME NamesProgram(TextOf(command)) PROVE FALSE
        OBVIOUS
      <3>1. i \in 0 .. strlen(command) /\ command[i] = NUL
        BY <1>1 DEF Progress
      <3>2. PICK k, e, m \in Nat : Seen(k, e, m)
        BY <1>1 DEF Progress
      <3>3. PICK name \in read_dentry_by_name(filename) :
              /\ KindOf[name] = "program"
              /\ \A other \in read_dentry_by_name(filename) : other = name
        BY <1>1, <3>1, <3>2, NamedIsFound
      <3>4. HeaderAccepted(name) = {TRUE}
        BY <3>3 DEF HeaderAccepted
      <3>5. QED
        BY <1>8, <3>3, <3>4
    <2>2. CommandUnderstood'
      BY <1>1, <1>3, <1>8, <2>1 DEF CommandUnderstood, Fail
    <2>3. QED
      BY <1>3, <1>5, <1>6, <2>2 DEF CInv
  <1>9. QED
    BY <1>7, <1>8 DEF Check

LEMMA StartKeeps ==
  ASSUME CInv, Start, UNCHANGED <<command, slot_free>>
  PROVE  CInv'
  <1>1. /\ CommandMemory /\ Progress /\ SlotHeld /\ CommandUnderstood /\ stage = "accepted"
        /\ UNCHANGED <<given, said>>
    BY DEF CInv, Start
  <1>2. UNCHANGED Parsed
    BY DEF Start, Parsed
  <1>3. /\ CommandMemory' /\ strlen(command') = strlen(command) /\ i' = i
        /\ Arguments' = Arguments /\ TextOf(command') = TextOf(command)
        /\ ((\E k, e, m \in Nat : Seen(k, e, m)) => \E k, e, m \in Nat : Seen(k, e, m)')
        /\ command' = command /\ filename' = filename
    BY <1>1, <1>2, PictureStays DEF Parsed, parserVars
  <1>4. /\ ~slot_taken /\ said = "nothing" /\ given[1] = 0
        /\ i \in 0 .. strlen(command) /\ command[i] = NUL
    BY <1>1 DEF SlotHeld, Progress, Early
  <1>5. CASE ~slot_free /\ stage' = "returned" /\ slot_taken' = slot_taken /\ rval' = 0
    <2>1. Progress' /\ SlotHeld'
      BY <1>1, <1>4, <1>5 DEF Progress, Early, SlotHeld
    <2>2. CommandUnderstood'
      BY <1>1, <1>3, <1>5, NothingNew
    <2>3. QED
      BY <1>3, <2>1, <2>2 DEF CInv
  <1>6. ASSUME NEW name \in read_dentry_by_name(filename),
               KindOf[name] = "corrupt", Fail
        PROVE  CInv'
    <2>1. stage' = "returned"
      BY <1>6 DEF Fail
    <2>2. Progress'
      BY <2>1 DEF Progress, Early
    <2>3. SlotHeld'
      BY <1>1, <1>3, <1>4, <1>6, <2>1 DEF SlotHeld
    <2>4. ~NamesProgram(TextOf(command))
      <3>1. PICK k, e, m \in Nat : Seen(k, e, m)
        BY <1>1 DEF Progress
      <3>2. NamesProgram(TextOf(command)) => KindOf[name] = "program"
        BY <1>1, <1>4, <3>1, NamedIsFound
      <3>3. QED
        BY <1>6, <3>2
    <2>5. CommandUnderstood'
      BY <1>1, <1>3, <2>1, <2>4 DEF CommandUnderstood
    <2>6. QED
      BY <1>3, <2>2, <2>3, <2>5 DEF CInv
  <1>7. ASSUME NEW name \in read_dentry_by_name(filename), KindOf[name] # "corrupt",
               argbuf' = Arguments, stage' = "running", rval' = rval
        PROVE  CInv'
    <2>1. PICK k, e, m \in Nat : Seen(k, e, m)
      BY <1>1 DEF Progress
    <2>2. PICK word, rest \in Subsequences(TextOf(command)) :
            /\ Means(TextOf(command), word, rest)
            /\ \A other \in read_dentry_by_name(filename) : other = word
            /\ rest = TextOf(Arguments)
      BY <1>1, <1>4, <2>1, FoundIsWord
    <2>3. name \in Directory
      BY DEF read_dentry_by_name
    <2>4. PICK first \in read_dentry_by_name(filename) : TRUE \in HeaderAccepted(first)
      BY <1>1 DEF Progress
    <2>5. first = name
      BY <2>2, <2>4
    <2>6. KindOf[name] \in {"program", "short"}
      <3>1. KindOf[name] \in {"program", "text", "short", "corrupt"}
        BY <2>3, CommandsAssumption
      <3>2. KindOf[name] # "text"
        <4>1. KindOf[name] = "text" => HeaderAccepted(name) = {FALSE}
          BY DEF HeaderAccepted
        <4>2. QED
          BY <2>4, <2>5, <4>1
      <3>3. QED
        BY <1>7, <3>1, <3>2
    <2>7. CommandUnderstood'
      <3>1. \E w, r \in Subsequences(TextOf(command')) :
              /\ Means(TextOf(command'), w, r)
              /\ w \in Directory /\ KindOf[w] \in {"program", "short"}
              /\ TextOf(argbuf') = r
        BY <1>3, <1>7, <2>2, <2>3, <2>5, <2>6
      <3>2. given'[1] = 0
        BY <1>1, <1>4
      <3>3. QED
        BY <1>1, <1>3, <1>7, <3>1, <3>2 DEF CommandUnderstood
    <2>8. Progress'
      BY <1>1, <1>3, <1>4, <1>7, <2>1 DEF Progress, Early
    <2>9. SlotHeld'
      BY <1>1, <1>4, <1>7 DEF SlotHeld
    <2>10. QED
      BY <1>3, <2>7, <2>8, <2>9 DEF CInv
  <1>8. QED
    BY <1>5, <1>6, <1>7 DEF Start

LEMMA GetargsKeeps ==
  ASSUME CInv, NEW nbytes \in Requests, getargs(nbytes), UNCHANGED <<command, slot_free>>
  PROVE  CInv'
  <1>1. /\ CommandMemory /\ Progress /\ SlotHeld /\ CommandUnderstood /\ stage = "running"
        /\ stage' = stage /\ slot_taken' = slot_taken /\ argbuf' = argbuf /\ said' = said
        /\ rval' = rval
    BY DEF CInv, getargs
  <1>2. UNCHANGED Parsed
    BY DEF getargs, Parsed
  <1>3. /\ CommandMemory' /\ strlen(command') = strlen(command) /\ i' = i
        /\ Arguments' = Arguments /\ TextOf(command') = TextOf(command)
        /\ ((\E k, e, m \in Nat : Seen(k, e, m)) => \E k, e, m \in Nat : Seen(k, e, m)')
        /\ command' = command /\ filename' = filename
    BY <1>1, <1>2, PictureStays DEF Parsed, parserVars
  <1>4. Progress'
    BY <1>1, <1>3 DEF Progress, Early
  <1>5. SlotHeld'
    BY <1>1, <1>3 DEF SlotHeld
  <1>6. PICK word, rest \in Subsequences(TextOf(command)) :
          /\ Means(TextOf(command), word, rest)
          /\ word \in Directory /\ KindOf[word] \in {"program", "short"}
          /\ TextOf(argbuf) = rest
    BY <1>1 DEF CommandUnderstood
  <1>7. strlen(argbuf) \in Nat
    <2>1. argbuf = Arguments
      BY <1>1 DEF Progress
    <2>2. MAX_ARG_LENGTH \in Nat /\ DOMAIN argbuf = 0 .. MAX_ARG_LENGTH
          /\ argbuf[MAX_ARG_LENGTH] = NUL /\ MAX_ARG_LENGTH \in 0 .. MAX_ARG_LENGTH
      BY <2>1, CommandsAssumption DEF Arguments
    <2>3. QED
      BY <2>2, Terminator
  <1>8. Len(rest) = strlen(argbuf) /\ (rest = <<>> <=> Len(rest) = 0)
    <2> DEFINE len == strlen(argbuf)
    <2>1. rest = [j \in 1 .. len |-> argbuf[j - 1]] /\ len \in Nat
      BY <1>6, <1>7 DEF TextOf
    <2> HIDE DEF len
    <2>2. Len(rest) = len
      BY <2>1
    <2>3. len = 0 => rest = <<>>
      BY <2>1
    <2>4. QED
      BY <2>2, <2>3 DEF len
  <1>9. given' = IF Fits(Len(rest), nbytes)
                 THEN <<nbytes, 0, rest \o <<NUL>>>> ELSE <<nbytes, -1, <<>>>>
    BY <1>6, <1>8 DEF getargs
  <1>10. IF rest = <<>> \/ Len(rest) + 1 > nbytes
         THEN given'[2] = -1
         ELSE given'[2] = 0 /\ given'[3] = rest \o <<NUL>>
    <2>1. nbytes \in Int
      BY CommandsAssumption
    <2>2. Fits(Len(rest), nbytes) <=> ~(rest = <<>> \/ Len(rest) + 1 > nbytes)
      BY <1>7, <1>8, <2>1 DEF Fits
    <2>3. QED
      BY <1>9, <2>2
  <1>11. given'[1] = nbytes
    BY <1>9
  <1>12. CommandUnderstood'
    BY <1>1, <1>3, <1>6, <1>10, <1>11 DEF CommandUnderstood
  <1>13. QED
    BY <1>3, <1>4, <1>5, <1>12 DEF CInv

LEMMA EndKeeps ==
  ASSUME CInv, Ends \/ ShellReports, UNCHANGED <<command, slot_free>>
  PROVE  CInv'
  <1>1. /\ CommandMemory /\ Progress /\ SlotHeld /\ CommandUnderstood
        /\ stage \in {"running", "returned"}
        /\ stage' \in {"returned", "reported"}
    BY DEF CInv, Ends, ShellReports
  <1>2. UNCHANGED Parsed
    BY DEF Ends, ShellReports, Parsed
  <1>3. CommandMemory' /\ filename' = filename
    BY <1>1, <1>2, PictureStays DEF Parsed, parserVars
  <1>4. Progress'
    BY <1>1 DEF Progress, Early
  <1>5. CommandUnderstood'
    <2>1. rval' = rval \/ rval' # -1
      <3>1. Ends => rval' \in {0, 3, 256}
        BY DEF Ends
      <3>2. ShellReports => rval' = rval
        BY DEF ShellReports
      <3>3. QED
        BY <3>1, <3>2
    <2>2. QED
      BY <1>1, <2>1, NothingNew
  <1>6. SlotHeld'
    <2>1. CASE Ends
      <3>1. ~slot_taken' /\ said' = said /\ stage # "reported"
        BY <2>1 DEF Ends
      <3>2. QED
        BY <1>1, <3>1 DEF SlotHeld
    <2>2. CASE ShellReports
      <3>1. slot_taken' = slot_taken /\ stage' = "reported" /\ stage = "returned"
        BY <2>2 DEF ShellReports
      <3>2. QED
        BY <1>1, <1>3, <3>1 DEF SlotHeld
    <2>3. QED
      BY <2>1, <2>2
  <1>7. QED
    BY <1>3, <1>4, <1>5, <1>6 DEF CInv

LEMMA CommandStepKeeps == CInv /\ [CommandNext]_commandVars => CInv'
  <1> SUFFICES ASSUME CInv, [CommandNext]_commandVars PROVE CInv'
    OBVIOUS
  <1>1. CASE CommandNext
    BY <1>1, ShellReadsKeeps, ParserKeeps, CheckKeeps, StartKeeps, GetargsKeeps, EndKeeps
       DEF CommandNext
  <1>2. CASE UNCHANGED commandVars
    <2>1. CommandMemory /\ Progress /\ SlotHeld /\ CommandUnderstood
      BY DEF CInv
    <2>2. UNCHANGED Parsed
      BY <1>2 DEF commandVars, Parsed, parserVars
    <2>3. /\ CommandMemory' /\ strlen(command') = strlen(command) /\ i' = i
          /\ Arguments' = Arguments /\ command' = command /\ filename' = filename
          /\ ((\E k, e, m \in Nat : Seen(k, e, m)) => \E k, e, m \in Nat : Seen(k, e, m)')
      BY <2>1, <2>2, PictureStays DEF Parsed, parserVars
    <2>4. Progress' /\ SlotHeld' /\ CommandUnderstood'
      BY <1>2, <2>1, <2>3
         DEF commandVars, Progress, Early, SlotHeld, CommandUnderstood
    <2>5. QED
      BY <2>3, <2>4 DEF CInv
  <1>3. QED
    BY <1>1, <1>2

\* Whatever line is typed, a program runs only under exactly its name, with the
\* rest of the line whole, the parser's arrays are left only by a word or a
\* rest that is too long for them, and no line that names a program is refused
\* or passed by.
THEOREM CommandIsUnderstood == CommandSpec => []CommandUnderstood
  <1>1. CInv => CommandUnderstood
    BY DEF CInv
  <1>2. QED
    BY <1>1, CommandInitHolds, CommandStepKeeps, PTL DEF CommandSpec

\* When the shell says that there is no such command, no slot was left taken,
\* unless by a damaged file.
THEOREM FailuresLeaveNoTrace == CommandSpec => []FailureLeavesNoTrace
  <1>1. CInv => FailureLeavesNoTrace
    BY DEF CInv, SlotHeld, FailureLeavesNoTrace
  <1>2. QED
    BY <1>1, CommandInitHolds, CommandStepKeeps, PTL DEF CommandSpec

=============================================================================
