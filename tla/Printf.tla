------------------------------- MODULE Printf -------------------------------
(***************************************************************************)
(* printf and multi_printf (lib.c) and term_write (terminal.c): one call,  *)
(* character of the format by character. Every message of the kernel goes  *)
(* through printf, and so does every byte a program writes to file 1: the  *)
(* program's text is the format.                                           *)
(***************************************************************************)
EXTENDS Strings, FiniteSets, SequencesExt

CONSTANTS
  WORD,       \* 2^w: one more than the largest unsigned number, 2^32
  HexDigits,  \* digits of a word, 8
  Texts,      \* formats of the kernel, and what programs write
  Behind,     \* what may lie in memory behind the terminator; then there are zeros
  Stacks,     \* the words on the stack above the format
  CharOf,     \* the character of a word
  StringAt    \* the text at an address

\* Texts and stacks are memory: sequences of characters and of words. A stack
\* has a word for every conversion a format has room for. The largest word has
\* HexDigits digits.
ASSUME PrintfAssumption ==
  /\ WORD \in Nat \ {0} /\ WORD % 2 = 0
  /\ HexDigits = Len(itoa(WORD - 1, 16))
  /\ Texts \subseteq Seq(Characters) /\ Behind \subseteq Seq(Characters)
  /\ \A s \in Stacks : s \in Seq(0 .. WORD - 1)
  /\ \A s \in Stacks, text \in Texts, behind \in Behind :
       Len(text) + Len(behind) < 2 * Len(s)

VARIABLES
  client,     \* "kernel": printf(format, ...); "program": term_write(1, data, length)
  data, length,
  sink,       \* "screen": printf; "page": multi_printf
  stack,
  format,     \* the memory the format lies in
  buf, esp,   \* the pointers into it and into the stack, as indices
  alternate,
  mode,       \* "copying" (term_write), "text", "conversion", "returned"
  out,        \* the characters put out so far
  last,       \* the last conversion and what it put out
  result

printVars == <<client, data, length, sink, stack, format, buf, esp, alternate,
               mode, out, last, result>>

NoConversion == [letter |-> "%", alternate |-> FALSE, word |-> 0, piece |-> <<>>]

\* A call of printf; or of term_write, whose buffer may hold terminators.
PrintInit ==
  /\ client \in {"kernel", "program"}
  /\ data \in Texts
  /\ length = Len(data)
  /\ sink \in IF client = "kernel" THEN {"screen"} ELSE {"screen", "page"}
  /\ stack \in Stacks
  /\ \E behind \in Behind : format = Buffer(data, behind)
  /\ buf = 0 /\ esp = 1 /\ alternate = FALSE
  /\ mode = IF client = "kernel" THEN "text" ELSE "copying"
  /\ out = <<>> /\ last = NoConversion /\ result = -1

CopiedAll(d, len) == len                             \* mutant

\* How many bytes term_write copies: up to the length or to a terminator.
Copied(d, len) ==
  CHOOSE i \in 0 .. len :
    /\ \A j \in 1 .. i : d[j] # NUL
    /\ i = len \/ d[i + 1] = NUL

\* term_write: the bytes and a terminator go to a buffer of length + 1.
Copy ==
  /\ mode = "copying"
  /\ LET i == Copied(data, length) IN
       /\ format' = [format EXCEPT ![i] = NUL]
       /\ result' = i
  /\ mode' = "text"
  /\ UNCHANGED <<buf, esp, alternate, out, last>>

-----------------------------------------------------------------------------
(* The conversions *)

\* %#x: the digits stand from place HexDigits of conv_buf on, and zeros are
\* put before it from the place equal to their number.
UnpaddedDigits(w) == itoa(w, 16)                     \* mutant

PaddedDigits(w) ==
  LET digits == itoa(w, 16)
  IN [i \in 1 .. HexDigits - Len(digits) |-> "0"] \o digits

\* %d of a negative word: -value wraps in 32 bits, and so is right for the
\* smallest number too.
Negative(w) == <<"-">> \o itoa((WORD - w) % WORD, 10)

Converted(letter, alt, w) ==
  CASE letter = "x" /\ ~alt -> itoa(w, 16)
    [] letter = "x" /\ alt  -> PaddedDigits(w)
    [] letter = "u"         -> itoa(w, 10)
    [] letter = "d" /\ w >= WORD \div 2 -> Negative(w)
    [] letter = "d" /\ w < WORD \div 2  -> itoa(w, 10)
    [] letter = "c"         -> <<CharOf[w]>>
    [] letter = "s"         -> StringAt[w]

-----------------------------------------------------------------------------
(* The loop *)

Char == IF buf \in DOMAIN format THEN format[buf] ELSE NUL

Percent ==
  /\ mode = "text" /\ Char = "%"
  /\ alternate' = FALSE
  /\ mode' = "conversion"
  /\ UNCHANGED <<esp, out, last>>

Literal ==
  /\ mode = "text" /\ Char \notin {"%", NUL}
  /\ out' = Append(out, Char)
  /\ UNCHANGED <<esp, alternate, mode, last>>

Hash ==
  /\ mode = "conversion" /\ Char = "#"
  /\ alternate' = TRUE
  /\ UNCHANGED <<esp, mode, out, last>>

LiteralPercent ==
  /\ mode = "conversion" /\ Char = "%"
  /\ out' = Append(out, "%")
  /\ mode' = "text"
  /\ UNCHANGED <<esp, alternate, last>>

Convert ==
  /\ mode = "conversion" /\ Char \in {"x", "u", "d", "c", "s"}
  /\ LET piece == Converted(Char, alternate, stack[esp]) IN
       /\ out' = out \o piece
       /\ last' = [letter |-> Char, alternate |-> alternate,
                   word |-> stack[esp], piece |-> piece]
  /\ esp' = esp + 1
  /\ mode' = "text"
  /\ UNCHANGED alternate

FallsThrough ==                                      \* mutant
  /\ mode = "conversion" /\ Char \notin {"%", "#", "x", "u", "d", "c", "s"}
  /\ UNCHANGED <<mode, esp, alternate, out, last>>

\* Any other character behind a %: also the terminator, which is stepped over.
Ignored ==
  /\ mode = "conversion" /\ Char \notin {"%", "#", "x", "u", "d", "c", "s"}
  /\ mode' = "text"
  /\ UNCHANGED <<esp, alternate, out, last>>

\* One turn of the loop, then buf++.
Turn ==
  /\ \/ Percent \/ Literal \/ Hash \/ LiteralPercent \/ Convert \/ Ignored
  /\ buf' = buf + 1
  /\ UNCHANGED <<format, result>>

Return ==
  /\ mode = "text" /\ Char = NUL
  /\ mode' = "returned"
  /\ result' = IF client = "kernel" THEN buf ELSE result
  /\ UNCHANGED <<format, buf, esp, alternate, out, last>>

printf == sink = "screen" /\ (Turn \/ Return)

\* The same code, with multi_putc and multi_puts.
multi_printf == sink = "page" /\ (Turn \/ Return)

PrintNext ==
  /\ Copy \/ printf \/ multi_printf
  /\ UNCHANGED <<client, data, length, sink, stack>>

PrintSpec == PrintInit /\ [][PrintNext]_printVars

-----------------------------------------------------------------------------

Digit(d) == CHOOSE k \in 0 .. 15 : Lookup[k + 1] = d

\* The number a text of digits denotes.
Denoted(digits, radix) ==
  LET upto[k \in 0 .. Len(digits)] ==
        IF k = 0 THEN 0 ELSE radix * upto[k - 1] + Digit(digits[k])
  IN upto[Len(digits)]

\* What a conversion of a number puts out, read as a number, is the word on
\* the stack: every digit, in order, with the sign of %d, whatever the word,
\* zero and the smallest negative one included; %#x has all its digits.
NumbersReadBack ==
  LET p == last.piece
      w == last.word
  IN
  /\ last.letter = "x" => Denoted(p, 16) = w
  /\ last.letter = "x" /\ last.alternate => Len(p) = HexDigits
  /\ last.letter = "u" => Denoted(p, 10) = w
  /\ last.letter = "d" =>
       IF p[1] = "-" THEN Denoted(Tail(p), 10) = WORD - w /\ 2 * w >= WORD
       ELSE Denoted(p, 10) = w /\ 2 * w < WORD

\* printf reads no further than the terminator of its format and returns its
\* length, unless the last character before it is a % or a #, as it is behind an
\* open conversion: that makes the loop step over the terminator.
StaysInFormat ==
  LET end == strlen(format) IN
  /\ buf > end => end > 0 /\ format[end - 1] \in {"%", "#"}
  /\ mode = "returned" /\ client = "kernel" /\ buf <= end => result = end

\* What a program writes, up to a terminator, comes out unchanged if there is
\* no % in it, and term_write returns its length.
PlainTextVerbatim ==
  mode = "returned" /\ client = "program" /\ ~Contains(TextOf(format), "%") =>
    /\ out = SubSeq(data, 1, result)
    /\ \A i \in 1 .. result : data[i] # NUL
    /\ result < length => data[result + 1] = NUL

=============================================================================
