------------------------------- MODULE Strings -------------------------------
(***************************************************************************)
(* The string functions of lib.c and their twins for user programs         *)
(* (ece391support.c), by what they return. A buffer is a function on the   *)
(* indices 0 .. n; a character is a one letter string. A comparison is     *)
(* used only for equality, so TRUE stands for the 0 they return.           *)
(***************************************************************************)
EXTENDS Integers, Sequences

CONSTANT Characters  \* the values of a char

NUL == "NUL"

ASSUME StringsAssumption == NUL \in Characters

Lookup == <<"0", "1", "2", "3", "4", "5", "6", "7", "8", "9",
            "A", "B", "C", "D", "E", "F">>

\* The bytes of a text and its terminator, with more memory behind.
Buffer(text, behind) ==
  LET bytes == text \o <<NUL>> \o behind
  IN [i \in 0 .. Len(bytes) - 1 |-> bytes[i + 1]]

strlen(s) ==
  CHOOSE len \in DOMAIN s : s[len] = NUL /\ \A j \in 0 .. len - 1 : s[j] # NUL

\* The characters before the terminator.
TextOf(s) == [i \in 1 .. strlen(s) |-> s[i - 1]]

\* The loop ends at i: n characters are compared, or both strings end there.
strncmp(s1, s2, n) ==
  \E i \in 0 .. n :
    /\ \A j \in 0 .. i - 1 : s1[j] = s2[j] /\ s1[j] # NUL
    /\ i < n => s1[i] = NUL /\ s2[i] = NUL

ece391_strcmp(s1, s2) == TextOf(s1) = TextOf(s2)

ece391_strncmp(s1, s2, n) == n = 0 \/ strncmp(s1, s2, n)

strcpy(dest, src) ==
  [i \in DOMAIN dest |-> IF i <= strlen(src) THEN src[i] ELSE dest[i]]

ece391_strcpy(dst, src) == strcpy(dst, src)

\* The swaps of strrev, on the characters before the terminator.
strrev(text) == [i \in 1 .. Len(text) |-> text[Len(text) + 1 - i]]

\* The digits of itoa's loop, the lowest first.
Emitted(value, radix) ==
  LET from[v \in 0 .. value] ==
        IF v = 0 THEN <<>> ELSE <<Lookup[(v % radix) + 1]>> \o from[v \div radix]
  IN from[value]

itoa(value, radix) ==
  IF value = 0 THEN <<"0">> ELSE strrev(Emitted(value, radix))

=============================================================================
