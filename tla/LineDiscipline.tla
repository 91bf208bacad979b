--------------------------- MODULE LineDiscipline ---------------------------
(***************************************************************************)
(* What reading from the keyboard means to a user with several terminals:  *)
(* each has a line that is edited until Enter, and a read takes that line, *)
(* whole or cut to the length asked for. What happens in one terminal      *)
(* touches no other.                                                       *)
(***************************************************************************)
EXTENDS Integers, Sequences

CONSTANTS
  TERM_MAX,     \* number of terminals
  KEY_BUF_MAX,  \* longest line, with its newline
  Keys,         \* the characters
  NL,           \* the newline
  Lengths       \* the lengths a read may ask for

Terms == 0 .. TERM_MAX - 1

VARIABLES
  line,   \* line[t]: the text typed into terminal t and not read yet
  taken   \* the terminal and the result of the last read

vars == <<line, taken>>

Init ==
  /\ line = [t \in Terms |-> <<>>]
  /\ taken = <<0, <<>>>>

Complete(s) == s # <<>> /\ s[Len(s)] = NL

Type(t, k) ==
  /\ ~Complete(line[t])
  /\ Len(line[t]) < KEY_BUF_MAX - 1
  /\ line' = [line EXCEPT ![t] = Append(@, k)]
  /\ UNCHANGED taken

Erase(t) ==
  /\ ~Complete(line[t])
  /\ line[t] # <<>>
  /\ line' = [line EXCEPT ![t] = SubSeq(@, 1, Len(@) - 1)]
  /\ UNCHANGED taken

Submit(t) ==
  /\ ~Complete(line[t])
  /\ line' = [line EXCEPT ![t] = Append(@, NL)]
  /\ UNCHANGED taken

\* Ctrl+C.
Discard(t) ==
  /\ ~Complete(line[t])
  /\ line' = [line EXCEPT ![t] = <<>>]
  /\ UNCHANGED taken

Take(t, n) ==
  /\ Complete(line[t])
  /\ taken' = <<t, SubSeq(line[t], 1, IF n < Len(line[t]) THEN n ELSE Len(line[t]))>>
  /\ line' = [line EXCEPT ![t] = <<>>]

Next ==
  \E t \in Terms :
    \/ \E k \in Keys : Type(t, k)
    \/ Erase(t)
    \/ Submit(t)
    \/ Discard(t)
    \/ \E n \in Lengths : Take(t, n)

Spec == Init /\ [][Next]_vars

=============================================================================
