----------------------------- MODULE MCLineInput -----------------------------
(***************************************************************************)
(* The attended keyboard against LineDiscipline: a history variable keeps  *)
(* the result of the last read, and the one key buffer, the saved ones and *)
(* the readers' loops are mapped to a line per terminal.                   *)
(***************************************************************************)
EXTENDS LineInput

VARIABLE taken  \* the terminal and the result of the last read

HistoryInit == Init /\ taken = <<0, <<>>>>

\* A read takes its line when its copy loop ends.
HistoryNext ==
  /\ AttendedNext
  /\ taken' = IF \E t \in Terms : at[t] = "copy" /\ at'[t] = "clear"
                THEN LET t == CHOOSE t \in Terms : at[t] = "copy" /\ at'[t] = "clear"
                     IN <<t, got[t]>>
                ELSE taken

HistorySpec == HistoryInit /\ [][HistoryNext]_<<vars, taken>>

Prefix(buf, n) == [i \in 1 .. n |-> buf[i - 1]]

\* The text typed into t and not read yet.
Text(t) ==
  IF t # cur_term_id THEN Prefix(term[t].key_buf, term[t].key_buf_idx)
  ELSE IF at[t] = "clear" THEN <<>>
  ELSE Prefix(key_buf, key_buf_idx)

\* Every read returns the line typed into its own terminal, and a line half
\* typed survives the switches: the one buffer serves as a line per terminal.
Promise == INSTANCE LineDiscipline WITH line <- [t \in Terms |-> Text(t)]

ImplementsLineDiscipline == Promise!Spec

=============================================================================
