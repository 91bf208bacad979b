------------------------------ MODULE Consoles ------------------------------
(***************************************************************************)
(* What the kernel promises about text: every terminal is a console of     *)
(* rows with a cursor. A program writes to the console of its own terminal *)
(* whether it is shown or not, the keyboard to the console that is shown,  *)
(* and showing another console changes the text of none. No video memory,  *)
(* no page, no copying here.                                               *)
(***************************************************************************)
EXTENDS Integers

CONSTANTS TERM_MAX, NUM_COLS, NUM_ROWS, Letters, Blank, NL

Terms == 0 .. TERM_MAX - 1
Rows  == 0 .. NUM_ROWS - 1
Cols  == 0 .. NUM_COLS - 1

VARIABLES
  text,   \* text[t][row][column]
  place,  \* place[t]: row and column of the cursor
  shown,  \* the console on the screen, or none at boot
  turn    \* the terminal whose program runs

vars == <<text, place, shown, turn>>

BlankRow == [c \in Cols |-> Blank]

Init ==
  /\ text = [t \in Terms |-> [r \in Rows |-> BlankRow]]
  /\ place = [t \in Terms |-> <<0, 0>>]
  /\ shown \notin Terms
  /\ turn \in Terms

\* The rows move up, the cursor is at the start of the last one.
Scrolled(rows) ==
  [r \in Rows |-> IF r + 1 \in Rows THEN rows[r + 1] ELSE BlankRow]

\* The cursor of console t goes to the start of the next row; rows is its text.
Feed(t, rows) ==
  LET r == place[t][1] IN
  IF r + 1 \in Rows
  THEN /\ text' = [text EXCEPT ![t] = rows]
       /\ place' = [place EXCEPT ![t] = <<r + 1, 0>>]
  ELSE /\ text' = [text EXCEPT ![t] = Scrolled(rows)]
       /\ place' = [place EXCEPT ![t] = <<r, 0>>]

\* One character is written to console t.
Put(t, ch) ==
  LET r == place[t][1]
      c == place[t][2]
      written == [text[t] EXCEPT ![r][c] = ch]
  IN
  /\ t \in Terms
  /\ \/ /\ ch = NL
        /\ Feed(t, text[t])
     \/ /\ ch # NL
        /\ c + 1 \notin Cols
        /\ Feed(t, written)
     \/ /\ ch # NL
        /\ c + 1 \in Cols
        /\ text' = [text EXCEPT ![t] = written]
        /\ place' = [place EXCEPT ![t] = <<r, c + 1>>]
  /\ UNCHANGED <<shown, turn>>

\* The character before the cursor of console t is taken back.
Erase(t) ==
  /\ t \in Terms
  /\ \E r \in Rows, c \in Cols :
       /\ place[t] = IF c + 1 \in Cols THEN <<r, c + 1>> ELSE <<r + 1, 0>>
       /\ place' = [place EXCEPT ![t] = <<r, c>>]
       /\ text' = [text EXCEPT ![t][r][c] = Blank]
  /\ UNCHANGED <<shown, turn>>

Wipe(t) ==
  /\ t \in Terms
  /\ text' = [text EXCEPT ![t] = [r \in Rows |-> BlankRow]]
  /\ place' = [place EXCEPT ![t] = <<0, 0>>]
  /\ UNCHANGED <<shown, turn>>

Show(t) ==
  /\ shown' = t
  /\ UNCHANGED <<text, place, turn>>

\* The next terminal's program runs; at boot its console is shown then.
Rotate ==
  /\ turn' = (turn + 1) % TERM_MAX
  /\ shown' \in {shown, turn'}
  /\ UNCHANGED <<text, place>>

Next ==
  \/ \E ch \in Letters \cup {NL} : Put(turn, ch) \/ Put(shown, ch)
  \/ Erase(shown)
  \/ Wipe(shown)
  \/ \E t \in Terms : Show(t)
  \/ Rotate

Spec == Init /\ [][Next]_vars

=============================================================================
