--------------------------- MODULE TerminalTasks ---------------------------
(***************************************************************************)
(* What the kernel promises a user: every terminal is a stack of programs  *)
(* with a shell at the bottom, one terminal is on the screen, and the      *)
(* terminals take turns on the CPU, where the newest program of the        *)
(* terminal whose turn it is runs. No PCB, page, stack or register here.   *)
(***************************************************************************)
EXTENDS Integers, FiniteSets

CONSTANTS
  TERM_MAX,          \* number of terminals
  MAX_PCB_MASK_LEN,  \* programs of one terminal
  MAX_TASKS          \* programs of all terminals

Terms == 0 .. TERM_MAX - 1
Slots == 0 .. MAX_PCB_MASK_LEN - 1
Boot  == <<-2, 0>>

VARIABLES
  depth,  \* depth[t]: programs in terminal t
  turn,   \* the terminal that has the CPU
  shown,  \* the terminal on the screen
  task    \* the program on the CPU: <<terminal, place in its stack>>

vars == <<depth, turn, shown, task>>

Init ==
  /\ depth = [t \in Terms |-> 0]
  /\ turn = 0
  /\ shown = TERM_MAX
  /\ task = Boot

Started == \A t \in Terms : depth[t] > 0
Tasks == {p \in Terms \X Slots : p[2] < depth[p[1]]}

\* The next terminal gets the CPU; the first time it starts its shell and is
\* put on the screen.
Rotate ==
  /\ turn' = (turn + 1) % TERM_MAX
  /\ depth' = [depth EXCEPT ![turn'] = IF depth[turn'] = 0 THEN 1 ELSE @]
  /\ shown' = IF depth[turn'] = 0 THEN turn' ELSE shown
  /\ task' = <<turn', depth'[turn'] - 1>>

\* The running program starts another one and waits for it.
Push ==
  /\ Started
  /\ shown = turn
  /\ depth[turn] < MAX_PCB_MASK_LEN
  /\ Cardinality(Tasks) < MAX_TASKS
  /\ depth' = [depth EXCEPT ![turn] = @ + 1]
  /\ task' = <<turn, depth[turn]>>
  /\ UNCHANGED <<turn, shown>>

\* The running program ends and the one below goes on. A shell at the bottom
\* starts anew, which changes nothing here.
Pop ==
  /\ depth[turn] > 1
  /\ depth' = [depth EXCEPT ![turn] = @ - 1]
  /\ task' = <<turn, depth[turn] - 2>>
  /\ UNCHANGED <<turn, shown>>

Show ==
  /\ Started
  /\ shown' \in Terms
  /\ UNCHANGED <<depth, turn, task>>

Next == Rotate \/ Push \/ Pop \/ Show

Spec == Init /\ [][Next]_vars /\ WF_vars(Rotate)

=============================================================================
