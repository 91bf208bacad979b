------------------------------- MODULE Screen -------------------------------
(***************************************************************************)
(* What is on the screen: the two families of output functions of lib.c,   *)
(* the video memory and the page of each terminal, term_write, term_save   *)
(* and term_restore (terminal.c), the keyboard's echo (keyboard.c) and the *)
(* video part of the timer's handler (scheduling.c).                       *)
(*                                                                         *)
(* Output goes character by character: a write of several is several steps *)
(* of this model, which only adds interleavings, since interrupts are off  *)
(* in a system call and in a handler. Whether the line buffer takes a key, *)
(* and is echoed, is LineInput's matter: here a key may be echoed or not.  *)
(***************************************************************************)
EXTENDS Integers, FiniteSets

CONSTANTS
  TERM_MAX, NUM_COLS, NUM_ROWS,
  Letters,  \* printable characters
  Blank,    \* the space of a cleared cell
  NL        \* '\n' or '\r'

ASSUME ScreenAssumption ==
  /\ TERM_MAX \in Nat \ {0}
  /\ NUM_COLS \in Nat \ {0} /\ NUM_ROWS \in Nat \ {0}
  /\ NL \notin Letters \cup {Blank}

Terms   == 0 .. TERM_MAX - 1
NoTerm  == TERM_MAX    \* cur_term_id before the first tick; its colour is ATTRIB
VIDEO   == TERM_MAX    \* video_mem = VIDEO: the screen, else a terminal's page
Cells   == 0 .. NUM_ROWS * NUM_COLS - 1
Frames  == [Cells -> [ch : Letters \cup {Blank}, attr : 0 .. TERM_MAX]]

VARIABLES
  screen, screen_x, screen_y,  \* the memory at 0xB8000 and lib.c's cursor
  page,         \* page[t]: the memory term[t].video_mem points to
  cursor_x, cursor_y,          \* of term[t]
  video_mem,    \* lib.c's pointer
  cur_term_id,  \* the terminal on the screen
  now_term_id,  \* the terminal whose process has the CPU
  running       \* term[t].running

screenVars == <<screen, screen_x, screen_y>>
pageVars == <<page, cursor_x, cursor_y>>
vars == <<screenVars, pageVars, video_mem, cur_term_id, now_term_id, running>>

\* Cell contents: the colour of terminal t is t (ATTRIB_T1, T2, T3).
Cleared(t) == [ch |-> Blank, attr |-> t]

Init ==
  /\ screen = [i \in Cells |-> Cleared(NoTerm)]
  /\ screen_x = 0 /\ screen_y = 0
  /\ page = [t \in Terms |-> [i \in Cells |-> Cleared(t)]]
  /\ cursor_x = [t \in Terms |-> 0]
  /\ cursor_y = [t \in Terms |-> 0]
  /\ video_mem = VIDEO
  /\ cur_term_id = NoTerm
  /\ now_term_id = 0
  /\ running = [t \in Terms |-> FALSE]

-----------------------------------------------------------------------------
(* A console is [cells, x, y]; the functions of lib.c and their multi_      *)
(* twins move one, in the colour of terminal t for the cells they clear.    *)

Pos(x, y) == NUM_COLS * y + x

scroll_up(frame, t) ==
  [i \in Cells |-> IF i < (NUM_ROWS - 1) * NUM_COLS THEN frame[i + NUM_COLS]
                   ELSE Cleared(t)]

RowUpToLast(con, new_y, t) ==                        \* mutant
  IF new_y <= NUM_ROWS THEN [con EXCEPT !.y = new_y]
  ELSE [con EXCEPT !.cells = scroll_up(@, t), !.y = NUM_ROWS - 1]

\* The row part of set_screen_cursor.
ToRow(con, new_y, t) ==
  IF new_y < NUM_ROWS
  THEN [con EXCEPT !.y = new_y]
  ELSE [con EXCEPT !.cells = scroll_up(@, t), !.y = NUM_ROWS - 1]

enter(con, t) == ToRow([con EXCEPT !.x = 0], con.y + 1, t)

set_screen_cursor(con, new_x, new_y, t) ==
  IF new_x < NUM_COLS THEN ToRow([con EXCEPT !.x = new_x], new_y, t)
  ELSE enter(con, t)

\* The memory at address v after a write of attribute t to cell i through
\* video_mem.
Dyed(frame, v, i, t) ==
  IF video_mem = v THEN [frame EXCEPT ![i].attr = t] ELSE frame

-----------------------------------------------------------------------------
(* Output to the screen *)

OnScreen == [cells |-> screen, x |-> screen_x, y |-> screen_y]

ShowOnScreen(con) ==
  /\ screen' = con.cells
  /\ screen_x' = con.x
  /\ screen_y' = con.y

\* enter(): the pointer is reset only when the screen scrolls.
NewLine ==
  /\ ShowOnScreen(enter(OnScreen, cur_term_id))
  /\ video_mem' = IF screen_y + 1 < NUM_ROWS THEN video_mem ELSE VIDEO
  /\ UNCHANGED pageVars

putc(ch) ==
  \/ /\ ch = NL
     /\ NewLine
  \/ /\ ch # NL
     /\ LET written == [OnScreen EXCEPT !.cells[Pos(screen_x, screen_y)] =
                          [ch |-> ch, attr |-> cur_term_id]]
        IN ShowOnScreen(set_screen_cursor(written, screen_x + 1, screen_y, cur_term_id))
     /\ video_mem' = VIDEO
     /\ UNCHANGED pageVars

\* backspace() does nothing in the upper left corner.
backspace ==
  /\ <<screen_x, screen_y>> # <<0, 0>>
  /\ LET x == IF screen_x # 0 THEN screen_x - 1 ELSE NUM_COLS - 1
         y == IF screen_x # 0 THEN screen_y ELSE screen_y - 1
         moved == set_screen_cursor(OnScreen, x, y, cur_term_id)
     IN ShowOnScreen([moved EXCEPT !.cells[Pos(x, y)] = Cleared(cur_term_id)])
  /\ video_mem' = VIDEO
  /\ UNCHANGED pageVars

\* clear() and set_screen_cursor(0, 0).
clear ==
  /\ ShowOnScreen([cells |-> [i \in Cells |-> Cleared(cur_term_id)], x |-> 0, y |-> 0])
  /\ video_mem' = VIDEO
  /\ UNCHANGED pageVars

-----------------------------------------------------------------------------
(* Output to the page of the terminal that runs in the background *)

InPage(t) == [cells |-> page[t], x |-> cursor_x[t], y |-> cursor_y[t]]

\* con becomes the console of terminal now_term_id; others are the pages of
\* the rest.
ShowInPage(con, others) ==
  /\ page' = [others EXCEPT ![now_term_id] = con.cells]
  /\ cursor_x' = [cursor_x EXCEPT ![now_term_id] = con.x]
  /\ cursor_y' = [cursor_y EXCEPT ![now_term_id] = con.y]

\* The cursor of a page is not shown anywhere.
multi_set_screen_cursor(con, new_x, new_y) ==
  set_screen_cursor(con, new_x, new_y, now_term_id)

multi_enter ==
  /\ ShowInPage(multi_set_screen_cursor(InPage(now_term_id), 0,
                                        cursor_y[now_term_id] + 1), page)
  /\ UNCHANGED screenVars

\* Where multi_putc puts the colour: the cell of the screen's cursor.
DyedCell == Pos(screen_x, screen_y)

\* The character goes to the page, the colour of the displayed terminal
\* through video_mem to the cell of the screen's cursor, in whatever memory
\* the pointer was left at.
multi_putc(ch) ==
  /\ \/ /\ ch = NL
        /\ multi_enter
     \/ /\ ch # NL
        /\ LET t == now_term_id
               con == InPage(t)
               written == [con.cells EXCEPT ![Pos(con.x, con.y)].ch = ch]
               dyed == [con EXCEPT !.cells = Dyed(written, t, DyedCell, cur_term_id)]
           IN ShowInPage(multi_set_screen_cursor(dyed, con.x + 1, con.y),
                         [u \in Terms |-> Dyed(page[u], u, DyedCell, cur_term_id)])
        /\ screen' = Dyed(screen, VIDEO, DyedCell, cur_term_id)
        /\ UNCHANGED <<screen_x, screen_y>>
  /\ UNCHANGED video_mem

-----------------------------------------------------------------------------
(* Switching *)

RestoreOnly(old, new) ==                             \* mutant
  /\ screen' = page[new]
  /\ screen_x' = cursor_x[new]
  /\ screen_y' = cursor_y[new]
  /\ cur_term_id' = new
  /\ UNCHANGED pageVars

\* term_save(old) and term_restore(new), by the contents they leave.
term_switch(old, new) ==
  LET save(field, value) == IF old \in Terms THEN [field EXCEPT ![old] = value]
                            ELSE field
  IN
  /\ page' = save(page, screen)
  /\ cursor_x' = save(cursor_x, screen_x)
  /\ cursor_y' = save(cursor_y, screen_y)
  /\ screen' = page'[new]
  /\ screen_x' = cursor_x'[new]
  /\ screen_y' = cursor_y'[new]
  /\ cur_term_id' = new

\* term_launch(t) of a terminal whose shell does not run yet.
term_launch(t) ==
  /\ term_switch(cur_term_id, t)
  /\ running' = [running EXCEPT ![t] = TRUE]
  /\ UNCHANGED video_mem

ToPageOnly(t) == IF cur_term_id # t THEN t ELSE video_mem \* mutant

\* set_vidmem in the timer's handler.
VidmemFor(t) == IF cur_term_id # t THEN t ELSE VIDEO

-----------------------------------------------------------------------------
(* Who writes when *)

Echoed == Letters \cup {NL}

\* pit_interrupt_handler.
Tick ==
  LET next == (now_term_id + 1) % TERM_MAX IN
  /\ now_term_id' = next
  /\ \/ /\ ~running[next]
        /\ term_launch(next)
     \/ /\ running[next]
        /\ video_mem' = VidmemFor(next)
        /\ UNCHANGED <<screenVars, pageVars, cur_term_id, running>>

\* term_write of the process that has the CPU.
term_write(ch) ==
  \/ now_term_id = cur_term_id /\ putc(ch)
  \/ now_term_id # cur_term_id /\ multi_putc(ch)

Write ==
  /\ running[now_term_id]
  /\ \E ch \in Echoed : term_write(ch)
  /\ UNCHANGED <<cur_term_id, now_term_id, running>>

\* A key that is taken, or a message of the kernel itself (boot, exceptions,
\* "Halting the last shell is not allowed!"): on the displayed terminal.
EchoKey ==
  /\ \E ch \in Echoed : putc(ch)
  /\ UNCHANGED <<cur_term_id, now_term_id, running>>

Backspace ==
  /\ backspace
  /\ UNCHANGED <<cur_term_id, now_term_id, running>>

\* Ctrl+L.
CtrlL ==
  /\ clear
  /\ UNCHANGED <<cur_term_id, now_term_id, running>>

\* Alt+F1, Alt+F2, Alt+F3, once the three shells run (before that see
\* Multitasking).
AltF(n) ==
  /\ \A t \in Terms : running[t]
  /\ term_switch(cur_term_id, n)
  /\ UNCHANGED <<video_mem, now_term_id, running>>

Next ==
  \/ Tick
  \/ Write
  \/ EchoKey
  \/ Backspace
  \/ CtrlL
  \/ \E n \in Terms : AltF(n)

Spec == Init /\ [][Next]_vars

-----------------------------------------------------------------------------

\* The type of the state: no cursor ever leaves its frame, so no output
\* function writes outside video memory.
TypeOK ==
  /\ screen \in Frames /\ page \in [Terms -> Frames]
  /\ screen_x \in 0 .. NUM_COLS - 1 /\ screen_y \in 0 .. NUM_ROWS - 1
  /\ cursor_x \in [Terms -> 0 .. NUM_COLS - 1]
  /\ cursor_y \in [Terms -> 0 .. NUM_ROWS - 1]
  /\ video_mem \in Terms \cup {VIDEO}
  /\ cur_term_id \in Terms \cup {NoTerm} /\ now_term_id \in Terms
  /\ running \in [Terms -> BOOLEAN]

\* What terminal t would show: on the screen, or after a switch to it.
ConsoleOf(t) == IF t = cur_term_id THEN OnScreen ELSE InPage(t)

\* A step changes no cell, no colour and no cursor of a terminal that is
\* neither displayed nor running: lib.c's video_mem, which outlives ticks and
\* switches, never points to the page of a third terminal when multi_putc
\* writes a colour through it.
ThirdTerminalUntouched ==
  [][\A t \in Terms \ {cur_term_id, now_term_id} : ConsoleOf(t)' = ConsoleOf(t)]_vars

\* What the consoles of the abstract specification hold here.
Row(t) == [r \in 0 .. NUM_ROWS - 1 |->
             [c \in 0 .. NUM_COLS - 1 |-> ConsoleOf(t).cells[Pos(c, r)].ch]]

Consoles == INSTANCE Consoles WITH
  text  <- [t \in Terms |-> Row(t)],
  place <- [t \in Terms |-> <<ConsoleOf(t).y, ConsoleOf(t).x>>],
  shown <- cur_term_id,
  turn  <- now_term_id

\* The text of every terminal is what was written to it and typed into it,
\* wherever it was at the time, the screen or its page, and however often it
\* was copied between them since.
ImplementsConsoles == Consoles!Spec

=============================================================================
