---------------------------- MODULE ScreenProofs ----------------------------
(***************************************************************************)
(* Screen, for every number of terminals and every size of the screen: no  *)
(* cursor leaves its frame, no output reaches a terminal that is neither   *)
(* displayed nor running, and every terminal is the console it is promised *)
(* to be.                                                                  *)
(***************************************************************************)
EXTENDS Screen, TLAPS

Cols == 0 .. NUM_COLS - 1
Rows == 0 .. NUM_ROWS - 1
Glyphs == Letters \cup {Blank}
Console == [cells : Frames, x : Cols, y : Rows]

-----------------------------------------------------------------------------
(* Cells *)

\* Whole rows: the product grows by NUM_COLS from one row to the next.
LEMMA RowBound ==
  ASSUME NEW y \in Nat, NEW z \in Nat, y < z
  PROVE  NUM_COLS * y + NUM_COLS <= NUM_COLS * z
  <1>1. PICK d \in Nat : z = y + 1 + d
    <2>1. z - y - 1 \in Nat
      OBVIOUS
    <2>2. z = y + 1 + (z - y - 1)
      OBVIOUS
    <2>3. QED
      BY <2>1, <2>2
  <1>2. NUM_COLS \in Nat /\ NUM_COLS * d \in Nat
    BY ScreenAssumption
  <1>3. NUM_COLS * z = NUM_COLS * y + NUM_COLS + NUM_COLS * d
    BY <1>1, <1>2
  <1>4. NUM_COLS * y \in Nat
    BY <1>2
  <1>5. QED
    BY <1>2, <1>3, <1>4

LEMMA PosInCells ==
  ASSUME NEW x \in Cols, NEW y \in Rows
  PROVE  Pos(x, y) \in Cells
  <1>1. NUM_COLS \in Nat \ {0} /\ NUM_ROWS \in Nat \ {0} /\ x \in Nat /\ y \in Nat
    BY ScreenAssumption DEF Cols, Rows
  <1>2. NUM_COLS * y \in Nat /\ NUM_ROWS * NUM_COLS = NUM_COLS * NUM_ROWS
    BY <1>1
  <1>3. NUM_COLS * y + NUM_COLS <= NUM_COLS * NUM_ROWS
    BY <1>1, RowBound DEF Rows
  <1>4. NUM_COLS * NUM_ROWS \in Nat
    BY <1>1
  <1>5. QED
    BY <1>1, <1>2, <1>3, <1>4 DEF Pos, Cells, Cols

\* Two places of the screen are two cells.
LEMMA PosInjective ==
  ASSUME NEW x \in Cols, NEW y \in Rows, NEW c \in Cols, NEW r \in Rows,
         Pos(x, y) = Pos(c, r)
  PROVE  x = c /\ y = r
  <1>1. NUM_COLS \in Nat \ {0} /\ x \in Nat /\ y \in Nat /\ c \in Nat /\ r \in Nat
    BY ScreenAssumption DEF Cols, Rows
  <1>2. NUM_COLS * y \in Nat /\ NUM_COLS * r \in Nat
    BY <1>1
  <1>3. ~ y < r
    <2>1. y < r => NUM_COLS * y + NUM_COLS <= NUM_COLS * r
      BY <1>1, RowBound
    <2>2. QED
      BY <1>1, <1>2, <2>1 DEF Pos, Cols
  <1>4. ~ r < y
    <2>1. r < y => NUM_COLS * r + NUM_COLS <= NUM_COLS * y
      BY <1>1, RowBound
    <2>2. QED
      BY <1>1, <1>2, <2>1 DEF Pos, Cols
  <1>5. y = r
    BY <1>1, <1>3, <1>4
  <1>6. QED
    BY <1>1, <1>2, <1>5 DEF Pos

\* A cell has another below it exactly when it is above the last row.
LEMMA PosBelow ==
  ASSUME NEW x \in Cols, NEW y \in Rows
  PROVE  /\ Pos(x, y) < (NUM_ROWS - 1) * NUM_COLS <=> y + 1 \in Rows
         /\ Pos(x, y) + NUM_COLS = Pos(x, y + 1)
  <1>1. NUM_COLS \in Nat \ {0} /\ NUM_ROWS \in Nat \ {0} /\ x \in Nat /\ y \in Nat
    BY ScreenAssumption DEF Cols, Rows
  <1>2. NUM_COLS * y \in Nat /\ NUM_COLS * (NUM_ROWS - 1) \in Nat
    BY <1>1
  <1>3. (NUM_ROWS - 1) * NUM_COLS = NUM_COLS * (NUM_ROWS - 1)
    BY <1>1
  <1>4. NUM_COLS * (y + 1) = NUM_COLS * y + NUM_COLS
    BY <1>1
  <1>5. CASE y < NUM_ROWS - 1
    <2>1. NUM_COLS * y + NUM_COLS <= NUM_COLS * (NUM_ROWS - 1)
      BY <1>1, <1>5, RowBound
    <2>2. QED
      BY <1>1, <1>2, <1>3, <1>4, <1>5, <2>1 DEF Pos, Cols, Rows
  <1>6. CASE y = NUM_ROWS - 1
    BY <1>1, <1>2, <1>3, <1>4, <1>6 DEF Pos, Cols, Rows
  <1>7. QED
    BY <1>1, <1>5, <1>6 DEF Rows

-----------------------------------------------------------------------------
(* Operations on a console keep its type *)

LEMMA ClearedType ==
  ASSUME NEW t \in 0 .. TERM_MAX
  PROVE  /\ Cleared(t) \in [ch : Glyphs, attr : 0 .. TERM_MAX]
         /\ [i \in Cells |-> Cleared(t)] \in Frames
  BY DEF Cleared, Glyphs, Frames

LEMMA ScrollType ==
  ASSUME NEW frame \in Frames, NEW t \in 0 .. TERM_MAX
  PROVE  scroll_up(frame, t) \in Frames
  <1>1. \A i \in Cells : i < (NUM_ROWS - 1) * NUM_COLS => i + NUM_COLS \in Cells
    <2> TAKE i \in Cells
    <2>1. NUM_COLS \in Nat \ {0} /\ NUM_ROWS \in Nat \ {0}
      BY ScreenAssumption
    <2>2. (NUM_ROWS - 1) * NUM_COLS + NUM_COLS = NUM_ROWS * NUM_COLS
      BY <2>1
    <2>3. (NUM_ROWS - 1) * NUM_COLS \in Nat
      BY <2>1
    <2>4. QED
      BY <2>1, <2>2, <2>3 DEF Cells
  <1>2. Cleared(t) \in [ch : Glyphs, attr : 0 .. TERM_MAX]
    BY ClearedType
  <1>3. QED
    BY <1>1, <1>2 DEF scroll_up, Frames, Glyphs

\* ToRow, the record it makes spelled out: x is kept, and y stays in the frame.
LEMMA ToRowIs ==
  ASSUME NEW con \in Console, NEW new_y \in 0 .. NUM_ROWS, NEW t \in 0 .. TERM_MAX
  PROVE  ToRow(con, new_y, t) =
           IF new_y \in Rows
           THEN [cells |-> con.cells, x |-> con.x, y |-> new_y]
           ELSE [cells |-> scroll_up(con.cells, t), x |-> con.x, y |-> NUM_ROWS - 1]
  <1>1. NUM_ROWS \in Nat \ {0}
    BY ScreenAssumption
  <1>2. CASE new_y < NUM_ROWS
    <2>1. new_y \in Rows
      BY <1>1, <1>2 DEF Rows
    <2>2. ToRow(con, new_y, t) = [con EXCEPT !.y = new_y]
      BY <1>2 DEF ToRow
    <2>3. [con EXCEPT !.y = new_y] = [cells |-> con.cells, x |-> con.x, y |-> new_y]
      BY DEF Console
    <2>4. QED
      BY <2>1, <2>2, <2>3
  <1>3. CASE ~ new_y < NUM_ROWS
    <2>1. new_y \notin Rows
      BY <1>1, <1>3 DEF Rows
    <2>2. ToRow(con, new_y, t) =
            [con EXCEPT !.cells = scroll_up(@, t), !.y = NUM_ROWS - 1]
      BY <1>3 DEF ToRow
    <2> DEFINE up == scroll_up(con.cells, t)
               scrolled == [con EXCEPT !.cells = up]
    <2>3. scrolled = [cells |-> up, x |-> con.x, y |-> con.y]
      BY DEF Console
    <2>4. ToRow(con, new_y, t) = [scrolled EXCEPT !.y = NUM_ROWS - 1]
      BY <2>2
    <2>5. [scrolled EXCEPT !.y = NUM_ROWS - 1] =
            [cells |-> up, x |-> con.x, y |-> NUM_ROWS - 1]
      <3> HIDE DEF scrolled, up
      <3> QED
        BY <2>3
    <2>6. QED
      BY <2>1, <2>4, <2>5
  <1>4. QED
    BY <1>2, <1>3

LEMMA ToRowType ==
  ASSUME NEW con \in Console, NEW new_y \in 0 .. NUM_ROWS, NEW t \in 0 .. TERM_MAX
  PROVE  ToRow(con, new_y, t) \in Console
  <1>1. NUM_ROWS \in Nat \ {0}
    BY ScreenAssumption
  <1>2. scroll_up(con.cells, t) \in Frames
    BY ScrollType DEF Console
  <1>3. NUM_ROWS - 1 \in Rows
    BY <1>1 DEF Rows
  <1>4. QED
    BY <1>2, <1>3, ToRowIs DEF Console

LEMMA CursorType ==
  ASSUME NEW con \in Console, NEW t \in 0 .. TERM_MAX,
         NEW new_x \in 0 .. NUM_COLS, NEW new_y \in 0 .. NUM_ROWS
  PROVE  set_screen_cursor(con, new_x, new_y, t) \in Console
  <1>1. NUM_ROWS \in Nat \ {0} /\ NUM_COLS \in Nat \ {0}
    BY ScreenAssumption
  <1>2. con.y + 1 \in 0 .. NUM_ROWS
    BY <1>1 DEF Console, Rows
  <1>3. [con EXCEPT !.x = 0] \in Console
    BY <1>1 DEF Console, Cols
  <1>4. new_x < NUM_COLS => [con EXCEPT !.x = new_x] \in Console
    BY <1>1 DEF Console, Cols
  <1>5. QED
    BY <1>1, <1>2, <1>3, <1>4, ToRowType DEF set_screen_cursor, enter

LEMMA EnterType ==
  ASSUME NEW con \in Console, NEW t \in 0 .. TERM_MAX
  PROVE  enter(con, t) \in Console
  <1>1. NUM_ROWS \in Nat \ {0} /\ NUM_COLS \in Nat \ {0}
    BY ScreenAssumption
  <1>2. con.y + 1 \in 0 .. NUM_ROWS
    BY <1>1 DEF Console, Rows
  <1>3. [con EXCEPT !.x = 0] \in Console
    BY <1>1 DEF Console, Cols
  <1>4. QED
    BY <1>2, <1>3, ToRowType DEF enter

-----------------------------------------------------------------------------
(* The text of a frame *)

TextOf(frame) == [r \in Rows |-> [c \in Cols |-> frame[Pos(c, r)].ch]]

LEMMA TextIs ==
  ASSUME NEW frame, NEW r \in Rows
  PROVE  /\ TextOf(frame)[r] = [c \in Cols |-> frame[Pos(c, r)].ch]
         /\ \A c \in Cols : TextOf(frame)[r][c] = frame[Pos(c, r)].ch
  BY DEF TextOf

\* Two frames with the same characters have the same text.
LEMMA SameText ==
  ASSUME NEW one, NEW other, \A i \in Cells : one[i].ch = other[i].ch
  PROVE  TextOf(one) = TextOf(other)
  BY PosInCells DEF TextOf

LEMMA TextCleared ==
  ASSUME NEW t
  PROVE  TextOf([i \in Cells |-> Cleared(t)]) = [r \in Rows |-> Consoles!BlankRow]
  BY PosInCells DEF TextOf, Cleared, Consoles!BlankRow, Consoles!Cols, Cols

LEMMA TextScrolled ==
  ASSUME NEW frame \in Frames, NEW t
  PROVE  TextOf(scroll_up(frame, t)) = Consoles!Scrolled(TextOf(frame))
  <1> DEFINE up == scroll_up(frame, t)
             moved == Consoles!Scrolled(TextOf(frame))
  <1>1. ASSUME NEW r \in Rows, NEW c \in Cols
        PROVE  up[Pos(c, r)].ch = moved[r][c]
    <2>1. Pos(c, r) \in Cells
      BY PosInCells
    <2>2. CASE r + 1 \in Rows
      <3>1. Pos(c, r) < (NUM_ROWS - 1) * NUM_COLS /\ Pos(c, r) + NUM_COLS = Pos(c, r + 1)
        BY <2>2, PosBelow
      <3>2. up[Pos(c, r)] = frame[Pos(c, r + 1)]
        BY <2>1, <3>1 DEF scroll_up
      <3>3. moved[r][c] = frame[Pos(c, r + 1)].ch
        BY <2>2, TextIs DEF Consoles!Scrolled, Consoles!Rows, Rows
      <3>4. QED
        BY <3>2, <3>3
    <2>3. CASE r + 1 \notin Rows
      <3>1. ~ Pos(c, r) < (NUM_ROWS - 1) * NUM_COLS
        BY <2>3, PosBelow
      <3>2. up[Pos(c, r)].ch = Blank
        BY <2>1, <3>1 DEF scroll_up, Cleared
      <3>3. moved[r][c] = Blank
        BY <2>3 DEF Consoles!Scrolled, Consoles!Rows, Rows, Consoles!BlankRow, Consoles!Cols, Cols
      <3>4. QED
        BY <3>2, <3>3
    <2>4. QED
      BY <2>2, <2>3
  <1>2. moved = [r \in Rows |-> moved[r]]
    BY DEF Consoles!Scrolled, Consoles!Rows, Rows
  <1>3. \A r \in Rows : moved[r] = [c \in Cols |-> moved[r][c]]
    BY DEF Consoles!Scrolled, Consoles!Rows, Rows, Consoles!BlankRow, Consoles!Cols, Cols, TextOf
  <1>4. TextOf(up) = [r \in Rows |-> [c \in Cols |-> up[Pos(c, r)].ch]]
    BY DEF TextOf
  <1> HIDE DEF up, moved
  <1>5. \A r \in Rows : [c \in Cols |-> up[Pos(c, r)].ch] = moved[r]
    BY <1>1, <1>3
  <1>6. TextOf(up) = moved
    BY <1>2, <1>4, <1>5
  <1>7. QED
    BY <1>6 DEF up, moved

LEMMA TextWritten ==
  ASSUME NEW frame \in Frames, NEW x \in Cols, NEW y \in Rows, NEW cell
  PROVE  TextOf([frame EXCEPT ![Pos(x, y)] = cell]) =
           [TextOf(frame) EXCEPT ![y][x] = cell.ch]
  <1> DEFINE after == [frame EXCEPT ![Pos(x, y)] = cell]
             row == [TextOf(frame)[y] EXCEPT ![x] = cell.ch]
             rows == [TextOf(frame) EXCEPT ![y] = row]
  <1>1. ASSUME NEW r \in Rows, NEW c \in Cols
        PROVE  after[Pos(c, r)].ch = rows[r][c]
    <2>1. Pos(c, r) \in Cells /\ Pos(x, y) \in Cells
      BY PosInCells
    <2>2. CASE r = y /\ c = x
      <3>1. after[Pos(c, r)] = cell
        BY <2>1, <2>2 DEF Frames
      <3>2. rows[r][c] = cell.ch
        BY <2>2 DEF TextOf
      <3>3. QED
        BY <3>1, <3>2
    <2>3. CASE ~ (r = y /\ c = x)
      <3>1. Pos(c, r) # Pos(x, y)
        BY <2>3, PosInjective
      <3>2. after[Pos(c, r)] = frame[Pos(c, r)]
        BY <2>1, <3>1 DEF Frames
      <3>3. rows[r][c] = frame[Pos(c, r)].ch
        BY <2>3 DEF TextOf
      <3>4. QED
        BY <3>2, <3>3
    <2>4. QED
      BY <2>2, <2>3
  <1>2. rows = [r \in Rows |-> rows[r]]
    BY DEF TextOf
  <1>3. \A r \in Rows : rows[r] = [c \in Cols |-> rows[r][c]]
    BY DEF TextOf
  <1>4. TextOf(after) = [r \in Rows |-> [c \in Cols |-> after[Pos(c, r)].ch]]
    BY DEF TextOf
  <1>5. rows = [TextOf(frame) EXCEPT ![y][x] = cell.ch]
    OBVIOUS
  <1> HIDE DEF after, rows
  <1>6. \A r \in Rows : [c \in Cols |-> after[Pos(c, r)].ch] = rows[r]
    BY <1>1, <1>3
  <1>7. TextOf(after) = rows
    BY <1>2, <1>4, <1>6
  <1>8. QED
    BY <1>5, <1>7 DEF after

-----------------------------------------------------------------------------
(* What a console promises: Consoles, said of one console before and after *)

Fed(con, rows, after) ==
  /\ after.x = 0
  /\ IF con.y + 1 \in Rows
     THEN after.y = con.y + 1 /\ TextOf(after.cells) = rows
     ELSE after.y = con.y /\ TextOf(after.cells) = Consoles!Scrolled(rows)

Typed(con, ch, after) ==
  LET written == [TextOf(con.cells) EXCEPT ![con.y][con.x] = ch] IN
  \/ /\ ch = NL
     /\ Fed(con, TextOf(con.cells), after)
  \/ /\ ch # NL
     /\ con.x + 1 \notin Cols
     /\ Fed(con, written, after)
  \/ /\ ch # NL
     /\ con.x + 1 \in Cols
     /\ after.x = con.x + 1 /\ after.y = con.y /\ TextOf(after.cells) = written

Erased(con, after) ==
  \E r \in Rows, c \in Cols :
    /\ <<con.y, con.x>> = IF c + 1 \in Cols THEN <<r, c + 1>> ELSE <<r + 1, 0>>
    /\ after.y = r /\ after.x = c
    /\ TextOf(after.cells) = [TextOf(con.cells) EXCEPT ![r][c] = Blank]

Wiped(after) ==
  /\ TextOf(after.cells) = [r \in Rows |-> Consoles!BlankRow]
  /\ after.y = 0 /\ after.x = 0

LEMMA EnterFeeds ==
  ASSUME NEW con \in Console, NEW t \in 0 .. TERM_MAX
  PROVE  Fed(con, TextOf(con.cells), enter(con, t))
  <1> DEFINE start == [con EXCEPT !.x = 0]
  <1>1. NUM_ROWS \in Nat \ {0} /\ NUM_COLS \in Nat \ {0}
    BY ScreenAssumption
  <1>2. start = [cells |-> con.cells, x |-> 0, y |-> con.y] /\ start \in Console
    BY <1>1 DEF Console, Cols
  <1>3. con.y + 1 \in 0 .. NUM_ROWS /\ con.cells \in Frames
    BY <1>1 DEF Console, Rows
  <1>4. con.y + 1 \notin Rows => NUM_ROWS - 1 = con.y
    BY <1>1 DEF Console, Rows
  <1>5. enter(con, t) = ToRow(start, con.y + 1, t)
    BY DEF enter
  <1> HIDE DEF start
  <1>6. QED
    BY <1>2, <1>3, <1>4, <1>5, ToRowIs, TextScrolled DEF Fed

\* A console into whose cell at the cursor ch was put moves its cursor.
LEMMA CursorTypes ==
  ASSUME NEW con \in Console, NEW after \in Console, NEW ch, NEW t \in 0 .. TERM_MAX,
         ch # NL, after.x = con.x, after.y = con.y,
         TextOf(after.cells) = [TextOf(con.cells) EXCEPT ![con.y][con.x] = ch]
  PROVE  Typed(con, ch, set_screen_cursor(after, con.x + 1, con.y, t))
  <1>1. NUM_ROWS \in Nat \ {0} /\ NUM_COLS \in Nat \ {0}
    BY ScreenAssumption
  <1>2. con.x \in Cols /\ con.y \in Rows /\ con.y \in 0 .. NUM_ROWS
    BY <1>1 DEF Console, Rows
  <1>3. CASE con.x + 1 \in Cols
    <2> DEFINE next == [after EXCEPT !.x = con.x + 1]
    <2>1. next = [cells |-> after.cells, x |-> con.x + 1, y |-> after.y]
      BY DEF Console
    <2>2. next \in Console
      BY <1>3, <2>1 DEF Console
    <2>3. con.x + 1 < NUM_COLS
      BY <1>1, <1>3 DEF Cols
    <2>4. set_screen_cursor(after, con.x + 1, con.y, t) = ToRow(next, con.y, t)
      BY <2>3 DEF set_screen_cursor
    <2> HIDE DEF next
    <2>5. ToRow(next, con.y, t) = [cells |-> after.cells, x |-> con.x + 1, y |-> con.y]
      BY <1>2, <2>1, <2>2, ToRowIs
    <2>6. QED
      BY <1>3, <2>4, <2>5 DEF Typed
  <1>4. CASE con.x + 1 \notin Cols
    <2>1. ~ con.x + 1 < NUM_COLS
      BY <1>1, <1>2, <1>4 DEF Cols
    <2>2. set_screen_cursor(after, con.x + 1, con.y, t) = enter(after, t)
      BY <2>1 DEF set_screen_cursor
    <2>3. Fed(after, TextOf(after.cells), enter(after, t))
      BY EnterFeeds
    <2>4. QED
      BY <1>4, <2>2, <2>3 DEF Typed, Fed
  <1>5. QED
    BY <1>3, <1>4

-----------------------------------------------------------------------------
(* The inductive invariant *)

\* While the terminals' shells are launched, one at each tick, the pointer
\* is where the boot code left it, and the running terminal is displayed.
Booting ==
  /\ video_mem = VIDEO
  /\ cur_term_id = IF now_term_id = 0 THEN NoTerm ELSE now_term_id
  /\ \A t \in Terms : running[t] <=> 1 <= t /\ t <= now_term_id

\* Afterwards the pointer is at the screen or at the page of the terminal
\* that has the CPU, whatever is displayed.
Booted ==
  /\ video_mem \in {VIDEO, now_term_id}
  /\ cur_term_id \in Terms
  /\ \A t \in Terms : running[t]

SInv == TypeOK /\ (Booting \/ Booted)

-----------------------------------------------------------------------------
(* What the output functions do, whatever they print *)

LEMMA OnScreenType ==
  ASSUME TypeOK
  PROVE  /\ OnScreen \in Console
         /\ \A t \in Terms : InPage(t) \in Console
  BY DEF TypeOK, OnScreen, InPage, Console, Cols, Rows

LEMMA PutType ==
  ASSUME NEW frame \in Frames, NEW i \in Cells,
         NEW cell \in [ch : Glyphs, attr : 0 .. TERM_MAX]
  PROVE  [frame EXCEPT ![i] = cell] \in Frames
  BY DEF Frames, Glyphs

LEMMA ColourType == cur_term_id \in 0 .. TERM_MAX <=> cur_term_id \in Terms \cup {NoTerm}
  <1>1. TERM_MAX \in Nat
    BY ScreenAssumption
  <1>2. QED
    BY <1>1 DEF Terms, NoTerm

\* An output to the screen leaves a console there, and the pages alone.
ScreenOutput(con) ==
  /\ ShowOnScreen(con)
  /\ video_mem' \in {video_mem, VIDEO}
  /\ UNCHANGED pageVars

LEMMA PutcOutput ==
  ASSUME TypeOK, NEW ch \in Echoed, putc(ch)
  PROVE  \E after \in Console : ScreenOutput(after) /\ Typed(OnScreen, ch, after)
  <1>1. OnScreen \in Console /\ cur_term_id \in 0 .. TERM_MAX
    BY OnScreenType, ColourType DEF TypeOK
  <1>2. CASE ch = NL
    <2>1. enter(OnScreen, cur_term_id) \in Console
      BY <1>1, EnterType
    <2>2. NewLine
      BY <1>2 DEF putc
    <2>3. Typed(OnScreen, ch, enter(OnScreen, cur_term_id))
      BY <1>1, <1>2, EnterFeeds DEF Typed
    <2>4. ScreenOutput(enter(OnScreen, cur_term_id))
      BY <2>2 DEF NewLine, ScreenOutput
    <2>5. QED
      BY <2>1, <2>3, <2>4
  <1>3. CASE ch # NL
    <2> DEFINE cell == [ch |-> ch, attr |-> cur_term_id]
               put == [screen EXCEPT ![Pos(screen_x, screen_y)] = cell]
               written == [OnScreen EXCEPT !.cells[Pos(screen_x, screen_y)] = cell]
               shown == set_screen_cursor(written, screen_x + 1, screen_y, cur_term_id)
    <2>1. cell \in [ch : Glyphs, attr : 0 .. TERM_MAX] /\ cell.ch = ch
      BY <1>1, <1>3 DEF Echoed, Glyphs
    <2>2. screen_x \in Cols /\ screen_y \in Rows /\ screen \in Frames
      BY DEF TypeOK, Cols, Rows
    <2>3. put \in Frames /\ TextOf(put) = [TextOf(screen) EXCEPT ![screen_y][screen_x] = ch]
      <3> HIDE DEF cell
      <3> QED
        BY <2>1, <2>2, PosInCells, PutType, TextWritten
    <2>4. written = [cells |-> put, x |-> screen_x, y |-> screen_y]
      BY DEF OnScreen
    <2>5. written \in Console /\ TextOf(written.cells) = TextOf(put)
      <3> HIDE DEF put, written
      <3> QED
        BY <2>2, <2>3, <2>4 DEF Console
    <2>6. screen_x + 1 \in 0 .. NUM_COLS /\ screen_y \in 0 .. NUM_ROWS
      BY <2>2, ScreenAssumption DEF Cols, Rows
    <2>7. shown \in Console
      <3> HIDE DEF written
      <3> QED
        BY <1>1, <2>5, <2>6, CursorType
    <2>8. OnScreen.cells = screen /\ OnScreen.x = screen_x /\ OnScreen.y = screen_y
      BY DEF OnScreen
    <2>9. Typed(OnScreen, ch, shown)
      <3>1. written.x = screen_x /\ written.y = screen_y
        BY <2>4
      <3> HIDE DEF written, put
      <3>2. QED
        BY <1>1, <1>3, <2>3, <2>5, <2>8, <3>1, CursorTypes
    <2>10. ShowOnScreen(shown) /\ video_mem' = VIDEO /\ UNCHANGED pageVars
      BY <1>3 DEF putc
    <2>11. QED
      <3> HIDE DEF shown
      <3> QED
        BY <2>7, <2>9, <2>10 DEF ScreenOutput
  <1>4. QED
    BY <1>2, <1>3

LEMMA BackspaceOutput ==
  ASSUME TypeOK, backspace
  PROVE  \E after \in Console : ScreenOutput(after) /\ Erased(OnScreen, after)
  <1> DEFINE x == IF screen_x # 0 THEN screen_x - 1 ELSE NUM_COLS - 1
             y == IF screen_x # 0 THEN screen_y ELSE screen_y - 1
             moved == set_screen_cursor(OnScreen, x, y, cur_term_id)
             cell == Cleared(cur_term_id)
             put == [screen EXCEPT ![Pos(x, y)] = cell]
             after == [moved EXCEPT !.cells[Pos(x, y)] = cell]
  <1>1. OnScreen \in Console /\ cur_term_id \in 0 .. TERM_MAX
    BY OnScreenType, ColourType DEF TypeOK
  <1>2. screen_x \in Cols /\ screen_y \in Rows /\ screen \in Frames
    BY DEF TypeOK, Cols, Rows
  <1>3. NUM_ROWS \in Nat \ {0} /\ NUM_COLS \in Nat \ {0}
    BY ScreenAssumption
  <1>4. screen_x # 0 \/ screen_y # 0
    BY DEF backspace
  <1>5. /\ x \in Cols /\ y \in Rows
        /\ <<screen_y, screen_x>> = IF x + 1 \in Cols THEN <<y, x + 1>> ELSE <<y + 1, 0>>
    BY <1>2, <1>3, <1>4 DEF Cols, Rows
  <1>6. moved = [cells |-> screen, x |-> x, y |-> y]
    <2> DEFINE left == [OnScreen EXCEPT !.x = x]
    <2> HIDE DEF x, y
    <2>1. left = [cells |-> screen, x |-> x, y |-> screen_y]
      BY DEF OnScreen
    <2>2. left \in Console
      BY <1>2, <1>5, <2>1 DEF Console
    <2>3. x < NUM_COLS /\ y \in 0 .. NUM_ROWS
      BY <1>3, <1>5 DEF Cols, Rows
    <2>4. moved = ToRow(left, y, cur_term_id)
      BY <2>3 DEF set_screen_cursor
    <2> HIDE DEF left, moved
    <2>5. QED
      BY <1>1, <1>5, <2>1, <2>2, <2>3, <2>4, ToRowIs
  <1>7. cell \in [ch : Glyphs, attr : 0 .. TERM_MAX] /\ cell.ch = Blank
    BY <1>1, ClearedType DEF Cleared
  <1>8. put \in Frames /\ TextOf(put) = [TextOf(screen) EXCEPT ![y][x] = Blank]
    <2> HIDE DEF cell, x, y
    <2>1. put \in Frames
      BY <1>2, <1>5, <1>7, PosInCells, PutType
    <2>2. TextOf(put) = [TextOf(screen) EXCEPT ![y][x] = cell.ch]
      BY <1>2, <1>5, TextWritten
    <2>3. QED
      BY <1>7, <2>1, <2>2
  <1>9. after = [cells |-> put, x |-> x, y |-> y]
    <2> HIDE DEF cell, x, y, moved
    <2> QED
      BY <1>6
  <1>10. ShowOnScreen(after) /\ video_mem' = VIDEO /\ UNCHANGED pageVars
    BY DEF backspace
  <1> HIDE DEF put, x, y, after
  <1>11. after \in Console
    BY <1>5, <1>8, <1>9 DEF Console
  <1>12. Erased(OnScreen, after)
    <2>1. OnScreen.cells = screen /\ OnScreen.x = screen_x /\ OnScreen.y = screen_y
      BY DEF OnScreen
    <2>2. after.cells = put /\ after.x = x /\ after.y = y
      BY <1>9
    <2>3. QED
      BY <1>5, <1>8, <2>1, <2>2 DEF Erased
  <1>13. QED
    BY <1>10, <1>11, <1>12 DEF ScreenOutput

LEMMA ClearOutput ==
  ASSUME TypeOK, clear
  PROVE  \E after \in Console : ScreenOutput(after) /\ Wiped(after)
  <1> DEFINE wiped == [i \in Cells |-> Cleared(cur_term_id)]
             after == [cells |-> wiped, x |-> 0, y |-> 0]
  <1>1. cur_term_id \in 0 .. TERM_MAX
    BY ColourType DEF TypeOK
  <1>2. NUM_ROWS \in Nat \ {0} /\ NUM_COLS \in Nat \ {0}
    BY ScreenAssumption
  <1>3. after \in Console
    <2>1. 0 \in Cols /\ 0 \in Rows
      BY <1>2 DEF Cols, Rows
    <2>3. wiped \in Frames
      BY <1>1, ClearedType
    <2> HIDE DEF wiped
    <2>2. QED
      BY <2>1, <2>3 DEF Console
  <1>4. Wiped(after)
    BY TextCleared DEF Wiped
  <1>5. ScreenOutput(after)
    BY DEF clear, ScreenOutput
  <1>6. QED
    BY <1>3, <1>4, <1>5

LEMMA DyedText ==
  ASSUME NEW frame \in Frames, NEW v, NEW i \in Cells, NEW t \in 0 .. TERM_MAX
  PROVE  /\ Dyed(frame, v, i, t) \in Frames
         /\ TextOf(Dyed(frame, v, i, t)) = TextOf(frame)
         /\ video_mem # v => Dyed(frame, v, i, t) = frame
  <1> DEFINE cell == [frame[i] EXCEPT !.attr = t]
             dyed == [frame EXCEPT ![i] = cell]
  <1>1. frame[i] \in [ch : Glyphs, attr : 0 .. TERM_MAX]
    BY DEF Frames, Glyphs
  <1>2. cell \in [ch : Glyphs, attr : 0 .. TERM_MAX] /\ cell.ch = frame[i].ch
    <2> HIDE DEF Glyphs
    <2> QED
      BY <1>1
  <1>3. dyed \in Frames
    <2> HIDE DEF cell
    <2> QED
      BY <1>2, PutType
  <1>4. \A j \in Cells : dyed[j].ch = frame[j].ch
    <2> HIDE DEF cell
    <2> QED
      BY <1>2 DEF Frames
  <1>5. TextOf(dyed) = TextOf(frame)
    <2> HIDE DEF dyed
    <2> QED
      BY <1>4, SameText
  <1>6. Dyed(frame, v, i, t) = IF video_mem = v THEN dyed ELSE frame
    BY DEF Dyed
  <1> HIDE DEF dyed
  <1>7. QED
    BY <1>3, <1>5, <1>6

\* An output to the page of the running terminal leaves a console there, the
\* text of every other memory, and, the pointer being at the screen or at
\* that page, every other page.
PageOutput(con) ==
  LET others == Terms \ {now_term_id} IN
  /\ page' \in [Terms -> Frames] /\ page'[now_term_id] = con.cells
  /\ cursor_x' = [cursor_x EXCEPT ![now_term_id] = con.x]
  /\ cursor_y' = [cursor_y EXCEPT ![now_term_id] = con.y]
  /\ \A t \in others : TextOf(page'[t]) = TextOf(page[t])
  /\ \A t \in others : video_mem # t => page'[t] = page[t]
  /\ screen' \in Frames /\ TextOf(screen') = TextOf(screen)
  /\ UNCHANGED <<screen_x, screen_y, video_mem>>

LEMMA MultiPutcOutput ==
  ASSUME TypeOK, NEW ch \in Echoed, multi_putc(ch)
  PROVE  \E after \in Console : PageOutput(after) /\ Typed(InPage(now_term_id), ch, after)
  <1> DEFINE t == now_term_id
             con == InPage(t)
  <1>1. /\ t \in Terms /\ con \in Console /\ t \in 0 .. TERM_MAX
        /\ cur_term_id \in 0 .. TERM_MAX
        /\ page \in [Terms -> Frames] /\ screen \in Frames
    BY OnScreenType, ColourType, ScreenAssumption DEF TypeOK, Terms
  <1>2. con.cells = page[t] /\ con.x = cursor_x[t] /\ con.y = cursor_y[t]
    BY DEF InPage
  <1>3. CASE ch = NL
    <2> DEFINE after == multi_set_screen_cursor(con, 0, cursor_y[t] + 1)
    <2>1. after = enter(con, t)
      BY <1>2, ScreenAssumption DEF multi_set_screen_cursor, set_screen_cursor, enter
    <2>2. after \in Console /\ Typed(con, ch, after)
      <3> HIDE DEF con, after
      <3> QED
        BY <1>1, <1>3, <2>1, EnterType, EnterFeeds DEF Typed
    <2>3. ShowInPage(after, page) /\ UNCHANGED screenVars /\ UNCHANGED video_mem
      BY <1>3 DEF multi_putc, multi_enter
    <2> HIDE DEF after, con
    <2>4. page' \in [Terms -> Frames] /\ page'[t] = after.cells
      BY <1>1, <2>2, <2>3 DEF ShowInPage, Console
    <2>5. PageOutput(after)
      BY <1>1, <2>3, <2>4 DEF PageOutput, ShowInPage, screenVars
    <2>6. QED
      BY <2>2, <2>5 DEF con
  <1>4. CASE ch # NL
    <2> DEFINE old == page[t][Pos(con.x, con.y)]
               cell == [old EXCEPT !.ch = ch]
               put == [page[t] EXCEPT ![Pos(con.x, con.y)] = cell]
               written == [con.cells EXCEPT ![Pos(con.x, con.y)].ch = ch]
               dye == Dyed(written, t, DyedCell, cur_term_id)
               dyed == [con EXCEPT !.cells = dye]
               after == multi_set_screen_cursor(dyed, con.x + 1, con.y)
               others == [u \in Terms |-> Dyed(page[u], u, DyedCell, cur_term_id)]
    <2>1. con.x \in Cols /\ con.y \in Rows /\ Pos(con.x, con.y) \in Cells
      <3> HIDE DEF con
      <3> QED
        BY <1>1, PosInCells DEF Console
    <2>2. DyedCell \in Cells
      BY PosInCells DEF DyedCell, TypeOK, Cols, Rows
    <2>3. cell \in [ch : Glyphs, attr : 0 .. TERM_MAX] /\ cell.ch = ch
      <3>1. old \in [ch : Glyphs, attr : 0 .. TERM_MAX]
        <4> HIDE DEF con
        <4> QED
          BY <1>1, <2>1 DEF Frames, Glyphs
      <3>2. ch \in Glyphs
        BY <1>4 DEF Echoed, Glyphs
      <3> HIDE DEF old
      <3>3. QED
        BY <3>1, <3>2
    <2>4. written = put
      BY <1>2
    <2>5. put \in Frames /\ TextOf(put) = [TextOf(page[t]) EXCEPT ![con.y][con.x] = ch]
      <3> HIDE DEF con, cell
      <3>1. put \in Frames
        BY <1>1, <2>1, <2>3, PutType
      <3>2. TextOf(put) = [TextOf(page[t]) EXCEPT ![con.y][con.x] = cell.ch]
        <4>1. page[t] \in Frames
          BY <1>1
        <4>2. con.x \in Cols /\ con.y \in Rows
          BY <2>1
        <4> HIDE DEF t
        <4>3. QED
          BY <4>1, <4>2, TextWritten
      <3>3. QED
        BY <2>3, <3>1, <3>2
    <2>6. dye \in Frames /\ TextOf(dye) = TextOf(put)
      <3> HIDE DEF put, written
      <3> QED
        BY <1>1, <2>2, <2>4, <2>5, DyedText
    <2>7. /\ dyed = [cells |-> dye, x |-> con.x, y |-> con.y]
          /\ dyed \in Console
      <3> HIDE DEF con, dye
      <3>1. dyed = [cells |-> dye, x |-> con.x, y |-> con.y]
        BY <1>1 DEF Console
      <3>2. QED
        BY <2>1, <2>6, <3>1 DEF Console
    <2>8. con.x + 1 \in 0 .. NUM_COLS /\ con.y \in 0 .. NUM_ROWS
      <3> HIDE DEF con
      <3> QED
        BY <2>1, ScreenAssumption DEF Cols, Rows
    <2>9. after = set_screen_cursor(dyed, con.x + 1, con.y, t)
      BY DEF multi_set_screen_cursor
    <2>10. after \in Console
      <3> HIDE DEF con, dyed, after
      <3> QED
        BY <1>1, <2>7, <2>8, <2>9, CursorType
    <2>11. Typed(con, ch, after)
      <3>1. dyed.x = con.x /\ dyed.y = con.y /\ dyed.cells = dye
        <4> HIDE DEF con, dyed, dye
        <4> QED
          BY <2>7
      <3> HIDE DEF con, dyed, dye, after, put
      <3>2. QED
        BY <1>1, <1>2, <1>4, <2>5, <2>6, <2>7, <2>9, <3>1, CursorTypes
    <2>12. /\ ShowInPage(after, others)
           /\ screen' = Dyed(screen, VIDEO, DyedCell, cur_term_id)
           /\ UNCHANGED <<screen_x, screen_y, video_mem>>
      BY <1>4 DEF multi_putc
    <2>13. \A u \in Terms : /\ others[u] \in Frames
                            /\ TextOf(others[u]) = TextOf(page[u])
                            /\ video_mem # u => others[u] = page[u]
      BY <1>1, <2>2, DyedText
    <2>14. screen' \in Frames /\ TextOf(screen') = TextOf(screen)
      BY <1>1, <2>2, <2>12, DyedText
    <2>15. others = [u \in Terms |-> others[u]]
      OBVIOUS
    <2> HIDE DEF after, others, con
    <2>16. /\ page' \in [Terms -> Frames] /\ page'[t] = after.cells
           /\ \A u \in Terms \ {t} : page'[u] = others[u]
      BY <1>1, <2>10, <2>12, <2>13, <2>15 DEF ShowInPage, Console
    <2>17. PageOutput(after)
      BY <1>1, <2>12, <2>13, <2>14, <2>16 DEF PageOutput, ShowInPage
    <2>18. QED
      BY <2>10, <2>11, <2>17 DEF con
  <1>5. QED
    BY <1>3, <1>4

-----------------------------------------------------------------------------
(* What each step does to the consoles *)

LEMMA ConsoleIs ==
  ASSUME TypeOK, NEW t \in Terms
  PROVE  /\ ConsoleOf(t) \in Console
         /\ t = cur_term_id => /\ ConsoleOf(t).cells = screen
                               /\ ConsoleOf(t).x = screen_x /\ ConsoleOf(t).y = screen_y
         /\ t # cur_term_id => /\ ConsoleOf(t).cells = page[t]
                               /\ ConsoleOf(t).x = cursor_x[t] /\ ConsoleOf(t).y = cursor_y[t]
  BY OnScreenType DEF ConsoleOf, OnScreen, InPage

\* A switch copies two consoles and changes none.
LEMMA SwitchKeeps ==
  ASSUME TypeOK, NEW n \in Terms, term_switch(cur_term_id, n)
  PROVE  /\ screen' \in Frames /\ page' \in [Terms -> Frames]
         /\ screen_x' \in Cols /\ screen_y' \in Rows
         /\ cursor_x' \in [Terms -> Cols] /\ cursor_y' \in [Terms -> Rows]
         /\ cur_term_id' = n
         /\ \A t \in Terms : ConsoleOf(t)' = ConsoleOf(t)
  <1>1. /\ screen \in Frames /\ page \in [Terms -> Frames]
        /\ screen_x \in Cols /\ screen_y \in Rows
        /\ cursor_x \in [Terms -> Cols] /\ cursor_y \in [Terms -> Rows]
    BY DEF TypeOK, Cols, Rows
  <1>2. /\ screen' = page'[n] /\ screen_x' = cursor_x'[n] /\ screen_y' = cursor_y'[n]
        /\ cur_term_id' = n
    BY DEF term_switch
  <1>3. CASE cur_term_id \in Terms
    <2>1. /\ page' = [page EXCEPT ![cur_term_id] = screen]
          /\ cursor_x' = [cursor_x EXCEPT ![cur_term_id] = screen_x]
          /\ cursor_y' = [cursor_y EXCEPT ![cur_term_id] = screen_y]
      BY <1>3 DEF term_switch
    <2>2. QED
      BY <1>1, <1>2, <1>3, <2>1 DEF ConsoleOf, OnScreen, InPage
  <1>4. CASE cur_term_id \notin Terms
    <2>1. page' = page /\ cursor_x' = cursor_x /\ cursor_y' = cursor_y
      BY <1>4 DEF term_switch
    <2>2. QED
      BY <1>1, <1>2, <1>4, <2>1 DEF ConsoleOf, OnScreen, InPage
  <1>5. QED
    BY <1>3, <1>4

\* The variables an output leaves alone.
Turns == <<cur_term_id, now_term_id, running>>

LEMMA ScreenOutputKeeps ==
  ASSUME TypeOK, NEW con \in Console, ScreenOutput(con), UNCHANGED Turns
  PROVE  /\ TypeOK'
         /\ \A t \in Terms : ConsoleOf(t)' = IF t = cur_term_id THEN con ELSE ConsoleOf(t)
  <1>1. screen' = con.cells /\ screen_x' = con.x /\ screen_y' = con.y
    BY DEF ScreenOutput, ShowOnScreen
  <1>2. con.cells \in Frames /\ con.x \in Cols /\ con.y \in Rows
        /\ con = [cells |-> con.cells, x |-> con.x, y |-> con.y]
    BY DEF Console
  <1>3. TypeOK'
    BY <1>1, <1>2 DEF TypeOK, Cols, Rows, ScreenOutput, pageVars, Turns
  <1>4. OnScreen' = con
    BY <1>1, <1>2 DEF OnScreen
  <1>5. ASSUME NEW t \in Terms
        PROVE  ConsoleOf(t)' = IF t = cur_term_id THEN con ELSE ConsoleOf(t)
    <2>1. InPage(t)' = InPage(t)
      BY DEF InPage, ScreenOutput, pageVars
    <2>2. QED
      BY <1>4, <2>1 DEF ConsoleOf, Turns
  <1>6. QED
    BY <1>3, <1>5

LEMMA PageOutputKeeps ==
  ASSUME TypeOK, NEW con \in Console, PageOutput(con), UNCHANGED Turns,
         now_term_id # cur_term_id
  PROVE  /\ TypeOK'
         /\ ConsoleOf(now_term_id)' = con
         /\ \A t \in Terms \ {now_term_id} :
              /\ ConsoleOf(t).x' = ConsoleOf(t).x /\ ConsoleOf(t).y' = ConsoleOf(t).y
              /\ TextOf(ConsoleOf(t).cells)' = TextOf(ConsoleOf(t).cells)
              /\ video_mem # t /\ cur_term_id # t => ConsoleOf(t)' = ConsoleOf(t)
  <1>1. /\ con.cells \in Frames /\ con.x \in Cols /\ con.y \in Rows
        /\ con = [cells |-> con.cells, x |-> con.x, y |-> con.y]
    BY DEF Console
  <1>2. cursor_x \in [Terms -> Cols] /\ cursor_y \in [Terms -> Rows] /\ now_term_id \in Terms
    BY DEF TypeOK, Cols, Rows
  <1>3. TypeOK'
    <2>1. cursor_x' \in [Terms -> Cols] /\ cursor_y' \in [Terms -> Rows]
      BY <1>1, <1>2 DEF PageOutput
    <2>2. QED
      BY <2>1 DEF TypeOK, PageOutput, Turns, Cols, Rows
  <1>4. ConsoleOf(now_term_id)' = con
    BY <1>1, <1>2 DEF ConsoleOf, InPage, PageOutput, Turns
  <1>5. ASSUME NEW t \in Terms \ {now_term_id}
        PROVE  /\ ConsoleOf(t).x' = ConsoleOf(t).x /\ ConsoleOf(t).y' = ConsoleOf(t).y
               /\ TextOf(ConsoleOf(t).cells)' = TextOf(ConsoleOf(t).cells)
               /\ video_mem # t /\ cur_term_id # t => ConsoleOf(t)' = ConsoleOf(t)
    <2>1. CASE t = cur_term_id
      <3>1. ConsoleOf(t) = OnScreen /\ ConsoleOf(t)' = OnScreen'
        BY <2>1 DEF ConsoleOf, Turns
      <3>2. TextOf(screen') = TextOf(screen) /\ screen_x' = screen_x /\ screen_y' = screen_y
        BY DEF PageOutput
      <3>3. QED
        BY <2>1, <3>1, <3>2 DEF OnScreen, TextOf
    <2>2. CASE t # cur_term_id
      <3>1. ConsoleOf(t) = InPage(t) /\ ConsoleOf(t)' = InPage(t)'
        BY <2>2 DEF ConsoleOf, Turns
      <3>2. /\ TextOf(page'[t]) = TextOf(page[t])
            /\ video_mem # t => page'[t] = page[t]
            /\ cursor_x'[t] = cursor_x[t] /\ cursor_y'[t] = cursor_y[t]
        BY <1>2 DEF PageOutput
      <3>3. QED
        BY <2>2, <3>1, <3>2 DEF InPage, TextOf
    <2>3. QED
      BY <2>1, <2>2
  <1>6. QED
    BY <1>3, <1>4, <1>5

-----------------------------------------------------------------------------
(* Invariance *)

\* The round robin.
LEMMA NextTerminal ==
  ASSUME NEW t \in Terms
  PROVE  /\ (t + 1) % TERM_MAX \in Terms
         /\ (t + 1) % TERM_MAX = IF t + 1 < TERM_MAX THEN t + 1 ELSE 0
  <1>1. TERM_MAX \in Nat \ {0} /\ t \in Nat /\ t + 1 \in Nat /\ t + 1 <= TERM_MAX
    BY ScreenAssumption DEF Terms
  <1> DEFINE q == (t + 1) \div TERM_MAX
             m == (t + 1) % TERM_MAX
  <1>2. m \in 0 .. TERM_MAX - 1 /\ q \in Nat /\ t + 1 = (q * TERM_MAX) + m
    BY <1>1
  <1>3. CASE q = 0
    BY <1>1, <1>2, <1>3 DEF Terms
  <1>4. CASE q # 0
    <2> HIDE DEF q, m
    <2>1. q * TERM_MAX = ((q - 1) * TERM_MAX) + TERM_MAX /\ (q - 1) * TERM_MAX >= 0
      BY <1>1, <1>2, <1>4
    <2>2. (q - 1) * TERM_MAX \in Nat
      BY <1>1, <1>2, <1>4
    <2>3. m = 0 /\ t + 1 = TERM_MAX
      BY <1>1, <1>2, <2>1, <2>2
    <2>4. QED
      BY <1>1, <2>3 DEF m, Terms
  <1>5. QED
    BY <1>3, <1>4

LEMMA SInvInit == Init => SInv
  <1> SUFFICES ASSUME Init PROVE SInv
    OBVIOUS
  <1>1. TERM_MAX \in Nat \ {0} /\ NUM_ROWS \in Nat \ {0} /\ NUM_COLS \in Nat \ {0}
    BY ScreenAssumption
  <1>2. NoTerm \in 0 .. TERM_MAX /\ \A t \in Terms : t \in 0 .. TERM_MAX
    BY <1>1 DEF NoTerm, Terms
  <1>3. screen \in Frames
    BY <1>2, ClearedType DEF Init
  <1>4. page \in [Terms -> Frames]
    BY <1>2, ClearedType DEF Init
  <1>5. TypeOK
    <2>1. /\ screen_x \in 0 .. NUM_COLS - 1 /\ screen_y \in 0 .. NUM_ROWS - 1
          /\ cursor_x \in [Terms -> 0 .. NUM_COLS - 1]
          /\ cursor_y \in [Terms -> 0 .. NUM_ROWS - 1]
      BY <1>1 DEF Init
    <2>2. video_mem \in Terms \cup {VIDEO} /\ cur_term_id \in Terms \cup {NoTerm}
      BY DEF Init
    <2>3. now_term_id \in Terms
      BY <1>1 DEF Init, Terms
    <2>4. running \in [Terms -> BOOLEAN]
      BY DEF Init
    <2>5. QED
      BY <1>3, <1>4, <2>1, <2>2, <2>3, <2>4 DEF TypeOK
  <1>6. Booting
    BY <1>1 DEF Init, Booting, Terms
  <1>7. QED
    BY <1>5, <1>6 DEF SInv

\* The pointer after an output on the screen.
LEMMA AtScreen ==
  ASSUME SInv, TypeOK', video_mem' \in {video_mem, VIDEO}, UNCHANGED Turns
  PROVE  SInv'
  BY DEF SInv, Booting, Booted, Turns

LEMMA SInvTick ==
  ASSUME SInv, Tick
  PROVE  SInv'
  <1> DEFINE next == (now_term_id + 1) % TERM_MAX
  <1>1. now_term_id \in Terms /\ TypeOK /\ TERM_MAX \in Nat \ {0}
    BY ScreenAssumption DEF SInv, TypeOK
  <1>2. next \in Terms /\ next = IF now_term_id + 1 < TERM_MAX THEN now_term_id + 1 ELSE 0
    BY <1>1, NextTerminal
  <1>3. now_term_id' = next
    BY DEF Tick
  <1> HIDE DEF next
  <1>4. CASE ~running[next] /\ term_launch(next)
    <2>1. term_switch(cur_term_id, next) /\ running' = [running EXCEPT ![next] = TRUE]
          /\ video_mem' = video_mem
      BY <1>4 DEF term_launch
    <2>2. cur_term_id' = next /\ TypeOK'
      BY <1>1, <1>2, <1>3, <2>1, SwitchKeeps DEF TypeOK, Cols, Rows
    <2>3. Booting
      BY <1>2, <1>4 DEF SInv, Booted
    <2>4. CASE next # 0
      <3>1. now_term_id \in Nat /\ next = now_term_id + 1
        BY <1>1, <1>2, <2>4 DEF Terms
      <3>2. ASSUME NEW t \in Terms
            PROVE  running'[t] <=> 1 <= t /\ t <= next
        <4>1. t = next => running'[t]
          BY <1>1, <2>1 DEF TypeOK
        <4>2. t # next => (running'[t] <=> running[t])
          BY <1>1, <2>1 DEF TypeOK
        <4>3. running[t] <=> 1 <= t /\ t <= now_term_id
          BY <2>3 DEF Booting
        <4>4. t = next => 1 <= t /\ t <= next
          BY <3>1
        <4>5. t # next => (t <= now_term_id <=> t <= next)
          BY <3>1 DEF Terms
        <4>6. QED
          BY <4>1, <4>2, <4>3, <4>4, <4>5
      <3>3. video_mem' = VIDEO /\ cur_term_id' = IF next = 0 THEN NoTerm ELSE next
        BY <2>1, <2>2, <2>3, <2>4 DEF Booting
      <3>4. Booting'
        BY <1>3, <3>2, <3>3 DEF Booting, VIDEO, NoTerm, Terms
      <3>5. QED
        BY <2>2, <3>4 DEF SInv
    <2>5. CASE next = 0
      <3>1. now_term_id = TERM_MAX - 1
        BY <1>1, <1>2, <2>5 DEF Terms
      <3>2. \A t \in Terms : running'[t]
        BY <1>1, <2>1, <2>3, <2>5, <3>1 DEF Booting, Terms, TypeOK
      <3>3. Booted'
        BY <1>2, <2>1, <2>2, <2>3, <3>2 DEF Booted, Booting
      <3>4. QED
        BY <2>2, <3>3 DEF SInv
    <2>6. QED
      BY <2>4, <2>5
  <1>5. CASE /\ running[next]
             /\ video_mem' = VidmemFor(next)
             /\ UNCHANGED <<screenVars, pageVars, cur_term_id, running>>
    <2>1. Booted
      <3>1. Booting => ~running[next]
        BY <1>1, <1>2 DEF Booting, Terms
      <3>2. QED
        BY <1>5, <3>1 DEF SInv
    <2>2. video_mem' \in {VIDEO, next}
      BY <1>5 DEF VidmemFor
    <2>3. TypeOK'
      BY <1>1, <1>2, <1>3, <1>5, <2>2 DEF TypeOK, screenVars, pageVars
    <2>4. Booted'
      BY <1>3, <1>5, <2>1, <2>2 DEF Booted, VIDEO
    <2>5. QED
      BY <2>3, <2>4 DEF SInv
  <1>6. QED
    BY <1>4, <1>5 DEF Tick, next

LEMMA SInvAltF ==
  ASSUME SInv, NEW n \in Terms, AltF(n)
  PROVE  SInv'
  <1>1. TypeOK /\ term_switch(cur_term_id, n) /\ UNCHANGED <<video_mem, now_term_id, running>>
    BY DEF SInv, AltF
  <1>2. TypeOK' /\ cur_term_id' = n
    BY <1>1, SwitchKeeps DEF TypeOK, Cols, Rows
  <1>3. Booted \/ (Booting /\ \A t \in Terms : running[t])
    BY DEF SInv, AltF
  <1>4. video_mem \in {VIDEO, now_term_id} /\ \A t \in Terms : running[t]
    BY <1>3 DEF Booted, Booting
  <1>5. Booted'
    BY <1>1, <1>2, <1>4 DEF Booted, VIDEO
  <1>6. QED
    BY <1>2, <1>5 DEF SInv

\* One step per action.
LEMMA SInvNext == SInv /\ [Next]_vars => SInv'
  <1> SUFFICES ASSUME SInv, [Next]_vars PROVE SInv'
    OBVIOUS
  <1> TypeOK
    BY DEF SInv
  <1>1. CASE Tick
    BY <1>1, SInvTick
  <1>2. CASE Write
    <2>1. PICK ch \in Echoed : term_write(ch)
      BY <1>2 DEF Write
    <2>2. UNCHANGED Turns
      BY <1>2 DEF Write, Turns
    <2>3. CASE now_term_id = cur_term_id /\ putc(ch)
      BY <2>2, <2>3, PutcOutput, ScreenOutputKeeps, AtScreen DEF ScreenOutput
    <2>4. CASE now_term_id # cur_term_id /\ multi_putc(ch)
      BY <2>2, <2>4, MultiPutcOutput, PageOutputKeeps, AtScreen DEF PageOutput
    <2>5. QED
      BY <2>1, <2>3, <2>4 DEF term_write
  <1>3. CASE EchoKey
    <2>1. (\E ch \in Echoed : putc(ch)) /\ UNCHANGED Turns
      BY <1>3 DEF EchoKey, Turns
    <2>2. QED
      BY <2>1, PutcOutput, ScreenOutputKeeps, AtScreen DEF ScreenOutput
  <1>4. CASE Backspace
    <2>1. backspace /\ UNCHANGED Turns
      BY <1>4 DEF Backspace, Turns
    <2>2. QED
      BY <2>1, BackspaceOutput, ScreenOutputKeeps, AtScreen DEF ScreenOutput
  <1>5. CASE CtrlL
    <2>1. clear /\ UNCHANGED Turns
      BY <1>5 DEF CtrlL, Turns
    <2>2. QED
      BY <2>1, ClearOutput, ScreenOutputKeeps, AtScreen DEF ScreenOutput
  <1>6. CASE \E n \in Terms : AltF(n)
    BY <1>6, SInvAltF
  <1>7. CASE UNCHANGED vars
    BY <1>7 DEF vars, screenVars, pageVars, SInv, TypeOK, Booting, Booted
  <1>8. QED
    BY <1>1, <1>2, <1>3, <1>4, <1>5, <1>6, <1>7 DEF Next

\* Whatever is typed, printed and displayed, no cursor leaves its frame: no
\* output function writes outside video memory.
THEOREM CursorsStayInFrames == Spec => []TypeOK
  <1>1. SInv => TypeOK
    BY DEF SInv
  <1>2. QED
    BY <1>1, SInvInit, SInvNext, PTL DEF Spec

-----------------------------------------------------------------------------
(* The third terminal *)

\* The invariant's part that matters here: where the pointer is not.
LEMMA PointerElsewhere ==
  ASSUME SInv, NEW t \in Terms, t # now_term_id
  PROVE  video_mem # t
  BY ScreenAssumption DEF SInv, Booting, Booted, VIDEO, Terms

LEMMA ThirdTerminalStep ==
  ASSUME SInv, [Next]_vars, NEW t \in Terms \ {cur_term_id, now_term_id}
  PROVE  ConsoleOf(t)' = ConsoleOf(t)
  <1> TypeOK
    BY DEF SInv
  <1>1. CASE Tick
    <2>1. (now_term_id + 1) % TERM_MAX \in Terms
      BY NextTerminal DEF TypeOK
    <2>2. CASE term_launch((now_term_id + 1) % TERM_MAX)
      BY <2>1, <2>2, SwitchKeeps DEF term_launch
    <2>3. CASE UNCHANGED <<screenVars, pageVars, cur_term_id, running>>
      BY <2>3 DEF screenVars, pageVars, ConsoleOf, OnScreen, InPage
    <2>4. QED
      BY <1>1, <2>2, <2>3 DEF Tick
  <1>2. CASE Write
    <2>1. PICK ch \in Echoed : term_write(ch)
      BY <1>2 DEF Write
    <2>2. UNCHANGED Turns
      BY <1>2 DEF Write, Turns
    <2>3. CASE now_term_id = cur_term_id /\ putc(ch)
      BY <2>2, <2>3, PutcOutput, ScreenOutputKeeps
    <2>4. CASE now_term_id # cur_term_id /\ multi_putc(ch)
      BY <2>2, <2>4, MultiPutcOutput, PageOutputKeeps, PointerElsewhere
    <2>5. QED
      BY <2>1, <2>3, <2>4 DEF term_write
  <1>3. CASE EchoKey
    <2>1. (\E ch \in Echoed : putc(ch)) /\ UNCHANGED Turns
      BY <1>3 DEF EchoKey, Turns
    <2>2. QED
      BY <2>1, PutcOutput, ScreenOutputKeeps
  <1>4. CASE Backspace
    <2>1. backspace /\ UNCHANGED Turns
      BY <1>4 DEF Backspace, Turns
    <2>2. QED
      BY <2>1, BackspaceOutput, ScreenOutputKeeps
  <1>5. CASE CtrlL
    <2>1. clear /\ UNCHANGED Turns
      BY <1>5 DEF CtrlL, Turns
    <2>2. QED
      BY <2>1, ClearOutput, ScreenOutputKeeps
  <1>6. CASE \E n \in Terms : AltF(n)
    BY <1>6, SwitchKeeps DEF AltF
  <1>7. CASE UNCHANGED vars
    BY <1>7 DEF vars, screenVars, pageVars, ConsoleOf, OnScreen, InPage
  <1>8. QED
    BY <1>1, <1>2, <1>3, <1>4, <1>5, <1>6, <1>7 DEF Next

\* No step changes a cell, a colour or the cursor of a terminal that is
\* neither displayed nor running, wherever ticks and switches leave the
\* pointer through which multi_putc colours a cell.
THEOREM ThirdTerminalSafe == Spec => ThirdTerminalUntouched
  <1>1. SInv /\ [Next]_vars =>
          [\A t \in Terms \ {cur_term_id, now_term_id} : ConsoleOf(t)' = ConsoleOf(t)]_vars
    BY ThirdTerminalStep
  <1>2. QED
    BY <1>1, SInvInit, SInvNext, PTL DEF Spec, ThirdTerminalUntouched

-----------------------------------------------------------------------------
(* Every step is a step of Consoles *)

Texts == [t \in Terms |-> Row(t)]
Places == [t \in Terms |-> <<ConsoleOf(t).y, ConsoleOf(t).x>>]

LEMMA TextsAre ==
  ASSUME NEW t \in Terms
  PROVE  /\ Texts[t] = TextOf(ConsoleOf(t).cells)
         /\ Places[t] = <<ConsoleOf(t).y, ConsoleOf(t).x>>
  BY DEF Texts, Places, Row, TextOf, Rows, Cols

\* A step shows console con at terminal t and the old text at every other.
OneConsole(t, con) ==
  /\ ConsoleOf(t)' = con
  /\ \A u \in Terms \ {t} :
       /\ ConsoleOf(u).x' = ConsoleOf(u).x /\ ConsoleOf(u).y' = ConsoleOf(u).y
       /\ TextOf(ConsoleOf(u).cells)' = TextOf(ConsoleOf(u).cells)

LEMMA OneText ==
  ASSUME NEW t \in Terms, NEW con, OneConsole(t, con)
  PROVE  /\ Texts' = [Texts EXCEPT ![t] = TextOf(con.cells)]
         /\ Places' = [Places EXCEPT ![t] = <<con.y, con.x>>]
  <1>1. /\ Texts = [u \in Terms |-> TextOf(ConsoleOf(u).cells)]
        /\ Texts' = [u \in Terms |-> TextOf(ConsoleOf(u).cells)']
    BY DEF Texts, Row, TextOf, Rows, Cols
  <1>2. TextOf(ConsoleOf(t).cells)' = TextOf(con.cells)
    BY DEF OneConsole, TextOf
  <1>3. ConsoleOf(t).x' = con.x /\ ConsoleOf(t).y' = con.y
    BY DEF OneConsole
  <1>4. Places' = [u \in Terms |-> <<ConsoleOf(u).y', ConsoleOf(u).x'>>]
    BY DEF Places
  <1>5. \A u \in Terms \ {t} :
          /\ TextOf(ConsoleOf(u).cells)' = TextOf(ConsoleOf(u).cells)
          /\ ConsoleOf(u).x' = ConsoleOf(u).x /\ ConsoleOf(u).y' = ConsoleOf(u).y
    BY DEF OneConsole
  <1>6. Texts' = [Texts EXCEPT ![t] = TextOf(con.cells)]
    BY <1>1, <1>2, <1>5
  <1>7. Places' = [Places EXCEPT ![t] = <<con.y, con.x>>]
    BY <1>3, <1>4, <1>5 DEF Places
  <1>8. QED
    BY <1>6, <1>7

LEMMA PutRefines ==
  ASSUME NEW t \in Terms, NEW ch, NEW con, OneConsole(t, con), UNCHANGED Turns,
         Typed(ConsoleOf(t), ch, con)
  PROVE  Consoles!Put(t, ch)
  <1>1. /\ Texts' = [Texts EXCEPT ![t] = TextOf(con.cells)]
        /\ Places' = [Places EXCEPT ![t] = <<con.y, con.x>>]
    BY OneText
  <1>2. /\ Texts[t] = TextOf(ConsoleOf(t).cells)
        /\ Places[t][1] = ConsoleOf(t).y /\ Places[t][2] = ConsoleOf(t).x
    BY TextsAre
  <1>3. cur_term_id' = cur_term_id /\ now_term_id' = now_term_id
    BY DEF Turns
  <1>4. Consoles!Rows = Rows /\ Consoles!Cols = Cols /\ Consoles!Terms = Terms
    BY DEF Consoles!Rows, Consoles!Cols, Consoles!Terms, Rows, Cols, Terms
  <1>5. QED
    BY <1>1, <1>2, <1>3, <1>4 DEF Typed, Fed, Consoles!Put, Consoles!Feed, Texts, Places

LEMMA EraseRefines ==
  ASSUME NEW t \in Terms, NEW con, OneConsole(t, con), UNCHANGED Turns,
         Erased(ConsoleOf(t), con)
  PROVE  Consoles!Erase(t)
  <1>1. /\ Texts' = [Texts EXCEPT ![t] = TextOf(con.cells)]
        /\ Places' = [Places EXCEPT ![t] = <<con.y, con.x>>]
    BY OneText
  <1>2. /\ Texts[t] = TextOf(ConsoleOf(t).cells)
        /\ Places[t] = <<ConsoleOf(t).y, ConsoleOf(t).x>>
    BY TextsAre
  <1>3. cur_term_id' = cur_term_id /\ now_term_id' = now_term_id
    BY DEF Turns
  <1>4. Consoles!Rows = Rows /\ Consoles!Cols = Cols /\ Consoles!Terms = Terms
    BY DEF Consoles!Rows, Consoles!Cols, Consoles!Terms, Rows, Cols, Terms
  <1>5. PICK r \in Rows, c \in Cols :
          /\ Places[t] = IF c + 1 \in Cols THEN <<r, c + 1>> ELSE <<r + 1, 0>>
          /\ con.y = r /\ con.x = c
          /\ TextOf(con.cells) = [Texts[t] EXCEPT ![r][c] = Blank]
    BY <1>2 DEF Erased
  <1>6. /\ Texts' = [Texts EXCEPT ![t][r][c] = Blank]
        /\ Places' = [Places EXCEPT ![t] = <<r, c>>]
    BY <1>1, <1>5
  <1>7. Consoles!Erase(t) <=>
          /\ t \in Terms
          /\ \E row \in Rows, col \in Cols :
               /\ Places[t] = IF col + 1 \in Cols THEN <<row, col + 1>> ELSE <<row + 1, 0>>
               /\ Places' = [Places EXCEPT ![t] = <<row, col>>]
               /\ Texts' = [Texts EXCEPT ![t][row][col] = Blank]
          /\ UNCHANGED <<cur_term_id, now_term_id>>
    BY <1>4 DEF Consoles!Erase, Texts, Places
  <1>8. QED
    BY <1>3, <1>5, <1>6, <1>7

LEMMA WipeRefines ==
  ASSUME NEW t \in Terms, NEW con, OneConsole(t, con), UNCHANGED Turns, Wiped(con)
  PROVE  Consoles!Wipe(t)
  <1>1. /\ Texts' = [Texts EXCEPT ![t] = TextOf(con.cells)]
        /\ Places' = [Places EXCEPT ![t] = <<con.y, con.x>>]
    BY OneText
  <1>2. cur_term_id' = cur_term_id /\ now_term_id' = now_term_id
    BY DEF Turns
  <1>3. Consoles!Rows = Rows /\ Consoles!Terms = Terms
    BY DEF Consoles!Rows, Consoles!Terms, Rows, Terms
  <1>4. QED
    BY <1>1, <1>2, <1>3 DEF Wiped, Consoles!Wipe, Texts, Places

LEMMA UnchangedTexts ==
  ASSUME \A t \in Terms : ConsoleOf(t)' = ConsoleOf(t)
  PROVE  UNCHANGED <<Texts, Places>>
  BY DEF Texts, Places, Row

\* An output to the screen is one to the displayed terminal's console, and,
\* while none is displayed, to none.
LEMMA OnScreenRefines ==
  ASSUME TypeOK, NEW con \in Console, ScreenOutput(con), UNCHANGED Turns
  PROVE  /\ cur_term_id \in Terms => /\ OneConsole(cur_term_id, con)
                                     /\ ConsoleOf(cur_term_id) = OnScreen
         /\ cur_term_id \notin Terms => UNCHANGED Consoles!vars
  <1>1. \A t \in Terms : ConsoleOf(t)' = IF t = cur_term_id THEN con ELSE ConsoleOf(t)
    BY ScreenOutputKeeps
  <1>2. ASSUME cur_term_id \in Terms
        PROVE  OneConsole(cur_term_id, con)
    <2>1. ConsoleOf(cur_term_id)' = con
      <3>1. OnScreen' = con
        BY DEF ScreenOutput, ShowOnScreen, OnScreen, Console
      <3>2. QED
        BY <3>1 DEF ConsoleOf, Turns
    <2>2. ASSUME NEW u \in Terms \ {cur_term_id}
          PROVE  /\ ConsoleOf(u).x' = ConsoleOf(u).x /\ ConsoleOf(u).y' = ConsoleOf(u).y
                 /\ TextOf(ConsoleOf(u).cells)' = TextOf(ConsoleOf(u).cells)
      BY <1>1 DEF TextOf
    <2>3. QED
      BY <2>1, <2>2 DEF OneConsole
  <1>3. cur_term_id \notin Terms => UNCHANGED <<Texts, Places>>
    BY <1>1, UnchangedTexts
  <1>4. QED
    BY <1>2, <1>3 DEF ConsoleOf, Consoles!vars, Texts, Places, Turns

LEMMA PutcRefines ==
  ASSUME TypeOK, NEW ch \in Echoed, putc(ch), UNCHANGED Turns
  PROVE  [\E c \in Echoed : Consoles!Put(cur_term_id, c)]_(Consoles!vars)
  <1>1. PICK after \in Console : ScreenOutput(after) /\ Typed(OnScreen, ch, after)
    BY PutcOutput
  <1>2. CASE cur_term_id \in Terms
    <2>1. Consoles!Put(cur_term_id, ch)
      BY <1>1, <1>2, OnScreenRefines, PutRefines
    <2>2. QED
      BY <2>1
  <1>3. CASE cur_term_id \notin Terms
    BY <1>1, <1>3, OnScreenRefines
  <1>4. QED
    BY <1>2, <1>3

LEMMA RefinesInit == Init => Consoles!Init
  <1> SUFFICES ASSUME Init PROVE Consoles!Init
    OBVIOUS
  <1>1. TERM_MAX \in Nat \ {0}
    BY ScreenAssumption
  <1>2. cur_term_id \notin Terms /\ now_term_id \in Terms
    BY <1>1 DEF Init, Terms, NoTerm
  <1>3. \A t \in Terms : /\ ConsoleOf(t).cells = [i \in Cells |-> Cleared(t)]
                         /\ ConsoleOf(t).x = 0 /\ ConsoleOf(t).y = 0
    BY <1>2 DEF ConsoleOf, InPage, Init
  <1>4. Texts = [t \in Terms |-> [r \in Rows |-> Consoles!BlankRow]]
    <2>1. \A t \in Terms : Texts[t] = [r \in Rows |-> Consoles!BlankRow]
      BY <1>3, TextsAre, TextCleared
    <2>2. Texts = [t \in Terms |-> Texts[t]]
      BY DEF Texts
    <2>3. QED
      BY <2>1, <2>2
  <1>5. Places = [t \in Terms |-> <<0, 0>>]
    BY <1>3 DEF Places
  <1>6. Consoles!Rows = Rows /\ Consoles!Terms = Terms
    BY DEF Consoles!Rows, Consoles!Terms, Rows, Terms
  <1>7. QED
    BY <1>2, <1>4, <1>5, <1>6 DEF Consoles!Init, Texts, Places

LEMMA RefinesNext == SInv /\ [Next]_vars => [Consoles!Next]_(Consoles!vars)
  <1> SUFFICES ASSUME SInv, [Next]_vars
               PROVE  [Consoles!Next]_(Consoles!vars)
    OBVIOUS
  <1>0. TypeOK /\ Consoles!Terms = Terms /\ now_term_id \in Terms
    BY DEF SInv, TypeOK, Consoles!Terms, Terms
  <1>1. CASE Tick
    <2>1. (now_term_id + 1) % TERM_MAX \in Terms /\ now_term_id' = (now_term_id + 1) % TERM_MAX
      BY <1>0, <1>1, NextTerminal DEF Tick
    <2>2. CASE term_launch(now_term_id')
      BY <1>0, <2>1, <2>2, SwitchKeeps, UnchangedTexts
         DEF term_launch, Consoles!Next, Consoles!Rotate, Texts, Places
    <2>3. CASE UNCHANGED <<screenVars, pageVars, cur_term_id, running>>
      <3>1. UNCHANGED <<Texts, Places>> /\ cur_term_id' = cur_term_id
        BY <2>3, UnchangedTexts DEF screenVars, pageVars, ConsoleOf, OnScreen, InPage
      <3>2. QED
        BY <2>1, <3>1 DEF Consoles!Next, Consoles!Rotate, Texts, Places
    <2>4. QED
      BY <1>1, <2>1, <2>2, <2>3 DEF Tick
  <1>2. CASE Write
    <2>1. PICK ch \in Echoed : term_write(ch)
      BY <1>2 DEF Write
    <2>2. UNCHANGED Turns
      BY <1>2 DEF Write, Turns
    <2>3. CASE now_term_id = cur_term_id /\ putc(ch)
      BY <1>0, <2>2, <2>3, PutcRefines DEF Consoles!Next, Echoed
    <2>4. CASE now_term_id # cur_term_id /\ multi_putc(ch)
      <3>1. PICK after \in Console :
              PageOutput(after) /\ Typed(InPage(now_term_id), ch, after)
        BY <1>0, <2>4, MultiPutcOutput
      <3>2. OneConsole(now_term_id, after) /\ ConsoleOf(now_term_id) = InPage(now_term_id)
        BY <1>0, <2>2, <2>4, <3>1, PageOutputKeeps DEF OneConsole, ConsoleOf
      <3>3. Consoles!Put(now_term_id, ch)
        BY <1>0, <2>2, <3>1, <3>2, PutRefines
      <3>4. QED
        BY <3>3 DEF Consoles!Next, Echoed
    <2>5. QED
      BY <2>1, <2>3, <2>4 DEF term_write
  <1>3. CASE EchoKey
    <2>1. (\E ch \in Echoed : putc(ch)) /\ UNCHANGED Turns
      BY <1>3 DEF EchoKey, Turns
    <2>2. QED
      BY <1>0, <2>1, PutcRefines DEF Consoles!Next, Echoed
  <1>4. CASE Backspace
    <2>1. backspace /\ UNCHANGED Turns
      BY <1>4 DEF Backspace, Turns
    <2>2. PICK after \in Console : ScreenOutput(after) /\ Erased(OnScreen, after)
      BY <1>0, <2>1, BackspaceOutput
    <2>3. QED
      BY <1>0, <2>1, <2>2, OnScreenRefines, EraseRefines DEF Consoles!Next
  <1>5. CASE CtrlL
    <2>1. clear /\ UNCHANGED Turns
      BY <1>5 DEF CtrlL, Turns
    <2>2. PICK after \in Console : ScreenOutput(after) /\ Wiped(after)
      BY <1>0, <2>1, ClearOutput
    <2>3. QED
      BY <1>0, <2>1, <2>2, OnScreenRefines, WipeRefines DEF Consoles!Next
  <1>6. CASE \E n \in Terms : AltF(n)
    <2>1. PICK n \in Terms : AltF(n)
      BY <1>6
    <2>2. UNCHANGED <<Texts, Places>> /\ cur_term_id' = n /\ now_term_id' = now_term_id
      BY <1>0, <2>1, SwitchKeeps, UnchangedTexts DEF AltF
    <2>3. QED
      BY <1>0, <2>2 DEF Consoles!Next, Consoles!Show, Texts, Places
  <1>7. CASE UNCHANGED vars
    <2>1. UNCHANGED <<Texts, Places, cur_term_id, now_term_id>>
      BY <1>7, UnchangedTexts DEF vars, screenVars, pageVars, ConsoleOf, OnScreen, InPage
    <2>2. QED
      BY <2>1 DEF Consoles!vars, Texts, Places
  <1>8. QED
    BY <1>1, <1>2, <1>3, <1>4, <1>5, <1>6, <1>7 DEF Next

\* The text of every terminal is what was written to it and typed into it,
\* wherever it was at the time and however often it was copied between the
\* screen and its page.
THEOREM ScreenImplementsConsoles == Spec => ImplementsConsoles
  <1>1. QED
    BY RefinesInit, RefinesNext, SInvInit, SInvNext, PTL
       DEF Spec, ImplementsConsoles, Consoles!Spec

=============================================================================
