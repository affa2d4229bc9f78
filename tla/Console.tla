------------------------------ MODULE Console ------------------------------
(***************************************************************************)
(* What is on the screen while a line is typed: the keyboard's service     *)
(* routine (module Keyboard) with what it draws, the frame buffer          *)
(* (src/src/framebuffer.c) and puts (src/src/terminal.c), system call 5.   *)
(*                                                                         *)
(* The routine and puts keep no cursor of their own: each reads the        *)
(* controller's register, splits it into a row and a column of eight bits, *)
(* and computes from there.  BufferSize is the modulus of a byte here too. *)
(* Cells beyond the last row are memory that is never shown.  Once the      *)
(* arithmetic has been left, or the cursor has stayed behind the last row  *)
(* at the end of a line, the screen is not followed any more.              *)
(***************************************************************************)
EXTENDS Keyboard

CONSTANTS
  VGA_WIDTH, VGA_HEIGHT,   \* 80 and 25
  Old                      \* what the screen shows from before the line

ASSUME ScreenAssumption ==
  /\ VGA_WIDTH \in Nat \ {0} /\ VGA_WIDTH < BufferSize
  /\ VGA_HEIGHT \in Nat \ {0} /\ VGA_HEIGHT < BufferSize
  /\ Old \notin Chars \cup {NUL}

VARIABLES
  pos,      \* the cursor's register
  cells,    \* the characters on the screen
  start,    \* history: where the line begins
  lost      \* the screen is not followed any more, see Beyond

screenVars == <<pos, cells, start, lost>>
consoleVars == <<vars, screenVars>>

Cells == 0 .. VGA_WIDTH * VGA_HEIGHT - 1
LastRow == VGA_HEIGHT - 1

OldScreen == [x \in Cells |-> Old]

ConsoleInit ==
  /\ Init
  /\ pos = 0 /\ cells = OldScreen
  /\ start = 0
  /\ lost = FALSE
-----------------------------------------------------------------------------
(***************************************************************************)
(* framebuffer.c.                                                          *)
(***************************************************************************)
Byte(n) == n % BufferSize

Row == Byte(pos \div VGA_WIDTH)
Column == pos % VGA_WIDTH

At(r, c) == Byte(r) * VGA_WIDTH + Byte(c)

framebuffer_set_cursor(r, c) == pos' = At(r, c)

Scrolled ==
  [x \in Cells |-> IF x + VGA_WIDTH \in Cells THEN cells[x + VGA_WIDTH] ELSE NUL]

\* A character '\n'.  Mutant: the last row is not the 24th but the 25th.
NewlineOffByOne ==
  IF Row = VGA_HEIGHT
    THEN cells' = Scrolled /\ framebuffer_set_cursor(LastRow, 0)
    ELSE framebuffer_set_cursor(Row + 1, 0) /\ UNCHANGED cells

Newline ==
  IF Row = LastRow
    THEN cells' = Scrolled /\ framebuffer_set_cursor(LastRow, 0)
    ELSE framebuffer_set_cursor(Row + 1, 0) /\ UNCHANGED cells
-----------------------------------------------------------------------------
(***************************************************************************)
(* What the service routine draws.                                         *)
(***************************************************************************)
\* The place of a column counted on from row r.
Place(r, c) == At(r + (Byte(c) \div VGA_WIDTH), Byte(c) % VGA_WIDTH)

\* The characters first to last of b, each in its place if b[from] is at <<r, c>>.
Shown(screen, r, c, b, first, last, from) ==
  [x \in Cells |->
     LET here == {i \in first .. last : Place(r, c + i - from) = x}
     IN  IF here = {} THEN screen[x] ELSE b[CHOOSE i \in here : TRUE]]

\* One call of keyboard_insert after the other, each from where the cursor is.
DrawInserts(ch, n) ==
  LET cursor[k \in 0 .. n] == IF k = 0 THEN pos
                           ELSE At(cursor[k - 1] \div VGA_WIDTH, (cursor[k - 1] % VGA_WIDTH) + 1)
      screen[k \in 0 .. n] ==
        IF k = 0 THEN cells
        ELSE Shown(screen[k - 1], Byte(cursor[k - 1] \div VGA_WIDTH), cursor[k - 1] % VGA_WIDTH,
                   Inserted(ch, k), buffer_index + k - 1, buffer_index_max + k - 1,
                   buffer_index + k - 1)
  IN  cells' = screen[n] /\ pos' = cursor[n]

\* Mutant: what is behind the cursor is not drawn anew.
DrawDeleteShort ==
  /\ cells' = Shown(cells, Row, Column, buffer', buffer_index - 1, buffer_index - 1,
                    buffer_index)
  /\ framebuffer_set_cursor(Row, Column - 1)

DrawDelete ==
  /\ cells' = Shown(cells, Row, Column, buffer', buffer_index - 1, buffer_index_max,
                    buffer_index)
  /\ framebuffer_set_cursor(Row, Column - 1)

DrawMove(k) ==
  /\ IF k = "left" /\ buffer_index > 0
       THEN IF Column = 0 THEN framebuffer_set_cursor(Row - 1, VGA_WIDTH - 1)
                          ELSE framebuffer_set_cursor(Row, Column - 1)
     ELSE IF k = "right" /\ buffer_index < buffer_index_max
       THEN IF Column = VGA_WIDTH - 1 THEN framebuffer_set_cursor(Row + 1, 0)
                                      ELSE framebuffer_set_cursor(Row, Column + 1)
     ELSE UNCHANGED pos
  /\ UNCHANGED cells

\* A routine that hangs draws on for ever.
Draw ==
  \/ port \in Chars /\ DrawInserts(port, Fitting(1))
  \/ port = "tab" /\ DrawInserts(Space, Fitting(TabWidth))
  \/ /\ port = "backspace"
     /\ IF buffer_index = 0 \/ hung' THEN UNCHANGED <<pos, cells>> ELSE DrawDelete
  \/ port = "enter" /\ Newline
  \/ port \in {"left", "right", "other"} /\ DrawMove(port)

\* What is behind the cursor may reach further than a byte counts from the
\* beginning of the row, the character to erase is in the row above the cursor's,
\* or Enter is pressed behind the last row.
Beyond ==
  \/ /\ port \in Chars \cup {"tab", "backspace"}
     /\ VGA_WIDTH + buffer_index_max - buffer_index > BufferSize
  \/ port = "backspace" /\ buffer_index > 0 /\ Column = 0
  \/ port = "enter" /\ pos \notin Cells
-----------------------------------------------------------------------------
(***************************************************************************)
(* The steps of Keyboard, with the screen.                                 *)
(***************************************************************************)
ShowInput ==
  /\ IsrInputOn
  /\ lost' = (lost \/ Beyond)
  /\ IF lost' THEN pos' = 0 /\ cells' = OldScreen /\ start' = 0
              ELSE Draw /\ UNCHANGED start

\* A line begins where the prompt has left the cursor.
BeginLine ==
  /\ Activate
  /\ start' = pos
  /\ UNCHANGED <<pos, cells, lost>>

\* The line has become part of the text before the next one.
EndLine ==
  /\ keyboard_clear_buffer
  /\ cells' = OldScreen
  /\ start' = 0
  /\ UNCHANGED <<pos, lost>>

\* A character of puts, which scrolls at a '\n' in the last row, and goes on at
\* the beginning of that row when the row is full.
Puts ==
  /\ at = "user" /\ ~hung /\ ~lost
  /\ \/ Column < VGA_WIDTH - 1 /\ framebuffer_set_cursor(Row, Column + 1)
     \/ framebuffer_set_cursor(IF Row = LastRow THEN Row ELSE Row + 1, 0)
  /\ UNCHANGED <<vars, cells, start, lost>>

ConsoleNext ==
  \/ \E k \in Keys : Press(k) /\ UNCHANGED screenVars
  \/ IsrInputOff /\ UNCHANGED screenVars
  \/ ShowInput
  \/ BeginLine
  \/ CopyLine /\ UNCHANGED screenVars
  \/ EndLine
  \/ Puts

\* As in Keyboard.
ConsoleFairness ==
  /\ WF_consoleVars((IsrInputOff /\ UNCHANGED screenVars) \/ ShowInput)
  /\ WF_consoleVars(CopyLine /\ UNCHANGED screenVars)
  /\ WF_consoleVars(EndLine)
  /\ SF_consoleVars(Press("enter") /\ UNCHANGED screenVars)

ConsoleSpec == ConsoleInit /\ [][ConsoleNext]_consoleVars /\ ConsoleFairness
-----------------------------------------------------------------------------
(***************************************************************************)
(* Properties.                                                             *)
(***************************************************************************)
\* The screen shows the line that system call 4 is going to deliver: each
\* character of the buffer in its cell, the cursor at the place of the next one,
\* nothing left of an erased one behind the end, and the text in front as it
\* was.  Of a line that runs off the screen, the part on it is right.  Where the
\* eight-bit arithmetic itself goes wrong (Beyond: a long rest of the line, a
\* backspace at the beginning of a row, Enter behind the last row) the screen is
\* given up for lost and nothing is said of it.
EchoShowsLine ==
  input_on /\ ~lost =>
    /\ pos = start + buffer_index
    /\ \A x \in Cells :
         LET i == x - start
         IN  IF i < 0 THEN cells[x] = Old
             ELSE IF i < buffer_index_max THEN cells[x] = buffer[i]
             ELSE cells[x] \in {Old, Space, NUL}

\* The cursor is on the screen as long as the lines are: neither wrapping nor
\* scrolling nor what is printed takes it behind the last row, but in the three
\* situations of Beyond.
CursorOnScreen == ~lost /\ start + buffer_index_max \in Cells => pos \in Cells
=============================================================================
