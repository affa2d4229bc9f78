------------------------------ MODULE Keyboard ------------------------------
(***************************************************************************)
(* Line input: the keyboard controller, the keyboard interrupt service     *)
(* routine (src/src/keyboard.c) and system call 4 (src/src/interrupt.c),   *)
(* which turns input on, enables interrupts and spins until the routine    *)
(* turns it off.                                                           *)
(*                                                                         *)
(* The program and the routine share keyboard_state.  The routine runs     *)
(* whenever interrupts are enabled: in the user program, and in system     *)
(* call 4 once it has executed sti.  What the routine draws is in the       *)
(* module Console.                                                         *)
(***************************************************************************)
EXTENDS Integers, Sequences, FiniteSets

CONSTANTS
  BufferSize,   \* KEYBOARD_BUFFER_SIZE; indices are uint8_t, so it is also their modulus
  TabWidth,     \* 4
  Chars,        \* printable characters, Space among them
  Space,
  NUL,
  NoKey,        \* the controller's output buffer is empty
  Habits        \* what the person at the keyboard may do, see below

ASSUME BufferAssumption == BufferSize \in Nat /\ BufferSize >= 2 /\ TabWidth \in Nat
ASSUME CharAssumption ==
  /\ Space \in Chars /\ NUL \notin Chars
  /\ Chars \cap {"enter", "backspace", "tab", "left", "right", "other"} = {}

\* "type_ahead": a scan code, if only that of a key let go, arrives while input
\* is off.  "erase_when_full": backspace with no room left in the buffer.
ASSUME HabitAssumption == Habits \subseteq {"type_ahead", "erase_when_full"}

VARIABLES
  input_on, buffer_index, buffer_index_max, buffer,   \* keyboard_state
  port,      \* the controller's output buffer, one scan code
  irq,       \* IRQ 1 is pending
  at,        \* the program: "user", or in system call 4: "spin", "copied"
  line,      \* what the last system call 4 handed over, up to its NUL
  hung       \* the service routine does not return

keyboard_state == <<input_on, buffer_index, buffer_index_max, buffer>>
vars == <<keyboard_state, port, irq, at, line, hung>>

Indices == 0 .. BufferSize - 1
Full == BufferSize - 1
Keys == Chars \cup {"enter", "backspace", "tab", "left", "right", "other"}

\* Mutant: an index that is wider than a byte.
WideIndex(i) == i
Wrap(i) == i % BufferSize

TypeOK ==
  /\ input_on \in BOOLEAN
  /\ buffer_index \in Indices /\ buffer_index_max \in Indices
  /\ buffer \in [Indices -> Chars \cup {NUL}]
  /\ port \in Keys \cup {NoKey}
  /\ irq \in BOOLEAN
  /\ at \in {"user", "spin", "copied"}
  /\ hung \in BOOLEAN

ClearBuffer == [i \in Indices |-> NUL]

Init ==
  /\ input_on = FALSE /\ buffer_index = 0 /\ buffer_index_max = 0
  /\ buffer = ClearBuffer
  /\ port = NoKey /\ irq = FALSE
  /\ at = "user" /\ line = <<>>
  /\ hung = FALSE
-----------------------------------------------------------------------------
(***************************************************************************)
(* The controller.  It raises the interrupt line when its output buffer    *)
(* fills and holds it until port 0x60 is read; the PIC sees edges only, so *)
(* that a code left in the port silences the keyboard.                     *)
(***************************************************************************)
Press(k) ==
  /\ port = NoKey
  /\ ~input_on => "type_ahead" \in Habits
  /\ (k = "backspace" /\ buffer_index_max = Full) => "erase_when_full" \in Habits
  /\ port' = k
  /\ irq' = TRUE
  /\ UNCHANGED <<keyboard_state, at, line, hung>>
-----------------------------------------------------------------------------
(***************************************************************************)
(* keyboard_isr.                                                           *)
(***************************************************************************)
\* Mutant: the characters behind the cursor stay where they are.
keyboard_overwrite(ch, n) ==
  /\ buffer' = [i \in Indices |->
       IF i \in buffer_index .. buffer_index + n - 1 THEN ch ELSE buffer[i]]
  /\ buffer_index' = Wrap(buffer_index + n)
  /\ buffer_index_max' = Wrap(buffer_index_max + n)

\* n times keyboard_insert, which moves what is behind the cursor up by one.
Inserted(ch, n) ==
  [i \in Indices |->
     IF i \in buffer_index .. buffer_index + n - 1 THEN ch
     ELSE IF i \in buffer_index + n .. buffer_index_max + n - 1 THEN buffer[i - n]
     ELSE buffer[i]]

keyboard_insert(ch, n) ==
  /\ buffer' = Inserted(ch, n)
  /\ buffer_index' = Wrap(buffer_index + n)
  /\ buffer_index_max' = Wrap(buffer_index_max + n)

\* As many as there is room for.
Fitting(n) == IF n < Full - buffer_index_max THEN n ELSE Full - buffer_index_max

Type(ch, n) == keyboard_insert(ch, Fitting(n)) /\ UNCHANGED <<input_on, hung>>

\* Its loop runs while an eight-bit counter is at most buffer_index_max, which
\* is always when that is 255.
keyboard_delete ==
  IF buffer_index = 0 THEN UNCHANGED <<keyboard_state, hung>>
  ELSE IF buffer_index_max = Full
    THEN hung' = TRUE /\ UNCHANGED keyboard_state
  ELSE
    /\ buffer' = [i \in Indices |->
         IF i = buffer_index_max THEN Space
         ELSE IF i \in buffer_index - 1 .. buffer_index_max THEN buffer[i + 1]
         ELSE buffer[i]]
    /\ buffer_index' = Wrap(buffer_index - 1)
    /\ buffer_index_max' = Wrap(buffer_index_max - 1)
    /\ UNCHANGED <<input_on, hung>>

MoveCursor(k) ==
  /\ buffer_index' =
       IF k = "left" /\ buffer_index > 0 THEN buffer_index - 1
       ELSE IF k = "right" /\ buffer_index < buffer_index_max THEN buffer_index + 1
       ELSE buffer_index
  /\ UNCHANGED <<input_on, buffer_index_max, buffer, hung>>

\* Mutant: the Enter key needs room in the buffer like any other.
EnterIfRoom ==
  IF buffer_index_max = Full THEN UNCHANGED <<keyboard_state, hung>>
  ELSE
    /\ buffer' = [buffer EXCEPT ![buffer_index] = NUL]
    /\ buffer_index' = Wrap(buffer_index + 1)
    /\ buffer_index_max' = Wrap(buffer_index_max + 1)
    /\ input_on' = FALSE
    /\ UNCHANGED hung

Enter ==
  /\ buffer' = [buffer EXCEPT ![buffer_index] = NUL]
  /\ buffer_index' = Wrap(buffer_index + 1)
  /\ buffer_index_max' = Wrap(buffer_index_max + 1)
  /\ input_on' = FALSE
  /\ UNCHANGED hung

\* Interrupts are enabled in both places, and system call 4 goes back to the
\* one from the other.
InterruptsEnabled == ~hung /\ at \in {"user", "spin", "copied"}

\* With input off the code stays in the port.
IsrInputOff ==
  /\ irq /\ InterruptsEnabled /\ ~input_on
  /\ irq' = FALSE
  /\ buffer_index' = 0
  /\ UNCHANGED <<input_on, buffer_index_max, buffer, port, at, line, hung>>

IsrInputOn ==
  /\ irq /\ InterruptsEnabled /\ input_on
  /\ irq' = FALSE
  /\ port' = NoKey
  /\ \/ port \in Chars /\ Type(port, 1)
     \/ port = "tab" /\ Type(Space, TabWidth)
     \/ port = "backspace" /\ keyboard_delete
     \/ port = "enter" /\ Enter
     \/ port \in {"left", "right", "other"} /\ MoveCursor(port)
  /\ UNCHANGED <<at, line>>
-----------------------------------------------------------------------------
(***************************************************************************)
(* System call 4.  From its sti on the routine may run between its steps.  *)
(***************************************************************************)
Activate ==
  /\ at = "user" /\ ~hung
  /\ input_on' = TRUE
  /\ at' = "spin"
  /\ UNCHANGED <<buffer_index, buffer_index_max, buffer, port, irq, line, hung>>

\* The characters of a C string.
CString(b) ==
  LET ends == {i \in Indices : b[i] = NUL}
      n == IF ends = {} THEN BufferSize ELSE CHOOSE i \in ends : \A j \in ends : i <= j
  IN  [i \in 1 .. n |-> b[i - 1]]

CopyLine ==
  /\ at = "spin" /\ ~input_on /\ ~hung
  /\ line' = CString(buffer)
  /\ at' = "copied"
  /\ UNCHANGED <<keyboard_state, port, irq, hung>>

\* Mutant: the buffer itself is left as it is.
ClearIndices ==
  /\ at = "copied" /\ ~hung
  /\ buffer_index' = 0
  /\ at' = "user"
  /\ UNCHANGED <<input_on, buffer_index_max, buffer, port, irq, line, hung>>

keyboard_clear_buffer ==
  /\ at = "copied" /\ ~hung
  /\ buffer_index' = 0 /\ buffer_index_max' = 0 /\ buffer' = ClearBuffer
  /\ at' = "user"
  /\ UNCHANGED <<input_on, port, irq, line, hung>>

Next ==
  \/ \E k \in Keys : Press(k)
  \/ IsrInputOff
  \/ IsrInputOn
  \/ Activate
  \/ CopyLine
  \/ keyboard_clear_buffer

\* The processor takes a pending interrupt and goes on with the system call,
\* and whoever is asked for a line presses Enter in the end.
Fairness ==
  /\ WF_vars(IsrInputOff \/ IsrInputOn)
  /\ WF_vars(CopyLine)
  /\ WF_vars(keyboard_clear_buffer)
  /\ SF_vars(Press("enter"))

Spec == Init /\ [][Next]_vars /\ Fairness
-----------------------------------------------------------------------------
(***************************************************************************)
(* Properties.                                                             *)
(***************************************************************************)
\* The cursor stays within the text, and the text within the buffer, as long
\* as the line is open: no index wraps around.
CursorInText ==
  input_on => /\ buffer_index <= buffer_index_max
              /\ \A i \in 0 .. buffer_index_max - 1 : buffer[i] # NUL

\* A scan code was left in the port, so that no interrupt comes any more.
Silenced == port # NoKey /\ ~irq

\* System call 4 returns once Enter is pressed, unless one of two things has
\* happened: the routine took an interrupt with input off, and left its code in
\* the port, or it was asked to erase from a full buffer.  Nothing else keeps
\* the program waiting, a full buffer and the wrapped index least of all.
InputEndsUnlessStuck == (at = "spin") ~> (at = "user" \/ Silenced \/ hung)

\* keyboard.h, keyboard_isr: "This can be made into blocking input with `while
\* (is_keyboard_blocking());` after calling `keyboard_state_activate();`": the
\* input that is waited for comes to an end.
InputEnds == (at = "spin") ~> (at = "user")

\* The state of the abstract editor.  The line is finished at the Enter key;
\* what system call 4 has still to copy is in the buffer.
Text == IF input_on THEN [i \in 1 .. buffer_index_max |-> buffer[i - 1]] ELSE <<>>
Cursor == IF input_on THEN buffer_index ELSE 0
Finished == IF at = "spin" /\ ~input_on THEN CString(buffer) ELSE line

Editor == INSTANCE LineEditor WITH
  Limit <- Full, open <- input_on, text <- Text, cursor <- Cursor, line <- Finished

\* What system call 4 hands over is the line as it was edited, up to the cursor
\* at which Enter was pressed.
DeliversLine == Editor!Spec
=============================================================================
