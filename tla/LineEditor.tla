----------------------------- MODULE LineEditor -----------------------------
(***************************************************************************)
(* What the keyboard promises the program that asks for a line             *)
(* (src/src/keyboard.c with system call 4 of src/src/interrupt.c): a text  *)
(* edited at a cursor, and at the Enter key the part of it before the      *)
(* cursor.                                                                 *)
(***************************************************************************)
EXTENDS Integers, Sequences

CONSTANTS
  Chars, Space,
  Limit,        \* characters that fit
  TabWidth

VARIABLES
  open,   \* a line is being asked for
  text, cursor,
  line    \* the last line finished

editorVars == <<open, text, cursor, line>>

Init == open = FALSE /\ text = <<>> /\ cursor = 0 /\ line = <<>>

Begin == ~open /\ open' = TRUE /\ UNCHANGED <<text, cursor, line>>

Before == SubSeq(text, 1, cursor)
After == SubSeq(text, cursor + 1, Len(text))

\* What does not fit is dropped.
Insert(ch, n) ==
  /\ open
  /\ LET room == Limit - Len(text)
         fit  == IF n < room THEN n ELSE room
     IN  /\ text' = Before \o [i \in 1 .. fit |-> ch] \o After
         /\ cursor' = cursor + fit
  /\ UNCHANGED <<open, line>>

Erase ==
  /\ open /\ cursor > 0
  /\ text' = SubSeq(text, 1, cursor - 1) \o After
  /\ cursor' = cursor - 1
  /\ UNCHANGED <<open, line>>

Move ==
  /\ open
  /\ cursor' \in {cursor - 1, cursor + 1} \cap (0 .. Len(text))
  /\ UNCHANGED <<open, text, line>>

Finish ==
  /\ open
  /\ open' = FALSE /\ line' = Before /\ text' = <<>> /\ cursor' = 0

Next ==
  \/ Begin \/ Erase \/ Move \/ Finish
  \/ \E ch \in Chars : Insert(ch, 1)
  \/ Insert(Space, TabWidth)

Spec == Init /\ [][Next]_editorVars
=============================================================================
