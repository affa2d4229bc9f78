----------------------------- MODULE MCConsole -----------------------------
(***************************************************************************)
(* A small screen and a short buffer for TLC.                              *)
(***************************************************************************)
EXTENDS Console

CONSTANTS c1, sp

AllHabits == {"type_ahead", "erase_when_full"}
=============================================================================
