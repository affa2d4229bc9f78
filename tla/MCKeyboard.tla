----------------------------- MODULE MCKeyboard -----------------------------
(***************************************************************************)
(* A short buffer for TLC.                                                 *)
(***************************************************************************)
EXTENDS Keyboard

CONSTANTS c1, sp

TypesAhead == {"type_ahead"}
=============================================================================
