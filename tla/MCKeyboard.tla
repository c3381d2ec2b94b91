----------------------------- MODULE MCKeyboard -----------------------------
(***************************************************************************)
(* The shell on CPU 0 and a user task on CPU 1, a buffer for two           *)
(* characters and every sequence of five codes.                            *)
(***************************************************************************)
EXTENDS Keyboard
=============================================================================
