------------------------------ MODULE MCKeyboard ------------------------------
(* The keyboard driver with a short buffer, for TLC. *)
EXTENDS Keyboard

=============================================================================
