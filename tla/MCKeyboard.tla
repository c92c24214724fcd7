----------------------------- MODULE MCKeyboard ------------------------------
(* Keyboard on small instances: what the runs let happen. *)
EXTENDS Keyboard

NoHazards == {}
Overfull  == {"overfull"}
=============================================================================
