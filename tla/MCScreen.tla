------------------------------ MODULE MCScreen -------------------------------
(* Screen on a small screen, and what the programs write at a time. *)
EXTENDS Screen

Writes    == {<< "a", "nl" >>, << "tab", "a", "a" >>, << "a", "a", "a", "nl", "a" >>}
NoHazards == {}
=============================================================================
