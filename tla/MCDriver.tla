------------------------------ MODULE MCDriver -------------------------------
(***************************************************************************)
(* The two halves of the keyboard driver side by side, each from its own   *)
(* initial state: what keys mean (KeyModes), and the line they edit and    *)
(* programs read (Keyboard).  They share no variable; a behaviour is of    *)
(* one or of the other.                                                    *)
(***************************************************************************)
EXTENDS MCKeyboard, KeyModes

VARIABLE half

DriverInit == Init /\ ModesInit /\ half \in {"line", "modes"}

DriverNext == \/ half = "line"  /\ Next      /\ UNCHANGED << half, modes >>
              \/ half = "modes" /\ ModesNext /\ UNCHANGED << half, vars >>

\* Fairness of Keyboard, which binds the behaviours that are of it.
DriverFairness ==
  \A t \in Terms : /\ SF_vars(half = "line" /\ Schedule(t))
                   /\ SF_vars(half = "line" /\ ReadStep(t))

DriverSpec ==
  DriverInit /\ [][DriverNext]_<< half, vars, modes >> /\ DriverFairness
=============================================================================
