------------------------------ MODULE LineInput ------------------------------
(***************************************************************************)
(* What the terminals promise about input: each one has a line of its own, *)
(* the keys go to the line of the displayed one, and a program that reads  *)
(* gets the line of its own terminal, once Enter has been pressed there.   *)
(***************************************************************************)
EXTENDS Integers, Sequences

CONSTANTS
  NumTerms,   \* number of terminals
  Letters,    \* what letter keys put into a line
  Enter,      \* what the Enter key puts into a line
  Tab,        \* what the Tab key puts into a line
  NBytes      \* how many characters a read asks for

Terms == 0 .. NumTerms - 1

VARIABLES
  shown,      \* the displayed terminal
  line,       \* per terminal, the characters not read yet
  returned    \* per terminal, what the last read got

Init == /\ shown = 0
        /\ line = [t \in Terms |-> << >>]
        /\ returned = [t \in Terms |-> << >>]

Show(t) == shown' = t /\ UNCHANGED << line, returned >>

Type(c) == /\ line' = [line EXCEPT ![shown] = Append(@, c)]
           /\ UNCHANGED << shown, returned >>

Erase == /\ line[shown] # << >>
         /\ line' = [line EXCEPT ![shown] = SubSeq(@, 1, Len(@) - 1)]
         /\ UNCHANGED << shown, returned >>

\* Ctrl+L, or the end of a program of terminal t.
Discard(t) == line' = [line EXCEPT ![t] = << >>] /\ UNCHANGED << shown, returned >>

Read(t) == /\ \E i \in 1 .. Len(line[t]) : line[t][i] = Enter
           /\ returned' = [returned EXCEPT ![t] =
                SubSeq(line[t], 1, IF Len(line[t]) < NBytes THEN Len(line[t])
                                                            ELSE NBytes)]
           /\ line' = [line EXCEPT ![t] = << >>]
           /\ UNCHANGED shown

Next == \/ \E c \in Letters \cup {Enter, Tab} : Type(c)
        \/ Erase
        \/ \E t \in Terms : Show(t) \/ Discard(t) \/ Read(t)

Spec == Init /\ [][Next]_<< shown, line, returned >>
=============================================================================
