-------------------------------- MODULE Jobs --------------------------------
(***************************************************************************)
(* What execute, halt and the terminal keys promise the user: each terminal *)
(* is a stack of jobs, the top one in control of it.  A program started    *)
(* from a terminal is pushed on that terminal, a program that ends gives   *)
(* its terminal back to the one that started it, and no two live jobs have *)
(* the same pid.                                                           *)
(***************************************************************************)
EXTENDS Integers, Sequences

CONSTANTS NumTerms, MaxProcs

VARIABLE jobs

Terms == 0 .. NumTerms - 1
Pids  == 0 .. MaxProcs - 1

Live == UNION {{jobs[t][i] : i \in 1 .. Len(jobs[t])} : t \in Terms}

\* Boot starts the first shell on terminal 0.
Init == jobs = [t \in Terms |-> IF t = 0 THEN << 0 >> ELSE << >>]

\* A new job on t: the shell of an empty terminal or a child of its top job.
Start(t, p) ==
  /\ p \notin Live
  /\ jobs' = [jobs EXCEPT ![t] = Append(@, p)]

\* The top job of t ends.
Finish(t) ==
  /\ jobs[t] # << >>
  /\ jobs' = [jobs EXCEPT ![t] = SubSeq(@, 1, Len(@) - 1)]

Next == \E t \in Terms : Finish(t) \/ \E p \in Pids : Start(t, p)

Spec == Init /\ [][Next]_jobs
=============================================================================
