----------------------------- MODULE MCProcesses -----------------------------
(* Processes on small instances: what the runs let happen. *)
EXTENDS Processes

FullTable  == {"noproc"}
=============================================================================
