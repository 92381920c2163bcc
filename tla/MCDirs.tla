------------------------------- MODULE MCDirs -------------------------------
(* Instance of SessionDirs for TLC: two runs of `kordn run' alone. *)
EXTENDS SessionDirs

RunLaunches == [k \in {"temp"} |-> DirRuns]
=============================================================================
