----------------------------- MODULE MCSession ------------------------------
(***************************************************************************)
(* Instances for TLC of what a command of Kordn does with processes and    *)
(* files: the supervised child, the run around it, the directories of      *)
(* several runs and the initial configuration.  part says which one a      *)
(* behaviour is about; the others rest in one initial state.               *)
(***************************************************************************)
EXTENDS Supervisor, Run, SessionDirs, ConfigInit

CONSTANTS root, child

MCKids == {child}

\* Three runs under NewSessionDir, so that two may reap a third; two of run.go.
MCLaunches == [k \in {"private", "temp"} |-> IF k = "private" THEN DirRuns ELSE DirRuns \ {"d3"}]

VARIABLE part
sessionVars == <<part, vars, runVars, dirVars, configVars>>

SupervisorRests == argv /\ ~cancelled /\ hooks.cleanup /\ hooks = CHOOSE h \in HookConfigs : h.cleanup
DirsRest == \A r \in DirRuns : dirRun[r].root = "temp"

SessionInit ==
  /\ part \in {"child", "run", "dirs", "config"}
  /\ Init /\ (part # "child" => SupervisorRests)
  /\ DirsInit /\ (part # "dirs" => DirsRest)
  /\ RunInit /\ ConfigInitial
SessionNext ==
  \/ part = "child" /\ Next /\ UNCHANGED <<part, runVars, dirVars, configVars>>
  \/ part = "run" /\ RunNext /\ UNCHANGED <<part, vars, dirVars, configVars>>
  \/ part = "dirs" /\ DirsNext /\ UNCHANGED <<part, vars, runVars, configVars>>
  \/ part = "config" /\ ConfigNext /\ UNCHANGED <<part, vars, runVars, dirVars>>
SessionSpec == SessionInit /\ [][SessionNext]_sessionVars /\ Fairness /\ RunFairness
=============================================================================
