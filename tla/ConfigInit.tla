----------------------------- MODULE ConfigInit -----------------------------
(***************************************************************************)
(* `kordn init': initCommand and atomicPrivateConfig.  Several initialisers *)
(* publish one configuration file by linking a complete temporary file; any *)
(* call may fail, a process may be killed and the machine may lose power.   *)
(***************************************************************************)
EXTENDS Naturals, FiniteSets

CONSTANTS Initialisers, NoConfig

ASSUME ConfigAssumption == NoConfig \notin Initialisers

VARIABLES
  initer,   \* state of each initialiser
  tmpFile,  \* its temporary file: "none", "empty", "whole"; or "torn" after a power loss
  tmpSync,  \* the contents of the temporary file are on disk
  config,   \* the initialiser whose file config.yaml is, or NoConfig
  entrySync,\* the directory entry is on disk
  configIs  \* contents of config.yaml
configVars == <<initer, tmpFile, tmpSync, config, entrySync, configIs>>

ConfigInitial ==
  /\ initer = [p \in Initialisers |-> "start"]
  /\ tmpFile = [p \in Initialisers |-> "none"]
  /\ tmpSync = [p \in Initialisers |-> FALSE]
  /\ config = NoConfig /\ entrySync = FALSE /\ configIs = "none"

Became(p, step) == initer' = [initer EXCEPT ![p] = step]

\* The checks of the root, MkdirAll and Chmod; CreateTemp.
CreateTemp(p) ==
  /\ initer[p] = "start"
  /\ \/ Became(p, "created") /\ tmpFile' = [tmpFile EXCEPT ![p] = "empty"]
     \/ Became(p, "exit78") /\ UNCHANGED tmpFile
  /\ UNCHANGED <<tmpSync, config, entrySync, configIs>>

\* Chmod and Write.
WriteTemp(p) ==
  /\ initer[p] = "created"
  /\ \/ Became(p, "written") /\ tmpFile' = [tmpFile EXCEPT ![p] = "whole"]
     \/ Became(p, "failing") /\ UNCHANGED tmpFile
  /\ UNCHANGED <<tmpSync, config, entrySync, configIs>>

\* Mutant: the temporary file is linked without a sync.
SyncTempSkipped(p) ==
  /\ initer[p] = "written" /\ Became(p, "synced")
  /\ UNCHANGED <<tmpFile, tmpSync, config, entrySync, configIs>>

\* Sync and Close.
SyncTemp(p) ==
  /\ initer[p] = "written"
  /\ \/ Became(p, "synced") /\ tmpSync' = [tmpSync EXCEPT ![p] = TRUE]
     \/ Became(p, "failing") /\ UNCHANGED tmpSync
  /\ UNCHANGED <<tmpFile, config, entrySync, configIs>>

\* os.Link does not replace.
LinkConfig(p) ==
  /\ initer[p] = "synced"
  /\ \/ /\ config = NoConfig /\ config' = p /\ configIs' = tmpFile[p] /\ Became(p, "linked")
     \/ /\ config # NoConfig /\ Became(p, "exists") /\ UNCHANGED <<config, configIs>>
     \/ /\ Became(p, "failing") /\ UNCHANGED <<config, configIs>>
  /\ UNCHANGED <<tmpFile, tmpSync, entrySync>>

\* Open, Sync and Close of the directory.
SyncDir(p) ==
  /\ initer[p] = "linked"
  /\ \/ Became(p, "published") /\ entrySync' = TRUE
     \/ Became(p, "failing") /\ entrySync' \in {entrySync, TRUE}
  /\ UNCHANGED <<tmpFile, tmpSync, config, configIs>>

ExitCode(step) == CASE step = "published" -> "exit0" [] step = "exists" -> "exit73" [] step = "failing" -> "exit78"

\* The deferred Remove of the temporary name, and the exit code.
ExitInit(p) ==
  /\ initer[p] \in {"published", "exists", "failing"}
  /\ Became(p, ExitCode(initer[p]))
  /\ tmpFile' \in {tmpFile, [tmpFile EXCEPT ![p] = "none"]}
  /\ UNCHANGED <<tmpSync, config, entrySync, configIs>>

Going(p) == initer[p] \notin {"exit0", "exit73", "exit78", "killed", "start"}

KillInit(p) ==
  /\ Going(p) /\ Became(p, "killed")
  /\ UNCHANGED <<tmpFile, tmpSync, config, entrySync, configIs>>

\* A power loss ends every initialiser.  An entry that was not synced may be
\* gone; contents that were not synced may be torn.
PowerLoss ==
  /\ \E p \in Initialisers : Going(p)
  /\ initer' = [p \in Initialisers |-> IF Going(p) THEN "killed" ELSE initer[p]]
  /\ tmpFile' = [p \in Initialisers |-> IF tmpFile[p] = "whole" /\ ~tmpSync[p] THEN "torn" ELSE tmpFile[p]]
  /\ \/ /\ config # NoConfig
        /\ configIs' = IF tmpSync[config] THEN configIs ELSE "torn"
        /\ UNCHANGED config
     \/ /\ ~entrySync /\ config' = NoConfig /\ configIs' = "none"
  /\ UNCHANGED <<tmpSync, entrySync>>

ConfigNext ==
  \/ PowerLoss
  \/ \E p \in Initialisers : \/ CreateTemp(p) \/ WriteTemp(p) \/ SyncTemp(p) \/ LinkConfig(p)
                             \/ SyncDir(p) \/ ExitInit(p) \/ KillInit(p)
ConfigSpec == ConfigInitial /\ [][ConfigNext]_configVars

-----------------------------------------------------------------------------
\* "writes and validates the complete private document before publishing it" and
\* "Persist the directory entry before reporting success": at every instant, also
\* after a power loss, the configuration is absent or complete, at most one
\* initialiser succeeds, its file is the one that is there, and what a success
\* reported no power loss takes back.
ConfigIsWhole ==
  /\ configIs = (IF config = NoConfig THEN "none" ELSE "whole")
  /\ \A p \in Initialisers : initer[p] = "exit0" => config = p /\ entrySync /\ tmpSync[p]
  /\ \A p \in Initialisers : initer[p] = "exit73" => config # p
=============================================================================
