---------------------------- MODULE SessionDirs -----------------------------
(***************************************************************************)
(* The private directories of concurrent and of killed runs: the package's *)
(* NewSessionDir, which reaps old directories of its root before it makes  *)
(* its own, and the temporary directory that `kordn run' itself makes.     *)
(***************************************************************************)
EXTENDS Integers, Sequences, FiniteSets

CONSTANTS DirRuns,    \* runs
          DirLaunches,\* by root, "private" (NewSessionDir) or "temp" (os.MkdirTemp), the runs
                      \* that are started
          StaleAge,   \* defaultStaleRuntimeAge (24 hours)
          LastClock   \* bound: the clock stops here

ASSUME DirsAssumption ==
  /\ {StaleAge, LastClock} \subseteq Nat \ {0}
  /\ DOMAIN DirLaunches \subseteq {"private", "temp"}

VARIABLES dirClock, dirRun, dirOf
dirVars == <<dirClock, dirRun, dirOf>>

NoDir == [there |-> FALSE, mtime |-> 0, files |-> {}]
DirsInit ==
  /\ dirClock = 0
  /\ \E k \in DOMAIN DirLaunches :
       dirRun = [r \in DirRuns |-> [root |-> k, cutoff |-> 0, entries |-> {},
                                   step |-> IF r \in DirLaunches[k] THEN "idle" ELSE "none"]]
  /\ dirOf = [r \in DirRuns |-> NoDir]

\* The files of a run in the order they are written.  run.go has the CA in a
\* directory of its own, so the CA's files leave the time of the run's alone.
FilesOf(r) == IF dirRun[r].root = "private" THEN <<"credentials", "config">>
              ELSE <<"ca.pem", "ca.key", "credentials", "config">>
Touches(f) == f \in {"credentials", "config"}

To(r, step) == dirRun' = [dirRun EXCEPT ![r] =
  IF step \in {"writing", "running"} THEN [@ EXCEPT !.step = step]
  ELSE [@ EXCEPT !.step = step, !.cutoff = 0, !.entries = {}]]

\* ensurePrivateDirectory and ReadDir; os.MkdirTemp has neither.
StartRun(r) ==
  /\ dirRun[r].step = "idle"
  /\ dirRun' = [dirRun EXCEPT ![r] =
       [@ EXCEPT !.step = "reaping", !.cutoff = dirClock - StaleAge,
                 !.entries = IF dirRun[r].root = "private"
                             THEN {d \in DirRuns : dirRun[d].root = "private" /\ dirOf[d].there}
                             ELSE {}]]
  /\ UNCHANGED <<dirClock, dirOf>>

\* Mutant: a directory of exactly the age is taken for older.
StaleInclusive(d, cutoff) == dirOf[d].there /\ dirOf[d].mtime <= cutoff
Stale(d, cutoff) == dirOf[d].there /\ dirOf[d].mtime < cutoff

\* One entry of cleanupStaleAt: Lstat and, if it is old, RemoveAll.  What cannot
\* be removed ends the start.
ReapEntry(r) ==
  /\ dirRun[r].step = "reaping"
  /\ \E d \in dirRun[r].entries :
       \/ /\ dirRun' = [dirRun EXCEPT ![r].entries = @ \ {d}]
          /\ dirOf' = IF Stale(d, dirRun[r].cutoff) THEN [dirOf EXCEPT ![d] = [NoDir EXCEPT !.mtime = dirOf[d].mtime]]
                      ELSE dirOf
       \/ /\ Stale(d, dirRun[r].cutoff)
          /\ To(r, "refused")
          /\ UNCHANGED dirOf
  /\ UNCHANGED dirClock

MakeDir(r) ==
  /\ dirRun[r].step = "reaping" /\ dirRun[r].entries = {}
  /\ \/ To(r, "writing") /\ dirOf' = [dirOf EXCEPT ![r] = [there |-> TRUE, mtime |-> dirClock, files |-> {}]]
     \/ To(r, "refused") /\ UNCHANGED dirOf
  /\ UNCHANGED dirClock

\* What a failing write leaves: NewCA and WriteSyntheticAWSFiles take their first
\* file back, writePrivateFile its own; os.WriteFile may leave a part.
LeftBy(r, f) ==
  LET had == dirOf[r].files
  IN  CASE f \in {"ca.pem", "ca.key"}     -> {{}}
        [] dirRun[r].root = "private"     -> {{}}
        [] OTHER                          -> {had, had \cup {f}}

WriteDirFile(r) ==
  /\ dirRun[r].step = "writing"
  /\ LET fs == FilesOf(r)
         n == Cardinality(dirOf[r].files)
         f == fs[n + 1]
         Stamp == IF Touches(f) THEN dirClock ELSE dirOf[r].mtime
     IN  \/ /\ dirOf[r].there
            /\ dirOf' = [dirOf EXCEPT ![r] = [@ EXCEPT !.files = dirOf[r].files \cup {f}, !.mtime = Stamp]]
            /\ IF n + 1 = Len(fs) THEN To(r, "running") ELSE UNCHANGED dirRun
         \/ /\ dirOf[r].there
            /\ \E left \in LeftBy(r, f) :
                 dirOf' = [dirOf EXCEPT ![r] = [@ EXCEPT !.files = left, !.mtime = Stamp]]
            /\ To(r, "unwinding")
         \/ /\ ~dirOf[r].there
            /\ To(r, "unwinding") /\ UNCHANGED dirOf
  /\ UNCHANGED dirClock

ChildOver(r) ==
  /\ dirRun[r].step = "running" /\ To(r, "unwinding")
  /\ UNCHANGED <<dirClock, dirOf>>

\* CA.Cleanup removes the key, then the certificate; an error is not looked at.
CleanupFiles(r) ==
  /\ dirRun[r].step = "unwinding" /\ To(r, "removing")
  /\ \E left \in {{}, {"ca.pem"}, {"ca.key"}, {"ca.pem", "ca.key"}} :
       dirOf' = [dirOf EXCEPT ![r].files = (@ \ {"ca.pem", "ca.key"}) \cup (@ \cap left)]
  /\ UNCHANGED dirClock

\* SessionDir.Cleanup and the deferred RemoveAll; one that fails leaves the
\* directory behind.
RemoveDir(r) ==
  /\ dirRun[r].step = "removing"
  /\ \/ To(r, "done") /\ dirOf' = [dirOf EXCEPT ![r] = NoDir]
     \/ To(r, "left") /\ dirOf[r].there /\ UNCHANGED dirOf
  /\ UNCHANGED dirClock

KillRun(r) ==
  /\ dirRun[r].step \in {"reaping", "writing", "running", "unwinding", "removing"}
  /\ To(r, "killed")
  /\ UNCHANGED <<dirClock, dirOf>>

ClockTicks ==
  /\ dirClock < LastClock /\ dirClock' = dirClock + 1
  /\ UNCHANGED <<dirRun, dirOf>>

DirsNext ==
  \/ ClockTicks
  \/ \E r \in DirRuns : \/ StartRun(r) \/ ReapEntry(r) \/ MakeDir(r) \/ WriteDirFile(r)
                        \/ ChildOver(r) \/ CleanupFiles(r) \/ RemoveDir(r) \/ KillRun(r)
DirsSpec == DirsInit /\ [][DirsNext]_dirVars

-----------------------------------------------------------------------------
Started(r) == dirRun[r].step \in {"writing", "running"}
Abandoned(d) == dirRun[d].step \in {"killed", "left"}
Old(d, r) == dirOf[d].there /\ dirOf[d].mtime < dirRun[r].cutoff

\* NewSessionDir: a run that started finds nothing left of runs that ended an age
\* ago, though several runs start and reap at the same time; no run loses its
\* directory to another one before it has that age; a run that ends well leaves
\* no directory and a refused one none of its own.
SessionDirsAreTidy ==
  /\ \A r, d \in DirRuns :
       dirRun[r].root = "private" /\ dirRun[d].root = "private" /\ Started(r) /\ Abandoned(d) => ~Old(d, r)
  /\ \A r \in DirRuns : Started(r) /\ ~dirOf[r].there => dirClock - dirOf[r].mtime > StaleAge
  /\ \A r \in DirRuns : dirRun[r].step \in {"done", "refused"} => ~dirOf[r].there

\* "Attempt cleanup on startup for abandoned runtime directories older than a
\* conservative threshold": the directory of a killed run is gone once a run has
\* started an age later.
AbandonedIsCleaned ==
  \A r, d \in DirRuns : Started(r) /\ Abandoned(d) => ~Old(d, r)
=============================================================================
