----------------------------- MODULE FileProofs -----------------------------
(***************************************************************************)
(* Proofs about the files that runs of Kordn share or leave behind, for    *)
(* any number of runs, kills and crashes of the machine: the initial       *)
(* configuration, the session directories and the audit file. Each has its *)
(* own inductive invariant.                                                *)
(***************************************************************************)
EXTENDS SessionDirs, ConfigInit, AuditFile, TLAPS

(* The configuration that `kordn init' publishes: any number of initialisers, *)
(* kills and power losses.                                                    *)

InitSteps == {"start", "created", "written", "synced", "linked", "published", "exists", "failing",
          "exit0", "exit73", "exit78", "killed"}

\* Past the link an initialiser may have any of these steps.
AfterLink == {"linked", "published", "failing", "exit0", "exit78", "killed"}

ConfigType ==
  /\ initer \in [Initialisers -> InitSteps]
  /\ tmpFile \in [Initialisers -> {"none", "empty", "whole", "torn"}]
  /\ tmpSync \in [Initialisers -> BOOLEAN]
  /\ config \in Initialisers \cup {NoConfig}
  /\ entrySync \in BOOLEAN

\* A file is whole when it is synced and synced when it is linked: the step of
\* an initialiser says so much of its temporary file.
TempInv ==
  \A p \in Initialisers :
    /\ initer[p] \in {"written", "synced"} => tmpFile[p] = "whole"
    /\ initer[p] = "synced" => tmpSync[p]

\* The published file is the synced file of an initialiser that has linked it.
PublishedInv ==
  /\ config = NoConfig => configIs = "none" /\ ~entrySync
  /\ config # NoConfig => /\ configIs = "whole" /\ tmpSync[config]
                          /\ initer[config] \in AfterLink

OwnerInv ==
  \A p \in Initialisers :
    /\ initer[p] \in {"linked", "published", "exit0"} => config = p
    /\ initer[p] \in {"published", "exit0"} => entrySync
    /\ initer[p] \in {"exists", "exit73"} => config # p

ConfigInv == ConfigType /\ TempInv /\ PublishedInv /\ OwnerInv

\* The invariant gives the property.
LEMMA InvGivesWhole == ConfigInv => ConfigIsWhole
  BY ConfigAssumption DEF ConfigInv, ConfigType, PublishedInv, OwnerInv, ConfigIsWhole

LEMMA ConfigInitInv == ConfigInitial => ConfigInv
  BY ConfigAssumption DEF ConfigInitial, ConfigInv, ConfigType, TempInv, PublishedInv, OwnerInv, InitSteps

\* Every system call of an initialiser keeps the invariant.
LEMMA ConfigStepInv ==
  ASSUME ConfigInv, NEW p \in Initialisers,
         \/ CreateTemp(p) \/ WriteTemp(p) \/ SyncTemp(p) \/ LinkConfig(p)
         \/ SyncDir(p) \/ ExitInit(p) \/ KillInit(p)
  PROVE  ConfigInv'
<1> USE ConfigAssumption DEF ConfigInv, Became, InitSteps, AfterLink
<1>1. CASE CreateTemp(p)
  BY <1>1 DEF CreateTemp, ConfigType, TempInv, PublishedInv, OwnerInv
<1>2. CASE WriteTemp(p)
  BY <1>2 DEF WriteTemp, ConfigType, TempInv, PublishedInv, OwnerInv
<1>3. CASE SyncTemp(p)
  BY <1>3 DEF SyncTemp, ConfigType, TempInv, PublishedInv, OwnerInv
<1>4. CASE LinkConfig(p)
  BY <1>4 DEF LinkConfig, ConfigType, TempInv, PublishedInv, OwnerInv
<1>5. CASE SyncDir(p)
  BY <1>5 DEF SyncDir, ConfigType, TempInv, PublishedInv, OwnerInv
<1>6. CASE ExitInit(p)
  BY <1>6 DEF ExitInit, ExitCode, ConfigType, TempInv, PublishedInv, OwnerInv
<1>7. CASE KillInit(p)
  BY <1>7 DEF KillInit, Going, ConfigType, TempInv, PublishedInv, OwnerInv
<1> QED BY <1>1, <1>2, <1>3, <1>4, <1>5, <1>6, <1>7

\* A power loss keeps it: what is published was synced, and an initialiser that
\* reported success has synced the entry too.
LEMMA LossInv == ConfigInv /\ PowerLoss => ConfigInv'
<1> SUFFICES ASSUME ConfigInv, PowerLoss PROVE ConfigInv'
  OBVIOUS
<1> USE ConfigAssumption DEF ConfigInv, InitSteps, AfterLink
<1>1. ConfigType'
  BY DEF PowerLoss, ConfigType
<1>2. TempInv'
  BY DEF PowerLoss, Going, ConfigType, TempInv
<1>3. PublishedInv'
  BY DEF PowerLoss, Going, ConfigType, PublishedInv
<1>4. OwnerInv'
  BY DEF PowerLoss, Going, ConfigType, PublishedInv, OwnerInv
<1> QED BY <1>1, <1>2, <1>3, <1>4

\* At every instant, also after a power loss, the configuration is absent or
\* complete; at most one initialiser succeeds, and what it reported stays.
THEOREM ConfigWhole == ConfigSpec => []ConfigIsWhole
<1>1. ConfigInv /\ [ConfigNext]_configVars => ConfigInv'
  <2> SUFFICES ASSUME ConfigInv, [ConfigNext]_configVars PROVE ConfigInv'
    OBVIOUS
  <2>1. CASE PowerLoss
    BY <2>1, LossInv
  <2>2. CASE \E p \in Initialisers : \/ CreateTemp(p) \/ WriteTemp(p) \/ SyncTemp(p) \/ LinkConfig(p)
                                     \/ SyncDir(p) \/ ExitInit(p) \/ KillInit(p)
    BY <2>2, ConfigStepInv
  <2>3. CASE UNCHANGED configVars
    BY <2>3 DEF configVars, ConfigInv, ConfigType, TempInv, PublishedInv, OwnerInv
  <2> QED BY <2>1, <2>2, <2>3 DEF ConfigNext
<1> QED BY <1>1, ConfigInitInv, InvGivesWhole, PTL DEF ConfigSpec

-----------------------------------------------------------------------------
(* The session directories: any number of runs of either kind that start,    *)
(* reap, write, end and are killed at any time of the clock.                 *)

RootOf(r) == dirRun[r].root
StepOf(r) == dirRun[r].step
CutoffOf(r) == dirRun[r].cutoff
EntriesOf(r) == dirRun[r].entries
There(d) == dirOf[d].there
Mtime(d) == dirOf[d].mtime

Reaped == {"reaping", "writing", "running"}

(* The records keep their fields. *)
ShapeInv ==
    /\ DOMAIN dirRun = DirRuns /\ DOMAIN dirOf = DirRuns
    /\ \A d \in DirRuns : /\ DOMAIN dirRun[d] = {"root", "cutoff", "entries", "step"}
                          /\ DOMAIN dirOf[d] = {"there", "mtime", "files"}

TimeInv ==
    /\ dirClock \in Nat
    /\ \A d \in DirRuns : Mtime(d) \in Nat /\ Mtime(d) <= dirClock
    /\ \A r \in DirRuns : CutoffOf(r) \in Int /\ EntriesOf(r) \subseteq DirRuns

(* A run that reaps, or has reaped, looks back an age from its start, and     *)
(* what it no longer has on its list is gone or was made or touched since.    *)
ReapInv ==
    \A r \in DirRuns : StepOf(r) \in Reaped =>
        /\ CutoffOf(r) <= dirClock - StaleAge
        /\ StepOf(r) # "reaping" => EntriesOf(r) = {}
        /\ \A d \in DirRuns \ EntriesOf(r) :
              RootOf(r) = "private" /\ RootOf(d) = "private" /\ There(d) => Mtime(d) >= CutoffOf(r)

(* Only another run's reaping takes a directory from a run, and then it is old. *)
LostInv ==
    \A r \in DirRuns :
        /\ StepOf(r) \in {"writing", "running"} /\ ~There(r) => dirClock - Mtime(r) > StaleAge
        /\ StepOf(r) \in {"none", "idle", "reaping", "refused", "done"} => ~There(r)

DirInv == ShapeInv /\ TimeInv /\ ReapInv /\ LostInv

(* What a step of run r does to the record of r, and to no other. *)
OwnRun(r, s) ==
    /\ StepOf(r)' = s
    /\ RootOf(r)' = RootOf(r)
    /\ \A q \in DirRuns \ {r} : dirRun'[q] = dirRun[q]
    /\ DOMAIN dirRun' = DirRuns /\ DOMAIN dirRun'[r] = {"root", "cutoff", "entries", "step"}

LEMMA ToEffect ==
    ASSUME DirInv, NEW r \in DirRuns, NEW s, To(r, s)
    PROVE  /\ OwnRun(r, s)
           /\ IF s \in {"writing", "running"}
                THEN CutoffOf(r)' = CutoffOf(r) /\ EntriesOf(r)' = EntriesOf(r)
                ELSE CutoffOf(r)' = 0 /\ EntriesOf(r)' = {}
<1>. DEFINE old == dirRun[r]
            new == IF s \in {"writing", "running"} THEN [old EXCEPT !.step = s]
                   ELSE [old EXCEPT !.step = s, !.cutoff = 0, !.entries = {}]
<1>1. DOMAIN old = {"root", "cutoff", "entries", "step"} /\ dirRun' = [dirRun EXCEPT ![r] = new]
  BY DEF To, DirInv, ShapeInv
<1>2. /\ DOMAIN new = {"root", "cutoff", "entries", "step"} /\ new.step = s /\ new.root = old.root
      /\ IF s \in {"writing", "running"} THEN new.cutoff = old.cutoff /\ new.entries = old.entries
         ELSE new.cutoff = 0 /\ new.entries = {}
  <2>. HIDE DEF old
  <2>. QED
    BY <1>1
<1>. HIDE DEF new
<1>3. dirRun'[r] = new /\ DOMAIN dirRun' = DirRuns /\ \A q \in DirRuns \ {r} : dirRun'[q] = dirRun[q]
  BY <1>1 DEF DirInv, ShapeInv
<1>. QED
  BY <1>2, <1>3 DEF OwnRun, StepOf, RootOf, CutoffOf, EntriesOf

OwnDir(r) ==
    /\ \A d \in DirRuns \ {r} : dirOf'[d] = dirOf[d]
    /\ DOMAIN dirOf' = DirRuns /\ DOMAIN dirOf'[r] = {"there", "mtime", "files"}

LEMMA OwnRunOthers ==
    ASSUME NEW r \in DirRuns, NEW s, OwnRun(r, s)
    PROVE  /\ \A q \in DirRuns \ {r} : /\ StepOf(q)' = StepOf(q) /\ CutoffOf(q)' = CutoffOf(q)
                                       /\ EntriesOf(q)' = EntriesOf(q)
           /\ \A q \in DirRuns : RootOf(q)' = RootOf(q)
BY DEF OwnRun, StepOf, RootOf, CutoffOf, EntriesOf

LEMMA OwnDirOthers ==
    ASSUME NEW r \in DirRuns, OwnDir(r), NEW d \in DirRuns \ {r}
    PROVE  (There(d)' <=> There(d)) /\ Mtime(d)' = Mtime(d)
BY DEF OwnDir, There, Mtime

LEMMA DirEffect ==
    ASSUME DirInv, NEW r \in DirRuns, NEW new, DOMAIN new = {"there", "mtime", "files"},
           dirOf' = [dirOf EXCEPT ![r] = new]
    PROVE  OwnDir(r) /\ (There(r)' <=> new.there) /\ Mtime(r)' = new.mtime
BY DEF DirInv, ShapeInv, OwnDir, There, Mtime

LEMMA DirStays ==
    ASSUME DirInv, NEW r \in DirRuns, UNCHANGED dirOf
    PROVE  OwnDir(r) /\ (There(r)' <=> There(r)) /\ Mtime(r)' = Mtime(r)
BY DEF DirInv, ShapeInv, OwnDir, There, Mtime

LEMMA OwnShape ==
    ASSUME DirInv, NEW r \in DirRuns, NEW s, OwnRun(r, s), OwnDir(r)
    PROVE  ShapeInv'
BY DEF DirInv, ShapeInv, OwnRun, OwnDir

LEMMA DirInitInv == DirsInit => DirInv
<1>. SUFFICES ASSUME DirsInit PROVE DirInv
  OBVIOUS
<1>1. PICK k \in {"private", "temp"} :
        dirRun = [r \in DirRuns |-> [root |-> k, cutoff |-> 0, entries |-> {},
                                     step |-> IF r \in DirLaunches[k] THEN "idle" ELSE "none"]]
  BY DirsAssumption DEF DirsInit
<1>2. \A r \in DirRuns : /\ StepOf(r) \in {"idle", "none"} /\ CutoffOf(r) = 0 /\ EntriesOf(r) = {}
                         /\ There(r) = FALSE /\ Mtime(r) = 0
  BY <1>1 DEF DirsInit, NoDir, StepOf, CutoffOf, EntriesOf, There, Mtime
<1>3. ShapeInv
  BY <1>1 DEF ShapeInv, DirsInit, NoDir
<1>. QED
  BY <1>2, <1>3 DEF DirInv, TimeInv, ReapInv, LostInv, Reaped, DirsInit

LEMMA ClockInv == ASSUME DirInv, ClockTicks PROVE DirInv'
<1>1. /\ ShapeInv' /\ dirClock' = dirClock + 1
      /\ \A q \in DirRuns : /\ StepOf(q)' = StepOf(q) /\ CutoffOf(q)' = CutoffOf(q) /\ RootOf(q)' = RootOf(q)
                            /\ EntriesOf(q)' = EntriesOf(q) /\ (There(q)' <=> There(q)) /\ Mtime(q)' = Mtime(q)
  BY DEF ClockTicks, DirInv, ShapeInv, StepOf, CutoffOf, RootOf, EntriesOf, There, Mtime
<1>. QED
  BY <1>1, DirsAssumption DEF DirInv, TimeInv, ReapInv, LostInv

(* A run that leaves the start or the child behind takes nothing from others. *)
LEMMA LeaveInv ==
    ASSUME DirInv, NEW r \in DirRuns,
           NEW s \in {"refused", "unwinding", "removing", "done", "left", "killed"}, To(r, s),
           UNCHANGED dirClock, OwnDir(r),
           There(r)' => There(r) /\ Mtime(r)' >= Mtime(r),
           Mtime(r)' \in Nat /\ Mtime(r)' <= dirClock,
           s \in {"refused", "done"} => ~There(r)'
    PROVE  DirInv'
<1>1. OwnRun(r, s) /\ CutoffOf(r)' = 0 /\ EntriesOf(r)' = {} /\ StepOf(r)' = s
  BY ToEffect DEF OwnRun
<1>2. \A d \in DirRuns : There(d)' => There(d) /\ Mtime(d)' >= Mtime(d)
  BY OwnDirOthers DEF DirInv, TimeInv
<1>3. TimeInv'
  BY <1>1, OwnRunOthers, OwnDirOthers DEF DirInv, TimeInv
<1>4. ReapInv'
  BY <1>1, <1>2, <1>3, OwnRunOthers DEF DirInv, ReapInv, Reaped, TimeInv
<1>5. LostInv'
  BY <1>1, OwnRunOthers, OwnDirOthers DEF DirInv, LostInv
<1>. QED
  BY <1>1, <1>3, <1>4, <1>5, OwnShape DEF DirInv

LEMMA StartRunInv == ASSUME DirInv, NEW r \in DirRuns, StartRun(r) PROVE DirInv'
<1>. DEFINE old == dirRun[r]
            listed == IF RootOf(r) = "private"
                      THEN {d \in DirRuns : RootOf(d) = "private" /\ There(d)} ELSE {}
            new == [old EXCEPT !.step = "reaping", !.cutoff = dirClock - StaleAge, !.entries = listed]
<1>1. /\ DOMAIN old = {"root", "cutoff", "entries", "step"} /\ dirRun' = [dirRun EXCEPT ![r] = new]
      /\ StepOf(r) = "idle" /\ UNCHANGED <<dirClock, dirOf>>
  BY DEF StartRun, DirInv, ShapeInv, RootOf, StepOf, There
<1>2. /\ DOMAIN new = {"root", "cutoff", "entries", "step"} /\ new.step = "reaping"
      /\ new.root = old.root /\ new.cutoff = dirClock - StaleAge /\ new.entries = listed
  <2>. HIDE DEF old, listed
  <2>. QED
    BY <1>1
<1>. HIDE DEF new
<1>3. dirRun'[r] = new /\ DOMAIN dirRun' = DirRuns /\ \A q \in DirRuns \ {r} : dirRun'[q] = dirRun[q]
  BY <1>1 DEF DirInv, ShapeInv
<1>4. OwnRun(r, "reaping") /\ CutoffOf(r)' = dirClock - StaleAge /\ EntriesOf(r)' = listed
  <2>. HIDE DEF listed
  <2>. QED
    BY <1>2, <1>3 DEF OwnRun, StepOf, RootOf, CutoffOf, EntriesOf
<1>5. /\ \A d \in DirRuns : (There(d)' <=> There(d)) /\ Mtime(d)' = Mtime(d)
      /\ OwnDir(r) /\ StepOf(r)' = "reaping"
  BY <1>1, <1>4, DirStays DEF OwnRun
<1>6. TimeInv'
  BY <1>1, <1>4, <1>5, OwnRunOthers, DirsAssumption DEF DirInv, TimeInv
<1>7. ReapInv'
  <2>. SUFFICES ASSUME NEW q \in DirRuns, StepOf(q)' \in Reaped
                PROVE  /\ CutoffOf(q)' <= dirClock' - StaleAge
                       /\ StepOf(q)' # "reaping" => EntriesOf(q)' = {}
                       /\ \A d \in DirRuns \ EntriesOf(q)' :
                            RootOf(q)' = "private" /\ RootOf(d)' = "private" /\ There(d)' =>
                               Mtime(d)' >= CutoffOf(q)'
    BY DEF ReapInv
  <2>1. CASE q = r
    BY <1>1, <1>4, <1>5, <2>1, OwnRunOthers, DirsAssumption DEF DirInv, TimeInv
  <2>2. CASE q # r
    BY <1>1, <1>4, <1>5, <2>2, OwnRunOthers DEF DirInv, ReapInv
  <2>. QED
    BY <2>1, <2>2
<1>8. LostInv'
  BY <1>1, <1>4, <1>5, OwnRunOthers DEF DirInv, LostInv
<1>. QED
  BY <1>4, <1>5, <1>6, <1>7, <1>8, OwnShape DEF DirInv

LEMMA EndInvs ==
    ASSUME DirInv, NEW r \in DirRuns,
           ChildOver(r) \/ CleanupFiles(r) \/ RemoveDir(r) \/ KillRun(r)
    PROVE  DirInv'
<1>1. Mtime(r) \in Nat /\ Mtime(r) <= dirClock /\ dirClock \in Nat
  BY DEF DirInv, TimeInv
<1>2. CASE ChildOver(r) \/ KillRun(r)
  BY <1>1, <1>2, DirStays, LeaveInv DEF ChildOver, KillRun
<1>3. CASE CleanupFiles(r)
  <2>. DEFINE old == dirOf[r]
  <2>1. PICK left : dirOf' = [dirOf EXCEPT ![r] = [old EXCEPT !.files = left]]
    BY <1>3 DEF CleanupFiles
  <2>2. DOMAIN old = {"there", "mtime", "files"}
    BY DEF DirInv, ShapeInv
  <2>. DEFINE new == [old EXCEPT !.files = left]
  <2>3. DOMAIN new = {"there", "mtime", "files"} /\ (new.there <=> old.there) /\ new.mtime = old.mtime
    <3>. HIDE DEF old
    <3>. QED
      BY <2>2
  <2>. HIDE DEF new
  <2>4. OwnDir(r) /\ (There(r)' <=> There(r)) /\ Mtime(r)' = Mtime(r)
    BY <2>1, <2>3, DirEffect DEF new, There, Mtime
  <2>. QED
    BY <1>1, <1>3, <2>4, LeaveInv DEF CleanupFiles
<1>4. CASE RemoveDir(r)
  <2>1. CASE To(r, "done") /\ dirOf' = [dirOf EXCEPT ![r] = NoDir]
    <3>1. DOMAIN NoDir = {"there", "mtime", "files"} /\ ~NoDir.there /\ NoDir.mtime = 0
      BY DEF NoDir
    <3>2. OwnDir(r) /\ ~There(r)' /\ Mtime(r)' = 0
      BY <2>1, <3>1, DirEffect
    <3>. QED
      BY <1>1, <1>4, <2>1, <3>2, LeaveInv DEF RemoveDir
  <2>2. CASE To(r, "left") /\ UNCHANGED dirOf
    BY <1>1, <1>4, <2>2, DirStays, LeaveInv DEF RemoveDir
  <2>. QED
    BY <1>4, <2>1, <2>2 DEF RemoveDir
<1>. QED
  BY <1>2, <1>3, <1>4

(* A run that makes its directory, or writes to it, makes nothing older. *)
LEMMA HoldInv ==
    ASSUME DirInv, NEW r \in DirRuns, NEW s \in {"writing", "running"}, OwnRun(r, s),
           CutoffOf(r)' = CutoffOf(r), EntriesOf(r)' = EntriesOf(r), EntriesOf(r) = {},
           StepOf(r) \in {"reaping", "writing"}, UNCHANGED dirClock, OwnDir(r), There(r)',
           Mtime(r)' = dirClock \/ (There(r) /\ Mtime(r)' = Mtime(r))
    PROVE  DirInv'
<1>1. /\ StepOf(r)' = s /\ Mtime(r)' \in Nat /\ Mtime(r)' <= dirClock /\ dirClock \in Nat
      /\ \A q \in DirRuns : CutoffOf(q)' = CutoffOf(q) /\ EntriesOf(q)' = EntriesOf(q)
      /\ \A q \in DirRuns : StepOf(q)' \in Reaped => StepOf(q) \in Reaped
  BY OwnRunOthers DEF OwnRun, DirInv, TimeInv, Reaped
<1>2. \A d \in DirRuns : There(d)' => (There(d) /\ Mtime(d)' = Mtime(d)) \/ Mtime(d)' = dirClock
  BY OwnDirOthers
<1>3. TimeInv'
  BY <1>1, OwnDirOthers DEF DirInv, TimeInv
<1>4. ReapInv'
  BY <1>1, <1>2, OwnRunOthers, DirsAssumption DEF DirInv, ReapInv, TimeInv
<1>5. LostInv'
  BY <1>1, OwnRunOthers, OwnDirOthers DEF DirInv, LostInv
<1>. QED
  BY <1>3, <1>4, <1>5, OwnShape DEF DirInv

LEMMA MakeDirInv == ASSUME DirInv, NEW r \in DirRuns, MakeDir(r) PROVE DirInv'
<1>1. StepOf(r) = "reaping" /\ EntriesOf(r) = {} /\ UNCHANGED dirClock
  BY DEF MakeDir, StepOf, EntriesOf
<1>2. ~There(r) /\ Mtime(r) \in Nat /\ Mtime(r) <= dirClock
  BY <1>1 DEF DirInv, LostInv, TimeInv
<1>3. CASE To(r, "refused") /\ UNCHANGED dirOf
  BY <1>1, <1>2, <1>3, DirStays, LeaveInv
<1>. DEFINE new == [there |-> TRUE, mtime |-> dirClock, files |-> {}]
<1>4. CASE To(r, "writing") /\ dirOf' = [dirOf EXCEPT ![r] = new]
  <2>1. DOMAIN new = {"there", "mtime", "files"} /\ new.there /\ new.mtime = dirClock
    OBVIOUS
  <2>. HIDE DEF new
  <2>2. OwnDir(r) /\ There(r)' /\ Mtime(r)' = dirClock
    BY <1>4, <2>1, DirEffect
  <2>3. OwnRun(r, "writing") /\ CutoffOf(r)' = CutoffOf(r) /\ EntriesOf(r)' = EntriesOf(r)
    BY <1>4, ToEffect
  <2>. QED
    BY <1>1, <2>2, <2>3, HoldInv
<1>. QED
  BY <1>3, <1>4 DEF MakeDir

LEMMA WriteDirFileInv == ASSUME DirInv, NEW r \in DirRuns, WriteDirFile(r) PROVE DirInv'
<1>. DEFINE old == dirOf[r]
<1>1. /\ StepOf(r) = "writing" /\ EntriesOf(r) = {} /\ UNCHANGED dirClock
      /\ Mtime(r) \in Nat /\ Mtime(r) <= dirClock /\ dirClock \in Nat
      /\ DOMAIN old = {"there", "mtime", "files"} /\ (There(r) <=> old.there) /\ Mtime(r) = old.mtime
  BY DEF WriteDirFile, StepOf, There, Mtime, DirInv, ReapInv, TimeInv, ShapeInv, Reaped
<1>2. ASSUME NEW files, NEW stamp \in {dirClock, old.mtime},
             dirOf' = [dirOf EXCEPT ![r] = [old EXCEPT !.files = files, !.mtime = stamp]]
      PROVE  OwnDir(r) /\ (There(r)' <=> There(r)) /\ Mtime(r)' = stamp
  <2>. DEFINE new == [old EXCEPT !.files = files, !.mtime = stamp]
  <2>1. DOMAIN new = {"there", "mtime", "files"} /\ (new.there <=> old.there) /\ new.mtime = stamp
    <3>. HIDE DEF old
    <3>. QED
      BY <1>1
  <2>. HIDE DEF new
  <2>. QED
    BY <1>1, <1>2, <2>1, DirEffect DEF new
<1>3. CASE There(r)
  <2>1. \/ To(r, "running") \/ UNCHANGED dirRun \/ To(r, "unwinding")
    BY <1>1, <1>3 DEF WriteDirFile
  <2>2. \E files : \E stamp \in {dirClock, old.mtime} :
          dirOf' = [dirOf EXCEPT ![r] = [old EXCEPT !.files = files, !.mtime = stamp]]
    <3>. DEFINE f == FilesOf(r)[Cardinality(dirOf[r].files) + 1]
                stamp == IF Touches(f) THEN dirClock ELSE old.mtime
    <3>1. \E files : dirOf' = [dirOf EXCEPT ![r] = [old EXCEPT !.files = files, !.mtime = stamp]]
      <4>1. CASE dirOf' = [dirOf EXCEPT ![r] = [old EXCEPT !.files = old.files \cup {f}, !.mtime = stamp]]
        BY <4>1
      <4>2. CASE \E files \in LeftBy(r, f) :
                   dirOf' = [dirOf EXCEPT ![r] = [old EXCEPT !.files = files, !.mtime = stamp]]
        BY <4>2
      <4>. QED
        BY <1>1, <1>3, <4>1, <4>2 DEF WriteDirFile
    <3>2. stamp \in {dirClock, old.mtime}
      OBVIOUS
    <3>. QED
      BY <3>1, <3>2
  <2>3. PICK stamp \in {dirClock, old.mtime} : \E files :
          dirOf' = [dirOf EXCEPT ![r] = [old EXCEPT !.files = files, !.mtime = stamp]]
    BY <2>2
  <2>4. OwnDir(r) /\ There(r)' /\ Mtime(r)' = stamp
    BY <1>2, <1>3, <2>3
  <2>5. CASE To(r, "running")
    BY <1>1, <1>3, <2>4, <2>5, ToEffect, HoldInv
  <2>6. CASE UNCHANGED dirRun
    <3>1. OwnRun(r, "writing") /\ CutoffOf(r)' = CutoffOf(r) /\ EntriesOf(r)' = EntriesOf(r)
      BY <1>1, <2>6 DEF OwnRun, StepOf, RootOf, CutoffOf, EntriesOf, DirInv, ShapeInv
    <3>. QED
      BY <1>1, <1>3, <2>4, <3>1, HoldInv
  <2>7. CASE To(r, "unwinding")
    BY <1>1, <1>3, <2>4, <2>7, LeaveInv
  <2>. QED
    BY <2>1, <2>5, <2>6, <2>7
<1>4. CASE ~There(r)
  <2>1. To(r, "unwinding") /\ UNCHANGED dirOf
    BY <1>4 DEF WriteDirFile, There
  <2>. QED
    BY <1>1, <1>4, <2>1, DirStays, LeaveInv
<1>. QED
  BY <1>3, <1>4

LEMMA ReapEntryInv == ASSUME DirInv, NEW r \in DirRuns, ReapEntry(r) PROVE DirInv'
<1>1. PICK d \in EntriesOf(r) :
        \/ /\ dirRun' = [dirRun EXCEPT ![r].entries = @ \ {d}]
           /\ dirOf' = IF Stale(d, CutoffOf(r))
                       THEN [dirOf EXCEPT ![d] = [NoDir EXCEPT !.mtime = dirOf[d].mtime]] ELSE dirOf
        \/ To(r, "refused") /\ UNCHANGED dirOf
  BY DEF ReapEntry, EntriesOf, CutoffOf
<1>2. /\ StepOf(r) = "reaping" /\ UNCHANGED dirClock /\ d \in DirRuns /\ ~There(r)
      /\ CutoffOf(r) \in Int /\ CutoffOf(r) <= dirClock - StaleAge
      /\ dirClock \in Nat /\ \A q \in DirRuns : Mtime(q) \in Nat /\ Mtime(q) <= dirClock
  BY DEF ReapEntry, StepOf, DirInv, TimeInv, ReapInv, LostInv, Reaped
<1>3. CASE To(r, "refused") /\ UNCHANGED dirOf
  BY <1>2, <1>3, DirStays, LeaveInv
<1>4. CASE /\ dirRun' = [dirRun EXCEPT ![r].entries = @ \ {d}]
           /\ dirOf' = IF Stale(d, CutoffOf(r))
                       THEN [dirOf EXCEPT ![d] = [NoDir EXCEPT !.mtime = dirOf[d].mtime]] ELSE dirOf
  <2>. DEFINE old == dirRun[r]
              rest == EntriesOf(r) \ {d}
              new == [old EXCEPT !.entries = rest]
  <2>1. DOMAIN old = {"root", "cutoff", "entries", "step"} /\ dirRun' = [dirRun EXCEPT ![r] = new]
    BY <1>4 DEF DirInv, ShapeInv, EntriesOf
  <2>2. /\ DOMAIN new = {"root", "cutoff", "entries", "step"} /\ new.step = old.step
        /\ new.root = old.root /\ new.cutoff = old.cutoff /\ new.entries = rest
    <3>. HIDE DEF old, rest
    <3>. QED
      BY <2>1
  <2>. HIDE DEF new
  <2>3. dirRun'[r] = new /\ DOMAIN dirRun' = DirRuns /\ \A q \in DirRuns \ {r} : dirRun'[q] = dirRun[q]
    BY <2>1 DEF DirInv, ShapeInv
  <2>4. OwnRun(r, "reaping") /\ CutoffOf(r)' = CutoffOf(r) /\ EntriesOf(r)' = rest
    BY <1>2, <2>2, <2>3 DEF OwnRun, StepOf, RootOf, CutoffOf, EntriesOf
  <2>5. /\ OwnDir(d) /\ Mtime(d)' = Mtime(d) /\ (There(d)' => There(d))
        /\ There(d) /\ ~There(d)' => Mtime(d) < CutoffOf(r)
        /\ There(d)' => Mtime(d) >= CutoffOf(r)
    <3>1. CASE Stale(d, CutoffOf(r))
      <4>. DEFINE left == [NoDir EXCEPT !.mtime = dirOf[d].mtime]
      <4>1. DOMAIN left = {"there", "mtime", "files"} /\ ~left.there /\ left.mtime = Mtime(d)
        BY DEF NoDir, Mtime
      <4>2. dirOf' = [dirOf EXCEPT ![d] = left]
        BY <1>4, <3>1
      <4>. HIDE DEF left
      <4>3. OwnDir(d) /\ ~There(d)' /\ Mtime(d)' = Mtime(d)
        BY <1>2, <4>1, <4>2, DirEffect
      <4>. QED
        BY <3>1, <4>3 DEF Stale, There, Mtime
    <3>2. CASE ~Stale(d, CutoffOf(r))
      <4>1. UNCHANGED dirOf /\ (There(d) => ~(Mtime(d) < CutoffOf(r)))
        BY <1>4, <3>2 DEF Stale, There, Mtime
      <4>. QED
        BY <1>2, <4>1, DirStays
    <3>. QED
      BY <3>1, <3>2
  <2>6. /\ \A q \in DirRuns : /\ CutoffOf(q)' = CutoffOf(q) /\ StepOf(q)' = StepOf(q)
                               /\ RootOf(q)' = RootOf(q) /\ Mtime(q)' = Mtime(q)
                               /\ (There(q)' => There(q))
                               /\ (There(q) /\ ~There(q)' => Mtime(q) < CutoffOf(r))
      BY <1>2, <2>4, <2>5, OwnRunOthers, OwnDirOthers DEF OwnRun
  <2>7. \A q \in DirRuns : EntriesOf(q)' = IF q = r THEN rest ELSE EntriesOf(q)
    BY <2>4, OwnRunOthers
  <2>. HIDE DEF old
  <2>8. TimeInv'
    BY <1>2, <2>6, <2>7 DEF DirInv, TimeInv
  <2>9. ReapInv'
    <3>. SUFFICES ASSUME NEW q \in DirRuns, StepOf(q)' \in Reaped
                  PROVE  /\ CutoffOf(q)' <= dirClock' - StaleAge
                         /\ StepOf(q)' # "reaping" => EntriesOf(q)' = {}
                         /\ \A x \in DirRuns \ EntriesOf(q)' :
                              RootOf(q)' = "private" /\ RootOf(x)' = "private" /\ There(x)' =>
                                 Mtime(x)' >= CutoffOf(q)'
      BY DEF ReapInv
    <3>1. CASE q = r
      BY <1>2, <2>5, <2>6, <2>7, <3>1 DEF DirInv, ReapInv, Reaped
    <3>2. CASE q # r
      BY <1>2, <2>6, <2>7, <3>2 DEF DirInv, ReapInv
    <3>. QED
      BY <3>1, <3>2
  <2>10. LostInv'
    BY <1>2, <2>6, DirsAssumption DEF DirInv, LostInv
  <2>11. ShapeInv'
    BY <2>4, <2>5 DEF DirInv, ShapeInv, OwnRun, OwnDir
  <2>. QED
    BY <2>8, <2>9, <2>10, <2>11 DEF DirInv
<1>. QED
  BY <1>1, <1>3, <1>4

LEMMA DirNextInv == DirInv /\ [DirsNext]_dirVars => DirInv'
<1>1. ASSUME DirInv, UNCHANGED dirVars PROVE DirInv'
  BY <1>1 DEF dirVars, DirInv, ShapeInv, TimeInv, ReapInv, LostInv, RootOf, StepOf, CutoffOf,
              EntriesOf, There, Mtime
<1>. QED
  BY <1>1, ClockInv, StartRunInv, ReapEntryInv, MakeDirInv, WriteDirFileInv, EndInvs DEF DirsNext

LEMMA InvGivesTidy == DirInv => SessionDirsAreTidy
<1>. SUFFICES ASSUME DirInv PROVE SessionDirsAreTidy
  OBVIOUS
<1>1. ASSUME NEW r \in DirRuns, NEW d \in DirRuns,
             dirRun[r].root = "private", dirRun[d].root = "private", Started(r)
      PROVE  ~Old(d, r)
  <2>1. RootOf(r) = "private" /\ RootOf(d) = "private" /\ StepOf(r) \in {"writing", "running"}
    BY <1>1 DEF RootOf, StepOf, Started
  <2>2. There(d) => Mtime(d) >= CutoffOf(r) /\ Mtime(d) \in Nat /\ CutoffOf(r) \in Int
    BY <2>1 DEF DirInv, ReapInv, Reaped, TimeInv
  <2>. QED
    BY <2>2 DEF Old, There, Mtime, CutoffOf
<1>2. \A r \in DirRuns : Started(r) /\ ~dirOf[r].there => dirClock - dirOf[r].mtime > StaleAge
  BY DEF DirInv, LostInv, Started, StepOf, There, Mtime
<1>3. \A r \in DirRuns : dirRun[r].step \in {"done", "refused"} => ~dirOf[r].there
  BY DEF DirInv, LostInv, StepOf, There
<1>. QED
  BY <1>1, <1>2, <1>3 DEF SessionDirsAreTidy

(* NewSessionDir (sessiondir.go) with any number of runs that start, reap and are  *)
(* killed at any time: a run that started finds nothing left of runs that ended *)
(* an age ago, no run loses its directory before it has that age, and a run     *)
(* that ends well or is refused leaves none.                                    *)
THEOREM SessionDirsTidy == DirsSpec => []SessionDirsAreTidy
<1>1. DirsSpec => []DirInv
  BY DirInitInv, DirNextInv, PTL DEF DirsSpec
<1>. QED
  BY <1>1, InvGivesTidy, PTL

-----------------------------------------------------------------------------
(* The audit file: any number of runs that append to it and read it, any     *)
(* number of writes that fail, and crashes of a run and of the machine.      *)

Rec == [run : AuditRuns, n : Nat, whole : BOOLEAN]

LEMMA RecFacts == \A e \in Rec : e.run \in AuditRuns /\ e.n \in Nat
BY DEF Rec

LEMMA NewRec ==
    ASSUME NEW r \in AuditRuns, NEW k \in Nat, NEW w \in BOOLEAN
    PROVE  /\ [run |-> r, n |-> k, whole |-> w] \in Rec
           /\ [run |-> r, n |-> k, whole |-> w].run = r
           /\ [run |-> r, n |-> k, whole |-> w].n = k
BY DEF Rec

LEMMA PartRec ==
    ASSUME NEW r, NEW k, NEW w
    PROVE  [run |-> r, n |-> k, whole |-> w].whole = w
OBVIOUS

LEMMA TornRec ==
    ASSUME NEW e \in Rec
    PROVE  /\ [e EXCEPT !.whole = FALSE] \in Rec
           /\ [e EXCEPT !.whole = FALSE].run = e.run
           /\ [e EXCEPT !.whole = FALSE].n = e.n
BY DEF Rec

(* A run that has not begun has nothing in the file, and what the file holds  *)
(* of a run it has passed to it: all of it while the run goes on, and all of   *)
(* it for good when it has closed.                                             *)
RecordsInv(r) ==
    /\ appended[r] \in Nat
    /\ appender[r] = "none" => appended[r] = 0
    /\ \A i \in 1..Len(disk) : disk[i].run = r => disk[i].n \in 1..appended[r]
    /\ appender[r] = "open" =>
          \A m \in 1..appended[r] : \E i \in 1..Len(disk) : disk[i].run = r /\ disk[i].n = m
    /\ appender[r] = "closed" =>
          \A m \in 1..appended[r] : \E i \in 1..kept : disk[i].run = r /\ disk[i].n = m

(* The events in the file, torn ones included. *)
OrderInv ==
    \A i, j \in 1..Len(disk) : disk[i].run = disk[j].run => (i < j <=> disk[i].n < disk[j].n)

GapInv ==
    \A i \in 1..Len(disk) : \A m \in 1..disk[i].n :
        \E j \in 1..Len(disk) : disk[j].run = disk[i].run /\ disk[j].n = m

TrailInv ==
    /\ disk \in Seq(Rec) /\ kept \in 0..Len(disk)
    /\ appender \in [AuditRuns -> {"none", "open", "failed", "crashed", "closed"}]
    /\ DOMAIN appended = AuditRuns
    /\ OrderInv /\ GapInv
    /\ \A r \in AuditRuns : RecordsInv(r)

LEMMA TrailInitInv == FileInit => TrailInv
BY DEF FileInit, TrailInv, OrderInv, GapInv, RecordsInv

(* One record more at the end of the file. *)
LEMMA AppendInv ==
    ASSUME TrailInv, NEW r \in AuditRuns, appender[r] = "open", NEW e \in Rec,
           e.run = r, e.n = appended[r] + 1, disk' = Append(disk, e),
           appended' = [appended EXCEPT ![r] = @ + 1], kept' = kept,
           appender' = appender \/ appender' = [appender EXCEPT ![r] = "failed"]
    PROVE  TrailInv'
<1>1. /\ Len(disk') = Len(disk) + 1 /\ disk'[Len(disk) + 1] = e /\ disk' \in Seq(Rec) /\ Len(disk) \in Nat
      /\ \A i \in 1..Len(disk) : disk'[i] = disk[i]
  BY DEF TrailInv
<1>2. /\ DOMAIN appended' = AuditRuns /\ appended'[r] = appended[r] + 1 /\ appended[r] \in Nat
      /\ \A q \in AuditRuns \ {r} : appended'[q] = appended[q]
  BY DEF TrailInv, RecordsInv
<1>3. /\ appender' \in [AuditRuns -> {"none", "open", "failed", "crashed", "closed"}]
      /\ \A q \in AuditRuns \ {r} : appender'[q] = appender[q]
      /\ appender'[r] \in {"open", "failed"}
  BY DEF TrailInv
<1>4. /\ \A i \in 1..Len(disk) : disk[i].run = r => disk[i].n \in 1..appended[r]
      /\ \A m \in 1..appended[r] : \E i \in 1..Len(disk) : disk[i].run = r /\ disk[i].n = m
      /\ \A i \in 1..Len(disk) : disk[i] \in Rec
  BY DEF TrailInv, RecordsInv
<1>5. OrderInv'
  <2>1. \A i, j \in 1..Len(disk) :
          disk'[i].run = disk'[j].run => (i < j <=> disk'[i].n < disk'[j].n)
    BY <1>1 DEF TrailInv, OrderInv
  <2>2. \A i \in 1..Len(disk) : disk'[i].run = e.run => disk'[i].n < e.n
    BY <1>1, <1>2, <1>4
  <2>3. \A i \in 1..Len(disk') : i # Len(disk) + 1 => i \in 1..Len(disk) /\ i < Len(disk) + 1
    BY <1>1
  <2>4. \A i \in 1..Len(disk') : disk'[i].n \in Nat
    BY <1>1, RecFacts
  <2>5. ASSUME NEW i \in 1..Len(disk'), NEW j \in 1..Len(disk'), disk'[i].run = disk'[j].run
        PROVE  i < j <=> disk'[i].n < disk'[j].n
    <3>1. CASE i \in 1..Len(disk) /\ j \in 1..Len(disk)
      BY <2>1, <2>5, <3>1
    <3>2. CASE i \in 1..Len(disk) /\ j = Len(disk) + 1
      BY <1>1, <2>2, <2>3, <2>5, <3>2
    <3>3. CASE i = Len(disk) + 1 /\ j \in 1..Len(disk)
      BY <1>1, <2>2, <2>4, <2>5, <3>3
    <3>4. CASE i = Len(disk) + 1 /\ j = Len(disk) + 1
      BY <1>1, <2>4, <3>4
    <3>. QED
      BY <2>3, <3>1, <3>2, <3>3, <3>4
  <2>. QED
    BY <2>5 DEF OrderInv
<1>6. GapInv'
  <2>1. ASSUME NEW i \in 1..Len(disk), NEW m \in 1..disk[i].n
        PROVE  \E j \in 1..Len(disk') : disk'[j].run = disk'[i].run /\ disk'[j].n = m
    BY <1>1, <2>1 DEF TrailInv, GapInv
  <2>2. ASSUME NEW m \in 1..e.n PROVE \E j \in 1..Len(disk') : disk'[j].run = r /\ disk'[j].n = m
    <3>1. CASE m = e.n
      BY <1>1, <3>1
    <3>2. CASE m # e.n
      <4>1. m \in 1..appended[r]
        BY <1>2, <3>2
      <4>. QED
        BY <1>1, <1>4, <4>1
    <3>. QED
      BY <3>1, <3>2
  <2>. QED
    BY <1>1, <2>1, <2>2 DEF GapInv
<1>7. ASSUME NEW q \in AuditRuns \ {r} PROVE RecordsInv(q)'
  <2>1. RecordsInv(q) /\ appended'[q] = appended[q] /\ appender'[q] = appender[q]
    BY <1>2, <1>3 DEF TrailInv
  <2>2. \A i \in 1..Len(disk') : disk'[i].run = q => disk'[i].n \in 1..appended[q]
    <3>1. \A i \in 1..Len(disk) : disk'[i].run = q => disk'[i].n \in 1..appended[q]
      BY <1>1, <2>1 DEF RecordsInv
    <3>2. disk'[Len(disk) + 1].run # q /\ \A i \in 1..Len(disk') : i \in 1..Len(disk) \/ i = Len(disk) + 1
      BY <1>1
    <3>. QED
      BY <3>1, <3>2
  <2>3. /\ \A i \in 1..Len(disk) : i \in 1..Len(disk') /\ disk'[i] = disk[i]
        /\ \A i \in 1..kept : disk'[i] = disk[i]
    BY <1>1 DEF TrailInv
  <2>4. ASSUME appender[q] = "open", NEW m \in 1..appended[q]
        PROVE  \E i \in 1..Len(disk') : disk'[i].run = q /\ disk'[i].n = m
    <3>1. PICK i \in 1..Len(disk) : disk[i].run = q /\ disk[i].n = m
      BY <2>1, <2>4 DEF RecordsInv
    <3>. QED
      BY <2>3, <3>1
  <2>5. ASSUME appender[q] = "closed", NEW m \in 1..appended[q]
        PROVE  \E i \in 1..kept' : disk'[i].run = q /\ disk'[i].n = m
    <3>1. PICK i \in 1..kept : disk[i].run = q /\ disk[i].n = m
      BY <2>1, <2>5 DEF RecordsInv
    <3>. QED
      BY <2>3, <3>1
  <2>6. appended[q] \in Nat /\ (appender[q] = "none" => appended[q] = 0)
    BY <2>1 DEF RecordsInv
  <2>. QED
    BY <2>1, <2>2, <2>4, <2>5, <2>6 DEF RecordsInv
<1>8. RecordsInv(r)'
  <2>1. \A i \in 1..Len(disk') : disk'[i].run = r => disk'[i].n \in 1..appended'[r]
    BY <1>1, <1>2, <1>4
  <2>2. ASSUME NEW m \in 1..appended'[r] PROVE \E i \in 1..Len(disk') : disk'[i].run = r /\ disk'[i].n = m
    <3>1. CASE m = appended[r] + 1
      BY <1>1, <3>1
    <3>2. CASE m # appended[r] + 1
      <4>1. m \in 1..appended[r]
        BY <1>2, <3>2
      <4>. QED
        BY <1>1, <1>4, <4>1
    <3>. QED
      BY <3>1, <3>2
  <2>3. appended'[r] \in Nat /\ appender'[r] # "none" /\ appender'[r] # "closed"
    BY <1>2, <1>3
  <2>. QED
    BY <2>1, <2>2, <2>3 DEF RecordsInv
<1>. QED
  BY <1>1, <1>2, <1>3, <1>5, <1>6, <1>7, <1>8 DEF TrailInv

(* Steps that leave the records of the file alone. *)
LEMMA SameTrailInv ==
    ASSUME TrailInv, disk' = disk, kept' \in kept..Len(disk),
           appender' \in [AuditRuns -> {"none", "open", "failed", "crashed", "closed"}],
           DOMAIN appended' = AuditRuns,
           \A r \in AuditRuns : appended'[r] = appended[r] \/
                                (appended'[r] = appended[r] + 1 /\ appender'[r] = "failed"),
           \A r \in AuditRuns :
              \/ appender'[r] \in {appender[r], "failed", "crashed"}
              \/ appender[r] = "none" /\ appender'[r] = "open"
              \/ appender[r] = "open" /\ appender'[r] = "closed" /\ kept' = Len(disk)
    PROVE  TrailInv'
<1>1. OrderInv' /\ GapInv'
  BY DEF TrailInv, OrderInv, GapInv
<1>2. Len(disk) \in Nat /\ kept \in Nat /\ kept' \in 0..Len(disk) /\ kept <= kept'
  BY DEF TrailInv
<1>3. ASSUME NEW r \in AuditRuns PROVE RecordsInv(r)'
  <2>1. RecordsInv(r)
    BY DEF TrailInv
  <2>. QED
    BY <1>2, <2>1 DEF RecordsInv
<1>. QED
  BY <1>1, <1>2, <1>3 DEF TrailInv

(* A crash leaves the synced records and some of the others, the last of which *)
(* may be torn.                                                                *)
LEMMA CutInv ==
    ASSUME TrailInv, NEW l \in kept..Len(disk), disk' \in Seq(Rec), Len(disk') = l,
           \A i \in 1..l : disk'[i].run = disk[i].run /\ disk'[i].n = disk[i].n,
           kept' = l, appended' = appended,
           appender' = [r \in AuditRuns |-> IF appender[r] = "open" THEN "crashed" ELSE appender[r]]
    PROVE  TrailInv'
<1>1. /\ Len(disk) \in Nat /\ l \in Nat /\ kept \in Nat /\ kept <= l /\ l <= Len(disk)
      /\ \A i \in 1..Len(disk) : disk[i].n \in Nat
  BY RecFacts DEF TrailInv
<1>2. OrderInv'
  <2>1. \A i, j \in 1..l : /\ i \in 1..Len(disk) /\ j \in 1..Len(disk)
                            /\ disk'[i].run = disk[i].run /\ disk'[i].n = disk[i].n
                            /\ disk'[j].run = disk[j].run /\ disk'[j].n = disk[j].n
    BY <1>1
  <2>2. \A i, j \in 1..l : disk'[i].run = disk'[j].run => (i < j <=> disk'[i].n < disk'[j].n)
    BY <2>1 DEF TrailInv, OrderInv
  <2>. QED
    BY <2>2 DEF OrderInv
<1>3. GapInv'
  <2>1. ASSUME NEW i \in 1..l, NEW m \in 1..disk[i].n
        PROVE  \E j \in 1..l : disk'[j].run = disk'[i].run /\ disk'[j].n = m
    <3>1. i \in 1..Len(disk)
      BY <1>1
    <3>2. PICK j \in 1..Len(disk) : disk[j].run = disk[i].run /\ disk[j].n = m
      BY <3>1 DEF TrailInv, GapInv
    <3>3. ~(i < j)
      BY <1>1, <3>1, <3>2 DEF TrailInv, OrderInv
    <3>4. j \in 1..l
      BY <1>1, <3>1, <3>2, <3>3
    <3>. QED
      BY <3>2, <3>4
  <2>2. ASSUME NEW i \in 1..Len(disk'), NEW m \in 1..disk'[i].n
        PROVE  \E j \in 1..Len(disk') : disk'[j].run = disk'[i].run /\ disk'[j].n = m
    <3>1. i \in 1..l /\ m \in 1..disk[i].n
      BY <2>2
    <3>. QED
      BY <2>1, <3>1
  <2>. QED
    BY <2>2 DEF GapInv
<1>4. ASSUME NEW r \in AuditRuns PROVE RecordsInv(r)'
  <2>1. RecordsInv(r) /\ appended[r] \in Nat
    BY DEF TrailInv, RecordsInv
  <2>2. ASSUME NEW i \in 1..l, disk'[i].run = r PROVE disk'[i].n \in 1..appended[r]
    <3>1. i \in 1..Len(disk) /\ disk[i].run = r
      BY <1>1, <2>2
    <3>. QED
      BY <2>1, <3>1 DEF RecordsInv
  <2>3. appender'[r] # "open" /\ (appender'[r] = "none" => appended[r] = 0)
    BY <2>1 DEF RecordsInv
  <2>4. ASSUME appender'[r] = "closed", NEW m \in 1..appended[r]
        PROVE  \E i \in 1..l : disk'[i].run = r /\ disk'[i].n = m
    <3>1. PICK i \in 1..kept : disk[i].run = r /\ disk[i].n = m
      BY <2>1, <2>4 DEF RecordsInv
    <3>2. i \in 1..l
      BY <1>1
    <3>. QED
      BY <3>1, <3>2
  <2>. QED
    BY <2>1, <2>2, <2>3, <2>4 DEF RecordsInv
<1>5. /\ kept' \in 0..Len(disk') /\ DOMAIN appended' = AuditRuns
      /\ appender' \in [AuditRuns -> {"none", "open", "failed", "crashed", "closed"}]
  BY <1>1 DEF TrailInv
<1>. QED
  BY <1>2, <1>3, <1>4, <1>5 DEF TrailInv

LEMMA TrailNextInv == TrailInv /\ [FileNext]_fileVars => TrailInv'
<1>. SUFFICES ASSUME TrailInv, [FileNext]_fileVars PROVE TrailInv'
  OBVIOUS
<1>1. /\ disk \in Seq(Rec) /\ kept \in 0..Len(disk) /\ Len(disk) \in Nat
      /\ appender \in [AuditRuns -> {"none", "open", "failed", "crashed", "closed"}]
      /\ DOMAIN appended = AuditRuns /\ \A r \in AuditRuns : appended[r] \in Nat
  BY DEF TrailInv, RecordsInv
<1>2. CASE UNCHANGED fileVars \/ ReadFile
  <2>1. UNCHANGED <<disk, kept, appender, appended>>
    BY <1>2 DEF fileVars, ReadFile
  <2>. QED
    BY <1>1, <2>1, SameTrailInv
<1>3. ASSUME NEW r \in AuditRuns, NewWriter(r) \/ syncFile(r) \/ CloseFile(r) PROVE TrailInv'
  BY <1>1, <1>3, SameTrailInv DEF NewWriter, syncFile, CloseFile
<1>4. ASSUME NEW r \in AuditRuns, NEW w \in BOOLEAN, AppendRecord(r, w), kept' = kept,
             appender' = appender \/ appender' = [appender EXCEPT ![r] = "failed"]
      PROVE  TrailInv'
  <2>. DEFINE e == [run |-> r, n |-> appended[r] + 1, whole |-> w]
  <2>1. e \in Rec /\ e.run = r /\ e.n = appended[r] + 1
    <3>1. appended[r] + 1 \in Nat
      BY <1>1
    <3>. QED
      BY <3>1, NewRec
  <2>2. /\ appender[r] = "open" /\ disk' = Append(disk, e)
        /\ appended' = [appended EXCEPT ![r] = @ + 1]
    BY <1>4 DEF AppendRecord
  <2>. HIDE DEF e
  <2>. QED
    BY <1>4, <2>1, <2>2, AppendInv
<1>5. ASSUME NEW r \in AuditRuns, writeOne(r) PROVE TrailInv'
  BY <1>4, <1>5 DEF writeOne
<1>6. ASSUME NEW r \in AuditRuns, writeOneShort(r) PROVE TrailInv'
  <2>1. CASE AppendRecord(r, FALSE)
    BY <1>4, <1>6, <2>1 DEF writeOneShort
  <2>2. CASE appended' = [appended EXCEPT ![r] = @ + 1] /\ UNCHANGED disk
    BY <1>1, <1>6, <2>2, SameTrailInv DEF writeOneShort
  <2>. QED
    BY <1>6, <2>1, <2>2 DEF writeOneShort
<1>7. CASE MachineCrash
  <2>1. PICK k \in kept..Len(disk) :
          \/ disk' = SubSeq(disk, 1, k)
          \/ /\ k < Len(disk)
             /\ disk' = Append(SubSeq(disk, 1, k), [disk[k + 1] EXCEPT !.whole = FALSE])
    BY <1>7 DEF MachineCrash
  <2>2. k \in Nat /\ kept <= k /\ k <= Len(disk)
    BY <1>1
  <2>3. /\ SubSeq(disk, 1, k) \in Seq(Rec) /\ Len(SubSeq(disk, 1, k)) = k
        /\ \A i \in 1..k : SubSeq(disk, 1, k)[i] = disk[i]
    BY <1>1, <2>2
  <2>4. CASE disk' = SubSeq(disk, 1, k)
    <3>1. kept' = k
      BY <1>7, <2>3, <2>4 DEF MachineCrash
    <3>. QED
      BY <1>7, <2>3, <2>4, <3>1, CutInv DEF MachineCrash
  <2>5. CASE /\ k < Len(disk)
             /\ disk' = Append(SubSeq(disk, 1, k), [disk[k + 1] EXCEPT !.whole = FALSE])
    <3>. DEFINE cut == SubSeq(disk, 1, k)
                torn == [disk[k + 1] EXCEPT !.whole = FALSE]
    <3>1. disk[k + 1] \in Rec
      BY <1>1, <2>2, <2>5
    <3>2. torn \in Rec /\ torn.run = disk[k + 1].run /\ torn.n = disk[k + 1].n
      BY <3>1, TornRec
    <3>. HIDE DEF cut, torn
    <3>3. /\ disk' \in Seq(Rec) /\ Len(disk') = k + 1 /\ disk'[k + 1] = torn
          /\ \A i \in 1..k : disk'[i] = disk[i]
      BY <2>2, <2>3, <2>5, <3>2 DEF cut, torn
    <3>4. \A i \in 1..(k + 1) : disk'[i].run = disk[i].run /\ disk'[i].n = disk[i].n
      BY <2>2, <3>2, <3>3
    <3>5. kept' = k + 1 /\ k + 1 \in kept..Len(disk)
      BY <1>1, <1>7, <2>2, <2>5, <3>3 DEF MachineCrash
    <3>. QED
      BY <1>7, <3>3, <3>4, <3>5, CutInv DEF MachineCrash
  <2>. QED
    BY <2>1, <2>4, <2>5
<1>. QED
  BY <1>2, <1>3, <1>5, <1>6, <1>7 DEF FileNext

(* The invariant is inductive, so it holds of every file the runs can leave. *)
THEOREM TrailInvariant == FileSpec => []TrailInv
BY TrailInitInv, TrailNextInv, PTL DEF FileSpec

LEMMA DiskHasNoGap == TrailInv => NoGap(disk)
<1>. SUFFICES ASSUME TrailInv, NEW r \in AuditRuns, NEW i \in OfRun(disk, r)
              PROVE  /\ \A j \in OfRun(disk, r) : j < i <=> disk[j].n < disk[i].n
                     /\ \A m \in 1..disk[i].n : \E j \in OfRun(disk, r) : disk[j].n = m
  BY DEF NoGap
<1>1. DOMAIN disk = 1..Len(disk) /\ i \in 1..Len(disk) /\ disk[i].run = r
  BY DEF TrailInv, OfRun
<1>2. \A j \in OfRun(disk, r) : j < i <=> disk[j].n < disk[i].n
  BY <1>1 DEF TrailInv, OfRun, OrderInv
<1>3. ASSUME NEW m \in 1..disk[i].n PROVE \E j \in OfRun(disk, r) : disk[j].n = m
  <2>1. PICK j \in 1..Len(disk) : disk[j].run = disk[i].run /\ disk[j].n = m
    BY <1>1 DEF TrailInv, GapInv
  <2>2. j \in OfRun(disk, r)
    BY <1>1, <2>1 DEF OfRun
  <2>. QED
    BY <2>1, <2>2
<1>. QED
  BY <1>2, <1>3

(* What ReadFile answers: the file, or an error. *)
LEMMA ReadAnswer ==
    ASSUME TrailInv, ReadFile
    PROVE  \/ answer'.events = disk /\ Parses(disk)
           \/ answer'.events = <<>> /\ answer'.kind = "error"
<1>1. CASE answer' = ReadEvents(disk)
  BY <1>1 DEF ReadEvents
<1>2. ASSUME NEW r \in AuditRuns,
             answer' = ReadEvents(Append(disk, [run |-> r, n |-> appended[r] + 1, whole |-> FALSE]))
      PROVE  answer'.events = <<>> /\ answer'.kind = "error"
  <2>. DEFINE e == [run |-> r, n |-> appended[r] + 1, whole |-> FALSE]
              s == Append(disk, e)
  <2>1. e.whole = FALSE
    BY PartRec, Zenon
  <2>2. appended[r] + 1 \in Nat
    BY DEF TrailInv, RecordsInv
  <2>3. e \in Rec
    BY <2>2, NewRec
  <2>. HIDE DEF e
  <2>4. Len(disk) + 1 \in DOMAIN s /\ s[Len(disk) + 1] = e
    BY <2>3 DEF TrailInv
  <2>5. ~Parses(s)
    BY <2>1, <2>4 DEF Parses
  <2>. QED
    BY <1>2, <2>5 DEF ReadEvents, e
<1>. QED
  BY <1>1, <1>2 DEF ReadFile

(* ReadEvents (jsonl.go) after any crashes, torn records and full disks, of     *)
(* any number of runs that append at once: its answer holds of each run the     *)
(* first events, whole, in order and without a gap.                             *)
THEOREM TrailHasNoGap == FileSpec => []AnswersHaveNoGap
<1>1. FileInit => AnswersHaveNoGap
  BY DEF FileInit, NoEvents, AnswersHaveNoGap, NoGap, Parses, OfRun
<1>2. TrailInv /\ AnswersHaveNoGap /\ [FileNext]_fileVars => AnswersHaveNoGap'
  <2>. SUFFICES ASSUME TrailInv, AnswersHaveNoGap, [FileNext]_fileVars PROVE AnswersHaveNoGap'
    OBVIOUS
  <2>1. CASE ReadFile
    <3>1. CASE answer'.events = disk /\ Parses(disk)
      BY <3>1, DiskHasNoGap DEF AnswersHaveNoGap, NoGap, Parses, OfRun
    <3>2. CASE answer'.events = <<>>
      BY <3>2 DEF AnswersHaveNoGap, NoGap, Parses, OfRun
    <3>. QED
      BY <2>1, <3>1, <3>2, ReadAnswer
  <2>2. CASE UNCHANGED answer
    BY <2>2 DEF AnswersHaveNoGap, NoGap, Parses, OfRun
  <2>. QED
    BY <2>1, <2>2 DEF FileNext, fileVars, NewWriter, writeOne, writeOneShort, syncFile, CloseFile,
                      MachineCrash
<1>. QED
  BY <1>1, <1>2, TrailInvariant, PTL DEF FileSpec

(* Every event of a run whose Close succeeded (jsonl.go, drain ends with a     *)
(* sync) is in every later answer of ReadEvents that is not an error.          *)
THEOREM ClosedRunIsAnswered == FileSpec => ClosedIsAnswered
<1>. DEFINE Step == answer' # answer /\ answer'.kind = "events" =>
               \A r \in AuditRuns : appender[r] = "closed" =>
                  {answer'.events[i].n : i \in OfRun(answer'.events, r)} = 1..appended[r]
<1>1. TrailInv /\ [FileNext]_fileVars => [Step]_fileVars
  <2>. SUFFICES ASSUME TrailInv, FileNext, answer' # answer, answer'.kind = "events",
                       NEW r \in AuditRuns, appender[r] = "closed"
                PROVE  {answer'.events[i].n : i \in OfRun(answer'.events, r)} = 1..appended[r]
    OBVIOUS
  <2>1. ReadFile
    BY DEF FileNext, NewWriter, writeOne, writeOneShort, syncFile, CloseFile, MachineCrash
  <2>2. answer'.events = disk
    BY <2>1, ReadAnswer
  <2>3. /\ DOMAIN disk = 1..Len(disk) /\ kept \in 0..Len(disk) /\ Len(disk) \in Nat
        /\ RecordsInv(r)
    BY DEF TrailInv
  <2>4. \A i \in OfRun(disk, r) : disk[i].n \in 1..appended[r]
    BY <2>3 DEF OfRun, RecordsInv
  <2>5. ASSUME NEW m \in 1..appended[r] PROVE \E i \in OfRun(disk, r) : disk[i].n = m
    <3>1. PICK i \in 1..kept : disk[i].run = r /\ disk[i].n = m
      BY <2>3 DEF RecordsInv
    <3>2. i \in OfRun(disk, r)
      BY <2>3, <3>1 DEF OfRun
    <3>. QED
      BY <3>1, <3>2
  <2>. QED
    BY <2>2, <2>4, <2>5
<1>. QED
  BY <1>1, TrailInvariant, PTL DEF FileSpec, ClosedIsAnswered
=============================================================================
