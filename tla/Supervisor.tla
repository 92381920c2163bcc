----------------------------- MODULE Supervisor -----------------------------
(***************************************************************************)
(* RunChild of internal/runtime/child.go: setup hooks, launch of the child  *)
(* in its own process group, the select loop over safety channel, signals,  *)
(* context and wait, and the bounded shutdown.  The process group, hooks,   *)
(* signals and context act on their own.  A timer may fire as soon as it    *)
(* is armed.                                                                *)
(***************************************************************************)
EXTENDS Naturals, FiniteSets

CONSTANTS
    Root, Kids,         \* the root child and what may be forked in its group
    MaxPrelaunch,       \* prelaunch hooks
    SignalBuffer        \* capacity of the signal channel, 16 in the code

ASSUME KidsAssumption == IsFiniteSet(Kids) /\ Root \notin Kids
ASSUME BoundsAssumption == MaxPrelaunch \in Nat /\ SignalBuffer \in Nat \ {0}

Pids == {Root} \cup Kids

ExitStartup == 78
ExitSafety == 70
ExitExec == 126

(* What command.Wait may report, and the code that statusResult makes of it. *)
Statuses == {"exit0", "exit126", "signal9", "signal15", "lost"}
CodeOf == [exit0 |-> 0, exit126 |-> 126, signal9 |-> 128 + 9, signal15 |-> 128 + 15,
           lost |-> ExitSafety]

HookConfigs == [start : BOOLEAN, safety : BOOLEAN, drain : BOOLEAN, cleanup : BOOLEAN]

VARIABLES
    argv,           \* a command was given
    hooks,          \* the hooks that are not nil
    pc,
    prelaunch,      \* prelaunch hooks still to run
    cancelled,      \* ctx.Err() # nil
    proc,           \* members of the group: "none", "alive", "doomed" (SIGKILL sent), "gone"
    status,         \* how the root ended
    wait,           \* the wait channel: "empty", "full", "taken"
    safety,         \* "nil", "open", "failure", "closed"
    installed,      \* signals are caught
    signals,        \* signals in the channel
    terminal,       \* "none", "kordn", "child": who is in the foreground, if handed over at all
    drain, cleanup, \* "off", "running", "ok", "failed"
    cleanups,       \* calls of the cleanup hook
    code, safetyFailure, started,
    cause           \* the error that RunChild returns after a launch

childVars == <<proc, status>>
hookVars == <<drain, cleanup, cleanups>>
resultVars == <<code, safetyFailure, started, cause>>
vars == <<argv, hooks, pc, prelaunch, cancelled, childVars, wait, safety, installed, signals,
          terminal, hookVars, resultVars>>

Setup == {"begin", "prelaunch", "start", "recheck"}
Stages == Setup \cup {"prepare", "install", "exec", "abort", "select", "grace", "grace2",
                      "sweep", "finish", "drain", "cleanup", "done", "killed"}

TypeOK ==
    /\ argv \in BOOLEAN
    /\ hooks \in HookConfigs
    /\ pc \in Stages
    /\ prelaunch \in 0..MaxPrelaunch
    /\ cancelled \in BOOLEAN
    /\ proc \in [Pids -> {"none", "alive", "doomed", "gone"}]
    /\ status \in Statuses \cup {"none"}
    /\ wait \in {"empty", "full", "taken"}
    /\ safety \in {"nil", "open", "failure", "closed"}
    /\ installed \in BOOLEAN
    /\ signals \in 0..SignalBuffer
    /\ terminal \in {"none", "kordn", "child"}
    /\ drain \in {"off", "running", "ok", "failed"}
    /\ cleanup \in {"off", "running", "ok", "failed"}
    /\ cleanups \in 0..1
    /\ code \in {0, ExitStartup, ExitExec, ExitSafety} \cup {CodeOf[s] : s \in Statuses}
    /\ safetyFailure \in BOOLEAN
    /\ started \in BOOLEAN
    /\ cause \in {"none", "terminated", "drain", "cleanup"}

Init ==
    /\ argv \in BOOLEAN
    /\ hooks \in HookConfigs
    /\ pc = "begin"
    /\ prelaunch = MaxPrelaunch
    /\ cancelled \in BOOLEAN
    /\ proc = [p \in Pids |-> "none"]
    /\ status = "none"
    /\ wait = "empty"
    /\ safety = IF hooks.safety THEN "open" ELSE "nil"
    /\ installed = FALSE
    /\ signals = 0
    /\ terminal = "none"
    /\ drain = "off" /\ cleanup = "off" /\ cleanups = 0
    /\ code = 0 /\ safetyFailure = FALSE /\ started = FALSE /\ cause = "none"

-----------------------------------------------------------------------------
(* Setup *)

(* cleanupBeforeLaunch, and the code with which RunChild is to return. *)
Abort(exitCode) ==
    /\ code' = exitCode
    /\ IF hooks.cleanup
         THEN cleanup' = "running" /\ cleanups' = cleanups + 1 /\ pc' = "abort"
         ELSE UNCHANGED <<cleanup, cleanups>> /\ pc' = "done"
    /\ UNCHANGED <<drain, safetyFailure, started, cause>>

Goto(stage) == pc' = stage /\ UNCHANGED <<hookVars, resultVars>>

setupVars == <<argv, hooks, cancelled, childVars, wait, safety, signals>>

Begin ==
    /\ pc = "begin"
    /\ IF ~argv
         THEN /\ code' = ExitStartup /\ pc' = "done"
              /\ UNCHANGED <<hookVars, safetyFailure, started, cause>>
       ELSE IF cancelled THEN Abort(ExitStartup)
       ELSE Goto("prelaunch")
    /\ UNCHANGED <<setupVars, prelaunch, installed, terminal>>

Prelaunch ==
    /\ pc = "prelaunch"
    /\ IF prelaunch = 0
         THEN Goto("start") /\ UNCHANGED prelaunch
         ELSE Goto("prelaunch") /\ prelaunch' = prelaunch - 1
    /\ UNCHANGED <<setupVars, installed, terminal>>

(* A hook returns an error or panics. *)
PrelaunchFail ==
    /\ pc = "prelaunch" /\ prelaunch > 0
    /\ Abort(ExitStartup)
    /\ UNCHANGED <<setupVars, prelaunch, installed, terminal>>

Start ==
    /\ pc = "start"
    /\ Goto("recheck")
    /\ UNCHANGED <<setupVars, prelaunch, installed, terminal>>

StartFail ==
    /\ pc = "start" /\ hooks.start
    /\ Abort(ExitStartup)
    /\ UNCHANGED <<setupVars, prelaunch, installed, terminal>>

(* Mutant: the context is not looked at again after the hooks. *)
RecheckSkipped ==
    /\ pc = "recheck"
    /\ Goto("prepare")
    /\ UNCHANGED <<setupVars, prelaunch, installed, terminal>>

Recheck ==
    /\ pc = "recheck"
    /\ IF cancelled THEN Abort(ExitStartup) ELSE Goto("prepare")
    /\ UNCHANGED <<setupVars, prelaunch, installed, terminal>>

(* Kordn is in the foreground of a terminal that all streams use, or not. *)
prepareTerminal ==
    /\ pc = "prepare"
    /\ terminal' \in {"none", "kordn"}
    /\ Goto("install")
    /\ UNCHANGED <<setupVars, prelaunch, installed>>

newSignalForwarder ==
    /\ pc = "install"
    /\ installed' = TRUE
    /\ Goto("exec")
    /\ UNCHANGED <<setupVars, prelaunch, terminal>>

Exec ==
    /\ pc = "exec"
    /\ proc' = [proc EXCEPT ![Root] = "alive"]
    /\ terminal' = IF terminal = "kordn" THEN "child" ELSE terminal
    /\ started' = TRUE
    /\ pc' = "select"
    /\ UNCHANGED <<argv, hooks, prelaunch, cancelled, status, wait, safety, installed, signals,
                   hookVars, code, safetyFailure, cause>>

(* The foreground may have been handed over before exec failed; restore.    *)
ExecFail ==
    /\ pc = "exec"
    /\ Abort(ExitExec)
    /\ UNCHANGED <<setupVars, prelaunch, installed, terminal>>

(* runBounded ends with the hook or with its timer. *)
AbortEnd ==
    /\ pc = "abort"
    /\ Goto("done")
    /\ UNCHANGED <<setupVars, prelaunch, installed, terminal>>

-----------------------------------------------------------------------------
(* The select loop.  terminateProcessGroup sends SIGTERM, which members may  *)
(* ignore; forceKillProcessGroup sends SIGKILL to all of them at once.       *)

groupVars == <<argv, hooks, prelaunch, installed>>

Kill == proc' = [p \in Pids |-> IF proc[p] = "alive" THEN "doomed" ELSE proc[p]]

Terminate ==
    /\ code' = ExitSafety
    /\ safetyFailure' = TRUE
    /\ cause' = "terminated"
    /\ pc' = "grace"
    /\ UNCHANGED <<groupVars, cancelled, childVars, wait, signals, terminal, hookVars, started>>

SelectSafety ==
    /\ pc = "select" /\ safety = "failure"
    /\ Terminate
    /\ safety' = "nil"

SelectSafetyClosed ==
    /\ pc = "select" /\ safety = "closed"
    /\ safety' = "nil"
    /\ UNCHANGED <<groupVars, pc, cancelled, childVars, wait, signals, terminal, hookVars, resultVars>>

SelectCancel ==
    /\ pc = "select" /\ cancelled
    /\ Terminate
    /\ UNCHANGED safety

(* The signal goes to the group; what it does there is up to the members. *)
SelectSignal ==
    /\ pc = "select" /\ signals > 0
    /\ signals' = signals - 1
    /\ UNCHANGED <<groupVars, pc, cancelled, childVars, wait, safety, terminal, hookVars, resultVars>>

(* Mutant: the child has ended and finishChild is left out. *)
SelectWaitReturns ==
    /\ pc = "select" /\ wait = "full"
    /\ wait' = "taken"
    /\ code' = CodeOf[status]
    /\ pc' = "done"
    /\ UNCHANGED <<groupVars, cancelled, childVars, safety, signals, terminal, hookVars, started,
                   cause, safetyFailure>>

(* statusResult *)
SelectWait ==
    /\ pc = "select" /\ wait = "full"
    /\ wait' = "taken"
    /\ code' = CodeOf[status]
    /\ safetyFailure' = (status = "lost")
    /\ pc' = "finish"
    /\ UNCHANGED <<groupVars, cancelled, childVars, safety, signals, terminal, hookVars, started,
                   cause>>

(* waitForChild *)
GraceWait ==
    /\ pc \in {"grace", "grace2"} /\ wait = "full"
    /\ wait' = "taken"
    /\ pc' = "sweep"
    /\ UNCHANGED <<groupVars, cancelled, childVars, safety, signals, terminal, hookVars, resultVars>>

GraceTimeout ==
    /\ pc = "grace"
    /\ Kill
    /\ pc' = "grace2"
    /\ UNCHANGED <<groupVars, cancelled, status, wait, safety, signals, terminal, hookVars, resultVars>>

Grace2Timeout ==
    /\ pc = "grace2"
    /\ pc' = "sweep"
    /\ UNCHANGED <<groupVars, cancelled, childVars, wait, safety, signals, terminal, hookVars, resultVars>>

(* Mutant: descendants are left alone once the root has been waited for. *)
SweepRootOnly ==
    /\ pc = "sweep"
    /\ pc' = "finish"
    /\ UNCHANGED <<groupVars, cancelled, childVars, wait, safety, signals, terminal, hookVars, resultVars>>

(* The last forceKillProcessGroup, for descendants. *)
Sweep ==
    /\ pc = "sweep"
    /\ Kill
    /\ pc' = "finish"
    /\ UNCHANGED <<groupVars, cancelled, status, wait, safety, signals, terminal, hookVars, resultVars>>

-----------------------------------------------------------------------------
(* finishChild *)

finishVars == <<groupVars, cancelled, childVars, wait, safety, signals>>

(* The way into the cleanup hook, or past it. *)
StartCleanup ==
    IF hooks.cleanup
      THEN cleanup' = "running" /\ cleanups' = cleanups + 1 /\ pc' = "cleanup"
      ELSE UNCHANGED <<cleanup, cleanups>> /\ pc' = "done"

Finish ==
    /\ pc = "finish"
    /\ terminal' = IF terminal = "child" THEN "kordn" ELSE terminal
    /\ IF hooks.drain
         THEN drain' = "running" /\ pc' = "drain" /\ UNCHANGED <<cleanup, cleanups>>
         ELSE StartCleanup /\ UNCHANGED drain
    /\ UNCHANGED <<finishVars, resultVars>>

(* An error of a hook replaces the result unless it is a safety failure already. *)
Replace(failed, hook) ==
    /\ IF failed /\ ~safetyFailure
         THEN code' = ExitSafety /\ safetyFailure' = TRUE /\ cause' = hook
         ELSE UNCHANGED <<code, safetyFailure, cause>>
    /\ UNCHANGED started

(* Mutant: a drain that fails is not recorded. *)
DrainEndSilent ==
    /\ pc = "drain"
    /\ StartCleanup
    /\ UNCHANGED <<finishVars, terminal, drain, resultVars>>

(* The drain hook has answered, or its context has expired. *)
DrainEnd ==
    /\ pc = "drain"
    /\ Replace(drain # "ok", "drain")
    /\ StartCleanup
    /\ UNCHANGED <<finishVars, terminal, drain>>

(* Mutant: RunChild waits for the cleanup hook without a timer. *)
CleanupEndUnbounded ==
    /\ pc = "cleanup" /\ cleanup # "running"
    /\ Replace(cleanup # "ok", "cleanup")
    /\ pc' = "done"
    /\ UNCHANGED <<finishVars, terminal, hookVars>>

CleanupEnd ==
    /\ pc = "cleanup"
    /\ Replace(cleanup # "ok", "cleanup")
    /\ pc' = "done"
    /\ UNCHANGED <<finishVars, terminal, hookVars>>

-----------------------------------------------------------------------------
(* Surroundings *)

supervisorVars == <<argv, hooks, prelaunch, installed, terminal, cleanups, resultVars>>

Cancel ==
    /\ ~cancelled /\ pc \notin {"done", "killed"}
    /\ cancelled' = TRUE
    /\ UNCHANGED <<supervisorVars, pc, childVars, wait, safety, signals, drain, cleanup>>

(* SIGINT or SIGTERM for Kordn.  Caught, it goes to the channel or is lost   *)
(* when that is full; before that it ends Kordn.                             *)
Signal ==
    /\ pc \notin {"done", "killed"}
    /\ IF installed
         THEN signals < SignalBuffer /\ signals' = signals + 1 /\ UNCHANGED pc
         ELSE pc' = "killed" /\ UNCHANGED signals
    /\ UNCHANGED <<supervisorVars, cancelled, childVars, wait, safety, drain, cleanup>>

SafetyMonitor ==
    /\ safety = "open" /\ pc \notin {"done", "killed"}
    /\ safety' \in {"failure", "closed"}
    /\ UNCHANGED <<supervisorVars, pc, cancelled, childVars, wait, signals, drain, cleanup>>

Fork ==
    /\ \E p \in Pids : proc[p] = "alive"
    /\ \E k \in Kids : proc[k] = "none" /\ proc' = [proc EXCEPT ![k] = "alive"]
    /\ UNCHANGED <<supervisorVars, pc, cancelled, status, wait, safety, signals, drain, cleanup>>

Exit(p) ==
    /\ proc[p] \in {"alive", "doomed"}
    /\ IF p = Root
         THEN status' \in IF proc[p] = "doomed" THEN {"signal9"} ELSE Statuses
         ELSE UNCHANGED status
    /\ proc' = [proc EXCEPT ![p] = "gone"]
    /\ UNCHANGED <<supervisorVars, pc, cancelled, wait, safety, signals, drain, cleanup>>

(* The goroutine in command.Wait. *)
Reap ==
    /\ proc[Root] = "gone" /\ wait = "empty"
    /\ wait' = "full"
    /\ UNCHANGED <<supervisorVars, pc, cancelled, childVars, safety, signals, drain, cleanup>>

(* A hook returns, whether it is still waited for or not. *)
HookReturns ==
    /\ \/ drain = "running" /\ drain' \in {"ok", "failed"} /\ UNCHANGED cleanup
       \/ cleanup = "running" /\ cleanup' \in {"ok", "failed"} /\ UNCHANGED drain
    /\ UNCHANGED <<supervisorVars, pc, cancelled, childVars, wait, safety, signals>>

SetupStep == \/ Begin \/ Prelaunch \/ PrelaunchFail \/ Start \/ StartFail \/ Recheck
             \/ prepareTerminal \/ newSignalForwarder \/ Exec \/ ExecFail \/ AbortEnd

ShutdownStep == \/ GraceWait \/ GraceTimeout \/ Grace2Timeout \/ Sweep
                \/ Finish \/ DrainEnd \/ CleanupEnd

Next ==
    \/ SetupStep \/ ShutdownStep
    \/ SelectSafety \/ SelectSafetyClosed \/ SelectCancel \/ SelectSignal \/ SelectWait
    \/ Cancel \/ Signal \/ SafetyMonitor \/ Fork \/ Reap \/ HookReturns
    \/ \E p \in Pids : Exit(p)

Spec == Init /\ [][Next]_vars

(* select picks among the ready cases at random, so none of them is passed   *)
(* over for ever; timers fire; the Wait goroutine runs.  Hooks, members of   *)
(* the group and the setup owe nothing.                                      *)
Fairness ==
    /\ WF_vars(SelectSafety) /\ WF_vars(SelectCancel) /\ WF_vars(SelectWait)
    /\ WF_vars(ShutdownStep) /\ WF_vars(Reap)

FairSpec == Spec /\ Fairness
-----------------------------------------------------------------------------
(* Properties *)

Ended == {"finish", "drain", "cleanup", "done"}

(* "cancellation during setup still guarantees no child launch": once the    *)
(* context is cancelled while hooks run, no child is ever started.           *)
CancelledSetupNeverLaunches ==
    [](cancelled /\ pc \in Setup => [](proc[Root] = "none"))

(* When a safety failure or a cancellation ends the run, every member of the *)
(* group has at least been sent SIGKILL by the time the hooks run: no        *)
(* descendant survives, not even one forked during the grace period.         *)
GroupIsDoomed ==
    pc \in Ended /\ cause = "terminated" => \A p \in Pids : proc[p] # "alive"

(* RunChild's result tells what happened, however the run ended.  Hooks run  *)
(* only when the child is over or doomed and Kordn is back in the foreground *)
(* of the terminal.  "On successful startup, the root child's exit status or *)
(* terminating signal is preserved": unless a safety failure is reported,    *)
(* the code is the child's and the hooks have succeeded.  A start that       *)
(* failed has one of its two codes, a safety failure has its own, and on     *)
(* each path with a command the cleanup hook is called exactly once.         *)
ResultIsHonest ==
    /\ drain # "off" \/ cleanup # "off" => proc[Root] # "alive" /\ terminal # "child"
    /\ pc = "done" /\ started /\ ~safetyFailure =>
          /\ status # "none" /\ code = CodeOf[status]
          /\ drain \in {"off", "ok"} /\ cleanup \in {"off", "ok"}
    /\ pc = "done" =>
          /\ ~started => code \in {ExitStartup, ExitExec} /\ ~safetyFailure
          /\ safetyFailure => code = ExitSafety
          /\ cleanups = IF argv /\ hooks.cleanup THEN 1 ELSE 0

(* However the group and the hooks behave, RunChild returns after the root   *)
(* has ended, the context was cancelled or a safety failure was reported.    *)
ShutdownIsBounded ==
    started /\ (cancelled \/ safety = "failure" \/ proc[Root] = "gone") ~> pc = "done"

(* RunChild as its caller sees it. *)
Lifecycle ==
    INSTANCE ChildLifecycle WITH
        ChildCodes <- {CodeOf[s] : s \in Statuses},
        StartCodes <- {ExitStartup, ExitExec},
        SafetyCode <- ExitSafety,
        launched <- started,
        phase <- IF pc \in Setup \cup {"prepare", "install", "exec"} THEN "setup"
                 ELSE IF pc \in {"select", "grace", "grace2", "sweep"} THEN "running"
                 ELSE IF pc \in {"abort", "finish", "drain", "cleanup"} THEN "closing"
                 ELSE IF pc = "done" THEN "returned" ELSE "killed",
        code <- IF pc \in {"select", "grace", "grace2", "sweep"} THEN 0 ELSE code

(* RunChild keeps the promises of ChildLifecycle. *)
Lifecycle_Spec == Lifecycle!LifecycleSpec
=============================================================================
