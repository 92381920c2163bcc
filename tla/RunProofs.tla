----------------------------- MODULE RunProofs ------------------------------
(***************************************************************************)
(* Proofs about a run and about the supervisor of its child, for any       *)
(* requests, signals, failures and crashes.                                *)
(***************************************************************************)
EXTENDS Run, Supervisor, TLAPS

(* The supervisor *)

Before == Setup \cup {"prepare", "install", "exec"}
Running == {"select", "grace", "grace2", "sweep"}
Closing == {"finish", "drain", "cleanup"}
NoneAlive == \A p \in Pids : proc[p] # "alive"

(* Where RunChild is, against what it knows of the child.  From the install *)
(* of the signal forwarder on no signal ends Kordn, so a child that was     *)
(* started is never left.                                                   *)
LaunchInv ==
    /\ pc \in Stages
    /\ pc \in Before \cup {"abort", "killed"} => started = FALSE
    /\ pc \in Running \cup Closing => started = TRUE /\ installed = TRUE
    /\ started = FALSE => (\A p \in Pids : proc[p] = "none") /\ terminal # "child"
    /\ pc = "exec" => installed = TRUE
    /\ pc \notin {"begin", "done", "killed"} => argv = TRUE

(* The members of the group, how the root ended and whether it was waited for. *)
GroupInv ==
    /\ proc \in [Pids -> {"none", "alive", "doomed", "gone"}]
    /\ status \in Statuses \cup {"none"}
    /\ proc[Root] = "gone" <=> status # "none"
    /\ wait # "empty" => proc[Root] = "gone"
    /\ pc \in Closing \cup {"done", "abort"} => proc[Root] # "alive"
    /\ pc \in Closing \cup {"done"} /\ cause = "terminated" => NoneAlive

(* A hook runs in its own stage, once; the terminal is back by then. *)
HookInv ==
    /\ pc \in Before \cup Running \cup {"finish", "drain"} => cleanup = "off" /\ cleanups = 0
    /\ pc \in Before \cup Running \cup {"finish", "abort"} => drain = "off"
    /\ pc \in {"abort", "cleanup"} => cleanups = 1 /\ hooks.cleanup
    /\ pc = "done" => cleanups = IF argv /\ hooks.cleanup THEN 1 ELSE 0
    /\ pc \in {"drain", "cleanup", "done"} => terminal # "child"

(* The result so far. *)
ResultInv ==
    /\ pc \in Before => code = 0
    /\ pc \in Before \cup {"abort", "select"} => cause = "none" /\ safetyFailure = FALSE
    /\ pc = "abort" => code \in {ExitStartup, ExitExec}
    /\ pc \in {"grace", "grace2", "sweep"} => cause = "terminated" /\ safetyFailure = TRUE
    /\ pc \in Running \cup Closing \cup {"done"} /\ safetyFailure = TRUE => code = ExitSafety
    /\ pc \in Closing \cup {"done"} /\ started = TRUE /\ safetyFailure = FALSE =>
          status # "none" /\ code = CodeOf[status]
    /\ pc \in {"cleanup", "done"} /\ started = TRUE /\ safetyFailure = FALSE =>
          drain \in {"off", "ok"}
    /\ pc = "done" /\ started = TRUE /\ safetyFailure = FALSE => cleanup \in {"off", "ok"}
    /\ pc = "done" /\ started = FALSE =>
          code \in {ExitStartup, ExitExec} /\ safetyFailure = FALSE /\ cause = "none"

FlagsInv == {started, safetyFailure, installed, argv} \subseteq BOOLEAN

SupInv == LaunchInv /\ GroupInv /\ HookInv /\ ResultInv /\ FlagsInv

LEMMA SupInitInv == Init => SupInv
<1>. SUFFICES ASSUME Init PROVE SupInv
  OBVIOUS
<1>. USE DEF Init, Before, Running, Closing, Setup, Stages, Pids
<1>1. LaunchInv
  BY DEF LaunchInv
<1>2. GroupInv
  BY DEF GroupInv, NoneAlive, Statuses
<1>3. HookInv /\ ResultInv /\ FlagsInv
  BY DEF HookInv, ResultInv, FlagsInv
<1>. QED
  BY <1>1, <1>2, <1>3 DEF SupInv

(* The setup, up to the launch or to a refusal. *)
LEMMA SetupInv == ASSUME SupInv, SetupStep PROVE SupInv'
<1>. USE KidsAssumption
     DEF SupInv, LaunchInv, GroupInv, HookInv, ResultInv, FlagsInv, NoneAlive, Before, Running,
         Closing, Setup, Stages, Pids, Statuses, CodeOf, childVars, hookVars, resultVars, setupVars
<1>1. CASE Begin
  BY <1>1 DEF Begin, Abort, Goto
<1>2. CASE Prelaunch
  BY <1>2 DEF Prelaunch, Goto
<1>3. CASE PrelaunchFail
  BY <1>3 DEF PrelaunchFail, Abort
<1>4. CASE Start
  BY <1>4 DEF Start, Goto
<1>5. CASE StartFail
  BY <1>5 DEF StartFail, Abort
<1>6. CASE Recheck
  BY <1>6 DEF Recheck, Abort, Goto
<1>7. CASE prepareTerminal
  BY <1>7 DEF prepareTerminal, Goto
<1>8. CASE newSignalForwarder
  BY <1>8 DEF newSignalForwarder, Goto
<1>9. CASE Exec
  BY <1>9 DEF Exec
<1>10. CASE ExecFail
  BY <1>10 DEF ExecFail, Abort
<1>11. CASE AbortEnd
  BY <1>11 DEF AbortEnd, Goto
<1>. QED
  BY <1>1, <1>2, <1>3, <1>4, <1>5, <1>6, <1>7, <1>8, <1>9, <1>10, <1>11 DEF SetupStep

(* The select loop.  What it takes from the wait channel is the status of a  *)
(* root that is gone; what it ends by itself it records as terminated first. *)
LEMMA SelectInv ==
    ASSUME SupInv, SelectSafety \/ SelectSafetyClosed \/ SelectCancel \/ SelectSignal \/ SelectWait
    PROVE  SupInv'
<1>. USE KidsAssumption
     DEF SupInv, LaunchInv, GroupInv, HookInv, ResultInv, FlagsInv, NoneAlive, Before, Running,
         Closing, Setup, Stages, Pids, Statuses, CodeOf, childVars, hookVars, resultVars, groupVars
<1>1. CASE SelectSafety
  BY <1>1 DEF SelectSafety, Terminate
<1>2. CASE SelectSafetyClosed
  BY <1>2 DEF SelectSafetyClosed
<1>3. CASE SelectCancel
  BY <1>3 DEF SelectCancel, Terminate
<1>4. CASE SelectSignal
  BY <1>4 DEF SelectSignal
<1>5. CASE SelectWait
  BY <1>5 DEF SelectWait
<1>. QED
  BY <1>1, <1>2, <1>3, <1>4, <1>5

(* The bounded shutdown.  The last kill is what dooms the group: the root may  *)
(* end on SIGTERM while members that ignore it live on and fork.               *)
LEMMA ShutdownInv == ASSUME SupInv, ShutdownStep PROVE SupInv'
<1>. USE KidsAssumption
     DEF SupInv, LaunchInv, GroupInv, HookInv, ResultInv, FlagsInv, NoneAlive, Before, Running,
         Closing, Setup, Stages, Pids, Statuses, CodeOf, childVars, hookVars, resultVars,
         groupVars, finishVars
<1>1. CASE GraceWait
  BY <1>1 DEF GraceWait
<1>2. CASE GraceTimeout
  BY <1>2 DEF GraceTimeout, Kill
<1>3. CASE Grace2Timeout
  BY <1>3 DEF Grace2Timeout
<1>4. CASE Sweep
  BY <1>4 DEF Sweep, Kill
<1>5. CASE Finish
  BY <1>5 DEF Finish, StartCleanup
<1>6. CASE DrainEnd
  <2>1. CASE drain # "ok" /\ safetyFailure = FALSE
    BY <1>6, <2>1 DEF DrainEnd, Replace, StartCleanup
  <2>2. CASE drain = "ok" \/ safetyFailure = TRUE
    BY <1>6, <2>2 DEF DrainEnd, Replace, StartCleanup
  <2>. QED
    BY <2>1, <2>2
<1>7. CASE CleanupEnd
  <2>1. CASE cleanup # "ok" /\ safetyFailure = FALSE
    BY <1>7, <2>1 DEF CleanupEnd, Replace
  <2>2. CASE cleanup = "ok" \/ safetyFailure = TRUE
    BY <1>7, <2>2 DEF CleanupEnd, Replace
  <2>. QED
    BY <2>1, <2>2
<1>. QED
  BY <1>1, <1>2, <1>3, <1>4, <1>5, <1>6, <1>7 DEF ShutdownStep

(* Context, signals, safety monitor, group and hooks.  A hook that returns after *)
(* its time was up finds its failure recorded.                                    *)
LEMMA SurroundingInv ==
    ASSUME SupInv, Cancel \/ Signal \/ SafetyMonitor \/ Fork \/ Reap \/ HookReturns
    PROVE  SupInv'
<1>. USE KidsAssumption
     DEF SupInv, LaunchInv, GroupInv, HookInv, ResultInv, FlagsInv, NoneAlive, Before, Running,
         Closing, Setup, Stages, Pids, Statuses, CodeOf, childVars, hookVars, resultVars,
         supervisorVars
<1>1. CASE Cancel
  BY <1>1 DEF Cancel
<1>2. CASE Signal
  BY <1>2 DEF Signal
<1>3. CASE SafetyMonitor
  BY <1>3 DEF SafetyMonitor
<1>4. CASE Fork
  BY <1>4 DEF Fork
<1>5. CASE Reap
  BY <1>5 DEF Reap
<1>6. CASE HookReturns
  BY <1>6 DEF HookReturns
<1>. QED
  BY <1>1, <1>2, <1>3, <1>4, <1>5, <1>6

LEMMA ExitInv == ASSUME SupInv, NEW p \in Pids, Exit(p) PROVE SupInv'
BY KidsAssumption
DEF SupInv, LaunchInv, GroupInv, HookInv, ResultInv, FlagsInv, NoneAlive, Before, Running,
    Closing, Setup, Stages, Pids, Statuses, CodeOf, childVars, hookVars, resultVars,
    Exit, supervisorVars

LEMMA SupNextInv == SupInv /\ [Next]_vars => SupInv'
<1>1. ASSUME SupInv, UNCHANGED vars PROVE SupInv'
  BY <1>1 DEF SupInv, LaunchInv, GroupInv, HookInv, ResultInv, FlagsInv, NoneAlive, vars,
              childVars, hookVars, resultVars
<1>. QED
  BY <1>1, SetupInv, SelectInv, ShutdownInv, SurroundingInv, ExitInv DEF Next

(* The invariant is inductive, so it holds in every reachable state. *)
THEOREM SupInvariant == Spec => []SupInv
BY SupInitInv, SupNextInv, PTL DEF Spec

(* When RunChild ended the run itself (child.go, the select loop), no        *)
(* member of the group, forked at any time, is alive and unkilled once       *)
(* finishChild runs.                                                         *)
THEOREM Doomed == Spec => []GroupIsDoomed
<1>1. SupInv => GroupIsDoomed
  BY DEF SupInv, GroupInv, NoneAlive, GroupIsDoomed, Ended, Closing
<1>. QED
  BY <1>1, SupInvariant, PTL

(* The result of RunChild (child.go, statusResult, finishChild and           *)
(* cleanupBeforeLaunch) tells what happened to child and hooks, for any      *)
(* group, hooks and order of events, late answers of hooks included.         *)
THEOREM HonestResult == Spec => []ResultIsHonest
<1>1. ASSUME SupInv PROVE ResultIsHonest
  <2>. USE <1>1 DEF SupInv, Before, Running, Closing, Setup, Stages
  <2>1. drain # "off" \/ cleanup # "off" => proc[Root] # "alive" /\ terminal # "child"
    BY DEF LaunchInv, GroupInv, HookInv, Pids
  <2>2. pc = "done" /\ started /\ ~safetyFailure =>
          /\ status # "none" /\ code = CodeOf[status]
          /\ drain \in {"off", "ok"} /\ cleanup \in {"off", "ok"}
    BY DEF ResultInv, FlagsInv
  <2>3. pc = "done" =>
          /\ ~started => code \in {ExitStartup, ExitExec} /\ ~safetyFailure
          /\ safetyFailure => code = ExitSafety
          /\ cleanups = IF argv /\ hooks.cleanup THEN 1 ELSE 0
    BY DEF ResultInv, HookInv, FlagsInv
  <2>. QED
    BY <2>1, <2>2, <2>3 DEF ResultIsHonest
<1>. QED
  BY <1>1, SupInvariant, PTL

(* What a cancellation during the setup leads to, and never leaves again. *)
CancelledInv ==
    /\ cancelled = TRUE
    /\ pc \in Setup \cup {"abort", "done", "killed"}
    /\ started = FALSE
    /\ proc = [p \in Pids |-> "none"]

(* A context that is cancelled while hooks run (child.go, the second look at *)
(* ctx.Err) means that no child is started, then or later.                   *)
THEOREM NoLaunchAfterCancel == Spec => CancelledSetupNeverLaunches
<1>1. SupInv /\ cancelled /\ pc \in Setup => CancelledInv
  BY DEF SupInv, LaunchInv, GroupInv, CancelledInv, Before
<1>2. CancelledInv /\ [Next]_vars => CancelledInv'
  <2>. SUFFICES ASSUME CancelledInv, [Next]_vars PROVE CancelledInv'
    OBVIOUS
  <2>. USE DEF CancelledInv, Setup, Pids, vars, childVars, hookVars, resultVars
  <2>1. CASE UNCHANGED vars
    BY <2>1
  <2>2. CASE SetupStep
    BY <2>2 DEF SetupStep, Begin, Prelaunch, PrelaunchFail, Start, StartFail, Recheck,
                prepareTerminal, newSignalForwarder, Exec, ExecFail, AbortEnd, Abort, Goto, setupVars
  <2>3. CASE ShutdownStep
    BY <2>3 DEF ShutdownStep, GraceWait, GraceTimeout, Grace2Timeout, Sweep, Finish, DrainEnd,
                CleanupEnd
  <2>4. CASE SelectSafety \/ SelectSafetyClosed \/ SelectCancel \/ SelectSignal \/ SelectWait
    BY <2>4 DEF SelectSafety, SelectSafetyClosed, SelectCancel, SelectSignal, SelectWait
  <2>5. CASE Cancel \/ Signal \/ SafetyMonitor \/ Reap \/ HookReturns
    BY <2>5 DEF Cancel, Signal, SafetyMonitor, Reap, HookReturns, supervisorVars
  <2>6. CASE Fork \/ \E p \in Pids : Exit(p)
    BY <2>6 DEF Fork, Exit
  <2>. QED
    BY <2>1, <2>2, <2>3, <2>4, <2>5, <2>6 DEF Next
<1>3. CancelledInv => proc[Root] = "none"
  BY DEF CancelledInv, Pids
<1>. QED
  BY <1>1, <1>2, <1>3, SupInvariant, PTL DEF Spec, CancelledSetupNeverLaunches

(* Every step of RunChild is a step of ChildLifecycle, or none for its caller. *)
LEMMA StepRefines ==
    ASSUME SupInv, [Next]_vars
    PROVE  [Lifecycle!LifecycleNext]_(Lifecycle!lifecycleVars)
<1>. USE DEF Lifecycle!LifecycleNext, Lifecycle!lifecycleVars, Setup
<1>1. CASE UNCHANGED vars
  BY <1>1 DEF vars, resultVars
<1>2. CASE Begin \/ PrelaunchFail \/ StartFail \/ Recheck \/ ExecFail
  BY <1>2 DEF Begin, PrelaunchFail, StartFail, Recheck, ExecFail, Abort, Goto, resultVars,
              Lifecycle!Refuse
<1>3. CASE Prelaunch \/ Start \/ prepareTerminal \/ newSignalForwarder
  BY <1>3 DEF Prelaunch, Start, prepareTerminal, newSignalForwarder, Goto, resultVars
<1>4. CASE Exec
  BY <1>4 DEF Exec, Lifecycle!Launch, SupInv, ResultInv, Before
<1>5. CASE AbortEnd
  BY <1>5 DEF AbortEnd, Goto, resultVars, Lifecycle!Return
<1>6. CASE SelectSafety \/ SelectSafetyClosed \/ SelectCancel \/ SelectSignal
  BY <1>6 DEF SelectSafety, SelectSafetyClosed, SelectCancel, SelectSignal, Terminate, resultVars
<1>7. CASE SelectWait
  BY <1>7 DEF SelectWait, Lifecycle!ChildEnds, SupInv, GroupInv
<1>8. CASE GraceWait \/ GraceTimeout \/ Grace2Timeout
  BY <1>8 DEF GraceWait, GraceTimeout, Grace2Timeout, resultVars
<1>9. CASE Sweep
  BY <1>9 DEF Sweep, resultVars, Lifecycle!ChildEnds, SupInv, ResultInv, Running
<1>10. CASE Finish
  BY <1>10 DEF Finish, StartCleanup, resultVars, Lifecycle!Return
<1>11. CASE DrainEnd
  BY <1>11 DEF DrainEnd, Replace, StartCleanup, Lifecycle!Degrade, Lifecycle!Return,
               SupInv, LaunchInv, Closing
<1>12. CASE CleanupEnd
  BY <1>12 DEF CleanupEnd, Replace, Lifecycle!Degrade, Lifecycle!Return,
               SupInv, LaunchInv, Closing
<1>13. CASE Signal
  BY <1>13 DEF Signal, supervisorVars, resultVars, Lifecycle!Perish,
               SupInv, LaunchInv, Running, Closing, Stages
<1>14. CASE Cancel \/ SafetyMonitor \/ Fork \/ Reap \/ HookReturns \/ \E p \in Pids : Exit(p)
  BY <1>14 DEF Cancel, SafetyMonitor, Fork, Reap, HookReturns, Exit, supervisorVars, resultVars
<1>. QED
  BY <1>1, <1>2, <1>3, <1>4, <1>5, <1>6, <1>7, <1>8, <1>9, <1>10, <1>11, <1>12, <1>13, <1>14
  DEF Next, SetupStep, ShutdownStep

(* RunChild implements ChildLifecycle, through which Run sees it: launch only *)
(* after the setup, hooks only after the child, and no signal ends Kordn      *)
(* while a child runs.                                                        *)
THEOREM Refinement == Spec => Lifecycle_Spec
<1>1. Init => Lifecycle!LifecycleInit
  BY DEF Init, Lifecycle!LifecycleInit, Setup
<1>. QED
  BY <1>1, StepRefines, SupInvariant, PTL DEF Spec, Lifecycle_Spec, Lifecycle!LifecycleSpec

-----------------------------------------------------------------------------
(* The run: any requests and any number of runs, each of which may fail at   *)
(* any step or crash.                                                        *)

(* The deferred calls when the audit writer is the last one acquired, and    *)
(* what is left of them as they run.                                         *)
Full == <<"writer", "ca", "remove">>
Unwound == {<<>>, <<"remove">>, <<"ca", "remove">>}

(* What the startup has acquired when it comes to a step. *)
DefersAt(s) == IF s <= 2 THEN <<>> ELSE IF s = 3 THEN <<"remove">>
               ELSE IF s = 4 THEN <<"ca", "remove">> ELSE Full
ServerAt(s) == IF s <= 6 THEN "none" ELSE IF s = 7 THEN "made" ELSE "bound"

StartupInv ==
    stage = "startup" =>
        /\ step \in 1..10
        /\ defers = DefersAt(step)
        /\ server = ServerAt(step)
        /\ step <= 4 => logStatus = "none"
        /\ step >= 6 => startRecorded
        /\ phase = "setup"

StageInv ==
    /\ stage \in {"idle", "startup", "child", "ended", "flush", "unwind", "returned"}
    /\ stage \in {"child", "ended", "flush"} => defers = Full /\ startRecorded
    /\ stage = "unwind" => defers \in Unwound \cup {Full}
    /\ stage = "child" => phase \in {"setup", "running", "closing"}
    /\ stage \in {"ended", "flush"} => phase = "returned"
    /\ stage \in {"idle", "unwind", "returned"} => phase \in {"setup", "returned"}
    /\ stage = "child" => \/ server \in {"serving", "failed"}
                          \/ server = "closed" /\ phase = "closing"

(* The directory is on disk as long as its removal is deferred. *)
RunDirInv ==
    /\ run \in Nat
    /\ dirs \subseteq 1..run
    /\ Alive => run > 0 /\ (run \in dirs <=> defers # <<>>)
    /\ stage = "returned" => run \notin dirs

(* The log is sealed or has failed before its Close is off the stack. *)
LogInv ==
    /\ accepted \in Nat /\ durable \in Nat
    /\ logStatus = "none" => durable = accepted /\ sealed = FALSE
    /\ sealed = TRUE => durable = accepted /\ logStatus # "open"
    /\ sealed \in BOOLEAN
    /\ (Alive /\ defers # Full) \/ stage = "returned" =>
          logStatus \in {"none", "failed"} \/ sealed = TRUE

RunEndInv ==
    stage \in {"ended", "flush", "unwind", "returned"} =>
        \/ server \in {"none", "made", "closed"}
        \/ phase = "returned" /\ (~launched \/ runCode = 70)

RunInv == StartupInv /\ StageInv /\ RunDirInv /\ LogInv /\ RunEndInv

(* Each step of the startup has its place. *)
LEMMA StepNames ==
    ASSUME NEW s \in 1..10
    PROVE  /\ Steps[s] = "load" <=> s = 1
           /\ Steps[s] = "session" <=> s = 2
           /\ Steps[s] = "ca" <=> s = 3
           /\ Steps[s] = "writer" <=> s = 4
           /\ Steps[s] = "run_started" <=> s = 5
           /\ Steps[s] = "components" <=> s = 6
           /\ Steps[s] = "listen" <=> s = 7
           /\ Steps[s] = "files" <=> s = 8
           /\ Steps[s] = "environment" <=> s = 9
           /\ Steps[s] = "start" <=> s = 10
BY DEF Steps

(* Deferred calls run in the reverse order of their acquisition. *)
LEMMA Pops ==
    /\ Full # <<>> /\ Head(Full) = "writer" /\ Tail(Full) = <<"ca", "remove">>
    /\ Head(<<"ca", "remove">>) = "ca" /\ Tail(<<"ca", "remove">>) = <<"remove">>
    /\ Head(<<"remove">>) = "remove" /\ Tail(<<"remove">>) = <<>>
    /\ <<"remove">> # <<>> /\ <<"ca", "remove">> # <<>>
    /\ Full # <<"remove">> /\ Full # <<"ca", "remove">>
BY DEF Full

(* Sequences that agree on their length and their elements are equal. *)
LEMMA SameSeq ==
    ASSUME NEW S, NEW s \in Seq(S), NEW t \in Seq(S), Len(s) = Len(t), \A i \in 1..Len(s) : s[i] = t[i]
    PROVE  s = t
OBVIOUS

LEMMA Pushes ==
    /\ <<"remove">> \o <<>> = <<"remove">>
    /\ <<"ca">> \o <<"remove">> = <<"ca", "remove">>
    /\ <<"writer">> \o <<"ca", "remove">> = Full
<1>. DEFINE Calls == {"writer", "ca", "remove"}
<1>1. <<"remove">> \o <<>> = <<"remove">>
  OBVIOUS
<1>2. <<"ca">> \o <<"remove">> = <<"ca", "remove">>
  <2>. DEFINE pushed == <<"ca">> \o <<"remove">>
              calls == <<"ca", "remove">>
  <2>1. /\ pushed \in Seq(Calls) /\ calls \in Seq(Calls) /\ Len(pushed) = 2 /\ Len(calls) = 2
        /\ \A i \in 1..2 : pushed[i] = calls[i]
    OBVIOUS
  <2>. HIDE DEF pushed, calls
  <2>2. pushed = calls
    BY <2>1, SameSeq
  <2>. QED
    BY <2>2 DEF pushed, calls
<1>3. <<"writer">> \o <<"ca", "remove">> = <<"writer", "ca", "remove">>
  <2>. DEFINE pushed == <<"writer">> \o <<"ca", "remove">>
              calls == <<"writer", "ca", "remove">>
  <2>1. /\ pushed \in Seq(Calls) /\ calls \in Seq(Calls) /\ Len(pushed) = 3 /\ Len(calls) = 3
        /\ \A i \in 1..3 : pushed[i] = calls[i]
    OBVIOUS
  <2>. HIDE DEF pushed, calls
  <2>2. pushed = calls
    BY <2>1, SameSeq
  <2>. QED
    BY <2>2 DEF pushed, calls
<1>. QED
  BY <1>1, <1>2, <1>3 DEF Full

LEMMA RunInitInv == RunInit => RunInv
<1>. SUFFICES ASSUME RunInit PROVE RunInv
  OBVIOUS
<1>. USE DEF RunInit
<1>1. StartupInv /\ StageInv /\ RunEndInv
  BY DEF StartupInv, StageInv, RunEndInv
<1>2. RunDirInv
  BY DEF RunDirInv, Alive
<1>3. LogInv
  BY DEF LogInv, Alive
<1>. QED
  BY <1>1, <1>2, <1>3 DEF RunInv

LEMMA BeginInv == ASSUME RunInv, BeginRun PROVE RunInv'
<1>. USE DEF RunInv, BeginRun, Fresh
<1>1. StartupInv' /\ StageInv' /\ RunEndInv'
  BY DEF StartupInv, StageInv, RunEndInv, DefersAt, ServerAt
<1>2. RunDirInv'
  BY DEF RunDirInv, Alive
<1>3. LogInv'
  BY DEF LogInv, Alive
<1>. QED
  BY <1>1, <1>2, <1>3

LEMMA CrashInv == ASSUME RunInv, Crash PROVE RunInv'
<1>. USE DEF RunInv, Crash, Fresh
<1>1. StartupInv' /\ StageInv' /\ RunEndInv'
  BY DEF StartupInv, StageInv, RunEndInv
<1>2. RunDirInv'
  BY DEF RunDirInv, Alive
<1>3. LogInv'
  BY DEF LogInv, Alive
<1>. QED
  BY <1>1, <1>2, <1>3

(* Where an action of the startup finds the run. *)
LEMMA AtStep ==
    ASSUME RunInv, NEW name, At(name)
    PROVE  /\ stage = "startup" /\ phase = "setup" /\ step \in 1..10 /\ Steps[step] = name
           /\ defers = DefersAt(step) /\ server = ServerAt(step)
           /\ run \in dirs <=> defers # <<>>
BY DEF RunInv, StartupInv, RunDirInv, Alive, At

(* Most steps leave the directories, the log or both alone. *)
LEMMA DirFrame ==
    ASSUME RunInv, UNCHANGED <<run, defers, dirs>>, UNCHANGED stage \/ (Alive /\ Alive')
    PROVE  RunDirInv'
BY DEF RunInv, RunDirInv, Alive

LEMMA LogFrame ==
    ASSUME RunInv, UNCHANGED <<logVars, defers>>, UNCHANGED stage \/ (Alive /\ Alive')
    PROVE  LogInv'
BY DEF RunInv, LogInv, Alive, logVars

LEMMA StartupStepInv == ASSUME RunInv, StartupStep PROVE RunInv'
<1>. USE DEF Advance, logVars, lifecycleVars
<1>1. CASE Session
  <2>1. stage = "startup" /\ step = 2 /\ defers = <<>> /\ server = "none" /\ phase = "setup"
    BY <1>1, AtStep, StepNames DEF Session, DefersAt, ServerAt
  <2>2. step' = 3 /\ defers' = <<"remove">>
    BY <1>1, <2>1, Pushes DEF Session, Defer
  <2>3. StartupInv' /\ StageInv' /\ RunEndInv'
    BY <1>1, <2>1, <2>2 DEF Session, RunInv, StartupInv, StageInv, RunEndInv, DefersAt, ServerAt
  <2>4. RunDirInv'
    BY <1>1, <2>1, <2>2 DEF Session, RunInv, RunDirInv, Alive
  <2>5. LogInv'
    BY <1>1, <2>1, <2>2, Pops DEF Session, RunInv, StartupInv, LogInv, Alive
  <2>. QED
    BY <2>3, <2>4, <2>5 DEF RunInv
<1>2. CASE MakeCA
  <2>1. stage = "startup" /\ step = 3 /\ defers = <<"remove">> /\ server = "none"
        /\ phase = "setup"
    BY <1>2, AtStep, StepNames DEF MakeCA, DefersAt, ServerAt
  <2>2. step' = 4 /\ defers' = <<"ca", "remove">>
    BY <1>2, <2>1, Pushes DEF MakeCA, Defer
  <2>3. StartupInv' /\ StageInv' /\ RunEndInv'
    BY <1>2, <2>1, <2>2 DEF MakeCA, RunInv, StartupInv, StageInv, RunEndInv, DefersAt, ServerAt
  <2>4. RunDirInv'
    BY <1>2, <2>1, <2>2, Pops DEF MakeCA, RunInv, RunDirInv, Alive
  <2>5. LogInv'
    BY <1>2, <2>1, <2>2, Pops DEF MakeCA, RunInv, StartupInv, LogInv, Alive
  <2>. QED
    BY <2>3, <2>4, <2>5 DEF RunInv
<1>3. CASE OpenWriter
  <2>1. stage = "startup" /\ step = 4 /\ defers = <<"ca", "remove">> /\ server = "none"
        /\ phase = "setup"
    BY <1>3, AtStep, StepNames DEF OpenWriter, DefersAt, ServerAt
  <2>2. step' = 5 /\ defers' = Full
    BY <1>3, <2>1, Pushes DEF OpenWriter, Defer
  <2>3. StartupInv' /\ StageInv' /\ RunEndInv'
    BY <1>3, <2>1, <2>2 DEF OpenWriter, RunInv, StartupInv, StageInv, RunEndInv, DefersAt, ServerAt
  <2>4. RunDirInv'
    BY <1>3, <2>1, <2>2, Pops DEF OpenWriter, RunInv, RunDirInv, Alive
  <2>5. LogInv'
    BY <1>3, <2>1, <2>2 DEF OpenWriter, RunInv, StartupInv, LogInv, Alive
  <2>. QED
    BY <2>3, <2>4, <2>5 DEF RunInv
<1>4. CASE Load
  <2>1. stage = "startup" /\ step = 1 /\ phase = "setup" /\ defers = DefersAt(step) /\ server = ServerAt(step)
    BY <1>4, AtStep, StepNames DEF Load
  <2>2. StartupInv' /\ StageInv' /\ RunEndInv'
    BY <1>4, <2>1 DEF Load, RunInv, StartupInv, StageInv, RunEndInv, DefersAt, ServerAt
  <2>3. RunDirInv'
    BY <1>4, <2>1, DirFrame DEF Load, Alive
  <2>4. LogInv'
    BY <1>4, <2>1, LogFrame DEF Load, Alive
  <2>. QED
    BY <2>2, <2>3, <2>4 DEF RunInv
<1>5. CASE RecordStart
  <2>1. stage = "startup" /\ step = 5 /\ phase = "setup" /\ defers = DefersAt(step) /\ server = ServerAt(step)
    BY <1>5, AtStep, StepNames DEF RecordStart
  <2>2. StartupInv' /\ StageInv' /\ RunEndInv'
    BY <1>5, <2>1 DEF RecordStart, RunInv, StartupInv, StageInv, RunEndInv, DefersAt, ServerAt, Log!Accept
  <2>3. RunDirInv'
    BY <1>5, <2>1, DirFrame DEF RecordStart, Alive
  <2>4. LogInv'
    BY <1>5, <2>1 DEF RecordStart, RunInv, LogInv, Alive, DefersAt, Log!Accept
  <2>. QED
    BY <2>2, <2>3, <2>4 DEF RunInv
<1>6. CASE MakeComponents
  <2>1. stage = "startup" /\ step = 6 /\ phase = "setup" /\ defers = DefersAt(step) /\ server = ServerAt(step)
    BY <1>6, AtStep, StepNames DEF MakeComponents
  <2>2. StartupInv' /\ StageInv' /\ RunEndInv'
    BY <1>6, <2>1 DEF MakeComponents, RunInv, StartupInv, StageInv, RunEndInv, DefersAt, ServerAt
  <2>3. RunDirInv'
    BY <1>6, <2>1, DirFrame DEF MakeComponents, Alive
  <2>4. LogInv'
    BY <1>6, <2>1, LogFrame DEF MakeComponents, Alive
  <2>. QED
    BY <2>2, <2>3, <2>4 DEF RunInv
<1>7. CASE Listen
  <2>1. stage = "startup" /\ step = 7 /\ phase = "setup" /\ defers = DefersAt(step) /\ server = ServerAt(step)
    BY <1>7, AtStep, StepNames DEF Listen
  <2>2. StartupInv' /\ StageInv' /\ RunEndInv'
    BY <1>7, <2>1 DEF Listen, RunInv, StartupInv, StageInv, RunEndInv, DefersAt, ServerAt
  <2>3. RunDirInv'
    BY <1>7, <2>1, DirFrame DEF Listen, Alive
  <2>4. LogInv'
    BY <1>7, <2>1, LogFrame DEF Listen, Alive
  <2>. QED
    BY <2>2, <2>3, <2>4 DEF RunInv
<1>8. CASE Prepare
  <2>1. stage = "startup" /\ step \in {8, 9} /\ phase = "setup" /\ defers = DefersAt(step) /\ server = ServerAt(step)
    BY <1>8, AtStep, StepNames DEF Prepare
  <2>2. StartupInv' /\ StageInv' /\ RunEndInv'
    BY <1>8, <2>1 DEF Prepare, RunInv, StartupInv, StageInv, RunEndInv, DefersAt, ServerAt
  <2>3. RunDirInv'
    BY <1>8, <2>1, DirFrame DEF Prepare, Alive
  <2>4. LogInv'
    BY <1>8, <2>1, LogFrame DEF Prepare, Alive
  <2>. QED
    BY <2>2, <2>3, <2>4 DEF RunInv
<1>9. CASE StartServer
  <2>1. stage = "startup" /\ step = 10 /\ phase = "setup" /\ defers = DefersAt(step) /\ server = ServerAt(step)
    BY <1>9, AtStep, StepNames DEF StartServer
  <2>2. StartupInv' /\ StageInv' /\ RunEndInv'
    BY <1>9, <2>1 DEF StartServer, RunInv, StartupInv, StageInv, RunEndInv, DefersAt, ServerAt
  <2>3. RunDirInv'
    BY <1>9, <2>1, DirFrame DEF StartServer, Alive
  <2>4. LogInv'
    BY <1>9, <2>1, LogFrame DEF StartServer, Alive
  <2>. QED
    BY <2>2, <2>3, <2>4 DEF RunInv
<1>. QED
  BY <1>1, <1>2, <1>3, <1>4, <1>5, <1>6, <1>7, <1>8, <1>9 DEF StartupStep

(* From the bound listener on, a startup that fails closes the server itself. *)
LEMMA StartupErrorInv == ASSUME RunInv, StartupError PROVE RunInv'
<1>. USE DEF StartupError, RunInv, logVars
<1>1. stage = "startup" /\ step \in 1..10 /\ step # 10
  BY StepNames DEF StartupInv
<1>2. RunEndInv'
  BY <1>1, StepNames DEF StartupInv, ServerAt, RunEndInv
<1>3. StartupInv' /\ StageInv'
  BY <1>1 DEF StartupInv, StageInv, DefersAt, Unwound
<1>4. RunDirInv' /\ LogInv'
  BY <1>1 DEF RunDirInv, LogInv, Alive
<1>. QED
  BY <1>2, <1>3, <1>4

(* The server is closed only when the child is over. *)
LEMMA ServingInv ==
    ASSUME RunInv, ChildStep \/ CloseServer \/ ChildReturns \/ ServeFails
    PROVE  RunInv'
<1>1. RunDirInv' /\ LogInv'
  BY DirFrame, LogFrame DEF ChildStep, CloseServer, ChildReturns, ServeFails, Alive
<1>2. StartupInv' /\ StageInv' /\ RunEndInv'
  <2>. USE DEF RunInv, StartupInv, StageInv, RunEndInv, lifecycleVars, logVars
  <2>1. CASE ChildStep
    BY <2>1 DEF ChildStep, Child!Launch, Child!Refuse, Child!ChildEnds
  <2>2. CASE CloseServer
    BY <2>2 DEF CloseServer, ServerAt
  <2>3. CASE ChildReturns
    <3>1. /\ stage = "child" /\ stage' = "ended" /\ phase' = "returned"
          /\ UNCHANGED <<defers, server, startRecorded>>
          /\ server' = "closed" \/ ~launched' \/ runCode' = 70
      BY <2>3 DEF ChildReturns, Child!Return, Child!Degrade
    <3>. QED
      BY <3>1
  <2>4. CASE ServeFails
    BY <2>4 DEF ServeFails, ServerAt
  <2>. QED
    BY <2>1, <2>2, <2>3, <2>4
<1>. QED
  BY <1>1, <1>2 DEF RunInv

(* The deferred calls: writer, CA, directory. *)
LEMMA EndStepInv == ASSUME RunInv, EndStep \/ FlushFails PROVE RunInv'
<1>1. CASE RecordEnd
  <2>1. StartupInv' /\ StageInv' /\ RunEndInv'
    BY <1>1 DEF RecordEnd, RunInv, StartupInv, StageInv, RunEndInv, lifecycleVars
  <2>2. RunDirInv'
    BY <1>1, DirFrame DEF RecordEnd, Alive
  <2>3. LogInv'
    BY <1>1 DEF RecordEnd, RunInv, StageInv, LogInv, Alive, logVars, Log!Accept
  <2>. QED
    BY <2>1, <2>2, <2>3 DEF RunInv
<1>2. CASE FlushReturns \/ FlushFails
  <2>1. /\ stage = "flush" /\ stage' = "unwind"
        /\ UNCHANGED <<run, defers, server, dirs, lifecycleVars, logVars>>
    BY <1>2 DEF FlushReturns, FlushFails
  <2>2. StartupInv' /\ StageInv' /\ RunEndInv'
    BY <2>1 DEF RunInv, StartupInv, StageInv, RunEndInv, lifecycleVars
  <2>3. RunDirInv' /\ LogInv'
    BY <2>1, DirFrame, LogFrame DEF Alive
  <2>. QED
    BY <2>2, <2>3 DEF RunInv
<1>3. CASE WriterClose
  <2>1. StartupInv' /\ StageInv' /\ RunEndInv'
    BY <1>3 DEF WriterClose, Deferred, RunInv, StartupInv, StageInv, RunEndInv, lifecycleVars
  <2>2. RunDirInv'
    BY <1>3, DirFrame DEF WriterClose
  <2>3. LogInv'
    BY <1>3, Pops DEF WriterClose, Deferred, RunInv, StageInv, Unwound, LogInv, Alive, Log!Shut
  <2>. QED
    BY <2>1, <2>2, <2>3 DEF RunInv
<1>4. ASSUME stage = "unwind", NEW now \in Unwound, defers # <<>>, defers' = now,
             now = <<>> => dirs' = dirs \ {run}, now # <<>> => UNCHANGED dirs,
             defers = Full => sealed = TRUE \/ logStatus = "failed",
             UNCHANGED <<run, stage, server, lifecycleVars, logVars>>
      PROVE  RunInv'
  <2>1. StartupInv' /\ StageInv' /\ RunEndInv'
    BY <1>4 DEF RunInv, StartupInv, StageInv, RunEndInv, lifecycleVars
  <2>2. RunDirInv'
    BY <1>4 DEF RunInv, RunDirInv, Alive
  <2>3. LogInv'
    BY <1>4 DEF RunInv, LogInv, Alive, logVars
  <2>. QED
    BY <2>1, <2>2, <2>3 DEF RunInv
<1>5. CASE WriterClosed
  <2>1. stage = "unwind" /\ defers = Full /\ defers' = <<"ca", "remove">>
    BY <1>5, Pops DEF WriterClosed, Deferred, RunInv, StageInv, Unwound
  <2>. QED
    BY <1>4, <1>5, <2>1, Pops DEF WriterClosed, Unwound, RunInv, LogInv
<1>6. CASE CACleanup
  <2>1. stage = "unwind" /\ defers = <<"ca", "remove">> /\ defers' = <<"remove">>
    BY <1>6, Pops DEF CACleanup, Deferred, RunInv, StageInv, Unwound
  <2>. QED
    BY <1>4, <1>6, <2>1, Pops DEF CACleanup, Unwound
<1>7. CASE RemoveSession
  <2>1. stage = "unwind" /\ defers = <<"remove">> /\ defers' = <<>>
    BY <1>7, Pops DEF RemoveSession, Deferred, RunInv, StageInv, Unwound
  <2>. QED
    BY <1>4, <1>7, <2>1, Pops DEF RemoveSession, Unwound
<1>8. CASE Return
  <2>1. StartupInv' /\ StageInv' /\ RunEndInv'
    BY <1>8 DEF Return, RunInv, StartupInv, StageInv, RunEndInv, lifecycleVars
  <2>2. RunDirInv' /\ LogInv'
    BY <1>8, Pops DEF Return, RunInv, RunDirInv, LogInv, Alive, logVars
  <2>. QED
    BY <2>1, <2>2 DEF RunInv
<1>. QED
  BY <1>1, <1>2, <1>3, <1>5, <1>6, <1>7, <1>8 DEF EndStep

(* Requests and the log go on through all of it; a sealed log accepts nothing. *)
LEMMA LogInvStep ==
    ASSUME RunInv, LogStep \/ \E r \in Requests : Arrive(r) \/ Handle(r)
    PROVE  RunInv'
<1>. DEFINE Others == UNCHANGED <<run, stage, step, defers, server, dirs, lifecycleVars, startRecorded>>
<1>1. Others
  BY DEF LogStep, Arrive, Handle
<1>2. stage = "startup" /\ step <= 4 => UNCHANGED logStatus
  BY DEF RunInv, StartupInv, LogStep, Arrive, Handle, logVars, Log!Accept
<1>3. StartupInv' /\ StageInv' /\ RunEndInv'
  BY <1>1, <1>2 DEF RunInv, StartupInv, StageInv, RunEndInv, lifecycleVars
<1>4. RunDirInv'
  BY <1>1, DirFrame
<1>5. LogInv'
  <2>1. CASE LogStep
    <3>1. CASE \E d \in (durable + 1)..accepted : durable' = d /\ Log!Persist
      <4>1. durable' \in Nat
        BY <3>1 DEF RunInv, LogInv
      <4>2. UNCHANGED <<stage, defers, accepted, logStatus, sealed>> /\ durable' # durable
            /\ logStatus # "none"
        BY <1>1, <2>1, <3>1 DEF LogStep, Log!Persist, RunInv, LogInv
      <4>3. sealed = TRUE => durable = accepted
        BY DEF RunInv, LogInv
      <4>4. durable \in Nat /\ accepted \in Nat /\ durable # accepted
        BY <3>1 DEF RunInv, LogInv
      <4>. QED
        BY <4>1, <4>2, <4>3, <4>4 DEF RunInv, LogInv, Alive
    <3>2. CASE Log!Break \/ Log!Seal
      BY <1>1, <2>1, <3>2 DEF LogStep, Log!Break, Log!Seal, RunInv, LogInv, Alive
    <3>. QED
      BY <2>1, <3>1, <3>2 DEF LogStep
  <2>2. CASE \E r \in Requests : Arrive(r)
    BY <1>1, <2>2, LogFrame DEF Arrive
  <2>3. CASE \E r \in Requests : Handle(r)
    <3>1. UNCHANGED logVars \/ Log!Accept
      BY <2>3 DEF Handle
    <3>2. CASE Log!Accept
      BY <1>1, <3>2 DEF Log!Accept, RunInv, LogInv, Alive
    <3>. QED
      BY <1>1, <3>1, <3>2, LogFrame
  <2>. QED
    BY <2>1, <2>2, <2>3
<1>. QED
  BY <1>3, <1>4, <1>5 DEF RunInv

LEMMA RunNextInv == RunInv /\ [RunNext]_runVars => RunInv'
<1>1. ASSUME RunInv, UNCHANGED runVars PROVE RunInv'
  <2>1. StartupInv' /\ StageInv' /\ RunEndInv'
    BY <1>1 DEF RunInv, StartupInv, StageInv, RunEndInv, runVars, logVars, lifecycleVars
  <2>2. RunDirInv' /\ LogInv'
    BY <1>1, DirFrame, LogFrame DEF runVars
  <2>. QED
    BY <2>1, <2>2 DEF RunInv
<1>. QED
  BY <1>1, BeginInv, StartupStepInv, StartupErrorInv, ServingInv, EndStepInv, LogInvStep, CrashInv
  DEF RunNext

(* The invariant is inductive, so it holds in every reachable state. *)
THEOREM RunInvariant == RunSpec => []RunInv
BY RunInitInv, RunNextInv, PTL DEF RunSpec

(* A child runs (run.go, the call of RunChild) only with the proxy started and  *)
(* not closed, the run recorded and its directory on disk, for any number of   *)
(* runs and crashes before.                                                    *)
THEOREM ChildProtected == RunSpec => []ChildIsProtected
<1>1. RunInv => ChildIsProtected
  BY Pops DEF RunInv, StartupInv, StageInv, RunDirInv, Alive, ChildIsProtected
<1>. QED
  BY <1>1, RunInvariant, PTL

(* When Run returns (run.go, the deferred aw.Close), every event that was       *)
(* ever accepted is durable, those of handlers that outlive the Flush included, *)
(* unless the writer failed.                                                    *)
THEOREM DurableAtExit == RunSpec => []EventsAreDurableAtExit
<1>1. RunInv => EventsAreDurableAtExit
  BY DEF RunInv, LogInv, EventsAreDurableAtExit
<1>. QED
  BY <1>1, RunInvariant, PTL

(* Whichever step ended the run (run.go, its deferred calls and server.Close),  *)
(* the session directory is gone and the listener closed, unless RunChild gave  *)
(* up on the cleanup hook and its code tells so.                                *)
THEOREM NothingLeft == RunSpec => []NothingIsLeft
<1>1. RunInv => NothingIsLeft
  BY DEF RunInv, RunDirInv, RunEndInv, NothingIsLeft
<1>. QED
  BY <1>1, RunInvariant, PTL
=============================================================================
