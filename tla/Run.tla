-------------------------------- MODULE Run ---------------------------------
(***************************************************************************)
(* `kordn run': the linear startup of internal/app/runimpl/run.go with its  *)
(* deferred calls, the supervised child, the requests of the proxy and the  *)
(* audit log, through shutdown, crash and the next run.  RunChild is seen   *)
(* through ChildLifecycle, which Supervisor implements, and the audit       *)
(* writer through AuditLog, which AuditWriter implements.                   *)
(***************************************************************************)
EXTENDS Naturals, Sequences, FiniteSets

CONSTANTS
    Requests,       \* requests that reach the proxy in one run
    MaxRuns         \* bound: runs one after the other on this machine

ASSUME RunsAssumption == MaxRuns \in Nat \ {0}

VARIABLES
    run,            \* number of the run
    stage,          \* "idle", "startup", "child", "ended", "flush", "unwind", "returned"
    step,           \* next step of the startup
    defers,         \* deferred calls, the last one first
    server,         \* "none", "made", "bound", "serving", "failed", "closed"
    request,        \* "idle", "open", "done"
    dirs,           \* runs whose session directory, CA key included, is on disk
    phase, runCode, launched,  \* of RunChild
    accepted, durable, logStatus, sealed,  \* of the audit log
    startRecorded,  \* the run_started event was accepted
    flushMark       \* events that the Flush waits for

logVars == <<accepted, durable, logStatus, sealed>>
lifecycleVars == <<phase, runCode, launched>>
runVars == <<run, stage, step, defers, server, request, dirs, lifecycleVars, logVars,
          startRecorded, flushMark>>

Log == INSTANCE AuditLog WITH status <- logStatus
Child == INSTANCE ChildLifecycle
           WITH ChildCodes <- {0, 126}, StartCodes <- {78, 126}, SafetyCode <- 70,
                code <- runCode

(* The steps that may fail.  "components" are verifier, decoder, mapper,     *)
(* signer, transport, caches and server.                                     *)
Steps == <<"load", "session", "ca", "writer", "run_started", "components", "listen", "files",
           "environment", "start">>

Fresh ==
    /\ step' = 1 /\ defers' = <<>> /\ server' = "none"
    /\ request' = [r \in Requests |-> "idle"]
    /\ phase' = "setup" /\ runCode' = 0 /\ launched' = FALSE
    /\ accepted' = 0 /\ durable' = 0 /\ logStatus' = "none" /\ sealed' = FALSE
    /\ startRecorded' = FALSE /\ flushMark' = 0

RunInit ==
    /\ run = 0 /\ stage = "idle" /\ step = 1 /\ defers = <<>> /\ server = "none"
    /\ request = [r \in Requests |-> "idle"]
    /\ dirs = {}
    /\ phase = "setup" /\ runCode = 0 /\ launched = FALSE
    /\ accepted = 0 /\ durable = 0 /\ logStatus = "none" /\ sealed = FALSE
    /\ startRecorded = FALSE /\ flushMark = 0

-----------------------------------------------------------------------------
(* Startup *)

BeginRun ==
    /\ stage \in {"idle", "returned"} /\ run < MaxRuns
    /\ run' = run + 1
    /\ stage' = "startup"
    /\ Fresh
    /\ UNCHANGED dirs

At(name) == stage = "startup" /\ Steps[step] = name

Defer(call) == defers' = <<call>> \o defers

Advance == step' = step + 1 /\ UNCHANGED <<run, lifecycleVars>>

(* config.Load, NewEngine, NewProvider, GenerateRunSecrets and the           *)
(* registration of secrets; nothing is acquired.                             *)
Load ==
    /\ At("load") /\ Advance
    /\ UNCHANGED <<stage, defers, server, request, dirs, logVars, startRecorded, flushMark>>

Session ==
    /\ At("session") /\ Advance
    /\ dirs' = dirs \cup {run}
    /\ Defer("remove")
    /\ UNCHANGED <<stage, server, request, logVars, startRecorded, flushMark>>

MakeCA ==
    /\ At("ca") /\ Advance
    /\ Defer("ca")
    /\ UNCHANGED <<stage, server, request, dirs, logVars, startRecorded, flushMark>>

(* Mutant: the writer is left to the Flush at the end. *)
OpenWriterUndeferred ==
    /\ At("writer") /\ Advance
    /\ logStatus' = "open"
    /\ UNCHANGED <<stage, server, request, dirs, accepted, durable, sealed, startRecorded,
                   flushMark, defers>>

OpenWriter ==
    /\ At("writer") /\ Advance
    /\ logStatus' = "open"
    /\ Defer("writer")
    /\ UNCHANGED <<stage, server, request, dirs, accepted, durable, sealed, startRecorded, flushMark>>

(* Mutant: an audit log that refuses the event does not end the startup. *)
RecordStartIgnored ==
    /\ At("run_started") /\ Advance
    /\ \/ Log!Accept /\ startRecorded' = TRUE
       \/ UNCHANGED <<logVars, startRecorded>>
    /\ UNCHANGED <<stage, defers, server, request, dirs, flushMark>>

RecordStart ==
    /\ At("run_started") /\ Advance
    /\ Log!Accept
    /\ startRecorded' = TRUE
    /\ UNCHANGED <<stage, defers, server, request, dirs, flushMark>>

MakeComponents ==
    /\ At("components") /\ Advance
    /\ server' = "made"
    /\ UNCHANGED <<stage, defers, request, dirs, logVars, startRecorded, flushMark>>

Listen ==
    /\ At("listen") /\ Advance
    /\ server' = "bound"
    /\ UNCHANGED <<stage, defers, request, dirs, logVars, startRecorded, flushMark>>

(* writeSyntheticFiles; BuildChildEnvironment *)
Prepare ==
    /\ At("files") \/ At("environment")
    /\ Advance
    /\ UNCHANGED <<stage, defers, server, request, dirs, logVars, startRecorded, flushMark>>

StartServer ==
    /\ At("start") /\ Advance
    /\ server' = "serving"
    /\ stage' = "child"
    /\ UNCHANGED <<defers, request, dirs, logVars, startRecorded, flushMark>>

(* Mutant: the listener stays when files or environment cannot be made. *)
StartupErrorUnclosed ==
    /\ stage = "startup" /\ Steps[step] # "start"
    /\ runCode' \in IF Steps[step] = "load" THEN {2, 78} ELSE {78}
    /\ stage' = "unwind"
    /\ UNCHANGED <<run, step, defers, request, dirs, phase, launched, logVars, startRecorded, flushMark,
                   server>>

(* Any step may return an error but the last, which finds the listener bound. *)
(* From the step that binds it on, the server is closed first.  A missing      *)
(* command is a usage error.                                                  *)
StartupError ==
    /\ stage = "startup" /\ Steps[step] # "start"
    /\ runCode' \in IF Steps[step] = "load" THEN {2, 78} ELSE {78}
    /\ stage' = "unwind"
    /\ server' = IF Steps[step] \in {"listen", "files", "environment"} THEN "closed" ELSE server
    /\ UNCHANGED <<run, step, defers, request, dirs, phase, launched, logVars, startRecorded, flushMark>>

-----------------------------------------------------------------------------
(* The child and the server, which is closed by the cleanup hook *)

ChildStep ==
    /\ stage = "child"
    /\ Child!Launch \/ (Child!Refuse /\ phase' = "closing") \/ Child!ChildEnds
    /\ UNCHANGED <<run, stage, step, defers, server, request, dirs, logVars, startRecorded,
                   flushMark>>

CloseServer ==
    /\ stage # "idle" /\ stage # "returned"
    /\ phase \in {"closing", "returned"} /\ server \in {"serving", "failed"}
    /\ server' = "closed"
    /\ UNCHANGED <<run, stage, step, defers, request, dirs, lifecycleVars, logVars, startRecorded,
                   flushMark>>

(* RunChild returns when the hook is done, or, as a failure of the run, when  *)
(* its time is up; after a start that failed the hook's result is ignored.    *)
ChildReturns ==
    /\ stage = "child"
    /\ \/ Child!Return /\ (server = "closed" \/ ~launched \/ runCode = 70)
       \/ Child!Degrade /\ phase' = "returned"
    /\ stage' = "ended"
    /\ UNCHANGED <<run, step, defers, server, request, dirs, logVars, startRecorded, flushMark>>

(* The result of Serve is dropped by the goroutine that Start makes, and no    *)
(* safety channel tells RunChild of it.                                        *)
ServeFails ==
    /\ server = "serving"
    /\ server' = "failed"
    /\ UNCHANGED <<run, stage, step, defers, request, dirs, lifecycleVars, logVars, startRecorded,
                   flushMark>>

-----------------------------------------------------------------------------
(* The end of Run *)

(* The run_ended event; an error is ignored.  Flush waits for what is accepted. *)
RecordEnd ==
    /\ stage = "ended"
    /\ Log!Accept \/ UNCHANGED logVars
    /\ flushMark' = accepted'
    /\ stage' = "flush"
    /\ UNCHANGED <<run, step, defers, server, request, dirs, lifecycleVars, startRecorded>>

(* Mutant: the Flush also waits for the handlers of open requests. *)
FlushReturnsWhenQuiet ==
    /\ stage = "flush"
    /\ durable >= flushMark /\ \A r \in Requests : request[r] # "open"
    /\ stage' = "unwind"
    /\ UNCHANGED <<run, step, defers, server, request, dirs, lifecycleVars, logVars, startRecorded,
                   flushMark>>

FlushReturns ==
    /\ stage = "flush"
    /\ durable >= flushMark
    /\ stage' = "unwind"
    /\ UNCHANGED <<run, step, defers, server, request, dirs, lifecycleVars, logVars, startRecorded,
                   flushMark>>

(* The error is ignored.  AuditWriter shows that a Flush need not return when  *)
(* the writer fails, so this action has no fairness.                           *)
FlushFails ==
    /\ stage = "flush"
    /\ logStatus # "open"
    /\ stage' = "unwind"
    /\ UNCHANGED <<run, step, defers, server, request, dirs, lifecycleVars, logVars, startRecorded,
                   flushMark>>

Deferred(call) == stage = "unwind" /\ defers # <<>> /\ Head(defers) = call

WriterClose ==
    /\ Deferred("writer") /\ Log!Shut
    /\ UNCHANGED <<run, stage, step, defers, server, request, dirs, lifecycleVars, startRecorded,
                   flushMark>>

(* Writer.Close returns when its goroutine has stopped. *)
WriterClosed ==
    /\ Deferred("writer") /\ (sealed \/ logStatus = "failed")
    /\ defers' = Tail(defers)
    /\ UNCHANGED <<run, stage, step, server, request, dirs, lifecycleVars, logVars, startRecorded,
                   flushMark>>

CACleanup ==
    /\ Deferred("ca")
    /\ defers' = Tail(defers)
    /\ UNCHANGED <<run, stage, step, server, request, dirs, lifecycleVars, logVars, startRecorded,
                   flushMark>>

RemoveSession ==
    /\ Deferred("remove")
    /\ defers' = Tail(defers)
    /\ dirs' = dirs \ {run}
    /\ UNCHANGED <<run, stage, step, server, request, lifecycleVars, logVars, startRecorded, flushMark>>

Return ==
    /\ stage = "unwind" /\ defers = <<>>
    /\ stage' = "returned"
    /\ UNCHANGED <<run, step, defers, server, request, dirs, lifecycleVars, logVars, startRecorded,
                   flushMark>>

-----------------------------------------------------------------------------
(* Requests, the audit log and the machine *)

Alive == stage \notin {"idle", "returned"}

Arrive(r) ==
    /\ Alive /\ server = "serving" /\ request[r] = "idle"
    /\ request' = [request EXCEPT ![r] = "open"]
    /\ UNCHANGED <<run, stage, step, defers, server, dirs, lifecycleVars, logVars, startRecorded,
                   flushMark>>

(* The handler records its decision, or finds the log unavailable, and ends. *)
(* Closing the server does not wait for it.                                  *)
Handle(r) ==
    /\ Alive /\ request[r] = "open"
    /\ Log!Accept \/ UNCHANGED logVars
    /\ request' = [request EXCEPT ![r] = "done"]
    /\ UNCHANGED <<run, stage, step, defers, server, dirs, lifecycleVars, startRecorded, flushMark>>

LogStep ==
    /\ Alive /\ logStatus # "none"
    /\ \/ \E d \in (durable + 1)..accepted : durable' = d /\ Log!Persist
       \/ Log!Break
       \/ Log!Seal
    /\ UNCHANGED <<run, stage, step, defers, server, request, dirs, lifecycleVars, startRecorded,
                   flushMark>>

Crash ==
    /\ Alive
    /\ stage' = "idle"
    /\ Fresh
    /\ UNCHANGED <<run, dirs>>

StartupStep == \/ Load \/ Session \/ MakeCA \/ OpenWriter \/ RecordStart \/ MakeComponents
               \/ Listen \/ Prepare \/ StartServer

EndStep == \/ RecordEnd \/ FlushReturns \/ WriterClose \/ WriterClosed \/ CACleanup
           \/ RemoveSession \/ Return

RunNext ==
    \/ BeginRun \/ StartupStep \/ StartupError \/ ChildStep \/ CloseServer \/ ChildReturns
    \/ ServeFails \/ EndStep \/ FlushFails
    \/ \E r \in Requests : Arrive(r) \/ Handle(r)
    \/ LogStep \/ Crash

RunSpec == RunInit /\ [][RunNext]_runVars

(* The goroutine of Run goes on, and with it the timers of RunChild; the      *)
(* audit writer stores what it accepted unless it fails.  Nothing is assumed   *)
(* of the child, of the handlers or of the cleanup hook.                       *)
LogCatchesUp ==
    /\ Alive /\ logStatus \in {"open", "closed"}
    /\ durable' = accepted
    /\ IF logStatus = "open" THEN Log!Persist ELSE Log!Seal
    /\ UNCHANGED <<run, stage, step, defers, server, request, dirs, lifecycleVars, startRecorded,
                   flushMark>>

RunFairness == WF_runVars(EndStep) /\ WF_runVars(ChildReturns) /\ WF_runVars(LogCatchesUp)

-----------------------------------------------------------------------------
(* Properties *)

(* "Kordn must never silently fall back to launching the child without        *)
(* protection": while a child runs, the proxy was started and Kordn has not   *)
(* closed it, the run is recorded and its private directory is in place.      *)
ChildIsProtected ==
    phase = "running" => /\ server \in {"serving", "failed"}
                         /\ startRecorded
                         /\ run \in dirs

(* "The CLI flushes all accepted events before exit", those included that     *)
(* handlers record after the Flush because they outlive the server.           *)
EventsAreDurableAtExit ==
    stage = "returned" => durable = accepted \/ logStatus = "failed"

(* Whichever step failed, nothing of the run is left when it returns: no      *)
(* directory with the CA key, and no listener, unless RunChild gave up on the *)
(* cleanup hook, which a child's code never hides.                            *)
NothingIsLeft ==
    stage = "returned" =>
        /\ run \notin dirs
        /\ \/ server \in {"none", "made", "closed"}
           \/ phase = "returned" /\ (~launched \/ runCode = 70)

(* Once the child is over Run returns, whatever the handlers and the cleanup  *)
(* hook do, unless the audit writer fails.                                    *)
RunReturns == phase = "closing" ~> stage \in {"returned", "idle"} \/ logStatus = "failed"
=============================================================================
