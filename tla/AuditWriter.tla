---------------------------- MODULE AuditWriter ----------------------------
(***************************************************************************)
(* The asynchronous audit writer, internal/audit/jsonl.go: callers of      *)
(* Write, Flush and Close on one side, the single writer goroutine (loop)  *)
(* on the other, a bounded channel between them and one mutex over the     *)
(* failed and closed flags.                                                *)
(*                                                                         *)
(* Events are identified by the order in which the queue accepted them.    *)
(* The RWMutex is `mu': a critical section that cannot block is one step   *)
(* that needs mu free; Flush is the one caller that blocks while it holds  *)
(* mu.  A caller makes at most one Flush (more callers give more Flushes). *)
(***************************************************************************)
EXTENDS Naturals, Sequences, FiniteSets

CONSTANTS
    Callers,        \* goroutines that call the writer
    NoOne,          \* mu is free
    NoItem,         \* the loop holds no item
    Capacity,       \* Options.QueueCapacity
    BatchSize,      \* Options.BatchSize
    FsyncDecision,  \* Options.Fsync = Decision
    EventKinds,     \* event types written: "decision" (RequestDecision), "other"
    MaxEvents,      \* bound: events offered for acceptance in a behaviour
    DiskMayFail,    \* file.Write and file.Sync may return an error
    FlushDeadline   \* the context given to Flush can end

ASSUME CapacityAssumption == Capacity \in Nat \ {0}
ASSUME BatchSizeAssumption == BatchSize \in Nat \ {0}
ASSUME MaxEventsAssumption == MaxEvents \in Nat
ASSUME NoOneAssumption == NoOne \notin Callers
ASSUME FlagsAssumption ==
    /\ FsyncDecision \in BOOLEAN
    /\ DiskMayFail \in BOOLEAN
    /\ FlushDeadline \in BOOLEAN
ASSUME NoItemAssumption ==
    NoItem \notin [kind : {"decision", "other", "barrier"}, n : Nat, by : Callers \cup {NoOne}]
ASSUME EventKindsAssumption == EventKinds \subseteq {"decision", "other"}

VARIABLES
    queue,      \* the channel Writer.queue
    mu,         \* who holds Writer.mu across a blocking operation
    failed,     \* Writer.failed # nil
    closed,     \* Writer.closed, and Writer.stop is closed
    loop,       \* where the writer goroutine is
    hand,       \* the item it has received and not finished
    batch,      \* its count of events since the last batch sync
    file,       \* complete records of the file, as the items they come from
    torn,       \* an incomplete record follows them
    synced,     \* length of the prefix of file on stable storage
    accepted,   \* number of events Write has accepted
    pc,         \* what each caller is doing
    ret,        \* what each caller's last call returned, if a Flush or a Close
    barrier,    \* the reply channel of each caller's Flush
    mark        \* events accepted when that Flush entered the queue

callerVars == <<pc, ret, barrier, mark>>
loopVars == <<loop, hand, batch>>
diskVars == <<file, torn, synced>>
flagVars == <<mu, failed, closed>>
vars == <<queue, flagVars, loopVars, diskVars, accepted, callerVars>>

Item == [kind : {"decision", "other", "barrier"}, n : Nat, by : Callers \cup {NoOne}]

IsBarrier(item) == item.kind = "barrier"

Stopped == loop \in {"stopped", "dead"}    \* Writer.done is closed

TypeOK ==
    /\ queue \in Seq(Item)
    /\ mu \in Callers \cup {NoOne}
    /\ failed \in BOOLEAN
    /\ closed \in BOOLEAN
    /\ loop \in {"select", "barrier", "write", "sync", "fail", "drain",
                 "drainBarrier", "drainWrite", "drainSync", "stopped", "dead"}
    /\ hand \in Item \cup {NoItem}
    /\ batch \in Nat
    /\ file \in Seq(Item)
    /\ torn \in BOOLEAN
    /\ synced \in Nat
    /\ accepted \in Nat
    /\ pc \in [Callers -> {"idle", "write", "flush", "flushSend", "flushWait",
                           "flushFail", "close", "closeWait"}]
    /\ ret \in [Callers -> {"none", "flushed", "flushError",
                            "closed", "closeError", "closedBefore"}]
    /\ barrier \in [Callers -> {"none", "empty", "nil", "error"}]
    /\ mark \in [Callers -> Nat]

Init ==
    /\ queue = <<>>
    /\ mu = NoOne
    /\ failed = FALSE
    /\ closed = FALSE
    /\ loop = "select"
    /\ hand = NoItem
    /\ batch = 0
    /\ file = <<>>
    /\ torn = FALSE
    /\ synced = 0
    /\ accepted = 0
    /\ pc = [c \in Callers |-> "idle"]
    /\ ret = [c \in Callers |-> "none"]
    /\ barrier = [c \in Callers |-> "none"]
    /\ mark = [c \in Callers |-> 0]

-----------------------------------------------------------------------------
(* Callers *)

Goto(c, place) == pc' = [pc EXCEPT ![c] = place]

Return(c, result) ==
    /\ Goto(c, "idle")
    /\ ret' = [ret EXCEPT ![c] = result]

(* A caller calls an operation; it may have to wait for mu. *)
Call(c) ==
    /\ pc[c] = "idle"
    /\ \/ /\ accepted + Cardinality({d \in Callers : pc[d] = "write"}) < MaxEvents
          /\ Goto(c, "write")
       \/ barrier[c] = "none" /\ Goto(c, "flush")
       \/ Goto(c, "close")
    /\ ret' = [ret EXCEPT ![c] = "none"]
    /\ UNCHANGED <<queue, flagVars, loopVars, diskVars, accepted, barrier, mark>>

(* Mutant: Write checks neither failed nor closed. *)
WriteAcceptUnchecked(c, kind) ==
    /\ pc[c] = "write" /\ mu = NoOne
    /\ Len(queue) < Capacity
    /\ accepted' = accepted + 1
    /\ queue' = Append(queue, [kind |-> kind, n |-> accepted + 1, by |-> NoOne])
    /\ Return(c, "none")
    /\ UNCHANGED <<flagVars, loopVars, diskVars, barrier, mark>>

(* Write holds mu only around a non-blocking send. *)
WriteAccept(c, kind) ==
    /\ pc[c] = "write" /\ mu = NoOne
    /\ ~failed /\ ~closed
    /\ Len(queue) < Capacity
    /\ accepted' = accepted + 1
    /\ queue' = Append(queue, [kind |-> kind, n |-> accepted + 1, by |-> NoOne])
    /\ Return(c, "none")
    /\ UNCHANGED <<flagVars, loopVars, diskVars, barrier, mark>>

(* Event.Validate fails before mu is taken. *)
WriteInvalid(c) ==
    /\ pc[c] = "write"
    /\ Return(c, "none")
    /\ UNCHANGED <<queue, flagVars, loopVars, diskVars, accepted, barrier, mark>>

(* ErrWriterFailed, ErrClosed or ErrBackpressure. *)
WriteRefuse(c) ==
    /\ pc[c] = "write" /\ mu = NoOne
    /\ failed \/ closed \/ Len(queue) >= Capacity
    /\ Return(c, "none")
    /\ UNCHANGED <<queue, flagVars, loopVars, diskVars, accepted, barrier, mark>>

Write(c) == WriteRefuse(c) \/ \E kind \in EventKinds : WriteAccept(c, kind)

(* Flush takes mu and keeps it until its barrier is in the queue. *)
FlushLock(c) ==
    /\ pc[c] = "flush" /\ mu = NoOne
    /\ IF failed \/ closed
         THEN /\ Return(c, "flushError")
              /\ UNCHANGED <<mu, barrier>>
         ELSE /\ mu' = c
              /\ barrier' = [barrier EXCEPT ![c] = "empty"]
              /\ Goto(c, "flushSend")
              /\ UNCHANGED ret
    /\ UNCHANGED <<queue, failed, closed, loopVars, diskVars, accepted, mark>>

FlushSend(c) ==
    /\ pc[c] = "flushSend"
    /\ Len(queue) < Capacity
    /\ queue' = Append(queue, [kind |-> "barrier", n |-> accepted, by |-> c])
    /\ mu' = NoOne
    /\ mark' = [mark EXCEPT ![c] = accepted]
    /\ Goto(c, "flushWait")
    /\ UNCHANGED <<failed, closed, loopVars, diskVars, accepted, ret, barrier>>

(* ctx.Done in either select of Flush. *)
FlushExpire(c) ==
    /\ FlushDeadline
    /\ pc[c] \in {"flushSend", "flushWait"}
    /\ mu' = IF pc[c] = "flushSend" THEN NoOne ELSE mu
    /\ Return(c, "flushError")
    /\ UNCHANGED <<queue, failed, closed, loopVars, diskVars, accepted, barrier, mark>>

FlushReply(c) ==
    /\ pc[c] = "flushWait"
    /\ \/ barrier[c] = "nil" /\ Return(c, "flushed")
       \/ barrier[c] = "error" /\ Goto(c, "flushFail") /\ UNCHANGED ret
    /\ UNCHANGED <<queue, flagVars, loopVars, diskVars, accepted, barrier, mark>>

(* The caller, not the loop, records a sync that failed for its barrier. *)
FlushFail(c) ==
    /\ pc[c] = "flushFail" /\ mu = NoOne
    /\ failed' = TRUE
    /\ Return(c, "flushError")
    /\ UNCHANGED <<queue, mu, closed, loopVars, diskVars, accepted, barrier, mark>>

(* The select may prefer Writer.done to a reply that is there as well. *)
FlushDone(c) ==
    /\ pc[c] = "flushWait" /\ Stopped /\ mu = NoOne
    /\ Return(c, "flushError")
    /\ UNCHANGED <<queue, flagVars, loopVars, diskVars, accepted, barrier, mark>>

(* Mutant: Close waits without having told the loop to stop. *)
CloseLockSilent(c) ==
    /\ pc[c] = "close" /\ mu = NoOne
    /\ Goto(c, "closeWait")
    /\ UNCHANGED <<queue, flagVars, loopVars, diskVars, accepted, ret, barrier, mark>>

(* A second Close returns at once, with the failure known so far. *)
CloseLock(c) ==
    /\ pc[c] = "close" /\ mu = NoOne
    /\ IF closed
         THEN Return(c, "closedBefore")
         ELSE Goto(c, "closeWait") /\ UNCHANGED ret
    /\ closed' = TRUE
    /\ UNCHANGED <<queue, mu, failed, loopVars, diskVars, accepted, barrier, mark>>

(* wg.Wait, Failure and file.Close. *)
CloseWait(c) ==
    /\ pc[c] = "closeWait" /\ Stopped /\ mu = NoOne
    /\ \/ Return(c, IF failed THEN "closeError" ELSE "closed")
       \/ DiskMayFail /\ Return(c, "closeError")
    /\ UNCHANGED <<queue, flagVars, loopVars, diskVars, accepted, barrier, mark>>

Caller(c) ==
    \/ Call(c) \/ WriteInvalid(c) \/ Write(c)
    \/ FlushLock(c) \/ FlushSend(c) \/ FlushExpire(c) \/ FlushReply(c)
    \/ FlushFail(c) \/ FlushDone(c)
    \/ CloseLock(c) \/ CloseWait(c)

-----------------------------------------------------------------------------
(* The writer goroutine *)

LoopGoto(place) == loop' = place /\ UNCHANGED <<hand, batch>>

(* Receive from the queue, in the main select or while draining. *)
LoopReceive ==
    /\ loop \in {"select", "drain"}
    /\ queue # <<>>
    /\ hand' = Head(queue)
    /\ queue' = Tail(queue)
    /\ loop' = IF loop = "select"
                 THEN IF IsBarrier(Head(queue)) THEN "barrier" ELSE "write"
                 ELSE IF IsBarrier(Head(queue)) THEN "drainBarrier" ELSE "drainWrite"
    /\ UNCHANGED <<flagVars, batch, diskVars, accepted, callerVars>>

(* Mutant: the barrier is answered without a sync. *)
LoopBarrierUnsynced ==
    /\ loop \in {"barrier", "drainBarrier"} /\ mu = NoOne
    /\ barrier' = [barrier EXCEPT ![hand.by] = IF failed THEN "error" ELSE "nil"]
    /\ hand' = NoItem
    /\ loop' = IF loop = "barrier" THEN "select" ELSE "drain"
    /\ UNCHANGED <<queue, flagVars, batch, diskVars, accepted, pc, ret, mark>>

(* syncResult, which takes mu to read failed, and the reply; batch is kept. *)
LoopBarrier ==
    /\ loop \in {"barrier", "drainBarrier"} /\ mu = NoOne
    /\ \/ /\ ~failed
          /\ synced' = Len(file)
          /\ barrier' = [barrier EXCEPT ![hand.by] = "nil"]
       \/ /\ failed \/ DiskMayFail
          /\ UNCHANGED synced
          /\ barrier' = [barrier EXCEPT ![hand.by] = "error"]
    /\ hand' = NoItem
    /\ loop' = IF loop = "barrier" THEN "select" ELSE "drain"
    /\ UNCHANGED <<queue, flagVars, batch, file, torn, accepted, pc, ret, mark>>

(* Whether the write of this event is followed at once by a sync. *)
SyncDue(item) ==
    \/ FsyncDecision /\ item.kind = "decision"
    \/ batch + 1 >= BatchSize

LoopWrite ==
    /\ loop \in {"write", "drainWrite"}
    /\ file' = Append(file, hand)
    /\ hand' = NoItem
    /\ IF loop = "write"
         THEN /\ batch' = batch + 1
              /\ loop' = IF SyncDue(hand) THEN "sync" ELSE "select"
         ELSE loop' = "drain" /\ UNCHANGED batch
    /\ UNCHANGED <<queue, flagVars, torn, synced, accepted, callerVars>>

(* A write error or a short write, which leaves part of the record behind. *)
LoopWriteError ==
    /\ DiskMayFail
    /\ loop \in {"write", "drainWrite"}
    /\ torn' \in BOOLEAN
    /\ hand' = NoItem
    /\ loop' = "fail"
    /\ UNCHANGED <<queue, flagVars, batch, file, synced, accepted, callerVars>>

LoopSync ==
    /\ loop \in {"sync", "drainSync"}
    /\ synced' = Len(file)
    /\ batch' = 0
    /\ loop' = IF loop = "sync" THEN "select" ELSE "stopped"
    /\ UNCHANGED <<queue, flagVars, hand, file, torn, accepted, callerVars>>

LoopSyncError ==
    /\ DiskMayFail
    /\ loop \in {"sync", "drainSync"}
    /\ LoopGoto("fail")
    /\ UNCHANGED <<queue, flagVars, diskVars, accepted, callerVars>>

(* The ticker of BatchInterval. *)
LoopTick ==
    /\ loop = "select"
    /\ batch > 0
    /\ LoopGoto("sync")
    /\ UNCHANGED <<queue, flagVars, diskVars, accepted, callerVars>>

(* Mutant: the loop stops without draining the queue. *)
LoopStopUndrained ==
    /\ loop = "select"
    /\ closed
    /\ LoopGoto("drainSync")
    /\ UNCHANGED <<queue, flagVars, diskVars, accepted, callerVars>>

LoopStop ==
    /\ loop = "select"
    /\ closed
    /\ LoopGoto("drain")
    /\ UNCHANGED <<queue, flagVars, diskVars, accepted, callerVars>>

LoopDrained ==
    /\ loop = "drain"
    /\ queue = <<>>
    /\ LoopGoto("drainSync")
    /\ UNCHANGED <<queue, flagVars, diskVars, accepted, callerVars>>

(* fail takes mu; then the goroutine returns and closes Writer.done. *)
LoopFail ==
    /\ loop = "fail" /\ mu = NoOne
    /\ failed' = TRUE
    /\ LoopGoto("dead")
    /\ UNCHANGED <<queue, mu, closed, diskVars, accepted, callerVars>>

Loop ==
    \/ LoopReceive \/ LoopBarrier \/ LoopWrite \/ LoopWriteError
    \/ LoopSync \/ LoopSyncError \/ LoopTick \/ LoopStop
    \/ LoopDrained \/ LoopFail

Next == Loop \/ \E c \in Callers : Caller(c)

Spec == Init /\ [][Next]_vars

(* The Go scheduler runs every goroutine that can run: the loop, and each   *)
(* caller inside a call.  Nobody is obliged to make a call, no event is     *)
(* obliged to be invalid, and a deadline, where there is one, passes.       *)
Fairness ==
    /\ WF_vars(Loop)
    /\ \A c \in Callers :
          /\ WF_vars(Write(c))
          /\ WF_vars(FlushLock(c))
          /\ WF_vars(FlushSend(c) \/ FlushExpire(c) \/ FlushReply(c) \/ FlushDone(c))
          /\ WF_vars(FlushFail(c))
          /\ WF_vars(CloseLock(c))
          /\ WF_vars(CloseWait(c))

FairSpec == Spec /\ Fairness

-----------------------------------------------------------------------------
(* Properties *)

Working == loop \notin {"fail", "stopped", "dead"}

(* The event numbers of a sequence of items, barriers left out. *)
EventNumbers(items) ==
    LET events == SelectSeq(items, LAMBDA item : ~IsBarrier(item))
    IN  [i \in 1..Len(events) |-> events[i].n]

(* Until a disk error makes the loop give up, and whatever the callers do,  *)
(* every accepted event is exactly once in the file, in the hand of the     *)
(* loop or in the queue, in the order in which Write accepted them: nothing *)
(* is dropped, duplicated or reordered across batches, barriers and drain.  *)
AcceptedInOrder ==
    Working =>
        EventNumbers(file \o (IF hand = NoItem THEN <<>> ELSE <<hand>>) \o queue)
            = [i \in 1..accepted |-> i]

(* "Flush is a FIFO barrier: all events accepted before it are written and  *)
(* synced before it returns": a Flush that returned nil had every event     *)
(* accepted before its barrier on stable storage, also when other callers   *)
(* write, flush, fail or close around it.                                   *)
FlushedIsDurable ==
    \A c \in Callers :
        ret[c] = "flushed" \/ (pc[c] = "flushWait" /\ barrier[c] = "nil")
            => mark[c] <= synced /\ synced <= Len(file)

(* A Close that waited for the loop and returned nil leaves nothing behind: *)
(* all accepted events are synced, and since Write and Flush check closed   *)
(* under mu, no item can enter the queue that the drain has emptied.        *)
ClosedIsDurable ==
    (\E c \in Callers : ret[c] = "closed") =>
        /\ queue = <<>>
        /\ synced = accepted
        /\ Len(file) = accepted
        /\ \A i \in DOMAIN file : file[i].n = i

(* What a power loss can take from a running writer: at most BatchSize      *)
(* records, and with Fsync = Decision, once the loop is back in its select, *)
(* no decision event.  A sync made for a barrier does not reset the batch,  *)
(* so the batch only over-counts the records at risk.                       *)
UnsyncedIsBounded ==
    /\ loop \in {"select", "barrier", "write", "sync"} =>
          /\ Len(file) <= synced + batch
          /\ batch <= BatchSize
    /\ FsyncDecision /\ loop = "select" =>
          \A i \in (synced + 1)..Len(file) : file[i].kind # "decision"

(* Every call returns: "It never blocks indefinitely" (Write), and Flush    *)
(* and Close come back however the loop ends.                               *)
CallsReturn == \A c \in Callers : pc[c] # "idle" ~> pc[c] = "idle"

(* The writer promises what AuditLog states: it only grows while it is      *)
(* neither failed nor closed, durability never runs ahead or backwards, and *)
(* the loop's clean end seals the log with everything durable.              *)
Log == INSTANCE AuditLog WITH
    durable <- synced,
    status <- IF failed THEN "failed" ELSE IF closed THEN "closed" ELSE "open",
    sealed <- loop = "stopped"

ImplementsAuditLog == Log!LogSpec
=============================================================================
