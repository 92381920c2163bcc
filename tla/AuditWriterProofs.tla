------------------------- MODULE AuditWriterProofs -------------------------
(***************************************************************************)
(* Proofs about AuditWriter, for any number of callers, any queue capacity *)
(* and batch size, with or without disk errors and deadlines.              *)
(***************************************************************************)
EXTENDS AuditWriter, TLAPS

(* Facts about sequences. *)
LEMMA SeqBasics ==
    ASSUME NEW S
    PROVE  /\ <<>> \in Seq(S) /\ Len(<<>>) = 0
           /\ \A s \in Seq(S) : Len(s) \in Nat /\ DOMAIN s = 1..Len(s) /\ (s = <<>> <=> Len(s) = 0)
OBVIOUS

LEMMA PopSeq ==
    ASSUME NEW S, NEW s \in Seq(S), s # <<>>
    PROVE  /\ Head(s) \in S /\ Head(s) = s[1] /\ Tail(s) \in Seq(S) /\ Len(Tail(s)) = Len(s) - 1
           /\ \A i \in 1..Len(Tail(s)) : Tail(s)[i] = s[i + 1]
OBVIOUS

(* The loop has not given up: what it has accepted is still accounted for. *)
Accounted == loop \notin {"fail", "dead"}

Weight(item) == IF IsBarrier(item) THEN 0 ELSE 1

(* Events before the queue: in the file, or in the hand of the loop. *)
Base == IF hand = NoItem THEN Len(file) ELSE hand.n

Prev(i) == IF i = 1 THEN Base ELSE queue[i - 1].n

(* Event numbers count up along file, hand and queue; barriers carry the   *)
(* number of the last event before them.                                   *)
FileInv == \A i \in 1..Len(file) : file[i].n = i

HandInv ==
    Accounted =>
        /\ hand # NoItem <=> loop \in {"barrier", "write", "drainBarrier", "drainWrite"}
        /\ loop \in {"barrier", "drainBarrier"} => IsBarrier(hand)
        /\ loop \in {"write", "drainWrite"} => ~IsBarrier(hand)
        /\ hand # NoItem => hand.n = Len(file) + Weight(hand)

QueueInv ==
    Accounted =>
        /\ \A i \in 1..Len(queue) : queue[i].n = Prev(i) + Weight(queue[i])
        /\ accepted = IF Len(queue) = 0 THEN Base ELSE queue[Len(queue)].n

(* A barrier belongs to a caller that is past its send, and carries its mark. *)
BarrierOf(item) ==
    IsBarrier(item) =>
        /\ item.by \in Callers
        /\ item.n = mark[item.by]
        /\ pc[item.by] \notin {"flush", "flushSend"}
        /\ barrier[item.by] # "none"

BarrierInv ==
    /\ \A i \in 1..Len(queue) : BarrierOf(queue[i])
    /\ hand # NoItem => BarrierOf(hand)
    /\ \A c \in Callers :
          /\ pc[c] = "flush" => barrier[c] = "none"
          /\ pc[c] = "flushSend" => barrier[c] = "empty"
          /\ barrier[c] = "nil" => mark[c] <= synced
          /\ ret[c] = "flushed" => mark[c] <= synced
          /\ pc[c] # "idle" => ret[c] = "none"

(* mu is held exactly by a Flush that is sending, on a writer that is open. *)
MutexInv ==
    /\ \A c \in Callers : pc[c] = "flushSend" <=> mu = c
    /\ mu # NoOne => ~closed /\ ~failed

(* The drain starts after closed is set, and ends with an empty queue. *)
DrainInv ==
    /\ loop \in {"drain", "drainBarrier", "drainWrite", "drainSync", "stopped"} => closed
    /\ loop \in {"drainSync", "stopped"} => queue = <<>>
    /\ loop = "stopped" => synced = Len(file)
    /\ loop = "dead" => failed
    /\ \A c \in Callers : ret[c] = "closed" => loop = "stopped"

(* The batch counts at least the records that are not synced. *)
BatchInv ==
    /\ loop \in {"select", "barrier", "write", "sync"} => Len(file) <= synced + batch
    /\ loop \in {"select", "barrier", "write"} => batch < BatchSize
    /\ loop = "sync" => batch <= BatchSize
    /\ FsyncDecision /\ loop \in {"select", "barrier", "write"} =>
          \A i \in (synced + 1)..Len(file) : file[i].kind # "decision"

(* Nothing is synced that is not written, nor written that was not accepted. *)
CountInv ==
    /\ synced <= Len(file)
    /\ Len(file) <= accepted
    /\ hand # NoItem => hand.n <= accepted
    /\ \A i \in 1..Len(queue) : queue[i].n <= accepted

WriterInv ==
    /\ TypeOK
    /\ FileInv
    /\ HandInv
    /\ QueueInv
    /\ BarrierInv
    /\ MutexInv
    /\ DrainInv
    /\ BatchInv
    /\ CountInv

(* What a step that leaves queue, loop and disk alone cannot disturb. *)
LEMMA DataFrame ==
    ASSUME WriterInv, UNCHANGED <<queue, loopVars, diskVars, accepted>>
    PROVE  FileInv' /\ HandInv' /\ QueueInv' /\ BatchInv' /\ CountInv'
<1>. USE DEF WriterInv, loopVars, diskVars
<1>1. FileInv' /\ BatchInv' /\ CountInv'
  BY DEF FileInv, BatchInv, CountInv
<1>2. HandInv' /\ QueueInv'
  BY DEF HandInv, QueueInv, Accounted, Base, Prev, Weight
<1>. QED
  BY <1>1, <1>2

(* What a step of the loop that leaves the flags and the callers alone cannot disturb. *)
LEMMA MutexFrame ==
    ASSUME WriterInv, UNCHANGED <<mu, failed, closed, pc>>
    PROVE  MutexInv'
BY DEF WriterInv, MutexInv

LEMMA CallStep ==
    ASSUME NEW c \in Callers, WriterInv, Call(c)
    PROVE  WriterInv'
<1>. USE NoOneAssumption, NoItemAssumption, EventKindsAssumption, BatchSizeAssumption
     DEF WriterInv, Call, Goto, vars, callerVars, loopVars, diskVars, flagVars
<1>1. TypeOK'
  <2>1. PICK place \in {"write", "flush", "close"} : Goto(c, place)
    OBVIOUS
  <2>2. pc' \in [Callers -> {"idle", "write", "flush", "flushSend", "flushWait",
                        "flushFail", "close", "closeWait"}]
    BY <2>1 DEF TypeOK
  <2>. QED
    BY <2>2 DEF TypeOK
<1>2. BarrierInv'
  BY DEF BarrierInv, BarrierOf, IsBarrier, TypeOK
<1>3. MutexInv'
  BY DEF MutexInv, TypeOK
<1>4. DrainInv'
  BY DEF DrainInv, MutexInv, TypeOK
<1>. QED
  BY <1>1, <1>2, <1>3, <1>4, DataFrame

LEMMA WriteAcceptStep ==
    ASSUME NEW c \in Callers, NEW kind \in EventKinds, WriterInv, WriteAccept(c, kind)
    PROVE  WriterInv'
<1>. USE NoOneAssumption, NoItemAssumption, EventKindsAssumption, BatchSizeAssumption
     DEF WriterInv, WriteAccept, Return, Goto, vars, callerVars, loopVars, diskVars, flagVars
<1>1. TypeOK'
  BY DEF TypeOK, Item
<1>2. FileInv'
  BY DEF FileInv, TypeOK, Item
<1>3. HandInv'
  BY DEF HandInv, Accounted, Weight, IsBarrier, TypeOK, Item
<1>4. QueueInv'
  BY DEF QueueInv, HandInv, Accounted, Base, Prev, Weight, IsBarrier, TypeOK, Item
<1>5. BarrierInv'
  <2>1. ASSUME NEW i \in 1..Len(queue') PROVE BarrierOf(queue[i])'
    <3>1. CASE i = Len(queue) + 1
      <4>1. queue'[i].kind = kind /\ kind # "barrier"
        BY <3>1 DEF TypeOK
      <4>. QED
        BY <4>1 DEF BarrierOf, IsBarrier
    <3>2. CASE i \in 1..Len(queue)
      <4>1. queue'[i] = queue[i] /\ BarrierOf(queue[i])
        BY <3>2 DEF BarrierInv, TypeOK
      <4>2. UNCHANGED <<mark, barrier>> /\ (\A d \in Callers : pc'[d] \in {pc[d], "idle"})
        BY DEF TypeOK
      <4>. QED
        BY <4>1, <4>2 DEF BarrierOf, IsBarrier
    <3>. QED
      BY <2>1, <3>1, <3>2 DEF TypeOK
  <2>2. hand # NoItem => BarrierOf(hand)'
    BY DEF BarrierInv, BarrierOf, TypeOK
  <2>3. hand' = hand
    OBVIOUS
  <2>4. \A d \in Callers : /\ pc'[d] = "flush" => barrier'[d] = "none"
                           /\ pc'[d] = "flushSend" => barrier'[d] = "empty"
                           /\ barrier'[d] = "nil" => mark'[d] <= synced'
                           /\ ret'[d] = "flushed" => mark'[d] <= synced'
                           /\ pc'[d] # "idle" => ret'[d] = "none"
    BY DEF BarrierInv, TypeOK
  <2>. QED
    BY <2>1, <2>2, <2>3, <2>4 DEF BarrierInv
<1>6. MutexInv'
  BY DEF MutexInv, TypeOK
<1>7. DrainInv'
  BY DEF DrainInv, MutexInv, TypeOK
<1>8. BatchInv'
  BY DEF BatchInv, TypeOK, Item, SyncDue
<1>9. CountInv'
  <2>1. \A i \in 1..Len(queue') : queue'[i].n <= accepted'
    <3>1. \A i \in 1..Len(queue') :
             queue'[i] = IF i = Len(queue) + 1
                           THEN [kind |-> kind, n |-> accepted + 1, by |-> NoOne] ELSE queue[i]
      BY DEF TypeOK
    <3>2. \A i \in 1..Len(queue) : queue[i].n \in Nat /\ queue[i].n <= accepted
      <4>1. \A i \in 1..Len(queue) : queue[i] \in Item
        BY DEF TypeOK
      <4>2. \A i \in 1..Len(queue) : queue[i].n <= accepted
        BY DEF CountInv
      <4>. QED
        BY <4>1, <4>2 DEF Item
    <3>3. Len(queue') = Len(queue) + 1 /\ Len(queue) \in Nat /\ accepted \in Nat
      BY DEF TypeOK
    <3>. QED
      BY <3>1, <3>2, <3>3
  <2>. QED
    BY <2>1 DEF CountInv, TypeOK, Item
<1>. QED
  BY <1>1, <1>2, <1>3, <1>4, <1>5, <1>6, <1>7, <1>8, <1>9

LEMMA WriteInvalidStep ==
    ASSUME NEW c \in Callers, WriterInv, WriteInvalid(c)
    PROVE  WriterInv'
<1>. USE NoOneAssumption, NoItemAssumption, EventKindsAssumption, BatchSizeAssumption
     DEF WriterInv, WriteInvalid, Return, Goto, vars, callerVars, loopVars, diskVars, flagVars
<1>1. TypeOK'
  BY DEF TypeOK, Item
<1>2. BarrierInv'
  BY DEF BarrierInv, BarrierOf, IsBarrier, TypeOK
<1>3. MutexInv'
  BY DEF MutexInv, TypeOK
<1>4. DrainInv'
  BY DEF DrainInv, MutexInv, TypeOK
<1>. QED
  BY <1>1, <1>2, <1>3, <1>4, DataFrame

LEMMA WriteRefuseStep ==
    ASSUME NEW c \in Callers, WriterInv, WriteRefuse(c)
    PROVE  WriterInv'
<1>. USE NoOneAssumption, NoItemAssumption, EventKindsAssumption, BatchSizeAssumption
     DEF WriterInv, WriteRefuse, Return, Goto, vars, callerVars, loopVars, diskVars, flagVars
<1>1. TypeOK'
  BY DEF TypeOK, Item
<1>2. BarrierInv'
  BY DEF BarrierInv, BarrierOf, IsBarrier, TypeOK
<1>3. MutexInv'
  BY DEF MutexInv, TypeOK
<1>4. DrainInv'
  BY DEF DrainInv, MutexInv, TypeOK
<1>. QED
  BY <1>1, <1>2, <1>3, <1>4, DataFrame

LEMMA FlushLockStep ==
    ASSUME NEW c \in Callers, WriterInv, FlushLock(c)
    PROVE  WriterInv'
<1>. USE NoOneAssumption, NoItemAssumption, EventKindsAssumption, BatchSizeAssumption
     DEF WriterInv, FlushLock, Return, Goto, vars, callerVars, loopVars, diskVars, flagVars
<1>1. TypeOK'
  <2>1. CASE failed \/ closed
    BY <2>1 DEF TypeOK
  <2>2. CASE ~failed /\ ~closed
    BY <2>2 DEF TypeOK
  <2>. QED
    BY <2>1, <2>2
<1>2. BarrierInv'
  BY DEF BarrierInv, BarrierOf, IsBarrier, TypeOK
<1>3. MutexInv'
  BY DEF MutexInv, TypeOK
<1>4. DrainInv'
  BY DEF DrainInv, MutexInv, TypeOK
<1>. QED
  BY <1>1, <1>2, <1>3, <1>4, DataFrame

LEMMA FlushSendStep ==
    ASSUME NEW c \in Callers, WriterInv, FlushSend(c)
    PROVE  WriterInv'
<1>. USE NoOneAssumption, NoItemAssumption, EventKindsAssumption, BatchSizeAssumption
     DEF WriterInv, FlushSend, Goto, vars, callerVars, loopVars, diskVars, flagVars
<1>1. TypeOK'
  BY DEF TypeOK, Item
<1>2. FileInv'
  BY DEF FileInv, TypeOK, Item
<1>3. HandInv'
  BY DEF HandInv, Accounted, Weight, IsBarrier, TypeOK, Item
<1>4. QueueInv'
  BY DEF QueueInv, HandInv, Accounted, Base, Prev, Weight, IsBarrier, TypeOK, Item
<1>5. BarrierInv'
  BY DEF BarrierInv, BarrierOf, IsBarrier, TypeOK
<1>6. MutexInv'
  BY DEF MutexInv, TypeOK
<1>7. DrainInv'
  BY DEF DrainInv, MutexInv, TypeOK
<1>8. BatchInv'
  BY DEF BatchInv, TypeOK, Item, SyncDue
<1>9. CountInv'
  BY DEF CountInv, TypeOK, Item
<1>. QED
  BY <1>1, <1>2, <1>3, <1>4, <1>5, <1>6, <1>7, <1>8, <1>9

LEMMA FlushExpireStep ==
    ASSUME NEW c \in Callers, WriterInv, FlushExpire(c)
    PROVE  WriterInv'
<1>. USE NoOneAssumption, NoItemAssumption, EventKindsAssumption, BatchSizeAssumption
     DEF WriterInv, FlushExpire, Return, Goto, vars, callerVars, loopVars, diskVars, flagVars
<1>1. TypeOK'
  BY DEF TypeOK, Item
<1>2. BarrierInv'
  <2>1. \A item \in Item : BarrierOf(item) => BarrierOf(item)'
    BY DEF BarrierOf, IsBarrier, TypeOK
  <2>2. \A i \in 1..Len(queue) : queue[i] \in Item
    BY DEF TypeOK
  <2>3. \A d \in Callers : d # c => pc'[d] = pc[d] /\ ret'[d] = ret[d]
    BY DEF TypeOK
  <2>4. pc'[c] = "idle" /\ ret'[c] # "flushed"
    BY DEF TypeOK
  <2>. QED
    BY <2>1, <2>2, <2>3, <2>4 DEF BarrierInv, TypeOK
<1>3. MutexInv'
  BY DEF MutexInv, TypeOK
<1>4. DrainInv'
  BY DEF DrainInv, MutexInv, TypeOK
<1>. QED
  BY <1>1, <1>2, <1>3, <1>4, DataFrame

LEMMA FlushReplyStep ==
    ASSUME NEW c \in Callers, WriterInv, FlushReply(c)
    PROVE  WriterInv'
<1>. USE NoOneAssumption, NoItemAssumption, EventKindsAssumption, BatchSizeAssumption
     DEF WriterInv, FlushReply, Return, Goto, vars, callerVars, loopVars, diskVars, flagVars
<1>1. TypeOK'
  <2>1. CASE barrier[c] = "nil" /\ Return(c, "flushed")
    BY <2>1 DEF TypeOK
  <2>2. CASE barrier[c] = "error" /\ Goto(c, "flushFail") /\ UNCHANGED ret
    BY <2>2 DEF TypeOK
  <2>. QED
    BY <2>1, <2>2
<1>2. BarrierInv'
  <2>1. CASE barrier[c] = "nil" /\ Return(c, "flushed")
    BY <2>1 DEF BarrierInv, BarrierOf, IsBarrier, TypeOK
  <2>2. CASE barrier[c] = "error" /\ Goto(c, "flushFail") /\ UNCHANGED ret
    BY <2>2 DEF BarrierInv, BarrierOf, IsBarrier, TypeOK
  <2>. QED
    BY <2>1, <2>2
<1>3. MutexInv'
  BY DEF MutexInv, TypeOK
<1>4. DrainInv'
  BY DEF DrainInv, MutexInv, TypeOK
<1>. QED
  BY <1>1, <1>2, <1>3, <1>4, DataFrame

LEMMA FlushFailStep ==
    ASSUME NEW c \in Callers, WriterInv, FlushFail(c)
    PROVE  WriterInv'
<1>. USE NoOneAssumption, NoItemAssumption, EventKindsAssumption, BatchSizeAssumption
     DEF WriterInv, FlushFail, Return, Goto, vars, callerVars, loopVars, diskVars, flagVars
<1>1. TypeOK'
  BY DEF TypeOK, Item
<1>2. BarrierInv'
  BY DEF BarrierInv, BarrierOf, IsBarrier, TypeOK
<1>3. MutexInv'
  BY DEF MutexInv, TypeOK
<1>4. DrainInv'
  BY DEF DrainInv, MutexInv, TypeOK
<1>. QED
  BY <1>1, <1>2, <1>3, <1>4, DataFrame

LEMMA FlushDoneStep ==
    ASSUME NEW c \in Callers, WriterInv, FlushDone(c)
    PROVE  WriterInv'
<1>. USE NoOneAssumption, NoItemAssumption, EventKindsAssumption, BatchSizeAssumption
     DEF WriterInv, FlushDone, Return, Goto, Stopped, vars, callerVars, loopVars, diskVars, flagVars
<1>1. TypeOK'
  BY DEF TypeOK, Item
<1>2. BarrierInv'
  BY DEF BarrierInv, BarrierOf, IsBarrier, TypeOK
<1>3. MutexInv'
  BY DEF MutexInv, TypeOK
<1>4. DrainInv'
  BY DEF DrainInv, MutexInv, TypeOK
<1>. QED
  BY <1>1, <1>2, <1>3, <1>4, DataFrame

LEMMA CloseLockStep ==
    ASSUME NEW c \in Callers, WriterInv, CloseLock(c)
    PROVE  WriterInv'
<1>. USE NoOneAssumption, NoItemAssumption, EventKindsAssumption, BatchSizeAssumption
     DEF WriterInv, CloseLock, Return, Goto, vars, callerVars, loopVars, diskVars, flagVars
<1>1. TypeOK'
  <2>1. CASE closed
    BY <2>1 DEF TypeOK
  <2>2. CASE ~closed
    BY <2>2 DEF TypeOK
  <2>. QED
    BY <2>1, <2>2
<1>2. BarrierInv'
  <2>1. CASE closed
    BY <2>1 DEF BarrierInv, BarrierOf, IsBarrier, TypeOK
  <2>2. CASE ~closed
    BY <2>2 DEF BarrierInv, BarrierOf, IsBarrier, TypeOK
  <2>. QED
    BY <2>1, <2>2
<1>3. MutexInv'
  BY DEF MutexInv, TypeOK
<1>4. DrainInv'
  BY DEF DrainInv, MutexInv, TypeOK
<1>. QED
  BY <1>1, <1>2, <1>3, <1>4, DataFrame

LEMMA CloseWaitStep ==
    ASSUME NEW c \in Callers, WriterInv, CloseWait(c)
    PROVE  WriterInv'
<1>. USE NoOneAssumption, NoItemAssumption, EventKindsAssumption, BatchSizeAssumption
     DEF WriterInv, CloseWait, Return, Goto, Stopped, vars, callerVars, loopVars, diskVars, flagVars
<1>1. TypeOK'
  BY DEF TypeOK, Item
<1>2. BarrierInv'
  <2>1. \A item \in Item : BarrierOf(item) => BarrierOf(item)'
    BY DEF BarrierOf, IsBarrier, TypeOK
  <2>2. \A i \in 1..Len(queue) : queue[i] \in Item
    BY DEF TypeOK
  <2>3. \A d \in Callers : d # c => pc'[d] = pc[d] /\ ret'[d] = ret[d]
    BY DEF TypeOK
  <2>4. pc'[c] = "idle" /\ ret'[c] # "flushed"
    BY DEF TypeOK
  <2>. QED
    BY <2>1, <2>2, <2>3, <2>4 DEF BarrierInv, TypeOK
<1>3. MutexInv'
  BY DEF MutexInv, TypeOK
<1>4. DrainInv'
  BY DEF DrainInv, MutexInv, TypeOK
<1>. QED
  BY <1>1, <1>2, <1>3, <1>4, DataFrame

LEMMA LoopReceiveStep ==
    ASSUME WriterInv, LoopReceive
    PROVE  WriterInv'
<1>. USE NoOneAssumption, NoItemAssumption, EventKindsAssumption, BatchSizeAssumption
     DEF WriterInv, LoopReceive, vars, callerVars, loopVars, diskVars, flagVars
<1>0. /\ hand' = queue[1] /\ hand' \in Item
      /\ queue' \in Seq(Item)
      /\ Len(queue') = Len(queue) - 1 /\ Len(queue) > 0
      /\ \A i \in 1..Len(queue') : queue'[i] = queue[i + 1]
  BY PopSeq, SeqBasics DEF TypeOK
<1>00. hand' # NoItem
  BY <1>0 DEF Item
<1>1. TypeOK'
  BY <1>0 DEF TypeOK
<1>2. FileInv'
  BY DEF FileInv, TypeOK, Item
<1>3. HandInv'
  <2>. SUFFICES ASSUME Accounted PROVE HandInv'
    BY DEF HandInv, Accounted
  <2>1. hand = NoItem
    BY DEF HandInv
  <2>2. queue[1].n = Len(file) + Weight(queue[1])
    BY <1>0, <2>1 DEF QueueInv, Prev, Base, TypeOK
  <2>. QED
    BY <1>0, <1>00, <2>2 DEF HandInv, Accounted, Weight, IsBarrier
<1>4. QueueInv'
  <2>. SUFFICES ASSUME Accounted PROVE QueueInv'
    BY DEF QueueInv, Accounted
  <2>1. \A i \in 1..Len(queue') : queue'[i].n = Prev(i)' + Weight(queue'[i])
    <3>. SUFFICES ASSUME NEW i \in 1..Len(queue')
                  PROVE  queue'[i].n = Prev(i)' + Weight(queue'[i])
      OBVIOUS
    <3>1. Len(queue) \in Nat /\ i + 1 \in 1..Len(queue) /\ i \in 1..Len(queue)
      BY <1>0, SeqBasics DEF TypeOK
    <3>2. queue[i + 1].n = queue[i].n + Weight(queue[i + 1])
      BY <3>1 DEF QueueInv, Prev
    <3>3. CASE i = 1
      BY <1>0, <1>00, <3>2, <3>3 DEF Prev, Base
    <3>4. CASE i # 1
      <4>1. queue'[i - 1] = queue[i]
        BY <1>0, <3>1, <3>4
      <4>. QED
        BY <1>0, <3>2, <3>4, <4>1 DEF Prev
    <3>. QED
      BY <3>3, <3>4
  <2>2. accepted' = IF Len(queue') = 0 THEN Base' ELSE queue'[Len(queue')].n
    BY <1>0, <1>00 DEF QueueInv, Base, TypeOK
  <2>. QED
    BY <2>1, <2>2 DEF QueueInv
<1>5. BarrierInv'
  BY <1>0 DEF BarrierInv, BarrierOf, IsBarrier
<1>6. DrainInv'
  BY DEF DrainInv, MutexInv, TypeOK
<1>7. BatchInv'
  BY DEF BatchInv, TypeOK, Item, SyncDue
<1>8. CountInv'
  BY <1>0 DEF CountInv, TypeOK
<1>. QED
  BY <1>1, <1>2, <1>3, <1>4, <1>5, <1>6, <1>7, <1>8, MutexFrame

LEMMA LoopBarrierStep ==
    ASSUME WriterInv, LoopBarrier
    PROVE  WriterInv'
<1>. USE NoOneAssumption, NoItemAssumption, EventKindsAssumption, BatchSizeAssumption
     DEF WriterInv, LoopBarrier, vars, callerVars, loopVars, diskVars, flagVars
<1>0. /\ hand \in Item /\ IsBarrier(hand) /\ hand.by \in Callers
      /\ hand.n = Len(file) /\ mark[hand.by] = Len(file)
      /\ pc[hand.by] \notin {"flush", "flushSend"}
  BY DEF HandInv, Accounted, BarrierInv, BarrierOf, Weight, TypeOK
<1>00. \/ synced' = Len(file) /\ barrier' = [barrier EXCEPT ![hand.by] = "nil"]
       \/ synced' = synced /\ barrier' = [barrier EXCEPT ![hand.by] = "error"]
  OBVIOUS
<1>1. TypeOK'
  <2>1. synced' \in Nat
    BY <1>00 DEF TypeOK
  <2>2. barrier' \in [Callers -> {"none", "empty", "nil", "error"}]
    BY <1>0, <1>00 DEF TypeOK
  <2>. QED
    BY <2>1, <2>2 DEF TypeOK
<1>2. FileInv'
  BY DEF FileInv, TypeOK, Item
<1>3. HandInv'
  BY DEF HandInv, Accounted, Weight, IsBarrier, TypeOK, Item
<1>4. QueueInv'
  BY DEF QueueInv, HandInv, Accounted, Base, Prev, Weight, IsBarrier, TypeOK, Item
<1>5. BarrierInv'
  <2>1. \A i \in 1..Len(queue) : BarrierOf(queue[i])'
    BY <1>0, <1>00 DEF BarrierInv, BarrierOf, IsBarrier, TypeOK
  <2>2. synced <= synced' /\ synced' <= Len(file)
    BY <1>00 DEF CountInv, TypeOK
  <2>3. \A c \in Callers : c # hand.by => barrier'[c] = barrier[c]
    BY <1>00 DEF TypeOK
  <2>4. barrier'[hand.by] = "nil" => synced' = Len(file)
    BY <1>0, <1>00 DEF TypeOK
  <2>5. ASSUME NEW c \in Callers
        PROVE  /\ pc[c] = "flush" => barrier'[c] = "none"
               /\ pc[c] = "flushSend" => barrier'[c] = "empty"
    BY <1>0, <2>3 DEF BarrierInv, BarrierOf
  <2>6. ASSUME NEW c \in Callers
        PROVE  /\ barrier'[c] = "nil" => mark[c] <= synced'
               /\ ret[c] = "flushed" => mark[c] <= synced'
    BY <1>0, <2>2, <2>3, <2>4 DEF BarrierInv, TypeOK
  <2>. QED
    BY <2>1, <2>5, <2>6 DEF BarrierInv
<1>6. DrainInv'
  BY DEF DrainInv, MutexInv, TypeOK
<1>7. BatchInv'
  BY DEF BatchInv, TypeOK, Item, SyncDue
<1>8. CountInv'
  BY DEF CountInv, TypeOK, Item
<1>. QED
  BY <1>1, <1>2, <1>3, <1>4, <1>5, <1>6, <1>7, <1>8, MutexFrame

LEMMA LoopWriteStep ==
    ASSUME WriterInv, LoopWrite
    PROVE  WriterInv'
<1>. USE NoOneAssumption, NoItemAssumption, EventKindsAssumption, BatchSizeAssumption
     DEF WriterInv, LoopWrite, vars, callerVars, loopVars, diskVars, flagVars
<1>0. hand \in Item /\ ~IsBarrier(hand) /\ hand.n = Len(file) + 1
  BY DEF HandInv, Accounted, Weight, TypeOK
<1>00. hand # NoItem
  BY <1>0 DEF Item
<1>1. TypeOK'
  BY <1>0 DEF TypeOK
<1>2. FileInv'
  BY <1>0 DEF FileInv, TypeOK
<1>3. HandInv'
  BY DEF HandInv, Accounted, Weight, IsBarrier, TypeOK, Item
<1>4. QueueInv'
  BY DEF QueueInv, HandInv, Accounted, Base, Prev, Weight, IsBarrier, TypeOK, Item
<1>5. BarrierInv'
  BY DEF BarrierInv, BarrierOf, IsBarrier, TypeOK
<1>6. DrainInv'
  BY DEF DrainInv, MutexInv, TypeOK
<1>7. BatchInv'
  BY DEF BatchInv, TypeOK, Item, SyncDue
<1>8. CountInv'
  BY <1>0, <1>00 DEF CountInv, TypeOK
<1>. QED
  BY <1>1, <1>2, <1>3, <1>4, <1>5, <1>6, <1>7, <1>8, MutexFrame

LEMMA LoopWriteErrorStep ==
    ASSUME WriterInv, LoopWriteError
    PROVE  WriterInv'
<1>. USE NoOneAssumption, NoItemAssumption, EventKindsAssumption, BatchSizeAssumption
     DEF WriterInv, LoopWriteError, vars, callerVars, loopVars, diskVars, flagVars
<1>1. TypeOK'
  BY DEF TypeOK, Item
<1>2. FileInv'
  BY DEF FileInv, TypeOK, Item
<1>3. HandInv'
  BY DEF HandInv, Accounted, Weight, IsBarrier, TypeOK, Item
<1>4. QueueInv'
  BY DEF QueueInv, HandInv, Accounted, Base, Prev, Weight, IsBarrier, TypeOK, Item
<1>5. BarrierInv'
  BY DEF BarrierInv, BarrierOf, IsBarrier, TypeOK
<1>6. DrainInv'
  BY DEF DrainInv, MutexInv, TypeOK
<1>7. BatchInv'
  BY DEF BatchInv, TypeOK, Item, SyncDue
<1>8. CountInv'
  BY DEF CountInv, TypeOK, Item
<1>. QED
  BY <1>1, <1>2, <1>3, <1>4, <1>5, <1>6, <1>7, <1>8, MutexFrame

LEMMA LoopSyncStep ==
    ASSUME WriterInv, LoopSync
    PROVE  WriterInv'
<1>. USE NoOneAssumption, NoItemAssumption, EventKindsAssumption, BatchSizeAssumption
     DEF WriterInv, LoopSync, vars, callerVars, loopVars, diskVars, flagVars
<1>1. TypeOK'
  BY DEF TypeOK, Item
<1>2. FileInv'
  BY DEF FileInv, TypeOK, Item
<1>3. HandInv'
  BY DEF HandInv, Accounted, Weight, IsBarrier, TypeOK, Item
<1>4. QueueInv'
  BY DEF QueueInv, HandInv, Accounted, Base, Prev, Weight, IsBarrier, TypeOK, Item
<1>5. BarrierInv'
  <2>1. \A i \in 1..Len(queue) : BarrierOf(queue[i])'
    BY DEF BarrierInv, BarrierOf, IsBarrier
  <2>2. synced \in Nat /\ synced' \in Nat /\ mark \in [Callers -> Nat] /\ synced <= synced'
    BY DEF CountInv, TypeOK
  <2>3. \A c \in Callers : mark[c] \in Nat /\ (mark[c] <= synced => mark[c] <= synced')
    BY <2>2
  <2>. QED
    BY <2>1, <2>3 DEF BarrierInv, BarrierOf, IsBarrier
<1>6. DrainInv'
  BY DEF DrainInv, MutexInv, TypeOK
<1>7. BatchInv'
  BY DEF BatchInv, TypeOK, Item, SyncDue
<1>8. CountInv'
  BY DEF CountInv, TypeOK, Item
<1>. QED
  BY <1>1, <1>2, <1>3, <1>4, <1>5, <1>6, <1>7, <1>8, MutexFrame

LEMMA LoopSyncErrorStep ==
    ASSUME WriterInv, LoopSyncError
    PROVE  WriterInv'
<1>. USE NoOneAssumption, NoItemAssumption, EventKindsAssumption, BatchSizeAssumption
     DEF WriterInv, LoopSyncError, LoopGoto, vars, callerVars, loopVars, diskVars, flagVars
<1>1. TypeOK'
  BY DEF TypeOK, Item
<1>2. FileInv'
  BY DEF FileInv, TypeOK, Item
<1>3. HandInv'
  BY DEF HandInv, Accounted, Weight, IsBarrier, TypeOK, Item
<1>4. QueueInv'
  BY DEF QueueInv, HandInv, Accounted, Base, Prev, Weight, IsBarrier, TypeOK, Item
<1>5. BarrierInv'
  BY DEF BarrierInv, BarrierOf, IsBarrier, TypeOK
<1>6. DrainInv'
  BY DEF DrainInv, MutexInv, TypeOK
<1>7. BatchInv'
  BY DEF BatchInv, TypeOK, Item, SyncDue
<1>8. CountInv'
  BY DEF CountInv, TypeOK, Item
<1>. QED
  BY <1>1, <1>2, <1>3, <1>4, <1>5, <1>6, <1>7, <1>8, MutexFrame

LEMMA LoopTickStep ==
    ASSUME WriterInv, LoopTick
    PROVE  WriterInv'
<1>. USE NoOneAssumption, NoItemAssumption, EventKindsAssumption, BatchSizeAssumption
     DEF WriterInv, LoopTick, LoopGoto, vars, callerVars, loopVars, diskVars, flagVars
<1>1. TypeOK'
  BY DEF TypeOK, Item
<1>2. FileInv'
  BY DEF FileInv, TypeOK, Item
<1>3. HandInv'
  BY DEF HandInv, Accounted, Weight, IsBarrier, TypeOK, Item
<1>4. QueueInv'
  BY DEF QueueInv, HandInv, Accounted, Base, Prev, Weight, IsBarrier, TypeOK, Item
<1>5. BarrierInv'
  BY DEF BarrierInv, BarrierOf, IsBarrier, TypeOK
<1>6. DrainInv'
  BY DEF DrainInv, MutexInv, TypeOK
<1>7. BatchInv'
  BY DEF BatchInv, TypeOK, Item, SyncDue
<1>8. CountInv'
  BY DEF CountInv, TypeOK, Item
<1>. QED
  BY <1>1, <1>2, <1>3, <1>4, <1>5, <1>6, <1>7, <1>8, MutexFrame

LEMMA LoopStopStep ==
    ASSUME WriterInv, LoopStop
    PROVE  WriterInv'
<1>. USE NoOneAssumption, NoItemAssumption, EventKindsAssumption, BatchSizeAssumption
     DEF WriterInv, LoopStop, LoopGoto, vars, callerVars, loopVars, diskVars, flagVars
<1>1. TypeOK'
  BY DEF TypeOK, Item
<1>2. FileInv'
  BY DEF FileInv, TypeOK, Item
<1>3. HandInv'
  BY DEF HandInv, Accounted, Weight, IsBarrier, TypeOK, Item
<1>4. QueueInv'
  BY DEF QueueInv, HandInv, Accounted, Base, Prev, Weight, IsBarrier, TypeOK, Item
<1>5. BarrierInv'
  BY DEF BarrierInv, BarrierOf, IsBarrier, TypeOK
<1>6. DrainInv'
  BY DEF DrainInv, MutexInv, TypeOK
<1>7. BatchInv'
  BY DEF BatchInv, TypeOK, Item, SyncDue
<1>8. CountInv'
  BY DEF CountInv, TypeOK, Item
<1>. QED
  BY <1>1, <1>2, <1>3, <1>4, <1>5, <1>6, <1>7, <1>8, MutexFrame

LEMMA LoopDrainedStep ==
    ASSUME WriterInv, LoopDrained
    PROVE  WriterInv'
<1>. USE NoOneAssumption, NoItemAssumption, EventKindsAssumption, BatchSizeAssumption
     DEF WriterInv, LoopDrained, LoopGoto, vars, callerVars, loopVars, diskVars, flagVars
<1>1. TypeOK'
  BY DEF TypeOK, Item
<1>2. FileInv'
  BY DEF FileInv, TypeOK, Item
<1>3. HandInv'
  BY DEF HandInv, Accounted, Weight, IsBarrier, TypeOK, Item
<1>4. QueueInv'
  BY DEF QueueInv, HandInv, Accounted, Base, Prev, Weight, IsBarrier, TypeOK, Item
<1>5. BarrierInv'
  BY DEF BarrierInv, BarrierOf, IsBarrier, TypeOK
<1>6. DrainInv'
  BY DEF DrainInv, MutexInv, TypeOK
<1>7. BatchInv'
  BY DEF BatchInv, TypeOK, Item, SyncDue
<1>8. CountInv'
  BY DEF CountInv, TypeOK, Item
<1>. QED
  BY <1>1, <1>2, <1>3, <1>4, <1>5, <1>6, <1>7, <1>8, MutexFrame

LEMMA LoopFailStep ==
    ASSUME WriterInv, LoopFail
    PROVE  WriterInv'
<1>. USE NoOneAssumption, NoItemAssumption, EventKindsAssumption, BatchSizeAssumption
     DEF WriterInv, LoopFail, LoopGoto, vars, callerVars, loopVars, diskVars, flagVars
<1>1. TypeOK'
  BY DEF TypeOK, Item
<1>2. FileInv'
  BY DEF FileInv, TypeOK, Item
<1>3. HandInv'
  BY DEF HandInv, Accounted, Weight, IsBarrier, TypeOK, Item
<1>4. QueueInv'
  BY DEF QueueInv, HandInv, Accounted, Base, Prev, Weight, IsBarrier, TypeOK, Item
<1>5. BarrierInv'
  BY DEF BarrierInv, BarrierOf, IsBarrier, TypeOK
<1>6. MutexInv'
  BY DEF MutexInv, TypeOK
<1>7. DrainInv'
  BY DEF DrainInv, MutexInv, TypeOK
<1>8. BatchInv'
  BY DEF BatchInv, TypeOK, Item, SyncDue
<1>9. CountInv'
  BY DEF CountInv, TypeOK, Item
<1>. QED
  BY <1>1, <1>2, <1>3, <1>4, <1>5, <1>6, <1>7, <1>8, <1>9

LEMMA InitInv == Init => WriterInv
<1>. SUFFICES ASSUME Init PROVE WriterInv
  OBVIOUS
<1>. USE NoOneAssumption, BatchSizeAssumption DEF Init
<1>1. TypeOK
  BY SeqBasics DEF TypeOK
<1>2. FileInv /\ HandInv /\ QueueInv
  BY DEF FileInv, HandInv, QueueInv, Base
<1>3. BarrierInv /\ MutexInv /\ DrainInv /\ BatchInv /\ CountInv
  BY DEF CountInv, BarrierInv, MutexInv, DrainInv, BatchInv
<1>. QED
  BY <1>1, <1>2, <1>3 DEF WriterInv

LEMMA StutterInv == WriterInv /\ UNCHANGED vars => WriterInv'
<1>. SUFFICES ASSUME WriterInv, UNCHANGED vars
              PROVE  WriterInv'
  OBVIOUS
<1>. USE DEF WriterInv, vars, callerVars, loopVars, diskVars, flagVars
<1>1. TypeOK'
  BY DEF TypeOK
<1>2. BarrierInv'
  BY DEF BarrierInv, BarrierOf
<1>3. DrainInv'
  BY DEF DrainInv
<1>. QED
  BY <1>1, <1>2, <1>3, DataFrame, MutexFrame

LEMMA NextInv == WriterInv /\ [Next]_vars => WriterInv'
<1>1. ASSUME WriterInv, Loop PROVE WriterInv'
  BY <1>1, LoopReceiveStep, LoopBarrierStep, LoopWriteStep, LoopWriteErrorStep, LoopSyncStep,
     LoopSyncErrorStep, LoopTickStep, LoopStopStep, LoopDrainedStep, LoopFailStep DEF Loop
<1>2. ASSUME WriterInv, NEW c \in Callers, Caller(c) PROVE WriterInv'
  BY <1>2, CallStep, WriteAcceptStep, WriteInvalidStep, WriteRefuseStep, FlushLockStep,
     FlushSendStep, FlushExpireStep, FlushReplyStep, FlushFailStep, FlushDoneStep,
     CloseLockStep, CloseWaitStep DEF Caller, Write
<1>. QED
  BY <1>1, <1>2, StutterInv DEF Next

(* The invariant is inductive, so it holds in every reachable state. *)
THEOREM WriterInvariant == Spec => []WriterInv
BY InitInv, NextInv, PTL DEF Spec

(* The variables keep their types for every choice of the constants. *)
THEOREM TypeCorrect == Spec => []TypeOK
<1>1. WriterInv => TypeOK
  BY DEF WriterInv
<1>. QED
  BY <1>1, WriterInvariant, PTL

(* A Flush that returned nil (jsonl.go, Flush) had everything accepted     *)
(* before it on stable storage, for any callers, capacity and disk errors. *)
THEOREM FlushDurability == Spec => []FlushedIsDurable
<1>1. WriterInv => FlushedIsDurable
  BY DEF WriterInv, BarrierInv, CountInv, FlushedIsDurable
<1>. QED
  BY <1>1, WriterInvariant, PTL

(* A Close that returned nil after waiting for the loop (jsonl.go, Close)  *)
(* left an empty queue and a file that holds, in order and synced, every   *)
(* event that was ever accepted.                                           *)
THEOREM CloseDurability == Spec => []ClosedIsDurable
<1>1. WriterInv => ClosedIsDurable
  <2>. SUFFICES ASSUME WriterInv, NEW c \in Callers, ret[c] = "closed"
                PROVE  /\ queue = <<>>
                       /\ synced = accepted
                       /\ Len(file) = accepted
                       /\ \A i \in DOMAIN file : file[i].n = i
    BY DEF ClosedIsDurable
  <2>1. loop = "stopped" /\ queue = <<>> /\ synced = Len(file)
    BY DEF WriterInv, DrainInv
  <2>2. accepted = Len(file)
    BY <2>1, SeqBasics DEF WriterInv, QueueInv, HandInv, Accounted, Base
  <2>3. DOMAIN file = 1..Len(file)
    BY SeqBasics DEF WriterInv, TypeOK
  <2>. QED
    BY <2>1, <2>2, <2>3 DEF WriterInv, FileInv
<1>. QED
  BY <1>1, WriterInvariant, PTL

(* A running writer never has more than BatchSize records unsynced and,    *)
(* with Fsync = Decision, no decision event (jsonl.go, loop).              *)
THEOREM UnsyncedBound == Spec => []UnsyncedIsBounded
<1>1. WriterInv => UnsyncedIsBounded
  BY BatchSizeAssumption DEF WriterInv, BatchInv, UnsyncedIsBounded, TypeOK
<1>. QED
  BY <1>1, WriterInvariant, PTL
(* Every step of the writer is a step of AuditLog, or changes none of its variables. *)
LEMMA StepRefines ==
    ASSUME WriterInv, [Next]_vars
    PROVE  [Log!LogNext]_(Log!logVars)
<1>. USE DEF WriterInv, Log!LogNext, Log!logVars, vars, callerVars, loopVars, diskVars, flagVars
<1>1. CASE UNCHANGED vars
  BY <1>1
<1>2. ASSUME NEW c \in Callers, Caller(c)
      PROVE  [Log!LogNext]_(Log!logVars)
  <2>1. ASSUME NEW kind \in EventKinds, WriteAccept(c, kind)
        PROVE  Log!Accept
    BY <2>1 DEF WriteAccept, Log!Accept
  <2>2. CASE CloseLock(c)
    BY <2>2 DEF CloseLock, Log!Shut, TypeOK
  <2>3. CASE FlushFail(c)
    BY <2>3 DEF FlushFail, Log!Break, TypeOK
  <2>4. CASE Call(c) \/ WriteInvalid(c) \/ WriteRefuse(c) \/ FlushLock(c) \/ FlushSend(c)
    <3>. SUFFICES UNCHANGED <<accepted, diskVars, failed, closed, loopVars>>
      OBVIOUS
    <3>. QED
      BY <2>4 DEF Call, WriteInvalid, WriteRefuse, FlushLock, FlushSend
  <2>5. CASE FlushExpire(c) \/ FlushReply(c) \/ FlushDone(c) \/ CloseWait(c)
    <3>. SUFFICES UNCHANGED <<accepted, diskVars, failed, closed, loopVars>>
      OBVIOUS
    <3>. QED
      BY <2>5 DEF FlushExpire, FlushReply, FlushDone, CloseWait
  <2>. QED
    BY <1>2, <2>1, <2>2, <2>3, <2>4, <2>5 DEF Caller, Write
<1>3. ASSUME Loop
      PROVE  [Log!LogNext]_(Log!logVars)
  <2>1. CASE LoopBarrier
    BY <2>1 DEF LoopBarrier, Log!Persist, CountInv, DrainInv, TypeOK
  <2>2. CASE LoopSync /\ loop = "sync"
    BY <2>2 DEF LoopSync, Log!Persist, CountInv, TypeOK
  <2>3. CASE LoopSync /\ loop = "drainSync"
    <3>1. closed /\ accepted = Len(file)
      BY <2>3, SeqBasics DEF DrainInv, QueueInv, HandInv, Accounted, Base
    <3>. QED
      BY <2>3, <3>1 DEF LoopSync, Log!Seal, TypeOK
  <2>4. CASE LoopFail
    BY <2>4 DEF LoopFail, LoopGoto, Log!Break, TypeOK
  <2>5. CASE LoopReceive \/ LoopWrite \/ LoopWriteError \/ LoopSyncError
    BY <2>5 DEF LoopReceive, LoopWrite, LoopWriteError, LoopSyncError, LoopGoto
  <2>6. CASE LoopTick \/ LoopStop \/ LoopDrained
    BY <2>6 DEF LoopTick, LoopStop, LoopDrained, LoopGoto
  <2>. QED
    BY <1>3, <2>1, <2>2, <2>3, <2>4, <2>5, <2>6 DEF Loop, LoopSync
<1>. QED
  BY <1>1, <1>2, <1>3 DEF Next

(* The writer implements AuditLog: for every instance, what its callers    *)
(* see of acceptance, durability, failure and closing is a behaviour of    *)
(* the abstract log.                                                       *)
THEOREM Refinement == Spec => ImplementsAuditLog
<1>1. Init => Log!LogInit
  BY SeqBasics DEF Init, Log!LogInit
<1>. QED
  BY <1>1, StepRefines, WriterInvariant, PTL DEF Spec, ImplementsAuditLog, Log!LogSpec
=============================================================================
