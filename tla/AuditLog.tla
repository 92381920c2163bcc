------------------------------ MODULE AuditLog ------------------------------
(***************************************************************************)
(* What the audit writer promises its callers, without queue, mutex or     *)
(* writer goroutine.  Events are identified by the order in which they are *)
(* accepted, so a set of accepted events is a number.  `durable' events    *)
(* are on stable storage.  A log that was closed without a failure is      *)
(* sealed: everything it ever accepted is durable.                         *)
(***************************************************************************)
EXTENDS Naturals

VARIABLES accepted, durable, status, sealed

logVars == <<accepted, durable, status, sealed>>

LogInit ==
    /\ accepted = 0
    /\ durable = 0
    /\ status = "open"
    /\ sealed = FALSE

(* A caller's event is taken over by the log, which it can refuse at any time. *)
Accept ==
    /\ status = "open"
    /\ accepted' = accepted + 1
    /\ UNCHANGED <<durable, status, sealed>>

(* Storage catches up with some of what was accepted, never backwards. *)
Persist ==
    /\ ~sealed
    /\ durable' > durable
    /\ durable' <= accepted
    /\ UNCHANGED <<accepted, status, sealed>>

Shut ==
    /\ status = "open"
    /\ status' = "closed"
    /\ UNCHANGED <<accepted, durable, sealed>>

Break ==
    /\ status # "failed"
    /\ status' = "failed"
    /\ UNCHANGED <<accepted, durable, sealed>>

(* Closing ends only when the backlog is durable; a failure may already be known. *)
Seal ==
    /\ status # "open"
    /\ ~sealed
    /\ durable' = accepted
    /\ sealed' = TRUE
    /\ UNCHANGED <<accepted, status>>

LogNext == Accept \/ Persist \/ Shut \/ Break \/ Seal

LogSpec == LogInit /\ [][LogNext]_logVars
=============================================================================
