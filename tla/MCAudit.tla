------------------------------ MODULE MCAudit -------------------------------
(***************************************************************************)
(* Instance for TLC: the writer of one run, or the file of several runs.   *)
(* The two do not share state; part says which one a behaviour is about.   *)
(***************************************************************************)
EXTENDS AuditWriter, AuditFile

VARIABLE part
auditVars == <<part, vars, fileVars>>

AuditInit == part \in {"writer", "file"} /\ Init /\ FileInit
AuditNext ==
  \/ part = "writer" /\ Next /\ UNCHANGED <<part, fileVars>>
  \/ part = "file" /\ FileNext /\ UNCHANGED <<part, vars>>
AuditSpec == AuditInit /\ [][AuditNext]_auditVars /\ Fairness
=============================================================================
