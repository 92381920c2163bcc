--------------------------- MODULE ChildLifecycle ---------------------------
(***************************************************************************)
(* What RunChild promises its caller: a child runs only after the setup,   *)
(* the closing phase with its hooks comes only after the child, and        *)
(* `launched' tells a start that failed from a run that ended, which the   *)
(* code alone does not: a child may choose any code.                       *)
(***************************************************************************)
EXTENDS Naturals

CONSTANTS ChildCodes,   \* codes that stand for the status of a child
          StartCodes,   \* codes of a start that failed
          SafetyCode

VARIABLES phase, code, launched

lifecycleVars == <<phase, code, launched>>

LifecycleInit == phase = "setup" /\ code = 0 /\ launched = FALSE

Launch == phase = "setup" /\ phase' = "running" /\ launched' = TRUE /\ UNCHANGED code

Refuse ==
    /\ phase = "setup"
    /\ phase' \in {"closing", "returned"}
    /\ code' \in StartCodes
    /\ UNCHANGED launched

ChildEnds ==
    /\ phase = "running"
    /\ phase' = "closing"
    /\ code' \in ChildCodes \cup {SafetyCode}
    /\ UNCHANGED launched

(* A hook that fails, or does not end in time, replaces the code of a run. *)
Degrade ==
    /\ phase = "closing" /\ launched
    /\ code' = SafetyCode
    /\ phase' \in {"closing", "returned"}
    /\ UNCHANGED launched

Return == phase = "closing" /\ phase' = "returned" /\ UNCHANGED <<code, launched>>

(* A signal ends Kordn, which no child can survive. *)
Perish == phase \in {"setup", "closing"} /\ phase' = "killed" /\ UNCHANGED <<code, launched>>

LifecycleNext == Launch \/ Refuse \/ ChildEnds \/ Degrade \/ Return \/ Perish

LifecycleSpec == LifecycleInit /\ [][LifecycleNext]_lifecycleVars
=============================================================================
