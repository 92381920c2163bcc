------------------------------- MODULE MCGlob -------------------------------
(* Glob on all patterns and values up to the length limit, and one beyond it. *)
EXTENDS Glob

CONSTANTS a, A, nul

ByteSet == {StarByte, AnyByte, a, A, nul}
Fold == [b \in ByteSet |-> IF b = A THEN a ELSE b]

Strings(n) == UNION {[1..k -> ByteSet] : k \in 0..n}

MCInit ==
    \E p \in Strings(MaxGlobLength), v \in Strings(MaxGlobLength + 1), action \in BOOLEAN :
        Start(p, v, action)

MCSpec == MCInit /\ [][GlobNext]_globVars
=============================================================================
