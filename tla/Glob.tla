-------------------------------- MODULE Glob --------------------------------
(***************************************************************************)
(* Glob.Match of internal/policy/glob.go: a dynamic program with two rows  *)
(* that swap roles and a bound on the steps, run on one pattern and value. *)
(* Strings are sequences of bytes.  What it is to decide, Matches, is      *)
(* stated without the table: there are cuts that divide the value into one *)
(* part per pattern byte.                                                  *)
(***************************************************************************)
EXTENDS Naturals, Sequences

CONSTANTS
    Bytes,          \* the bytes of strings
    StarByte, AnyByte,      \* '*' and '?'
    Lower,          \* ASCII folding, a function on Bytes
    Refused,        \* bytes with which no value matches: control bytes, and
                    \* for actions what is not a letter, digit, ':', '-', '*', '?'
    MaxGlobLength

ASSUME BytesAssumption == {StarByte, AnyByte} \subseteq Bytes /\ StarByte # AnyByte /\ Refused \subseteq Bytes
ASSUME LowerAssumption == Lower \in [Bytes -> Bytes] /\ \A b \in Bytes : Lower[b] \in Refused <=> b \in Refused
ASSUME LengthAssumption == MaxGlobLength \in Nat \ {0}

VARIABLES
    pattern, value,     \* the compiled pattern and the value, folded for actions
    previous, current,  \* the two rows
    pi, vi,             \* patternIndex and valueIndex
    steps,
    gpc,                 \* "check", "first", "row", "cells", "done"
    result

globVars == <<pattern, value, previous, current, pi, vi, steps, gpc, result>>

maxGlobSteps == (MaxGlobLength + 1) * (MaxGlobLength + 1)

Columns == 0..MaxGlobLength
Row == [Columns -> BOOLEAN]

asciiLower(s) == [i \in DOMAIN s |-> Lower[s[i]]]

GlobTypeOK ==
    /\ pattern \in Seq(Bytes)
    /\ value \in Seq(Bytes)
    /\ previous \in Row
    /\ current \in Row
    /\ pi \in 1..(MaxGlobLength + 1)
    /\ vi \in 1..(MaxGlobLength + 1)
    /\ steps \in 0..(maxGlobSteps + 1)
    /\ gpc \in {"check", "first", "row", "cells", "done"}
    /\ result \in BOOLEAN

(* compileGlob has accepted the pattern; Match is called with some value. *)
Compiled(p, action) ==
    /\ Len(p) \in 1..MaxGlobLength
    /\ pattern = IF action THEN asciiLower(p) ELSE p

Start(p, v, action) ==
    /\ Compiled(p, action)
    /\ value = IF action THEN asciiLower(v) ELSE v
    /\ previous = [i \in Columns |-> i = 0]
    /\ current = [i \in Columns |-> FALSE]
    /\ pi = 1
    /\ vi = 1
    /\ steps = 0
    /\ gpc = "check"
    /\ result = FALSE

GlobInit == \E p, v \in Seq(Bytes), action \in BOOLEAN : Start(p, v, action)

-----------------------------------------------------------------------------
Answer(answer) ==
    /\ result' = answer
    /\ gpc' = "done"

(* Values that are too long or hold a refused byte never match.  Folding, *)
(* which the code does next, moves no byte into Refused or out of it.     *)
CheckValue ==
    /\ gpc = "check"
    /\ IF Len(value) > MaxGlobLength \/ \E i \in DOMAIN value : value[i] \in Refused
         THEN Answer(FALSE)
         ELSE gpc' = "first" /\ UNCHANGED result
    /\ UNCHANGED <<pattern, value, previous, current, pi, vi, steps>>

(* Every cell counts one step, and too many of them end the match. *)
OutOfSteps == steps + 1 > maxGlobSteps

GiveUp ==
    /\ Answer(FALSE)
    /\ UNCHANGED <<previous, current, pi>>

(* previous[patternIndex] of the first row, which is for the empty value. *)
FirstCell ==
    /\ gpc = "first" /\ pi <= Len(pattern)
    /\ steps' = steps + 1
    /\ IF OutOfSteps
         THEN GiveUp
         ELSE /\ previous' = [previous EXCEPT ![pi] = previous[pi - 1] /\ pattern[pi] = StarByte]
              /\ pi' = pi + 1
              /\ UNCHANGED <<current, gpc, result>>
    /\ UNCHANGED <<pattern, value, vi>>

FirstRowEnd ==
    /\ gpc = "first" /\ pi > Len(pattern)
    /\ gpc' = "row"
    /\ UNCHANGED <<pattern, value, previous, current, pi, vi, steps, result>>

(* Mutant: current[0] keeps what the row held two rounds ago. *)
RowBeginStale ==
    /\ gpc = "row" /\ vi <= Len(value)
    /\ pi' = 1
    /\ gpc' = "cells"
    /\ UNCHANGED <<pattern, value, previous, current, vi, steps, result>>

(* The head of the loop over the value. *)
RowBegin ==
    /\ gpc = "row" /\ vi <= Len(value)
    /\ current' = [current EXCEPT ![0] = FALSE]
    /\ pi' = 1
    /\ gpc' = "cells"
    /\ UNCHANGED <<pattern, value, previous, vi, steps, result>>

CellValue ==
    CASE pattern[pi] = StarByte -> previous[pi] \/ current[pi - 1]
      [] pattern[pi] = AnyByte  -> previous[pi - 1]
      [] OTHER              -> previous[pi - 1] /\ pattern[pi] = value[vi]

Cell ==
    /\ gpc = "cells" /\ pi <= Len(pattern)
    /\ steps' = steps + 1
    /\ IF OutOfSteps
         THEN GiveUp
         ELSE /\ current' = [current EXCEPT ![pi] = CellValue]
              /\ pi' = pi + 1
              /\ UNCHANGED <<previous, gpc, result>>
    /\ UNCHANGED <<pattern, value, vi>>

RowEnd ==
    /\ gpc = "cells" /\ pi > Len(pattern)
    /\ previous' = current
    /\ current' = previous
    /\ vi' = vi + 1
    /\ gpc' = "row"
    /\ UNCHANGED <<pattern, value, pi, steps, result>>

MatchEnd ==
    /\ gpc = "row" /\ vi > Len(value)
    /\ Answer(previous[Len(pattern)])
    /\ UNCHANGED <<pattern, value, previous, current, pi, vi, steps>>

GlobNext == CheckValue \/ FirstCell \/ FirstRowEnd \/ RowBegin \/ Cell \/ RowEnd \/ MatchEnd

GlobSpec == GlobInit /\ [][GlobNext]_globVars

-----------------------------------------------------------------------------
(* Properties *)

(* Positions that cut the first v bytes of the value into p consecutive     *)
(* parts, possibly empty.                                                   *)
Cuts(p, v) ==
    {c \in [0..p -> 0..v] :
        c[0] = 0 /\ c[p] = v /\ \A i, j \in 0..p : i <= j => c[i] <= c[j]}

(* The part of the value for pattern byte i is what that byte stands for.   *)
Fits(c, i) ==
    \/ pattern[i] = StarByte
    \/ /\ c[i] = c[i - 1] + 1
       /\ pattern[i] = AnyByte \/ pattern[i] = value[c[i]]

(* The first p bytes of the pattern match the first v bytes of the value.   *)
Aligned(p, v) == \E c \in Cuts(p, v) : \A i \in 1..p : Fits(c, i)

Acceptable == Len(value) <= MaxGlobLength /\ \A i \in DOMAIN value : value[i] \notin Refused

Matches == Acceptable /\ Aligned(Len(pattern), Len(value))

(* Match answers whether the value can be divided among the bytes of the    *)
(* pattern, '*' taking any part and '?' one byte: no row is stale when it   *)
(* is read, and the bound on the steps never turns a match into a refusal.  *)
MatchIsRight == gpc = "done" => (result <=> Matches)

(* The bound on the steps is out of reach for the lengths that Match admits.*)
StepsSuffice == gpc # "done" => steps < maxGlobSteps
=============================================================================
