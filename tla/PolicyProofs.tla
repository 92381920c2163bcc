---------------------------- MODULE PolicyProofs ----------------------------
(***************************************************************************)
(* Glob.Match decides Matches for every pattern and every value; the heart *)
(* is AlignedStep: the last cut of an alignment can be removed, and put    *)
(* back, which gives each cell of the table from its neighbours.           *)
(* Engine.Evaluate, which compares with it, decides as Verdict says for    *)
(* every policy, input and order of the visits: the inductive invariant    *)
(* says what each flag means for the part of the pairs and rules that has  *)
(* been visited so far.                                                    *)
(***************************************************************************)
EXTENDS PolicyEngine, Glob, TLAPS

(* The patterns *)

(* Facts about sequences. *)
LEMMA SeqFacts ==
  ASSUME NEW S, NEW s \in Seq(S)
  PROVE  Len(s) \in Nat /\ DOMAIN s = 1..Len(s) /\ \A i \in 1..Len(s) : s[i] \in S
OBVIOUS

LEMMA FunctionIsSeq ==
  ASSUME NEW S, NEW k \in Nat, NEW f \in [1..k -> S]
  PROVE  f \in Seq(S) /\ Len(f) = k
OBVIOUS

LEMMA ExtendCuts ==
    ASSUME NEW p \in Nat \ {0}, NEW v \in Nat, NEW u \in 0..v, NEW c \in Cuts(p - 1, u)
    PROVE  \E d \in Cuts(p, v) :
             /\ d[p] = v /\ d[p - 1] = u
             /\ \A i \in 1..(p - 1) : Fits(d, i) <=> Fits(c, i)
  <1> DEFINE d == [i \in 0..p |-> IF i = p THEN v ELSE c[i]]
  <1>1. c \in [0..(p - 1) -> 0..u] /\ c[0] = 0 /\ c[p - 1] = u
        /\ \A i, j \in 0..(p - 1) : i <= j => c[i] <= c[j]
    BY DEF Cuts
  <1>2. d[p] = v /\ \A i \in 0..(p - 1) : d[i] = c[i]
    OBVIOUS
  <1>3. d \in [0..p -> 0..v] /\ d[0] = 0
    BY <1>1, <1>2
  <1>4. ASSUME NEW i \in 0..p, NEW j \in 0..p, i <= j PROVE d[i] <= d[j]
    <2>1. CASE j = p
      BY <1>2, <1>3, <2>1
    <2>2. CASE j # p
      BY <1>1, <1>2, <1>4, <2>2
    <2> QED
      BY <2>1, <2>2
  <1>5. d \in Cuts(p, v)
    BY <1>2, <1>3, <1>4 DEF Cuts
  <1>6. \A i \in 1..(p - 1) : d[i] = c[i] /\ d[i - 1] = c[i - 1]
    BY <1>2
  <1> HIDE DEF d
  <1>7. \A i \in 1..(p - 1) : Fits(d, i) <=> Fits(c, i)
    BY <1>6 DEF Fits
  <1>8. d[p - 1] = u
    BY <1>1, <1>2
  <1>9. d[p] = v
    BY <1>2
  <1> QED
    BY <1>5, <1>7, <1>8, <1>9

LEMMA RestrictCuts ==
    ASSUME NEW p \in Nat \ {0}, NEW v \in Nat, NEW c \in Cuts(p, v)
    PROVE  LET d == [i \in 0..(p - 1) |-> c[i]]
           IN  /\ c[p - 1] \in 0..v /\ c[p] = v
               /\ d \in Cuts(p - 1, c[p - 1])
               /\ \A i \in 1..(p - 1) : Fits(d, i) <=> Fits(c, i)
  <1> DEFINE d == [i \in 0..(p - 1) |-> c[i]]
  <1>1. c \in [0..p -> 0..v] /\ c[0] = 0 /\ c[p] = v
        /\ \A i, j \in 0..p : i <= j => c[i] <= c[j]
    BY DEF Cuts
  <1>2. \A i \in 0..(p - 1) : d[i] = c[i] /\ c[i] \in 0..c[p - 1]
    BY <1>1
  <1>3. d \in [0..(p - 1) -> 0..c[p - 1]] /\ d[0] = 0 /\ d[p - 1] = c[p - 1]
    BY <1>1, <1>2
  <1>4. d \in Cuts(p - 1, c[p - 1])
    BY <1>1, <1>2, <1>3 DEF Cuts
  <1>5. \A i \in 1..(p - 1) : d[i] = c[i] /\ d[i - 1] = c[i - 1]
    BY <1>2
  <1> HIDE DEF d
  <1>6. \A i \in 1..(p - 1) : Fits(d, i) <=> Fits(c, i)
    BY <1>5 DEF Fits
  <1>7. c[p - 1] \in 0..v
    BY <1>1
  <1> QED
    BY <1>1, <1>4, <1>6, <1>7 DEF d

(* An alignment of p bytes of the pattern is one of p - 1 bytes with a part  *)
(* of the value that the last byte stands for.                               *)
LEMMA AlignedStep ==
    ASSUME NEW p \in Nat \ {0}, NEW v \in Nat
    PROVE  Aligned(p, v) <=>
             \E u \in 0..v :
                /\ Aligned(p - 1, u)
                /\ \/ pattern[p] = StarByte
                   \/ v = u + 1 /\ (pattern[p] = AnyByte \/ pattern[p] = value[v])
  <1>1. ASSUME NEW c \in Cuts(p, v), \A i \in 1..p : Fits(c, i)
        PROVE  \E u \in 0..v :
                 /\ Aligned(p - 1, u)
                 /\ \/ pattern[p] = StarByte
                    \/ v = u + 1 /\ (pattern[p] = AnyByte \/ pattern[p] = value[v])
    <2> DEFINE d == [i \in 0..(p - 1) |-> c[i]]
    <2>1. /\ c[p - 1] \in 0..v /\ c[p] = v
          /\ d \in Cuts(p - 1, c[p - 1])
          /\ \A i \in 1..(p - 1) : Fits(d, i) <=> Fits(c, i)
      BY RestrictCuts
    <2> HIDE DEF d
    <2>2. Aligned(p - 1, c[p - 1])
      BY <1>1, <2>1 DEF Aligned
    <2>3. Fits(c, p)
      BY <1>1
    <2> QED
      BY <2>1, <2>2, <2>3 DEF Fits
  <1>2. ASSUME NEW u \in 0..v, Aligned(p - 1, u),
               \/ pattern[p] = StarByte
               \/ v = u + 1 /\ (pattern[p] = AnyByte \/ pattern[p] = value[v])
        PROVE  Aligned(p, v)
    <2>1. PICK c \in Cuts(p - 1, u) : \A i \in 1..(p - 1) : Fits(c, i)
      BY <1>2 DEF Aligned
    <2>2. PICK d \in Cuts(p, v) :
             /\ d[p] = v /\ d[p - 1] = u
             /\ \A i \in 1..(p - 1) : Fits(d, i) <=> Fits(c, i)
      BY <1>2, ExtendCuts
    <2>3. Fits(d, p)
      BY <1>2, <2>2 DEF Fits
    <2>4. \A i \in 1..p : Fits(d, i)
      BY <2>1, <2>2, <2>3
    <2> QED
      BY <2>2, <2>4 DEF Aligned
  <1> QED
    BY <1>1, <1>2 DEF Aligned

LEMMA AlignedEmptyPattern ==
    ASSUME NEW v \in Nat
    PROVE  Aligned(0, v) <=> v = 0
  <1>1. ASSUME v = 0 PROVE Aligned(0, v)
    <2> DEFINE c == [i \in 0..0 |-> 0]
    <2>1. c \in Cuts(0, v)
      BY <1>1 DEF Cuts
    <2> QED
      BY <2>1 DEF Aligned
  <1>2. ASSUME NEW c \in Cuts(0, v) PROVE v = 0
    BY DEF Cuts
  <1> QED
    BY <1>1, <1>2 DEF Aligned

LEMMA AlignedEmptyValue ==
    ASSUME NEW p \in Nat \ {0}
    PROVE  Aligned(p, 0) <=> Aligned(p - 1, 0) /\ pattern[p] = StarByte
  <1>1. \A u \in 0..0 : u = 0
    OBVIOUS
  <1> QED
    BY <1>1, AlignedStep

LEMMA AlignedStar ==
    ASSUME NEW p \in Nat \ {0}, NEW v \in Nat \ {0}, pattern[p] = StarByte
    PROVE  Aligned(p, v) <=> Aligned(p, v - 1) \/ Aligned(p - 1, v)
  <1>1. Aligned(p, v) <=> \E u \in 0..v : Aligned(p - 1, u)
    BY AlignedStep
  <1>2. v - 1 \in Nat
    OBVIOUS
  <1>3. Aligned(p, v - 1) <=> \E u \in 0..(v - 1) : Aligned(p - 1, u)
    BY <1>2, AlignedStep
  <1>4. \A u \in 0..v : u = v \/ u \in 0..(v - 1)
    OBVIOUS
  <1>5. 0..(v - 1) \subseteq 0..v /\ v \in 0..v
    OBVIOUS
  <1> QED
    BY <1>1, <1>3, <1>4, <1>5

LEMMA AlignedByte ==
    ASSUME NEW p \in Nat \ {0}, NEW v \in Nat \ {0}, pattern[p] # StarByte
    PROVE  Aligned(p, v) <=>
             Aligned(p - 1, v - 1) /\ (pattern[p] = AnyByte \/ pattern[p] = value[v])
  <1>1. \A u \in 0..v : v = u + 1 <=> u = v - 1
    OBVIOUS
  <1>2. v - 1 \in 0..v
    OBVIOUS
  <1> QED
    BY <1>1, <1>2, AlignedStep

-----------------------------------------------------------------------------
(* The invariant of the loops *)

n == Len(pattern)

(* What the rows hold for pattern prefixes up to the columns computed so far.*)
FirstRowInv ==
    gpc = "first" =>
        /\ vi = 1 /\ pi <= n + 1
        /\ \A p \in 0..(pi - 1) : previous[p] <=> Aligned(p, 0)

PreviousInv ==
    gpc \in {"row", "cells"} => \A p \in 0..n : previous[p] <=> Aligned(p, vi - 1)

CurrentInv ==
    gpc = "cells" => \A p \in 0..(pi - 1) : current[p] <=> Aligned(p, vi)

IndexInv ==
    /\ gpc = "row" => vi <= Len(value) + 1
    /\ gpc = "cells" => vi <= Len(value) /\ pi <= n + 1

StepsInv ==
    /\ gpc = "check" => steps = 0 /\ pi = 1 /\ vi = 1
    /\ gpc = "first" => steps = pi - 1
    /\ gpc = "row" => steps = vi * n
    /\ gpc = "cells" => steps = vi * n + (pi - 1)

GlobInv ==
    /\ GlobTypeOK
    /\ n \in 1..MaxGlobLength
    /\ gpc \in {"first", "row", "cells"} => Acceptable
    /\ gpc = "check" => previous[0]
    /\ FirstRowInv /\ PreviousInv /\ CurrentInv /\ IndexInv /\ StepsInv
    /\ MatchIsRight

(* The table has one row more than the value has bytes. *)
LEMMA CellsBounded ==
    ASSUME NEW rows \in Nat, NEW columns \in Nat, NEW bound \in Nat,
           rows <= bound, columns <= bound
    PROVE  rows * columns + columns <= (bound + 1) * (bound + 1) - 1
  <1>1. rows * columns <= bound * columns
    BY SMTT(30)
  <1>2. bound * columns <= bound * bound
    BY SMTT(30)
  <1>3. (bound + 1) * (bound + 1) = bound * bound + bound + bound + 1
    BY SMTT(30)
  <1>4. rows * columns \in Nat /\ bound * columns \in Nat /\ bound * bound \in Nat
    OBVIOUS
  <1> QED
    BY <1>1, <1>2, <1>3, <1>4

-----------------------------------------------------------------------------
(* The steps *)

(* The pattern and the value stay, and with them what is to be decided. *)
LEMMA GlobGoalStays ==
    ASSUME UNCHANGED <<pattern, value>>
    PROVE  /\ n' = n /\ Acceptable' = Acceptable /\ Matches' = Matches
           /\ \A p, v : Aligned(p, v)' <=> Aligned(p, v)
  BY DEF n, Acceptable, Matches, Aligned, Cuts, Fits

LEMMA GlobInitInv == GlobInit => GlobInv
  <1> SUFFICES ASSUME NEW p \in Seq(Bytes), NEW v \in Seq(Bytes), NEW action \in BOOLEAN,
                      Start(p, v, action)
               PROVE  GlobInv
    BY DEF GlobInit
  <1>1. ASSUME NEW s \in Seq(Bytes)
        PROVE  asciiLower(s) \in Seq(Bytes) /\ Len(asciiLower(s)) = Len(s)
    <2>1. DOMAIN s = 1..Len(s) /\ Len(s) \in Nat /\ \A i \in 1..Len(s) : s[i] \in Bytes
      BY <1>1, SeqFacts
    <2>2. asciiLower(s) \in [1..Len(s) -> Bytes]
      BY <2>1, LowerAssumption DEF asciiLower
    <2>3. asciiLower(s) \in Seq(Bytes)
      BY <2>1, <2>2, FunctionIsSeq
    <2> QED
      BY <2>1, <2>2, <2>3, FunctionIsSeq
  <1>2. pattern \in Seq(Bytes) /\ value \in Seq(Bytes) /\ n \in 1..MaxGlobLength
    BY <1>1 DEF Start, Compiled, n
  <1>3. GlobTypeOK
    BY <1>2, LengthAssumption DEF Start, GlobTypeOK, Row, Columns, maxGlobSteps
  <1>4. previous[0]
    <2>1. 0 \in Columns
      BY LengthAssumption DEF Columns
    <2>2. previous = [i \in Columns |-> i = 0]
      BY DEF Start
    <2> QED
      BY <2>1, <2>2, Zenon
  <1> QED
    BY <1>2, <1>3, <1>4
    DEF Start, GlobInv, FirstRowInv, PreviousInv, CurrentInv, IndexInv, StepsInv, MatchIsRight

LEMMA GlobCheckStep ==
    ASSUME GlobInv, CheckValue
    PROVE  GlobInv'
  <1>1. UNCHANGED <<pattern, value, previous, current, pi, vi, steps>>
    BY DEF CheckValue
  <1>2. n' = n /\ Acceptable' = Acceptable /\ Matches' = Matches
        /\ \A p, v : Aligned(p, v)' <=> Aligned(p, v)
    BY <1>1, GlobGoalStays
  <1>3. Len(value) \in Nat
    BY SeqFacts DEF GlobInv, GlobTypeOK
  <1>4. CASE ~Acceptable
    <2>1. gpc' = "done" /\ result' = FALSE
      BY <1>3, <1>4, LengthAssumption DEF CheckValue, Answer, Acceptable
    <2>2. GlobTypeOK'
      BY <1>1, <2>1 DEF GlobInv, GlobTypeOK
    <2> QED
      BY <1>1, <1>2, <1>4, <2>1, <2>2
      DEF GlobInv, FirstRowInv, PreviousInv, CurrentInv, IndexInv, StepsInv, MatchIsRight, Matches
  <1>5. CASE Acceptable
    <2>1. gpc' = "first" /\ result' = result
      BY <1>3, <1>5, LengthAssumption DEF CheckValue, Answer, Acceptable
    <2>2. GlobTypeOK'
      BY <1>1, <2>1 DEF GlobInv, GlobTypeOK
    <2>3. FirstRowInv'
      <3>1. pi = 1 /\ vi = 1 /\ previous[0]
        BY DEF GlobInv, StepsInv, CheckValue
      <3>2. Aligned(0, 0)
        BY AlignedEmptyPattern
      <3>3. \A p \in 0..(1 - 1) : p = 0
        OBVIOUS
      <3> QED
        BY <1>1, <1>2, <3>1, <3>2, <3>3 DEF FirstRowInv, GlobInv
    <2> QED
      BY <1>1, <1>2, <1>5, <2>1, <2>2, <2>3
      DEF CheckValue, GlobInv, PreviousInv, CurrentInv, IndexInv, StepsInv, MatchIsRight
  <1> QED
    BY <1>4, <1>5

(* There is always a step left for the next cell. *)
LEMMA StepsLeft ==
    ASSUME GlobInv, gpc # "done"
    PROVE  /\ steps + 1 <= maxGlobSteps \/ gpc = "row"
           /\ steps < maxGlobSteps
           /\ (gpc \in {"first", "cells"} /\ pi <= n => ~OutOfSteps)
  <1> DEFINE m == Len(value)
  <1>1. m \in Nat /\ n \in 1..MaxGlobLength /\ n \in Nat
    BY SeqFacts DEF GlobInv, GlobTypeOK
  <1>2. MaxGlobLength \in Nat \ {0}
    BY LengthAssumption
  <1>3. maxGlobSteps \in Nat /\ n < maxGlobSteps
    <2>1. 0 * n + n <= (MaxGlobLength + 1) * (MaxGlobLength + 1) - 1
      BY <1>1, <1>2, CellsBounded
    <2> QED
      BY <1>1, <1>2, <2>1 DEF maxGlobSteps
  <1>4. CASE gpc \in {"check", "first"}
    BY <1>1, <1>3, <1>4 DEF GlobInv, GlobTypeOK, StepsInv, FirstRowInv, OutOfSteps
  <1>5. CASE gpc = "row"
    <2>1. vi \in 1..(MaxGlobLength + 1) /\ steps = vi * n /\ vi - 1 \in Nat /\ vi - 1 <= MaxGlobLength
      BY <1>2, <1>5 DEF GlobInv, GlobTypeOK, StepsInv
    <2>2. (vi - 1) * n + n <= maxGlobSteps - 1
      BY <1>1, <1>2, <2>1, CellsBounded DEF maxGlobSteps
    <2>3. (vi - 1) * n + n = vi * n
      BY <1>1, <2>1
    <2> QED
      BY <1>1, <1>3, <1>5, <2>1, <2>2, <2>3
  <1>6. CASE gpc = "cells"
    <2>1. vi \in 1..(MaxGlobLength + 1) /\ steps = vi * n + (pi - 1) /\ vi <= MaxGlobLength
          /\ pi \in Nat /\ vi \in Nat /\ 1 <= pi /\ pi <= n + 1
      BY <1>1, <1>2, <1>6 DEF GlobInv, GlobTypeOK, StepsInv, IndexInv, Acceptable
    <2>2. vi * n + n <= maxGlobSteps - 1 /\ vi * n \in Nat
      BY <1>1, <1>2, <2>1, CellsBounded DEF maxGlobSteps
    <2> QED
      BY <1>1, <1>3, <1>6, <2>1, <2>2 DEF OutOfSteps
  <1> QED
    BY <1>4, <1>5, <1>6 DEF GlobInv, GlobTypeOK

LEMMA FirstCellStep ==
    ASSUME GlobInv, FirstCell
    PROVE  GlobInv'
  <1>1. gpc = "first" /\ pi <= n /\ UNCHANGED <<pattern, value, vi>>
    BY DEF FirstCell, n
  <1>2. ~OutOfSteps
    BY <1>1, StepsLeft
  <1>3. /\ steps' = steps + 1 /\ pi' = pi + 1
        /\ previous' = [previous EXCEPT ![pi] = previous[pi - 1] /\ pattern[pi] = StarByte]
        /\ UNCHANGED <<current, gpc, result>>
    BY <1>2 DEF FirstCell
  <1>4. n' = n /\ Acceptable' = Acceptable /\ Matches' = Matches
        /\ \A p, v : Aligned(p, v)' <=> Aligned(p, v)
    BY <1>1, GlobGoalStays
  <1>5. pi \in Nat \ {0} /\ n \in 1..MaxGlobLength /\ pi \in Columns /\ pi - 1 \in Columns
    BY <1>1, LengthAssumption DEF GlobInv, GlobTypeOK, Columns
  <1>6. steps + 1 <= maxGlobSteps /\ maxGlobSteps \in Nat
    BY <1>1, StepsLeft, LengthAssumption DEF maxGlobSteps
  <1>7. GlobTypeOK'
    BY <1>1, <1>3, <1>5, <1>6, LengthAssumption DEF GlobInv, GlobTypeOK, Row
  <1>8. FirstRowInv'
    <2>1. previous[pi - 1] <=> Aligned(pi - 1, 0)
      BY <1>1, <1>5 DEF GlobInv, FirstRowInv
    <2>2. previous'[pi] <=> Aligned(pi, 0)
      <3>1. previous'[pi] = (previous[pi - 1] /\ pattern[pi] = StarByte)
        BY <1>3, <1>5 DEF GlobInv, GlobTypeOK, Row
      <3>2. Aligned(pi, 0) <=> Aligned(pi - 1, 0) /\ pattern[pi] = StarByte
        BY <1>5, AlignedEmptyValue
      <3> QED
        BY <2>1, <3>1, <3>2
    <2>3. ASSUME NEW p \in 0..(pi - 1) PROVE previous'[p] <=> Aligned(p, 0)
      <3>1. p \in Columns /\ p # pi
        BY <1>5, <2>3, LengthAssumption DEF Columns
      <3>2. previous'[p] = previous[p]
        BY <1>3, <3>1 DEF GlobInv, GlobTypeOK, Row
      <3> QED
        BY <1>1, <3>2 DEF GlobInv, FirstRowInv
    <2>4. \A p \in 0..(pi' - 1) : p = pi \/ p \in 0..(pi - 1)
      BY <1>3, <1>5
    <2>5. vi' = 1 /\ pi' <= n' + 1
      BY <1>1, <1>3, <1>4, <1>5 DEF GlobInv, FirstRowInv
    <2> QED
      BY <1>4, <2>2, <2>3, <2>4, <2>5 DEF FirstRowInv
  <1>9. StepsInv'
    BY <1>1, <1>3, <1>5 DEF GlobInv, StepsInv
  <1> QED
    BY <1>1, <1>3, <1>4, <1>7, <1>8, <1>9
    DEF GlobInv, PreviousInv, CurrentInv, IndexInv, MatchIsRight

LEMMA FirstRowEndStep ==
    ASSUME GlobInv, FirstRowEnd
    PROVE  GlobInv'
  <1>1. gpc = "first" /\ pi > n /\ gpc' = "row"
        /\ UNCHANGED <<pattern, value, previous, current, pi, vi, steps, result>>
    BY DEF FirstRowEnd, n
  <1>2. n' = n /\ Acceptable' = Acceptable /\ Matches' = Matches
        /\ \A p, v : Aligned(p, v)' <=> Aligned(p, v)
    BY <1>1, GlobGoalStays
  <1>3. pi = n + 1 /\ vi = 1 /\ n \in Nat
    BY <1>1 DEF GlobInv, GlobTypeOK, FirstRowInv
  <1>4. GlobTypeOK'
    BY <1>1 DEF GlobInv, GlobTypeOK
  <1>5. PreviousInv'
    BY <1>1, <1>2, <1>3 DEF GlobInv, FirstRowInv, PreviousInv
  <1>6. StepsInv' /\ IndexInv'
    <2>1. Len(value) \in Nat
      BY SeqFacts DEF GlobInv, GlobTypeOK
    <2>2. vi * n = n
      BY <1>3
    <2> QED
      BY <1>1, <1>2, <1>3, <2>1, <2>2 DEF GlobInv, StepsInv, IndexInv
  <1> QED
    BY <1>1, <1>2, <1>4, <1>5, <1>6 DEF GlobInv, FirstRowInv, CurrentInv, MatchIsRight

LEMMA RowBeginStep ==
    ASSUME GlobInv, RowBegin
    PROVE  GlobInv'
  <1>1. /\ gpc = "row" /\ vi <= Len(value) /\ pi' = 1 /\ gpc' = "cells"
        /\ current' = [current EXCEPT ![0] = FALSE]
        /\ UNCHANGED <<pattern, value, previous, vi, steps, result>>
    BY DEF RowBegin
  <1>2. n' = n /\ Acceptable' = Acceptable /\ Matches' = Matches
        /\ \A p, v : Aligned(p, v)' <=> Aligned(p, v)
    BY <1>1, GlobGoalStays
  <1>3. vi \in Nat \ {0} /\ n \in Nat /\ n >= 1
    BY LengthAssumption DEF GlobInv, GlobTypeOK
  <1>4. GlobTypeOK'
    <2>1. current' \in Row
      BY <1>1 DEF GlobInv, GlobTypeOK, Row
    <2>2. pi' \in 1..(MaxGlobLength + 1)
      BY <1>1, LengthAssumption
    <2> QED
      BY <1>1, <2>1, <2>2 DEF GlobInv, GlobTypeOK
  <1>5. CurrentInv'
    <2>1. current'[0] = FALSE
      BY <1>1, LengthAssumption DEF GlobInv, GlobTypeOK, Row, Columns
    <2>2. ~Aligned(0, vi)
      BY <1>3, AlignedEmptyPattern
    <2>3. \A p \in 0..(pi' - 1) : p = 0
      BY <1>1
    <2> QED
      BY <1>1, <1>2, <2>1, <2>2, <2>3 DEF CurrentInv
  <1>6. PreviousInv'
    BY <1>1, <1>2 DEF GlobInv, PreviousInv
  <1>7. StepsInv' /\ IndexInv'
    <2>1. vi * n = vi * n + (1 - 1)
      BY <1>3
    <2> QED
      BY <1>1, <1>2, <1>3, <2>1 DEF GlobInv, StepsInv, IndexInv
  <1> QED
    BY <1>1, <1>2, <1>4, <1>5, <1>6, <1>7 DEF GlobInv, FirstRowInv, MatchIsRight

LEMMA CellStep ==
    ASSUME GlobInv, Cell
    PROVE  GlobInv'
  <1>1. gpc = "cells" /\ pi <= n /\ UNCHANGED <<pattern, value, vi>>
    BY DEF Cell, n
  <1>2. ~OutOfSteps
    BY <1>1, StepsLeft
  <1>3. /\ steps' = steps + 1 /\ pi' = pi + 1
        /\ current' = [current EXCEPT ![pi] = CellValue]
        /\ UNCHANGED <<previous, gpc, result>>
    BY <1>2 DEF Cell
  <1>4. n' = n /\ Acceptable' = Acceptable /\ Matches' = Matches
        /\ \A p, v : Aligned(p, v)' <=> Aligned(p, v)
    BY <1>1, GlobGoalStays
  <1>5. pi \in Nat \ {0} /\ n \in 1..MaxGlobLength /\ pi \in Columns /\ pi - 1 \in Columns
    BY <1>1, LengthAssumption DEF GlobInv, GlobTypeOK, Columns
  <1>6. steps + 1 <= maxGlobSteps /\ maxGlobSteps \in Nat
    BY <1>1, StepsLeft, LengthAssumption DEF maxGlobSteps
  <1>7. vi \in Nat \ {0}
    BY LengthAssumption DEF GlobInv, GlobTypeOK
  <1>8. CellValue \in BOOLEAN /\ (CellValue <=> Aligned(pi, vi))
    <2>1. /\ previous[pi] <=> Aligned(pi, vi - 1)
          /\ previous[pi - 1] <=> Aligned(pi - 1, vi - 1)
          /\ current[pi - 1] <=> Aligned(pi - 1, vi)
      <3>1. pi \in 0..n /\ pi - 1 \in 0..n /\ pi - 1 \in 0..(pi - 1)
        BY <1>1, <1>5
      <3> QED
        BY <1>1, <3>1 DEF GlobInv, PreviousInv, CurrentInv
    <2>2. previous[pi] \in BOOLEAN /\ previous[pi - 1] \in BOOLEAN /\ current[pi - 1] \in BOOLEAN
      BY <1>5 DEF GlobInv, GlobTypeOK, Row
    <2>3. CASE pattern[pi] = StarByte
      <3>1. CellValue = (previous[pi] \/ current[pi - 1])
        BY <2>3, BytesAssumption DEF CellValue
      <3>2. Aligned(pi, vi) <=> Aligned(pi, vi - 1) \/ Aligned(pi - 1, vi)
        BY <1>5, <1>7, <2>3, AlignedStar
      <3> QED
        BY <2>1, <2>2, <3>1, <3>2
    <2>4. CASE pattern[pi] = AnyByte
      <3>1. CellValue = previous[pi - 1]
        BY <2>4, BytesAssumption DEF CellValue
      <3>2. Aligned(pi, vi) <=> Aligned(pi - 1, vi - 1)
        BY <1>5, <1>7, <2>4, BytesAssumption, AlignedByte
      <3> QED
        BY <2>1, <2>2, <3>1, <3>2
    <2>5. CASE pattern[pi] # StarByte /\ pattern[pi] # AnyByte
      <3>1. CellValue = (previous[pi - 1] /\ pattern[pi] = value[vi])
        BY <2>5 DEF CellValue
      <3>2. Aligned(pi, vi) <=> Aligned(pi - 1, vi - 1) /\ pattern[pi] = value[vi]
        BY <1>5, <1>7, <2>5, AlignedByte
      <3> QED
        BY <2>1, <2>2, <3>1, <3>2
    <2> QED
      BY <2>3, <2>4, <2>5
  <1>9. GlobTypeOK'
    <2>1. current' \in Row
      BY <1>3, <1>8 DEF GlobInv, GlobTypeOK, Row
    <2>2. pi' \in 1..(MaxGlobLength + 1) /\ steps' \in 0..(maxGlobSteps + 1)
      BY <1>1, <1>3, <1>5, <1>6, LengthAssumption DEF GlobInv, GlobTypeOK
    <2> QED
      BY <1>1, <1>3, <2>1, <2>2 DEF GlobInv, GlobTypeOK
  <1>10. CurrentInv'
    <2>1. current'[pi] <=> Aligned(pi, vi)
      <3>1. current'[pi] = CellValue
        BY <1>3, <1>5 DEF GlobInv, GlobTypeOK, Row
      <3> QED
        BY <1>8, <3>1
    <2>2. ASSUME NEW p \in 0..(pi - 1) PROVE current'[p] <=> Aligned(p, vi)
      <3>1. p \in Columns /\ p # pi
        BY <1>5, <2>2, LengthAssumption DEF Columns
      <3>2. current'[p] = current[p]
        BY <1>3, <3>1 DEF GlobInv, GlobTypeOK, Row
      <3> QED
        BY <1>1, <2>2, <3>2 DEF GlobInv, CurrentInv
    <2>3. \A p \in 0..(pi' - 1) : p = pi \/ p \in 0..(pi - 1)
      BY <1>3, <1>5
    <2> QED
      BY <1>1, <1>4, <2>1, <2>2, <2>3 DEF CurrentInv
  <1>11. StepsInv' /\ IndexInv'
    <2>1. steps = vi * n + (pi - 1) /\ vi * n \in Nat
      BY <1>1, <1>5, <1>7 DEF GlobInv, StepsInv
    <2> QED
      BY <1>1, <1>3, <1>4, <1>5, <1>7, <2>1 DEF GlobInv, StepsInv, IndexInv
  <1> QED
    BY <1>1, <1>3, <1>4, <1>9, <1>10, <1>11
    DEF GlobInv, FirstRowInv, PreviousInv, MatchIsRight

LEMMA RowEndStep ==
    ASSUME GlobInv, RowEnd
    PROVE  GlobInv'
  <1>1. /\ gpc = "cells" /\ pi > n /\ previous' = current /\ current' = previous
        /\ vi' = vi + 1 /\ gpc' = "row" /\ UNCHANGED <<pattern, value, pi, steps, result>>
    BY DEF RowEnd, n
  <1>2. n' = n /\ Acceptable' = Acceptable /\ Matches' = Matches
        /\ \A p, v : Aligned(p, v)' <=> Aligned(p, v)
    BY <1>1, GlobGoalStays
  <1>3. Len(value) \in Nat
    BY SeqFacts DEF GlobInv, GlobTypeOK
  <1>4. /\ pi = n + 1 /\ n \in Nat /\ vi \in Nat \ {0}
        /\ vi <= Len(value) /\ vi <= MaxGlobLength
    BY <1>1, <1>3, LengthAssumption DEF GlobInv, GlobTypeOK, IndexInv, Acceptable
  <1>5. GlobTypeOK'
    <2>1. vi' \in 1..(MaxGlobLength + 1)
      BY <1>1, <1>4, LengthAssumption
    <2> QED
      BY <1>1, <2>1 DEF GlobInv, GlobTypeOK
  <1>6. PreviousInv'
    <2>1. vi' - 1 = vi /\ pi - 1 = n
      BY <1>1, <1>4
    <2> QED
      BY <1>1, <1>2, <2>1 DEF GlobInv, CurrentInv, PreviousInv
  <1>7. StepsInv' /\ IndexInv'
    <2>1. (vi + 1) * n = vi * n + n /\ vi * n \in Nat
      BY <1>4
    <2>2. steps = vi * n + n
      BY <1>1, <1>4, <2>1 DEF GlobInv, StepsInv
    <2> QED
      BY <1>1, <1>2, <1>3, <1>4, <2>1, <2>2 DEF StepsInv, IndexInv
  <1> QED
    BY <1>1, <1>2, <1>5, <1>6, <1>7 DEF GlobInv, FirstRowInv, CurrentInv, MatchIsRight

LEMMA GlobFinishStep ==
    ASSUME GlobInv, MatchEnd
    PROVE  GlobInv'
  <1>1. /\ gpc = "row" /\ vi > Len(value) /\ gpc' = "done" /\ result' = previous[n]
        /\ UNCHANGED <<pattern, value, previous, current, pi, vi, steps>>
    BY DEF MatchEnd, Answer, n
  <1>2. n' = n /\ Acceptable' = Acceptable /\ Matches' = Matches
        /\ \A p, v : Aligned(p, v)' <=> Aligned(p, v)
    BY <1>1, GlobGoalStays
  <1>3. Len(value) \in Nat
    BY SeqFacts DEF GlobInv, GlobTypeOK
  <1>4. vi - 1 = Len(value) /\ n \in 0..n /\ n \in Columns
    BY <1>1, <1>3, LengthAssumption DEF GlobInv, GlobTypeOK, IndexInv, Columns
  <1>5. result' \in BOOLEAN /\ (result' <=> Aligned(n, Len(value)))
    <2>1. previous[n] \in BOOLEAN
      BY <1>4 DEF GlobInv, GlobTypeOK, Row
    <2> QED
      BY <1>1, <1>4, <2>1 DEF GlobInv, PreviousInv
  <1>6. GlobTypeOK'
    BY <1>1, <1>5 DEF GlobInv, GlobTypeOK
  <1>7. MatchIsRight'
    BY <1>1, <1>2, <1>5 DEF GlobInv, MatchIsRight, Matches, n
  <1> QED
    BY <1>1, <1>2, <1>6, <1>7
    DEF GlobInv, FirstRowInv, PreviousInv, CurrentInv, IndexInv, StepsInv

LEMMA GlobNextInv ==
    ASSUME GlobInv, [GlobNext]_globVars
    PROVE  GlobInv'
  <1>1. CASE UNCHANGED globVars
    <2>1. UNCHANGED <<pattern, value>>
      BY <1>1 DEF globVars
    <2>2. n' = n /\ Acceptable' = Acceptable /\ Matches' = Matches
          /\ \A p, v : Aligned(p, v)' <=> Aligned(p, v)
      BY <2>1, GlobGoalStays
    <2> QED
      BY <1>1, <2>2
      DEF globVars, GlobInv, GlobTypeOK, FirstRowInv, PreviousInv, CurrentInv, IndexInv, StepsInv,
          MatchIsRight
  <1> QED
    BY <1>1, GlobCheckStep, FirstCellStep, FirstRowEndStep, RowBeginStep, CellStep, RowEndStep,
       GlobFinishStep DEF GlobNext

-----------------------------------------------------------------------------
(* The theorems *)

(* What the two rows hold while Glob.Match runs, for patterns and values of  *)
(* every length that is admitted.                                            *)
THEOREM GlobInvariant == GlobSpec => []GlobInv
  BY GlobInitInv, GlobNextInv, PTL DEF GlobSpec

(* The fixed-size rows of Glob.Match are never indexed outside their bounds. *)
THEOREM TypeCorrect == GlobSpec => []GlobTypeOK
  <1>1. GlobInv => GlobTypeOK
    BY DEF GlobInv
  <1> QED
    BY <1>1, GlobInvariant, PTL

(* Glob.Match answers true exactly for the values that can be divided among  *)
(* the bytes of the pattern.                                                 *)
THEOREM MatchCorrect == GlobSpec => []MatchIsRight
  <1>1. GlobInv => MatchIsRight
    BY DEF GlobInv
  <1> QED
    BY <1>1, GlobInvariant, PTL

(* The count of steps of Glob.Match never reaches maxGlobSteps.              *)
THEOREM StepBound == GlobSpec => []StepsSuffice
  <1>1. GlobInv => StepsSuffice
    BY StepsLeft DEF StepsSuffice
  <1> QED
    BY <1>1, GlobInvariant, PTL

-----------------------------------------------------------------------------
(* The engine *)

(* The rule has been tried on the pair; all rules have been. *)
Seen(rule, x) == x \notin todo /\ (pc = "rules" /\ x = pair => rule \notin left)
Closed(x) == x \notin todo /\ (pc = "rules" => x # pair)

Looping == pc \in {"resource", "rules"}

Eligible ==
    /\ Valid /\ input.confidence = "high"
    /\ validateEvaluationInput /\ Unresolved = {}

DenyInv == explicitDeny <=> \E x \in Pairs, rule \in rules : Seen(rule, x) /\ Denies(rule, x)

MatchedInv ==
    matched = {rule.id : rule \in {r \in rules : \E x \in Pairs : Seen(r, x) /\ ruleMatches(r, x)}}

Lacking(x) == \E rule \in rules : Lacks(rule, x)

WildcardInv == wildcardMissing <=> \E x \in Pairs : Closed(x) /\ ~Granted(x) /\ Lacking(x)
UncoveredInv == uncovered <=> \E x \in Pairs : Closed(x) /\ ~Granted(x) /\ ~Lacking(x)

PairInv ==
    pc = "rules" =>
        /\ pair \in Pairs /\ pair \notin todo
        /\ covered <=> \E rule \in rules \ left : Grants(rule, pair)
        /\ sawUnacknowledged <=> \E rule \in rules \ left : Lacks(rule, pair)

EngineInv ==
    /\ TypeOK
    /\ pc = "check" => matched = {} /\ ~explicitDeny /\ ~wildcardMissing /\ ~uncovered
    /\ Looping => Eligible /\ DenyInv /\ MatchedInv /\ WildcardInv /\ UncoveredInv
    /\ PairInv
    /\ DecisionIsRight /\ MatchedIsComplete

-----------------------------------------------------------------------------
(* Rules and input stay, and with them what is to be decided. *)
LEMMA GoalStays ==
    ASSUME UNCHANGED <<rules, input>>
    PROVE  /\ Pairs' = Pairs /\ Eligible' = Eligible /\ Expected' = Expected
           /\ \A rule, x : /\ ruleMatches(rule, x)' <=> ruleMatches(rule, x)
                           /\ Denies(rule, x)' <=> Denies(rule, x)
                           /\ Grants(rule, x)' <=> Grants(rule, x)
                           /\ Lacks(rule, x)' <=> Lacks(rule, x)
           /\ \A x : (Granted(x)' <=> Granted(x)) /\ (Lacking(x)' <=> Lacking(x))
  <1>1. Pairs' = Pairs
    BY DEF Pairs
  <1>2. \A rule, x : ruleMatches(rule, x)' <=> ruleMatches(rule, x)
    BY DEF ruleMatches, requirementOf, scopeMatches, constraintMatches
  <1>3. \A rule, x : acknowledges(rule, x)' <=> acknowledges(rule, x)
    BY DEF acknowledges, requirementOf, ruleHasLiteralStar
  <1>4. \A rule, x : /\ Denies(rule, x)' <=> Denies(rule, x)
                     /\ Grants(rule, x)' <=> Grants(rule, x)
                     /\ Lacks(rule, x)' <=> Lacks(rule, x)
    BY <1>2, <1>3 DEF Denies, Grants, Lacks
  <1>5. \A x : (Granted(x)' <=> Granted(x)) /\ (Lacking(x)' <=> Lacking(x))
    BY <1>4 DEF Granted, Lacking
  <1>6. Verdict' = Verdict
    BY <1>1, <1>4, <1>5 DEF Verdict
  <1>7. Valid' = Valid /\ Unresolved' = Unresolved
        /\ \A q : UnresolvedReason(q)' = UnresolvedReason(q)
    BY DEF Valid, Unresolved, UnresolvedReason
  <1>8. validateEvaluationInput' = validateEvaluationInput
    BY <1>1 DEF validateEvaluationInput
  <1> QED
    BY <1>1, <1>2, <1>4, <1>5, <1>6, <1>7, <1>8 DEF Eligible, Expected

LEMMA InitInv == Init => EngineInv
  <1> SUFFICES ASSUME Init PROVE EngineInv
    OBVIOUS
  <1>1. TypeOK
    BY PoliciesAssumption, InputsAssumption DEF Init, TypeOK, Reasons
  <1> QED
    BY <1>1 DEF Init, EngineInv, Looping, PairInv, DecisionIsRight, MatchedIsComplete

LEMMA CheckStep ==
    ASSUME EngineInv, Check
    PROVE  EngineInv'
  <1>1. pc = "check" /\ UNCHANGED <<rules, input, cancelled, pair, left, covered,
            sawUnacknowledged, wildcardMissing, uncovered, explicitDeny, matched, late>>
    BY DEF Check, flagVars
  <1>2. /\ Pairs' = Pairs /\ Eligible' = Eligible /\ Expected' = Expected
        /\ \A rule, x : ruleMatches(rule, x)' <=> ruleMatches(rule, x)
        /\ \A rule, x : Denies(rule, x)' <=> Denies(rule, x)
        /\ \A x : (Granted(x)' <=> Granted(x)) /\ (Lacking(x)' <=> Lacking(x))
    BY <1>1, GoalStays
  <1>3. CASE /\ pc' = "done" /\ UNCHANGED todo
             /\ reason' \in {"internal_fail_closed", "mapping_low_confidence",
                             "resource_unresolved", "dependent_permission_unresolved"}
             /\ reason' \in Expected \/ (cancelled /\ reason' = "internal_fail_closed")
    <2>1. TypeOK'
      BY <1>1, <1>2, <1>3 DEF EngineInv, TypeOK, Reasons
    <2> QED
      BY <1>1, <1>2, <1>3, <2>1 DEF EngineInv, Looping, PairInv, DecisionIsRight, MatchedIsComplete
  <1>4. CASE Eligible /\ ~cancelled /\ todo' = Pairs /\ pc' = "resource" /\ UNCHANGED reason
    <2>1. TypeOK'
      BY <1>1, <1>2, <1>4 DEF EngineInv, TypeOK, Eligible, validateEvaluationInput
    <2>2. \A x \in Pairs : ~Closed(x)' /\ \A rule : ~Seen(rule, x)'
      BY <1>4 DEF Closed, Seen
    <2>3. DenyInv' /\ WildcardInv' /\ UncoveredInv'
      BY <1>1, <1>2, <2>2 DEF EngineInv, DenyInv, WildcardInv, UncoveredInv
    <2>4. MatchedInv'
      BY <1>1, <1>2, <2>2 DEF EngineInv, MatchedInv
    <2> QED
      BY <1>1, <1>2, <1>4, <2>1, <2>3, <2>4
      DEF EngineInv, Looping, PairInv, DecisionIsRight, MatchedIsComplete
  <1>5. CASE cancelled \/ ~Valid \/ input.confidence # "high" \/ ~validateEvaluationInput
    BY <1>1, <1>3, <1>5 DEF Check, Return, Expected
  <1>6. CASE ~cancelled /\ Valid /\ input.confidence = "high" /\ validateEvaluationInput
    <2>1. CASE Unresolved # {}
      <3>1. PICK q \in Unresolved : Return(UnresolvedReason(q))
        BY <1>6, <2>1 DEF Check
      <3>2. reason' \in Expected
        BY <1>6, <2>1, <3>1 DEF Expected, Return
      <3> QED
        BY <1>3, <1>6, <2>1, <3>1, <3>2 DEF Check, Return, UnresolvedReason
    <2>2. CASE Unresolved = {}
      BY <1>4, <1>6, <2>2 DEF Check, Eligible
    <2> QED
      BY <2>1, <2>2
  <1> QED
    BY <1>5, <1>6
(* A look at the context that finds it cancelled. *)
LEMMA AbortStep ==
    ASSUME EngineInv, cancelled, Return("internal_fail_closed"),
           UNCHANGED <<rules, input, cancelled, todo, pair, left, covered, sawUnacknowledged,
                       wildcardMissing, uncovered, explicitDeny, matched, late>>
    PROVE  EngineInv'
  <1>1. Pairs' = Pairs
    BY GoalStays
  <1>2. TypeOK'
    BY <1>1 DEF EngineInv, TypeOK, Return, Reasons
  <1> QED
    BY <1>2 DEF EngineInv, Looping, PairInv, DecisionIsRight, MatchedIsComplete, Return

LEMMA NextResourceStep ==
    ASSUME EngineInv, NextResource
    PROVE  EngineInv'
  <1>1. /\ pc = "resource"
        /\ UNCHANGED <<rules, input, cancelled, wildcardMissing, uncovered, explicitDeny, matched, late>>
    BY DEF NextResource, flagVars
  <1>2. CASE cancelled
    BY <1>1, <1>2, AbortStep DEF NextResource, loopVars
  <1>3. CASE ~cancelled
    <2>1. PICK x \in todo : /\ pair' = x /\ todo' = todo \ {x} /\ left' = rules
                            /\ covered' = FALSE /\ sawUnacknowledged' = FALSE
                            /\ pc' = "rules" /\ UNCHANGED reason
      BY <1>3 DEF NextResource
    <2>2. /\ Pairs' = Pairs /\ Eligible' = Eligible
          /\ \A rule, y : ruleMatches(rule, y)' <=> ruleMatches(rule, y)
          /\ \A rule, y : Denies(rule, y)' <=> Denies(rule, y)
          /\ \A y : (Granted(y)' <=> Granted(y)) /\ (Lacking(y)' <=> Lacking(y))
      BY <1>1, GoalStays
    <2>3. x \in Pairs /\ todo \subseteq Pairs
      BY DEF EngineInv, TypeOK
    <2>4. TypeOK'
      BY <1>1, <2>1, <2>2, <2>3 DEF EngineInv, TypeOK
    <2>5. \A y : Closed(y)' <=> Closed(y)
      BY <1>1, <2>1 DEF Closed
    <2>6. \A y : \A rule \in rules : Seen(rule, y)' <=> Seen(rule, y)
      BY <1>1, <2>1 DEF Seen
    <2>7. WildcardInv' /\ UncoveredInv'
      BY <1>1, <2>2, <2>5 DEF EngineInv, Looping, WildcardInv, UncoveredInv
    <2>8. DenyInv'
      BY <1>1, <2>2, <2>6 DEF EngineInv, Looping, DenyInv
    <2>9. MatchedInv'
      <3>1. {r \in rules : \E y \in Pairs : Seen(r, y) /\ ruleMatches(r, y)}'
            = {r \in rules : \E y \in Pairs : Seen(r, y) /\ ruleMatches(r, y)}
        BY <1>1, <2>2, <2>6
      <3> QED
        BY <1>1, <3>1 DEF EngineInv, Looping, MatchedInv
    <2>10. PairInv'
      BY <1>1, <2>1, <2>2, <2>3 DEF PairInv
    <2> QED
      BY <1>1, <2>1, <2>2, <2>4, <2>7, <2>8, <2>9, <2>10
      DEF EngineInv, Looping, DecisionIsRight, MatchedIsComplete
  <1> QED
    BY <1>2, <1>3

LEMMA ScanRuleStep ==
    ASSUME EngineInv, ScanRule
    PROVE  EngineInv'
  <1>1. /\ pc = "rules"
        /\ UNCHANGED <<rules, input, cancelled, todo, pair, wildcardMissing, uncovered>>
    BY DEF ScanRule
  <1>2. CASE ruleIndex % CheckEvery = 0 /\ cancelled
    BY <1>1, <1>2, AbortStep DEF ScanRule
  <1>3. CASE ~(ruleIndex % CheckEvery = 0 /\ cancelled)
    <2>1. PICK rule \in left : /\ Try(rule) /\ UNCHANGED <<pc, reason>>
                               /\ late' = IF cancelled THEN late + 1 ELSE late
      BY <1>3 DEF ScanRule
    <2>2. /\ Pairs' = Pairs /\ Eligible' = Eligible
          /\ \A r, x : ruleMatches(r, x)' <=> ruleMatches(r, x)
          /\ \A r, x : Denies(r, x)' <=> Denies(r, x)
          /\ \A r, x : (Grants(r, x)' <=> Grants(r, x)) /\ (Lacks(r, x)' <=> Lacks(r, x))
          /\ \A x : (Granted(x)' <=> Granted(x)) /\ (Lacking(x)' <=> Lacking(x))
      BY <1>1, GoalStays
    <2>3. /\ left' = left \ {rule}
          /\ matched' = IF ruleMatches(rule, pair) THEN matched \cup {rule.id} ELSE matched
          /\ explicitDeny' = (explicitDeny \/ Denies(rule, pair))
          /\ covered' = (covered \/ Grants(rule, pair))
          /\ sawUnacknowledged' = (sawUnacknowledged \/ Lacks(rule, pair))
      BY <2>1 DEF Try, Denies, Grants, Lacks
    <2>4. rule \in rules /\ rule.id \in Ids /\ pair \in Pairs /\ pair \notin todo /\ left \subseteq rules
      BY <1>1 DEF EngineInv, TypeOK, PairInv, Rule
    <2>5. TypeOK'
      <3>1. explicitDeny' \in BOOLEAN /\ covered' \in BOOLEAN /\ sawUnacknowledged' \in BOOLEAN
        BY <2>3
      <3>2. matched' \subseteq Ids /\ left' \subseteq rules /\ late' \in Nat
        BY <2>1, <2>3, <2>4 DEF EngineInv, TypeOK
      <3> QED
        BY <1>1, <2>1, <2>2, <3>1, <3>2 DEF EngineInv, TypeOK
    <2>6. \A x : Closed(x)' <=> Closed(x)
      BY <1>1, <2>1 DEF Closed
    <2>7. \A x : \A r \in rules : Seen(r, x)' <=> Seen(r, x) \/ (r = rule /\ x = pair)
      BY <1>1, <2>1, <2>3, <2>4 DEF Seen
    <2>8. WildcardInv' /\ UncoveredInv'
      BY <1>1, <2>2, <2>6 DEF EngineInv, Looping, WildcardInv, UncoveredInv
    <2>9. DenyInv'
      BY <1>1, <2>2, <2>3, <2>4, <2>7 DEF EngineInv, Looping, DenyInv
    <2>10. MatchedInv'
      <3> DEFINE Hits == {r \in rules : \E x \in Pairs : Seen(r, x) /\ ruleMatches(r, x)}
      <3>1. Hits' = IF ruleMatches(rule, pair) THEN Hits \cup {rule} ELSE Hits
        BY <1>1, <2>2, <2>4, <2>7
      <3>2. matched = {r.id : r \in Hits}
        BY <1>1 DEF EngineInv, Looping, MatchedInv
      <3>3. matched' = {r.id : r \in Hits'}
        BY <2>3, <3>1, <3>2
      <3> QED
        BY <3>3 DEF MatchedInv
    <2>11. PairInv'
      BY <1>1, <2>1, <2>2, <2>3, <2>4 DEF EngineInv, PairInv
    <2> QED
      BY <1>1, <2>1, <2>2, <2>5, <2>8, <2>9, <2>10, <2>11
      DEF EngineInv, Looping, DecisionIsRight, MatchedIsComplete
  <1> QED
    BY <1>2, <1>3

LEMMA ResourceEndStep ==
    ASSUME EngineInv, ResourceEnd
    PROVE  EngineInv'
  <1>1. /\ pc = "rules" /\ left = {} /\ pc' = "resource"
        /\ UNCHANGED <<rules, input, cancelled, todo, pair, left, covered, sawUnacknowledged,
                       explicitDeny, matched, reason, late>>
        /\ wildcardMissing' = (wildcardMissing \/ (~covered /\ sawUnacknowledged))
        /\ uncovered' = (uncovered \/ (~covered /\ ~sawUnacknowledged))
    BY DEF ResourceEnd, loopVars
  <1>2. /\ Pairs' = Pairs /\ Eligible' = Eligible
        /\ \A r, x : ruleMatches(r, x)' <=> ruleMatches(r, x)
        /\ \A r, x : Denies(r, x)' <=> Denies(r, x)
        /\ \A x : (Granted(x)' <=> Granted(x)) /\ (Lacking(x)' <=> Lacking(x))
    BY <1>1, GoalStays
  <1>3. /\ pair \in Pairs /\ pair \notin todo
        /\ covered <=> Granted(pair)
        /\ sawUnacknowledged <=> Lacking(pair)
    BY <1>1 DEF EngineInv, PairInv, Granted, Lacking
  <1>4. TypeOK'
    BY <1>1, <1>2 DEF EngineInv, TypeOK
  <1>5. \A x : Closed(x)' <=> Closed(x) \/ x = pair
    BY <1>1, <1>3 DEF Closed
  <1>6. \A r, x : Seen(r, x)' <=> Seen(r, x)
    BY <1>1 DEF Seen
  <1>7. WildcardInv' /\ UncoveredInv'
    BY <1>1, <1>2, <1>3, <1>5 DEF EngineInv, Looping, WildcardInv, UncoveredInv
  <1>8. DenyInv'
    BY <1>1, <1>2, <1>6 DEF EngineInv, Looping, DenyInv
  <1>9. MatchedInv'
    <2>1. {r \in rules : \E x \in Pairs : Seen(r, x) /\ ruleMatches(r, x)}'
          = {r \in rules : \E x \in Pairs : Seen(r, x) /\ ruleMatches(r, x)}
      BY <1>1, <1>2, <1>6
    <2> QED
      BY <1>1, <2>1 DEF EngineInv, Looping, MatchedInv
  <1> QED
    BY <1>1, <1>2, <1>4, <1>7, <1>8, <1>9
    DEF EngineInv, Looping, PairInv, DecisionIsRight, MatchedIsComplete

LEMMA FinishStep ==
    ASSUME EngineInv, Finish
    PROVE  EngineInv'
  <1>1. /\ pc = "resource" /\ todo = {} /\ pc' = "done"
        /\ UNCHANGED <<rules, input, cancelled, todo, pair, left, covered, sawUnacknowledged,
                       wildcardMissing, uncovered, explicitDeny, matched, late>>
        /\ reason' = IF explicitDeny THEN "explicit_deny"
                     ELSE IF wildcardMissing THEN "aws_required_wildcard_not_approved"
                     ELSE IF uncovered THEN "policy_no_matching_allow"
                     ELSE IF cancelled THEN "internal_fail_closed"
                     ELSE "all_requirements_allowed"
    BY DEF Finish, Return, loopVars, flagVars
  <1>2. /\ Pairs' = Pairs /\ Expected' = Expected
        /\ \A r, x : ruleMatches(r, x)' <=> ruleMatches(r, x)
    BY <1>1, GoalStays
  <1>3. \A x : Closed(x) /\ \A r : Seen(r, x)
    BY <1>1 DEF Closed, Seen
  <1>4. /\ explicitDeny <=> \E x \in Pairs, rule \in rules : Denies(rule, x)
        /\ wildcardMissing <=> \E x \in Pairs : ~Granted(x) /\ Lacking(x)
        /\ uncovered <=> \E x \in Pairs : ~Granted(x) /\ ~Lacking(x)
    BY <1>1, <1>3 DEF EngineInv, Looping, DenyInv, WildcardInv, UncoveredInv
  <1>5. reason' = Verdict \/ (cancelled /\ reason' = "internal_fail_closed")
    BY <1>1, <1>4 DEF Verdict, Lacking
  <1>6. Expected = {Verdict}
    BY <1>1 DEF EngineInv, Looping, Eligible, Expected
  <1>7. TypeOK'
    BY <1>1, <1>2 DEF EngineInv, TypeOK, Reasons
  <1>8. DecisionIsRight'
    BY <1>1, <1>2, <1>5, <1>6 DEF DecisionIsRight
  <1>9. MatchedIsComplete'
    <2>1. {r \in rules : \E x \in Pairs : Seen(r, x) /\ ruleMatches(r, x)}
          = {r \in rules : \E x \in Pairs : ruleMatches(r, x)}'
      BY <1>1, <1>2, <1>3
    <2> QED
      BY <1>1, <2>1 DEF EngineInv, Looping, MatchedInv, MatchedIsComplete
  <1> QED
    BY <1>1, <1>7, <1>8, <1>9 DEF EngineInv, Looping, PairInv

LEMMA CancelStep ==
    ASSUME EngineInv, UNCHANGED <<rules, input, pc, todo, pair, left, covered, sawUnacknowledged,
                                  wildcardMissing, uncovered, explicitDeny, matched, reason, late>>,
           cancelled' \in BOOLEAN, cancelled => cancelled'
    PROVE  EngineInv'
  <1>1. /\ Pairs' = Pairs /\ Eligible' = Eligible /\ Expected' = Expected
        /\ \A r, x : ruleMatches(r, x)' <=> ruleMatches(r, x)
        /\ \A r, x : Denies(r, x)' <=> Denies(r, x)
        /\ \A r, x : (Grants(r, x)' <=> Grants(r, x)) /\ (Lacks(r, x)' <=> Lacks(r, x))
        /\ \A x : (Granted(x)' <=> Granted(x)) /\ (Lacking(x)' <=> Lacking(x))
    BY GoalStays
  <1>2. \A r, x : (Seen(r, x)' <=> Seen(r, x)) /\ (Closed(x)' <=> Closed(x))
    BY DEF Seen, Closed
  <1>3. TypeOK'
    BY <1>1 DEF EngineInv, TypeOK
  <1>4. (DenyInv' <=> DenyInv) /\ (WildcardInv' <=> WildcardInv) /\ (UncoveredInv' <=> UncoveredInv)
    BY <1>1, <1>2 DEF DenyInv, WildcardInv, UncoveredInv
  <1>5. MatchedInv => MatchedInv'
    <2>1. {r \in rules : \E x \in Pairs : Seen(r, x) /\ ruleMatches(r, x)}'
          = {r \in rules : \E x \in Pairs : Seen(r, x) /\ ruleMatches(r, x)}
      BY <1>1, <1>2
    <2> QED
      BY <2>1 DEF MatchedInv
  <1>6. MatchedIsComplete'
    <2>1. {r \in rules : \E x \in Pairs : ruleMatches(r, x)}'
          = {r \in rules : \E x \in Pairs : ruleMatches(r, x)}
      BY <1>1
    <2> QED
      BY <2>1 DEF EngineInv, MatchedIsComplete
  <1>7. PairInv' /\ DecisionIsRight'
    BY <1>1 DEF EngineInv, PairInv, DecisionIsRight
  <1> QED
    BY <1>1, <1>3, <1>4, <1>5, <1>6, <1>7 DEF EngineInv, Looping

LEMMA NextInv ==
    ASSUME EngineInv, [Next]_vars
    PROVE  EngineInv'
  <1>1. CASE Cancel
    BY <1>1, CancelStep DEF Cancel, loopVars, flagVars
  <1>2. CASE UNCHANGED vars
    BY <1>2, CancelStep DEF vars, loopVars, flagVars, EngineInv, TypeOK
  <1> QED
    BY <1>1, <1>2, CheckStep, NextResourceStep, ScanRuleStep, ResourceEndStep, FinishStep
    DEF Next, Evaluate

-----------------------------------------------------------------------------
(* The theorems *)

(* What the flags of Engine.Evaluate mean at each point of its loops. *)
THEOREM EngineInvariant == Spec => []EngineInv
  BY InitInv, NextInv, PTL DEF Spec

(* Engine.Evaluate ends with the decision that the policy calls for. *)
THEOREM DecisionCorrect == Spec => []DecisionIsRight
  <1>1. EngineInv => DecisionIsRight
    BY DEF EngineInv
  <1> QED
    BY <1>1, EngineInvariant, PTL

(* MatchedRuleIDs of a decision by the policy is exactly the rules that match. *)
THEOREM MatchedRulesCorrect == Spec => []MatchedIsComplete
  <1>1. EngineInv => MatchedIsComplete
    BY DEF EngineInv
  <1> QED
    BY <1>1, EngineInvariant, PTL

(* No allow of Engine.Evaluate crosses partitions or regions, or rests on a  *)
(* constraint for which the ARN has no field.                                *)
THEOREM AllowInScope == Spec => []AllowStaysInScope
  <1>1. EngineInv => AllowStaysInScope
    <2> SUFFICES ASSUME EngineInv, Allowed, NEW x \in Pairs
                 PROVE  /\ x[2].kind = "arn" => /\ x[2].partition = input.partition
                                                /\ x[2].region \in {None, input.region}
                        /\ \E rule \in rules :
                              /\ rule.effect = "allow" /\ Grants(rule, x)
                              /\ x[2].kind = "arn" /\ x[2].region = None => rule.regions = {}
                              /\ x[2].kind = "arn" /\ x[2].account = None => rule.accounts = {}
      BY DEF AllowStaysInScope
    <2>1. Verdict = "all_requirements_allowed"
      BY DEF EngineInv, DecisionIsRight, Allowed, Expected, UnresolvedReason
    <2>2. Granted(x)
      BY <2>1 DEF Verdict
    <2>3. PICK rule \in rules : Grants(rule, x)
      BY <2>2 DEF Granted
    <2>4. rule.effect = "allow" /\ scopeMatches(rule, x)
      BY <2>3 DEF Grants, ruleMatches
    <2>5. rule.regions \subseteq Regions /\ rule.accounts \subseteq Accounts
      BY <2>3 DEF EngineInv, TypeOK, Rule
    <2>6. x[2].kind = "arn" => /\ x[2].partition = input.partition
                               /\ x[2].region \in {None, input.region}
                               /\ rule.regions = {} \/ x[2].region \in rule.regions
                               /\ rule.accounts = {} \/ x[2].account \in rule.accounts
      BY <2>4 DEF scopeMatches, constraintMatches
    <2> QED
      BY <2>3, <2>4, <2>5, <2>6, NoneAssumption
  <1> QED
    BY <1>1, EngineInvariant, PTL
=============================================================================
