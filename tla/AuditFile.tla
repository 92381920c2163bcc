------------------------------ MODULE AuditFile -----------------------------
(***************************************************************************)
(* The audit file of internal/audit/jsonl.go, which several runs append to, *)
(* one after the other or at once, and which `kordn audit' reads.  The      *)
(* queue in front of the file is AuditWriter's; here the file outlives the  *)
(* writers, a full disk and a crash of the machine.                         *)
(***************************************************************************)
EXTENDS Naturals, Sequences

CONSTANTS
    AuditRuns,
    MaxRecords      \* bound: events that one run writes

ASSUME MaxRecordsAssumption == MaxRecords \in Nat

VARIABLES
    disk,           \* the file: records in order; a record that is not whole has lost
                    \* its end, newline included
    kept,           \* number of records that a crash of the machine cannot undo
    appender,       \* "none", "open", "failed", "crashed", "closed" for each run
    appended,       \* events that each run has passed to the file
    answer          \* the last answer of ReadEvents

fileVars == <<disk, kept, appender, appended, answer>>

NoEvents == [kind |-> "none", events |-> <<>>]

FileInit ==
    /\ disk = <<>>
    /\ kept = 0
    /\ appender = [r \in AuditRuns |-> "none"]
    /\ appended = [r \in AuditRuns |-> 0]
    /\ answer = NoEvents

(* NewWriter: O_APPEND on whatever the file holds. *)
NewWriter(r) ==
    /\ appender[r] = "none"
    /\ appender' = [appender EXCEPT ![r] = "open"]
    /\ UNCHANGED <<disk, kept, appended, answer>>

AppendRecord(r, whole) ==
    /\ appender[r] = "open" /\ appended[r] < MaxRecords
    /\ appended' = [appended EXCEPT ![r] = @ + 1]
    /\ disk' = Append(disk, [run |-> r, n |-> appended[r] + 1, whole |-> whole])

writeOne(r) == AppendRecord(r, TRUE) /\ UNCHANGED <<kept, appender, answer>>

(* The disk takes a part of the record, or nothing of it: the writer fails. *)
writeOneShort(r) ==
    /\ appended[r] < MaxRecords /\ appender[r] = "open"
    /\ \/ AppendRecord(r, FALSE)
       \/ appended' = [appended EXCEPT ![r] = @ + 1] /\ UNCHANGED disk
    /\ appender' = [appender EXCEPT ![r] = "failed"]
    /\ UNCHANGED <<kept, answer>>

syncFile(r) ==
    /\ appender[r] = "open" /\ kept # Len(disk)
    /\ kept' = Len(disk)
    /\ UNCHANGED <<disk, appender, appended, answer>>

(* Mutant: Close drains the queue without the last sync. *)
CloseUnsynced(r) ==
    /\ appender[r] = "open"
    /\ appender' = [appender EXCEPT ![r] = "closed"]
    /\ UNCHANGED <<disk, kept, appended, answer>>

(* drain ends with a sync.  The Close of a failed writer changes no file. *)
CloseFile(r) ==
    /\ appender[r] = "open"
    /\ appender' = [appender EXCEPT ![r] = "closed"]
    /\ kept' = Len(disk)
    /\ UNCHANGED <<disk, appended, answer>>

(* The machine stops: what was not synced is cut at any byte. *)
MachineCrash ==
    /\ kept # Len(disk) \/ \E r \in AuditRuns : appender[r] = "open"
    /\ \E k \in kept..Len(disk) :
         \/ disk' = SubSeq(disk, 1, k)
         \/ /\ k < Len(disk)
            /\ disk' = Append(SubSeq(disk, 1, k), [disk[k + 1] EXCEPT !.whole = FALSE])
    /\ kept' = Len(disk')
    /\ appender' = [r \in AuditRuns |-> IF appender[r] = "open" THEN "crashed" ELSE appender[r]]
    /\ UNCHANGED <<appended, answer>>

(* A line ends where a whole record ends; one that begins with the rest of a   *)
(* torn record is no JSON value.                                               *)
Parses(s) == \A i \in DOMAIN s : s[i].whole

(* Mutant: lines that do not parse are skipped. *)
ReadEventsLenient(s) ==
    LET Alone(i) == s[i].whole /\ (i = 1 \/ s[i - 1].whole)
        lines == SelectSeq([i \in DOMAIN s |-> i], Alone)
    IN [kind |-> "events", events |-> [j \in DOMAIN lines |-> s[lines[j]]]]

(* A final record without newline, and any line that does not parse, is an     *)
(* error for the whole file.                                                   *)
ReadEvents(s) ==
    IF Parses(s) THEN [kind |-> "events", events |-> s] ELSE [kind |-> "error", events |-> <<>>]

(* os.ReadFile may meet an append in progress, of which it sees a part. *)
ReadFile ==
    /\ \/ answer' = ReadEvents(disk)
       \/ \E r \in AuditRuns : /\ appender[r] = "open" /\ appended[r] < MaxRecords
                          /\ answer' = ReadEvents(Append(disk, [run |-> r, n |-> appended[r] + 1,
                                                                whole |-> FALSE]))
    /\ UNCHANGED <<disk, kept, appender, appended>>

FileNext ==
    \/ \E r \in AuditRuns : NewWriter(r) \/ writeOne(r) \/ writeOneShort(r) \/ syncFile(r) \/ CloseFile(r)
    \/ MachineCrash
    \/ ReadFile

FileSpec == FileInit /\ [][FileNext]_fileVars

-----------------------------------------------------------------------------
OfRun(es, r) == {i \in DOMAIN es : es[i].run = r}

(* The events of each run are its first ones, in order, once each. *)
NoGap(es) ==
    \A r \in AuditRuns : \A i \in OfRun(es, r) :
        /\ \A j \in OfRun(es, r) : j < i <=> es[j].n < es[i].n
        /\ \A m \in 1..es[i].n : \E j \in OfRun(es, r) : es[j].n = m

(* An answer of ReadEvents is the audit trail: of each run the first events,   *)
(* whole, in order and without a gap, whatever was torn or lost.               *)
AnswersHaveNoGap == NoGap(answer.events) /\ Parses(answer.events)

(* Every event of a run whose Close succeeded is in every later answer, also   *)
(* after a crash of the machine that cut off events of other runs.             *)
ClosedIsAnswered ==
    [][answer' # answer /\ answer'.kind = "events" =>
         \A r \in AuditRuns : appender[r] = "closed" =>
            {answer'.events[i].n : i \in OfRun(answer'.events, r)} = 1..appended[r]]_fileVars
=============================================================================
