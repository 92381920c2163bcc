--------------------------- MODULE PipelineProofs ---------------------------
(***************************************************************************)
(* Proofs about what the proxy does with an intercepted request: what      *)
(* Pipeline promises for every set of requests, every policy and every     *)
(* capacity of the slots and the caches, and that Decode finds the one     *)
(* operation a request is, for every wire catalogue and every request.     *)
(***************************************************************************)
EXTENDS Pipeline, Decode, FiniteSetTheorems, TLAPS

Results == Verdicts \cup {"rejected"}
Undecided == {"idle", "verify", "decode", "mapLookup", "map", "mapAdd", "lookup",
              "evaluate", "add", "audit"}
Authorized == {"resign", "recheck", "forward", "roundTrip"}
Answered == {"release", "done"}
Upstream == {"upstream", "upstreamError"}

Recorded(r, v) == DecisionEvent(r, v) \in log

(* A cached allow is the policy's allow: a fail-closed result can only deny. *)
CacheInv == \A k \in DOMAIN decisions : decisions[k] = "allow" => k \in Allowed

(* Where a request is in the handler determines what it holds, what was      *)
(* recorded of it and whether it was sent.                                   *)
StageInv(r) ==
    /\ decision[r] = "allow" => key[r] \in Allowed
    /\ pc[r] \in {"add", "audit"} => decision[r] # "none"
    /\ pc[r] \in Undecided => \A v \in Results : ~Recorded(r, v)
    /\ pc[r] \in Authorized => decision[r] = "allow" /\ Recorded(r, "allow")
    /\ pc[r] \in Answered <=> answer[r] # "none"
    /\ answer[r] \in Upstream => decision[r] = "allow" /\ Recorded(r, "allow")
    /\ answer[r] \in {"deny", "failClosed", "rejected"} => Recorded(r, answer[r])
    /\ sent[r] = IF pc[r] = "roundTrip" \/ answer[r] \in Upstream THEN 1 ELSE 0
    /\ \A u, v \in Results : Recorded(r, u) /\ Recorded(r, v) => u = v

Holders == {r \in Requests : pc[r] \notin {"idle", "done"}}

PipelineInv ==
    /\ TypeOK
    /\ CacheInv
    /\ \A r \in Requests : StageInv(r)
    /\ slots = Cardinality(Holders)

-----------------------------------------------------------------------------
(* What one request does leaves the facts about another one alone. *)
LEMMA OtherRequest ==
    ASSUME NEW q \in Requests, StageInv(q),
           pc'[q] = pc[q], key'[q] = key[q], decision'[q] = decision[q],
           answer'[q] = answer[q], sent'[q] = sent[q],
           \A v \in Results : Recorded(q, v)' <=> Recorded(q, v)
    PROVE  StageInv(q)'
  BY DEF StageInv, Results, Verdicts

(* An event of one request is not a decision event of another one. *)
LEMMA EventsApart ==
    ASSUME NEW q \in Requests, NEW r \in Requests, q # r, NEW e \in Events,
           e.request = r, log' = log \cup {e} \/ log' = log
    PROVE  \A v \in Results : Recorded(q, v)' <=> Recorded(q, v)
  BY DEF Recorded, DecisionEvent, Events

(* Entering, staying in and leaving the handler, counted. *)
LEMMA Entering ==
    ASSUME TypeOK, NEW r \in Requests, slots = Cardinality(Holders),
           pc[r] = "idle", pc' = [pc EXCEPT ![r] = "verify"], slots' = slots + 1
    PROVE  slots' = Cardinality(Holders')
  <1>1. Holders' = Holders \cup {r} /\ r \notin Holders
    BY DEF Holders, TypeOK
  <1>2. IsFiniteSet(Holders)
    BY RequestsAssumption, FS_Subset DEF Holders
  <1> QED
    BY <1>1, <1>2, FS_AddElement

LEMMA Staying ==
    ASSUME TypeOK, NEW r \in Requests, NEW stage \in Stages,
           slots = Cardinality(Holders),
           pc[r] \in {"idle", "done"} <=> stage \in {"idle", "done"},
           pc' = [pc EXCEPT ![r] = stage], slots' = slots
    PROVE  slots' = Cardinality(Holders')
  <1>1. Holders' = Holders
    BY DEF Holders, TypeOK
  <1> QED
    BY <1>1

LEMMA Leaving ==
    ASSUME TypeOK, NEW r \in Requests, slots = Cardinality(Holders),
           pc[r] = "release", pc' = [pc EXCEPT ![r] = "done"], slots' = slots - 1
    PROVE  slots' = Cardinality(Holders') /\ slots' \in 0..MaxRequests
  <1>1. Holders' = Holders \ {r} /\ r \in Holders
    BY DEF Holders, TypeOK
  <1>2. IsFiniteSet(Holders)
    BY RequestsAssumption, FS_Subset DEF Holders
  <1>3. Cardinality(Holders \ {r}) = Cardinality(Holders) - 1
    BY <1>1, <1>2, FS_RemoveElement
  <1>4. Cardinality(Holders \ {r}) \in Nat
    BY <1>2, FS_RemoveElement, FS_CardinalityType
  <1> QED
    BY <1>1, <1>3, <1>4, LimitsAssumption DEF TypeOK

(* A step of one request's handler preserves the invariant when it preserves *)
(* the types, the caches and the facts about that request.                   *)
LEMMA HandlerFrame ==
    ASSUME PipelineInv, NEW r \in Requests, NEW e \in Events, e.request = r,
           NEW stage \in Stages, pc' = [pc EXCEPT ![r] = stage], key' = key,
           \A q \in Requests \ {r} :
              decision'[q] = decision[q] /\ answer'[q] = answer[q] /\ sent'[q] = sent[q],
           log' = log \cup {e} \/ log' = log,
           TypeOK', CacheInv', StageInv(r)', slots' = Cardinality(Holders')
    PROVE  PipelineInv'
  <1>1. ASSUME NEW q \in Requests, q # r
        PROVE  StageInv(q)'
    <2>1. \A v \in Results : Recorded(q, v)' <=> Recorded(q, v)
      BY <1>1, EventsApart
    <2>2. pc'[q] = pc[q] /\ StageInv(q)
      BY <1>1 DEF PipelineInv, TypeOK
    <2> QED
      BY <1>1, <2>1, <2>2, OtherRequest
  <1> QED
    BY <1>1 DEF PipelineInv

------------------------------------------------------------------

(* The handler moves on without a trace outside it. *)
LEMMA QuietStep ==
    ASSUME PipelineInv, NEW r \in Requests, NEW stage \in Stages \ {"add"},
           pc' = [pc EXCEPT ![r] = stage], TypeOK',
           UNCHANGED <<key, decision, answer, sent, slots, decisions, log>>,
           \/ {pc[r], stage} \subseteq Undecided \ {"idle", "audit"}
           \/ {pc[r], stage} \subseteq Authorized \ {"roundTrip"}
    PROVE  PipelineInv'
  <1> DEFINE e == DecisionEvent(r, "rejected")
  <1>1. e \in Events /\ e.request = r
    BY DEF Events, DecisionEvent
  <1>2. CacheInv'
    BY DEF PipelineInv, CacheInv
  <1>3. StageInv(r)'
    BY DEF PipelineInv, TypeOK, StageInv, Undecided, Authorized, Answered, Upstream, Recorded
  <1>4. slots' = Cardinality(Holders')
    BY Staying, Zenon DEF PipelineInv, Undecided, Authorized
  <1> QED
    BY <1>1, <1>2, <1>3, <1>4, HandlerFrame, Zenon

(* The handler answers: with a decision that it records, or with another     *)
(* answer and no decision on record.                                         *)
LEMMA RespondStep ==
    ASSUME PipelineInv, NEW r \in Requests, NEW what \in Answers \ {"none"},
           Respond(r, what), TypeOK',
           pc[r] \in (Undecided \ {"idle"}) \cup Authorized,
           what \in Upstream <=> pc[r] = "roundTrip",
           UNCHANGED <<key, decision, sent, slots, decisions>>,
           NEW e \in Events, e.request = r,
           \/ what \notin Results /\ log' = log
           \/ what \notin Results /\ e.type # "decision" /\ log' = log \cup {e}
           \/ /\ what \in Results /\ e = DecisionEvent(r, what)
              /\ pc[r] \in Undecided /\ log' = log \cup {e}
    PROVE  PipelineInv'
  <1>1. pc' = [pc EXCEPT ![r] = "release"] /\ answer' = [answer EXCEPT ![r] = what]
    BY DEF Respond, Goto
  <1>2. CacheInv'
    BY DEF PipelineInv, CacheInv
  <1>3. pc'[r] = "release" /\ answer'[r] = what /\ StageInv(r)
    BY <1>1 DEF PipelineInv, TypeOK
  <1>4. \A v \in Results : Recorded(r, v)' <=> Recorded(r, v) \/ (what \in Results /\ v = what)
    BY DEF Recorded, DecisionEvent
  <1>5. StageInv(r)'
    <2>1. CASE pc[r] \in Undecided
      BY <2>1, <1>3, <1>4 DEF StageInv, Undecided, Authorized, Answered, Upstream, Results, Answers, Verdicts
    <2>2. CASE pc[r] \in Authorized
      BY <2>2, <1>3, <1>4 DEF StageInv, Undecided, Authorized, Answered, Upstream, Results, Answers, Verdicts
    <2> QED
      BY <2>1, <2>2
  <1>6. slots' = Cardinality(Holders')
    BY <1>1, Staying, Zenon DEF PipelineInv, Undecided, Authorized, Stages
  <1>7. \A q \in Requests \ {r} :
           decision'[q] = decision[q] /\ answer'[q] = answer[q] /\ sent'[q] = sent[q]
    BY <1>1 DEF PipelineInv, TypeOK
  <1> QED
    BY <1>1, <1>2, <1>5, <1>6, <1>7, HandlerFrame, Zenon DEF Stages

-----------------------------------------------------------------------------
(* The actions *)

LEMMA ArriveStep ==
    ASSUME PipelineInv, NEW r \in Requests, Arrive(r)
    PROVE  PipelineInv'
  <1> DEFINE e == DecisionEvent(r, "rejected")
  <1>1. e \in Events /\ e.request = r
    BY DEF Events, DecisionEvent
  <1>2. pc[r] = "idle" /\ StageInv(r)
    BY DEF PipelineInv, Arrive
  <1>3. CacheInv'
    BY DEF PipelineInv, CacheInv, Arrive, cacheVars
  <1>4. CASE slots < MaxRequests
    <2>1. /\ pc' = [pc EXCEPT ![r] = "verify"] /\ slots' = slots + 1
          /\ UNCHANGED <<requestVars, decision, answer, sent, cacheVars, log, systemVars>>
      BY <1>4 DEF Arrive, Goto
    <2>2. TypeOK'
      BY <1>4, <2>1, LimitsAssumption
      DEF PipelineInv, TypeOK, Stages, requestVars, cacheVars, systemVars
    <2>3. StageInv(r)'
      BY <1>2, <2>1 DEF PipelineInv, TypeOK, StageInv, Undecided, Authorized, Answered,
                        Upstream, Recorded, requestVars
    <2>4. slots' = Cardinality(Holders')
      BY <1>2, <2>1, Entering, Zenon DEF PipelineInv
    <2> QED
      BY <1>1, <1>3, <2>1, <2>2, <2>3, <2>4, HandlerFrame, Zenon DEF Stages, requestVars
  <1>5. CASE ~(slots < MaxRequests)
    <2>1. /\ pc' = [pc EXCEPT ![r] = "done"] /\ answer' = [answer EXCEPT ![r] = "busy"]
          /\ UNCHANGED <<requestVars, decision, slots, sent, cacheVars, log, systemVars>>
      BY <1>5 DEF Arrive, Goto
    <2>2. TypeOK'
      BY <2>1 DEF PipelineInv, TypeOK, Stages, Answers, requestVars, cacheVars, systemVars
    <2>3. StageInv(r)'
      BY <1>2, <2>1 DEF PipelineInv, TypeOK, StageInv, Undecided, Authorized, Answered,
                        Upstream, Recorded, requestVars
    <2>4. slots' = Cardinality(Holders')
      BY <1>2, <2>1, Staying, Zenon DEF PipelineInv, Stages
    <2>5. \A q \in Requests \ {r} : answer'[q] = answer[q]
      BY <2>1 DEF PipelineInv, TypeOK
    <2> QED
      BY <1>1, <1>3, <2>1, <2>2, <2>3, <2>4, <2>5, HandlerFrame, Zenon DEF Stages, requestVars
  <1> QED
    BY <1>4, <1>5

(* The steps that only move on. *)
LEMMA QuietSteps ==
    ASSUME PipelineInv, NEW r \in Requests,
           Verify(r) \/ Decode(r) \/ MapLookup(r) \/ Map(r) \/ Resign(r)
    PROVE  PipelineInv'
  <1> USE DEF Goto, requestVars, cacheVars, systemVars
  <1>1. PICK stage \in Stages \ {"add"} :
           /\ pc' = [pc EXCEPT ![r] = stage]
           /\ \/ {pc[r], stage} \subseteq Undecided \ {"idle", "audit"}
              \/ {pc[r], stage} \subseteq Authorized \ {"roundTrip"}
    BY DEF Verify, Decode, MapLookup, Map, Resign, Stages, Undecided, Authorized
  <1>2. UNCHANGED <<key, cancelled, decision, answer, sent, slots, mappings, decisions, log, audit, server>>
    BY DEF Verify, Decode, MapLookup, Map, Resign
  <1>3. TypeOK'
    BY <1>1, <1>2 DEF PipelineInv, TypeOK
  <1> QED
    BY <1>1, <1>2, <1>3, QuietStep, Zenon

LEMMA MapAddStep ==
    ASSUME PipelineInv, NEW r \in Requests, MapAdd(r)
    PROVE  PipelineInv'
  <1>1. /\ pc[r] = "mapAdd" /\ pc' = [pc EXCEPT ![r] = "lookup"]
        /\ UNCHANGED <<key, cancelled, decision, answer, sent, slots, decisions, log, audit, server>>
    BY DEF MapAdd, Goto, requestVars, systemVars
  <1>2. mappings' \subseteq Keys
    <2> DEFINE old == [k \in mappings |-> "mapping"]
    <2>1. PICK cache \in CacheAdd(old, key[r], "mapping") : mappings' = DOMAIN cache
      BY DEF MapAdd
    <2>2. DOMAIN old = mappings /\ mappings \subseteq Keys /\ key[r] \in Keys
      BY DEF PipelineInv, TypeOK
    <2> HIDE DEF old
    <2>3. DOMAIN cache \subseteq DOMAIN old \cup {key[r]}
      BY <2>1, Zenon DEF CacheAdd
    <2> QED
      BY <2>1, <2>2, <2>3
  <1>3. TypeOK'
    BY <1>1, <1>2 DEF PipelineInv, TypeOK, Stages
  <1> QED
    BY <1>1, <1>3, QuietStep, Zenon DEF Stages, Undecided

(* A cache hit brings the policy's allow only for a key the policy allows. *)
LEMMA LookupStep ==
    ASSUME PipelineInv, NEW r \in Requests, Lookup(r)
    PROVE  PipelineInv'
  <1> USE DEF Lookup, Goto, requestVars, cacheVars, systemVars
  <1>1. CASE key[r] \notin DOMAIN decisions
    <2>1. TypeOK'
      BY <1>1 DEF PipelineInv, TypeOK, Stages
    <2> QED
      BY <1>1, <2>1, QuietStep DEF Stages, Undecided
  <1>2. CASE key[r] \in DOMAIN decisions
    <2> DEFINE e == DecisionEvent(r, "rejected")
    <2>1. e \in Events /\ e.request = r
      BY DEF Events, DecisionEvent
    <2>2. /\ pc[r] = "lookup" /\ pc' = [pc EXCEPT ![r] = "audit"]
          /\ decision' = [decision EXCEPT ![r] = decisions[key[r]]]
          /\ UNCHANGED <<key, cancelled, answer, sent, slots, mappings, decisions, log, audit, server>>
      BY <1>2
    <2>3. decisions[key[r]] \in Verdicts /\ StageInv(r)
          /\ (decisions[key[r]] = "allow" => key[r] \in Allowed)
      BY <1>2 DEF PipelineInv, TypeOK, CacheInv
    <2>4. TypeOK' /\ CacheInv'
      BY <2>2, <2>3 DEF PipelineInv, TypeOK, CacheInv, Stages
    <2>5. StageInv(r)'
      BY <2>2, <2>3 DEF PipelineInv, TypeOK, StageInv, Undecided, Authorized, Answered,
                        Upstream, Recorded, Verdicts
    <2>6. slots' = Cardinality(Holders')
      BY <2>2, Staying, Zenon DEF PipelineInv, Stages
    <2>7. \A q \in Requests \ {r} : decision'[q] = decision[q]
      BY <2>2 DEF PipelineInv, TypeOK
    <2> QED
      BY <2>1, <2>2, <2>4, <2>5, <2>6, <2>7, HandlerFrame, Zenon DEF Stages
  <1> QED
    BY <1>1, <1>2

LEMMA EvaluateStep ==
    ASSUME PipelineInv, NEW r \in Requests, Evaluate(r)
    PROVE  PipelineInv'
  <1> DEFINE e == DecisionEvent(r, "rejected")
             v == IF r \in cancelled THEN "failClosed" ELSE Verdict(key[r])
  <1>1. e \in Events /\ e.request = r
    BY DEF Events, DecisionEvent
  <1>2. /\ pc[r] = "evaluate" /\ pc' = [pc EXCEPT ![r] = "add"]
        /\ decision' = [decision EXCEPT ![r] = v]
        /\ UNCHANGED <<key, cancelled, answer, sent, slots, mappings, decisions, log, audit, server>>
    BY DEF Evaluate, Goto, requestVars, cacheVars, systemVars
  <1>3. v \in Verdicts /\ (v = "allow" => key[r] \in Allowed) /\ StageInv(r)
    BY DEF PipelineInv, Verdict, Verdicts
  <1> HIDE DEF v
  <1>4. TypeOK' /\ CacheInv'
    BY <1>2, <1>3 DEF PipelineInv, TypeOK, CacheInv, Stages
  <1>5. StageInv(r)'
    BY <1>2, <1>3 DEF PipelineInv, TypeOK, StageInv, Undecided, Authorized, Answered,
                      Upstream, Recorded, Verdicts
  <1>6. slots' = Cardinality(Holders')
    BY <1>2, Staying, Zenon DEF PipelineInv, Stages
  <1>7. \A q \in Requests \ {r} : decision'[q] = decision[q]
    BY <1>2 DEF PipelineInv, TypeOK
  <1> QED
    BY <1>1, <1>2, <1>4, <1>5, <1>6, <1>7, HandlerFrame, Zenon DEF Stages

(* The entry that is added is right, and the ones that stay were. *)
LEMMA DecisionAddStep ==
    ASSUME PipelineInv, NEW r \in Requests, DecisionAdd(r)
    PROVE  PipelineInv'
  <1> DEFINE e == DecisionEvent(r, "rejected")
  <1>1. e \in Events /\ e.request = r
    BY DEF Events, DecisionEvent
  <1>2. /\ pc[r] = "add" /\ pc' = [pc EXCEPT ![r] = "audit"]
        /\ decisions' \in CacheAdd(decisions, key[r], decision[r])
        /\ UNCHANGED <<key, cancelled, decision, answer, sent, slots, mappings, log, audit, server>>
    BY DEF DecisionAdd, Goto, requestVars, systemVars
  <1>3. /\ DOMAIN decisions' \subseteq DOMAIN decisions \cup {key[r]}
        /\ \A k \in DOMAIN decisions' :
              decisions'[k] = IF k = key[r] THEN decision[r] ELSE decisions[k]
    BY <1>2, Zenon DEF CacheAdd
  <1>4. decision[r] \in Verdicts /\ (decision[r] = "allow" => key[r] \in Allowed) /\ StageInv(r)
    BY <1>2 DEF PipelineInv, TypeOK, StageInv
  <1>5. TypeOK'
    BY <1>2, <1>3, <1>4 DEF PipelineInv, TypeOK, Stages
  <1>6. CacheInv'
    BY <1>3, <1>4 DEF PipelineInv, CacheInv
  <1>7. StageInv(r)'
    BY <1>2, <1>4 DEF PipelineInv, TypeOK, StageInv, Undecided, Authorized, Answered,
                      Upstream, Recorded, Verdicts
  <1>8. slots' = Cardinality(Holders')
    BY <1>2, Staying, Zenon DEF PipelineInv, Stages
  <1> QED
    BY <1>1, <1>2, <1>5, <1>6, <1>7, <1>8, HandlerFrame, Zenon DEF Stages

(* Answers that record no decision. *)
LEMMA UnrecordedAnswers ==
    ASSUME PipelineInv, NEW r \in Requests,
           \/ VerifyFail(r) \/ AuditUnavailable(r) \/ ResignFail(r)
           \/ RoundTrip(r) \/ RoundTripFail(r)
    PROVE  PipelineInv'
  <1> DEFINE a == [type |-> "authenticationFailed", request |-> r]
             f == [type |-> "forwardError", request |-> r]
  <1>1. a \in Events /\ f \in Events /\ a.request = r /\ f.request = r
        /\ a.type # "decision" /\ f.type # "decision"
    BY DEF Events
  <1>2. PICK what \in Answers \ ({"none"} \cup Results), e \in {a, f} :
           /\ Respond(r, what)
           /\ pc[r] \in (Undecided \ {"idle"}) \cup Authorized
           /\ what \in Upstream <=> pc[r] = "roundTrip"
           /\ log' = log \/ log' = log \cup {e}
    BY DEF VerifyFail, AuditUnavailable, ResignFail, RoundTrip, RoundTripFail, AuditAccepts,
           AuditRefuses, Answers, Results, Verdicts, Undecided, Authorized, Upstream
  <1> HIDE DEF a, f
  <1>3. UNCHANGED <<key, cancelled, decision, sent, slots, mappings, decisions, audit, server>>
    BY DEF VerifyFail, AuditUnavailable, ResignFail, RoundTrip, RoundTripFail, requestVars,
           cacheVars, systemVars
  <1>4. TypeOK'
    BY <1>1, <1>2, <1>3 DEF PipelineInv, TypeOK, Respond, Goto, Stages
  <1> QED
    BY <1>1, <1>2, <1>3, <1>4, RespondStep

(* finishFailedPipeline *)
LEMMA RejectionSteps ==
    ASSUME PipelineInv, NEW r \in Requests, DecodeFail(r) \/ MapFail(r)
    PROVE  PipelineInv'
  <1> DEFINE e == DecisionEvent(r, "rejected")
  <1>1. e \in Events /\ e.request = r
    BY DEF Events, DecisionEvent
  <1>2. /\ pc[r] \in Undecided \ {"idle"} /\ pc[r] # "roundTrip"
        /\ FinishFailed(r)
        /\ UNCHANGED <<key, cancelled, decision, sent, slots, mappings, decisions, audit, server>>
    BY DEF DecodeFail, MapFail, Undecided, requestVars, cacheVars, systemVars
  <1>3. PICK what \in {"rejected", "auditUnavailable"} :
           /\ Respond(r, what)
           /\ log' = IF what = "rejected" THEN log \cup {e} ELSE log
    BY <1>2 DEF FinishFailed, AuditAccepts, AuditRefuses
  <1>4. TypeOK'
    BY <1>1, <1>2, <1>3 DEF PipelineInv, TypeOK, Respond, Goto, Stages, Answers
  <1> QED
    BY <1>1, <1>2, <1>3, <1>4, RespondStep DEF Answers, Results, Verdicts, Upstream

(* The decision is on record before the request is denied or may go on. *)
LEMMA AcceptAuditStep ==
    ASSUME PipelineInv, NEW r \in Requests, AcceptAudit(r)
    PROVE  PipelineInv'
  <1> DEFINE e == DecisionEvent(r, decision[r])
  <1>1. /\ pc[r] = "audit" /\ log' = log \cup {e}
        /\ UNCHANGED <<key, cancelled, decision, sent, slots, mappings, decisions, audit, server>>
    BY DEF AcceptAudit, AuditAccepts, requestVars, cacheVars, systemVars
  <1>2. decision[r] \in Verdicts /\ StageInv(r)
    BY <1>1 DEF PipelineInv, TypeOK, StageInv
  <1>3. e \in Events /\ e.request = r
    BY <1>2 DEF Events, DecisionEvent
  <1>4. CASE decision[r] = "allow"
    <2>1. pc' = [pc EXCEPT ![r] = "resign"] /\ answer' = answer
      BY <1>4 DEF AcceptAudit, Goto
    <2>2. TypeOK' /\ CacheInv'
      BY <1>1, <1>3, <2>1 DEF PipelineInv, TypeOK, CacheInv, Stages
    <2>3. \A v \in Results : Recorded(r, v)' <=> Recorded(r, v) \/ v = "allow"
      BY <1>1, <1>4 DEF Recorded, DecisionEvent
    <2>4. StageInv(r)'
      BY <1>1, <1>2, <1>4, <2>1, <2>3
      DEF PipelineInv, TypeOK, StageInv, Undecided, Authorized, Answered, Upstream, Results, Verdicts
    <2>5. slots' = Cardinality(Holders')
      BY <1>1, <2>1, Staying, Zenon DEF PipelineInv, Stages
    <2> QED
      BY <1>1, <1>3, <2>1, <2>2, <2>4, <2>5, HandlerFrame, Zenon DEF Stages
  <1>5. CASE decision[r] # "allow"
    <2>1. Respond(r, decision[r])
      BY <1>5 DEF AcceptAudit
    <2>2. decision[r] \in Answers \ {"none"} /\ decision[r] \in Results /\ decision[r] \notin Upstream
      BY <1>2, <1>5 DEF Verdicts, Answers, Results, Upstream
    <2>3. TypeOK'
      BY <1>1, <1>3, <2>1, <2>2 DEF PipelineInv, TypeOK, Respond, Goto, Stages
    <2> QED
      BY <1>1, <1>3, <2>1, <2>2, <2>3, RespondStep DEF Undecided
  <1> QED
    BY <1>4, <1>5

LEMMA RecheckStep ==
    ASSUME PipelineInv, NEW r \in Requests, Recheck(r)
    PROVE  PipelineInv'
  <1>1. /\ pc[r] = "recheck"
        /\ UNCHANGED <<key, cancelled, decision, sent, slots, mappings, decisions, log, audit, server>>
    BY DEF Recheck, requestVars, cacheVars, systemVars
  <1>2. CASE audit = "failed"
    <2> DEFINE e == DecisionEvent(r, "rejected")
    <2>1. e \in Events /\ e.request = r
      BY DEF Events, DecisionEvent
    <2>2. Respond(r, "auditUnavailable")
      BY <1>2 DEF Recheck
    <2>3. TypeOK'
      BY <1>1, <2>2 DEF PipelineInv, TypeOK, Respond, Goto, Stages, Answers
    <2> QED
      BY <1>1, <2>1, <2>2, <2>3, RespondStep DEF Answers, Results, Verdicts, Upstream, Authorized
  <1>3. CASE audit # "failed"
    <2>1. pc' = [pc EXCEPT ![r] = "forward"] /\ answer' = answer
      BY <1>3 DEF Recheck, Goto
    <2>2. TypeOK'
      BY <1>1, <2>1 DEF PipelineInv, TypeOK, Stages
    <2> QED
      BY <1>1, <2>1, <2>2, QuietStep, Zenon DEF Stages, Authorized
  <1> QED
    BY <1>2, <1>3

(* The one place where a request is sent. *)
LEMMA ForwardStep ==
    ASSUME PipelineInv, NEW r \in Requests, Forward(r)
    PROVE  PipelineInv'
  <1> DEFINE e == DecisionEvent(r, "rejected")
  <1>1. e \in Events /\ e.request = r
    BY DEF Events, DecisionEvent
  <1>2. /\ pc[r] = "forward" /\ pc' = [pc EXCEPT ![r] = "roundTrip"]
        /\ sent' = [sent EXCEPT ![r] = sent[r] + 1]
        /\ UNCHANGED <<key, cancelled, decision, answer, slots, mappings, decisions, log, audit, server>>
    BY DEF Forward, Goto, requestVars, cacheVars, systemVars
  <1>3. TypeOK' /\ CacheInv'
    BY <1>2 DEF PipelineInv, TypeOK, CacheInv, Stages
  <1>4. sent[r] = 0 /\ StageInv(r) /\ pc'[r] = "roundTrip" /\ sent'[r] = 1
    <2>1. StageInv(r) /\ answer[r] \notin Upstream
      BY <1>2 DEF PipelineInv, StageInv, Answered, Upstream
    <2>2. sent[r] = 0
      BY <1>2, <2>1 DEF StageInv
    <2>3. pc'[r] = "roundTrip" /\ sent'[r] = 1
      BY <1>2, <2>2 DEF PipelineInv, TypeOK
    <2> QED
      BY <2>1, <2>2, <2>3
  <1>5. StageInv(r)'
    BY <1>2, <1>4 DEF StageInv, Undecided, Authorized, Answered, Upstream, Recorded
  <1>6. slots' = Cardinality(Holders')
    BY <1>2, Staying, Zenon DEF PipelineInv, Stages
  <1>7. \A q \in Requests \ {r} : sent'[q] = sent[q]
    BY <1>2 DEF PipelineInv, TypeOK
  <1> QED
    BY <1>1, <1>2, <1>3, <1>5, <1>6, <1>7, HandlerFrame, Zenon DEF Stages

LEMMA ReleaseSlotStep ==
    ASSUME PipelineInv, NEW r \in Requests, ReleaseSlot(r)
    PROVE  PipelineInv'
  <1> DEFINE e == DecisionEvent(r, "rejected")
  <1>1. e \in Events /\ e.request = r
    BY DEF Events, DecisionEvent
  <1>2. /\ pc[r] = "release" /\ pc' = [pc EXCEPT ![r] = "done"] /\ slots' = slots - 1
        /\ UNCHANGED <<key, cancelled, decision, answer, sent, mappings, decisions, log, audit, server>>
    BY DEF ReleaseSlot, Goto, requestVars, cacheVars, systemVars
  <1>3. slots' = Cardinality(Holders') /\ slots' \in 0..MaxRequests
    BY <1>2, Leaving, Zenon DEF PipelineInv
  <1>4. TypeOK' /\ CacheInv'
    BY <1>2, <1>3 DEF PipelineInv, TypeOK, CacheInv, Stages
  <1>5. StageInv(r)'
    BY <1>2 DEF PipelineInv, TypeOK, StageInv, Undecided, Authorized, Answered, Upstream, Recorded
  <1> QED
    BY <1>1, <1>2, <1>3, <1>4, <1>5, HandlerFrame, Zenon DEF Stages

(* What happens around the handlers changes none of the facts about them. *)
LEMMA SurroundingSteps ==
    ASSUME PipelineInv,
           \/ \E r \in Requests : Cancel(r)
           \/ AuditFail \/ AuditClose \/ Close \/ ClearCaches
           \/ UNCHANGED vars
    PROVE  PipelineInv'
  <1> USE DEF Cancel, AuditFail, AuditClose, Close, ClearCaches, vars, requestVars, cacheVars, systemVars
  <1>1. UNCHANGED <<pc, key, decision, answer, sent, slots, log>>
    OBVIOUS
  <1>2. TypeOK'
    BY DEF PipelineInv, TypeOK
  <1>3. CacheInv'
    BY DEF PipelineInv, CacheInv
  <1>4. \A r \in Requests : StageInv(r)'
    BY <1>1 DEF PipelineInv, StageInv, Recorded
  <1>5. slots' = Cardinality(Holders')
    BY <1>1 DEF PipelineInv, Holders
  <1> QED
    BY <1>2, <1>3, <1>4, <1>5 DEF PipelineInv

LEMMA InitInv == Init => PipelineInv
  <1> SUFFICES ASSUME Init PROVE PipelineInv
    OBVIOUS
  <1>1. TypeOK
    BY LimitsAssumption DEF Init, TypeOK, Stages, Answers
  <1>2. CacheInv
    BY DEF Init, CacheInv
  <1>3. ASSUME NEW r \in Requests PROVE StageInv(r)
    BY DEF Init, StageInv, Undecided, Authorized, Answered, Upstream, Recorded
  <1>4. Holders = {}
    BY DEF Init, Holders
  <1> QED
    BY <1>1, <1>2, <1>3, <1>4, FS_EmptySet DEF Init, PipelineInv

LEMMA NextInv == PipelineInv /\ [Next]_vars => PipelineInv'
  BY ArriveStep, QuietSteps, MapAddStep, LookupStep, EvaluateStep, DecisionAddStep,
     UnrecordedAnswers, RejectionSteps, AcceptAuditStep, RecheckStep, ForwardStep,
     ReleaseSlotStep, SurroundingSteps
  DEF Next, Request, Handler

-----------------------------------------------------------------------------
(* The strengthened invariant holds of every run of the pipeline. *)
THEOREM PipelineInvariant == Spec => []PipelineInv
  BY InitInv, NextInv, PTL DEF Spec

(* Type correctness of handlePipeline's state, the slots and the caches. *)
THEOREM TypeCorrect == Spec => []TypeOK
  <1>1. PipelineInv => TypeOK
    BY DEF PipelineInv
  <1> QED
    BY <1>1, PipelineInvariant, PTL

(* handlePipeline forwards at most once, only what the policy allows, and    *)
(* only after the audit writer accepted the decision, for every number of    *)
(* concurrent requests and every cache capacity.                             *)
THEOREM Authorization == Spec => []ForwardedIsAuthorized
  <1>1. PipelineInv => ForwardedIsAuthorized
    <2> SUFFICES ASSUME PipelineInv, NEW r \in Requests, sent[r] > 0
                 PROVE  sent[r] = 1 /\ key[r] \in Allowed /\ DecisionEvent(r, "allow") \in log
      BY DEF ForwardedIsAuthorized
    <2>1. StageInv(r)
      BY DEF PipelineInv
    <2> QED
      BY <2>1 DEF StageInv, Authorized, Recorded
  <1> QED
    BY <1>1, PipelineInvariant, PTL

(* Every answer that handlePipeline gives agrees with what the audit writer  *)
(* accepted and with what was sent.                                          *)
THEOREM AnswerAgreement == Spec => []AnswerMatchesRecord
  <1>1. PipelineInv => AnswerMatchesRecord
    <2> SUFFICES ASSUME PipelineInv, NEW r \in Requests
                 PROVE  /\ answer[r] \in {"deny", "failClosed", "rejected"} =>
                              DecisionEvent(r, answer[r]) \in log
                        /\ answer[r] # "none" => (sent[r] > 0 <=> answer[r] \in Upstream)
                        /\ \A u, v \in Results :
                              {DecisionEvent(r, u), DecisionEvent(r, v)} \subseteq log => u = v
      BY DEF AnswerMatchesRecord, Upstream, Results
    <2>1. StageInv(r)
      BY DEF PipelineInv
    <2>2. answer[r] \in {"deny", "failClosed", "rejected"} => DecisionEvent(r, answer[r]) \in log
      BY <2>1 DEF StageInv, Recorded
    <2>3. answer[r] # "none" => (sent[r] > 0 <=> answer[r] \in Upstream)
      BY <2>1 DEF StageInv, Answered
    <2>4. \A u, v \in Results : {DecisionEvent(r, u), DecisionEvent(r, v)} \subseteq log => u = v
      BY <2>1 DEF StageInv, Recorded
    <2> QED
      BY <2>2, <2>3, <2>4
  <1> QED
    BY <1>1, PipelineInvariant, PTL

(* The request slots in use are exactly the requests being handled.          *)
THEOREM SlotAccounting == Spec => []SlotsBalanced
  <1>1. PipelineInv => SlotsBalanced
    BY DEF PipelineInv, SlotsBalanced, Holders
  <1> QED
    BY <1>1, PipelineInvariant, PTL

-----------------------------------------------------------------------------
(* A request that has not been decided when the log is no longer open ends   *)
(* without being sent.                                                       *)
DeniedInv(r) ==
    /\ audit # "open"
    /\ pc[r] \in Undecided \cup Answered
    /\ sent[r] = 0

LEMMA DeniedStays ==
    ASSUME NEW r \in Requests, TypeOK, DeniedInv(r), [Next]_vars
    PROVE  DeniedInv(r)'
  <1>1. CASE UNCHANGED vars
    BY <1>1 DEF vars, DeniedInv
  <1>2. CASE AuditFail \/ AuditClose \/ Close \/ ClearCaches
    BY <1>2 DEF AuditFail, AuditClose, Close, ClearCaches, DeniedInv
  <1>3. ASSUME NEW q \in Requests, Request(q) PROVE DeniedInv(r)'
    <2>1. audit' # "open"
      <3>1. UNCHANGED audit
        BY <1>3, Zenon
        DEF Request, Handler, systemVars, Arrive, Verify, VerifyFail, Decode, DecodeFail, MapLookup, Map,
            MapFail, MapAdd, Lookup, Evaluate, DecisionAdd, AcceptAudit, AuditUnavailable, Resign,
            ResignFail, Recheck, Forward, RoundTrip, RoundTripFail, ReleaseSlot, Cancel
      <3> QED
        BY <3>1 DEF DeniedInv
    <2>2. CASE q # r
      <3>1. pc'[r] = pc[r] /\ sent'[r] = sent[r]
        BY <1>3, <2>2, Zenon
        DEF Request, Handler, Goto, Respond, FinishFailed, TypeOK, Arrive, Verify, VerifyFail, Decode,
            DecodeFail, MapLookup, Map, MapFail, MapAdd, Lookup, Evaluate, DecisionAdd, AcceptAudit,
            AuditUnavailable, Resign, ResignFail, Recheck, Forward, RoundTrip, RoundTripFail,
            ReleaseSlot, Cancel
      <3> QED
        BY <2>1, <3>1 DEF DeniedInv
    <2>3. CASE q = r
      <3>1. sent'[r] = 0
        BY <1>3, <2>3, Zenon
        DEF Request, Handler, DeniedInv, Undecided, Answered, Arrive, Verify, VerifyFail, Decode,
            DecodeFail, MapLookup, Map, MapFail, MapAdd, Lookup, Evaluate, DecisionAdd, AcceptAudit,
            AuditUnavailable, Resign, ResignFail, Recheck, Forward, RoundTrip, RoundTripFail,
            ReleaseSlot, Cancel
      <3>2. pc'[r] \in Undecided \cup Answered
        <4>1. CASE Arrive(r) \/ Verify(r) \/ VerifyFail(r) \/ Decode(r) \/ DecodeFail(r) \/ Cancel(r)
          BY <4>1 DEF Arrive, Verify, VerifyFail, Decode, DecodeFail, Cancel, Goto, Respond,
                      FinishFailed, TypeOK, DeniedInv, Undecided, Answered
        <4>2. CASE MapLookup(r) \/ Map(r) \/ MapFail(r) \/ MapAdd(r) \/ Lookup(r) \/ Evaluate(r)
          BY <4>2 DEF MapLookup, Map, MapFail, MapAdd, Lookup, Evaluate, Goto, Respond,
                      FinishFailed, TypeOK, DeniedInv, Undecided, Answered
        <4>3. CASE DecisionAdd(r) \/ AuditUnavailable(r) \/ ReleaseSlot(r)
          BY <4>3 DEF DecisionAdd, AuditUnavailable, ReleaseSlot, Goto, Respond, TypeOK, Undecided,
                      Answered
        <4>4. ~(\/ AcceptAudit(r) \/ Resign(r) \/ ResignFail(r) \/ Recheck(r) \/ Forward(r)
                \/ RoundTrip(r) \/ RoundTripFail(r))
          BY DEF AcceptAudit, AuditAccepts, Resign, ResignFail, Recheck, Forward, RoundTrip,
                 RoundTripFail, DeniedInv, Undecided, Answered
        <4> QED
          BY <1>3, <2>3, <4>1, <4>2, <4>3, <4>4 DEF Request, Handler
      <3> QED
        BY <2>1, <3>1, <3>2 DEF DeniedInv
    <2> QED
      BY <2>2, <2>3
  <1> QED
    BY <1>1, <1>2, <1>3 DEF Next

(* Once the audit writer has failed or was closed, no request that arrives   *)
(* afterwards is ever sent upstream (acceptAudit in handlePipeline).         *)
THEOREM FailureDeniesNew == Spec => AuditFailureDeniesNew
  <1>1. ASSUME NEW r \in Requests
        PROVE  Spec => [](pc[r] = "idle" /\ audit # "open" => [](sent[r] = 0))
    <2>1. PipelineInv /\ pc[r] = "idle" /\ audit # "open" => DeniedInv(r)
      BY DEF PipelineInv, StageInv, Undecided, Answered, Upstream, DeniedInv
    <2>2. PipelineInv /\ DeniedInv(r) /\ [Next]_vars => DeniedInv(r)'
      BY DeniedStays DEF PipelineInv
    <2>3. DeniedInv(r) => sent[r] = 0
      BY DEF DeniedInv
    <2> QED
      BY <2>1, <2>2, <2>3, PipelineInvariant, PTL DEF Spec
  <1> QED
    BY <1>1 DEF AuditFailureDeniesNew

-----------------------------------------------------------------------------
(* Decoding a request *)

(* A set of places of a sequence that counts one is a singleton. *)
LEMMA OnePlace ==
  ASSUME NEW s, IsSeq(s), NEW S \in SUBSET DOMAIN s, Cardinality(S) = 1
  PROVE  \E i \in DOMAIN s : S = {i}
<1>1. IsFiniteSet(1 .. Len(s)) /\ DOMAIN s = 1 .. Len(s)
  BY FS_Interval DEF IsSeq
<1>2. IsFiniteSet(S)
  BY <1>1, FS_Subset
<1>. QED
  BY <1>2, FS_Singleton

(* A set of places has a first one. *)
LEMMA FirstPlace ==
  ASSUME NEW S \in SUBSET Nat, S # {}
  PROVE  \E j \in S : \A k \in S : j <= k
<1>1. PICK j \in S : \A k \in S : ~(<<k, j>> \in OpToRel(<, Nat))
  BY NatLessThanWellFounded, WFMin, Zenon
<1>2. ASSUME NEW k \in S, k < j PROVE FALSE
  <2>1. <<k, j>> \in OpToRel(<, Nat)
    BY <1>2 DEF OpToRel
  <2>. QED
    BY <1>1, <2>1, Zenon
<1>3. \A k \in S : k \in Nat /\ j \in Nat
  OBVIOUS
<1>. QED
  BY <1>2, <1>3

Protocols == {"query", "ec2-query", "rest-json", "rest-xml", "json1.0", "json1.1", ""}

LEMMA ProtocolsFinite == IsFiniteSet(Protocols)
<1>. DEFINE add(S, x) == S \cup {x}
<1>1. \A S, x : IsFiniteSet(S) => IsFiniteSet(S \cup {x})
  BY FS_AddElement
<1>2. IsFiniteSet({""})
  BY FS_Singleton, Zenon
<1>3. IsFiniteSet(add(add({""}, "query"), "ec2-query"))
  BY <1>1, <1>2, Zenon
<1>4. IsFiniteSet(add(add(add(add({""}, "query"), "ec2-query"), "rest-json"), "rest-xml"))
  BY <1>1, <1>3, Zenon
<1>5. IsFiniteSet(add(add(add(add(add(add({""}, "query"), "ec2-query"), "rest-json"), "rest-xml"), "json1.0"), "json1.1"))
  BY <1>1, <1>4, Zenon
<1>6. Protocols = add(add(add(add(add(add({""}, "query"), "ec2-query"), "rest-json"), "rest-xml"), "json1.0"), "json1.1")
  BY DEF Protocols
<1>. QED
  BY <1>5, <1>6, Zenon

(* The one protocol of a service is the protocol of each of its operations. *)
LEMMA OneProtocol ==
  ASSUME NEW wire, NEW service, NEW protocol, protocol # "",
         protocol = AuthoritativeProtocol(wire, service)
  PROVE  /\ \A i \in DOMAIN wire : wire[i].service = service => CatalogProtocol(wire[i]) = protocol
         /\ Cardinality({CatalogProtocol(wire[i]) : i \in {j \in DOMAIN wire : wire[j].service = service}}) = 1
         /\ protocol \in Protocols
<1>. DEFINE seen == {CatalogProtocol(wire[i]) : i \in {j \in DOMAIN wire : wire[j].service = service}}
<1>1. Cardinality(seen) = 1 /\ protocol = CHOOSE p \in seen : TRUE
  BY Zenon DEF AuthoritativeProtocol
<1>2. seen \subseteq Protocols
  BY Zenon DEF CatalogProtocol, Protocols
<1>3. PICK p : seen = {p}
  BY <1>1, <1>2, ProtocolsFinite, FS_Subset, FS_Singleton, Zenon
<1>4. protocol = p
  BY <1>1, <1>3, Zenon
<1>. QED
  BY <1>1, <1>2, <1>3, <1>4, Zenon

(* The families of protocols, by the protocol of a model. *)
LEMMA ProtocolOf ==
  ASSUME NEW o
  PROVE  /\ IsJson(CatalogProtocol(o)) => o.protocol = "json"
         /\ IsQuery(CatalogProtocol(o)) => o.protocol \in {"query", "ec2"}
         /\ CatalogProtocol(o) \in {"rest-json", "rest-xml"} => o.protocol \in {"rest-json", "rest-xml"}
BY DEF CatalogProtocol, IsJson, IsQuery

(* What a service with one protocol makes of the buckets. *)
Uniform(wire, r, protocol) ==
  IsSeq(wire) /\ \A i \in DOMAIN wire : wire[i].service = r.service => CatalogProtocol(wire[i]) = protocol

(* The operation op is the only one the request spells. *)
Exact(wire, r, op) ==
  \E i \in Spelled(wire, r) : Spelled(wire, r) = {i} /\ wire[i].known /\ wire[i].name = op

LEMMA ExactSet ==
  ASSUME NEW wire, NEW r, NEW i \in DOMAIN wire, wire[i].service = r.service, Spells(wire[i], r), wire[i].known,
         \A j \in DOMAIN wire : wire[j].service = r.service /\ Spells(wire[j], r) => j = i
  PROVE  Exact(wire, r, wire[i].name)
BY DEF Exact, Spelled

LEMMA TargetExact ==
  ASSUME NEW wire, NEW r, NEW protocol, Uniform(wire, r, protocol), IsJson(protocol), Len(r.targets) = 1,
         ModeledRoute(wire, r, protocol),
         TargetOperation(wire, r.service, protocol, r.targets[1]) # Unknown
  PROVE  Exact(wire, r, TargetOperation(wire, r.service, protocol, r.targets[1]))
<1>. DEFINE t == r.targets[1]
            bucket == JsonBucket(wire, r.service, protocol, t)
<1>1. \A j \in DOMAIN wire : j \in bucket <=>
        /\ wire[j].service = r.service /\ CatalogProtocol(wire[j]) = protocol
        /\ wire[j].target = t.prefix /\ wire[j].name = t.name
  BY DEF JsonBucket, Indexed
<1>2. bucket \subseteq DOMAIN wire
  BY DEF JsonBucket, Indexed
<1>3. /\ t.parts = 2 /\ Cardinality(bucket) = 1
      /\ TargetOperation(wire, r.service, protocol, t) = t.name
      /\ wire[CHOOSE j \in bucket : TRUE].routeTarget = t.prefix /\ wire[CHOOSE j \in bucket : TRUE].known
  BY DEF TargetOperation
<1>4. PICK i \in DOMAIN wire : bucket = {i}
  <2>. HIDE DEF bucket
  <2>. QED
    BY <1>2, <1>3, OnePlace DEF Uniform
<1>5. wire[i].routeTarget = t.prefix /\ wire[i].known
  <2>. HIDE DEF bucket
  <2>. QED
    BY <1>3, <1>4
<1>6. /\ wire[i].path = r.path /\ wire[i].method = r.method /\ DOMAIN r.query = {}
  <2>1. PICK k \in ModeledBucket(wire, r, protocol) :
          Selected(wire[k], r, protocol) /\ WireQueryMatches(wire[k].fixed, r.query, protocol)
    BY DEF ModeledRoute
  <2>2. /\ k \in DOMAIN wire /\ wire[k].service = r.service /\ CatalogProtocol(wire[k]) = protocol
        /\ wire[k].path = r.path /\ wire[k].method = r.method
    BY <2>1 DEF ModeledBucket, Indexed
  <2>3. wire[k].name = t.name /\ wire[k].target = t.prefix
    BY <2>1, <1>3 DEF Selected
  <2>4. k = i
    BY <2>2, <2>3, <1>1, <1>4
  <2>. QED
    BY <2>1, <2>2, <2>4 DEF WireQueryMatches
<1>7. wire[i].service = r.service /\ wire[i].target = t.prefix /\ wire[i].name = t.name /\ CatalogProtocol(wire[i]) = protocol
  BY <1>1, <1>4
<1>8. Spells(wire[i], r)
  BY <1>3, <1>5, <1>6, <1>7, ProtocolOf DEF Spells
<1>9. ASSUME NEW j \in DOMAIN wire, wire[j].service = r.service, Spells(wire[j], r) PROVE j = i
  <2>1. CatalogProtocol(wire[j]) = protocol
    BY <1>9 DEF Uniform
  <2>2. wire[j].protocol = "json"
    BY <2>1, ProtocolOf
  <2>3. wire[j].target = t.prefix /\ wire[j].name = t.name
    BY <1>9, <2>2 DEF Spells
  <2>. QED
    BY <1>9, <2>1, <2>3, <1>1, <1>4
<1>. QED
  BY <1>3, <1>5, <1>7, <1>8, <1>9, ExactSet, Zenon

(* The value of a key that is in the URL or in the body, and not in both. *)
ValueOf(r, k) == IF HasKey(r.query, k) THEN r.query[k] ELSE r.body.params[k]

LEMMA ActionExact ==
  ASSUME NEW wire, NEW r, NEW protocol, Uniform(wire, r, protocol), IsQuery(protocol),
         DOMAIN r.query \cap DOMAIN r.body.params = {},
         {"Action", "Version"} \subseteq DOMAIN r.query \cup DOMAIN r.body.params,
         CatalogQueryOperation(wire, r.service, protocol, ValueOf(r, "Version"), ValueOf(r, "Action"))
  PROVE  Exact(wire, r, ValueOf(r, "Action"))
<1>. DEFINE v == ValueOf(r, "Version")
            a == ValueOf(r, "Action")
            bucket == QueryBucket(wire, r.service, protocol, v, a)
<1>1. \A j \in DOMAIN wire : j \in bucket <=>
        /\ wire[j].service = r.service /\ CatalogProtocol(wire[j]) = protocol
        /\ wire[j].version = v /\ wire[j].name = a
  BY DEF QueryBucket, Indexed
<1>2. bucket \subseteq DOMAIN wire
  BY DEF QueryBucket, Indexed
<1>3. Cardinality(bucket) = 1 /\ \A i \in bucket : wire[i].known
  BY DEF CatalogQueryOperation
<1>4. PICK i \in DOMAIN wire : bucket = {i}
  <2>. HIDE DEF bucket
  <2>. QED
    BY <1>2, <1>3, OnePlace DEF Uniform
<1>5. ASSUME NEW o, o.protocol \in {"query", "ec2"}
      PROVE  Spells(o, r) <=> o.name = a /\ o.version = v
  <2>. DEFINE said(k) == (IF HasKey(r.query, k) THEN {r.query[k]} ELSE {})
                           \cup (IF HasKey(r.body.params, k) THEN {r.body.params[k]} ELSE {})
  <2>1. said("Action") = {a} /\ said("Version") = {v}
    BY DEF ValueOf, HasKey
  <2>2. Spells(o, r) <=> said("Action") = {o.name} /\ said("Version") = {o.version}
    BY <1>5 DEF Spells
  <2>. QED
    <3>. HIDE DEF said, a, v
    <3>. QED
      BY <2>1, <2>2
<1>6. ASSUME NEW j \in DOMAIN wire, wire[j].service = r.service
      PROVE  Spells(wire[j], r) <=> j = i
  <2>1. CatalogProtocol(wire[j]) = protocol
    BY <1>6 DEF Uniform
  <2>2. wire[j].protocol \in {"query", "ec2"}
    BY <2>1, ProtocolOf
  <2>3. Spells(wire[j], r) <=> wire[j].name = a /\ wire[j].version = v
    BY <2>2, <1>5
  <2>. QED
    BY <1>1, <1>4, <1>6, <2>1, <2>3
<1>7. wire[i].service = r.service /\ wire[i].name = a /\ wire[i].known
  BY <1>1, <1>3, <1>4
<1>. QED
  BY <1>6, <1>7, ExactSet

(* matchRESTURI against the reading of a template: without an error, a route *)
(* matches exactly when the template and the path agree.                     *)
Agrees(o, r) ==
  LET t == o.path.parts
      p == r.path.parts
  IN  /\ r.path.trailing = o.path.trailing
      /\ Len(t) <= Len(p)
      /\ Len(t) = Len(p) \/ (t # <<>> /\ t[Len(t)].kind = "label" /\ t[Len(t)].greedy)
      /\ \A j \in DOMAIN t : t[j].kind = "literal" => t[j].text = p[j]

Template(t) ==
  /\ IsSeq(t)
  /\ \A j \in DOMAIN t : \/ t[j].kind = "literal" /\ t[j].greedy = FALSE
                         \/ t[j].kind = "label" /\ t[j].greedy \in BOOLEAN

LEMMA MatchURIExact ==
  ASSUME NEW o, NEW r, Template(o.path.parts), IsSeq(r.path.parts), MatchURI(o, r) # "error"
  PROVE  MatchURI(o, r) = "yes" <=> Agrees(o, r)
<1>. DEFINE t == o.path.parts
            p == r.path.parts
            stops == {j \in DOMAIN t : PartFails(t, p, j) \/ PartErrs(t, p, j)}
            first == CHOOSE j \in stops : \A k \in stops : j <= k
            greedy == t # <<>> /\ t[Len(t)].greedy
<1>1. /\ Len(t) \in Nat /\ Len(p) \in Nat /\ DOMAIN t = 1 .. Len(t) /\ DOMAIN p = 1 .. Len(p)
      /\ t = <<>> <=> Len(t) = 0
  BY DEF IsSeq, Template
<1>2. MatchURI(o, r) = IF o.path.trailing # r.path.trailing THEN "no"
                       ELSE IF stops # {} THEN IF PartErrs(t, p, first) THEN "error" ELSE "no"
                       ELSE IF greedy \/ Len(t) = Len(p) THEN "yes" ELSE "no"
  BY DEF MatchURI
<1>3. ASSUME MatchURI(o, r) = "yes" PROVE Agrees(o, r)
  <2>1. o.path.trailing = r.path.trailing /\ stops = {} /\ (greedy \/ Len(t) = Len(p))
    <3>. HIDE DEF stops, first, greedy
    <3>. QED
      BY <1>2, <1>3
  <2>2. ASSUME NEW j \in DOMAIN t PROVE j <= Len(p) /\ (t[j].kind = "literal" => t[j].text = p[j])
    <3>0. \/ t[j].kind = "literal" /\ t[j].greedy = FALSE
          \/ t[j].kind = "label" /\ t[j].greedy \in BOOLEAN
      BY DEF Template
    <3>1. ~PartFails(t, p, j)
      BY <2>1
    <3>. HIDE DEF t, p, stops, first, greedy
    <3>2. CASE t[j].kind = "literal"
      BY <3>1, <3>2, <1>1 DEF PartFails
    <3>3. CASE t[j].kind = "label" /\ t[j].greedy = TRUE
      BY <3>1, <3>3, <1>1 DEF PartFails, Taken
    <3>4. CASE t[j].kind = "label" /\ t[j].greedy = FALSE
      BY <3>1, <3>4, <1>1 DEF PartFails, Taken
    <3>. QED
      BY <3>0, <3>2, <3>3, <3>4, Zenon
  <2>3. Len(t) <= Len(p)
    BY <2>2, <1>1
  <2>4. greedy => t[Len(t)].kind = "label"
    BY <1>1 DEF Template
  <2>. QED
    BY <2>1, <2>2, <2>3, <2>4, Zenon DEF Agrees
<1>4. ASSUME Agrees(o, r) PROVE MatchURI(o, r) = "yes"
  <2>1. /\ o.path.trailing = r.path.trailing /\ Len(t) <= Len(p) /\ (greedy \/ Len(t) = Len(p))
        /\ \A j \in DOMAIN t : t[j].kind = "literal" => t[j].text = p[j]
    BY <1>4 DEF Agrees
  <2>2. ASSUME NEW j \in DOMAIN t PROVE ~PartFails(t, p, j)
    <3>1. j \in 1 .. Len(p)
      BY <1>1, <2>1
    <3>2. CASE t[j].kind = "literal"
      BY <3>1, <3>2, <1>1, <2>1 DEF PartFails
    <3>3. CASE t[j].kind = "label" /\ t[j].greedy = TRUE
      BY <3>1, <3>3, <1>1 DEF PartFails, Taken
    <3>4. CASE t[j].kind = "label" /\ t[j].greedy = FALSE
      BY <3>1, <3>4, <1>1 DEF PartFails, Taken
    <3>. QED
      BY <3>2, <3>3, <3>4, Zenon DEF Template
  <2>3. stops = {}
    <3>1. SUFFICES ASSUME stops # {} PROVE FALSE
      OBVIOUS
    <3>2. stops \in SUBSET Nat
      BY <1>1
    <3>3. first \in stops
      <4>. HIDE DEF stops
      <4>. QED
        BY <3>1, <3>2, FirstPlace, Zenon
    <3>4. PartErrs(t, p, first)
      BY <2>2, <3>3
    <3>. QED
      <4>. HIDE DEF stops, first, greedy
      <4>. QED
        BY <1>2, <2>1, <3>1, <3>4
  <2>. QED
    <3>. HIDE DEF stops, first, greedy
    <3>. QED
      BY <1>2, <2>1, <2>3
<1>. QED
  BY <1>3, <1>4

(* A route of a REST model, read as the matcher does. *)
LEMMA SpellsRoute ==
  ASSUME NEW o, NEW r, o.protocol \in {"rest-json", "rest-xml"}
  PROVE  Spells(o, r) <=> /\ r.method = o.method /\ Agrees(o, r)
                          /\ FixedMatches(o.fixed, r.query) /\ BindingsMatch(o, r.query)
<1>1. BindingsMatch(o, r.query) <=>
        /\ DOMAIN r.query \subseteq DOMAIN o.fixed \cup {b.name : b \in o.bindings}
        /\ {b.name : b \in {c \in o.bindings : c.required}} \subseteq DOMAIN r.query
  BY DEF BindingsMatch, HasKey
<1>. QED
  BY <1>1 DEF Spells, Agrees

LEMMA RouteExact ==
  ASSUME NEW wire, NEW r, NEW protocol, Uniform(wire, r, protocol), protocol \in {"rest-json", "rest-xml"},
         \A i \in DOMAIN wire : Template(wire[i].path.parts), IsSeq(r.path.parts),
         RestOperation(wire, r, protocol) # Unknown
  PROVE  Exact(wire, r, RestOperation(wire, r, protocol))
<1>. DEFINE bucket == RestBucket(wire, r.service, protocol, r.method)
            matches == {i \in bucket : /\ MatchURI(wire[i], r) = "yes"
                                       /\ FixedMatches(wire[i].fixed, r.query)
                                       /\ BindingsMatch(wire[i], r.query)}
<1>1. \A j \in DOMAIN wire : j \in bucket <=>
        wire[j].service = r.service /\ CatalogProtocol(wire[j]) = protocol /\ wire[j].method = r.method
  BY DEF RestBucket, Indexed
<1>2. bucket \subseteq DOMAIN wire
  BY DEF RestBucket, Indexed
<1>3. /\ \A i \in bucket : MatchURI(wire[i], r) # "error"
      /\ \A i \in matches : wire[i].known
      /\ Cardinality(matches) = 1
      /\ RestOperation(wire, r, protocol) = wire[CHOOSE i \in matches : TRUE].name
  BY DEF RestOperation
<1>4. PICK i \in DOMAIN wire : matches = {i}
  <2>1. matches \subseteq DOMAIN wire
    BY <1>2
  <2>. HIDE DEF matches
  <2>. QED
    BY <2>1, <1>3, OnePlace DEF Uniform
<1>5. RestOperation(wire, r, protocol) = wire[i].name /\ wire[i].known
  <2>. HIDE DEF matches
  <2>. QED
    BY <1>3, <1>4
<1>6. ASSUME NEW j \in DOMAIN wire, wire[j].service = r.service
      PROVE  Spells(wire[j], r) <=> j \in matches
  <2>1. CatalogProtocol(wire[j]) = protocol
    BY <1>6 DEF Uniform
  <2>2. wire[j].protocol \in {"rest-json", "rest-xml"}
    BY <2>1, ProtocolOf
  <2>3. j \in bucket <=> wire[j].method = r.method
    BY <1>1, <1>6, <2>1
  <2>4. j \in bucket => (MatchURI(wire[j], r) = "yes" <=> Agrees(wire[j], r))
    BY <1>3, MatchURIExact
  <2>5. Spells(wire[j], r) <=> /\ r.method = wire[j].method /\ Agrees(wire[j], r)
                               /\ FixedMatches(wire[j].fixed, r.query) /\ BindingsMatch(wire[j], r.query)
    <3>. HIDE DEF bucket, matches
    <3>1. PICK o : o = wire[j] /\ o.protocol \in {"rest-json", "rest-xml"}
      BY <2>2
    <3>2. Spells(o, r) <=> /\ r.method = o.method /\ Agrees(o, r)
                           /\ FixedMatches(o.fixed, r.query) /\ BindingsMatch(o, r.query)
      BY <3>1, SpellsRoute
    <3>. QED
      BY <3>1, <3>2, Zenon
  <2>6. j \in matches <=> /\ j \in bucket /\ MatchURI(wire[j], r) = "yes"
                          /\ FixedMatches(wire[j].fixed, r.query) /\ BindingsMatch(wire[j], r.query)
    <3>. HIDE DEF bucket
    <3>. QED
      OBVIOUS
  <2>. HIDE DEF bucket, matches
  <2>. QED
    BY <2>3, <2>4, <2>5, <2>6
<1>7. wire[i].service = r.service
  BY <1>1, <1>2, <1>4, Zenon
<1>. QED
  BY <1>4, <1>5, <1>6, <1>7, ExactSet, Zenon

(* The answer of a body or of a route: an operation it shows is the only one  *)
(* the request spells, and it is decoded only from a body that was read.      *)
Justified(wire, r, reply) ==
  /\ reply.operation # Unknown => Exact(wire, r, reply.operation)
  /\ reply.ok => r.body.readable /\ reply.evidence = "validated"

LEMMA Replies ==
  ASSUME NEW wire, NEW r, NEW op, NEW evidence
  PROVE  /\ Justified(wire, r, Failed(evidence, Unknown))
         /\ Exact(wire, r, op) => Justified(wire, r, Failed(evidence, op))
         /\ Exact(wire, r, op) /\ r.body.readable => Justified(wire, r, Decoded(op))
BY DEF Justified, Failed, Decoded

Routed(wire, r, protocol) ==
  /\ Uniform(wire, r, protocol) /\ IsSeq(r.path.parts)
  /\ \A i \in DOMAIN wire : Template(wire[i].path.parts)
  /\ protocol \in Protocols \ {""}
  /\ IsJson(protocol) => ModeledRoute(wire, r, protocol)

LEMMA BodyJustified ==
  ASSUME NEW wire, NEW r, NEW protocol, Routed(wire, r, protocol)
  PROVE  Justified(wire, r, DecodeBody(wire, r, protocol))
<1>1. CASE IsJson(protocol)
  <2>. DEFINE op == IF Len(r.targets) = 1
                    THEN TargetOperation(wire, r.service, protocol, r.targets[1]) ELSE Unknown
  <2>1. op # Unknown => Exact(wire, r, op)
    BY <1>1, TargetExact, Zenon DEF Routed
  <2>2. Prevalidated(wire, r, protocol) = op
    BY <1>1 DEF Prevalidated
  <2>3. DecodeJSONBody(wire, r, protocol) = IF op = Unknown THEN Failed("protocol", Unknown)
                                            ELSE IF r.body.shape # "object" THEN Failed("operation", op)
                                            ELSE Decoded(op)
    BY DEF DecodeJSONBody
  <2>. HIDE DEF op
  <2>. QED
    BY <1>1, <2>1, <2>2, <2>3, Replies, Zenon DEF DecodeBody
<1>2. CASE IsQuery(protocol)
  <2>1. ~IsJson(protocol) /\ Prevalidated(wire, r, protocol) = Unknown
    BY <1>2 DEF Prevalidated, IsJson, IsQuery
  <2>2. CASE ~r.body.readable
    BY <2>1, <2>2, Replies DEF DecodeBody
  <2>3. CASE r.body.readable
    <3>. DEFINE all == DOMAIN r.query \cup DOMAIN r.body.params
                a == ValueOf(r, "Action")
                asked == CatalogQueryOperation(wire, r.service, protocol, ValueOf(r, "Version"), a)
    <3>1. DecodeQueryBody(wire, r, protocol) =
            IF \/ r.body.shape \notin {"empty", "form"}
               \/ DOMAIN r.query \cap DOMAIN r.body.params # {}
               \/ ~{"Action", "Version"} \subseteq all
            THEN Failed("protocol", Unknown)
            ELSE IF ~asked THEN Failed("protocol", Unknown)
            ELSE IF (protocol = "ec2-query") # (r.service = "ec2") \/ ~Contiguous(all)
            THEN Failed("operation", a)
            ELSE Decoded(a)
      BY Zenon DEF DecodeQueryBody, ValueOf
    <3>2. /\ DOMAIN r.query \cap DOMAIN r.body.params = {} /\ {"Action", "Version"} \subseteq all /\ asked
          => Exact(wire, r, a)
      BY <1>2, ActionExact, Zenon DEF Routed
    <3>3. DecodeBody(wire, r, protocol) = DecodeQueryBody(wire, r, protocol)
      BY <1>2, <2>1, <2>3 DEF DecodeBody
    <3>. HIDE DEF all, a, asked
    <3>. QED
      BY <2>3, <3>1, <3>2, <3>3, Replies
  <2>. QED
    BY <2>2, <2>3
<1>3. CASE ~IsJson(protocol) /\ ~IsQuery(protocol)
  <2>. DEFINE op == RestOperation(wire, r, protocol)
  <2>1. protocol \in {"rest-json", "rest-xml"}
    BY <1>3, Zenon DEF Routed, Protocols, IsJson, IsQuery
  <2>2. op # Unknown => Exact(wire, r, op)
    BY <2>1, RouteExact, Zenon DEF Routed
  <2>3. Prevalidated(wire, r, protocol) = op
    BY <1>3 DEF Prevalidated
  <2>. HIDE DEF op
  <2>4. r.body.readable => Justified(wire, r, DecodeRESTBody(wire, r, protocol, op))
    BY <2>2, Replies DEF DecodeRESTBody
  <2>5. DecodeBody(wire, r, protocol) =
          IF ~r.body.readable THEN IF op = Unknown THEN Failed("protocol", Unknown) ELSE Failed("operation", op)
          ELSE DecodeRESTBody(wire, r, protocol, op)
    BY <1>3, <2>3 DEF DecodeBody, op
  <2>. QED
    BY <2>2, <2>4, <2>5, Replies
<1>. QED
  BY <1>1, <1>2, <1>3

(* Decode answers with the one operation the request spells, for every wire   *)
(* catalogue and every request.                                               *)
THEOREM DecodingExact == DecodeSpec => []DecodedIsExact
<1>. DEFINE Inv == wireInput \in WireInputs /\ DecodedIsExact
<1>1. WireInit => Inv
  BY DEF WireInit, DecodedIsExact
<1>2. ASSUME Inv, [DecodeStep]_wireVars PROVE Inv'
  <2>1. CASE UNCHANGED wireVars
    BY <1>2, <2>1 DEF wireVars, DecodedIsExact
  <2>2. CASE DecodeStep
    <3>. DEFINE wire == wireInput.wire
                r == wireInput.request
                reply == DecodeRequest(wire, r)
                protocol == ProtocolFromHeaders(r.claimed, r.contentType)
                seen == {CatalogProtocol(wire[i]) : i \in {j \in DOMAIN wire : wire[j].service = r.service}}
    <3>1. wireInput' = wireInput /\ wireAnswer' = reply
      BY <2>2 DEF DecodeStep
    <3>2. /\ IsSeq(wire) /\ IsSeq(r.path.parts)
          /\ \A i \in DOMAIN wire : Template(wire[i].path.parts)
      BY <1>2, WireAssumption, Zenon DEF Template
    <3>3. SUFFICES ASSUME reply.operation # Unknown
                   PROVE  r.agrees /\ Justified(wire, r, reply) /\ Cardinality(seen) = 1
      <4>. HIDE DEF wire, r, reply
      <4>. QED
        BY <1>2, <3>1, Zenon DEF DecodedIsExact, Justified, Exact, wire, r
    <3>4. r.agrees /\ reply = DecodeRoute(wire, r, protocol)
      BY <3>3 DEF DecodeRequest, Failed
    <3>5. /\ protocol # "" /\ protocol = AuthoritativeProtocol(wire, r.service)
          /\ IsJson(protocol) => ModeledRoute(wire, r, protocol)
          /\ reply = DecodeBody(wire, r, protocol)
      <4>. HIDE DEF protocol, reply, wire, r
      <4>. QED
        BY <3>3, <3>4, Zenon DEF DecodeRoute, Failed
    <3>. HIDE DEF protocol, reply, wire, r
    <3>6. Cardinality(seen) = 1 /\ Routed(wire, r, protocol)
      BY <3>2, <3>5, OneProtocol, Zenon DEF Routed, Uniform
    <3>. QED
      BY <3>4, <3>5, <3>6, BodyJustified, Zenon
  <2>. QED
    BY <1>2, <2>1, <2>2
<1>. QED
  BY <1>1, <1>2, PTL DEF DecodeSpec
=============================================================================
