------------------------------ MODULE Pipeline ------------------------------
(***************************************************************************)
(* The intercepted AWS request, internal/proxy/server.go: handleIntercepted*)
(* and handlePipeline with the helpers that change state, run by many      *)
(* requests at once over the request slots, the run's mapping and decision *)
(* caches and the audit writer, while clients hang up, the audit writer    *)
(* fails and the server is closed.                                         *)
(*                                                                         *)
(* A request is abstracted to the cache key of its decoded form.  The      *)
(* mapper and the policy engine are functions of the key: the engine       *)
(* allows the keys in Allowed.  Audit writes are the acceptance that       *)
(* AuditLog states: possible only while the log is open, never certain.    *)
(***************************************************************************)
EXTENDS Naturals, FiniteSets

CONSTANTS
    Requests,       \* application requests on intercepted connections
    Keys,           \* distinct decoded requests
    Allowed,        \* keys for which the policy engine returns allow
    MaxRequests,    \* capacity of requestSlots
    CacheSize       \* capacity of the caches

ASSUME RequestsAssumption == IsFiniteSet(Requests)
ASSUME AllowedAssumption == Allowed \subseteq Keys
ASSUME LimitsAssumption == MaxRequests \in Nat \ {0} /\ CacheSize \in Nat \ {0}

VARIABLES
    pc,         \* the next step of each request's handler
    key,        \* its decoded form
    cancelled,  \* requests whose context has ended
    decision,   \* the policy decision the handler holds
    answer,     \* what the client was told
    sent,       \* number of upstream RoundTrips of each request
    slots,      \* len(requestSlots)
    mappings,   \* keys in the Operations cache
    decisions,  \* the Decisions cache: a function on the keys it holds
    log,        \* accepted audit events
    audit,      \* state of the audit writer
    server      \* "open", "closing" (closed set), "closed" (Close returned)

vars == <<pc, key, cancelled, decision, answer, sent, slots, mappings, decisions,
          log, audit, server>>

(* deny: the policy's own; failClosed: internal_fail_closed, which is Valid too. *)
Verdicts == {"allow", "deny", "failClosed"}

(* The result that Evaluate returns for a live context. *)
Verdict(k) == IF k \in Allowed THEN "allow" ELSE "deny"

Events ==
    [type : {"decision"}, request : Requests, result : Verdicts \cup {"rejected"}]
      \cup [type : {"authenticationFailed", "forwardError"}, request : Requests]

Stages == {"idle", "verify", "decode", "mapLookup", "map", "mapAdd", "lookup",
           "evaluate", "add", "audit", "resign", "recheck", "forward", "roundTrip",
           "release", "done"}

Answers == {"none", "busy", "badSignature", "rejected", "auditUnavailable", "deny",
            "failClosed", "noCredentials", "upstream", "upstreamError"}

TypeOK ==
    /\ pc \in [Requests -> Stages]
    /\ key \in [Requests -> Keys]
    /\ cancelled \subseteq Requests
    /\ decision \in [Requests -> Verdicts \cup {"none"}]
    /\ answer \in [Requests -> Answers]
    /\ sent \in [Requests -> Nat]
    /\ slots \in 0..MaxRequests
    /\ mappings \subseteq Keys
    /\ DOMAIN decisions \subseteq Keys
    /\ \A k \in DOMAIN decisions : decisions[k] \in Verdicts
    /\ log \subseteq Events
    /\ audit \in {"open", "failed", "closed"}
    /\ server \in {"open", "closing", "closed"}

Init ==
    /\ pc = [r \in Requests |-> "idle"]
    /\ key \in [Requests -> Keys]
    /\ cancelled = {}
    /\ decision = [r \in Requests |-> "none"]
    /\ answer = [r \in Requests |-> "none"]
    /\ sent = [r \in Requests |-> 0]
    /\ slots = 0
    /\ mappings = {}
    /\ decisions = [k \in {} |-> "none"]
    /\ log = {}
    /\ audit = "open"
    /\ server = "open"

-----------------------------------------------------------------------------
(* Helpers *)

Goto(r, stage) == pc' = [pc EXCEPT ![r] = stage]

(* The response is written; the deferred slot release is still to come. *)
Respond(r, what) ==
    /\ answer' = [answer EXCEPT ![r] = what]
    /\ Goto(r, "release")

DecisionEvent(r, what) == [type |-> "decision", request |-> r, result |-> what]

(* Mutant: a failed or closed writer takes events. *)
AuditAcceptsAlways(event) == log' = log \cup {event}

(* Writer.Write accepts the event, or refuses it: failed, closed or full. *)
AuditAccepts(event) == audit = "open" /\ log' = log \cup {event}
AuditRefuses == UNCHANGED log

(* Mutant: the denial does not depend on the audit writer. *)
FinishFailedUnaudited(r) ==
    /\ AuditAccepts(DecisionEvent(r, "rejected")) \/ AuditRefuses
    /\ Respond(r, "rejected")

(* finishFailedPipeline: a deny event first, then the denial. *)
FinishFailed(r) ==
    \/ AuditAccepts(DecisionEvent(r, "rejected")) /\ Respond(r, "rejected")
    \/ AuditRefuses /\ Respond(r, "auditUnavailable")

(* LRU.Add: a full cache loses an entry (which one is the business of LRU). *)
CacheAdd(cache, k, v) ==
    LET fits == k \in DOMAIN cache \/ Cardinality(DOMAIN cache) < CacheSize
        kept(victim) == [x \in (DOMAIN cache \ {victim}) \cup {k} |->
                            IF x = k THEN v ELSE cache[x]]
    IN  IF fits THEN {kept(k)} ELSE {kept(victim) : victim \in DOMAIN cache}

requestVars == <<key, cancelled>>
cacheVars == <<mappings, decisions>>
systemVars == <<audit, server>>

-----------------------------------------------------------------------------
(* The handler *)

(* acquireRequestSlot, or 503 at once. *)
Arrive(r) ==
    /\ pc[r] = "idle"
    /\ IF slots < MaxRequests
         THEN slots' = slots + 1 /\ Goto(r, "verify") /\ UNCHANGED answer
         ELSE /\ answer' = [answer EXCEPT ![r] = "busy"]
              /\ Goto(r, "done")
              /\ UNCHANGED slots
    /\ UNCHANGED <<requestVars, decision, sent, cacheVars, log, systemVars>>

Verify(r) ==
    /\ pc[r] = "verify"
    /\ Goto(r, "decode")
    /\ UNCHANGED <<requestVars, decision, answer, sent, slots, cacheVars, log, systemVars>>

(* finishAuthenticationFailure answers whether or not its event was accepted. *)
VerifyFail(r) ==
    /\ pc[r] = "verify"
    /\ \/ AuditAccepts([type |-> "authenticationFailed", request |-> r])
       \/ AuditRefuses
    /\ Respond(r, "badSignature")
    /\ UNCHANGED <<requestVars, decision, sent, slots, cacheVars, systemVars>>

Decode(r) ==
    /\ pc[r] = "decode"
    /\ Goto(r, "mapLookup")
    /\ UNCHANGED <<requestVars, decision, answer, sent, slots, cacheVars, log, systemVars>>

DecodeFail(r) ==
    /\ pc[r] = "decode"
    /\ FinishFailed(r)
    /\ UNCHANGED <<requestVars, decision, sent, slots, cacheVars, systemVars>>

MapLookup(r) ==
    /\ pc[r] = "mapLookup"
    /\ Goto(r, IF key[r] \in mappings THEN "mapAdd" ELSE "map")
    /\ UNCHANGED <<requestVars, decision, answer, sent, slots, cacheVars, log, systemVars>>

Map(r) ==
    /\ pc[r] = "map"
    /\ Goto(r, "mapAdd")
    /\ UNCHANGED <<requestVars, decision, answer, sent, slots, cacheVars, log, systemVars>>

(* The mapper failed, timed out, or its result does not validate. *)
MapFail(r) ==
    /\ pc[r] = "map"
    /\ FinishFailed(r)
    /\ UNCHANGED <<requestVars, decision, sent, slots, cacheVars, systemVars>>

(* The mapping goes into the cache also when it came from there. *)
MapAdd(r) ==
    /\ pc[r] = "mapAdd"
    /\ \E cache \in CacheAdd([k \in mappings |-> "mapping"], key[r], "mapping") :
          mappings' = DOMAIN cache
    /\ Goto(r, "lookup")
    /\ UNCHANGED <<requestVars, decision, answer, sent, slots, decisions, log, systemVars>>

Lookup(r) ==
    /\ pc[r] = "lookup"
    /\ IF key[r] \in DOMAIN decisions
         THEN /\ decision' = [decision EXCEPT ![r] = decisions[key[r]]]
              /\ Goto(r, "audit")
         ELSE Goto(r, "evaluate") /\ UNCHANGED decision
    /\ UNCHANGED <<requestVars, answer, sent, slots, cacheVars, log, systemVars>>

(* safeEvaluate: an ended context makes the engine fail closed. *)
Evaluate(r) ==
    /\ pc[r] = "evaluate"
    /\ decision' = [decision EXCEPT ![r] =
                       IF r \in cancelled THEN "failClosed" ELSE Verdict(key[r])]
    /\ Goto(r, "add")
    /\ UNCHANGED <<requestVars, answer, sent, slots, cacheVars, log, systemVars>>

(* Every Valid decision is cached. *)
DecisionAdd(r) ==
    /\ pc[r] = "add"
    /\ decisions' \in CacheAdd(decisions, key[r], decision[r])
    /\ Goto(r, "audit")
    /\ UNCHANGED <<requestVars, decision, answer, sent, slots, mappings, log, systemVars>>

(* acceptAudit, then the denial or the way upstream. *)
AcceptAudit(r) ==
    /\ pc[r] = "audit"
    /\ AuditAccepts(DecisionEvent(r, decision[r]))
    /\ IF decision[r] = "allow"
         THEN Goto(r, "resign") /\ UNCHANGED answer
         ELSE Respond(r, decision[r])
    /\ UNCHANGED <<requestVars, decision, sent, slots, cacheVars, systemVars>>

(* Mutant: an allowed request goes on although its event was refused. *)
AuditUnavailableIgnored(r) ==
    /\ pc[r] = "audit"
    /\ AuditRefuses
    /\ IF decision[r] = "allow"
         THEN Goto(r, "resign") /\ UNCHANGED answer
         ELSE Respond(r, "auditUnavailable")
    /\ UNCHANGED <<requestVars, decision, sent, slots, cacheVars, systemVars>>

AuditUnavailable(r) ==
    /\ pc[r] = "audit"
    /\ AuditRefuses
    /\ Respond(r, "auditUnavailable")
    /\ UNCHANGED <<requestVars, decision, sent, slots, cacheVars, systemVars>>

Resign(r) ==
    /\ pc[r] = "resign"
    /\ Goto(r, "recheck")
    /\ UNCHANGED <<requestVars, decision, answer, sent, slots, cacheVars, log, systemVars>>

ResignFail(r) ==
    /\ pc[r] = "resign"
    /\ Respond(r, "noCredentials")
    /\ UNCHANGED <<requestVars, decision, sent, slots, cacheVars, log, systemVars>>

(* The writer may have failed since it accepted the event. *)
Recheck(r) ==
    /\ pc[r] = "recheck"
    /\ IF audit = "failed"
         THEN Respond(r, "auditUnavailable")
         ELSE Goto(r, "forward") /\ UNCHANGED answer
    /\ UNCHANGED <<requestVars, decision, sent, slots, cacheVars, log, systemVars>>

(* RoundTrip begins: from here on the request may have reached AWS. *)
Forward(r) ==
    /\ pc[r] = "forward"
    /\ sent' = [sent EXCEPT ![r] = sent[r] + 1]
    /\ Goto(r, "roundTrip")
    /\ UNCHANGED <<requestVars, decision, answer, slots, cacheVars, log, systemVars>>

RoundTrip(r) ==
    /\ pc[r] = "roundTrip"
    /\ Respond(r, "upstream")
    /\ UNCHANGED <<requestVars, decision, sent, slots, cacheVars, log, systemVars>>

(* Mutant: the upstream request does not carry the client's context. *)
RoundTripFailDetached(r) ==
    /\ pc[r] = "roundTrip"
    /\ r \notin cancelled
    /\ AuditRefuses
    /\ Respond(r, "upstreamError")
    /\ UNCHANGED <<requestVars, decision, sent, slots, cacheVars, systemVars>>

(* No retry: the error is recorded, if the log takes it, and answered with 502. *)
RoundTripFail(r) ==
    /\ pc[r] = "roundTrip"
    /\ \/ AuditAccepts([type |-> "forwardError", request |-> r])
       \/ AuditRefuses
    /\ Respond(r, "upstreamError")
    /\ UNCHANGED <<requestVars, decision, sent, slots, cacheVars, systemVars>>

ReleaseSlot(r) ==
    /\ pc[r] = "release"
    /\ slots' = slots - 1
    /\ Goto(r, "done")
    /\ UNCHANGED <<requestVars, decision, answer, sent, cacheVars, log, systemVars>>

Handler(r) ==
    \/ Verify(r) \/ VerifyFail(r) \/ Decode(r) \/ DecodeFail(r)
    \/ MapLookup(r) \/ Map(r) \/ MapFail(r) \/ MapAdd(r)
    \/ Lookup(r) \/ Evaluate(r) \/ DecisionAdd(r)
    \/ AcceptAudit(r) \/ AuditUnavailable(r)
    \/ Resign(r) \/ ResignFail(r) \/ Recheck(r)
    \/ Forward(r) \/ RoundTrip(r) \/ RoundTripFail(r) \/ ReleaseSlot(r)

-----------------------------------------------------------------------------
(* Around the handlers *)

(* The client hangs up, or Server.Close has closed the connection: net/http  *)
(* cancels the request's context.                                            *)
Cancel(r) ==
    /\ pc[r] \notin {"idle", "release", "done"}
    /\ r \notin cancelled
    /\ cancelled' = cancelled \cup {r}
    /\ UNCHANGED <<pc, key, decision, answer, sent, slots, cacheVars, log, systemVars>>

(* Writer.fail. *)
AuditFail ==
    /\ audit = "open"
    /\ audit' = "failed"
    /\ UNCHANGED <<pc, requestVars, decision, answer, sent, slots, cacheVars, log, server>>

(* Run's deferred Writer.Close, after the server was told to close. *)
AuditClose ==
    /\ audit = "open" /\ server # "open"
    /\ audit' = "closed"
    /\ UNCHANGED <<pc, requestVars, decision, answer, sent, slots, cacheVars, log, server>>

(* Server.Close: closed is set and the connections are closed.  The handlers *)
(* that are running are not waited for.                                      *)
Close ==
    /\ server = "open"
    /\ server' = "closing"
    /\ UNCHANGED <<pc, requestVars, decision, answer, sent, slots, cacheVars, log, audit>>

(* The end of Server.Close: caches.Clear. *)
ClearCaches ==
    /\ server = "closing"
    /\ server' = "closed"
    /\ mappings' = {}
    /\ decisions' = [k \in {} |-> "none"]
    /\ UNCHANGED <<pc, requestVars, decision, answer, sent, slots, log, audit>>

Request(r) == Arrive(r) \/ Handler(r) \/ Cancel(r)

Next ==
    \/ \E r \in Requests : Request(r)
    \/ AuditFail \/ AuditClose \/ Close \/ ClearCaches

Spec == Init /\ [][Next]_vars

(* Goroutines are scheduled, a body is read within ReadTimeout and the engine *)
(* and the signer terminate.  AWS need not answer: RoundTrip has no response  *)
(* timeout, and only returns for certain once the context has ended.  The     *)
(* connections that Close closed cancel the contexts of their requests.       *)
Fairness ==
    \A r \in Requests :
        /\ WF_vars(Handler(r) /\ pc[r] # "roundTrip")
        /\ WF_vars(RoundTripFail(r) /\ r \in cancelled)
        /\ WF_vars(Cancel(r) /\ server # "open")

FairSpec == Spec /\ Fairness

-----------------------------------------------------------------------------
(* Properties *)

(* A request goes upstream at most once, only when the policy allows it, and *)
(* only after its allow decision was accepted by the audit writer, whatever  *)
(* other requests put into the caches in the meantime (handlePipeline).      *)
ForwardedIsAuthorized ==
    \A r \in Requests : sent[r] > 0 =>
        /\ sent[r] = 1
        /\ key[r] \in Allowed
        /\ DecisionEvent(r, "allow") \in log

(* What a client is told agrees with the audit log: a denial names the       *)
(* decision that was recorded, an upstream answer means that the request was *)
(* sent and every other answer that it was not, and no request has two       *)
(* recorded decisions (respondPipelineDeny, finishFailedPipeline).           *)
AnswerMatchesRecord ==
    \A r \in Requests :
        /\ answer[r] \in {"deny", "failClosed", "rejected"} =>
              DecisionEvent(r, answer[r]) \in log
        /\ answer[r] # "none" =>
              (sent[r] > 0 <=> answer[r] \in {"upstream", "upstreamError"})
        /\ \A u, v \in Verdicts \cup {"rejected"} :
              {DecisionEvent(r, u), DecisionEvent(r, v)} \subseteq log => u = v

(* A slot is held exactly by the requests being handled, on every path       *)
(* through the handler (acquireRequestSlot, deferred releaseRequestSlot).    *)
SlotsBalanced ==
    slots = Cardinality({r \in Requests : pc[r] \notin {"idle", "done"}})

(* A request that arrives after the audit writer failed or was closed is     *)
(* never sent upstream (technical spec: audit writer failure denies new      *)
(* requests).                                                                *)
AuditFailureDeniesNew ==
    \A r \in Requests :
        [](pc[r] = "idle" /\ audit # "open" => [](sent[r] = 0))

(* A request whose client has gone, or whose server was closed, finishes and *)
(* gives its slot back, even when AWS never answers.                         *)
CancelledFinishes ==
    \A r \in Requests :
        r \in cancelled \/ (server # "open" /\ pc[r] # "idle") ~> pc[r] = "done"

(* A fail-closed result of one request must not suppress a later retry: only *)
(* a request whose own context has ended is answered internal_fail_closed    *)
(* (the comment on the Decisions cache in handlePipeline).                   *)
RetryIsDecided ==
    \A r \in Requests : answer[r] = "failClosed" => r \in cancelled
=============================================================================
