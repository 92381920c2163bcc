------------------------------- MODULE Decode -------------------------------
(***************************************************************************)
(* awsrequest: which operation of the wire catalogue an authenticated      *)
(* request is.  The wire catalogue is a sequence of records, one for each  *)
(* operation of each API model; a path is its parts and whether it ends in *)
(* a slash; a part of a template is a literal or a label.  The answer is   *)
(* an operation or a failure with the evidence the failure may show.       *)
(***************************************************************************)
EXTENDS Naturals, Sequences, FiniteSets

CONSTANTS WireInputs,      \* pairs [wire, request]
          WireBadParts,    \* path parts that are not valid parameter values
          IndexOf,         \* query key InstanceId.n |-> n
          NoAnswer

IsSeq(s) == s \in Seq({s[i] : i \in DOMAIN s})

\* Catalogue, templates and paths are sequences, and only a label can be greedy.
ASSUME WireAssumption ==
  \A x \in WireInputs :
    /\ IsSeq(x.wire) /\ IsSeq(x.request.path.parts)
    /\ \A i \in DOMAIN x.wire :
         /\ IsSeq(x.wire[i].path.parts)
         /\ \A j \in DOMAIN x.wire[i].path.parts :
              \/ x.wire[i].path.parts[j].kind = "literal" /\ x.wire[i].path.parts[j].greedy = FALSE
              \/ x.wire[i].path.parts[j].kind = "label" /\ x.wire[i].path.parts[j].greedy \in BOOLEAN

VARIABLES wireInput, wireAnswer
wireVars == <<wireInput, wireAnswer>>

-----------------------------------------------------------------------------
(* Protocols.                                                              *)

\* sigv4.inferProtocol, from the content type alone.
InferProtocol(ct) ==
  CASE ct = "json10" -> "json1.0"
    [] ct = "json11" -> "json1.1"
    [] ct = "form" -> "query"
    [] ct = "xml" -> "rest-xml"
    [] OTHER -> "rest-json"

\* catalogProtocol: "" for a model whose protocol is not supported.
CatalogProtocol(o) ==
  CASE o.protocol = "query" -> "query"
    [] o.protocol = "ec2" -> "ec2-query"
    [] o.protocol \in {"rest-json", "rest-xml"} -> o.protocol
    [] o.protocol = "json" /\ o.jsonVersion = "1.0" -> "json1.0"
    [] o.protocol = "json" /\ o.jsonVersion = "1.1" -> "json1.1"
    [] OTHER -> ""

\* protocolFromHeaders: "" when the content type disagrees with the claim.
ProtocolFromHeaders(claimed, ct) ==
  LET inferred == CASE ct = "json10" -> "json1.0"
                    [] ct = "json11" -> "json1.1"
                    [] ct = "form" -> IF claimed = "ec2-query" THEN claimed ELSE "query"
                    [] ct = "json" -> "rest-json"
                    [] ct = "xml" -> "rest-xml"
                    [] ct = "none" -> claimed
                    [] OTHER -> ""
  IN  IF inferred = claimed THEN inferred ELSE ""

\* authoritativeProtocolFor: the one protocol of every model of the service.
AuthoritativeProtocol(wire, service) ==
  LET seen == {CatalogProtocol(wire[i]) : i \in {j \in DOMAIN wire : wire[j].service = service}}
  IN  IF "" \notin seen /\ Cardinality(seen) = 1 THEN CHOOSE p \in seen : TRUE ELSE ""

-----------------------------------------------------------------------------
(* buildWireIndex: the buckets, with every occurrence kept.                *)

Indexed(wire, service, protocol, Test(_)) ==
  {i \in DOMAIN wire : /\ wire[i].service = service
                       /\ CatalogProtocol(wire[i]) = protocol
                       /\ Test(wire[i])}

WireIndexBuilt(wire) == \A i \in DOMAIN wire : wire[i].fixedParses

JsonBucket(wire, service, protocol, target) ==
  Indexed(wire, service, protocol, LAMBDA o : o.target = target.prefix /\ o.name = target.name)

Variants(wire, service, protocol, target) ==
  Indexed(wire, service, protocol, LAMBDA o : o.routeTarget = target.prefix /\ o.name = target.name)

QueryBucket(wire, service, protocol, version, action) ==
  Indexed(wire, service, protocol, LAMBDA o : o.version = version /\ o.name = action)

RestBucket(wire, service, protocol, method) ==
  Indexed(wire, service, protocol, LAMBDA o : o.method = method)

ModeledBucket(wire, r, protocol) ==
  Indexed(wire, r.service, protocol, LAMBDA o : o.path = r.path /\ o.method = r.method)

-----------------------------------------------------------------------------
(* validateModeledWireRoute, for the JSON and Query protocols.             *)

IsJson(protocol) == protocol \in {"json1.0", "json1.1"}
IsQuery(protocol) == protocol \in {"query", "ec2-query"}
HasKey(q, k) == k \in DOMAIN q
FixedMatches(fixed, q) == \A k \in DOMAIN fixed : HasKey(q, k) /\ q[k] = fixed[k]

WireQueryMatches(fixed, q, protocol) ==
  FixedMatches(fixed, q) /\ (IsJson(protocol) => DOMAIN q = {})

\* A target selects name and prefix, an Action of the URL name and version.
Selected(o, r, protocol) ==
  IF IsJson(protocol)
  THEN Len(r.targets) = 1 /\ r.targets[1].parts = 2
         => o.name = r.targets[1].name /\ o.target = r.targets[1].prefix
  ELSE HasKey(r.query, "Action")
         => o.name = r.query["Action"] /\ (HasKey(r.query, "Version") => o.version = r.query["Version"])

ModeledRoute(wire, r, protocol) ==
  LET bucket == ModeledBucket(wire, r, protocol)
  IN  /\ \A i \in bucket : wire[i].modelled
      /\ \E i \in bucket : /\ Selected(wire[i], r, protocol)
                           /\ WireQueryMatches(wire[i].fixed, r.query, protocol)

-----------------------------------------------------------------------------
(* targetOperationFor, catalogQueryOperation and the REST matcher.         *)

Unknown == ""

TargetOperation(wire, service, protocol, target) ==
  LET bucket == JsonBucket(wire, service, protocol, target)
      i      == CHOOSE j \in bucket : TRUE
  IN  IF /\ target.parts = 2
         /\ Cardinality(bucket) = 1
         /\ Cardinality(Variants(wire, service, protocol, target)) <= 1
         /\ wire[i].routeTarget = target.prefix
         /\ wire[i].known
      THEN target.name ELSE Unknown

CatalogQueryOperation(wire, service, protocol, version, action) ==
  LET bucket == QueryBucket(wire, service, protocol, version, action)
  IN  Cardinality(bucket) = 1 /\ \A i \in bucket : wire[i].known

\* How template part j meets the request: a greedy label, last only, takes the rest.
Taken(t, path, j) == IF t[j].greedy THEN j .. Len(path) ELSE {j} \cap DOMAIN path
PartFails(t, path, j) ==
  IF t[j].kind = "literal" THEN j \notin DOMAIN path \/ path[j] # t[j].text
  ELSE Taken(t, path, j) = {}
PartErrs(t, path, j) ==
  t[j].kind = "label" /\ \/ t[j].greedy /\ j # Len(t)
                         \/ \E i \in Taken(t, path, j) : path[i] \in WireBadParts

\* matchRESTURI: the first part that fails or errs decides.
MatchURI(o, r) ==
  LET t      == o.path.parts
      p      == r.path.parts
      stops  == {j \in DOMAIN t : PartFails(t, p, j) \/ PartErrs(t, p, j)}
      first  == CHOOSE j \in stops : \A k \in stops : j <= k
      greedy == t # <<>> /\ t[Len(t)].greedy
  IN  IF o.path.trailing # r.path.trailing THEN "no"
      ELSE IF stops # {}
      THEN IF PartErrs(t, p, first) THEN "error" ELSE "no"
      ELSE IF greedy \/ Len(t) = Len(p) THEN "yes" ELSE "no"

BindingsMatch(o, q) ==
  /\ \A k \in DOMAIN q : k \in DOMAIN o.fixed \/ \E b \in o.bindings : b.name = k
  /\ \A b \in o.bindings : b.required => HasKey(q, b.name)

\* Mutant: a matcher that answers with the first route that fits.
RestOperationFirst(wire, r, protocol) ==
  LET matches == {i \in RestBucket(wire, r.service, protocol, r.method) :
                    /\ MatchURI(wire[i], r) = "yes"
                    /\ FixedMatches(wire[i].fixed, r.query)
                    /\ BindingsMatch(wire[i], r.query)}
  IN  IF matches # {} THEN wire[CHOOSE i \in matches : TRUE].name ELSE Unknown

RestOperation(wire, r, protocol) ==
  LET bucket  == RestBucket(wire, r.service, protocol, r.method)
      matches == {i \in bucket : /\ MatchURI(wire[i], r) = "yes"
                                 /\ FixedMatches(wire[i].fixed, r.query)
                                 /\ BindingsMatch(wire[i], r.query)}
  IN  IF /\ r.pathParses
         /\ \A i \in bucket : wire[i].modelled /\ MatchURI(wire[i], r) # "error"
         /\ \A i \in matches : wire[i].known
         /\ Cardinality(matches) = 1
      THEN wire[CHOOSE i \in matches : TRUE].name ELSE Unknown

\* The labels of the operation's template with the parts they take.
PathParameters(wire, r, protocol, name) ==
  LET i == CHOOSE j \in RestBucket(wire, r.service, protocol, r.method) :
             wire[j].name = name /\ MatchURI(wire[j], r) = "yes"
      t == wire[i].path.parts
      labels == {j \in DOMAIN t : t[j].kind = "label"}
  IN  [n \in {t[j].text : j \in labels} |->
         LET j == CHOOSE k \in labels : t[k].text = n
         IN  IF t[j].greedy THEN SubSeq(r.path.parts, j, Len(r.path.parts)) ELSE <<r.path.parts[j]>>]

-----------------------------------------------------------------------------
(* The bodies, and Decode itself.                                          *)

Failed(evidence, name) == [ok |-> FALSE, operation |-> name, evidence |-> evidence]
Decoded(name) == [ok |-> TRUE, operation |-> name, evidence |-> "validated"]

DecodeJSONBody(wire, r, protocol) ==
  LET op == IF Len(r.targets) = 1
            THEN TargetOperation(wire, r.service, protocol, r.targets[1]) ELSE Unknown
  IN  IF op = Unknown THEN Failed("protocol", Unknown)
      ELSE IF r.body.shape # "object" THEN Failed("operation", op)
      ELSE Decoded(op)

\* InstanceId.1, InstanceId.2, ... without a gap.
Contiguous(keys) ==
  LET indexes == {IndexOf[k] : k \in keys \cap DOMAIN IndexOf}
  IN  indexes = 1 .. Cardinality(indexes)

DecodeQueryBody(wire, r, protocol) ==
  LET all    == DOMAIN r.query \cup DOMAIN r.body.params
      Of(k)  == IF HasKey(r.query, k) THEN r.query[k] ELSE r.body.params[k]
  IN  IF \/ r.body.shape \notin {"empty", "form"}
         \/ DOMAIN r.query \cap DOMAIN r.body.params # {}
         \/ ~{"Action", "Version"} \subseteq all
      THEN Failed("protocol", Unknown)
      ELSE IF ~CatalogQueryOperation(wire, r.service, protocol, Of("Version"), Of("Action"))
      THEN Failed("protocol", Unknown)
      ELSE IF (protocol = "ec2-query") # (r.service = "ec2") \/ ~Contiguous(all)
      THEN Failed("operation", Of("Action"))
      ELSE Decoded(Of("Action"))

\* A body parameter with the name of a path label has to agree with it; the
\* bytes of an object are not parameters.
DecodeRESTBody(wire, r, protocol, op) ==
  IF op = Unknown THEN Failed("protocol", Unknown)
  ELSE IF r.body.shape = "empty" \/ (protocol = "rest-xml" /\ op = "PutObject") THEN Decoded(op)
  ELSE IF r.body.shape # "object" THEN Failed("operation", op)
  ELSE IF \E k \in DOMAIN r.body.params \cap DOMAIN PathParameters(wire, r, protocol, op) :
            r.body.params[k] # PathParameters(wire, r, protocol, op)[k]
  THEN Failed("operation", op)
  ELSE Decoded(op)

\* The indicators of another protocol are refused before the body is read.
Indicators(r, protocol) ==
  /\ ~IsJson(protocol) => r.targets = <<>>
  /\ ~IsQuery(protocol) => ~HasKey(r.query, "Action")

\* What the target or the route says before the body is read.
Prevalidated(wire, r, protocol) ==
  IF IsJson(protocol)
  THEN IF Len(r.targets) = 1 THEN TargetOperation(wire, r.service, protocol, r.targets[1]) ELSE Unknown
  ELSE IF IsQuery(protocol) THEN Unknown
  ELSE RestOperation(wire, r, protocol)

DecodeBody(wire, r, protocol) ==
  IF ~r.body.readable
  THEN LET op == Prevalidated(wire, r, protocol)
       IN  IF op = Unknown THEN Failed("protocol", Unknown) ELSE Failed("operation", op)
  ELSE IF IsJson(protocol) THEN DecodeJSONBody(wire, r, protocol)
  ELSE IF IsQuery(protocol) THEN DecodeQueryBody(wire, r, protocol)
  ELSE DecodeRESTBody(wire, r, protocol, RestOperation(wire, r, protocol))

DecodeRoute(wire, r, protocol) ==
  IF protocol = "" \/ protocol # AuthoritativeProtocol(wire, r.service) THEN Failed("none", Unknown)
  ELSE IF \/ ~r.queryParses
          \/ ~Indicators(r, protocol)
          \/ (IsJson(protocol) \/ IsQuery(protocol)) /\ ~ModeledRoute(wire, r, protocol)
  THEN Failed("protocol", Unknown)
  ELSE DecodeBody(wire, r, protocol)

\* Decode: r.agrees stands for the comparisons of the endpoint, the credential
\* scope and the account, r.claimed is the protocol of the VerifiedRequest.
DecodeRequest(wire, r) ==
  IF ~r.agrees \/ ~WireIndexBuilt(wire) THEN Failed("none", Unknown)
  ELSE DecodeRoute(wire, r, ProtocolFromHeaders(r.claimed, r.contentType))

WireInit == wireInput \in WireInputs /\ wireAnswer = NoAnswer
DecodeStep ==
  /\ wireAnswer = NoAnswer
  /\ wireAnswer' = DecodeRequest(wireInput.wire, wireInput.request)
  /\ UNCHANGED wireInput
DecodeSpec == WireInit /\ [][DecodeStep]_wireVars

-----------------------------------------------------------------------------
(* The reference: the operations of the service a request spells.          *)

Spells(o, r) ==
  CASE o.protocol = "json" ->
         /\ Len(r.targets) = 1 /\ r.targets[1].parts = 2
         /\ r.targets[1].prefix = o.target /\ o.routeTarget = o.target
         /\ r.targets[1].name = o.name
         /\ r.method = o.method /\ r.path = o.path /\ DOMAIN r.query = {}
    [] o.protocol \in {"query", "ec2"} ->
         LET said == [k \in {"Action", "Version"} |->
                        (IF HasKey(r.query, k) THEN {r.query[k]} ELSE {})
                          \cup (IF HasKey(r.body.params, k) THEN {r.body.params[k]} ELSE {})]
         IN  said["Action"] = {o.name} /\ said["Version"] = {o.version}
    [] OTHER ->
         LET t == o.path.parts
             p == r.path.parts
         IN  /\ r.method = o.method /\ r.path.trailing = o.path.trailing
             /\ Len(t) <= Len(p)
             /\ Len(t) = Len(p) \/ (t # <<>> /\ t[Len(t)].kind = "label" /\ t[Len(t)].greedy)
             /\ \A j \in DOMAIN t : t[j].kind = "literal" => t[j].text = p[j]
             /\ FixedMatches(o.fixed, r.query)
             /\ DOMAIN r.query \subseteq DOMAIN o.fixed \cup {b.name : b \in o.bindings}
             /\ {b.name : b \in {c \in o.bindings : c.required}} \subseteq DOMAIN r.query

Spelled(wire, r) == {i \in DOMAIN wire : wire[i].service = r.service /\ Spells(wire[i], r)}

\* A request is taken for an operation, and a failure shows an operation, only
\* when that operation is the one record of the service's models the request
\* spells, it is known, and the service has no model of another protocol; a
\* target, an Action and a route that point at different operations are refused.
DecodedIsExact ==
  (wireAnswer # NoAnswer /\ wireAnswer.operation # Unknown) =>
    LET wire == wireInput.wire
        r    == wireInput.request
    IN  /\ r.agrees
        /\ \E i \in Spelled(wire, r) :
             /\ Spelled(wire, r) = {i}
             /\ wire[i].known /\ wire[i].name = wireAnswer.operation
        /\ Cardinality({CatalogProtocol(wire[i]) : i \in {j \in DOMAIN wire : wire[j].service = r.service}}) = 1
        /\ wireAnswer.ok => r.body.readable /\ wireAnswer.evidence = "validated"

\* A well-formed request, in any of the protocols the decoder layer is said to
\* support, is decoded when its VerifiedRequest is the one Verify makes, with the
\* protocol inferred from the content type.
SupportedProtocolsDecode ==
  wireAnswer # NoAnswer =>
    LET r == wireInput.request
    IN  r.wellFormed /\ r.claimed = InferProtocol(r.contentType) => wireAnswer.ok
=============================================================================
