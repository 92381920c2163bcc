------------------------------- MODULE Mapping -------------------------------
(***************************************************************************)
(* One request is mapped to the IAM permissions it needs: Mapper.Map        *)
(* (iammap/mapper.go) looks the operation up through the adapter            *)
(* (iamliveadapter/adapter.go), finds the resources of each primary action  *)
(* (resources.go) and matches the dependencies (dependencies.go). All of it *)
(* runs under a context that may end at any instant; a walk over the        *)
(* parameters that is cut short returns what it has seen so far.            *)
(*                                                                         *)
(* The parameters are the sequence of the leaves of the parameter tree: a   *)
(* leaf has the place it was found in ("top", inside an "object", in an     *)
(* object of an "array", or an "element" of an array), its key, its kind    *)
(* and its value. Texts are strings: the constants say which are ARNs,      *)
(* which no ARN can contain and what a statement parses to. An ARN that is  *)
(* built is the sequence of its parts.                                      *)
(***************************************************************************)
EXTENDS Plans

CONSTANTS
    Requests,       \* the decoded requests
    Accepts,        \* Accepts[op]: the pairs <<value, rhs>> a text condition accepts
    RoleARNs,       \* texts that are ARNs of roles
    ServiceARNs,    \* <<kind, text>>: ARNs of that kind in the caller's account and region
    ARNs,           \* texts that are ARNs
    BadParts,       \* texts that no ARN may contain
    Statements,     \* Statements[text]: None, or the action and the table of a PartiQL statement
    TextOrder       \* the texts in ascending order

VARIABLES
    request,        \* the request
    ctx,            \* "live" or "done": the context with the timeout of Map
    stage, at,      \* where Map is, and in which iteration
    occurrence,     \* the selected operation with its plan
    records,        \* applicability of the mappings evaluated so far
    candidates,     \* DependencyOccurrences
    requirements,   \* requirements so far
    outcome         \* what Map returned

mapVars == <<request, ctx, stage, at, occurrence, records, candidates, requirements, outcome>>

-----------------------------------------------------------------------------
(* Reading the parameters *)

Keyed(leaves, names) ==
    SelectSeq(leaves, LAMBDA l : \E n \in ToSet(names) : EqualFold(l.key, n))

Values(leaves) == [i \in 1..Len(leaves) |-> leaves[i].value]

Find(leaves, names) ==
    Values(SelectSeq(Keyed(leaves, names), LAMBDA l : l.kind = "string" /\ l.value # "" /\ l.place # "element"))

InvalidNamedValue(leaves, names) ==
    \E l \in ToSet(Keyed(leaves, names)) : l.kind # "string" \/ l.place = "element"

\* The first name that occurs in the nested objects with one non-empty text.
ParameterString(leaves, names) ==
    LET said(n) == SelectSeq(Keyed(leaves, <<n>>), LAMBDA l : l.place # "array")
        clear(n) == /\ said(n) # <<>>
                    /\ \A l \in ToSet(said(n)) :
                          l.kind = "string" /\ l.place # "element" /\ l.value # "" /\ l.value = said(n)[1].value
        good == {i \in DOMAIN names : clear(names[i])}
    IN  IF good = {} THEN "" ELSE said(names[CHOOSE i \in good : \A j \in good : i <= j])[1].value

\* An array of texts, or a single one; <<>> when an element is no text.
ParameterStrings(leaves, name) ==
    LET elements == SelectSeq(Keyed(leaves, <<name>>), LAMBDA l : l.place \in {"top", "element"})
    IN  IF \E l \in ToSet(elements) : l.kind # "string" THEN <<>> ELSE Values(elements)

-----------------------------------------------------------------------------
(* Conditions: a chain of comparisons joined by And, empty when there is none *)

CompareState(leaves, c) ==
    LET places == IF c.place \in {"top", "element"} THEN {"top", "element"} ELSE {c.place}
        found == SelectSeq(Keyed(leaves, <<c.name>>), LAMBDA l : l.place \in places)
        present == found # <<>>
        any(op) == \E v \in ToSet(Values(found)) : IF op = "equals" THEN v = c.rhs ELSE <<v, c.rhs>> \in Accepts[op]
        result == CASE c.op = "exists" -> present
                    [] c.op = "notexists" -> ~present
                    [] c.op \in {"equals", "contains", "icontains", "startswith"} -> present /\ any(c.op)
                    [] c.op = "notequals" -> ~any("equals")
                    [] c.op = "notstartswith" -> ~any("startswith")
    IN  IF \E l \in ToSet(found) : l.kind # "string" \/ l.place # c.place THEN "unknown"
        ELSE IF c.op \notin {"exists", "notexists", "equals", "notequals", "contains", "icontains",
                             "startswith", "notstartswith"} THEN "unknown"
        ELSE IF result THEN "true" ELSE "false"

EvaluateCondition(leaves, condition) ==
    LET states == {CompareState(leaves, c) : c \in ToSet(condition)}
    IN  IF "unknown" \in states THEN "unknown" ELSE IF "false" \in states THEN "false" ELSE "true"

-----------------------------------------------------------------------------
(* The adapter *)

\* A template is the sequence of the names it mentions.
Templates(mapping) ==
    [i \in 1..Len(mapping.resources) |-> mapping.resources[i].names]
    \o [i \in 1..Len(mapping.conditions) |-> mapping.conditions[i][2].names]

OverrideNames(mapping) == IF mapping.override = None THEN <<>> ELSE mapping.override.names

RoleParameters == <<"Role", "RoleArn">>

DependencyParameterNames(mapping) ==
    LET names == FoldLeft(LAMBDA out, t : out \o t, OverrideNames(mapping), Templates(mapping))
    IN  UniqueStrings(IF names = <<>> THEN RoleParameters ELSE names)

TemplateValues(leaves, names) ==
    FoldLeft(LAMBDA out, n : out \o Find(leaves, <<n>>), <<>>, UniqueStrings(names))

\* The applicability of a dependent mapping, and its resources.
DependencyValues(leaves, mapping) ==
    LET names == DependencyParameterNames(mapping)
        values == IF mapping.override # None THEN TemplateValues(leaves, OverrideNames(mapping))
                  ELSE FoldLeft(LAMBDA out, t : out \o TemplateValues(leaves, t), <<>>, Templates(mapping))
        truthy == mapping.override # None /\ mapping.override.truthy
        condition == EvaluateCondition(leaves, mapping.condition)
    IN  CASE condition = "false" -> [state |-> "inapplicable", resources |-> <<>>]
          [] condition = "true" /\ truthy /\ ~InvalidNamedValue(leaves, names) /\ Find(leaves, names) = <<>> ->
               [state |-> "inapplicable", resources |-> <<>>]
          [] condition = "true" /\ values # <<>> /\ ~(truthy /\ InvalidNamedValue(leaves, names)) ->
               [state |-> "applicable", resources |-> values]
          [] OTHER -> [state |-> "unknown", resources |-> <<>>]

KindParameters ==
    [kind \in {"object", "table", "task-definition", "log-stream"} |->
        CASE kind = "object" -> {"key", "objectname"}
          [] kind = "table" -> {"tablename"}
          [] kind = "task-definition" -> {"taskdefinition", "taskdefinitionfamilyname"}
          [] kind = "log-stream" -> {"logstreamname", "loggroupname"}]

\* entryForAction: the resource type of a primary action and its scope.
EntryForAction(definition, operation, mapping) ==
    LET named == SelectSeq([i \in 1..Len(definition.resources) |-> definition.resources[i].name], LAMBDA n : n # "")
        parameters == {Lower[r.parameter] : r \in ToSet(mapping.resources)}
        matches == SelectSeq(named, LAMBDA n : n \in DOMAIN KindParameters /\ KindParameters[n] \cap parameters # {})
        statements == /\ Lower[mapping.action[1]] = "dynamodb" /\ operation = "BatchExecuteStatement"
                      /\ mapping.condition # <<>>
        entry(resource, scope) == [resource |-> resource, scope |-> scope]
    IN  IF statements THEN entry("table", "exact")
        ELSE CASE Len(named) = 1 -> entry(named[1], "exact")
               [] Len(named) > 1 /\ Len(matches) = 1 -> entry(matches[1], "exact")
               [] Len(named) > 1 /\ Len(matches) # 1 -> entry("global", "unresolved")
               [] Len(named) = 0 /\ Len(definition.resources) > 1 -> entry("global", "unresolved")
               [] Len(named) = 0 /\ Len(definition.resources) <= 1 -> entry("global", "known_global")

DefinitionDependencies(definition) ==
    FoldLeft(LAMBDA out, r : out \o r.dependents, <<>>, definition.resources)

\* Which failure a plan with diagnostics is: the first that tells decides.
RuntimePlanFailure(plan) ==
    LET telling == SelectSeq(plan.diagnostics, LAMBDA d : d.related \/ d.detail \in {"missing dependent", "no primary"})
    IN  IF telling = <<>> THEN "catalog inconsistency"
        ELSE IF telling[1].detail = "no primary" THEN "unresolved primary resource" ELSE "unresolved dependency"

-----------------------------------------------------------------------------
(* Resources of a primary action: None when they cannot be told *)

\* awsARN and s3ARN: the parts, when an ARN may contain each of them.
BuildARN(service, parts) == IF \E p \in ToSet(parts) : p \in BadParts THEN None ELSE <<service>> \o parts

Given(kind, value) == IF <<kind, value>> \in ServiceARNs THEN <<"arn", value>> ELSE None

\* A resource named by one text for each list of alternative parameter names.
Named(leaves, service, fields) ==
    LET parts == [i \in 1..Len(fields) |-> ParameterString(leaves, fields[i])]
    IN  IF "" \in ToSet(parts) THEN None ELSE BuildARN(service, parts)

S3Parts(leaves) ==
    LET bucket == ParameterString(leaves, <<"Bucket">>)
        key == ParameterString(leaves, <<"Key">>)
    IN  IF bucket = "" \/ key = "" THEN request.path ELSE <<bucket, key>>

S3Bucket(leaves) ==
    LET bucket == ParameterString(leaves, <<"Bucket">>) IN IF bucket = "" THEN request.path[1] ELSE bucket

\* A text that may be an ARN already.
NamedOrARN(leaves, kind, service, parameter) ==
    LET value == ParameterString(leaves, <<parameter>>)
    IN  IF value \in ARNs \cup RoleARNs THEN Given(kind, value) ELSE Named(leaves, service, <<<<parameter>>>>)

\* dynamoStatementARNs: every statement must parse; the tables of those that
\* need this action, each once.
StatementARNs(leaves, action) ==
    LET all == SelectSeq(Keyed(leaves, <<"Statement">>), LAMBDA l : l.place = "array")
        parsed == {Statements[l.value] : l \in {x \in ToSet(all) : x.kind = "string"}}
        tables == {s.table : s \in {x \in parsed \ {None} : x.action = action}}
    IN  IF \/ all = <<>> \/ \E l \in ToSet(all) : l.kind # "string"
           \/ None \in parsed \/ tables = {} \/ tables \cap BadParts # {} THEN None
        ELSE SetToSeq({<<"dynamodb", t>> : t \in tables})

One(resource) == IF resource = None THEN None ELSE <<resource>>

ResourceFor(leaves, kind, action) ==
    LET local == request.account /\ request.region
        bounded(resource) == IF local THEN One(resource) ELSE None
    IN  CASE kind = "global" -> <<<<"*">>>>
          [] kind = "object" -> IF "" \in ToSet(S3Parts(leaves)) THEN None ELSE One(BuildARN("s3", S3Parts(leaves)))
          [] kind = "bucket" -> IF S3Bucket(leaves) = "" THEN None ELSE One(BuildARN("s3", <<S3Bucket(leaves)>>))
          [] kind = "service" ->
               bounded(Named(leaves, "ecs", <<<<"Cluster", "ClusterArn">>, <<"Service", "ServiceName">>>>))
          [] kind \in {"task", "task-definition"} -> bounded(NamedOrARN(leaves, "task-definition", "ecs", "TaskDefinition"))
          [] kind = "function" -> bounded(NamedOrARN(leaves, "function", "lambda", "FunctionName"))
          [] kind = "instance" ->
               LET ids == ParameterStrings(leaves, "InstanceIds")
               IN  IF ~local \/ ids = <<>> \/ ToSet(ids) \cap BadParts # {} THEN None
                   ELSE [i \in 1..Len(ids) |-> <<"ec2", ids[i]>>]
          [] kind = "table" /\ request.operation = "BatchExecuteStatement" ->
               IF local THEN StatementARNs(leaves, action) ELSE None
          [] kind = "table" /\ request.operation # "BatchExecuteStatement" ->
               bounded(Named(leaves, "dynamodb", <<<<"TableName">>>>))
          [] kind = "dataset" -> bounded(Named(leaves, "cloudwatch", <<<<"DatasetId", "Namespace">>>>))
          [] kind = "role" /\ request.operation = "AssumeRole" ->
               LET arn == ParameterString(leaves, <<"RoleArn">>) IN IF arn \in RoleARNs THEN <<<<"arn", arn>>>> ELSE None
          [] kind = "role" /\ request.operation # "AssumeRole" ->
               IF request.account THEN One(Named(leaves, "iam", <<<<"RoleName">>>>)) ELSE None
          [] kind = "log-group" -> bounded(Named(leaves, "logs", <<<<"LogGroupName">>>>))
          [] kind = "log-stream" -> bounded(Named(leaves, "logs", <<<<"LogGroupName">>, <<"LogStreamName">>>>))
          [] OTHER -> None

ScopeOf(resources) ==
    IF resources = <<<<"*">>>> THEN "known_global" ELSE IF Len(resources) = 1 THEN "exact" ELSE "set"

-----------------------------------------------------------------------------
(* Map *)

CanonicalAction(action) == <<Lower[action[1]], action[2]>>
ValidDependencyARN(action, value) == value \in IF action = <<"iam", "PassRole">> THEN RoleARNs ELSE ARNs \cup RoleARNs

\* sortRequirements: by action and then by resources, compared part by part; then
\* the resources of each.
Rank(text) == CHOOSE i \in DOMAIN TextOrder : TextOrder[i] = text
Before(a, b) ==
    \E n \in 0 .. Len(b) - 1 :
        /\ IsPrefix(SubSeq(b, 1, n), a)
        /\ Len(a) = n \/ Rank(a[n + 1]) < Rank(b[n + 1])
SortRequirements(reqs) ==
    LET key(r) == r.action \o FlattenSeq(r.resources)
        sorted == SortSeq(reqs, LAMBDA r, q : Before(key(r), key(q)))
    IN  [i \in 1..Len(sorted) |-> [sorted[i] EXCEPT !.resources = SortSeq(@, Before)]]

\* The leaves a walk has seen: all of them, or some when the context ends meanwhile.
Cut(leaves) == {SelectSeq(leaves, LAMBDA l : l \in seen) : seen \in SUBSET ToSet(leaves)}

Seen(leaves) ==
    /\ ctx = "live"
    /\ \/ ctx' = "live" /\ leaves = request.parameters
       \/ ctx' = "done" /\ leaves \in Cut(request.parameters)

\* Map returns a failure and no mapping.
Fail(kind) ==
    /\ outcome' = [ok |-> FALSE, kind |-> kind, requirements |-> <<>>]
    /\ stage' = "done"
    /\ UNCHANGED <<request, at, occurrence, records, candidates, requirements>>

MapInit ==
    /\ request = None
    /\ ctx = "live"
    /\ stage = "idle"
    /\ at = 0
    /\ occurrence = None
    /\ records = <<>>
    /\ candidates = <<>>
    /\ requirements = <<>>
    /\ outcome = None

Begin ==
    /\ stage = "idle" /\ phase = "ready"
    /\ request' \in Requests
    /\ ctx' \in {"live", "done"}
    /\ stage' = "lookup"
    /\ UNCHANGED <<at, occurrence, records, candidates, requirements, outcome>>

\* The context ends: every loop below asks for that before it goes on.
Expire ==
    /\ stage \notin {"idle", "done"} /\ ctx = "live"
    /\ ctx' = "done"
    /\ UNCHANGED <<request, stage, at, occurrence, records, candidates, requirements, outcome>>

Interrupted ==
    /\ ctx = "done"
    /\ \/ stage = "lookup"
       \/ stage = "records" /\ at < Len(occurrence.plan.mappings)
       \/ stage \in {"dependencies", "resources"} /\ at < Len(records)
       \/ stage = "match" /\ (at < Len(candidates) \/ \E r \in ToSet(requirements) : r.dependent)
    /\ Fail("context") /\ UNCHANGED ctx

Lookup ==
    /\ stage = "lookup" /\ ctx = "live"
    /\ LET found == OperationOccurrences(store, request.service, request.operation)
           selected == SelectSeq(found, LAMBDA o : o.operation.state = "known" /\ o.service \in request.routes)
       IN  CASE ~request.agrees -> Fail("catalog inconsistency")
             [] request.agrees /\ (~request.complete \/ selected = <<>>) -> Fail("unknown wire operation")
             [] request.agrees /\ request.complete /\ Len(selected) > 1 -> Fail("ambiguous wire operation")
             [] request.agrees /\ request.complete /\ Len(selected) = 1 /\ selected[1].plan.diagnostics # <<>> ->
                  Fail(RuntimePlanFailure(selected[1].plan))
             [] OTHER ->
                  /\ occurrence' = selected[1]
                  /\ stage' = "records"
                  /\ UNCHANGED <<request, at, records, candidates, requirements, outcome>>
    /\ UNCHANGED ctx

\* The condition of the next mapping. One that is cut short may come out anyhow.
EvaluateRecord ==
    /\ stage = "records" /\ at < Len(occurrence.plan.mappings)
    /\ ctx = "live" /\ ctx' \in {"live", "done"}
    /\ \E state \in IF ctx' = "done" THEN {"true", "false", "unknown"}
                    ELSE {EvaluateCondition(request.parameters, occurrence.plan.mappings[at + 1].mapping.condition)} :
          IF state = "unknown" THEN Fail("unresolved primary resource")
          ELSE /\ records' = Append(records, occurrence.plan.mappings[at + 1] @@ [applicable |-> state = "true"])
               /\ at' = at + 1
               /\ UNCHANGED <<request, stage, occurrence, candidates, requirements, outcome>>

Roots == SelectSeq(records, LAMBDA r : ~r.dependent /\ r.applicable)

EndRecords ==
    /\ stage = "records" /\ at = Len(occurrence.plan.mappings)
    /\ IF Roots = <<>> THEN Fail("unresolved primary resource")
       ELSE IF ctx = "done" THEN Fail("context")
       ELSE /\ stage' = "dependencies" /\ at' = 0
            /\ UNCHANGED <<request, occurrence, records, candidates, requirements, outcome>>
    /\ UNCHANGED ctx

\* The values of the next dependent mapping; they are dropped when the context
\* ended meanwhile.
DependencyRecord ==
    /\ stage = "dependencies" /\ at < Len(records)
    /\ \E leaves \in Cut(request.parameters) :
         /\ Seen(leaves)
         /\ LET r == records[at + 1]
                found == IF r.applicable THEN DependencyValues(leaves, r.mapping)
                         ELSE [state |-> "inapplicable", resources |-> <<>>]
            IN  IF r.dependent /\ ctx' = "done" THEN Fail("context")
                ELSE /\ candidates' = IF ~r.dependent THEN candidates
                                      ELSE Append(candidates, found @@ [action |-> CanonicalAction(r.mapping.action),
                                                                        names |-> DependencyParameterNames(r.mapping)])
                     /\ at' = at + 1
                     /\ UNCHANGED <<request, stage, occurrence, records, requirements, outcome>>

EndDependencies ==
    /\ stage = "dependencies" /\ at = Len(records)
    /\ stage' = "resources" /\ at' = 0
    /\ records' = Roots
    /\ UNCHANGED <<request, ctx, occurrence, candidates, requirements, outcome>>

ResourceRecord ==
    /\ stage = "resources" /\ at < Len(records)
    /\ \E leaves \in Cut(request.parameters) :
         /\ Seen(leaves)
         /\ LET r == records[at + 1]
                action == CanonicalAction(r.mapping.action)
                entry == EntryForAction(r.definition, occurrence.operation.name, r.mapping)
                found == ResourceFor(leaves, entry.resource, action)
            IN  IF found = None THEN Fail("unresolved primary resource")
                ELSE IF ScopeOf(found) # entry.scope /\ ~(entry.scope = "exact" /\ ScopeOf(found) = "set")
                THEN Fail("catalog inconsistency")
                ELSE /\ requirements' = Append(requirements, [action |-> action, resources |-> found, dependent |-> FALSE])
                     /\ at' = at + 1
                     /\ UNCHANGED <<request, stage, occurrence, records, candidates, outcome>>

\* dependencies: the dependencies the definitions of the primaries state and the
\* dependent mappings are the same multiset of actions, and none is unknown.
EndResources ==
    /\ stage = "resources" /\ at = Len(records)
    /\ LET expected == FoldLeft(LAMBDA out, r : out \o DefinitionDependencies(r.definition), <<>>, records)
           wanted == [i \in 1..Len(expected) |-> CanonicalAction(expected[i])]
           times(s, x) == Cardinality({i \in DOMAIN s : s[i] = x})
           offered == [i \in 1..Len(candidates) |-> candidates[i].action]
       IN  IF ctx = "done" THEN Fail("context")
           ELSE IF \/ \E c \in ToSet(candidates) : c.state = "unknown"
                   \/ \E a \in ToSet(wanted) \cup ToSet(offered) : times(wanted, a) # times(offered, a)
           THEN Fail("unresolved dependency")
           ELSE /\ stage' = "match" /\ at' = 0
                /\ UNCHANGED <<request, occurrence, records, candidates, requirements, outcome>>
    /\ UNCHANGED ctx

(* Mutant: the resources the adapter found are taken without asking whether they *)
(* are all the request has.                                                      *)
MatchDependencyUnchecked ==
    /\ stage = "match" /\ at < Len(candidates)
    /\ \E leaves \in Cut(request.parameters) :
         /\ Seen(leaves)
         /\ LET c == candidates[at + 1]
                need == [action |-> c.action, resources |-> [i \in 1..Len(c.resources) |-> <<"arn", c.resources[i]>>],
                         dependent |-> TRUE]
            IN  IF c.state = "inapplicable"
                THEN at' = at + 1 /\ UNCHANGED <<request, stage, occurrence, records, candidates, requirements, outcome>>
                ELSE IF \E v \in ToSet(c.resources) : ~ValidDependencyARN(c.action, v) THEN Fail("unresolved dependency")
                ELSE /\ requirements' = Append(requirements, need)
                     /\ at' = at + 1
                     /\ UNCHANGED <<request, stage, occurrence, records, candidates, outcome>>

\* The resources of an applicable dependency are all the values that its
\* parameters have in the request, each of them an ARN. The code takes the
\* dependencies action by action; the sort of the result makes that order void.
MatchDependency ==
    /\ stage = "match" /\ at < Len(candidates)
    /\ \E leaves \in Cut(request.parameters) :
         /\ Seen(leaves)
         /\ LET c == candidates[at + 1]
                found == Find(leaves, c.names)
                same == /\ Len(found) = Len(c.resources)
                        /\ \A v \in ToSet(found) \cup ToSet(c.resources) :
                              Cardinality({i \in DOMAIN found : found[i] = v})
                              = Cardinality({i \in DOMAIN c.resources : c.resources[i] = v})
                need == [action |-> c.action, resources |-> [i \in 1..Len(found) |-> <<"arn", found[i]>>], dependent |-> TRUE]
            IN  IF c.state = "inapplicable"
                THEN at' = at + 1 /\ UNCHANGED <<request, stage, occurrence, records, candidates, requirements, outcome>>
                ELSE IF found = <<>> \/ ~same \/ \E v \in ToSet(found) : ~ValidDependencyARN(c.action, v)
                THEN Fail("unresolved dependency")
                ELSE /\ requirements' = Append(requirements, need)
                     /\ at' = at + 1
                     /\ UNCHANGED <<request, stage, occurrence, records, candidates, outcome>>

\* MappingResult.Validate refuses a resource that occurs twice in a requirement.
\* The last check of Map drops what was computed while the context ended.
Finish ==
    /\ stage = "match" /\ at = Len(candidates)
    /\ IF \E r \in ToSet(requirements) : Cardinality(ToSet(r.resources)) # Len(r.resources) THEN Fail("invalid result")
       ELSE IF ctx = "done" THEN Fail("context")
       ELSE /\ outcome' = [ok |-> TRUE, kind |-> "", requirements |-> SortRequirements(requirements)]
            /\ stage' = "done"
            /\ UNCHANGED <<request, at, occurrence, records, candidates, requirements>>
    /\ UNCHANGED ctx

MapStep ==
    \/ Begin \/ Expire \/ Interrupted \/ Lookup \/ EvaluateRecord \/ EndRecords \/ DependencyRecord
    \/ EndDependencies \/ ResourceRecord \/ EndResources \/ MatchDependency \/ Finish

-----------------------------------------------------------------------------
(* Properties *)

\* A mapping that Map returns is the whole of what the catalogue states for this
\* request, and nothing of it was read after the context ended: one requirement
\* for each primary mapping whose condition holds; for each dependency of those,
\* as often as the definitions state it, a mapping that is required with every
\* value its parameters have in the request or was proven not to apply. A
\* resource is made of unambiguous texts of the request, and is everything ("*")
\* only where the definition names no resource.
MappedExactly ==
    (outcome # None /\ outcome.ok) =>
        LET all == request.parameters
            mappings == occurrence.operation.mappings
            applies(m) == EvaluateCondition(all, m.condition) = "true"
            stated(m) == DependenciesOf(ActionKey(m.action))
            dependent(m) == \E n \in ToSet(mappings) : \E d \in ToSet(stated(n)) : ActionKey(d) = ActionKey(m.action)
            primary == SelectSeq(mappings, LAMBDA m : ~dependent(m) /\ applies(m))
            owed(key) == Sum([i \in DOMAIN primary |-> Len(SelectSeq(stated(primary[i]), LAMBDA d : ActionKey(d) = key))])
            offered(key) == SelectSeq(mappings, LAMBDA m : dependent(m) /\ ActionKey(m.action) = key)
            void(m) == \/ ~applies(m)
                       \/ m.override # None /\ m.override.truthy /\ Find(all, DependencyParameterNames(m)) = <<>>
            needed == SelectSeq(mappings, LAMBDA m : dependent(m) /\ ~void(m))
            got(flag) == SelectSeq(outcome.requirements, LAMBDA r : r.dependent = flag)
            paired(s) == Permutations(DOMAIN s)
            texts == {l.value : l \in ToSet(all)} \cup ToSet(request.path)
                     \cup {s.table : s \in {Statements[v] : v \in DOMAIN Statements} \ {None}}
        IN  /\ ctx = "live"
            /\ Len(got(FALSE)) = Len(primary) /\ Len(got(TRUE)) = Len(needed)
            /\ \E f \in paired(primary) : \A i \in DOMAIN primary :
                  LET r == got(FALSE)[f[i]]
                  IN  /\ r.action = CanonicalAction(primary[i].action)
                      /\ r.resources # <<>>
                      /\ <<"*">> \in ToSet(r.resources) =>
                            \A n \in ToSet(DefinitionsOf(ActionKey(primary[i].action))[1].resources) : n.name = ""
                      /\ \A x \in ToSet(r.resources) \ {<<"*">>} : \A j \in 2..Len(x) : x[j] \in texts
            /\ \E f \in paired(needed) : \A i \in DOMAIN needed :
                  LET r == got(TRUE)[f[i]]
                  IN  /\ r.action = CanonicalAction(needed[i].action)
                      /\ {x[2] : x \in ToSet(r.resources)} = ToSet(Find(all, DependencyParameterNames(needed[i])))
            /\ \A key \in KeysSaid : owed(key) = Len(offered(key))

=============================================================================
