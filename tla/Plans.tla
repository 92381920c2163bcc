-------------------------------- MODULE Plans --------------------------------
(***************************************************************************)
(* What a loaded catalogue answers: the views its accessors rebuild from    *)
(* the compact store (catalog.go) and the static plan of each operation     *)
(* (validation.go), which lists the mappings that are usable and every      *)
(* disagreement between them and the dependencies the definitions state.    *)
(*                                                                         *)
(* A view is the record the code returns, or None where the code finds the  *)
(* store corrupt and returns no value. A diagnostic keeps its code, the     *)
(* action it names, whether it names a related action and the detail the    *)
(* adapter tells apart.                                                     *)
(***************************************************************************)
EXTENDS Catalog

CONSTANTS
    None,
    MaxPlanDiagnostics,     \* diagnostics a plan keeps (32)
    MaxStaticTraversal      \* definitions one plan may visit (2^20)

VARIABLE plans              \* compactPlans, by operation index

plansVars == <<catalogVars, plans>>

-----------------------------------------------------------------------------
(* Views *)

SoundMapping(s, i) ==
    /\ i \in 1..Len(s.mappings)
    /\ ValidSpan(s.mappings[i].resources, Len(s.mappingResources))
    /\ ValidSpan(s.mappings[i].conditionMappings, Len(s.mapPairs))
    /\ \A p \in ToSet(Slice(s.mapPairs, s.mappings[i].conditionMappings)) :
           p.resource \in 1..Len(s.mappingResources)

CompactMapping(s, i) ==
    IF ~SoundMapping(s, i) THEN None
    ELSE LET m == s.mappings[i]
             resources == Slice(s.mappingResources, m.resources)
             pairs == Slice(s.mapPairs, m.conditionMappings)
         IN  [occurrence |-> m.occurrence, action |-> m.action, state |-> m.state,
              condition |-> m.condition, override |-> m.override,
              resources |-> [j \in 1..Len(resources) |-> resources[j].parameter],
              conditions |-> [j \in 1..Len(pairs) |->
                                 <<pairs[j].key, s.mappingResources[pairs[j].resource].parameter>>]]

SoundAction(s, i) ==
    /\ i \in 1..Len(s.actions)
    /\ ValidSpan(s.actions[i].resources, Len(s.resources))
    /\ \A r \in ToSet(Slice(s.resources, s.actions[i].resources)) :
          /\ ValidSpan(r.dependents, Len(s.dependents))
          /\ Len(r.dependentIDs) = r.dependents.count
          /\ \A j \in 1..Len(r.dependentIDs) : s.dependents[r.dependents.start + j].occurrence = r.dependentIDs[j]

CompactAction(s, i) ==
    IF ~SoundAction(s, i) THEN None
    ELSE LET a == s.actions[i]
             resources == Slice(s.resources, a.resources)
             actions(r) == LET d == Slice(s.dependents, r.dependents) IN [k \in 1..Len(d) |-> d[k].action]
         IN  [occurrence |-> a.occurrence, service |-> a.service, name |-> a.name, state |-> a.state,
              resources |-> [j \in 1..Len(resources) |->
                                [name |-> resources[j].name, dependents |-> actions(resources[j])]]]

MappingIndexes(spans) ==
    FoldLeft(LAMBDA out, span : out \o [i \in 1..span.count |-> span.start + i], <<>>, spans)

SoundView(s, i) ==
    /\ i \in 1..Len(s.operations)
    /\ \A span \in ToSet(s.operations[i].mappings) : ValidSpan(span, Len(s.mappings))
    /\ \A j \in ToSet(MappingIndexes(s.operations[i].mappings)) : SoundMapping(s, j)

CompactView(s, i) ==
    IF ~SoundView(s, i) THEN None
    ELSE LET o == s.operations[i]
             indexes == MappingIndexes(o.mappings)
         IN  [occurrence |-> o.occurrence, service |-> o.service, name |-> o.name, state |-> o.state,
              mappingState |-> o.mappingState,
              mappings |-> [j \in 1..Len(indexes) |-> CompactMapping(s, indexes[j])]]

SoundPosition(s, p) == p.operation \in 1..Len(s.operations) /\ s.operations[p.operation].occurrence = p.occurrence

SoundService(s, i) ==
    /\ i \in 1..Len(s.serviceOps)
    /\ \A p \in ToSet(s.serviceOps[i]) :
          SoundPosition(s, p) /\ SoundView(s, p.operation) /\ s.operations[p.operation].service = s.services[i].endpoint

CompactService(s, i) ==
    IF ~SoundService(s, i) THEN None
    ELSE [key |-> s.services[i].key, endpoint |-> s.services[i].endpoint, aliases |-> s.services[i].aliases,
          operations |-> [j \in 1..Len(s.serviceOps[i]) |-> CompactView(s, s.serviceOps[i][j].operation)]]

\* A list accessor returns nothing at all when one of its elements is corrupt.
AllOrNothing(views) == IF None \in ToSet(views) THEN <<>> ELSE views

Services(s) == AllOrNothing([i \in 1..Len(s.services) |-> CompactService(s, i)])

SoundActionPosition(s, p) == p.action \in 1..Len(s.actions) /\ s.actions[p.action].occurrence = p.occurrence

ActionViews(s, positions) ==
    AllOrNothing([i \in 1..Len(positions) |->
        IF SoundActionPosition(s, positions[i]) THEN CompactAction(s, positions[i].action) ELSE None])

Actions(s) == ActionViews(s, s.actionOrder)

ActionDefinitionOccurrences(s, action) ==
    IF Len(action) # 2 THEN <<>> ELSE ActionViews(s, At(s.actionIndex, ActionKey(action)))

AllMappingOccurrences(s) ==
    AllOrNothing([i \in 1..Len(s.mappingOrder) |->
        LET p == s.mappingOrder[i]
        IN  IF p.storeIndex \in 1..Len(s.mappings) /\ s.mappings[p.storeIndex].occurrence = p.occurrence
            THEN CompactMapping(s, p.storeIndex) ELSE None])

MappingOccurrences(s, service, operation) ==
    LET spans == At(s.mappingIndex, OperationKey(service, operation))
        indexes == MappingIndexes(spans)
    IN  IF \E span \in ToSet(spans) : ~ValidSpan(span, Len(s.mappings)) THEN <<>>
        ELSE AllOrNothing([i \in 1..Len(indexes) |-> CompactMapping(s, indexes[i])])

-----------------------------------------------------------------------------
(* Lookups by name *)

StoreServiceIndexes(s, name) ==
    SelectSeq([i \in 1..Len(s.services) |-> i],
              LAMBDA i : \E alias \in ToSet(s.services[i].aliases) : EqualFold(alias, name))

Service(s, name) ==
    LET indexes == StoreServiceIndexes(s, name)
    IN  IF Len(indexes) # 1 THEN None ELSE CompactService(s, indexes[1])

(* Mutant: the first of several operations answers. *)
OperationFirst(s, service, name) ==
    LET indexes == StoreServiceIndexes(s, service)
        positions == FoldLeft(LAMBDA out, i : out \o s.serviceOps[i], <<>>, indexes)
        named == SelectSeq(positions, LAMBDA p : EqualFold(s.operations[p.operation].name, name))
    IN  IF (\E p \in ToSet(positions) : ~SoundPosition(s, p)) \/ named = <<>> THEN None
        ELSE CompactView(s, named[1].operation)

Operation(s, service, name) ==
    LET indexes == StoreServiceIndexes(s, service)
        positions == FoldLeft(LAMBDA out, i : out \o s.serviceOps[i], <<>>, indexes)
        named == SelectSeq(positions, LAMBDA p : EqualFold(s.operations[p.operation].name, name))
    IN  IF (\E p \in ToSet(positions) : ~SoundPosition(s, p)) \/ Len(named) # 1 THEN None
        ELSE CompactView(s, named[1].operation)

Action(s, action) ==
    LET found == IF Len(action) = 2 THEN At(s.actionIndex, ActionKey(action)) ELSE <<>>
    IN  IF Len(found) # 1 THEN None
        ELSE IF ~SoundActionPosition(s, found[1]) \/ ~SoundAction(s, found[1].action) THEN None
        ELSE IF s.actions[found[1].action].state = "contradictory" THEN None
        ELSE CompactAction(s, found[1].action)

OperationCardinality(s, service, name) ==
    LET positions == At(s.occurrences, OperationKey(service, name))
    IN  IF \E p \in ToSet(positions) : ~SoundPosition(s, p) THEN 0 ELSE Len(positions)

-----------------------------------------------------------------------------
(* Static plans *)

\* forEachCompactEdge: the dependencies a definition states, one per occurrence.
Edges(s, i) ==
    LET resources == Slice(s.resources, s.actions[i].resources)
        dependents(r) == Slice(s.dependents, r.dependents)
    IN  FoldLeft(LAMBDA out, r :
                     out \o [j \in 1..Len(dependents(r)) |->
                                [action |-> dependents(r)[j].action, resource |-> r.occurrence,
                                 dependencyID |-> dependents(r)[j].occurrence]],
                 <<>>, resources)

WellFormed(action) == Len(action) = 2

ValidationState(state) ==
    CASE state = "absent" -> "missing"
      [] state = "contradictory" -> "contradictory"
      [] OTHER -> "incomplete"

\* A full list still gives way to a cycle, in the place of its first other entry.
Diagnose(diagnostics, code, action, related, detail) ==
    LET d == [code |-> code, action |-> action, related |-> related, detail |-> detail]
        others == {i \in DOMAIN diagnostics : diagnostics[i].code # "cyclic"}
    IN  IF Len(diagnostics) < MaxPlanDiagnostics THEN Append(diagnostics, d)
        ELSE IF code = "cyclic" /\ others # {}
             THEN [diagnostics EXCEPT ![CHOOSE i \in others : \A j \in others : i <= j] = d]
             ELSE diagnostics

\* One mapping of the operation: usable, or the reason it is not.
ScanMapping(s, acc, i) ==
    LET m == s.mappings[i]
        definitions == IF WellFormed(m.action) THEN At(s.actionIndex, ActionKey(m.action)) ELSE <<>>
        refused(code) == [acc EXCEPT !.diagnostics = Diagnose(@, code, m.action, FALSE, "mapping")]
    IN  CASE ~WellFormed(m.action) -> refused("incomplete")
          [] Len(definitions) > 1 -> refused("ambiguous")
          [] WellFormed(m.action) /\ Len(definitions) <= 1 /\ m.state # "known" -> refused(ValidationState(m.state))
          [] WellFormed(m.action) /\ Len(definitions) = 0 /\ m.state = "known" -> refused("missing")
          [] OTHER ->
               LET a == definitions[1].action
               IN  IF s.actions[a].state # "known" THEN refused(ValidationState(s.actions[a].state))
                   ELSE [acc EXCEPT !.mappings = Append(@, [mapping |-> i, action |-> a,
                                                           key |-> ActionKey(m.action)])]

RECURSIVE Visit(_, _, _, _, _)

\* One dependency of the definition with occurrence id, whose ancestors and
\* itself are in stack.
VisitEdge(s, acc, edge, id, counted, stack) ==
    LET key == ActionKey(edge.action)
        expecting == IF counted THEN [acc EXCEPT !.expected = Append(@, key)] ELSE acc
        definitions == At(s.actionIndex, key)
        refused(code) == [expecting EXCEPT !.diagnostics = Diagnose(@, code, key, TRUE, "dependency")]
    IN  CASE ~WellFormed(edge.action) ->
               [acc EXCEPT !.diagnostics = Diagnose(@, "incomplete", <<>>, TRUE, "dependency")]
          [] WellFormed(edge.action) /\ Len(definitions) = 0 -> refused("missing")
          [] WellFormed(edge.action) /\ Len(definitions) > 1 -> refused("ambiguous")
          [] OTHER ->
               LET target == definitions[1].action
                   cycle == <<id, edge.resource, edge.dependencyID, s.actions[target].occurrence>>
               IN  IF s.actions[target].state # "known" THEN refused(ValidationState(s.actions[target].state))
                   ELSE IF s.actions[target].occurrence \notin stack
                   THEN Visit(s, expecting, target, counted, stack)
                   ELSE IF cycle \in acc.cycles THEN expecting
                   ELSE [refused("cyclic") EXCEPT !.cycles = @ \cup {cycle}]

Visit(s, acc, i, counted, stack) ==
    IF acc.traversed >= MaxStaticTraversal
    THEN IF acc.exhausted THEN acc
         ELSE [acc EXCEPT !.exhausted = TRUE,
                          !.diagnostics = Diagnose(@, "incomplete", <<>>, FALSE, "traversal")]
    ELSE LET id == s.actions[i].occurrence
             entered == [acc EXCEPT !.traversed = @ + 1]
         IN  IF id \in stack THEN entered
             ELSE FoldLeft(LAMBDA a, edge : VisitEdge(s, a, edge, id, counted, stack \cup {id}),
                           entered, Edges(s, i))

(* Mutant: one expected occurrence explains every mapping of its action. *)
MatchExpectedAll(acc, key) ==
    LET left == {i \in DOMAIN acc.mappings : acc.mappings[i].key = key}
    IN  IF left # {} THEN [acc EXCEPT !.used = @ \cup left]
        ELSE [acc EXCEPT !.diagnostics = Diagnose(@, "incomplete", key, FALSE, "missing dependent")]

\* Every expected occurrence uses up one mapping of its action, the first left.
MatchExpected(acc, key) ==
    LET left == {i \in DOMAIN acc.mappings : acc.mappings[i].key = key /\ i \notin acc.used}
    IN  IF left # {}
        THEN [acc EXCEPT !.used = @ \cup {CHOOSE i \in left : \A j \in left : i <= j}]
        ELSE [acc EXCEPT !.diagnostics = Diagnose(@, "incomplete", key, FALSE, "missing dependent")]

\* The steps of compileCompactPlan, each on the plan p built so far.

ScanMappings(s, indexes) ==
    FoldLeft(LAMBDA acc, i : ScanMapping(s, acc, i),
             [mappings |-> <<>>, diagnostics |-> <<>>, expected |-> <<>>, used |-> {},
              cycles |-> {}, traversed |-> 0, exhausted |-> FALSE], indexes)

EdgeNames(s, p) ==
    UNION {{ActionKey(e.action) : e \in {d \in ToSet(Edges(s, m.action)) : WellFormed(d.action)}} : m \in ToSet(p.mappings)}

VisitRoots(s, p, roots) ==
    FoldLeft(LAMBDA acc, m : Visit(s, [acc EXCEPT !.expected = Append(@, m.key)], m.action, TRUE, {}), p, roots)

VisitAll(s, p, counted) ==
    FoldLeft(LAMBDA acc, m : Visit(s, acc, m.action, counted, {}), p, p.mappings)

MatchMappings(p) ==
    FoldLeft(LAMBDA acc, i : IF i \in acc.used THEN acc
                             ELSE [acc EXCEPT !.diagnostics = Diagnose(@, "extra", acc.mappings[i].key, FALSE, "extra")],
             FoldLeft(MatchExpected, p, p.expected), [i \in 1..Len(p.mappings) |-> i])

CheckPrimary(p, roots) ==
    IF p.mappings # <<>> /\ roots = <<>>
    THEN [p EXCEPT !.diagnostics = Diagnose(@, "incomplete", <<>>, FALSE, "no primary")] ELSE p

CheckOperation(p, state, bad) ==
    IF bad THEN [p EXCEPT !.diagnostics = Diagnose(@, ValidationState(state), <<>>, FALSE, "operation")] ELSE p

Compile(s, operation, p, roots) ==
    CheckOperation(
        CheckOperation(
            CheckPrimary(MatchMappings(VisitAll(s, VisitRoots(s, p, roots), roots = <<>>)), roots),
            operation.state, operation.state # "known"),
        operation.mappingState,
        operation.mappingState # "known" \/ \A span \in ToSet(operation.mappings) : span.count = 0)

Planned(p, names) ==
    [mappings |-> [i \in 1..Len(p.mappings) |->
                      [mapping |-> p.mappings[i].mapping, action |-> p.mappings[i].action,
                       dependent |-> p.mappings[i].key \in names]],
     diagnostics |-> p.diagnostics]

CompileScanned(s, operation, p, names) ==
    Planned(Compile(s, operation, p, SelectSeq(p.mappings, LAMBDA m : m.key \notin names)), names)

CompileMappings(s, operation, p) == CompileScanned(s, operation, p, EdgeNames(s, p))

CompileCompactPlan(s, index) ==
    CompileMappings(s, s.operations[index], ScanMappings(s, MappingIndexes(s.operations[index].mappings)))

\* staticPlan: the plan with its mappings and definitions rebuilt as views.
StaticPlan(s, i) ==
    LET plan == plans[i]
    IN  [occurrence |-> s.operations[i].occurrence, diagnostics |-> plan.diagnostics,
         mappings |-> [j \in 1..Len(plan.mappings) |->
                          [mapping |-> CompactMapping(s, plan.mappings[j].mapping),
                           definition |-> CompactAction(s, plan.mappings[j].action),
                           dependent |-> plan.mappings[j].dependent]]]

OperationOccurrences(s, service, name) ==
    LET positions == At(s.occurrences, OperationKey(service, name))
        owners(p) == {i \in DOMAIN s.serviceOps : p \in ToSet(s.serviceOps[i])}
        usable(p) == /\ SoundPosition(s, p) /\ SoundView(s, p.operation)
                     /\ owners(p) # {} /\ \A i \in owners(p) : SoundService(s, i)
    IN  IF \E p \in ToSet(positions) : ~usable(p) THEN <<>>
        ELSE [i \in 1..Len(positions) |->
                 [service |-> s.services[CHOOSE j \in owners(positions[i]) : TRUE].key,
                  operation |-> CompactView(s, positions[i].operation),
                  plan |-> StaticPlan(s, positions[i].operation)]]

-----------------------------------------------------------------------------
(* The last step of parse *)

CompileCompactPlans ==
    /\ phase = "attached"
    /\ plans' = [i \in 1..Len(store.operations) |-> CompileCompactPlan(store, i)]
    /\ phase' = "ready"
    /\ UNCHANGED <<pos, build, store, nextID, sdk, permissionless>> /\ Fixed

PlansInit == CatalogInit /\ plans = <<>>

PlansNext == \/ CatalogNext /\ UNCHANGED plans
             \/ CompileCompactPlans

-----------------------------------------------------------------------------
(* What the archive says, read without batches, spans or indexes *)

Flat(s) == FoldLeft(LAMBDA out, x : out \o x, <<>>, s)

\* How much of the archive parse has taken in.
APIsRead == IF phase = "apis" THEN pos ELSE Len(bundle.apis)
DefinitionsRead ==
    IF phase = "apis" THEN 0 ELSE IF phase = "definitions" THEN pos ELSE Len(bundle.definitions)
MappingsRead ==
    IF phase \in {"apis", "definitions", "sdk", "permissionless"} THEN 0
    ELSE IF phase = "mappings" THEN pos ELSE Len(bundle.mappings)

OperationsSaid ==
    Flat([i \in 1..APIsRead |->
        [j \in 1..Len(bundle.apis[i].operations) |->
            [service |-> bundle.apis[i].endpoint, name |-> bundle.apis[i].operations[j].key,
             agrees |-> bundle.apis[i].operations[j].name \in {"", bundle.apis[i].operations[j].key}]]])

DefinitionsSaid ==
    Flat([i \in 1..DefinitionsRead |->
        [j \in 1..Len(bundle.definitions[i].privileges) |->
            [service |-> bundle.definitions[i].prefix] @@ bundle.definitions[i].privileges[j]]])

MappingsSaid == Flat([i \in 1..MappingsRead |-> bundle.mappings[i].values])

DefinitionsOf(key) == SelectSeq(DefinitionsSaid, LAMBDA d : OperationKey(d.service, d.name) = key)

StateSaid(d) ==
    IF \/ Len(DefinitionsOf(OperationKey(d.service, d.name))) > 1
       \/ \E i, j \in DOMAIN d.resources : i # j /\ EqualFold(d.resources[i].name, d.resources[j].name)
    THEN "contradictory" ELSE IF d.unknown THEN "undocumented" ELSE "known"

KnownKey(key) == Len(DefinitionsOf(key)) = 1 /\ StateSaid(DefinitionsOf(key)[1]) = "known"

DependenciesOf(key) == Flat([i \in DOMAIN DefinitionsOf(key)[1].resources |-> DefinitionsOf(key)[1].resources[i].dependents])

\* The ways to reach target from the action key in at most n dependencies.
RECURSIVE Walks(_, _, _)
Walks(key, target, n) ==
    IF n = 0 \/ ~KnownKey(key) THEN 0
    ELSE Sum([i \in DOMAIN DependenciesOf(key) |->
                 LET d == DependenciesOf(key)[i]
                 IN  IF ~WellFormed(d) THEN 0
                     ELSE (IF ActionKey(d) = target THEN 1 ELSE 0) + Walks(ActionKey(d), target, n - 1)])

Depth == Len(DefinitionsSaid) + 1
KeysSaid == {OperationKey(d.service, d.name) : d \in ToSet(DefinitionsSaid)}

Defective ==
    \/ bundle.apis = <<>> \/ bundle.definitions = <<>> \/ bundle.mappings = <<>>
    \/ \E a \in ToSet(bundle.apis) : "" \in {a.endpoint, a.uid}
    \/ \E d \in ToSet(bundle.definitions) : d.prefix = "" \/ \E p \in ToSet(d.privileges) : p.name = ""
    \/ \E p \in ToSet(bundle.permissionless) : "" \in {p.service, p.operation}
    \/ \E e \in ToSet(bundle.mappings) : "" \in {e.service, e.operation} \/ \E v \in ToSet(e.values) : v.action = <<>>

\* Identifiers the whole archive needs.
Demand ==
    Len(Flat([i \in 1..Len(bundle.apis) |-> bundle.apis[i].operations]))
    + Sum([i \in 1..Len(bundle.definitions) |-> Sum([j \in 1..Len(bundle.definitions[i].privileges) |->
          LET r == bundle.definitions[i].privileges[j].resources
          IN  1 + Len(r) + Sum([k \in 1..Len(r) |-> Len(r[k].dependents)])])])
    + Sum([i \in 1..Len(bundle.mappings) |-> Sum([j \in 1..Len(bundle.mappings[i].values) |->
          1 + Len(bundle.mappings[i].values[j].resources) + Len(bundle.mappings[i].values[j].conditions)])])

-----------------------------------------------------------------------------
(* Properties *)

\* What the store and the graph not compacted yet hold against what was read.
EvidenceKept ==
    LET operations == Flat([i \in 1..Len(Services(store)) |-> Services(store)[i].operations])
        views == AllMappingOccurrences(store)
        waiting == build.mappings
        said == MappingsSaid
        told == DefinitionsSaid
    IN  IF phase = "failed" THEN Defective \/ Demand > bound
        ELSE /\ Len(Services(store)) = APIsRead
             /\ Len(operations) = Len(OperationsSaid)
             /\ \A i \in DOMAIN operations :
                   /\ operations[i].name = OperationsSaid[i].name /\ operations[i].service = OperationsSaid[i].service
                   /\ (operations[i].state = "known") = OperationsSaid[i].agrees
             /\ Len(Actions(store)) = Len(told)
             /\ \A i \in DOMAIN told :
                   LET a == Actions(store)[i]
                   IN  /\ a.service = told[i].service /\ a.name = told[i].name
                       /\ a.state = StateSaid(told[i]) /\ a.resources = told[i].resources
             /\ Len(views) + Len(waiting) = Len(said)
             /\ \A i \in DOMAIN views :
                   /\ views[i].action = said[i].action
                   /\ views[i].condition = said[i].condition /\ views[i].override = said[i].override
                   /\ views[i].resources = said[i].resources
                   /\ views[i].conditions = [j \in 1..Len(said[i].conditions) |->
                                                <<said[i].conditions[j], said[i].conditions[j]>>]
             /\ \A i \in DOMAIN waiting : waiting[i].action = said[Len(views) + i].action
             /\ nextID <= bound
             /\ Cardinality({o.occurrence : o \in ToSet(operations)} \cup {a.occurrence : a \in ToSet(store.actions)}
                            \cup {r.occurrence : r \in ToSet(store.resources)}
                            \cup {d.occurrence : d \in ToSet(store.dependents)}
                            \cup {m.occurrence : m \in ToSet(store.mappings)}
                            \cup {r.occurrence : r \in ToSet(store.mappingResources)})
                  = Len(operations) + Len(store.actions) + Len(store.resources) + Len(store.dependents)
                    + Len(store.mappings) + Len(store.mappingResources)

\* An entry of the archive that each attached mapping comes from.
MappingsBelong ==
    phase \in {"attached", "ready"} =>
        \A i \in DOMAIN store.services : \A p \in ToSet(store.serviceOps[i]) :
           LET aliases == {Lower[a] : a \in ToSet(store.services[i].aliases)}
               name == store.operations[p.operation].name
           IN  \A j \in ToSet(MappingIndexes(store.operations[p.operation].mappings)) :
                 \E e \in DOMAIN bundle.mappings :
                    LET before == Len(Flat([k \in 1..(e - 1) |-> bundle.mappings[k].values]))
                        service == bundle.mappings[e].service
                    IN  /\ j \in before + 1 .. before + Len(bundle.mappings[e].values)
                        /\ EqualFold(bundle.mappings[e].operation, name)
                        /\ \/ Lower[service] \in aliases
                           \/ \E s \in ToSet(At(sdk, Lower[service])) : Lower[s] \in aliases

\* Whatever batches parse compacts the decoded graph in, the store and the graph
\* not compacted yet together hold exactly the evidence read so far, in source
\* order: every operation, every definition with the state its duplicates give
\* it, every mapping with its own resources and conditions, each under an
\* identifier of its own. The consistency checks of parse never fire: it fails
\* on a defect of the archive, or when the identifiers run out, and not otherwise.
\* Every mapping attached to an operation comes from an entry of the archive that
\* names this operation, by an alias of its own model or by an SDK name that stands
\* for one: no batch boundary hands an operation the mappings of another.
StoreHoldsEvidence == EvidenceKept /\ MappingsBelong

\* A lookup by name answers only when the archive leaves no doubt. Action finds
\* an action exactly when it has one definition that nothing contradicts;
\* Operation finds an operation exactly when one model known by that alias has it;
\* a mapping counts as known exactly when its action has one known definition.
LookupsFailClosed ==
    phase \in {"attached", "ready"} =>
        /\ \A key \in KeysSaid \cup {ActionKey(m.action) : m \in {v \in ToSet(MappingsSaid) : WellFormed(v.action)}} :
              LET found == DefinitionsOf(key)
              IN  (Action(store, key) # None) <=> (Len(found) = 1 /\ StateSaid(found[1]) # "contradictory")
        /\ \A m \in ToSet(store.mappings) :
              (m.state = "known") <=> (WellFormed(m.action) /\ KnownKey(ActionKey(m.action)))
        /\ \A alias \in UNION {{a.endpoint, a.id, a.fullName, a.uid} \ {""} : a \in ToSet(bundle.apis)} :
           \A o \in ToSet(OperationsSaid) :
              LET models == {i \in DOMAIN store.services : \E x \in ToSet(store.services[i].aliases) : EqualFold(x, alias)}
                  having == {<<i, j>> \in models \X (1..Len(OperationsSaid)) :
                                j <= Len(bundle.apis[i].operations) /\ EqualFold(bundle.apis[i].operations[j].key, o.name)}
              IN  (Operation(store, alias, o.name) # None) <=> (Cardinality(having) = 1)

\* A plan has no diagnostic exactly when the evidence agrees with itself: the
\* operation and all its mappings are known; so is every action that a dependency
\* reaches, and none reaches itself; and the operation has one mapping for each
\* primary action and for each way the dependencies of a primary reach an action,
\* neither more nor fewer. A bounded traversal and a bounded list of diagnostics
\* can only turn a plan down.
PlanIsExact ==
    phase = "ready" =>
        \A i \in DOMAIN plans :
            LET o == store.operations[i]
                mapped == [j \in DOMAIN MappingIndexes(o.mappings) |-> store.mappings[MappingIndexes(o.mappings)[j]].action]
                keys == {ActionKey(a) : a \in {b \in ToSet(mapped) : WellFormed(b)}}
                reached == {k \in KeysSaid : \E r \in keys : r = k \/ Walks(r, k, Depth) > 0}
                dependencies == UNION {ToSet(DependenciesOf(k)) : k \in {r \in reached : KnownKey(r)}}
                times(k) == Len(SelectSeq(mapped, LAMBDA a : ActionKey(a) = k))
                primary(k) == \A r \in keys : \A d \in ToSet(DependenciesOf(r)) : ActionKey(d) # k
                needed(k) == Sum([j \in DOMAIN mapped |->
                                 IF ~primary(ActionKey(mapped[j])) THEN 0
                                 ELSE (IF ActionKey(mapped[j]) = k THEN 1 ELSE 0) + Walks(ActionKey(mapped[j]), k, Depth)])
                agrees == /\ o.state = "known" /\ o.mappingState = "known" /\ mapped # <<>>
                          /\ \A a \in ToSet(mapped) : WellFormed(a) /\ KnownKey(ActionKey(a))
                          /\ \A d \in dependencies : WellFormed(d) /\ KnownKey(ActionKey(d))
                          /\ \A k \in reached : Walks(k, k, Depth) = 0
                          /\ \A k \in reached : times(k) = needed(k)
                cut == \E d \in ToSet(plans[i].diagnostics) : d.detail = "traversal"
            IN  /\ plans[i].diagnostics = <<>> => agrees
                /\ agrees => plans[i].diagnostics = <<>> \/ cut
                /\ Len(plans[i].diagnostics) <= MaxPlanDiagnostics

=============================================================================
