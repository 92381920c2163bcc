------------------------------- MODULE Catalog -------------------------------
(***************************************************************************)
(* The evidence catalogue (internal/iamlivecatalog/catalog.go): parse reads *)
(* an archive of API models, action definitions and operation mappings and  *)
(* compacts what it has decoded, batch by batch, into one store of flat     *)
(* arrays and indexes that the accessors read.                              *)
(*                                                                         *)
(* A name is a string, Lower gives its lower-case form and "" is a missing  *)
(* one. An action "service:name" is the sequence of its parts, so that one  *)
(* without a colon has length 1 and an absent one length 0. Interned        *)
(* strings, routes, shapes, ARN templates and conditions are carried as     *)
(* values; every array, span and index the loader rebases is kept. A span   *)
(* [start, count] names the elements start+1 .. start+count.                *)
(***************************************************************************)
EXTENDS Integers, FiniteSets, SequencesExt

CONSTANTS
    Bundles,            \* the archives parse may be given
    Lower,              \* Lower[n]: the lower-case form of the name n
    BatchSizes,         \* decoded mappings that trigger a compaction (512)
    ItemBounds          \* evidence identifiers there are (maxCatalogItems)

VARIABLES
    bundle, batch, bound,   \* the archive and the two limits, fixed from the start
    phase,                  \* the part of parse that runs
    pos,                    \* entries of the current part already read
    build,                  \* the decoded graph not compacted yet
    store,                  \* compactStore
    nextID,                 \* nextEvidenceID
    sdk,                    \* sdkToService: SDK name -> services, in map order
    permissionless          \* operation keys that need no permission

catalogVars == <<bundle, batch, bound, phase, pos, build, store, nextID, sdk, permissionless>>

-----------------------------------------------------------------------------
(* Helpers *)

EqualFold(a, b) == Lower[a] = Lower[b]
OperationKey(service, operation) == <<Lower[service], Lower[operation]>>
ActionKey(action) == <<Lower[action[1]], Lower[action[2]]>>

At(f, k) == IF k \in DOMAIN f THEN f[k] ELSE <<>>
AddAt(f, k, x) == [key \in DOMAIN f \cup {k} |-> IF key = k THEN Append(At(f, k), x) ELSE f[key]]

ValidSpan(span, length) == span.start + span.count <= length
Slice(s, span) == SubSeq(s, span.start + 1, span.start + span.count)
Sum(s) == FoldLeft(LAMBDA total, n : total + n, 0, s)

UniqueStrings(in) ==
    FoldLeft(LAMBDA out, x : IF x = "" \/ \E y \in ToSet(out) : EqualFold(x, y) THEN out ELSE Append(out, x),
             <<>>, in)

EmptyBuild == [services |-> <<>>, mappings |-> <<>>, mappingIndex |-> <<>>, mappingOrder |-> <<>>,
               actions |-> <<>>, actionOrder |-> <<>>]
EmptyStore == [services |-> <<>>, operations |-> <<>>, serviceOps |-> <<>>, occurrences |-> <<>>,
               mappings |-> <<>>, mappingIndex |-> <<>>, mappingOrder |-> <<>>,
               mappingResources |-> <<>>, mapPairs |-> <<>>,
               actions |-> <<>>, actionIndex |-> <<>>, actionOrder |-> <<>>,
               resources |-> <<>>, dependents |-> <<>>]

-----------------------------------------------------------------------------
(* Compaction *)

AppendOperation(s, service, operation) ==
    LET index == Len(s.operations) + 1
        position == [operation |-> index, occurrence |-> operation.occurrence]
    IN  [s EXCEPT !.operations = Append(@, operation),
                  !.serviceOps[Len(s.serviceOps)] = Append(@, position),
                  !.occurrences = AddAt(@, OperationKey(service.endpoint, operation.name), position)]

CompactServices(b, s) ==
    FoldLeft(LAMBDA acc, service :
                 FoldLeft(LAMBDA t, operation : AppendOperation(t, service, operation),
                          [acc EXCEPT !.services = Append(@, [key |-> service.key, endpoint |-> service.endpoint,
                                                              aliases |-> service.aliases]),
                                      !.serviceOps = Append(@, <<>>)],
                          service.operations),
             s, b.services)

\* The resources of a mapping and the resources of its condition mappings share
\* one array; a condition mapping reaches its own through its map pair.
AppendMapping(s, m) ==
    LET resources == [start |-> Len(s.mappingResources), count |-> Len(m.resources)]
        pairs == [start |-> Len(s.mapPairs), count |-> Len(m.conditions)]
        after == resources.start + resources.count
    IN  [s EXCEPT
           !.mappingResources = @ \o m.resources \o m.conditions,
           !.mapPairs = @ \o [i \in 1..Len(m.conditions) |->
                                 [key |-> m.conditions[i].parameter, resource |-> after + i]],
           !.mappings = Append(@, [occurrence |-> m.occurrence, action |-> m.action, state |-> m.state,
                                   condition |-> m.condition, override |-> m.override, resources |-> resources,
                                   conditionMappings |-> pairs])]

(* Mutant: the spans of an operation keep their start in the batch. *)
CompactMappingsUnrebased(b, s) ==
    LET base == Len(s.mappings)
        indexed == [s EXCEPT
           !.mappingIndex = [k \in DOMAIN s.mappingIndex \cup DOMAIN b.mappingIndex |->
                                 At(s.mappingIndex, k) \o At(b.mappingIndex, k)],
           !.mappingOrder = @ \o [i \in 1..Len(b.mappingOrder) |->
                                     [b.mappingOrder[i] EXCEPT !.storeIndex = @ + base]]]
    IN  FoldLeft(AppendMapping, indexed, b.mappings)

CompactMappings(b, s) ==
    LET base == Len(s.mappings)
        rebased(spans) == [i \in 1..Len(spans) |-> [spans[i] EXCEPT !.start = @ + base]]
        indexed == [s EXCEPT
           !.mappingIndex = [k \in DOMAIN s.mappingIndex \cup DOMAIN b.mappingIndex |->
                                 At(s.mappingIndex, k) \o rebased(At(b.mappingIndex, k))],
           !.mappingOrder = @ \o [i \in 1..Len(b.mappingOrder) |->
                                     [b.mappingOrder[i] EXCEPT !.storeIndex = @ + base]]]
    IN  FoldLeft(AppendMapping, indexed, b.mappings)

AppendResource(s, r) ==
    [s EXCEPT !.dependents = @ \o r.dependents,
              !.resources = Append(@, [occurrence |-> r.occurrence, name |-> r.name,
                                       dependentIDs |-> [i \in 1..Len(r.dependents) |-> r.dependents[i].occurrence],
                                       dependents |-> [start |-> Len(s.dependents), count |-> Len(r.dependents)]])]

\* acc.added[key]: the store indexes this batch gave the definitions of key.
AppendAction(b, acc, position) ==
    LET d == b.actions[position.key][position.index]
        index == Len(acc.s.actions) + 1
        grown == FoldLeft(AppendResource, acc.s, d.resources)
    IN  [added |-> AddAt(acc.added, position.key, index),
         s |-> [grown EXCEPT
                  !.actions = Append(@, [occurrence |-> d.occurrence, service |-> d.service, name |-> d.name,
                                         state |-> d.state,
                                         resources |-> [start |-> Len(acc.s.resources), count |-> Len(d.resources)]]),
                  !.actionIndex = AddAt(@, position.key, [action |-> index, occurrence |-> d.occurrence])]]

CompactActions(b, s) ==
    LET acc == FoldLeft(LAMBDA a, position : AppendAction(b, a, position), [added |-> <<>>, s |-> s], b.actionOrder)
        ordered == [i \in 1..Len(b.actionOrder) |->
                       LET p == b.actionOrder[i]
                           index == acc.added[p.key][p.index]
                       IN  [action |-> index, occurrence |-> acc.s.actions[index].occurrence]]
    IN  [acc.s EXCEPT !.actionOrder = @ \o ordered]

CompactEvidence(b, s) == CompactActions(b, CompactMappings(b, CompactServices(b, s)))

\* The checks compactEvidence makes of the graph it is about to convert.
Compactable(b) ==
    /\ \A k \in DOMAIN b.mappingIndex : \A span \in ToSet(b.mappingIndex[k]) : ValidSpan(span, Len(b.mappings))
    /\ \A p \in ToSet(b.mappingOrder) : p.storeIndex <= Len(b.mappings)
    /\ \A p \in ToSet(b.actionOrder) : p.index \in 1..Len(At(b.actions, p.key))

-----------------------------------------------------------------------------
(* Decoding one entry *)

\* addAPI. The key of a model whose UID is taken is prefixed by its directory.
ServiceOf(api, s, next) ==
    LET taken == \E service \in ToSet(s.services) : EqualFold(service.key, api.uid)
        key == IF taken THEN api.dirKey ELSE api.uid
    IN  [key |-> key, endpoint |-> api.endpoint,
         aliases |-> UniqueStrings(<<api.endpoint, api.id, api.fullName, key>>),
         operations |-> [i \in 1..Len(api.operations) |->
             LET o == api.operations[i]
             IN  [occurrence |-> next + i, service |-> api.endpoint, name |-> o.key,
                  state |-> IF o.name \in {"", o.key} THEN "known" ELSE "contradictory",
                  mappingState |-> "", mappings |-> <<>>]]]

ResourcesOf(privilege, next) ==
    FoldLeft(LAMBDA acc, r :
                 [next |-> acc.next + 1 + Len(r.dependents),
                  out |-> Append(acc.out,
                      [occurrence |-> acc.next + 1, name |-> r.name,
                       dependents |-> [i \in 1..Len(r.dependents) |->
                           [occurrence |-> acc.next + 1 + i, action |-> r.dependents[i]]]])],
             [next |-> next, out |-> <<>>], privilege.resources)

\* One privilege of addDefinition: a second definition of an action makes every
\* record of it contradictory, those compacted already included.
AddPrivilege(acc, prefix, privilege) ==
    LET k == <<Lower[prefix], Lower[privilege.name]>>
        typed == ResourcesOf(privilege, acc.next + 1)
        repeated == \E i, j \in DOMAIN privilege.resources :
                        i # j /\ EqualFold(privilege.resources[i].name, privilege.resources[j].name)
        prior == At(acc.b.actions, k)
        compactPrior == {p.action : p \in ToSet(At(acc.s.actionIndex, k))}
        duplicate == prior # <<>> \/ compactPrior # {}
        state == IF repeated \/ duplicate THEN "contradictory"
                 ELSE IF privilege.unknown THEN "undocumented" ELSE "known"
        definition == [occurrence |-> acc.next + 1, service |-> prefix, name |-> privilege.name,
                       state |-> state, resources |-> typed.out]
        spoiled == [i \in 1..Len(prior) |-> [prior[i] EXCEPT !.state = "contradictory"]]
    IN  [ok |-> acc.ok /\ privilege.name # "",
         next |-> typed.next,
         b |-> [acc.b EXCEPT
                  !.actions = [key \in DOMAIN acc.b.actions \cup {k} |->
                                  IF key = k THEN Append(spoiled, definition) ELSE acc.b.actions[key]],
                  !.actionOrder = Append(@, [key |-> k, index |-> Len(prior) + 1])],
         s |-> [acc.s EXCEPT
                  !.actions = [i \in 1..Len(acc.s.actions) |->
                                  IF i \in compactPrior THEN [acc.s.actions[i] EXCEPT !.state = "contradictory"]
                                  ELSE acc.s.actions[i]]]]

AddDefinition(d) ==
    FoldLeft(LAMBDA acc, privilege : AddPrivilege(acc, d.prefix, privilege),
             [ok |-> d.prefix # "", next |-> nextID, b |-> build, s |-> store], d.privileges)

\* The state a mapping takes from the definitions of its action.
MappedState(s, action) ==
    LET definitions == IF Len(action) = 2 THEN At(s.actionIndex, ActionKey(action)) ELSE <<>>
    IN  CASE Len(action) # 2 -> "contradictory"
          [] Len(action) = 2 /\ Len(definitions) = 0 -> "absent"
          [] Len(definitions) = 1 -> s.actions[definitions[1].action].state
          [] OTHER -> "contradictory"

Identified(parameters, next) ==
    [i \in 1..Len(parameters) |-> [occurrence |-> next + i, parameter |-> parameters[i]]]

\* convertMapping and assignMappingIDs for each mapping of one entry, in order.
MappingsOf(values, s, next) ==
    FoldLeft(LAMBDA acc, v :
                 LET id == acc.next + 1
                     conditions == id + Len(v.resources)
                 IN  [next |-> conditions + Len(v.conditions),
                      out |-> Append(acc.out,
                          [occurrence |-> id, action |-> v.action, state |-> MappedState(s, v.action),
                           condition |-> v.condition, override |-> v.override,
                           resources |-> Identified(v.resources, id),
                           conditions |-> Identified(v.conditions, conditions)])],
             [next |-> next, out |-> <<>>], values)

\* hasOperationKey once the operation index is dropped: a scan of the services.
HasOperationKey(s, key) ==
    \E i \in DOMAIN s.services :
        /\ \E alias \in ToSet(s.services[i].aliases) : Lower[alias] = key[1]
        /\ \E p \in ToSet(s.serviceOps[i]) : Lower[s.operations[p.operation].name] = key[2]

\* The first service, the entry's own and then the SDK's, that has the operation.
MatchedKeys(s, service, operation) ==
    LET candidates == <<service>> \o At(sdk, Lower[service])
        keys == [i \in 1..Len(candidates) |-> OperationKey(candidates[i], operation)]
    IN  SelectSeq(keys, LAMBDA key : HasOperationKey(s, key))

-----------------------------------------------------------------------------
(* Attaching mappings to operations *)

SpansFor(s, service, name) ==
    FoldLeft(LAMBDA acc, alias :
                 IF acc.count > 0 THEN acc
                 ELSE LET spans == At(s.mappingIndex, OperationKey(alias, name))
                      IN  [spans |-> acc.spans \o spans,
                           count |-> Sum([i \in 1..Len(spans) |-> spans[i].count])],
             [spans |-> <<>>, count |-> 0], service.aliases)

MappingStateOf(s, spans, count, free) ==
    LET states == UNION {{s.mappings[i].state : i \in span.start + 1 .. span.start + span.count} :
                            span \in ToSet(spans)}
    IN  CASE free -> "permissionless"
          [] ~free /\ count = 0 -> "absent"
          [] ~free /\ count > 0 /\ states = {"absent"} -> "absent"
          [] ~free /\ count > 0 /\ "contradictory" \in states -> "contradictory"
          [] OTHER -> "known"

AttachMappings(s) ==
    LET owner(i) == CHOOSE j \in DOMAIN s.serviceOps : \E p \in ToSet(s.serviceOps[j]) : p.operation = i
        attached(i) ==
            LET service == s.services[owner(i)]
                found == SpansFor(s, service, s.operations[i].name)
                free == OperationKey(service.endpoint, s.operations[i].name) \in permissionless
            IN  [s.operations[i] EXCEPT !.mappings = found.spans,
                                        !.mappingState = MappingStateOf(s, found.spans, found.count, free)]
    IN  [s EXCEPT !.operations = [i \in 1..Len(s.operations) |-> attached(i)]]

-----------------------------------------------------------------------------
(* parse *)

CatalogInit ==
    /\ bundle \in Bundles
    /\ batch \in BatchSizes
    /\ bound \in ItemBounds
    /\ phase = "apis"
    /\ pos = 0
    /\ build = EmptyBuild
    /\ store = EmptyStore
    /\ nextID = 0
    /\ sdk = <<>>
    /\ permissionless = {}

Fixed == UNCHANGED <<bundle, batch, bound>>

\* parse returns an error and no catalogue.
LoadFails == phase' = "failed" /\ UNCHANGED <<pos, build, store, nextID, sdk, permissionless>> /\ Fixed

ReadAPI ==
    /\ phase = "apis" /\ pos < Len(bundle.apis)
    /\ LET api == bundle.apis[pos + 1]
           b == [build EXCEPT !.services = Append(@, ServiceOf(api, store, nextID))]
       IN  IF api.endpoint = "" \/ api.uid = "" \/ nextID + Len(api.operations) > bound
           THEN LoadFails
           ELSE /\ store' = CompactEvidence(b, store)
                /\ build' = EmptyBuild
                /\ nextID' = nextID + Len(api.operations)
                /\ pos' = pos + 1
                /\ UNCHANGED <<phase, sdk, permissionless>> /\ Fixed

EndAPIs ==
    /\ phase = "apis" /\ pos = Len(bundle.apis)
    /\ IF bundle.apis = <<>> THEN LoadFails
       ELSE /\ phase' = "definitions" /\ pos' = 0
            /\ UNCHANGED <<build, store, nextID, sdk, permissionless>> /\ Fixed

ReadDefinition ==
    /\ phase = "definitions" /\ pos < Len(bundle.definitions)
    /\ LET added == AddDefinition(bundle.definitions[pos + 1])
       IN  IF ~added.ok \/ added.next > bound \/ ~Compactable(added.b) THEN LoadFails
           ELSE /\ store' = CompactEvidence(added.b, added.s)
                /\ build' = EmptyBuild
                /\ nextID' = added.next
                /\ pos' = pos + 1
                /\ UNCHANGED <<phase, sdk, permissionless>> /\ Fixed

EndDefinitions ==
    /\ phase = "definitions" /\ pos = Len(bundle.definitions)
    /\ IF bundle.definitions = <<>> THEN LoadFails
       ELSE /\ phase' = "sdk" /\ pos' = 0
            /\ UNCHANGED <<build, store, nextID, sdk, permissionless>> /\ Fixed

\* service_sdk_mappings is a Go map: the services that share an SDK name come in
\* whichever order the iteration takes.
ReadSDKNames ==
    /\ phase = "sdk"
    /\ \E order \in {f \in [DOMAIN bundle.sdk -> DOMAIN bundle.sdk] : Cardinality({f[i] : i \in DOMAIN f}) = Len(bundle.sdk)} :
          sdk' = FoldLeft(LAMBDA acc, i :
                              FoldLeft(LAMBDA a, name : AddAt(a, Lower[name], bundle.sdk[order[i]].service),
                                       acc, bundle.sdk[order[i]].names),
                          <<>>, [i \in 1..Len(bundle.sdk) |-> i])
    /\ phase' = "permissionless"
    /\ UNCHANGED <<pos, build, store, nextID, permissionless>> /\ Fixed

ReadPermissionless ==
    /\ phase = "permissionless"
    /\ IF \E p \in ToSet(bundle.permissionless) : p.service = "" \/ p.operation = "" THEN LoadFails
       ELSE /\ permissionless' = {Head(MatchedKeys(store, p.service, p.operation)) :
                                    p \in {q \in ToSet(bundle.permissionless) :
                                              MatchedKeys(store, q.service, q.operation) # <<>>}}
            /\ phase' = "mappings"
            /\ UNCHANGED <<pos, build, store, nextID, sdk>> /\ Fixed

\* One key of sdk_method_iam_mappings. Its mappings keep their place in the
\* evidence even when no operation matches the key.
ReadMappings ==
    /\ phase = "mappings" /\ pos < Len(bundle.mappings)
    /\ LET entry == bundle.mappings[pos + 1]
           start == Len(build.mappings)
           read == MappingsOf(entry.values, store, nextID)
           matched == MatchedKeys(store, entry.service, entry.operation)
           span == [start |-> start, count |-> Len(entry.values)]
           b == [build EXCEPT
                   !.mappings = @ \o read.out,
                   !.mappingOrder = @ \o [i \in 1..Len(read.out) |->
                                             [storeIndex |-> start + i, occurrence |-> read.out[i].occurrence]],
                   !.mappingIndex = IF matched = <<>> THEN @ ELSE AddAt(@, Head(matched), span)]
           full == Len(b.mappings) >= batch
       IN  IF \/ Len(store.mappings) + Len(b.mappings) > bound
              \/ read.next > bound
              \/ \E v \in ToSet(entry.values) : v.action = <<>>
              \/ entry.service = "" \/ entry.operation = ""
              \/ full /\ ~Compactable(b)
           THEN LoadFails
           ELSE /\ store' = IF full THEN CompactEvidence(b, store) ELSE store
                /\ build' = IF full THEN EmptyBuild ELSE b
                /\ nextID' = read.next
                /\ pos' = pos + 1
                /\ UNCHANGED <<phase, sdk, permissionless>> /\ Fixed

EndMappings ==
    /\ phase = "mappings" /\ pos = Len(bundle.mappings)
    /\ IF bundle.mappings = <<>> \/ ~Compactable(build) THEN LoadFails
       ELSE /\ store' = AttachMappings(CompactEvidence(build, store))
            /\ build' = EmptyBuild
            /\ permissionless' = {}
            /\ phase' = "attached"
            /\ UNCHANGED <<pos, nextID, sdk>> /\ Fixed

CatalogNext ==
    \/ ReadAPI \/ EndAPIs \/ ReadDefinition \/ EndDefinitions
    \/ ReadSDKNames \/ ReadPermissionless \/ ReadMappings \/ EndMappings

=============================================================================
