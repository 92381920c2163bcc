---------------------------- MODULE PolicyEngine ----------------------------
(***************************************************************************)
(* One call of Engine.Evaluate of internal/policy/engine.go on an immutable *)
(* snapshot of rules, while the caller may cancel the context.  The code    *)
(* visits requirements, resources and rules in sorted order; the model in   *)
(* any order, which is more than the code does, so that the decision is     *)
(* shown not to depend on the order.  A glob is the set of the values it    *)
(* matches (Glob models the matching itself).                               *)
(***************************************************************************)
EXTENDS Integers, FiniteSets, Sequences

CONSTANTS
    Policies,           \* the source policies given to NewEngine, sets of rules
    Inputs,             \* the inputs given to Evaluate
    Ids, Actions, Resources,
    Partitions, Regions, Accounts,
    None,               \* the empty field of an ARN, the region of a global endpoint
    ActionGlob,         \* action patterns and the actions they match
    ResourceGlob,       \* resource patterns and the resources they match
    Star,               \* the resource pattern "*"
    MaxPolicyRules, MaxRequirements, MaxEvaluationCombos,
    CheckEvery          \* rules between two looks at the context, 64 in the code

Scopes == {"exact", "set", "known_global", "unresolved"}

Rule == [id : Ids, effect : {"allow", "deny"},
         actions : SUBSET DOMAIN ActionGlob, resources : SUBSET DOMAIN ResourceGlob,
         regions : SUBSET Regions, accounts : SUBSET Accounts,
         partitions : SUBSET Partitions, wildcard : BOOLEAN]

Requirement == [action : Actions, resources : SUBSET Resources, scope : Scopes,
                dependent : BOOLEAN]

(* wellFormed: DecisionInput.Validate accepts it; hashAgrees: it names this  *)
(* snapshot; consistent: its text, and its endpoint and request, agree.      *)
Input == [wellFormed : BOOLEAN, hashAgrees : BOOLEAN, consistent : BOOLEAN,
          confidence : {"high", "low"}, requirements : Seq(Requirement),
          partition : Partitions, region : Regions \cup {None},
          account : Accounts \cup {None}]

ASSUME PoliciesAssumption == Policies \subseteq SUBSET Rule
ASSUME InputsAssumption == Inputs \subseteq Input
ASSUME ResourcesAssumption ==
    \A resource \in Resources :
        /\ resource.kind \in {"arn", "star", "other"}
        /\ resource.partition \in Partitions \cup {None}
        /\ resource.region \in Regions \cup {None}
        /\ resource.account \in Accounts \cup {None}
ASSUME GlobAssumption ==
    /\ \A g \in DOMAIN ActionGlob : ActionGlob[g] \subseteq Actions
    /\ \A g \in DOMAIN ResourceGlob : ResourceGlob[g] \subseteq Resources
    /\ Star \in DOMAIN ResourceGlob /\ ResourceGlob[Star] = Resources
ASSUME NoneAssumption == None \notin Partitions \cup Regions \cup Accounts
ASSUME BoundsAssumption == CheckEvery \in Nat \ {0}

VARIABLES
    rules, input,
    pc,                 \* "check", "resource", "rules", "done"
    cancelled,          \* ctx.Err() # nil
    todo,               \* the pairs of requirement and resource still to visit
    pair,               \* the pair being visited
    left,               \* the rules still to be tried on it
    covered, sawUnacknowledged,
    wildcardMissing, uncovered, explicitDeny,
    matched,            \* ids of rules
    reason,             \* of the decision; the result is allow for one of them
    late                \* rules tried since the context was cancelled

loopVars == <<todo, pair, left, covered, sawUnacknowledged>>
flagVars == <<wildcardMissing, uncovered, explicitDeny, matched>>
vars == <<rules, input, pc, cancelled, loopVars, flagVars, reason, late>>

Reasons == {"internal_fail_closed", "mapping_low_confidence", "resource_unresolved",
            "dependent_permission_unresolved", "explicit_deny",
            "aws_required_wildcard_not_approved", "policy_no_matching_allow",
            "all_requirements_allowed"}

Allowed == pc = "done" /\ reason = "all_requirements_allowed"

-----------------------------------------------------------------------------
(* The rules of a policy that NewEngine accepts. *)
compileRule(rule) ==
    /\ rule.effect = "deny" => ~rule.wildcard
    /\ rule.actions # {} /\ rule.resources # {}

NewEngine(policy) ==
    /\ \A rule \in policy : compileRule(rule)
    /\ \A r, s \in policy : r.id = s.id => r = s
    /\ Cardinality(policy) <= MaxPolicyRules

(* Every resource of every requirement is to be approved. *)
Pairs == {x \in (DOMAIN input.requirements) \X Resources :
             x[2] \in input.requirements[x[1]].resources}

NoPair == <<0, None>>

requirementOf(x) == input.requirements[x[1]]

constraintMatches(values, value) == values = {} \/ value \in values

(* The fields of an ARN are authoritative, "*" has the context of the        *)
(* request, and what is neither satisfies no constraint.                     *)
scopeMatches(rule, x) ==
    LET resource == x[2] IN
    CASE resource.kind = "arn" ->
            /\ resource.partition = input.partition
            /\ resource.region \in {None, input.region}
            /\ constraintMatches(rule.regions, resource.region)
            /\ constraintMatches(rule.accounts, resource.account)
            /\ constraintMatches(rule.partitions, resource.partition)
      [] resource.kind = "star" /\ requirementOf(x).scope = "known_global" ->
            /\ constraintMatches(rule.regions, input.region)
            /\ constraintMatches(rule.accounts, input.account)
            /\ constraintMatches(rule.partitions, input.partition)
      [] OTHER -> rule.regions = {} /\ rule.accounts = {} /\ rule.partitions = {}

ruleMatches(rule, x) ==
    /\ \E g \in rule.actions : requirementOf(x).action \in ActionGlob[g]
    /\ \E g \in rule.resources : x[2] \in ResourceGlob[g]
    /\ scopeMatches(rule, x)

ruleHasLiteralStar(rule) == Star \in rule.resources

(* What the rule says of a pair that it matches. *)
acknowledges(rule, x) ==
    requirementOf(x).scope = "known_global" => rule.wildcard /\ ruleHasLiteralStar(rule)

-----------------------------------------------------------------------------
Init ==
    /\ rules \in {policy \in Policies : NewEngine(policy)}
    /\ input \in Inputs
    /\ pc = "check"
    /\ cancelled \in BOOLEAN
    /\ todo = {} /\ pair = NoPair /\ left = {}
    /\ covered = FALSE /\ sawUnacknowledged = FALSE
    /\ wildcardMissing = FALSE /\ uncovered = FALSE /\ explicitDeny = FALSE
    /\ matched = {}
    /\ reason = "internal_fail_closed"
    /\ late = 0

Return(why) ==
    /\ pc' = "done"
    /\ reason' = why

Valid == input.wellFormed /\ input.hashAgrees

validateEvaluationInput ==
    /\ input.consistent
    /\ Len(input.requirements) \in 1..MaxRequirements
    /\ Cardinality(Pairs) <= MaxEvaluationCombos

Unresolved == {q \in DOMAIN input.requirements : input.requirements[q].scope = "unresolved"}

UnresolvedReason(q) ==
    IF input.requirements[q].dependent
      THEN "dependent_permission_unresolved"
      ELSE "resource_unresolved"

(* From the entry of Evaluate to the loop over the requirements.  Of several  *)
(* unresolved requirements the first in sorted order gives the reason.        *)
Check ==
    /\ pc = "check"
    /\ IF cancelled \/ ~Valid
         THEN Return("internal_fail_closed") /\ UNCHANGED todo
       ELSE IF input.confidence # "high"
         THEN Return("mapping_low_confidence") /\ UNCHANGED todo
       ELSE IF ~validateEvaluationInput
         THEN Return("internal_fail_closed") /\ UNCHANGED todo
       ELSE IF Unresolved # {}
         THEN (\E q \in Unresolved : Return(UnresolvedReason(q))) /\ UNCHANGED todo
         ELSE todo' = Pairs /\ pc' = "resource" /\ UNCHANGED reason
    /\ UNCHANGED <<rules, input, cancelled, pair, left, covered, sawUnacknowledged, flagVars, late>>

(* Mutant: what was found for the last resource is kept. *)
NextResourceKeepsCovered ==
    /\ pc = "resource" /\ todo # {}
    /\ IF cancelled
         THEN Return("internal_fail_closed") /\ UNCHANGED loopVars
         ELSE \E x \in todo :
                /\ pair' = x
                /\ todo' = todo \ {x}
                /\ left' = rules
                /\ sawUnacknowledged' = FALSE
                /\ pc' = "rules"
                /\ UNCHANGED <<covered, reason>>
    /\ UNCHANGED <<rules, input, cancelled, flagVars, late>>

NextResource ==
    /\ pc = "resource" /\ todo # {}
    /\ IF cancelled
         THEN Return("internal_fail_closed") /\ UNCHANGED loopVars
         ELSE \E x \in todo :
                /\ pair' = x
                /\ todo' = todo \ {x}
                /\ left' = rules
                /\ covered' = FALSE
                /\ sawUnacknowledged' = FALSE
                /\ pc' = "rules"
                /\ UNCHANGED reason
    /\ UNCHANGED <<rules, input, cancelled, flagVars, late>>

(* One rule on the pair being visited. *)
Try(rule) ==
    LET hit == ruleMatches(rule, pair)
        allows == hit /\ rule.effect = "allow"
    IN  /\ left' = left \ {rule}
        /\ matched' = IF hit THEN matched \cup {rule.id} ELSE matched
        /\ explicitDeny' = (explicitDeny \/ (hit /\ rule.effect = "deny"))
        /\ covered' = (covered \/ (allows /\ acknowledges(rule, pair)))
        /\ sawUnacknowledged' = (sawUnacknowledged \/ (allows /\ ~acknowledges(rule, pair)))

ruleIndex == Cardinality(rules \ left)

ScanRule ==
    /\ pc = "rules"
    /\ left # {}
    /\ IF ruleIndex % CheckEvery = 0 /\ cancelled
         THEN /\ Return("internal_fail_closed")
              /\ UNCHANGED <<left, covered, sawUnacknowledged, explicitDeny, matched, late>>
         ELSE \E rule \in left :
                /\ Try(rule)
                /\ late' = IF cancelled THEN late + 1 ELSE late
                /\ UNCHANGED <<pc, reason>>
    /\ UNCHANGED <<rules, input, cancelled, todo, pair, wildcardMissing, uncovered>>

(* All rules have been tried on the resource. *)
ResourceEnd ==
    /\ pc = "rules" /\ left = {}
    /\ wildcardMissing' = (wildcardMissing \/ (~covered /\ sawUnacknowledged))
    /\ uncovered' = (uncovered \/ (~covered /\ ~sawUnacknowledged))
    /\ pc' = "resource"
    /\ UNCHANGED <<rules, input, cancelled, loopVars, explicitDeny, matched, reason, late>>

Finish ==
    /\ pc = "resource" /\ todo = {}
    /\ Return(IF explicitDeny THEN "explicit_deny"
              ELSE IF wildcardMissing THEN "aws_required_wildcard_not_approved"
              ELSE IF uncovered THEN "policy_no_matching_allow"
              ELSE IF cancelled THEN "internal_fail_closed"
              ELSE "all_requirements_allowed")
    /\ UNCHANGED <<rules, input, cancelled, loopVars, flagVars, late>>

(* The client of the proxy hangs up, or the server closes. *)
Cancel ==
    /\ ~cancelled /\ pc # "done"
    /\ cancelled' = TRUE
    /\ UNCHANGED <<rules, input, pc, loopVars, flagVars, reason, late>>

Evaluate == Check \/ NextResource \/ ScanRule \/ ResourceEnd \/ Finish

Next == Evaluate \/ Cancel

Spec == Init /\ [][Next]_vars

-----------------------------------------------------------------------------
(* Properties *)

TypeOK ==
    /\ rules \in SUBSET Rule
    /\ input \in Input
    /\ pc \in {"check", "resource", "rules", "done"}
    /\ todo \subseteq Pairs
    /\ pc \in {"resource", "rules"} => Cardinality(Pairs) <= MaxEvaluationCombos
    /\ pair \in Pairs \cup {NoPair}
    /\ left \subseteq rules
    /\ matched \subseteq Ids
    /\ cancelled \in BOOLEAN /\ covered \in BOOLEAN /\ sawUnacknowledged \in BOOLEAN
    /\ wildcardMissing \in BOOLEAN /\ uncovered \in BOOLEAN /\ explicitDeny \in BOOLEAN
    /\ reason \in Reasons
    /\ late \in Nat

Denies(rule, x) == ruleMatches(rule, x) /\ rule.effect = "deny"
Grants(rule, x) == ruleMatches(rule, x) /\ rule.effect = "allow" /\ acknowledges(rule, x)
Lacks(rule, x)  == ruleMatches(rule, x) /\ rule.effect = "allow" /\ ~acknowledges(rule, x)

Granted(x) == \E rule \in rules : Grants(rule, x)

(* The decision on the policy, with no order and no loop. *)
Verdict ==
    IF \E x \in Pairs, rule \in rules : Denies(rule, x)
      THEN "explicit_deny"
    ELSE IF \E x \in Pairs : ~Granted(x) /\ \E rule \in rules : Lacks(rule, x)
      THEN "aws_required_wildcard_not_approved"
    ELSE IF \E x \in Pairs : ~Granted(x)
      THEN "policy_no_matching_allow"
      ELSE "all_requirements_allowed"

(* The reasons with which an evaluation that is not cancelled may end. *)
Expected ==
    IF ~Valid THEN {"internal_fail_closed"}
    ELSE IF input.confidence # "high" THEN {"mapping_low_confidence"}
    ELSE IF ~validateEvaluationInput THEN {"internal_fail_closed"}
    ELSE IF Unresolved # {} THEN {UnresolvedReason(q) : q \in Unresolved}
    ELSE {Verdict}

(* Engine.Evaluate ends with the decision that the policy calls for, in       *)
(* whatever order it visits requirements, resources and rules; a cancelled    *)
(* context can only turn it into internal_fail_closed.                        *)
DecisionIsRight ==
    pc = "done" => reason \in Expected \/ (cancelled /\ reason = "internal_fail_closed")

(* An allow, and each deny by the policy, names exactly the rules that match  *)
(* some resource of the request: MatchedRuleIDs in the audit event is what    *)
(* the decision rests on.                                                     *)
MatchedIsComplete ==
    pc = "done" /\ reason \in {"explicit_deny", "aws_required_wildcard_not_approved",
                               "policy_no_matching_allow", "all_requirements_allowed"} =>
        matched = {rule.id : rule \in {r \in rules : \E x \in Pairs : ruleMatches(r, x)}}

(* No allow crosses a partition or a region: "preventing cross-region         *)
(* authorization" (ruleMatches).  Nor does one rest on constraints that the   *)
(* resource has no field for.                                                 *)
AllowStaysInScope ==
    Allowed => \A x \in Pairs :
        /\ x[2].kind = "arn" => /\ x[2].partition = input.partition
                                /\ x[2].region \in {None, input.region}
        /\ \E rule \in rules :
              /\ rule.effect = "allow" /\ Grants(rule, x)
              /\ x[2].kind = "arn" /\ x[2].region = None => rule.regions = {}
              /\ x[2].kind = "arn" /\ x[2].account = None => rule.accounts = {}

(* "A large immutable snapshot must still stop promptly when its caller is    *)
(* cancelled": fewer than CheckEvery rules are tried after the cancellation.  *)
StopsPromptly == late < CheckEvery

=============================================================================
