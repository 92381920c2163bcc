--------------------------- MODULE MCPolicyEngine ---------------------------
(* A catalogue of rules and requirements in which every kind of resource,    *)
(* constraint and scope meets every other.                                   *)
EXTENDS PolicyEngine

CONSTANT RulesPerPolicy

MCNone == "none"
MCPartitions == {"aws", "aws-cn"}
MCRegions == {"r1", "r2"}
MCAccounts == {"acct"}
MCActions == {"get", "put"}
MCIds == {"r-a", "r-b", "r-c", "r-d", "r-e", "r-f"}

Res(kind, partition, region, account) ==
    [kind |-> kind, partition |-> partition, region |-> region, account |-> account]

table == Res("arn", "aws", "r1", "acct")
remote == Res("arn", "aws", "r2", "acct")
bucket == Res("arn", "aws", MCNone, MCNone)
star == Res("star", MCNone, MCNone, MCNone)
queueName == Res("other", MCNone, MCNone, MCNone)
MCResources == {table, remote, bucket, star, queueName}

MCActionGlob == [all |-> {"get", "put"}, get |-> {"get"}, put |-> {"put"}]
MCResourceGlob == [any |-> MCResources, stars |-> MCResources, arns |-> {table, remote, bucket},
                   buckets |-> {bucket}]

RuleOf(id, effect, actions, resources, regions, accounts, wildcard) ==
    [id |-> id, effect |-> effect, actions |-> actions, resources |-> resources,
     regions |-> regions, accounts |-> accounts, partitions |-> {}, wildcard |-> wildcard]

Catalogue == {
    RuleOf("r-a", "allow", {"all"}, {"any"}, {}, {}, FALSE),
    RuleOf("r-b", "allow", {"all"}, {"buckets", "any"}, {}, {}, TRUE),
    RuleOf("r-c", "allow", {"get"}, {"arns"}, {"r1", "r2"}, {}, FALSE),
    RuleOf("r-d", "deny", {"put"}, {"stars"}, {}, {"acct"}, FALSE),
    RuleOf("r-e", "allow", {"put", "get"}, {"stars"}, {"r1"}, {}, TRUE),
    RuleOf("r-f", "deny", {"get"}, {"buckets"}, {}, {}, FALSE),
    RuleOf("r-f", "allow", {"get"}, {"buckets"}, {}, {"acct"}, FALSE)}

MCPolicies == {policy \in SUBSET Catalogue : Cardinality(policy) <= RulesPerPolicy}

Req(action, resources, scope, dependent) ==
    [action |-> action, resources |-> resources, scope |-> scope, dependent |-> dependent]

Requirements == {
    Req("get", {table}, "exact", FALSE),
    Req("put", {table, bucket}, "set", FALSE),
    Req("get", {bucket, remote}, "set", TRUE),
    Req("put", {queueName}, "exact", FALSE),
    Req("get", {star}, "known_global", FALSE),
    Req("put", {star}, "exact", TRUE)}

UnresolvedRequirements == {
    Req("get", {}, "unresolved", FALSE),
    Req("put", {table}, "unresolved", TRUE)}

InputOf(wellFormed, hashAgrees, consistent, confidence, requirements, region) ==
    [wellFormed |-> wellFormed, hashAgrees |-> hashAgrees, consistent |-> consistent,
     confidence |-> confidence, requirements |-> requirements, partition |-> "aws",
     region |-> region, account |-> "acct"]

OneOrTwo(S) == {<<q>> : q \in S} \cup {<<q, r>> : q \in S, r \in S}

MCInputs ==
    {InputOf(TRUE, TRUE, TRUE, "high", requirements, region) :
        requirements \in OneOrTwo(Requirements), region \in {"r1", MCNone}}
    \cup {InputOf(TRUE, TRUE, TRUE, "high", <<q, r, s>>, "r1") :
        q \in Requirements, r \in UnresolvedRequirements, s \in UnresolvedRequirements}
    \cup {InputOf(wellFormed, hashAgrees, consistent, confidence, <<q>>, "r1") :
        wellFormed \in BOOLEAN, hashAgrees \in BOOLEAN, consistent \in BOOLEAN,
        confidence \in {"high", "low"}, q \in Requirements}
=============================================================================
