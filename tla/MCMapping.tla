------------------------------ MODULE MCMapping ------------------------------
(***************************************************************************)
(* Requests for Mapping on small catalogues: a task that passes a role,     *)
(* with every combination of conditions and overrides, and one operation    *)
(* for each type of resource.                                               *)
(***************************************************************************)
EXTENDS Mapping, MCPlans

Text(place, key, value) == [place |-> place, key |-> key, kind |-> "string", value |-> value]
Other(place, key) == [place |-> place, key |-> key, kind |-> "other", value |-> ""]

RunTask == <<"ecs", "RunTask">>
PassRole == <<"iam", "PassRole">>
Parameter(name) == [parameter |-> name, names |-> <<name>>]
Named1(action, names, condition, override) ==
    [action |-> action, resources |-> [i \in DOMAIN names |-> Parameter(names[i])], conditions |-> <<>>,
     condition |-> condition, override |-> override]

Compare(op, place, name, rhs) == [op |-> op, place |-> place, name |-> name, rhs |-> rhs]
Override(names, truthy) == [names |-> names, truthy |-> truthy]

RunTaskArchive(tasks, roles, dependencies) ==
    Archive(<<API("ecs", "ecs", "", <<"RunTask">>)>>,
            <<[prefix |-> "ecs", privileges |-> <<[name |-> "RunTask", unknown |-> FALSE,
                  resources |-> <<Resource("task-definition", dependencies)>>]>>],
              [prefix |-> "iam", privileges |-> <<[name |-> "PassRole", unknown |-> FALSE,
                  resources |-> <<Resource("role", <<>>)>>]>>]>>,
            <<[service |-> "ecs", operation |-> "RunTask", values |-> tasks \o roles]>>)

Conditions ==
    {<<>>, <<Compare("exists", "top", "RoleArn", "")>>, <<Compare("notequals", "top", "Mode", "off")>>,
     <<Compare("notexists", "top", "Mode", ""), Compare("startswith", "top", "RoleArn", "role")>>}

Overrides == {None, Override(<<"RoleArn">>, TRUE), Override(<<"RoleArn">>, FALSE), Override(<<"ExecRole">>, TRUE)}

Plain == RunTaskArchive(<<Named1(RunTask, <<"TaskDefinition">>, <<>>, None)>>, <<>>, <<>>)

\* Two models that share an endpoint, and an action that PassRole depends on.
TwoModels == [Plain EXCEPT !.apis = @ \o <<API("u1", "ecs", "", <<"RunTask">>)>>]
Transitive ==
    LET pass == Named1(PassRole, <<>>, <<>>, Override(<<"RoleArn">>, TRUE))
        plain == RunTaskArchive(<<Named1(RunTask, <<"TaskDefinition">>, <<>>, None)>>,
                                <<pass, [pass EXCEPT !.action = <<"iam", "Get">>]>>, <<PassRole>>)
    IN  [plain EXCEPT !.definitions[2].privileges =
            <<[name |-> "PassRole", unknown |-> FALSE, resources |-> <<Resource("role", <<<<"iam", "Get">>>>)>>],
              [name |-> "Get", unknown |-> FALSE, resources |-> <<Resource("role", <<>>)>>]>>]

TaskBundles ==
    {RunTaskArchive(<<Named1(RunTask, <<"TaskDefinition">>, c, None)>>, <<>>, <<>>) : c \in Conditions}
    \cup {RunTaskArchive(<<Named1(RunTask, <<"TaskDefinition">>, <<>>, None)>>,
                         <<Named1(PassRole, n, c, o)>>, <<PassRole>>) :
             n \in {<<>>, <<"ExecRole">>}, c \in Conditions, o \in Overrides}
    \cup {RunTaskArchive(<<Named1(RunTask, <<"TaskDefinition">>, c, None)>>,
                         <<Named1(PassRole, <<>>, <<>>, o), Named1(PassRole, <<"ExecRole">>, <<>>, None)>>,
                         <<PassRole, PassRole>>) : c \in {<<>>, <<Compare("equals", "top", "Mode", "off")>>}, o \in Overrides}
    \cup {TwoModels, Transitive, [Transitive EXCEPT !.mappings[1].values = SubSeq(@, 1, 2)]}

Base == [service |-> "ecs", operation |-> "RunTask", routes |-> {"ecs"}, agrees |-> TRUE, complete |-> TRUE,
         account |-> TRUE, region |-> TRUE, path |-> <<"", "">>, parameters |-> <<>>]

TaskRequests ==
    {[Base EXCEPT !.parameters = <<Text("top", "TaskDefinition", "td")>> \o p] :
        p \in {<<>>, <<Text("top", "RoleArn", "role1")>>, <<Text("object", "rolearn", "role1"), Text("array", "RoleArn", "role2")>>,
               <<Text("top", "RoleArn", "x")>>, <<Other("top", "RoleArn")>>, <<Text("top", "Mode", "off")>>,
               <<Text("top", "RoleArn", "role1"), Text("array", "ExecRole", "role2"), Text("top", "Mode", "off")>>,
               <<Text("top", "RoleArn", "role1"), Text("top", "ExecRole", "role1")>>}}
    \cup {[Base EXCEPT !.agrees = FALSE], [Base EXCEPT !.complete = FALSE], [Base EXCEPT !.routes = {}],
          [Base EXCEPT !.routes = {"ecs", "u1"}, !.parameters = <<Text("top", "TaskDefinition", "td")>>]}

\* One operation whose definition names the kinds of resource.
KindArchive(operation, kinds, parameters, condition) ==
    Archive(<<API("u1", "dynamodb", "", <<operation>>)>>,
            <<[prefix |-> "dynamodb", privileges |-> <<[name |-> "PartiQLSelect", unknown |-> FALSE,
                  resources |-> [i \in DOMAIN kinds |-> Resource(kinds[i], <<>>)]]>>]>>,
            <<[service |-> "dynamodb", operation |-> operation, values |->
                  <<Named1(<<"dynamodb", "PartiQLSelect">>, parameters, condition, None)>>]>>)

Kinds == {"object", "bucket", "service", "task", "instance", "function", "table", "dataset", "role", "log-group",
          "log-stream", "x", ""}

KindBundles ==
    {KindArchive("Get", <<kind>>, <<>>, <<>>) : kind \in Kinds}
    \cup {KindArchive("Get", <<"object", "table">>, p, <<>>) : p \in {<<>>, <<"Key">>, <<"Key", "TableName">>}}
    \cup {KindArchive("Get", <<"", "">>, <<>>, <<>>), KindArchive("AssumeRole", <<"role">>, <<>>, <<>>),
          KindArchive("BatchExecuteStatement", <<"table">>, <<>>, <<Compare("contains", "array", "Statement", "select")>>)}

KindParametersSaid ==
    {<<Text("top", "Bucket", "b"), Text("object", "Key", "k")>>, <<Text("top", "Bucket", "b"), Text("object", "bucket", "c")>>,
     <<Text("top", "ClusterArn", "c"), Text("object", "Service", "s")>>, <<Text("top", "TaskDefinition", "arn1")>>,
     <<Text("top", "TaskDefinition", "role1")>>, <<Text("element", "InstanceIds", "i1"), Text("element", "InstanceIds", "i2")>>,
     <<Text("element", "InstanceIds", "i1"), Text("element", "InstanceIds", "i1")>>, <<Other("element", "InstanceIds")>>,
     <<Text("top", "FunctionName", "bad")>>, <<Text("top", "TableName", "t1"), Text("array", "TableName", "t2")>>,
     <<Text("top", "DatasetId", "d"), Text("object", "DatasetId", "e"), Text("top", "Namespace", "n")>>,
     <<Text("top", "RoleName", "r"), Text("top", "RoleArn", "role1")>>,
     <<Text("top", "LogGroupName", "g"), Text("top", "LogStreamName", "s")>>,
     <<Text("array", "Statement", "s1"), Text("array", "Statement", "s2"), Text("array", "Statement", "s3")>>,
     <<Text("array", "Statement", "s1"), Text("array", "Statement", "junk")>>}

KindRequests ==
    {[Base EXCEPT !.service = "dynamodb", !.operation = o, !.routes = {"u1"}, !.parameters = p, !.region = r, !.path = path] :
        o \in {"Get", "AssumeRole", "BatchExecuteStatement"}, p \in KindParametersSaid, r \in BOOLEAN,
        path \in {<<"", "">>, <<"b", "k2">>}}

MapBundles == TaskBundles \cup KindBundles

MCServiceARNs == {<<"task-definition", "arn1">>}
MCRequests == TaskRequests \cup KindRequests
MCAccepts == [op \in {"contains", "icontains", "startswith"} |->
                 {<<"role1", "role">>, <<"role2", "role">>, <<"s1", "select">>, <<"s2", "select">>, <<"s3", "select">>}]
MCStatements == [v \in {"s1", "s2", "s3", "junk"} |->
                    CASE v = "junk" -> None
                      [] v = "s3" -> [action |-> <<"dynamodb", "PartiQLInsert">>, table |-> "t1"]
                      [] OTHER -> [action |-> <<"dynamodb", "PartiQLSelect">>, table |-> v]]

MCNames == {"", "ecs", "iam", "dynamodb", "runtask", "passrole", "partiqlselect", "task-definition", "u1", "d/U1",
            "Get", "AssumeRole", "BatchExecuteStatement", "RunTask", "PassRole", "PartiQLSelect",
            "TaskDefinition", "RoleArn", "rolearn", "ExecRole", "Mode", "Role", "Bucket", "bucket", "Key", "Cluster",
            "ClusterArn", "Service", "ServiceName", "InstanceIds", "FunctionName", "TableName", "DatasetId", "Namespace",
            "RoleName", "LogGroupName", "LogStreamName", "Statement"} \cup Kinds
MapLower == [n \in MCNames |->
                CASE n = "Key" -> "key" [] n = "TableName" -> "tablename" [] n = "RoleArn" -> "rolearn"
                  [] n = "RunTask" -> "runtask" [] n = "PassRole" -> "passrole" [] n = "PartiQLSelect" -> "partiqlselect"
                  [] n = "TaskDefinition" -> "taskdefinition" [] n = "Bucket" -> "bucket" [] OTHER -> n]
AllLower == [n \in DOMAIN MCLower \cup MCNames |-> IF n \in DOMAIN MCLower THEN MCLower[n] ELSE MapLower[n]]
MCTextOrder ==
    <<"*", "Get", "PartiQLInsert", "PartiQLSelect", "PassRole", "RunTask", "arn", "arn1", "b", "c", "cloudwatch", "d",
      "dynamodb", "e", "ec2", "ecs", "g", "i1", "i2", "iam", "k", "k2", "lambda", "logs", "n", "off", "r", "role1",
      "role2", "s", "s1", "s2", "s3", "t1", "t2", "td", "x">>
AllBundles == MCBundles \cup MapBundles

\* Requests go to the catalogue that has their operation.
Fits == bundle.apis[1].endpoint = request'.service /\ bundle.apis[1].operations[1].key = request'.operation

AllInit == MapInit /\ PlansInit /\ (bundle \notin Layouts \cup Defects => batch = 1 /\ bound = 40)
AllNext ==
    \/ PlansNext /\ UNCHANGED mapVars
    \/ bundle \in MapBundles /\ MapStep /\ (stage = "idle" => Fits) /\ UNCHANGED plansVars
AllSpec == AllInit /\ [][AllNext]_<<plansVars, mapVars>>
=============================================================================
