------------------------------- MODULE MCPlans -------------------------------
(***************************************************************************)
(* Small archives for Plans. Shapes varies what the dependencies of three   *)
(* actions and the mappings of one operation say; Layouts varies how the    *)
(* same evidence lies in the archive: models that share names, SDK names,   *)
(* repeated, malformed and unknown records, entries without an operation.   *)
(***************************************************************************)
EXTENDS Plans

MCLower == [n \in {"", "e1", "E1", "e2", "n1", "u1", "U1", "d/U1", "sdk", "x", "get", "Get", "put", "t",
                   "Put", "p", "pass", "Pass", "tag"} |->
               CASE n = "E1" -> "e1" [] n = "U1" -> "u1" [] n = "Get" -> "get" [] n = "Put" -> "put"
                 [] n = "Pass" -> "pass" [] n = "d/U1" -> "d/u1" [] OTHER -> n]

GetA == <<"p", "get">>
PassA == <<"p", "Pass">>
TagA == <<"p", "tag">>

API(uid, endpoint, id, operations) ==
    [uid |-> uid, dirKey |-> "d/U1", endpoint |-> endpoint, id |-> id, fullName |-> "",
     operations |-> [i \in DOMAIN operations |-> [key |-> operations[i], name |-> ""]]]

Resource(name, dependents) == [name |-> name, dependents |-> dependents]
Privilege(name, dependents) == [name |-> name, unknown |-> FALSE, resources |-> <<Resource("t", dependents)>>]
Value(action) == [action |-> action, resources |-> <<>>, conditions |-> <<>>, condition |-> "always", override |-> None]
Entry(service, operation, actions) ==
    [service |-> service, operation |-> operation, values |-> [i \in DOMAIN actions |-> Value(actions[i])]]

Archive(apis, definitions, mappings) ==
    [apis |-> apis, definitions |-> definitions, sdk |-> <<>>, permissionless |-> <<>>, mappings |-> mappings]

\* The dependencies of get and of pass, and the mappings of e1.Get.
Shapes ==
    {Archive(<<API("u1", "e1", "n1", <<"Get">>)>>,
             <<[prefix |-> "p", privileges |->
                  <<Privilege("Get", get), Privilege("pass", pass), Privilege("tag", tag)>>]>>,
             <<Entry("e1", "get", actions)>>) :
        get \in {<<>>, <<PassA>>, <<PassA, PassA>>, <<PassA, TagA>>, <<GetA>>, <<<<"p", "x">>>>, <<<<"p">>>>},
        pass \in {<<>>, <<TagA>>, <<GetA>>},
        tag \in {<<>>, <<PassA>>},
        actions \in UNION {[1..n -> {GetA, PassA, TagA}] : n \in 1..3} \cup {<<GetA, PassA, TagA, PassA, TagA>>}}

ModelChoices ==
    {<<API("u1", "e1", "n1", <<"Get">>)>>,
     <<API("u1", "e1", "E1", <<"Get", "Put">>), API("U1", "e2", "n1", <<"get">>)>>,
     <<API("u1", "e1", "", <<"Get">>), API("u1", "e1", "x", <<"Get">>)>>}

DefinitionChoices ==
    LET get == Privilege("Get", <<PassA>>)
        pass == Privilege("pass", <<>>)
    IN  {<<[prefix |-> "p", privileges |-> <<get, pass>>]>>,
         <<[prefix |-> "p", privileges |-> <<get>>], [prefix |-> "p", privileges |-> <<pass, Privilege("get", <<TagA>>)>>]>>,
         <<[prefix |-> "p", privileges |-> <<[pass EXCEPT !.unknown = TRUE], pass>>]>>,
         <<[prefix |-> "p", privileges |-> <<get, [pass EXCEPT !.resources = <<Resource("t", <<>>), Resource("t", <<TagA>>)>>]>>]>>,
         <<[prefix |-> "p", privileges |-> <<[get EXCEPT !.unknown = TRUE]>>]>>}

SDKChoices ==
    {<<>>,
     <<[service |-> "e1", names |-> <<"sdk">>], [service |-> "e2", names |-> <<"sdk", "x">>]>>}

MappingChoices ==
    LET full == [action |-> GetA, resources |-> <<"r1", "r2">>, conditions |-> <<"c1">>, condition |-> "when", override |-> "o"]
        one == [service |-> "e1", operation |-> "Get", values |-> <<full, Value(PassA)>>]
        two == [service |-> "x", operation |-> "Put", values |-> <<[full EXCEPT !.conditions = <<"c1", "c2">>]>>]
        three == [service |-> "sdk", operation |-> "get", values |-> <<Value(PassA), [full EXCEPT !.resources = <<"r3">>]>>]
    IN  {<<one>>, <<two, one>>, <<one, two, three>>, <<three, one>>, <<two, three>>,
         <<two, Entry("n1", "Get", <<TagA, GetA>>), Entry("e1", "Put", <<GetA, PassA>>)>>,
         <<Entry("e1", "Get", <<<<"p">>>>)>>}

Layouts ==
    {[apis |-> apis, definitions |-> definitions, sdk |-> names, permissionless |-> free, mappings |-> mappings] :
        apis \in ModelChoices, definitions \in DefinitionChoices, names \in SDKChoices,
        free \in {<<>>, <<[service |-> "sdk", operation |-> "Get"], [service |-> "x", operation |-> "x"]>>},
        mappings \in MappingChoices}

Sound == Archive(<<API("u1", "e1", "n1", <<"Get">>)>>, <<[prefix |-> "p", privileges |-> <<Privilege("Get", <<>>)>>]>>,
                 <<Entry("e1", "get", <<GetA>>)>>)

Defects ==
    {[Sound EXCEPT !.apis = <<>>], [Sound EXCEPT !.apis[1].uid = ""], [Sound EXCEPT !.definitions = <<>>],
     [Sound EXCEPT !.definitions[1].prefix = ""], [Sound EXCEPT !.definitions[1].privileges[1].name = ""],
     [Sound EXCEPT !.permissionless = <<[service |-> "", operation |-> "Get"]>>],
     [Sound EXCEPT !.mappings = <<>>], [Sound EXCEPT !.mappings[1].service = ""],
     [Sound EXCEPT !.mappings[1].values[1].action = <<>>],
     [Sound EXCEPT !.apis[1].operations[1].name = "Put"]}

MCBundles == Shapes \cup Layouts \cup Defects

MCInit == PlansInit /\ (bundle \in Shapes => batch = 1 /\ bound = 40)
MCSpec == MCInit /\ [][PlansNext]_plansVars
=============================================================================
