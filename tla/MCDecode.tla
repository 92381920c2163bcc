------------------------------ MODULE MCDecode ------------------------------
(* Wire catalogues of at most three operations, one for every way two      *)
(* models can disagree, and the requests that meet them.                   *)
EXTENDS Decode, TLC

NoParams == [k \in {} |-> ""]
Lit(t) == [kind |-> "literal", text |-> t, greedy |-> FALSE]
Label(t, g) == [kind |-> "label", text |-> t, greedy |-> g]
PathOf(parts, trailing) == [parts |-> parts, trailing |-> trailing]
Root == PathOf(<<>>, FALSE)

Op(service, protocol, name) ==
  [service |-> service, protocol |-> protocol, jsonVersion |-> "1.1", version |-> "v1",
   target |-> "T", routeTarget |-> "T", name |-> name, method |-> "POST", path |-> Root,
   fixed |-> NoParams, fixedParses |-> TRUE, bindings |-> {}, known |-> TRUE, modelled |-> TRUE]

Req(service, ct) ==
  [service |-> service, contentType |-> ct, claimed |-> InferProtocol(ct), agrees |-> TRUE,
   method |-> "POST", path |-> Root, pathParses |-> TRUE, query |-> NoParams, queryParses |-> TRUE,
   targets |-> <<>>, body |-> [readable |-> TRUE, shape |-> "empty", params |-> NoParams],
   wellFormed |-> FALSE]

Body(shape, params) == [readable |-> TRUE, shape |-> shape, params |-> params]
Unreadable == [readable |-> FALSE, shape |-> "object", params |-> NoParams]

-----------------------------------------------------------------------------
(* JSON: two models of one target, a variant target, an unknown operation. *)

A == Op("ddb", "json", "Get")
B == Op("ddb", "json", "Put")
JsonWires ==
  {<<A, B>>, <<A, A>>, <<A, [B EXCEPT !.known = FALSE]>>, <<A, [A EXCEPT !.routeTarget = "U"]>>,
   <<[A EXCEPT !.target = "U", !.routeTarget = "T"], A>>, <<[A EXCEPT !.routeTarget = "U"], B>>,
   <<A, [A EXCEPT !.jsonVersion = "1.0"]>>, <<A, [B EXCEPT !.jsonVersion = "2"]>>,
   <<[A EXCEPT !.jsonVersion = "1.0"], [B EXCEPT !.jsonVersion = "1.0"]>>,
   <<A, [B EXCEPT !.path = PathOf(<<Lit("x")>>, FALSE)]>>, <<A, [B EXCEPT !.modelled = FALSE]>>,
   <<A, [B EXCEPT !.fixedParses = FALSE]>>, <<A, Op("ddb", "smithy", "Put")>>,
   <<A, [A EXCEPT !.version = "v2"]>>, <<[A EXCEPT !.fixed = [k \in {"f"} |-> "1"]], B>>}

Target(prefix, name, parts) == [prefix |-> prefix, name |-> name, parts |-> parts]
Targets ==
  {<<>>, <<Target("T", "Get", 2)>>, <<Target("T", "Put", 2)>>, <<Target("U", "Get", 2)>>,
   <<Target("T", "Get", 3)>>, <<Target("T", "Get", 2), Target("T", "Put", 2)>>}
JsonRequests ==
  {[Req("ddb", ct) EXCEPT !.targets = ts, !.body = b, !.wellFormed = (ct = "json11" /\ b.shape = "object" /\ b.readable)] :
     ct \in {"json11", "json10", "form", "json", "dup"}, ts \in Targets,
     b \in {Body("object", NoParams), Body("empty", NoParams), Unreadable}}
  \cup {[r EXCEPT !.targets = <<Target("T", "Get", 2)>>, !.body = Body("object", NoParams)] :
          r \in {[Req("ddb", "json11") EXCEPT !.agrees = FALSE],
                 [Req("ddb", "json11") EXCEPT !.queryParses = FALSE],
                 [Req("ddb", "json11") EXCEPT !.query = [k \in {"q"} |-> "1"]],
                 [Req("ddb", "json11") EXCEPT !.query = [k \in {"f"} |-> "1"]],
                 [Req("ddb", "json11") EXCEPT !.query = [k \in {"Action"} |-> "Get"]],
                 [Req("ddb", "json11") EXCEPT !.method = "GET"],
                 [Req("ddb", "json11") EXCEPT !.path = PathOf(<<Lit("x")>>, FALSE)]}}

-----------------------------------------------------------------------------
(* Query: two versions, an action in the URL, in the body or in both.      *)

QueryWires(service, protocol) ==
  {<<Op(service, protocol, "Get"), Op(service, protocol, "Put")>>,
   <<Op(service, protocol, "Get"), [Op(service, protocol, "Get") EXCEPT !.version = "v2"]>>,
   <<Op(service, protocol, "Get"), Op(service, protocol, "Get")>>,
   <<[Op(service, protocol, "Get") EXCEPT !.known = FALSE], Op(service, protocol, "Put")>>,
   <<[Op(service, protocol, "Get") EXCEPT !.fixed = [k \in {"f"} |-> "1"]]>>}

Forms ==
  {NoParams, "Action" :> "Get", "Version" :> "v1", "Action" :> "Get" @@ "Version" :> "v1",
   "Action" :> "Put" @@ "Version" :> "v1", "Action" :> "Get" @@ "Version" :> "v2",
   "Action" :> "Get" @@ "Version" :> "v1" @@ "InstanceId.1" :> "i",
   "Action" :> "Get" @@ "Version" :> "v1" @@ "InstanceId.2" :> "i",
   "Action" :> "Get" @@ "Version" :> "v1" @@ "InstanceId.1" :> "i" @@ "InstanceId.2" :> "j"}
MCIndexOf == "InstanceId.1" :> 1 @@ "InstanceId.2" :> 2

QueryRequests(service, claims) ==
  {[Req(service, "form") EXCEPT !.claimed = c, !.query = q, !.body = b, !.targets = t] :
     c \in claims, q \in Forms \cup {"f" :> "1"}, b \in {Body("form", f) : f \in Forms}
       \cup {Body("malformed", NoParams), Unreadable},
     t \in {<<>>, <<Target("T", "Get", 2)>>}}
WellFormedQuery(service) ==
  {[Req(service, "form") EXCEPT !.body = Body("form", "Action" :> "Get" @@ "Version" :> "v1"),
                                !.wellFormed = TRUE]}

-----------------------------------------------------------------------------
(* REST: routes that overlap, greedy labels, queries that tell them apart. *)

Rest(protocol, name, parts) ==
  [Op("s3", protocol, name) EXCEPT !.path = PathOf(parts, FALSE), !.method = "GET"]
RestWires(protocol) ==
  LET Bucket == Rest(protocol, "GetBucket", <<Label("Bucket", FALSE)>>)
      Object == Rest(protocol, "GetObject", <<Label("Bucket", FALSE), Label("Key", TRUE)>>)
      Acl    == [Bucket EXCEPT !.name = "GetAcl", !.fixed = "acl" :> ""]
      Paged  == [Bucket EXCEPT !.name = "PutObject",
                               !.bindings = {[name |-> "page", required |-> TRUE], [name |-> "max", required |-> FALSE]}]
      List   == Rest(protocol, "List", <<Lit("a")>>)
  IN  {<<Bucket, Object, Acl>>, <<Bucket, Paged, List>>, <<Object, List>>,
       <<Bucket, [Object EXCEPT !.known = FALSE]>>, <<Object, [Acl EXCEPT !.modelled = FALSE]>>,
       <<Object, [Object EXCEPT !.name = "GetTwice"]>>,
       <<Rest(protocol, "Bad", <<Label("Bucket", TRUE), Lit("a")>>), Bucket>>,
       <<[Bucket EXCEPT !.path = PathOf(<<Label("Bucket", FALSE)>>, TRUE)], Bucket>>}

RestPaths == {Root, PathOf(<<"a">>, FALSE), PathOf(<<"a">>, TRUE), PathOf(<<"b", "a">>, FALSE),
              PathOf(<<"a", "b", "bad">>, FALSE), PathOf(<<"bad">>, FALSE), PathOf(<<"a", "b", "a">>, FALSE)}
RestQueries == {NoParams, "acl" :> "", "acl" :> "1", "page" :> "1", "page" :> "1" @@ "max" :> "2", "max" :> "2",
                "Action" :> "Get"}
RestBodies == {Body("empty", NoParams), Body("object", NoParams), Body("object", "Bucket" :> <<"a">>),
               Body("malformed", NoParams), Unreadable}
RestRequests(ct, claimed) ==
  {[Req("s3", ct) EXCEPT !.claimed = claimed, !.method = "GET", !.path = p, !.query = q, !.body = b] :
     p \in RestPaths, q \in RestQueries, b \in RestBodies}
  \cup {[Req("s3", ct) EXCEPT !.claimed = claimed, !.method = "GET", !.path = PathOf(<<"a">>, FALSE),
                              !.pathParses = FALSE]}
WellFormedRest(ct) ==
  {[Req("s3", ct) EXCEPT !.method = "GET", !.path = PathOf(<<"a">>, FALSE), !.wellFormed = TRUE]}

-----------------------------------------------------------------------------
Pairs(wires, requests) == {[wire |-> w, request |-> r] : w \in wires, r \in requests}

MCWireInputs ==
  Pairs(JsonWires, JsonRequests)
  \cup Pairs(QueryWires("sts", "query"), QueryRequests("sts", {"query"}))
  \cup Pairs(QueryWires("ec2", "ec2"), QueryRequests("ec2", {"query", "ec2-query"}))
  \cup Pairs({<<Op("sts", "ec2", "Get")>>}, QueryRequests("sts", {"ec2-query"}))
  \cup Pairs(RestWires("rest-json"), RestRequests("json", "rest-json"))
  \cup Pairs(RestWires("rest-json"), RestRequests("none", "rest-json"))
  \cup Pairs(RestWires("rest-xml"), RestRequests("xml", "rest-xml"))
  \cup Pairs(RestWires("rest-xml"), RestRequests("none", "rest-xml"))

\* One well-formed request of each protocol, with the VerifiedRequest of Verify.
MCProtocolInputs ==
  Pairs({<<A, B>>}, {[Req("ddb", "json11") EXCEPT !.targets = <<Target("T", "Get", 2)>>,
                        !.body = Body("object", NoParams), !.wellFormed = TRUE]})
  \cup Pairs({<<Op("sts", "query", "Get")>>}, WellFormedQuery("sts"))
  \cup Pairs({<<Op("ec2", "ec2", "Get")>>}, WellFormedQuery("ec2"))
  \cup Pairs({<<Rest("rest-json", "GetBucket", <<Label("Bucket", FALSE)>>)>>}, WellFormedRest("json"))
  \cup Pairs({<<Rest("rest-xml", "GetBucket", <<Label("Bucket", FALSE)>>)>>}, WellFormedRest("xml"))
=============================================================================
