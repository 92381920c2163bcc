----------------------------- MODULE Endpoints ------------------------------
(***************************************************************************)
(* awsrequest/endpoint.go: the classification of a host as an AWS endpoint *)
(* of the catalogue, and the classifier's positive and negative caches     *)
(* under concurrent callers.  A host is its sequence of DNS labels; the    *)
(* spelling of a label with the suffix -fips is given by a function.       *)
(***************************************************************************)
EXTENDS Lru, Integers, FiniteSets

CONSTANTS EpServices,     \* catalogue identities: sequence of [prefix, signing]
          EpOverrides,    \* endpointOverrides, by prefix
          EpRegions,      \* supportedRegions
          EpAccounts,     \* labels of twelve digits
          EpFips,         \* label with the suffix -fips |-> the label without it
          EpFold,         \* label in another spelling |-> its lower-case form
          EpBadLabels,    \* labels no DNS name has
          EpPools,        \* sets of authorities asked for in one behaviour
          EpCapacity,     \* capacity of each cache
          Callers, MaxAsked, NoEndpoint

ASSUME EndpointsAssumption == EpCapacity \in Nat \ {0} /\ MaxAsked \in Nat

VARIABLES epPool, positive, negative, missLock, callers, asked

epVars == <<epPool, positive, negative, missLock, callers, asked>>

-----------------------------------------------------------------------------
(* NormalizeEndpointHost.  An authority has labels, a port (-1 for none),  *)
(* a number of root dots and a form.                                       *)

Folded(l) == IF l \in DOMAIN EpFold THEN EpFold[l] ELSE l

NormalizeEndpointHost(a) ==
  IF /\ a.form = "dns"
     /\ a.port = -1 \/ a.port \in 1 .. 65535
     /\ a.root <= 1
     /\ a.labels # <<>>
     /\ \A i \in DOMAIN a.labels : a.labels[i] \notin EpBadLabels
  THEN [host |-> [i \in DOMAIN a.labels |-> Folded(a.labels[i])],
        port |-> IF a.port = -1 THEN 443 ELSE a.port]
  ELSE [host |-> <<>>, port |-> 0]

-----------------------------------------------------------------------------
(* compileEndpointIdentityViews: one signing name per endpoint prefix.     *)

RegionalShapes == {"regional", "regionalFIPS", "regionalDualStack", "regionalFIPSDualStack",
                   "regionalAPIAWS", "regionalFIPSAPIAWS"}

SigningOf(s) == IF s.signing = <<>> THEN s.prefix ELSE s.signing

Unambiguous(services) ==
  \A s, t \in Range(services) : s.prefix = t.prefix => SigningOf(s) = SigningOf(t)

FamilyOf(s) ==
  LET plain == [shapes |-> RegionalShapes, signingRegion |-> "", accountLabel |-> FALSE]
      over  == IF s.prefix \in DOMAIN EpOverrides THEN EpOverrides[s.prefix] ELSE plain
  IN  [service |-> s.prefix, signing |-> SigningOf(s), shapes |-> over.shapes,
       signingRegion |-> over.signingRegion, accountLabel |-> over.accountLabel]

\* No families, hence no classifier, when the catalogue is empty or ambiguous.
Families ==
  IF Unambiguous(EpServices)
  THEN [p \in {s.prefix : s \in Range(EpServices)} |->
          FamilyOf(CHOOSE s \in Range(EpServices) : s.prefix = p)]
  ELSE [p \in {} |-> p]

-----------------------------------------------------------------------------
LastLabel(s) == s[Len(s)]
ButLast(s) == SubSeq(s, 1, Len(s) - 1)

HasFips(l) == l \in DOMAIN EpFips
TrimFips(p) == IF p # <<>> /\ HasFips(LastLabel(p)) THEN ButLast(p) \o <<EpFips[LastLabel(p)]>> ELSE p
FipsLast(p) == p # <<>> /\ HasFips(LastLabel(p))
FipsFirst(p) == p # <<>> /\ Head(p) = "fips"

EndpointPrefixes == {s.prefix : s \in Range(EpServices)}

\* Every label a host, a prefix or a layout has.
EpLabels ==
  {"fips", "dualstack", "amazonaws", "com", "api", "aws"} \cup EpRegions \cup EpAccounts
    \cup DOMAIN EpFips \cup Range(EpFips) \cup Range(EpFold)
    \cup (UNION {Range(p) : p \in EndpointPrefixes})
    \cup (UNION {Range(a.labels) : a \in UNION EpPools})

\* Trimming -fips takes only the suffix away; neither twelve digits nor a word of the
\* layouts end in it; an authority has a sequence of labels.
ASSUME LabelsAssumption ==
  /\ EpRegions # {} /\ EpAccounts # {}
  /\ IsInjective(EpFips)
  /\ (EpAccounts \cup {"fips", "dualstack"}) \cap DOMAIN EpFips = {}
  /\ {"", "fips", "dualstack"} \cap EpAccounts = {}
  /\ \A a \in UNION EpPools : a.labels \in Seq(EpLabels)

\* Assumed of the pinned catalogue: a prefix does not begin with a numeric label, has
\* no fips or dualstack of its own where a layout puts one, and its last label can
\* take -fips.  validateEndpointPrefix does not check this.
ASSUME PrefixAssumption ==
  \A p \in EndpointPrefixes :
    /\ p \in Seq(EpLabels) \ {<<>>}
    /\ Head(p) \notin EpAccounts \cup {"fips"}
    /\ LastLabel(p) \notin DOMAIN EpFips \cup {"dualstack"}
    /\ LastLabel(p) \in Range(EpFips)

\* awsEndpointWithAccount: only a global endpoint signs in its family's region.
EndpointOf(f, host, region, global, fips, dual, account) ==
  [host |-> host, service |-> f.service, signingService |-> f.signing,
   signingRegion |-> IF global THEN f.signingRegion ELSE region,
   region |-> region, global |-> global, fips |-> fips, dualstack |-> dual, account |-> account]

Offers(prefix, shape) == prefix \in DOMAIN Families /\ shape \in Families[prefix].shapes

ClassifyAPIAWS(host, body) ==
  LET prefix == TrimFips(ButLast(body))
      fips   == FipsLast(ButLast(body))
  IN  IF /\ Len(body) >= 2
         /\ LastLabel(body) \in EpRegions
         /\ Offers(prefix, IF fips THEN "regionalFIPSAPIAWS" ELSE "regionalAPIAWS")
      THEN EndpointOf(Families[prefix], host, LastLabel(body), FALSE, fips, TRUE, "")
      ELSE NoEndpoint

\* The form of a global host: the label fips first, the suffix last, or neither.
GlobalForm(body) ==
  IF FipsFirst(body) THEN [prefix |-> Tail(body), fips |-> TRUE, shape |-> "globalFIPSLabel"]
  ELSE IF FipsLast(body) THEN [prefix |-> TrimFips(body), fips |-> TRUE, shape |-> "globalFIPSSuffix"]
  ELSE [prefix |-> body, fips |-> FALSE, shape |-> "global"]

ClassifyGlobal(host, body, form) ==
  IF body # <<>> /\ form.prefix # <<>> /\ Offers(form.prefix, form.shape)
  THEN EndpointOf(Families[form.prefix], host, "", TRUE, form.fips, FALSE, "")
  ELSE NoEndpoint

\* The form of what precedes the region: dualstack, then fips in either place.
RegionalForm(labels) ==
  LET dual  == Len(labels) >= 2 /\ LastLabel(labels) = "dualstack"
      rest  == IF dual THEN ButLast(labels) ELSE labels
      shape(plain, both) == IF dual THEN both ELSE plain
  IN  IF FipsFirst(rest)
      THEN [prefix |-> Tail(rest), dual |-> dual, fips |-> TRUE,
            shape |-> shape("regionalFIPSLabel", "regionalFIPSLabelDualStack")]
      ELSE IF FipsLast(rest)
      THEN [prefix |-> TrimFips(rest), dual |-> dual, fips |-> TRUE,
            shape |-> shape("regionalFIPS", "regionalFIPSDualStack")]
      ELSE [prefix |-> rest, dual |-> dual, fips |-> FALSE,
            shape |-> shape("regional", "regionalDualStack")]

\* A regional-looking global family is recognised before the regional profile,
\* and never under an account label.
ClassifyRegional(host, body, account, form) ==
  LET shape == IF account = "" THEN form.shape
               ELSE IF form.dual THEN "accountRegionalDualStack" ELSE "accountRegional"
  IN  IF Len(body) < 2 \/ LastLabel(body) \notin EpRegions THEN NoEndpoint
      ELSE IF Offers(ButLast(body), "regionalGlobal")
      THEN IF account # "" THEN NoEndpoint
           ELSE EndpointOf(Families[ButLast(body)], host, "", TRUE, FALSE, FALSE, "")
      ELSE IF /\ account # "" => ~form.fips
              /\ Offers(form.prefix, shape)
              /\ account # "" => Families[form.prefix].accountLabel
      THEN EndpointOf(Families[form.prefix], host, LastLabel(body), FALSE, form.fips, form.dual, account)
      ELSE NoEndpoint

\* The regional parser trims -fips in the caller's array: when the attempt under
\* an account label fails, the plain attempt sees the trimmed labels.
Trimmed(body) ==
  LET labels == ButLast(Tail(body))
      dual   == Len(labels) >= 2 /\ LastLabel(labels) = "dualstack"
      rest   == IF dual THEN ButLast(labels) ELSE labels
  IN  IF Len(body) < 3 \/ LastLabel(body) \notin EpRegions \/ Offers(labels, "regionalGlobal")
           \/ FipsFirst(rest)
      THEN body
      ELSE <<Head(body)>> \o TrimFips(rest) \o (IF dual THEN <<"dualstack">> ELSE <<>>)
             \o <<LastLabel(body)>>

FirstEndpoint(first, second) == IF first # NoEndpoint THEN first ELSE second

ClassifyAmazonAWS(host, body) ==
  FirstEndpoint(
    ClassifyGlobal(host, body, GlobalForm(body)),
    IF Len(body) > 1 /\ Head(body) \in EpAccounts
    THEN FirstEndpoint(
           ClassifyRegional(host, Tail(body), Head(body), RegionalForm(ButLast(Tail(body)))),
           ClassifyRegional(host, Trimmed(body), "", RegionalForm(ButLast(Trimmed(body)))))
    ELSE IF body = <<>> THEN NoEndpoint
    ELSE ClassifyRegional(host, body, "", RegionalForm(ButLast(body))))

\* Mutant: a classification that takes the region of a global host's family for regional
\* hosts too.
ClassifyCommercialHostPinned(host) ==
  LET n    == Len(host)
      body == SubSeq(host, 1, n - 2)
      e    == IF n < 3 THEN NoEndpoint
              ELSE IF <<host[n - 1], host[n]>> = <<"amazonaws", "com">> THEN ClassifyAmazonAWS(host, body)
              ELSE IF <<host[n - 1], host[n]>> = <<"api", "aws">> THEN ClassifyAPIAWS(host, body)
              ELSE NoEndpoint
  IN  IF e # NoEndpoint /\ Families[e.service].signingRegion # ""
      THEN [e EXCEPT !.signingRegion = Families[e.service].signingRegion] ELSE e

ClassifyCommercialHost(host) ==
  LET n    == Len(host)
      body == SubSeq(host, 1, n - 2)
  IN  IF n < 3 THEN NoEndpoint
      ELSE IF <<host[n - 1], host[n]>> = <<"amazonaws", "com">> THEN ClassifyAmazonAWS(host, body)
      ELSE IF <<host[n - 1], host[n]>> = <<"api", "aws">> THEN ClassifyAPIAWS(host, body)
      ELSE NoEndpoint

\* LooksLikeAWSHost: the rejection predicate over complete labels.
LooksLikeAWSHost(a) ==
  LET h == NormalizeEndpointHost(a).host
      n == Len(h)
  IN  \/ \E i \in 1 .. n - 1 : h[i] = "amazonaws" /\ h[i + 1] = "com"
      \/ n >= 2 /\ h[n - 1] = "api" /\ h[n] = "aws"

-----------------------------------------------------------------------------
(* Classifier.Classify under concurrent callers.                           *)

Idle == [step |-> "idle", authority |-> <<>>, answer |-> NoEndpoint]

EpInit ==
  /\ epPool \in EpPools
  /\ positive = EmptyLru
  /\ negative = EmptyLru
  /\ missLock = "free"
  /\ callers = [c \in Callers |-> Idle]
  /\ asked = 0

HostOf(c) == NormalizeEndpointHost(callers[c].authority).host

Answer(c, e) == callers' = [callers EXCEPT ![c].step = "answered", ![c].answer = e]

Ask(c) ==
  /\ callers[c].step \in {"idle", "answered"}
  /\ asked < MaxAsked
  /\ \E a \in epPool :
       callers' = [callers EXCEPT ![c] = [Idle EXCEPT !.step =
                     IF NormalizeEndpointHost(a).port = 443 THEN "lookup" ELSE "answered",
                     !.authority = a]]
  /\ asked' = asked + 1
  /\ UNCHANGED <<epPool, positive, negative, missLock>>

\* A miss of the positive cache asks the negative one, in a critical section of
\* its own; a miss of both goes on to the lock.
LookupPositive(c) ==
  /\ callers[c].step = "lookup"
  /\ positive' = LruGet(positive, HostOf(c))
  /\ IF HostOf(c) \in Resident(positive)
     THEN Answer(c, positive.items[HostOf(c)])
     ELSE callers' = [callers EXCEPT ![c].step = "missed"]
  /\ UNCHANGED <<epPool, negative, missLock, asked>>

LookupNegative(c) ==
  /\ callers[c].step = "missed"
  /\ negative' = LruGet(negative, HostOf(c))
  /\ IF HostOf(c) \in Resident(negative)
     THEN Answer(c, NoEndpoint)
     ELSE callers' = [callers EXCEPT ![c].step = "locking"]
  /\ UNCHANGED <<epPool, positive, missLock, asked>>

LockMiss(c) ==
  /\ callers[c].step = "locking" /\ missLock = "free"
  /\ missLock' = c
  /\ callers' = [callers EXCEPT ![c].step = "locked"]
  /\ UNCHANGED <<epPool, positive, negative, asked>>

\* Under the lock both caches are asked again; a miss is classified, cached on
\* its own side and answered, and the lock is released.
ClassifyMiss(c) ==
  /\ callers[c].step = "locked"
  /\ LET h == HostOf(c)
         e == ClassifyCommercialHost(h)
     IN  \/ /\ h \in Resident(positive)
            /\ positive' = LruGet(positive, h) /\ UNCHANGED negative
            /\ Answer(c, positive.items[h])
         \/ /\ h \notin Resident(positive) /\ h \in Resident(negative)
            /\ negative' = LruGet(negative, h) /\ UNCHANGED positive
            /\ Answer(c, NoEndpoint)
         \/ /\ h \notin Resident(positive) \cup Resident(negative)
            /\ Answer(c, e)
            /\ IF e = NoEndpoint
               THEN negative' = LruAdd(negative, h, e, EpCapacity) /\ UNCHANGED positive
               ELSE positive' = LruAdd(positive, h, e, EpCapacity) /\ UNCHANGED negative
  /\ missLock' = "free"
  /\ UNCHANGED <<epPool, asked>>

EpNext == \E c \in Callers : Ask(c) \/ LookupPositive(c) \/ LookupNegative(c) \/ LockMiss(c) \/ ClassifyMiss(c)

EpSpec == EpInit /\ [][EpNext]_epVars

-----------------------------------------------------------------------------
(* The reference: the hosts each shape of a family stands for.             *)

WithFips(l) == CHOOSE m \in DOMAIN EpFips : EpFips[m] = l
FipsName(p) == ButLast(p) \o <<WithFips(LastLabel(p))>>

Layout(p, shape, region, account) ==
  LET aws == <<"amazonaws", "com">>
      api == <<"api", "aws">>
      r   == <<region>>
      d   == <<"dualstack">>
  IN  CASE shape = "regional" -> p \o r \o aws
        [] shape = "regionalFIPS" -> FipsName(p) \o r \o aws
        [] shape = "regionalFIPSLabel" -> <<"fips">> \o p \o r \o aws
        [] shape = "regionalFIPSLabelDualStack" -> <<"fips">> \o p \o d \o r \o aws
        [] shape = "regionalDualStack" -> p \o d \o r \o aws
        [] shape = "regionalFIPSDualStack" -> FipsName(p) \o d \o r \o aws
        [] shape = "regionalAPIAWS" -> p \o r \o api
        [] shape = "regionalFIPSAPIAWS" -> FipsName(p) \o r \o api
        [] shape = "global" -> p \o aws
        [] shape = "globalFIPSLabel" -> <<"fips">> \o p \o aws
        [] shape = "globalFIPSSuffix" -> FipsName(p) \o aws
        [] shape = "regionalGlobal" -> p \o r \o aws
        [] shape = "accountRegional" -> <<account>> \o p \o r \o aws
        [] shape = "accountRegionalDualStack" -> <<account>> \o p \o d \o r \o aws

GlobalShapes == {"global", "globalFIPSLabel", "globalFIPSSuffix", "regionalGlobal"}
FipsShapes == {"regionalFIPS", "regionalFIPSLabel", "regionalFIPSLabelDualStack",
               "regionalFIPSDualStack", "regionalFIPSAPIAWS", "globalFIPSLabel", "globalFIPSSuffix"}
DualShapes == {"regionalDualStack", "regionalFIPSDualStack", "regionalFIPSLabelDualStack",
               "regionalAPIAWS", "regionalFIPSAPIAWS", "accountRegionalDualStack"}
AccountShapes == {"accountRegional", "accountRegionalDualStack"}

\* What a family, a shape, a region and an account say an endpoint is.
Meant(p, shape, region, account) ==
  EndpointOf(Families[p], Layout(p, shape, region, account),
             IF shape \in GlobalShapes THEN "" ELSE region, shape \in GlobalShapes,
             shape \in FipsShapes, shape \in DualShapes,
             IF shape \in AccountShapes THEN account ELSE "")

Meanings ==
  UNION {{Meant(p, s, r, a) : s \in Families[p].shapes, r \in EpRegions, a \in EpAccounts} :
           p \in DOMAIN Families}

\* The table of overrides: an account shape goes with the account label and never
\* with a regional-looking global host.
ASSUME OverridesAssumption ==
  \A p \in DOMAIN EpOverrides :
    /\ EpOverrides[p].shapes \subseteq RegionalShapes \cup GlobalShapes \cup FipsShapes \cup AccountShapes
    /\ EpOverrides[p].shapes \cap AccountShapes # {} =>
         EpOverrides[p].accountLabel = TRUE /\ "regionalGlobal" \notin EpOverrides[p].shapes

ASSUME NoEndpointAssumption == NoEndpoint \notin Meanings

AnswerIsMeant(c) ==
  LET n      == NormalizeEndpointHost(callers[c].authority)
      meant  == {e \in Meanings : e.host = n.host}
      answer == callers[c].answer
  IN  IF n.port # 443 \/ meant = {} THEN answer = NoEndpoint
      ELSE /\ answer \in meant
           /\ answer.global \/ answer.signingRegion = answer.region
           /\ LooksLikeAWSHost(callers[c].authority)

\* Every answer, cached or not, is what the layouts of the catalogue's families
\* say: a host no layout spells, or an authority that is not a DNS name on port
\* 443, is refused; any other host is given the identity its layout has, and a
\* regional host signs in its own region.  An accepted host is one that
\* LooksLikeAWSHost keeps from being relayed.  The two caches stay bounded, never
\* hold the same host, and hold for each host the answer a fresh classification
\* gives, however callers interleave.
ClassificationIsRight ==
  /\ \A c \in Callers : callers[c].step = "answered" => AnswerIsMeant(c)
  /\ SoundLru(positive, EpCapacity) /\ SoundLru(negative, EpCapacity)
  /\ Resident(positive) \cap Resident(negative) = {}
  /\ \A h \in Resident(positive) : positive.items[h] = ClassifyCommercialHost(h)
  /\ \A h \in Resident(negative) : ClassifyCommercialHost(h) = NoEndpoint
=============================================================================
