---------------------------- MODULE MCEndpoints -----------------------------
EXTENDS Endpoints, TLC

\* sts has global and regional hosts, ec2 the label fips, ce a regional-looking
\* global host, s3c account labels, api.x two labels and a signing name.
MCEpServices == <<[prefix |-> <<"sts">>, signing |-> <<>>], [prefix |-> <<"ec2">>, signing |-> <<>>],
                  [prefix |-> <<"ce">>, signing |-> <<>>], [prefix |-> <<"s3c">>, signing |-> <<"s3">>],
                  [prefix |-> <<"api", "x">>, signing |-> <<"x">>], [prefix |-> <<"sts">>, signing |-> <<"sts">>]>>

MCOverride(shapes, region, account) ==
  [shapes |-> shapes, signingRegion |-> region, accountLabel |-> account]
MCEpOverrides ==
  (<<"sts">> :> MCOverride(RegionalShapes \cup {"global", "globalFIPSLabel", "globalFIPSSuffix"}, "east", FALSE))
  @@ (<<"ec2">> :> MCOverride(RegionalShapes \cup {"regionalFIPSLabel", "regionalFIPSLabelDualStack"}, "", FALSE))
  @@ (<<"ce">> :> MCOverride({"regionalGlobal"}, "east", FALSE))
  @@ (<<"s3c">> :> MCOverride({"accountRegional", "accountRegionalDualStack"}, "", TRUE))

MCEpFips == ("sts-fips" :> "sts") @@ ("ec2-fips" :> "ec2") @@ ("ce-fips" :> "ce")
              @@ ("s3c-fips" :> "s3c") @@ ("x-fips" :> "x") @@ ("other-fips" :> "other")
MCEpFold == ("STS" :> "sts")

Authority(labels) == [labels |-> labels, port |-> -1, root |-> 0, form |-> "dns"]

\* Every shape of every family and of an unknown name, in a supported and in an
\* unsupported region, with and without an account label.
AllShapes == RegionalShapes \cup GlobalShapes \cup AccountShapes
               \cup {"regionalFIPSLabel", "regionalFIPSLabelDualStack"}
Hosts == {Layout(p, s, r, "111") : p \in {<<"sts">>, <<"ec2">>, <<"ce">>, <<"s3c">>, <<"api", "x">>, <<"other">>},
                                   s \in AllShapes, r \in {"east", "west", "moon"}}
Odd == {<<"111", "sts-fips", "east", "amazonaws", "com">>, <<"111", "s3c-fips", "east", "amazonaws", "com">>,
        <<"111", "s3c-fips", "dualstack", "east", "amazonaws", "com">>,
        <<"111", "ce", "east", "amazonaws", "com">>, <<"fips", "amazonaws", "com">>,
        <<"amazonaws", "com">>, <<"x", "amazonaws", "com">>, <<"sts", "east", "amazonaws", "net">>,
        <<"east", "amazonaws", "com">>, <<"sts", "sts", "east", "amazonaws", "com">>}
STS == Authority(<<"sts", "east", "amazonaws", "com">>)
Spellings == {[STS EXCEPT !.port = 443], [STS EXCEPT !.port = 80], [STS EXCEPT !.port = 0],
              [STS EXCEPT !.root = 1], [STS EXCEPT !.root = 2], [STS EXCEPT !.form = "ip"],
              [STS EXCEPT !.labels[1] = "STS"], [STS EXCEPT !.labels[1] = "-"]}

MCEpPools == {{Authority(h)} : h \in Hosts \cup Odd} \cup {{a} : a \in Spellings}
               \cup {{STS, Authority(<<"ec2", "east", "amazonaws", "com">>),
                      Authority(<<"moon", "amazonaws", "com">>), Authority(<<"x", "amazonaws", "com">>)}}
=============================================================================
