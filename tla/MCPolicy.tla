------------------------------ MODULE MCPolicy ------------------------------
(***************************************************************************)
(* Instances for TLC of the policy: the evaluation of a request, or the    *)
(* match of one glob.  part says which one a behaviour is about; the other *)
(* rests in one initial state.                                             *)
(***************************************************************************)
EXTENDS MCPolicyEngine, MCGlob

VARIABLE part
policyVars == <<part, vars, globVars>>

EngineRests ==
  /\ rules = {RuleOf("r-a", "allow", {"all"}, {"any"}, {}, {}, FALSE)}
  /\ input = InputOf(TRUE, TRUE, TRUE, "high", <<Req("get", {table}, "exact", FALSE)>>, "r1")
  /\ cancelled = FALSE
PolicyInit ==
  \/ part = "engine" /\ Init /\ Start(<<a>>, <<a>>, FALSE)
  \/ part = "glob" /\ EngineRests /\ Init /\ MCInit
PolicyNext ==
  \/ part = "engine" /\ Next /\ UNCHANGED <<part, globVars>>
  \/ part = "glob" /\ GlobNext /\ UNCHANGED <<part, vars>>
PolicySpec == PolicyInit /\ [][PolicyNext]_policyVars
=============================================================================
