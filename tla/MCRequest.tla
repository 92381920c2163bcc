----------------------------- MODULE MCRequest ------------------------------
(***************************************************************************)
(* Instances for TLC of what the proxy makes of a request: the endpoint it *)
(* is for, the operation it asks for, and the permissions the catalogue    *)
(* gives that operation.  part says which one a behaviour is about; the    *)
(* others rest in one initial state.                                       *)
(***************************************************************************)
EXTENDS MCMapping, MCDecode, MCEndpoints

VARIABLE part
requestVars == <<part, plansVars, mapVars, wireVars, epVars>>

CatalogueRests == bundle = CHOOSE b \in MapBundles : TRUE
WireRests == wireInput = CHOOSE i \in WireInputs : TRUE
EndpointsRest == epPool = {STS}

\* The resting parts come first: they leave one state of each.
RequestInit ==
  \/ part = "mapping" /\ WireRests /\ WireInit /\ EndpointsRest /\ EpInit /\ AllInit
  \/ part = "decode" /\ CatalogueRests /\ AllInit /\ EndpointsRest /\ EpInit /\ WireInit
  \/ part = "endpoint" /\ CatalogueRests /\ AllInit /\ WireRests /\ WireInit /\ EpInit
RequestNext ==
  \/ part = "mapping" /\ AllNext /\ UNCHANGED <<part, wireVars, epVars>>
  \/ part = "decode" /\ DecodeStep /\ UNCHANGED <<part, plansVars, mapVars, epVars>>
  \/ part = "endpoint" /\ EpNext /\ UNCHANGED <<part, plansVars, mapVars, wireVars>>
RequestSpec == RequestInit /\ [][RequestNext]_requestVars
=============================================================================
