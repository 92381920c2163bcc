------------------------------ MODULE MCProxy -------------------------------
(***************************************************************************)
(* Instances for TLC of the proxy's parts below the request pipeline: the  *)
(* table of connections, the signed exchange and its body, the relayed     *)
(* connection, and the leaf certificates.  part says which one a behaviour *)
(* is about; the others rest in one initial state.                         *)
(***************************************************************************)
EXTENDS ConnTable, MCExchange, MCRelay, Leaves

VARIABLE part
proxyVars == <<part, vars, exVars, relayVars, leafVars>>

ProxyInit ==
  /\ part \in {"conns", "exchange", "relay", "leaves"}
  /\ Init
  /\ ExInit /\ (part # "exchange" => exRequest = Sound(2))
  /\ RelayInit /\ (part # "relay" => relay = Tunnelled)
  /\ LeavesInit /\ (part # "leaves" => \A n \in LeafCapacities : n <= leafCapacity)
ProxyNext ==
  \/ part = "conns" /\ Next /\ UNCHANGED <<part, exVars, relayVars, leafVars>>
  \/ part = "exchange" /\ ExNext /\ UNCHANGED <<part, vars, relayVars, leafVars>>
  \/ part = "relay" /\ RelayNext /\ UNCHANGED <<part, vars, exVars, leafVars>>
  \/ part = "leaves" /\ LeavesNext /\ UNCHANGED <<part, vars, exVars, relayVars>>

\* ExFairness and RelayFairness of the part that runs: a part at rest has steps it
\* could take.
PartFairness ==
  /\ WF_exVars(part = "exchange" /\ HandlerStep) /\ WF_exVars(part = "exchange" /\ TransportEnds)
  /\ WF_relayVars(part = "relay" /\ Connecting) /\ WF_relayVars(part = "relay" /\ Selecting)
  /\ WF_relayVars(part = "relay" /\ TimerTicks)
  /\ \A d \in Directions : /\ WF_relayVars(part = "relay" /\ Copying(d))
                           /\ WF_relayVars(part = "relay" /\ ~SinkOpen(d) /\ WriteFails(d))
ProxySpec == ProxyInit /\ [][ProxyNext]_proxyVars /\ Fairness /\ PartFairness
=============================================================================
