--------------------------- MODULE ConnectProofs ----------------------------
(***************************************************************************)
(* Proofs about the connections of the proxy, for any finite set of them   *)
(* and any limit: the table that counts and closes them, and the relay of  *)
(* a CONNECT for a host that is not AWS, where what is dialled was         *)
(* validated and the tunnel hands on what it was sent.                     *)
(***************************************************************************)
EXTENDS Relay, ConnTable, FiniteSetTheorems, TLAPS

(* The connection table *)

(* Where a connection can be while the table holds it, and what an open     *)
(* socket says about the table.                                             *)
StageInv ==
    \A c \in Conns :
        /\ stage[c] \in {"none", "ended", "tunnelled", "unanswered", "gone"} => c \notin open
        /\ stage[c] \in {"none", "accepted"} => c \notin raw
        /\ stage[c] \in {"handshake", "intercepted"} => c \notin raw
        /\ stage[c] = "tracked" => c \in raw
        /\ c \in open /\ stage[c] \in {"serving", "hijacked", "established", "tunnel"} => c \in raw
        /\ c \in open /\ stage[c] \in {"handshake", "intercepted"} => c \in promoted
        /\ c \in promoted \cup swapped => stage[c] \in {"handshake", "intercepted", "gone"}
        /\ c \in promoted => c \notin raw /\ c \notin swapped

(* Slots are held by the entries of the table and by unfinished releases. *)
CountInv == slots = Cardinality(raw) + Cardinality(promoted) + releasing

(* After closed is set, Close has yet to close every connection that is live. *)
CloseInv ==
    /\ closed <=> closing # "no"
    /\ closed => \A c \in Conns : Live(c) => c \in snapRaw \cup snapPromoted
    /\ \A c \in snapPromoted : stage[c] \in {"handshake", "intercepted", "gone"}
    /\ closing = "done" => snapRaw = {} /\ snapPromoted = {}

TableInv == TypeOK /\ StageInv /\ CountInv /\ CloseInv

LEMMA FiniteTable ==
    ASSUME TypeOK
    PROVE  /\ IsFiniteSet(raw) /\ Cardinality(raw) \in Nat
           /\ IsFiniteSet(promoted) /\ Cardinality(promoted) \in Nat
BY ConnsAssumption, FS_Subset, FS_CardinalityType DEF TypeOK

(* What a step that takes no slot and touches no entry cannot disturb. *)
LEMMA CountFrame ==
    ASSUME CountInv, UNCHANGED <<raw, promoted, slots, releasing>>
    PROVE  CountInv'
BY DEF CountInv

(* trackConn takes a slot exactly when it makes an entry. *)
LEMMA TrackConnCount ==
    ASSUME TypeOK, CountInv, NEW c \in Conns, TrackConn(c), UNCHANGED <<promoted, releasing>>
    PROVE  CountInv'
<1>1. Cardinality(raw \cup {c}) = IF c \in raw THEN Cardinality(raw) ELSE Cardinality(raw) + 1
  BY FiniteTable, FS_AddElement
<1>2. CASE TrackRefused(c)
  BY <1>2 DEF TrackConn, CountInv
<1>3. CASE ~TrackRefused(c) /\ c \in raw
  BY <1>1, <1>3 DEF TrackConn, CountInv
<1>4. CASE ~TrackRefused(c) /\ c \notin raw
  BY <1>1, <1>4, FiniteTable DEF TrackConn, CountInv, TypeOK
<1>. QED
  BY <1>2, <1>3, <1>4

(* untrackConn turns an entry of the table into an unfinished release. *)
LEMMA UntrackRawCount ==
    ASSUME TypeOK, CountInv, NEW c \in Conns, UntrackRaw(c), UNCHANGED <<promoted, slots>>
    PROVE  CountInv'
<1>1. Cardinality(raw \ {c}) = IF c \in raw THEN Cardinality(raw) - 1 ELSE Cardinality(raw)
  BY FiniteTable, FS_RemoveElement
<1>. QED
  BY <1>1, FiniteTable DEF UntrackRaw, CountInv, TypeOK

LEMMA UntrackPromotedCount ==
    ASSUME TypeOK, CountInv, NEW c \in Conns, NEW isClosed \in BOOLEAN,
           UntrackPromoted(c, isClosed), UNCHANGED <<raw, slots>>
    PROVE  CountInv'
<1>1. Cardinality(promoted \ {c}) =
         IF c \in promoted THEN Cardinality(promoted) - 1 ELSE Cardinality(promoted)
  BY FiniteTable, FS_RemoveElement
<1>. QED
  BY <1>1, FiniteTable DEF UntrackPromoted, CountInv, TypeOK

LEMMA AcceptStep ==
    ASSUME NEW c \in Conns, TableInv, Accept(c)
    PROVE  TableInv'
<1>. USE DEF TableInv, Accept, serverVars, Goto
<1>1. TypeOK'
  BY MaxConnectionsAssumption DEF TypeOK
<1>2. StageInv'
  BY DEF StageInv, TypeOK
<1>3. CountInv'
  BY CountFrame
<1>4. CloseInv'
  BY DEF CloseInv, Live, StageInv, TypeOK
<1>. QED
  BY <1>1, <1>2, <1>3, <1>4

LEMMA StateNewStep ==
    ASSUME NEW c \in Conns, TableInv, StateNew(c)
    PROVE  TableInv'
<1>. USE DEF TableInv, StateNew, serverVars, Goto, TrackConn, TrackRefused
<1>1. TypeOK'
  BY MaxConnectionsAssumption DEF TypeOK
<1>2. StageInv'
  BY DEF StageInv, TypeOK
<1>3. CountInv'
  BY TrackConnCount
<1>4. CloseInv'
  BY DEF CloseInv, Live, StageInv, TypeOK
<1>. QED
  BY <1>1, <1>2, <1>3, <1>4

LEMMA ServeEndStep ==
    ASSUME NEW c \in Conns, TableInv, ServeEnd(c)
    PROVE  TableInv'
<1>. USE DEF TableInv, ServeEnd, serverVars, Goto
<1>1. TypeOK'
  BY MaxConnectionsAssumption DEF TypeOK
<1>2. StageInv'
  BY DEF StageInv, TypeOK
<1>3. CountInv'
  BY CountFrame
<1>4. CloseInv'
  BY DEF CloseInv, Live, StageInv, TypeOK
<1>. QED
  BY <1>1, <1>2, <1>3, <1>4

LEMMA StateClosedStep ==
    ASSUME NEW c \in Conns, TableInv, StateClosed(c)
    PROVE  TableInv'
<1>. USE DEF TableInv, StateClosed, serverVars, Goto, UntrackRaw
<1>1. TypeOK'
  BY MaxConnectionsAssumption DEF TypeOK
<1>2. StageInv'
  BY DEF StageInv, TypeOK
<1>3. CountInv'
  BY UntrackRawCount
<1>4. CloseInv'
  BY DEF CloseInv, Live, StageInv, TypeOK
<1>. QED
  BY <1>1, <1>2, <1>3, <1>4

LEMMA HijackStep ==
    ASSUME NEW c \in Conns, TableInv, Hijack(c)
    PROVE  TableInv'
<1>. USE DEF TableInv, Hijack, serverVars, Goto
<1>1. TypeOK'
  BY MaxConnectionsAssumption DEF TypeOK
<1>2. StageInv'
  BY DEF StageInv, TypeOK
<1>3. CountInv'
  BY CountFrame
<1>4. CloseInv'
  BY DEF CloseInv, Live, StageInv, TypeOK
<1>. QED
  BY <1>1, <1>2, <1>3, <1>4

LEMMA EstablishStep ==
    ASSUME NEW c \in Conns, TableInv, Establish(c)
    PROVE  TableInv'
<1>. USE DEF TableInv, Establish, serverVars, Goto
<1>1. TypeOK'
  BY MaxConnectionsAssumption DEF TypeOK
<1>2. StageInv'
  BY DEF StageInv, TypeOK
<1>3. CountInv'
  BY CountFrame
<1>4. CloseInv'
  BY DEF CloseInv, Live, StageInv, TypeOK
<1>. QED
  BY <1>1, <1>2, <1>3, <1>4

LEMMA EstablishFailStep ==
    ASSUME NEW c \in Conns, TableInv, EstablishFail(c)
    PROVE  TableInv'
<1>. USE DEF TableInv, EstablishFail, serverVars, Goto
<1>1. TypeOK'
  BY MaxConnectionsAssumption DEF TypeOK
<1>2. StageInv'
  BY DEF StageInv, TypeOK
<1>3. CountInv'
  BY CountFrame
<1>4. CloseInv'
  BY DEF CloseInv, Live, StageInv, TypeOK
<1>. QED
  BY <1>1, <1>2, <1>3, <1>4

LEMMA TrackHijackedStep ==
    ASSUME NEW c \in Conns, TableInv, TrackHijacked(c)
    PROVE  TableInv'
<1>. USE DEF TableInv, TrackHijacked, serverVars, Goto, TrackConn, TrackRefused
<1>1. TypeOK'
  BY MaxConnectionsAssumption DEF TypeOK
<1>2. StageInv'
  BY DEF StageInv, TypeOK
<1>3. CountInv'
  BY TrackConnCount
<1>4. CloseInv'
  BY DEF CloseInv, Live, StageInv, TypeOK
<1>. QED
  BY <1>1, <1>2, <1>3, <1>4

LEMMA StartTunnelStep ==
    ASSUME NEW c \in Conns, TableInv, StartTunnel(c)
    PROVE  TableInv'
<1>. USE DEF TableInv, StartTunnel, serverVars, Goto
<1>1. TypeOK'
  BY MaxConnectionsAssumption DEF TypeOK
<1>2. StageInv'
  BY DEF StageInv, TypeOK
<1>3. CountInv'
  BY CountFrame
<1>4. CloseInv'
  BY DEF CloseInv, Live, StageInv, TypeOK
<1>. QED
  BY <1>1, <1>2, <1>3, <1>4

LEMMA TunnelEndStep ==
    ASSUME NEW c \in Conns, TableInv, TunnelEnd(c)
    PROVE  TableInv'
<1>. USE DEF TableInv, TunnelEnd, serverVars, Goto
<1>1. TypeOK'
  BY MaxConnectionsAssumption DEF TypeOK
<1>2. StageInv'
  BY DEF StageInv, TypeOK
<1>3. CountInv'
  BY CountFrame
<1>4. CloseInv'
  BY DEF CloseInv, Live, StageInv, TypeOK
<1>. QED
  BY <1>1, <1>2, <1>3, <1>4

LEMMA UntrackTunnelStep ==
    ASSUME NEW c \in Conns, TableInv, UntrackTunnel(c)
    PROVE  TableInv'
<1>. USE DEF TableInv, UntrackTunnel, serverVars, Goto, UntrackRaw
<1>1. TypeOK'
  BY MaxConnectionsAssumption DEF TypeOK
<1>2. StageInv'
  BY DEF StageInv, TypeOK
<1>3. CountInv'
  BY UntrackRawCount
<1>4. CloseInv'
  BY DEF CloseInv, Live, StageInv, TypeOK
<1>. QED
  BY <1>1, <1>2, <1>3, <1>4

LEMMA PromoteStep ==
    ASSUME NEW c \in Conns, TableInv, Promote(c)
    PROVE  TableInv'
<1>. USE DEF TableInv, Promote, serverVars, Goto
<1>1. TypeOK'
  BY MaxConnectionsAssumption DEF TypeOK
<1>2. StageInv'
  BY DEF StageInv, TypeOK
<1>3. CountInv'
  <2>1. c \in raw /\ c \notin promoted
    BY DEF StageInv
  <2>2. Cardinality(raw') = Cardinality(raw) - 1
    BY <2>1, FiniteTable, FS_RemoveElement
  <2>3. Cardinality(promoted') = Cardinality(promoted) + 1
    BY <2>1, FiniteTable, FS_AddElement
  <2>. QED
    BY <2>2, <2>3, FiniteTable DEF CountInv, TypeOK
<1>4. CloseInv'
  BY DEF CloseInv, Live, StageInv, TypeOK
<1>. QED
  BY <1>1, <1>2, <1>3, <1>4

LEMMA HandshakeFailStep ==
    ASSUME NEW c \in Conns, TableInv, HandshakeFail(c)
    PROVE  TableInv'
<1>. USE DEF TableInv, HandshakeFail, serverVars, Goto, UntrackPromoted, ClosePromoted
<1>1. TypeOK'
  BY MaxConnectionsAssumption DEF TypeOK
<1>2. StageInv'
  BY DEF StageInv, TypeOK
<1>3. CountInv'
  BY UntrackPromotedCount
<1>4. CloseInv'
  BY DEF CloseInv, Live, StageInv, TypeOK
<1>. QED
  BY <1>1, <1>2, <1>3, <1>4

LEMMA HandshakeDoneStep ==
    ASSUME NEW c \in Conns, TableInv, HandshakeDone(c)
    PROVE  TableInv'
<1>. USE DEF TableInv, HandshakeDone, serverVars, Goto
<1>1. TypeOK'
  BY MaxConnectionsAssumption DEF TypeOK
<1>2. StageInv'
  BY DEF StageInv, TypeOK
<1>3. CountInv'
  BY CountFrame
<1>4. CloseInv'
  BY DEF CloseInv, Live, StageInv, TypeOK
<1>. QED
  BY <1>1, <1>2, <1>3, <1>4

LEMMA DeferredUntrackStep ==
    ASSUME NEW c \in Conns, TableInv, DeferredUntrack(c)
    PROVE  TableInv'
<1>. USE DEF TableInv, DeferredUntrack, serverVars, UntrackPromoted
<1>1. TypeOK'
  BY MaxConnectionsAssumption DEF TypeOK
<1>2. StageInv'
  BY DEF StageInv, TypeOK
<1>3. CountInv'
  BY UntrackPromotedCount
<1>4. CloseInv'
  BY DEF CloseInv, Live, StageInv, TypeOK
<1>. QED
  BY <1>1, <1>2, <1>3, <1>4

LEMMA InterceptEndStep ==
    ASSUME NEW c \in Conns, TableInv, InterceptEnd(c)
    PROVE  TableInv'
<1>. USE DEF TableInv, InterceptEnd, serverVars, Goto, UntrackPromoted, ClosePromoted
<1>1. TypeOK'
  BY MaxConnectionsAssumption DEF TypeOK
<1>2. StageInv'
  BY DEF StageInv, TypeOK
<1>3. CountInv'
  BY UntrackPromotedCount
<1>4. CloseInv'
  BY DEF CloseInv, Live, StageInv, TypeOK
<1>. QED
  BY <1>1, <1>2, <1>3, <1>4

LEMMA CloseRawConnStep ==
    ASSUME NEW c \in Conns, TableInv, CloseRawConn(c)
    PROVE  TableInv'
<1>. USE DEF TableInv, CloseRawConn, serverVars
<1>1. TypeOK'
  BY MaxConnectionsAssumption DEF TypeOK
<1>2. StageInv'
  BY DEF StageInv, TypeOK
<1>3. CountInv'
  BY CountFrame
<1>4. CloseInv'
  BY DEF CloseInv, Live, StageInv, TypeOK
<1>. QED
  BY <1>1, <1>2, <1>3, <1>4

LEMMA ClosePromotedConnStep ==
    ASSUME NEW c \in Conns, TableInv, ClosePromotedConn(c)
    PROVE  TableInv'
<1>. USE DEF TableInv, ClosePromotedConn, serverVars, UntrackPromoted, ClosePromoted
<1>1. TypeOK'
  BY MaxConnectionsAssumption DEF TypeOK
<1>2. StageInv'
  BY DEF StageInv, CloseInv, TypeOK
<1>3. CountInv'
  BY UntrackPromotedCount
<1>4. CloseInv'
  BY DEF CloseInv, Live, StageInv, TypeOK
<1>. QED
  BY <1>1, <1>2, <1>3, <1>4

LEMMA ReleaseStep ==
    ASSUME TableInv, Release
    PROVE  TableInv'
<1>. USE DEF TableInv, Release, serverVars
<1>1. TypeOK'
  BY MaxConnectionsAssumption DEF TypeOK
<1>2. StageInv'
  BY DEF StageInv, TypeOK
<1>3. CountInv'
  BY FiniteTable, FS_AddElement, FS_RemoveElement DEF CountInv, StageInv, TypeOK
<1>4. CloseInv'
  BY DEF CloseInv, Live, StageInv, TypeOK
<1>. QED
  BY <1>1, <1>2, <1>3, <1>4

LEMMA CloseSnapshotStep ==
    ASSUME TableInv, CloseSnapshot
    PROVE  TableInv'
<1>. USE DEF TableInv, CloseSnapshot, serverVars
<1>1. TypeOK'
  BY MaxConnectionsAssumption DEF TypeOK
<1>2. StageInv'
  BY DEF StageInv, TypeOK
<1>3. CountInv'
  BY CountFrame
<1>4. CloseInv'
  BY DEF CloseInv, Live, StageInv, TypeOK
<1>. QED
  BY <1>1, <1>2, <1>3, <1>4

LEMMA CloseHTTPStep ==
    ASSUME TableInv, CloseHTTP
    PROVE  TableInv'
<1>. USE DEF TableInv, CloseHTTP, serverVars
<1>1. TypeOK'
  BY MaxConnectionsAssumption DEF TypeOK
<1>2. StageInv'
  BY DEF StageInv, TypeOK
<1>3. CountInv'
  BY CountFrame
<1>4. CloseInv'
  BY DEF CloseInv, Live, StageInv, TypeOK
<1>. QED
  BY <1>1, <1>2, <1>3, <1>4

LEMMA CloseReturnStep ==
    ASSUME TableInv, CloseReturn
    PROVE  TableInv'
<1>. USE DEF TableInv, CloseReturn, serverVars
<1>1. TypeOK'
  BY MaxConnectionsAssumption DEF TypeOK
<1>2. StageInv'
  BY DEF StageInv, TypeOK
<1>3. CountInv'
  BY CountFrame
<1>4. CloseInv'
  BY DEF CloseInv, Live, StageInv, TypeOK
<1>. QED
  BY <1>1, <1>2, <1>3, <1>4

LEMMA InitInv == Init => TableInv
<1>. SUFFICES ASSUME Init PROVE TableInv
  OBVIOUS
<1>1. TypeOK
  <2>1. 0 \in 0..MaxConnections /\ 0 \in Nat
    BY MaxConnectionsAssumption
  <2>. QED
    BY <2>1 DEF Init, TypeOK
<1>2. StageInv /\ CloseInv
  BY DEF Init, StageInv, CloseInv
<1>3. CountInv
  BY FS_EmptySet DEF Init, CountInv
<1>. QED
  BY <1>1, <1>2, <1>3 DEF TableInv

LEMMA NextInv == TableInv /\ [Next]_vars => TableInv'
<1>1. ASSUME TableInv, NEW c \in Conns, Conn(c) PROVE TableInv'
  BY <1>1, AcceptStep, StateNewStep, ServeEndStep, StateClosedStep, HijackStep, EstablishStep,
     EstablishFailStep, TrackHijackedStep, StartTunnelStep, TunnelEndStep, UntrackTunnelStep,
     PromoteStep, HandshakeFailStep, HandshakeDoneStep, DeferredUntrackStep, InterceptEndStep,
     CloseRawConnStep, ClosePromotedConnStep DEF Conn
<1>2. ASSUME TableInv, UNCHANGED vars PROVE TableInv'
  BY <1>2 DEF vars, serverVars, TableInv, TypeOK, StageInv, CountInv, CloseInv, Live
<1>. QED
  BY <1>1, <1>2, ReleaseStep, CloseSnapshotStep, CloseHTTPStep, CloseReturnStep DEF Next

(* The invariant is inductive, so it holds in every reachable state. *)
THEOREM TableInvariant == Spec => []TableInv
BY InitInv, NextInv, PTL DEF Spec

(* No slot is taken or given back twice (server.go, trackConn, untrackConn  *)
(* and promotedHijackedConn.Close), for any clients and any limit.          *)
THEOREM SlotAccounting == Spec => []SlotsMatchTable
<1>1. TableInv => SlotsMatchTable
  <2>. SUFFICES ASSUME TableInv PROVE SlotsMatchTable
    OBVIOUS
  <2>1. raw \cap promoted = {}
    BY DEF TableInv, StageInv, TypeOK
  <2>2. Cardinality(raw \cup promoted) = Cardinality(raw) + Cardinality(promoted)
    BY <2>1, FiniteTable, FS_Union, FS_EmptySet DEF TableInv
  <2>. QED
    BY <2>1, <2>2 DEF TableInv, CountInv, SlotsMatchTable, Active
<1>. QED
  BY <1>1, TableInvariant, PTL

(* The server never serves more clients than MaxConnections, through hijack *)
(* and promotion (server.go, handleConnect and handleAWSConnect).           *)
THEOREM AdmissionBound == Spec => []LiveIsAdmitted
<1>1. TableInv /\ SlotsMatchTable => LiveIsAdmitted
  <2>. SUFFICES ASSUME TableInv, SlotsMatchTable PROVE LiveIsAdmitted
    OBVIOUS
  <2>. DEFINE L == {c \in Conns : Live(c)}
  <2>1. \A c \in Conns : Live(c) => c \in Active
    BY DEF TableInv, StageInv, TypeOK, Live, Active
  <2>2. IsFiniteSet(Active) /\ Cardinality(Active) \in Nat
    BY ConnsAssumption, FS_Subset, FS_CardinalityType DEF TableInv, TypeOK, Active
  <2>3. L \subseteq Active
    BY <2>1
  <2>4. Cardinality(L) <= Cardinality(Active) /\ Cardinality(L) \in Nat
    BY <2>2, <2>3, FS_Subset, FS_CardinalityType
  <2>5. Cardinality(Active) <= MaxConnections
    BY <2>2, MaxConnectionsAssumption DEF TableInv, TypeOK, SlotsMatchTable
  <2>. QED
    BY <2>1, <2>2, <2>4, <2>5, MaxConnectionsAssumption DEF LiveIsAdmitted
<1>. QED
  BY <1>1, TableInvariant, SlotAccounting, PTL

(* A returned Server.Close has closed every admitted socket (server.go,     *)
(* Close), whatever was hijacked or promoted while it ran.                  *)
THEOREM CloseCompleteness == Spec => []CloseClosesAll
<1>1. TableInv => CloseClosesAll
  BY DEF TableInv, CloseInv, CloseClosesAll
<1>. QED
  BY <1>1, TableInvariant, PTL

-----------------------------------------------------------------------------
(* The relayed connection: its route *)

\* The request passed the admission and is not for AWS.
Admitted == ~Refused(relay) /\ Class(relay) = "relay"

Before == {"admit", "resolve", "intercepted"}
RSteps == Before \cup {"dial", "exchange", "hijack", "establish", "tunnel", "done"}

\* What is dialled comes from the answer the validation saw.
Pinned(ip) == \E j \in DOMAIN lookups[1] : ip = NormalIP[lookups[1][j]]

RouteInv ==
  /\ relay \in Relays
  /\ rstep \in RSteps
  /\ lookups \in Seq(Seq(DOMAIN NormalIP))
  /\ Len(lookups) <= 1
  /\ rstep \in Before => lookups = <<>> /\ dialled = {}
  /\ rstep \in {"resolve", "dial"} => Admitted
  /\ rstep = "dial" => /\ Len(lookups) = 1 /\ ValidAnswers(lookups[1])
                       /\ pinned \in Seq(DOMAIN NormalIP) /\ pinned # <<>>
                       /\ \A i \in DOMAIN pinned : Pinned(pinned[i])
  /\ \A x \in dialled : /\ Len(lookups) = 1 /\ ValidAnswers(lookups[1])
                        /\ Pinned(x.ip)
                        /\ Admitted
                        /\ x.via = "direct" <=> ParentProxy(relay) = "direct"

\* An admitted request is for a host that is not AWS, and ParentProxy says
\* whether it goes past the proxy of its environment.
LEMMA AdmittedIsOther ==
  ASSUME relay \in Relays, Admitted
  PROVE  /\ relay.kind = "other"
         /\ ParentProxy(relay) = "direct" <=> Selected(relay) = "" \/ Excluded(relay)
<1>1. relay.kind = "other"
  BY RelayAssumption DEF Admitted, Refused, Class
<1>2. Selected(relay) \in {"", "http", "https"}
  BY DEF Admitted, Refused, ParentProxy
<1> QED BY <1>1, <1>2 DEF ParentProxy

LEMMA RouteGivesValidated == RouteInv => RelayIsValidated
<1> SUFFICES ASSUME RouteInv PROVE RelayIsValidated
  OBVIOUS
<1>1. ASSUME NEW x \in dialled
      PROVE  /\ \E i \in DOMAIN lookups[1] : x.ip = NormalIP[lookups[1][i]]
             /\ \A i \in DOMAIN lookups[1] : ~Prohibited(lookups[1][i])
             /\ relay.kind = "other"
             /\ x.via = "direct" <=> Selected(relay) = "" \/ Excluded(relay)
  BY AdmittedIsOther DEF RouteInv, Pinned, ValidAnswers
<1> QED BY <1>1 DEF RouteInv, RelayIsValidated

LEMMA RouteInit == RelayInit => RouteInv
  BY DEF RelayInit, RouteInv, RSteps, Before

\* The normal forms of an answer are addresses.
LEMMA PinnedIsSeq ==
  ASSUME NEW s \in Seq(DOMAIN NormalIP)
  PROVE  [i \in DOMAIN s |-> NormalIP[s[i]]] \in Seq(DOMAIN NormalIP)
<1>1. DOMAIN s = 1..Len(s) /\ Len(s) \in Nat
  OBVIOUS
<1>2. \A i \in 1..Len(s) : NormalIP[s[i]] \in DOMAIN NormalIP
  BY RelayAssumption
<1> QED BY <1>1, <1>2

LEMMA RouteResolve == RouteInv /\ Resolve => RouteInv'
<1> SUFFICES ASSUME RouteInv, Resolve PROVE RouteInv'
  OBVIOUS
<1>1. PICK s \in Resolutions[relay.host] :
        /\ lookups' = Append(lookups, s)
        /\ IF ValidAnswers(s) /\ relay.bodyFits
           THEN /\ rstep' = "dial"
                /\ pinned' = [i \in DOMAIN s |-> NormalIP[s[i]]]
           ELSE rstep' = "done" /\ UNCHANGED pinned
  BY DEF Resolve
<1>2. /\ rstep = "resolve" /\ lookups = <<>> /\ dialled = {} /\ Admitted /\ relay \in Relays
      /\ UNCHANGED <<relay, dialled>>
  BY DEF Resolve, RouteInv, Before
<1>3. s \in Seq(DOMAIN NormalIP)
  BY <1>2, AdmittedIsOther, RelayAssumption
<1>4. lookups' = <<s>>
  BY <1>1, <1>2, <1>3
<1>5. Admitted'
  BY <1>2 DEF Admitted, Refused, Class, ParentProxy, Selected, Setting, Excluded
<1>6. rstep' = "dial" => /\ ValidAnswers(lookups'[1])
                         /\ pinned' \in Seq(DOMAIN NormalIP) /\ pinned' # <<>>
                         /\ \A i \in DOMAIN pinned' : \E j \in DOMAIN lookups'[1] : pinned'[i] = NormalIP[lookups'[1][j]]
  <2> SUFFICES ASSUME rstep' = "dial"
               PROVE /\ ValidAnswers(s)
                     /\ pinned' \in Seq(DOMAIN NormalIP) /\ pinned' # <<>>
                     /\ \A i \in DOMAIN pinned' : \E j \in DOMAIN s : pinned'[i] = NormalIP[s[j]]
    BY <1>4
  <2>1. ValidAnswers(s) /\ pinned' = [i \in DOMAIN s |-> NormalIP[s[i]]]
    BY <1>1
  <2>2. pinned' \in Seq(DOMAIN NormalIP)
    BY <2>1, <1>3, PinnedIsSeq
  <2>3. s # <<>> /\ DOMAIN pinned' = DOMAIN s
    BY <2>1 DEF ValidAnswers
  <2>4. pinned' # <<>>
    BY <2>3, <2>2, <1>3
  <2> QED BY <2>1, <2>2, <2>3, <2>4
<1>7. ValidAnswers(lookups[1])' <=> ValidAnswers(lookups'[1])
  BY DEF ValidAnswers, Prohibited
<1>8. rstep' \in {"dial", "done"}
  BY <1>1
<1> QED BY <1>2, <1>3, <1>4, <1>5, <1>6, <1>7, <1>8 DEF RouteInv, RSteps, Before, Pinned

\* A dial takes the first of the pinned addresses.
LEMMA RouteDial == RouteInv /\ (Dial \/ DialProxy) => RouteInv'
<1> SUFFICES ASSUME RouteInv, Dial \/ DialProxy PROVE RouteInv'
  OBVIOUS
<1>1. /\ rstep = "dial" /\ Len(lookups) = 1 /\ ValidAnswers(lookups[1]) /\ Admitted /\ relay \in Relays
      /\ pinned \in Seq(DOMAIN NormalIP) /\ pinned # <<>>
      /\ \A i \in DOMAIN pinned : Pinned(pinned[i])
      /\ UNCHANGED <<relay, lookups>>
  BY DEF RouteInv, Dial, DialProxy
<1>2. /\ Admitted' /\ ParentProxy(relay)' = ParentProxy(relay) /\ ValidAnswers(lookups[1])'
      /\ \A ip : Pinned(ip)' <=> Pinned(ip)
  <2>1. Admitted' /\ ParentProxy(relay)' = ParentProxy(relay)
    BY <1>1 DEF Admitted, Refused, Class, ParentProxy, Selected, Setting, Excluded
  <2>2. ValidAnswers(lookups[1])'
    BY <1>1 DEF ValidAnswers, Prohibited
  <2>3. \A ip : Pinned(ip)' <=> Pinned(ip)
    BY <1>1 DEF Pinned
  <2> QED BY <2>1, <2>2, <2>3
<1>3. Pinned(Head(pinned))
  BY <1>1
<1>4. \A x \in dialled' : \/ x \in dialled
                          \/ x.ip = Head(pinned) /\ (x.via = "direct" <=> ParentProxy(relay) = "direct")
  BY DEF Dial, DialProxy
<1>5. \A x \in dialled' : Pinned(x.ip) /\ (x.via = "direct" <=> ParentProxy(relay) = "direct")
  BY <1>3, <1>4 DEF RouteInv
<1>6. rstep' \in {"dial", "done", "hijack", "exchange"}
  BY DEF Dial, DialProxy, Connected
<1>7. rstep' = "dial" => /\ pinned' \in Seq(DOMAIN NormalIP) /\ pinned' # <<>>
                         /\ \A i \in DOMAIN pinned' : Pinned(pinned'[i])
  <2> SUFFICES ASSUME rstep' = "dial"
               PROVE /\ pinned' \in Seq(DOMAIN NormalIP) /\ pinned' # <<>>
                     /\ \A i \in DOMAIN pinned' : Pinned(pinned'[i])
    OBVIOUS
  <2>1. pinned' = Tail(pinned) /\ Len(pinned) # 1
    BY DEF Dial, DialProxy, Connected
  <2>2. Len(Tail(pinned)) = Len(pinned) - 1 /\ Len(pinned) \in Nat /\ Len(pinned) # 0
    BY <1>1
  <2>3. \A i \in 1 .. Len(pinned) - 1 : Tail(pinned)[i] = pinned[i + 1] /\ i + 1 \in DOMAIN pinned
    BY <1>1
  <2> QED BY <1>1, <2>1, <2>2, <2>3
<1> QED BY <1>1, <1>2, <1>5, <1>6, <1>7 DEF RouteInv, RSteps, Before

\* No other step looks up, pins or dials.
LEMMA RouteRest ==
  ASSUME RouteInv, UNCHANGED <<relay, lookups, pinned, dialled>>,
         \/ rstep' = rstep
         \/ rstep' \in RSteps \ (Before \cup {"dial"})
  PROVE  RouteInv'
<1>1. /\ Admitted' <=> Admitted
      /\ ParentProxy(relay)' = ParentProxy(relay) /\ (ValidAnswers(lookups[1])' <=> ValidAnswers(lookups[1]))
      /\ \A ip : Pinned(ip)' <=> Pinned(ip)
  BY DEF Admitted, Refused, Class, ParentProxy, Selected, Setting, Excluded, ValidAnswers, Prohibited, Pinned
<1> QED BY <1>1 DEF RouteInv, RSteps, Before

LEMMA RouteAdmit == RouteInv /\ Admit => RouteInv'
<1> SUFFICES ASSUME RouteInv, Admit PROVE RouteInv'
  OBVIOUS
<1>1. /\ Admitted' <=> Admitted
      /\ UNCHANGED <<relay, lookups, pinned, dialled>>
  BY DEF Admit, Admitted, Refused, Class, ParentProxy, Selected, Setting, Excluded
<1>2. /\ rstep = "admit" /\ rstep' \in {"done", "intercepted", "resolve"}
      /\ rstep' = "resolve" => Admitted
  <2>1. Class(relay) \in {"aws", "error", "relay"}
    BY DEF Class
  <2>2. ~Refused(relay) => Class(relay) # "error"
    BY DEF Refused
  <2> QED BY <2>1, <2>2 DEF Admit, Admitted
<1> QED BY <1>1, <1>2 DEF RouteInv, RSteps, Before

LEMMA RouteNext == RouteInv /\ [RelayNext]_relayVars => RouteInv'
<1> SUFFICES ASSUME RouteInv, [RelayNext]_relayVars PROVE RouteInv'
  OBVIOUS
<1>1. CASE Admit
  BY <1>1, RouteAdmit
<1>2. CASE Resolve
  BY <1>2, RouteResolve
<1>3. CASE Dial \/ DialProxy
  BY <1>3, RouteDial
<1>4. CASE LookupFails \/ HTTPExchange \/ HijackClient \/ EstablishTunnel
  BY <1>4, RouteRest DEF LookupFails, HTTPExchange, HijackClient, EstablishTunnel, RSteps, Before
<1>5. CASE Selecting \/ CutTunnel(TRUE) \/ TimerTicks
  BY <1>5, RouteRest DEF Selecting, TakeDone, TakeActivity, CutTunnel, TimerTicks, TunnelReturn, RSteps, Before, requestVars
<1>6. CASE \E d \in Directions : Copying(d) \/ CopierWrites(d) \/ WriteFails(d)
  BY <1>6, RouteRest DEF Copying, CopierReads, CopierEnds, CopierReports, CopierWrites, WriteFails, requestVars
<1>7. CASE UNCHANGED relayVars
  BY <1>7, RouteRest DEF relayVars
<1> QED BY <1>1, <1>2, <1>3, <1>4, <1>5, <1>6, <1>7 DEF RelayNext, Connecting

\* What is dialled or asked of a parent proxy is an address of the one answer
\* that was validated as a whole, for a host that is not AWS.
THEOREM RelayValidated == RelaySpec => []RelayIsValidated
  BY RouteInit, RouteNext, RouteGivesValidated, PTL DEF RelaySpec
-----------------------------------------------------------------------------
(* The tunnel *)

Copiers == {"none", "reading", "writing", "ended", "done"}
Reported(d) == IF copier[d] = "done" THEN 1 ELSE 0

FlowType ==
  /\ relay \in Relays
  /\ rstep \in RSteps
  /\ copied \in [Directions -> Seq(Nat)]
  /\ taken \in [Directions -> Nat]
  /\ copier \in [Directions -> Copiers]
  /\ copyDone \in Nat /\ finished \in Nat
  /\ ending \in {"none", "whole", "cut", "lost"}

\* A goroutine has written what it has read, but for the byte in its hand.
CopyInv ==
  \A d \in Directions :
    /\ \A i \in 1 .. Len(copied[d]) : copied[d][i] = i
    /\ copier[d] \in {"none", "reading"} => taken[d] = Len(copied[d])
    /\ copier[d] = "writing" => taken[d] = Len(copied[d]) + 1
    /\ taken[d] <= relay.sends[d]

\* The goroutines run while the tunnel does and afterwards; one that ended by
\* itself in a tunnel that nobody has cut has written everything.
EndInv ==
  /\ rstep \in {"hijack", "establish", "tunnel"} => upOpen
  /\ rstep \in {"establish", "tunnel"} => clOpen
  /\ rstep = "tunnel" => ending \in {"none", "lost"}
  /\ \A d \in Directions :
       /\ copier[d] # "none" => rstep = "tunnel" \/ (rstep = "done" /\ ending # "none")
       /\ ending = "none" /\ copier[d] \in {"ended", "done"} => Len(copied[d]) = relay.sends[d]
       /\ ending = "whole" => copier[d] = "done" /\ Len(copied[d]) = relay.sends[d]
  /\ rstep \notin {"tunnel", "done"} => ending = "none"

\* The messages sent, received or not, are those of the goroutines that are done.
CopyCountInv == copyDone + finished = Reported("up") + Reported("down")

FlowInv == FlowType /\ CopyInv /\ EndInv /\ CopyCountInv

LEMMA SendsType == ASSUME relay \in Relays, NEW d \in Directions PROVE relay.sends[d] \in Nat
  BY RelayAssumption

LEMMA FlowGivesWhole == FlowInv => TunnelIsWhole
<1> SUFFICES ASSUME FlowInv, NEW d \in Directions
             PROVE  /\ copied[d] = [i \in 1 .. Len(copied[d]) |-> i]
                    /\ ending = "whole" => Len(copied[d]) = relay.sends[d]
  BY DEF TunnelIsWhole
<1>1. copied[d] \in Seq(Nat)
  BY DEF FlowInv, FlowType
<1>2. DOMAIN copied[d] = 1 .. Len(copied[d]) /\ copied[d] = [i \in DOMAIN copied[d] |-> copied[d][i]]
  BY <1>1
<1>3. copied[d] = [i \in 1 .. Len(copied[d]) |-> i]
  BY <1>2 DEF FlowInv, CopyInv
<1> QED BY <1>3 DEF FlowInv, EndInv

LEMMA FlowInit == RelayInit => FlowInv
<1> SUFFICES ASSUME RelayInit PROVE FlowInv
  OBVIOUS
<1> USE DEF RelayInit
<1>1. FlowType
  BY DEF FlowType, RSteps, Before, Copiers
<1>2. CopyInv
  BY SendsType DEF CopyInv
<1>3. EndInv
  BY DEF EndInv
<1>4. CopyCountInv
  BY DEF CopyCountInv, Reported, Directions
<1> QED BY <1>1, <1>2, <1>3, <1>4 DEF FlowInv

\* Before the tunnel nothing flows.
LEMMA FlowConnecting == FlowInv /\ Connecting => FlowInv'
<1> SUFFICES ASSUME FlowInv, Connecting PROVE FlowInv'
  OBVIOUS
<1>1. /\ rstep \notin {"tunnel", "done"} /\ rstep' \in RSteps
      /\ UNCHANGED <<relay, held, taken, copied, activity, ticks, copyDone, finished, ending>>
      /\ rstep' = "hijack" => upOpen'
      /\ rstep' = "establish" => rstep = "hijack" /\ clOpen' /\ upOpen' = upOpen
      /\ \/ rstep' # "tunnel" /\ copier' = copier
         \/ /\ rstep = "establish" /\ rstep' = "tunnel" /\ copier' = [d \in Directions |-> "reading"]
            /\ UNCHANGED <<upOpen, clOpen>>
  BY DEF Connecting, Admit, Resolve, LookupFails, Dial, DialProxy, HTTPExchange, HijackClient, EstablishTunnel,
         Connected, RSteps, Before, flowVars
<1>2. ending = "none" /\ \A d \in Directions : copier[d] = "none"
  BY <1>1 DEF FlowInv, EndInv
<1>3. rstep \in {"hijack", "establish"} => upOpen
  BY DEF FlowInv, EndInv
<1>4. FlowType' /\ CopyInv'
  BY <1>1, <1>2 DEF FlowInv, FlowType, CopyInv, Copiers
<1>5. EndInv'
  BY <1>1, <1>2, <1>3 DEF FlowInv, EndInv
<1>6. CopyCountInv'
  BY <1>1, <1>2 DEF FlowInv, CopyCountInv, Reported, Directions
<1> QED BY <1>4, <1>5, <1>6 DEF FlowInv

LEMMA FlowReads == ASSUME FlowInv, NEW d \in Directions, CopierReads(d) PROVE FlowInv'
<1> USE DEF FlowInv, CopierReads, requestVars
<1>1. FlowType'
  <2>1. /\ taken' \in [Directions -> Nat] /\ copier' \in [Directions -> Copiers]
        /\ UNCHANGED <<relay, rstep, copied, copyDone, finished, ending>>
    BY DEF FlowType, Copiers
  <2> QED BY <2>1 DEF FlowType
<1>2. CopyInv'
  BY SendsType DEF FlowType, CopyInv, NextByte
<1>3. EndInv'
  BY DEF FlowType, EndInv
<1>4. CopyCountInv'
  BY DEF FlowType, CopyCountInv, Reported, Directions
<1> QED BY <1>1, <1>2, <1>3, <1>4

LEMMA FlowEnds == ASSUME FlowInv, NEW d \in Directions, CopierEnds(d) PROVE FlowInv'
<1> USE DEF FlowInv, CopierEnds, requestVars
<1>1. FlowType'
  BY DEF FlowType, Copiers
<1>2. CopyInv'
  BY DEF FlowType, CopyInv
<1>3. ending = "none" => Len(copied[d]) = relay.sends[d]
  <2> SUFFICES ASSUME ending = "none" PROVE Len(copied[d]) = relay.sends[d]
    OBVIOUS
  <2>1. rstep = "tunnel" /\ upOpen /\ clOpen
    BY DEF EndInv
  <2>2. taken[d] + 1 > relay.sends[d]
    BY <2>1 DEF SourceOpen, NextByte
  <2>3. taken[d] = Len(copied[d]) /\ taken[d] <= relay.sends[d] /\ taken[d] \in Nat
    BY DEF CopyInv, FlowType
  <2>4. relay.sends[d] \in Nat
    BY SendsType DEF FlowType
  <2> HIDE DEF FlowInv, CopierEnds
  <2> QED BY <2>2, <2>3, <2>4
<1>4. EndInv'
  BY <1>3 DEF FlowType, EndInv
<1>5. CopyCountInv'
  BY DEF FlowType, CopyCountInv, Reported, Directions
<1> QED BY <1>1, <1>2, <1>4, <1>5

LEMMA FlowWrites == ASSUME FlowInv, NEW d \in Directions, CopierWrites(d) PROVE FlowInv'
<1> USE DEF FlowInv, CopierWrites, requestVars
<1>1. /\ taken[d] = Len(copied[d]) + 1 /\ taken[d] \in Nat /\ copied[d] \in Seq(Nat)
      /\ copied' = [copied EXCEPT ![d] = Append(copied[d], taken[d])]
      /\ copied \in [Directions -> Seq(Nat)]
  <2>1. taken[d] = Len(copied[d]) + 1 /\ taken[d] \in Nat /\ copied[d] \in Seq(Nat)
    BY DEF CopyInv, FlowType
  <2>2. NextByte(d) - 1 = taken[d]
    BY <2>1 DEF NextByte
  <2> QED BY <2>1, <2>2 DEF FlowType
<1>2. Append(copied[d], taken[d]) \in Seq(Nat) /\ Len(Append(copied[d], taken[d])) = Len(copied[d]) + 1
  BY <1>1
<1>3. FlowType'
  BY <1>1, <1>2 DEF FlowType, Copiers
<1>4. CopyInv'
  <2> SUFFICES ASSUME NEW e \in Directions
               PROVE (/\ \A i \in 1 .. Len(copied[e]) : copied[e][i] = i
                      /\ copier[e] \in {"none", "reading"} => taken[e] = Len(copied[e])
                      /\ copier[e] = "writing" => taken[e] = Len(copied[e]) + 1
                      /\ taken[e] <= relay.sends[e])'
    BY DEF CopyInv
  <2>1. CASE e # d
    BY <2>1, <1>1 DEF CopyInv, FlowType
  <2>2. CASE e = d
    <3>1. copied'[d] = Append(copied[d], taken[d]) /\ copier'[d] = "reading" /\ taken' = taken /\ relay' = relay
      BY <1>1 DEF FlowType
    <3>2. \A i \in 1 .. Len(copied[d]) : copied[d][i] = i
      BY DEF CopyInv
    <3>3. \A i \in 1 .. Len(copied[d]) + 1 : Append(copied[d], taken[d])[i] = i
      BY <1>1, <3>2
    <3> QED BY <2>2, <3>1, <3>3, <1>1, <1>2 DEF CopyInv
  <2> QED BY <2>1, <2>2
<1>5. EndInv'
  BY <1>1 DEF FlowType, EndInv
<1>6. CopyCountInv'
  BY DEF FlowType, CopyCountInv, Reported, Directions
<1> QED BY <1>3, <1>4, <1>5, <1>6

LEMMA FlowFails == ASSUME FlowInv, NEW d \in Directions, WriteFails(d) PROVE FlowInv'
<1> USE DEF FlowInv, WriteFails, requestVars
<1>1. FlowType'
  BY DEF FlowType, Copiers
<1>2. CopyInv'
  BY DEF FlowType, CopyInv
<1>3. EndInv'
  BY DEF FlowType, EndInv
<1>4. CopyCountInv'
  BY DEF FlowType, CopyCountInv, Reported, Directions
<1> QED BY <1>1, <1>2, <1>3, <1>4

LEMMA FlowReports == ASSUME FlowInv, NEW d \in Directions, CopierReports(d) PROVE FlowInv'
<1> USE DEF FlowInv, CopierReports, requestVars
<1>1. FlowType'
  BY DEF FlowType, Copiers
<1>2. CopyInv'
  BY DEF FlowType, CopyInv
<1>3. EndInv'
  BY DEF FlowType, EndInv
<1>4. CopyCountInv'
  BY DEF FlowType, CopyCountInv, Reported, Directions
<1> QED BY <1>1, <1>2, <1>3, <1>4

\* The second message comes when both goroutines have ended.
LEMMA FlowTakeDone == FlowInv /\ TakeDone => FlowInv'
<1> SUFFICES ASSUME FlowInv, TakeDone PROVE FlowInv'
  OBVIOUS
<1> USE DEF FlowInv, TakeDone
<1>1. FlowType'
  BY DEF FlowType, TunnelReturn, RSteps, Before
<1>2. CopyInv'
  BY DEF FlowType, CopyInv
<1>3. LastDirection => \A d \in Directions : copier[d] = "done"
  BY DEF FlowType, CopyCountInv, Reported, LastDirection, Directions
<1>4. EndInv'
  <2>1. CASE LastDirection
    BY <2>1, <1>3 DEF FlowType, EndInv, TunnelReturn
  <2>2. CASE ~LastDirection
    BY <2>2 DEF FlowType, EndInv
  <2> QED BY <2>1, <2>2
<1>5. CopyCountInv'
  BY DEF FlowType, CopyCountInv, Reported
<1> QED BY <1>1, <1>2, <1>4, <1>5

LEMMA FlowCut == ASSUME FlowInv, NEW c \in BOOLEAN, CutTunnel(c) PROVE FlowInv'
<1> USE DEF FlowInv, CutTunnel, TunnelReturn
<1>1. FlowType' /\ CopyInv' /\ CopyCountInv'
  BY DEF FlowType, CopyInv, CopyCountInv, Reported, RSteps, Before
<1>2. EndInv'
  BY DEF EndInv
<1> QED BY <1>1, <1>2

LEMMA FlowRest ==
  ASSUME FlowInv, UNCHANGED <<requestVars, taken, copied, copier, copyDone, finished, ending>> PROVE FlowInv'
  BY DEF FlowInv, FlowType, CopyInv, EndInv, CopyCountInv, Reported, requestVars

LEMMA FlowNext == FlowInv /\ [RelayNext]_relayVars => FlowInv'
<1> SUFFICES ASSUME FlowInv, [RelayNext]_relayVars PROVE FlowInv'
  OBVIOUS
<1>1. CASE Connecting
  BY <1>1, FlowConnecting
<1>2. CASE TakeDone
  BY <1>2, FlowTakeDone
<1>3. CASE TakeActivity \/ TimerTicks
  BY <1>3, FlowRest DEF TakeActivity, TimerTicks
<1>4. CASE CutTunnel(TRUE) \/ CutTunnel(FALSE)
  BY <1>4, FlowCut
<1>5. CASE \E d \in Directions : Copying(d) \/ CopierWrites(d) \/ WriteFails(d)
  BY <1>5, FlowReads, FlowEnds, FlowReports, FlowWrites, FlowFails DEF Copying
<1>6. CASE UNCHANGED relayVars
  BY <1>6, FlowRest DEF relayVars, requestVars
<1> QED BY <1>1, <1>2, <1>3, <1>4, <1>5, <1>6 DEF RelayNext, Selecting

\* The tunnel hands on in order what each side sends, from the first buffered
\* byte, and everything when it ends by itself.
THEOREM TunnelWhole == RelaySpec => []TunnelIsWhole
  BY FlowInit, FlowNext, FlowGivesWhole, PTL DEF RelaySpec
=============================================================================
