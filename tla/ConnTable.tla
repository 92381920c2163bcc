----------------------------- MODULE ConnTable -----------------------------
(***************************************************************************)
(* Admission and release of client connections in internal/proxy/server.go *)
(* and tunnel.go: the bounded channel connectionSlots, the map active, the *)
(* net/http ConnState callback, the handlers that hijack a CONNECT (opaque *)
(* tunnel or intercepted TLS), the promoted connection whose Close gives   *)
(* the slot back, and Server.Close.                                        *)
(*                                                                         *)
(* A connection is in `raw' while active holds the net/http connection and *)
(* in `promoted' once the wrapper has replaced it.  Critical sections of   *)
(* Server.mu are single steps.                                             *)
(***************************************************************************)
EXTENDS Naturals, FiniteSets

CONSTANTS
    Conns,              \* client connections
    MaxConnections,     \* capacity of connectionSlots
    EstablishMayFail    \* the client may be gone when 200 is written

ASSUME ConnsAssumption == IsFiniteSet(Conns)
ASSUME MaxConnectionsAssumption == MaxConnections \in Nat \ {0}
ASSUME EstablishAssumption == EstablishMayFail \in BOOLEAN

VARIABLES
    stage,      \* which goroutine owns the connection, and where it is
    open,       \* connections whose socket the proxy has not closed
    raw,        \* keys of active: net/http connections
    promoted,   \* keys of active: promotedHijackedConn
    swapped,    \* promotedHijackedConn.closed
    defers,     \* serveInterceptedTLS has yet to run its deferred untrackConn
    slots,      \* len(connectionSlots)
    releasing,  \* untrackConn calls between delete and the channel receive
    closed,     \* Server.closed
    closing,    \* Close: "no", "snapshot", "conns", "done"
    snapRaw,        \* net/http connections that Close has yet to close
    snapPromoted    \* wrappers that Close has yet to close

serverVars == <<closed, closing, snapRaw, snapPromoted>>
vars == <<stage, open, raw, promoted, swapped, defers, slots, releasing, serverVars>>

TypeOK ==
    /\ stage \in [Conns -> {"none", "accepted", "serving", "ended", "hijacked",
                            "established", "tracked", "tunnel", "tunnelled",
                            "handshake", "intercepted", "unanswered", "gone"}]
    /\ open \subseteq Conns
    /\ raw \subseteq Conns
    /\ promoted \subseteq Conns
    /\ swapped \subseteq Conns
    /\ defers \subseteq Conns
    /\ slots \in 0..MaxConnections
    /\ releasing \in Nat
    /\ closed \in BOOLEAN
    /\ closing \in {"no", "snapshot", "conns", "done"}
    /\ snapRaw \subseteq Conns
    /\ snapPromoted \subseteq Conns

Init ==
    /\ stage = [c \in Conns |-> "none"]
    /\ open = {}
    /\ raw = {}
    /\ promoted = {}
    /\ swapped = {}
    /\ defers = {}
    /\ slots = 0
    /\ releasing = 0
    /\ closed = FALSE
    /\ closing = "no"
    /\ snapRaw = {}
    /\ snapPromoted = {}

Goto(c, place) == stage' = [stage EXCEPT ![c] = place]

-----------------------------------------------------------------------------
(* The table *)

(* Mutant: trackConn forgets closed. *)
TrackRefusedNoClosed(c) == c \notin raw /\ slots = MaxConnections

(* When trackConn returns false, and its effect: idempotent when it is true. *)
TrackRefused(c) == closed \/ (c \notin raw /\ slots = MaxConnections)

TrackConn(c) ==
    IF TrackRefused(c)
      THEN UNCHANGED <<raw, slots>>
      ELSE /\ raw' = raw \cup {c}
           /\ slots' = IF c \in raw THEN slots ELSE slots + 1

(* Mutant: a slot is given back whether or not the entry was there. *)
UntrackRawAlways(c) ==
    /\ raw' = raw \ {c}
    /\ releasing' = releasing + 1

(* untrackConn of a net/http connection: the delete, under mu. *)
UntrackRaw(c) ==
    /\ raw' = raw \ {c}
    /\ releasing' = IF c \in raw THEN releasing + 1 ELSE releasing

(* untrackConn of a wrapper does nothing until the wrapper is closed. *)
UntrackPromoted(c, isClosed) ==
    /\ promoted' = IF isClosed THEN promoted \ {c} ELSE promoted
    /\ releasing' = IF isClosed /\ c \in promoted THEN releasing + 1 ELSE releasing

(* The rest of untrackConn: a receive that does not wait. *)
Release ==
    /\ releasing > 0
    /\ releasing' = releasing - 1
    /\ slots' = IF slots > 0 THEN slots - 1 ELSE slots
    /\ UNCHANGED <<stage, open, raw, promoted, swapped, defers, serverVars>>

(* promotedHijackedConn.Close: the socket, then the swap whose winner untracks. *)
ClosePromoted(c) ==
    /\ open' = open \ {c}
    /\ swapped' = swapped \cup {c}
    /\ UntrackPromoted(c, c \notin swapped)

-----------------------------------------------------------------------------
(* net/http *)

(* The listener accepts until http.Server.Close has closed it. *)
Accept(c) ==
    /\ stage[c] = "none"
    /\ closing \in {"no", "snapshot"}
    /\ Goto(c, "accepted")
    /\ open' = open \cup {c}
    /\ UNCHANGED <<raw, promoted, swapped, defers, slots, releasing, serverVars>>

(* connState with StateNew; a refused connection is closed. *)
StateNew(c) ==
    /\ stage[c] = "accepted"
    /\ Goto(c, "serving")
    /\ TrackConn(c)
    /\ open' = IF TrackRefused(c) THEN open \ {c} ELSE open
    /\ UNCHANGED <<promoted, swapped, defers, releasing, serverVars>>

(* net/http stops serving: the client left, a timeout, a closed socket. *)
ServeEnd(c) ==
    /\ stage[c] = "serving"
    /\ Goto(c, "ended")
    /\ open' = open \ {c}
    /\ UNCHANGED <<raw, promoted, swapped, defers, slots, releasing, serverVars>>

(* connState with StateClosed. *)
StateClosed(c) ==
    /\ stage[c] = "ended"
    /\ Goto(c, "gone")
    /\ UntrackRaw(c)
    /\ UNCHANGED <<open, promoted, swapped, defers, slots, serverVars>>

-----------------------------------------------------------------------------
(* CONNECT handlers *)

(* A request was read and its handler hijacks; StateHijacked keeps the entry. *)
Hijack(c) ==
    /\ stage[c] = "serving"
    /\ c \in open
    /\ Goto(c, "hijacked")
    /\ UNCHANGED <<open, raw, promoted, swapped, defers, slots, releasing, serverVars>>

Establish(c) ==
    /\ stage[c] = "hijacked"
    /\ c \in open
    /\ Goto(c, "established")
    /\ UNCHANGED <<open, raw, promoted, swapped, defers, slots, releasing, serverVars>>

(* writeConnectEstablished fails: the handlers close the client and return. *)
EstablishFail(c) ==
    /\ stage[c] = "hijacked"
    /\ EstablishMayFail \/ c \notin open
    /\ Goto(c, "unanswered")
    /\ open' = open \ {c}
    /\ UNCHANGED <<raw, promoted, swapped, defers, slots, releasing, serverVars>>

(* trackConn after the hijack, which finds the entry StateNew has made. *)
TrackHijacked(c) ==
    /\ stage[c] = "established"
    /\ TrackConn(c)
    /\ Goto(c, IF TrackRefused(c) THEN "gone" ELSE "tracked")
    /\ open' = IF TrackRefused(c) THEN open \ {c} ELSE open
    /\ UNCHANGED <<promoted, swapped, defers, releasing, serverVars>>

(* handleConnect: the opaque tunnel, which closes the client when it returns. *)
StartTunnel(c) ==
    /\ stage[c] = "tracked"
    /\ Goto(c, "tunnel")
    /\ UNCHANGED <<open, raw, promoted, swapped, defers, slots, releasing, serverVars>>

TunnelEnd(c) ==
    /\ stage[c] = "tunnel"
    /\ Goto(c, "tunnelled")
    /\ open' = open \ {c}
    /\ UNCHANGED <<raw, promoted, swapped, defers, slots, releasing, serverVars>>

(* Mutant: handleConnect does not untrack the client after the tunnel. *)
UntrackTunnelForgotten(c) ==
    /\ stage[c] = "tunnelled"
    /\ Goto(c, "gone")
    /\ UNCHANGED <<open, raw, promoted, swapped, defers, slots, releasing, serverVars>>

UntrackTunnel(c) ==
    /\ stage[c] = "tunnelled"
    /\ Goto(c, "gone")
    /\ UntrackRaw(c)
    /\ UNCHANGED <<open, promoted, swapped, defers, slots, serverVars>>

(* handleAWSConnect: promoteHijackedConn, then serveInterceptedTLS as a goroutine. *)
Promote(c) ==
    /\ stage[c] = "tracked"
    /\ Goto(c, "handshake")
    /\ raw' = raw \ {c}
    /\ promoted' = IF c \in raw THEN promoted \cup {c} ELSE promoted
    /\ defers' = defers \cup {c}
    /\ UNCHANGED <<open, swapped, slots, releasing, serverVars>>

(* No leaf certificate, or the handshake failed: the wrapper is closed. *)
HandshakeFail(c) ==
    /\ stage[c] = "handshake"
    /\ Goto(c, "gone")
    /\ ClosePromoted(c)
    /\ UNCHANGED <<raw, defers, slots, serverVars>>

(* The inner server has the connection; its Serve returns at once. *)
HandshakeDone(c) ==
    /\ stage[c] = "handshake"
    /\ c \in open
    /\ Goto(c, "intercepted")
    /\ UNCHANGED <<open, raw, promoted, swapped, defers, slots, releasing, serverVars>>

(* The deferred untrackConn of serveInterceptedTLS. *)
DeferredUntrack(c) ==
    /\ c \in defers
    /\ stage[c] # "handshake"
    /\ defers' = defers \ {c}
    /\ UntrackPromoted(c, c \in swapped)
    /\ UNCHANGED <<stage, open, raw, swapped, slots, serverVars>>

(* The inner server closes the TLS connection, and with it the wrapper. *)
InterceptEnd(c) ==
    /\ stage[c] = "intercepted"
    /\ Goto(c, "gone")
    /\ ClosePromoted(c)
    /\ UNCHANGED <<raw, defers, slots, serverVars>>

-----------------------------------------------------------------------------
(* Server.Close *)

CloseSnapshot ==
    /\ closing = "no"
    /\ closed' = TRUE
    /\ closing' = "snapshot"
    /\ snapRaw' = raw
    /\ snapPromoted' = promoted
    /\ UNCHANGED <<stage, open, raw, promoted, swapped, defers, slots, releasing>>

(* http.Server.Close: the listener and the connections net/http serves. *)
CloseHTTP ==
    /\ closing = "snapshot"
    /\ closing' = "conns"
    /\ open' = open \ {c \in Conns : stage[c] = "serving"}
    /\ UNCHANGED <<stage, raw, promoted, swapped, defers, slots, releasing,
                   closed, snapRaw, snapPromoted>>

(* The key of the time of the snapshot is closed: below a wrapper made since, *)
(* only the socket.                                                           *)
CloseRawConn(c) ==
    /\ closing = "conns"
    /\ c \in snapRaw
    /\ snapRaw' = snapRaw \ {c}
    /\ open' = open \ {c}
    /\ UNCHANGED <<stage, raw, promoted, swapped, defers, slots, releasing,
                   closed, closing, snapPromoted>>

ClosePromotedConn(c) ==
    /\ closing = "conns"
    /\ c \in snapPromoted
    /\ snapPromoted' = snapPromoted \ {c}
    /\ ClosePromoted(c)
    /\ UNCHANGED <<stage, raw, defers, slots, closed, closing, snapRaw>>

CloseReturn ==
    /\ closing = "conns"
    /\ snapRaw = {} /\ snapPromoted = {}
    /\ closing' = "done"
    /\ UNCHANGED <<stage, open, raw, promoted, swapped, defers, slots, releasing,
                   closed, snapRaw, snapPromoted>>

-----------------------------------------------------------------------------
Conn(c) ==
    \/ Accept(c) \/ StateNew(c) \/ ServeEnd(c) \/ StateClosed(c)
    \/ Hijack(c) \/ Establish(c) \/ EstablishFail(c) \/ TrackHijacked(c)
    \/ StartTunnel(c) \/ TunnelEnd(c) \/ UntrackTunnel(c)
    \/ Promote(c) \/ HandshakeFail(c) \/ HandshakeDone(c)
    \/ DeferredUntrack(c) \/ InterceptEnd(c)
    \/ CloseRawConn(c) \/ ClosePromotedConn(c)

Next ==
    \/ Release \/ CloseSnapshot \/ CloseHTTP \/ CloseReturn
    \/ \E c \in Conns : Conn(c)

Spec == Init /\ [][Next]_vars

(* Goroutines that can run do.  Nobody must connect, ask for a CONNECT or   *)
(* hang up; but a read on a closed socket fails, the handshake has a        *)
(* deadline, and Close, once called, goes on.                               *)
Fairness ==
    /\ WF_vars(Release)
    /\ WF_vars(CloseHTTP \/ CloseReturn)
    /\ \A c \in Conns :
          /\ WF_vars(StateNew(c) \/ StateClosed(c))
          /\ WF_vars(Establish(c) \/ EstablishFail(c))
          /\ WF_vars(TrackHijacked(c))
          /\ WF_vars(StartTunnel(c) \/ Promote(c))
          /\ WF_vars(UntrackTunnel(c))
          /\ WF_vars(HandshakeFail(c) \/ HandshakeDone(c))
          /\ WF_vars(DeferredUntrack(c))
          /\ WF_vars(c \notin open /\ (ServeEnd(c) \/ TunnelEnd(c) \/ InterceptEnd(c)))
          /\ WF_vars(CloseRawConn(c) \/ ClosePromotedConn(c))

FairSpec == Spec /\ Fairness

-----------------------------------------------------------------------------
(* Properties *)

Active == raw \cup promoted

(* Past the StateNew callback, with a socket that is still open. *)
Live(c) == c \in open /\ stage[c] \notin {"none", "accepted"}

(* A connection holds one slot from trackConn to the end of untrackConn,    *)
(* however the StateClosed callback, the deferred untrackConn, the inner    *)
(* server and Server.Close overlap: no slot is taken or given back twice.   *)
SlotsMatchTable ==
    /\ raw \cap promoted = {}
    /\ slots = Cardinality(Active) + releasing

(* "otherwise a live TLS tunnel could admit another client": a connection   *)
(* with an open socket is in the table, through the hijack and promotion    *)
(* too, so at most MaxConnections clients are served at a time.             *)
LiveIsAdmitted ==
    /\ \A c \in Conns : Live(c) => c \in Active
    /\ Cardinality({c \in Conns : Live(c)}) <= MaxConnections

(* When Server.Close has returned, every admitted socket is closed, also of *)
(* connections hijacked or promoted between its snapshot and its loop.      *)
CloseClosesAll ==
    closing = "done" => \A c \in Conns : ~Live(c)

(* A connection that got the answer to its CONNECT, or was never hijacked,  *)
(* leaves the table of a running server once its socket is closed.          *)
AnsweredSlotsReturn ==
    \A c \in Conns :
        (stage[c] # "none" /\ c \notin open)
            ~> (c \notin Active \/ closed \/ stage[c] = "unanswered")

(* "Hijacked handlers own release": once its socket is closed, a connection *)
(* leaves the table of a running server, so its slot can be used again.     *)
SlotsReturn ==
    \A c \in Conns :
        (stage[c] # "none" /\ c \notin open) ~> (c \notin Active \/ closed)
=============================================================================
