-------------------------------- MODULE Relay --------------------------------
(***************************************************************************)
(* Requests the proxy relays without interception: CONNECT to a host that  *)
(* is not AWS and plain HTTP.  Admission, the choice of the parent proxy,  *)
(* the one resolution, the dialling of the pinned answers, the hijack and  *)
(* the tunnel with its two copying goroutines, its idle timer and its half *)
(* closes.  Direction "up" copies from the client, "down" to it; byte i of *)
(* a direction is the number i, and the first ones are already buffered by *)
(* the reader of the request or of the parent proxy's answer.              *)
(***************************************************************************)
EXTENDS Naturals, Sequences, FiniteSets

CONSTANTS Relays,          \* requests that may arrive
          Resolutions,     \* host |-> sequences of addresses a lookup may return
          NormalIP,        \* address |-> its normal form (IPv4-mapped ones differ)
          UnsafeIPs,       \* addresses in normal form that are not public
          AllowedIPs       \* addresses TargetAllow makes an exception for

\* A tunnel has a direction from the client and one to it.
Directions == {"up", "down"}

ASSUME RelayAssumption ==
  /\ \A h \in DOMAIN Resolutions : \A s \in Resolutions[h] : s \in Seq(DOMAIN NormalIP)
  /\ \A a \in DOMAIN NormalIP : NormalIP[a] \in DOMAIN NormalIP
  /\ \A r \in Relays : /\ r.kind \in {"aws", "awslike", "malformed", "other"}
                       /\ r.kind = "other" => r.host \in DOMAIN Resolutions
                       /\ r.sends \in [Directions -> Nat]

VARIABLES
  relay,       \* the request
  rstep,       \* where its handler is
  lookups,     \* the answers of the resolver, in order
  pinned,      \* addresses still to dial
  dialled,     \* what was dialled or asked of the parent proxy
  upOpen,      \* the upstream connection is open
  clOpen,      \* the hijacked client connection is open
  held,        \* direction |-> bytes in the buffer of its reader
  taken,       \* direction |-> bytes read so far
  copied,      \* direction |-> bytes written to the other side
  copier,      \* direction |-> where its goroutine is
  activity,    \* the channel of size one
  ticks,       \* the idle timer: "armed" or "ticked"
  copyDone,    \* messages in the channel
  finished,    \* messages the handler has counted
  ending       \* how the tunnel ended: "whole", "cut" or "lost"

relayVars == <<relay, rstep, lookups, pinned, dialled, upOpen, clOpen, held, taken, copied,
               copier, activity, ticks, copyDone, finished, ending>>
flowVars == <<held, taken, copied, copier, activity, ticks, copyDone, finished, ending>>

-----------------------------------------------------------------------------
(* The parent proxy.                                                       *)

\* CaptureProxySettings: an upper-case name wins, also with an empty value.
Setting(env, upper, lower) ==
  IF upper \in DOMAIN env THEN env[upper] ELSE IF lower \in DOMAIN env THEN env[lower] ELSE ""

Selected(r) ==
  LET own == IF r.scheme = "https" THEN Setting(r.env, "HTTPS_PROXY", "https_proxy")
             ELSE Setting(r.env, "HTTP_PROXY", "http_proxy")
  IN  IF own # "" THEN own ELSE Setting(r.env, "ALL_PROXY", "all_proxy")

\* proxyExcluded: NO_PROXY names hosts, here as the set its value lists.
Excluded(r) == r.host \in r.noProxy \/ "*" \in r.noProxy

\* parentProxyFor: the value is validated also when NO_PROXY bypasses it.
ParentProxy(r) ==
  IF Selected(r) \notin {"", "http", "https"} THEN "error"
  ELSE IF Excluded(r) \/ Selected(r) = "" THEN "direct"
  ELSE "proxy"

-----------------------------------------------------------------------------
(* Admission.                                                              *)

\* classifyDestination, over the parsed authority.
Class(r) ==
  IF r.kind = "aws" THEN IF r.port = 443 THEN "aws" ELSE "error"
  ELSE IF r.kind = "awslike" THEN "error"
  ELSE "relay"

\* Why ServeHTTP and the handler of the method refuse before they look anything up.
Refused(r) ==
  \/ ~r.authenticated \/ ~r.fits
  \/ r.kind = "malformed"
  \/ Class(r) = "error"
  \/ r.method # "CONNECT" /\ Class(r) = "aws"
  \/ ParentProxy(r) = "error"

RelayInit ==
  /\ relay \in Relays
  /\ rstep = "admit"
  /\ lookups = <<>>
  /\ pinned = <<>>
  /\ dialled = {}
  /\ upOpen = FALSE /\ clOpen = FALSE
  /\ held = [d \in Directions |-> relay.early[d]]
  /\ taken = [d \in Directions |-> 0]
  /\ copied = [d \in Directions |-> <<>>]
  /\ copier = [d \in Directions |-> "none"]
  /\ activity = FALSE
  /\ ticks = "armed"
  /\ copyDone = 0 /\ finished = 0
  /\ ending = "none"

\* An AWS CONNECT goes on to the interception.
Admit ==
  /\ rstep = "admit"
  /\ rstep' = IF Refused(relay) THEN "done"
              ELSE IF Class(relay) = "aws" THEN "intercepted"
              ELSE "resolve"
  /\ UNCHANGED <<relay, lookups, pinned, dialled, upOpen, clOpen, flowVars>>

-----------------------------------------------------------------------------
(* Resolution and dialling.                                                *)

Prohibited(a) == NormalIP[a] \in UnsafeIPs /\ NormalIP[a] \notin AllowedIPs

\* Mutant: a validation that is content with one public address.
ValidAnswersAny(s) == \E i \in DOMAIN s : ~Prohibited(s[i])

\* ValidateResolvedIPs: every answer, and at least one.
ValidAnswers(s) == s # <<>> /\ \A i \in DOMAIN s : ~Prohibited(s[i])

\* ResolveAndValidate: one lookup (a literal address is its own answer), whose
\* whole answer is validated and then pinned.  Body limits of plain HTTP come next.
Resolve ==
  /\ rstep = "resolve"
  /\ \E s \in Resolutions[relay.host] :
       /\ lookups' = Append(lookups, s)
       /\ IF ValidAnswers(s) /\ relay.bodyFits
          THEN /\ rstep' = "dial"
               /\ pinned' = [i \in DOMAIN s |-> NormalIP[s[i]]]
          ELSE rstep' = "done" /\ UNCHANGED pinned
  /\ UNCHANGED <<relay, dialled, upOpen, clOpen, flowVars>>

LookupFails ==
  /\ rstep = "resolve"
  /\ rstep' = "done"
  /\ UNCHANGED <<relay, lookups, pinned, dialled, upOpen, clOpen, flowVars>>

Connected == IF relay.method = "CONNECT" THEN "hijack" ELSE "exchange"

\* Direct: the pinned addresses in order, until one connects.
Dial ==
  /\ rstep = "dial" /\ ParentProxy(relay) = "direct"
  /\ dialled' = dialled \cup {[via |-> "direct", ip |-> Head(pinned)]}
  /\ pinned' = Tail(pinned)
  /\ \/ rstep' = Connected /\ upOpen' = TRUE
     \/ rstep' = (IF Len(pinned) = 1 THEN "done" ELSE "dial") /\ UNCHANGED upOpen
  /\ UNCHANGED <<relay, lookups, clOpen, flowVars>>

\* Through the parent proxy: the first pinned address is the target, so that the
\* proxy does not resolve the name again; a refusal closes the connection.
DialProxy ==
  /\ rstep = "dial" /\ ParentProxy(relay) = "proxy"
  /\ dialled' = dialled \cup {[via |-> "proxy", ip |-> Head(pinned)]}
  /\ \/ rstep' = Connected /\ upOpen' = TRUE
     \/ rstep' = "done" /\ UNCHANGED upOpen
  /\ UNCHANGED <<relay, lookups, pinned, clOpen, flowVars>>

\* Plain HTTP: one round trip on the connection just dialled, closed afterwards.
HTTPExchange ==
  /\ rstep = "exchange"
  /\ rstep' = "done" /\ upOpen' = FALSE
  /\ UNCHANGED <<relay, lookups, pinned, dialled, clOpen, flowVars>>

\* CONNECT: the hijack, the answer to the client and the connection's admission,
\* each of which may fail and then closes what is open.
HijackClient ==
  /\ rstep = "hijack"
  /\ \/ rstep' = "establish" /\ clOpen' = TRUE /\ UNCHANGED upOpen
     \/ rstep' = "done" /\ upOpen' = FALSE /\ UNCHANGED clOpen
  /\ UNCHANGED <<relay, lookups, pinned, dialled, flowVars>>

EstablishTunnel ==
  /\ rstep = "establish"
  /\ \/ /\ rstep' = "tunnel"
        /\ copier' = [d \in Directions |-> "reading"]
        /\ UNCHANGED <<upOpen, clOpen>>
     \/ /\ rstep' = "done"                 \* the write fails or trackConn refuses
        /\ clOpen' = FALSE /\ upOpen' = FALSE
        /\ UNCHANGED copier
  /\ UNCHANGED <<relay, lookups, pinned, dialled, held, taken, copied, activity, ticks,
                 copyDone, finished, ending>>

-----------------------------------------------------------------------------
(* The copying goroutines: io.Copy over an activityReader, the half close, *)
(* the message to the handler.                                             *)

SourceOpen(d) == IF d = "up" THEN clOpen ELSE upOpen
SinkOpen(d) == IF d = "up" THEN upOpen ELSE clOpen
requestVars == <<relay, rstep, lookups, pinned, dialled, upOpen, clOpen>>

\* Mutant: a goroutine that reads the socket and not the buffered reader over it.
NextByteUnbuffered(d) == relay.early[d] + taken[d] + 1

NextByte(d) == taken[d] + 1

\* A byte, first from the buffer, then from the socket; it is noted as activity
\* without waiting when the note is already there.
CopierReads(d) ==
  /\ copier[d] = "reading"
  /\ NextByte(d) <= relay.sends[d]
  /\ held[d] > 0 \/ SourceOpen(d)
  /\ held' = [held EXCEPT ![d] = IF @ > 0 THEN @ - 1 ELSE 0]
  /\ taken' = [taken EXCEPT ![d] = @ + 1]
  /\ copier' = [copier EXCEPT ![d] = "writing"]
  /\ activity' = TRUE
  /\ UNCHANGED <<requestVars, copied, ticks, copyDone, finished, ending>>

\* The end of the stream, or an error once the proxy has closed the socket.
CopierEnds(d) ==
  /\ copier[d] = "reading"
  /\ held[d] = 0
  /\ ~SourceOpen(d) \/ (relay.closes[d] /\ NextByte(d) > relay.sends[d])
  /\ copier' = [copier EXCEPT ![d] = "ended"]
  /\ UNCHANGED <<requestVars, held, taken, copied, activity, ticks, copyDone, finished, ending>>

CopierWrites(d) ==
  /\ copier[d] = "writing" /\ SinkOpen(d)
  /\ copied' = [copied EXCEPT ![d] = Append(@, NextByte(d) - 1)]
  /\ copier' = [copier EXCEPT ![d] = "reading"]
  /\ UNCHANGED <<requestVars, held, taken, activity, ticks, copyDone, finished, ending>>

\* The other side is gone, or the proxy has closed its socket.
WriteFails(d) ==
  /\ copier[d] = "writing"
  /\ copier' = [copier EXCEPT ![d] = "ended"]
  /\ ending' = IF ending = "none" THEN "lost" ELSE ending
  /\ UNCHANGED <<requestVars, held, taken, copied, activity, ticks, copyDone, finished>>

\* Mutant: a channel of size one, which the handler empties only while it selects.
CopyDoneHasRoomOne == copyDone < 1

CopyDoneHasRoom == copyDone < 2

CopierReports(d) ==
  /\ copier[d] = "ended" /\ CopyDoneHasRoom
  /\ copier' = [copier EXCEPT ![d] = "done"]
  /\ copyDone' = copyDone + 1
  /\ UNCHANGED <<requestVars, held, taken, copied, activity, ticks, finished, ending>>

-----------------------------------------------------------------------------
(* The handler's select.                                                   *)

TimerTicks ==
  /\ rstep = "tunnel" /\ ticks = "armed"
  /\ ticks' = "ticked"
  /\ UNCHANGED <<requestVars, held, taken, copied, copier, activity, copyDone, finished, ending>>


LastDirection == finished + 1 >= 2

TunnelReturn ==
  rstep' = "done" /\ upOpen' = FALSE /\ clOpen' = FALSE

TakeDone ==
  /\ rstep = "tunnel" /\ copyDone > 0
  /\ copyDone' = copyDone - 1
  /\ finished' = finished + 1
  /\ IF LastDirection
     THEN TunnelReturn /\ ending' = (IF ending = "none" THEN "whole" ELSE ending)
     ELSE UNCHANGED <<rstep, upOpen, clOpen, ending>>
  /\ UNCHANGED <<relay, lookups, pinned, dialled, held, taken, copied, copier, activity, ticks>>

\* Stop, an emptied channel and Reset: a tick of the past is forgotten.
TakeActivity ==
  /\ rstep = "tunnel" /\ activity
  /\ activity' = FALSE
  /\ ticks' = "armed"
  /\ UNCHANGED <<requestVars, held, taken, copied, copier, copyDone, finished, ending>>

\* The idle timeout or the request's context.
CutTunnel(cancelled) ==
  /\ rstep = "tunnel" /\ (cancelled \/ ticks = "ticked")
  /\ TunnelReturn
  /\ ending' = "cut"
  /\ UNCHANGED <<relay, lookups, pinned, dialled, held, taken, copied, copier, activity, ticks,
                 copyDone, finished>>

-----------------------------------------------------------------------------
Connecting == \/ Admit \/ Resolve \/ LookupFails \/ Dial \/ DialProxy \/ HTTPExchange
              \/ HijackClient \/ EstablishTunnel
Selecting == TakeDone \/ TakeActivity \/ CutTunnel(FALSE)
Copying(d) == CopierReads(d) \/ CopierEnds(d) \/ CopierReports(d)
RelayNext == \/ Connecting \/ Selecting \/ CutTunnel(TRUE) \/ TimerTicks
             \/ \E d \in Directions : Copying(d) \/ CopierWrites(d) \/ WriteFails(d)

\* Lookups and dials have the connection deadline, a timer ticks, goroutines that
\* can run do; a write to a closed socket fails, but one to a peer that does not
\* read may wait for ever.
RelayFairness ==
  /\ WF_relayVars(Connecting) /\ WF_relayVars(Selecting) /\ WF_relayVars(TimerTicks)
  /\ \A d \in Directions : /\ WF_relayVars(Copying(d))
                           /\ WF_relayVars(~SinkOpen(d) /\ WriteFails(d))
RelaySpec == RelayInit /\ [][RelayNext]_relayVars /\ RelayFairness

-----------------------------------------------------------------------------
\* Whatever the resolver answers a second time, what is dialled, or asked of the
\* parent proxy, is an address of the one answer that was validated as a whole;
\* nothing is dialled for an AWS host or a host that looks like one, and nothing
\* is dialled past a parent proxy that NO_PROXY does not exempt.
RelayIsValidated ==
  /\ Len(lookups) <= 1
  /\ \A x \in dialled :
       /\ \E i \in DOMAIN lookups[1] : x.ip = NormalIP[lookups[1][i]]
       /\ \A i \in DOMAIN lookups[1] : ~Prohibited(lookups[1][i])
       /\ relay.kind = "other"
       /\ x.via = "direct" <=> Selected(relay) = "" \/ Excluded(relay)

\* The tunnel hands on, in order and from the first buffered byte, what each side
\* sends, and when it ends by itself it has handed on everything; a direction that
\* is closed early does not cut the other one short.
TunnelIsWhole ==
  \A d \in Directions :
    /\ copied[d] = [i \in 1 .. Len(copied[d]) |-> i]
    /\ ending = "whole" => Len(copied[d]) = relay.sends[d]

\* A relayed request comes to an end with both its connections closed and both its
\* goroutines gone, whether the peers close, stay silent, refuse to read or the
\* idle timer races the last byte.
RelayEnds ==
  /\ (rstep \notin {"admit", "intercepted"}) ~> (rstep = "done" /\ ~upOpen /\ ~clOpen)
  /\ \A d \in Directions : (copier[d] = "reading") ~> (copier[d] = "done")
=============================================================================
