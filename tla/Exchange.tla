------------------------------ MODULE Exchange ------------------------------
(***************************************************************************)
(* The payload of one intercepted request, from the client's connection to *)
(* the upstream one: the checks of sigv4.Verify in the order the code      *)
(* makes them, the capture of the body in memory or in a private spool     *)
(* file, the views of it that decoding and re-signing take, the forwarding *)
(* by the transport's own goroutine, and the release at the end of the     *)
(* handler.  Byte i of a payload is the number i; Zero is a wiped byte.    *)
(***************************************************************************)
EXTENDS Integers, Sequences, FiniteSets

CONSTANTS ExRequests,      \* requests that may arrive (see Ex* operators)
          ExNow,           \* what the verifier's clock may read
          DayLength,       \* length of a credential-scope day
          MaxClockSkew,    \* VerifyOptions.MaxClockSkew
          MaxInMemory,     \* BodyOptions.MaxInMemoryBytes
          MaxSpool,        \* BodyOptions.MaxSpoolBytes
          ReadBuffer,      \* bytes one Read may return
          MaxNoProgress,   \* reads of no byte that fail the capture
          AllowUnsigned    \* VerifyOptions.AllowUnsignedPayload

ASSUME ExchangeAssumption ==
  /\ {DayLength, MaxClockSkew, MaxInMemory, MaxSpool, ReadBuffer, MaxNoProgress}
       \subseteq Nat \ {0}
  /\ MaxInMemory <= MaxSpool
  /\ AllowUnsigned \in BOOLEAN
  /\ ExNow \subseteq Nat
  /\ \A r \in ExRequests : /\ r.length \in Nat
                           /\ \A h \in DOMAIN r.times : r.times[h] \in Int

VARIABLES
  exRequest,     \* the request being served
  pc,            \* where the handler is
  left,          \* bytes of the client's body not read yet
  noProgress,    \* consecutive reads that returned nothing
  body,          \* the Body: memory, spooled, size, closed, done
  file,          \* bytes of the spool file
  linked,        \* the spool file has its name in the run's directory
  views,         \* readers of the body by the part of the code that has them
  registered,    \* Body.readers
  toClose,       \* readers a Body.Close under way has still to close
  calls,         \* Body.Close calls the handler still makes before it ends
  mu,            \* who holds Body.mu across steps
  transport,     \* the goroutine that sends the outgoing request
  sourceCloses,  \* how often the client's body was closed
  removeFailed   \* the file system refused to remove the spool file

exVars == <<exRequest, pc, left, noProgress, body, file, linked, views, registered,
            toClose, calls, mu, transport, sourceCloses, removeFailed>>

Zero == 0
Payload(n) == [i \in 1 .. n |-> i]
Least(m, n) == IF m <= n THEN m ELSE n
Views == {"in", "probe", "out"}
NoView == [kind |-> "none", open |-> FALSE, once |-> "none", got |-> <<>>, end |-> "reading"]
NoBody == [memory |-> <<>>, spooled |-> FALSE, size |-> 0, closed |-> FALSE, done |-> FALSE]

-----------------------------------------------------------------------------
(* sigv4.Verify: what each check asks of the request.                      *)

EndpointAgrees(r) == r.url = "endpoint"

QueryIsUnsigned(r) == r.query = "plain"

AuthorizationParses(r) == r.authorization = "v4"

CredentialIsOurs(r) == r.credential = "own" /\ r.token = "own"

ScopeAgrees(r) == r.scope = "endpoint"

SignedHeadersParse(r) == "host" \in r.signed

\* x-amz-date wins over date whenever it is present, even when it does not parse.
SigningTime(r) == IF "x-amz-date" \in DOMAIN r.times
                  THEN [name |-> "x-amz-date", at |-> r.times["x-amz-date"]]
                  ELSE [name |-> "date",
                        at |-> IF "date" \in DOMAIN r.times THEN r.times["date"] ELSE -1]

\* Mutant: a check that does not ask for the date among the signed headers.
TimeAgreesUnsigned(r, now) ==
  LET t == SigningTime(r)
  IN  /\ t.at >= 0 /\ t.at \div DayLength = r.scopeDay
      /\ now - t.at <= MaxClockSkew /\ t.at - now <= MaxClockSkew

TimeAgrees(r, now) ==
  LET t == SigningTime(r)
  IN  /\ t.at >= 0                                      \* it parses
      /\ t.at \div DayLength = r.scopeDay
      /\ now - t.at <= MaxClockSkew /\ t.at - now <= MaxClockSkew
      /\ t.name \in r.signed

HeadersAgree(r, now) ==
  /\ EndpointAgrees(r)
  /\ QueryIsUnsigned(r)
  /\ AuthorizationParses(r)
  /\ CredentialIsOurs(r)
  /\ ScopeAgrees(r)
  /\ SignedHeadersParse(r)
  /\ TimeAgrees(r, now)
  /\ "x-amz-security-token" \in r.signed

\* The payload headers, before a byte of the body is read.
PayloadHeadersAgree(r) ==
  /\ r.contentType = "plain"
  /\ r.hash \in {"absent", "right", "wrong"} \/ (r.hash = "unsigned" /\ AllowUnsigned)

HashAgrees(r) == r.hash # "wrong"

SignatureAgrees(r) == r.signature = "valid"

-----------------------------------------------------------------------------
ExInit ==
  /\ exRequest \in ExRequests
  /\ pc = "verify"
  /\ left = exRequest.length
  /\ noProgress = 0
  /\ body = NoBody
  /\ file = <<>>
  /\ linked = FALSE
  /\ views = [v \in Views |-> NoView]
  /\ registered = {}
  /\ toClose = {}
  /\ calls = 0
  /\ mu = "free"
  /\ transport = "idle"
  /\ sourceCloses = 0
  /\ removeFailed = FALSE

\* Verify up to CaptureRequestBody: a refusal, or a declared length over the
\* limit, closes the client's body and ends the handler.
Verify ==
  /\ pc = "verify"
  /\ \E now \in ExNow :
       IF /\ HeadersAgree(exRequest, now)
          /\ PayloadHeadersAgree(exRequest)
          /\ exRequest.declared <= MaxSpool
       THEN pc' = "capture" /\ UNCHANGED sourceCloses
       ELSE pc' = "done" /\ sourceCloses' = sourceCloses + 1
  /\ UNCHANGED <<exRequest, left, noProgress, body, file, linked, views, registered,
                 toClose, calls, mu, transport, removeFailed>>

\* cleanup of NewBody; then CaptureRequestBody closes the client's body.
Discard(created) ==
  /\ \E gone \in BOOLEAN :
       /\ linked' = (created /\ ~gone)
       /\ removeFailed' = (created /\ ~gone)
  /\ body' = NoBody
  /\ file' = <<>>
  /\ sourceCloses' = sourceCloses + 1
  /\ pc' = "done"
  /\ UNCHANGED <<noProgress, views, registered>>

\* Body.Reader: a file-backed body gives a descriptor of its own, registered
\* with the body; opening it may fail.
Opened(b, opens) ==
  IF b.closed \/ (b.spooled /\ ~opens) THEN [NoView EXCEPT !.kind = "error"]
  ELSE IF b.spooled THEN [NoView EXCEPT !.kind = "file", !.open = TRUE]
  ELSE [NoView EXCEPT !.kind = "bytes"]

\* Mutant: a view that does not enter itself in Body.readers.
RegistersNothing(v, b, opens) == {}

Registers(v, b, opens) == IF Opened(b, opens).open THEN {v} ELSE {}

\* The bytes of one read join memory, or the file once they pass the threshold.
Stored(chunk) ==
  IF ~body.spooled /\ body.size + Len(chunk) <= MaxInMemory
  THEN [body EXCEPT !.memory = @ \o chunk, !.size = @ + Len(chunk)]
  ELSE [body EXCEPT !.memory = <<>>, !.spooled = TRUE, !.size = @ + Len(chunk)]

Spooled(chunk) == IF Stored(chunk).spooled THEN file \o body.memory \o chunk ELSE file

\* setRequestBody at the end of the stream; the client's body is closed.
Captured(chunk) ==
  \E opens \in BOOLEAN :
    /\ views' = [views EXCEPT !["in"] = Opened(Stored(chunk), opens)]
    /\ registered' = Registers("in", Stored(chunk), opens)
    /\ sourceCloses' = sourceCloses + 1
    /\ pc' = "payload"

\* One turn of NewBody's loop: n bytes with no error, the end or an error; the
\* file system may fail whenever the spool is touched.
ReadInto(n, end, fault) ==
  LET chunk   == SubSeq(Payload(exRequest.length), body.size + 1, body.size + n)
      spools  == body.size + n <= MaxSpool /\ IF n > 0 THEN Stored(chunk).spooled ELSE body.spooled
      created == body.spooled \/ (n > 0 /\ spools)
  IN  /\ fault => spools /\ (n > 0 \/ end = "eof")
      /\ left' = left - n
      /\ IF \/ body.size + n > MaxSpool
            \/ fault
            \/ end = "error"
            \/ n = 0 /\ end = "more" /\ noProgress + 1 >= MaxNoProgress
         THEN Discard(created)
         ELSE /\ body' = IF n > 0 THEN Stored(chunk) ELSE body
              /\ file' = IF n > 0 THEN Spooled(chunk) ELSE file
              /\ linked' = spools
              /\ noProgress' = IF n = 0 THEN noProgress + 1 ELSE 0
              /\ IF end = "eof" THEN Captured(IF n > 0 THEN chunk ELSE <<>>)
                 ELSE UNCHANGED <<pc, views, registered, sourceCloses>>
              /\ UNCHANGED removeFailed

\* Once the limit is reached one byte more is asked for, which tells a body of
\* exactly the limit from a longer one.
Read ==
  /\ pc = "capture"
  /\ LET room == MaxSpool - body.size
         most == IF room = 0 THEN 1 ELSE Least(ReadBuffer, room)
     IN  \E n \in 0 .. Least(most, left), end \in {"more", "eof", "error"}, fault \in BOOLEAN :
           /\ end = "eof" => n = left
           /\ ReadInto(n, end, fault)
  /\ UNCHANGED <<exRequest, toClose, calls, mu, transport>>

-----------------------------------------------------------------------------
(* The handler, from the verified payload to the release of the body.      *)

Steps == <<exRequest, left, noProgress, file, linked, toClose, mu, sourceCloses, removeFailed>>

\* The handler returns: Body.Close is called n times on the way out, by the
\* failing function, by its deferred cleanup and by the handler's own defer.
Leave(n) == pc' = "close" /\ calls' = n

\* The hash, the canonical request and the signature; a failure closes the body
\* and Verify's deferred closeRequestBody closes it again.
CheckPayload ==
  /\ pc = "payload"
  /\ IF HashAgrees(exRequest) /\ SignatureAgrees(exRequest)
     THEN pc' = "decode" /\ UNCHANGED calls
     ELSE Leave(2)
  /\ UNCHANGED <<Steps, body, views, registered, transport>>

\* readAndRestore reads the request's view to its end and closes it; a view that
\* cannot be read, or a payload over the decoder's limit, leaves it open.
Contents == IF body.spooled THEN file ELSE body.memory

Decode ==
  /\ pc = "decode"
  /\ \/ /\ views["in"].kind # "error"
        /\ views' = [views EXCEPT !["in"] = [@ EXCEPT !.open = FALSE, !.once = "done",
                                                      !.got = Contents, !.end = "eof"]]
        /\ registered' = registered \ {"in"}
        /\ \/ pc' = "resign" /\ UNCHANGED calls
           \/ Leave(1)                        \* mapping, policy or audit refuses
     \/ Leave(1) /\ UNCHANGED <<views, registered>>
  /\ UNCHANGED <<Steps, body, transport>>

\* Resign up to attachBody: its own checks, the probe of validateBodyAvailable
\* (opened and closed at once) and the view of the outgoing request.
Resign ==
  /\ pc = "resign"
  /\ \/ Leave(2) /\ UNCHANGED <<views, registered>>
     \/ \E opens \in BOOLEAN :
          /\ views' = [views EXCEPT !["probe"] = [Opened(body, TRUE) EXCEPT !.open = FALSE,
                                                                                     !.once = "done"],
                                    !["out"] = Opened(body, opens)]
          /\ registered' = registered \cup Registers("out", body, opens)
          /\ pc' = "sign"
          /\ UNCHANGED calls
  /\ UNCHANGED <<Steps, body, transport>>

\* Credentials, clock and signature: a failure closes the body three times.  A
\* failed audit log is noticed after signing; else the request is sent.
Sign ==
  /\ pc = "sign"
  /\ \/ Leave(3) /\ UNCHANGED transport
     \/ Leave(1) /\ UNCHANGED transport
     \/ pc' = "await" /\ transport' = "reading" /\ UNCHANGED calls
  /\ UNCHANGED <<Steps, body, views, registered>>

\* RoundTrip returns a response or an error, whatever its goroutine still does.
RoundTripReturns ==
  /\ pc = "await"
  /\ Leave(1)
  /\ UNCHANGED <<Steps, body, views, registered, transport>>

-----------------------------------------------------------------------------
(* Body.Close, called by the handler; file views close under their Once.   *)

\* Mutant: a Body.Close that keeps the lock while it closes the readers.
CloseCallLocked ==
  /\ pc = "close" /\ calls > 0 /\ mu = "free"
  /\ IF body.closed
     THEN /\ body.done
          /\ calls' = calls - 1
          /\ UNCHANGED <<pc, body, toClose, registered, mu>>
     ELSE /\ body' = [body EXCEPT !.closed = TRUE]
          /\ toClose' = registered
          /\ registered' = {}
          /\ pc' = "closing"
          /\ mu' = "handler"
          /\ UNCHANGED calls
  /\ UNCHANGED <<exRequest, left, noProgress, file, linked, views, transport,
                 sourceCloses, removeFailed>>

CloseCall ==
  /\ pc = "close" /\ calls > 0 /\ mu = "free"
  /\ IF body.closed
     THEN /\ body.done                                  \* waits for closeDone
          /\ calls' = calls - 1
          /\ UNCHANGED <<pc, body, toClose, registered>>
     ELSE /\ body' = [body EXCEPT !.closed = TRUE]
          /\ toClose' = registered
          /\ registered' = {}
          /\ pc' = "closing"
          /\ UNCHANGED calls
  /\ UNCHANGED <<exRequest, left, noProgress, file, linked, views, mu, transport,
                 sourceCloses, removeFailed>>

\* The first caller of a view's Close runs it; a second one waits for its end.
CloseView ==
  /\ pc = "closing"
  /\ \E v \in toClose :
       \/ /\ views[v].once = "none"
          /\ views' = [views EXCEPT ![v].open = FALSE, ![v].once = "handler"]
          /\ UNCHANGED toClose
       \/ /\ views[v].once = "handler" /\ mu = "free"    \* delete from a nil map
          /\ views' = [views EXCEPT ![v].once = "done"]
          /\ toClose' = toClose \ {v}
       \/ /\ views[v].once = "done"
          /\ toClose' = toClose \ {v}
          /\ UNCHANGED views
  /\ UNCHANGED <<exRequest, pc, left, noProgress, body, file, linked, registered, calls, mu,
                 transport, sourceCloses, removeFailed>>

\* The name is removed, the memory wiped and closeDone closed.
CloseEnds ==
  /\ pc = "closing" /\ toClose = {}
  /\ \E gone \in BOOLEAN :
       /\ linked' = (linked /\ ~gone)
       /\ removeFailed' = (linked /\ ~gone)
  /\ body' = [body EXCEPT !.memory = [i \in DOMAIN @ |-> Zero], !.done = TRUE]
  /\ mu' = "free"
  /\ calls' = calls - 1
  /\ pc' = "close"
  /\ UNCHANGED <<exRequest, left, noProgress, file, views, registered, toClose, transport,
                 sourceCloses>>

HandlerReturns ==
  /\ pc = "close" /\ calls = 0
  /\ pc' = "done"
  /\ UNCHANGED <<Steps, body, views, registered, calls, transport>>

-----------------------------------------------------------------------------
(* The transport's goroutine reads and closes the outgoing view at any     *)
(* time, also after RoundTrip has returned.                                *)

\* Mutant: a bytesReader that does not ask.
ReadableUnchecked(v) == v.kind = "bytes" \/ v.open

\* bytesReader.Read asks the owner whether it is closed; a file view fails once
\* its descriptor is closed, and outlives the file's name.
Readable(v) == IF v.kind = "bytes" THEN ~body.closed ELSE v.open

NextRead(v) ==
  IF ~Readable(v) THEN [v EXCEPT !.end = "error"]
  ELSE IF Len(v.got) >= Len(Contents) THEN [v EXCEPT !.end = "eof"]
  ELSE [v EXCEPT !.got = Append(@, Contents[Len(v.got) + 1])]

TransportReads ==
  /\ transport = "reading" /\ mu = "free"
  /\ views["out"].end = "reading"
  /\ views' = [views EXCEPT !["out"] = NextRead(@)]
  /\ UNCHANGED <<Steps, pc, body, registered, calls, transport>>

\* Close of the outgoing view: the descriptor first, the registration after it.
TransportCloses ==
  /\ transport = "reading"
  /\ \/ /\ views["out"].kind = "file" /\ views["out"].once = "none"
        /\ views' = [views EXCEPT !["out"].open = FALSE, !["out"].once = "transport"]
        /\ transport' = "closing"
     \/ /\ views["out"].kind = "file" => views["out"].once = "done"
        /\ transport' = "closed"
        /\ UNCHANGED views
  /\ UNCHANGED <<Steps, pc, body, registered, calls>>

TransportUnregisters ==
  /\ transport = "closing" /\ mu = "free"
  /\ views' = [views EXCEPT !["out"].once = "done"]
  /\ registered' = registered \ {"out"}
  /\ transport' = "closed"
  /\ UNCHANGED <<Steps, pc, body, calls>>

HandlerStep == \/ Verify \/ Read \/ CheckPayload \/ Decode \/ Resign \/ Sign
               \/ RoundTripReturns \/ CloseCall \/ CloseView \/ CloseEnds \/ HandlerReturns
TransportEnds == TransportCloses \/ TransportUnregisters
ExNext == HandlerStep \/ TransportReads \/ TransportEnds

\* The handler's steps and the goroutine's closing are never held up for ever:
\* reads of the client's body and RoundTrip are bounded by the server's and the
\* transport's deadlines.
ExFairness == WF_exVars(HandlerStep) /\ WF_exVars(TransportEnds)
ExSpec == ExInit /\ [][ExNext]_exVars /\ ExFairness

-----------------------------------------------------------------------------
\* When the handler has ended, on any path of Verify, Decode, Resign and
\* RoundTrip, the client's body has been closed exactly once, no descriptor of
\* the spool file is open and the file is gone, unless removing it failed.
BodyIsReleased ==
  pc = "done" => /\ sourceCloses = 1
                 /\ \A v \in Views : ~views[v].open
                 /\ linked => removeFailed
                 /\ registered = {}

\* Every reader sees the payload the client sent and nothing else: what it has
\* read is a prefix of it, and an end of file comes only after all of it,
\* although the body may be closed and wiped under the transport's goroutine.
PayloadIsWhole ==
  \A v \in Views :
    LET n == Len(views[v].got)
    IN  /\ views[v].got = Payload(n)
        /\ views[v].end = "eof" => n = exRequest.length

\* A request that passes Verify carries the run's credential, a scope and a time
\* that agree with the endpoint and the clock, and a signature over its host, its
\* date, its token and its payload; the body is within the limit, and nothing of
\* it is read before the headers agree.
VerifiedIsSigned ==
  /\ pc \in {"decode", "resign", "sign", "await"} =>
       /\ exRequest.signature = "valid"
       /\ {"host", "x-amz-security-token"} \subseteq exRequest.signed
       /\ LET t == SigningTime(exRequest)
          IN  /\ t.name \in exRequest.signed
              /\ t.at \div DayLength = exRequest.scopeDay
              /\ \E now \in ExNow : t.at - now \in -MaxClockSkew .. MaxClockSkew
       /\ exRequest.hash \in {"absent", "right"} \/ AllowUnsigned
       /\ exRequest.length <= MaxSpool
       /\ body.spooled <=> exRequest.length > MaxInMemory
  /\ left < exRequest.length => \E now \in ExNow : HeadersAgree(exRequest, now)

\* The handler ends and the outgoing view's Close returns, although the handler's
\* Body.Close and the goroutine's Close meet on the view's Once and the body's lock.
ExchangeEnds ==
  /\ (pc # "verify") ~> (pc = "done")
  /\ (transport = "reading") ~> (transport = "closed")
=============================================================================
