--------------------------- MODULE ExchangeProofs ---------------------------
(***************************************************************************)
(* Proofs about Exchange: the release of the body and of its spool file,   *)
(* what the readers of the body see, and what a verified request has       *)
(* shown, for requests of any length and any limits.                       *)
(***************************************************************************)
EXTENDS Exchange, TLAPS

(* Facts about sequences. *)
LEMMA SubSeqFacts ==
    ASSUME NEW S, NEW s, NEW m \in Nat \ {0}, NEW n \in Nat, \A i \in m .. n : s[i] \in S
    PROVE  /\ SubSeq(s, m, n) \in Seq(S)
           /\ Len(SubSeq(s, m, n)) = IF m <= n THEN n - m + 1 ELSE 0
           /\ \A i \in 1 .. n - m + 1 : SubSeq(s, m, n)[i] = s[m + i - 1]
OBVIOUS

LEMMA SubSeqEmpty ==
    ASSUME NEW s, NEW m \in Nat, NEW n \in Nat, n < m
    PROVE  SubSeq(s, m, n) = <<>>
OBVIOUS

LEMMA ConcatFacts ==
    ASSUME NEW S, NEW s \in Seq(S), NEW t \in Seq(S)
    PROVE  /\ s \o t \in Seq(S) /\ Len(s \o t) = Len(s) + Len(t)
           /\ \A i \in 1 .. Len(s) + Len(t) : (s \o t)[i] = IF i <= Len(s) THEN s[i] ELSE t[i - Len(s)]
OBVIOUS

LEMMA SeqEqual ==
    ASSUME NEW S, NEW s \in Seq(S), NEW t \in Seq(S), Len(s) = Len(t),
           \A i \in 1 .. Len(s) : s[i] = t[i]
    PROVE  s = t
OBVIOUS

LEMMA ConcatEmptySeq ==
    ASSUME NEW S, NEW s \in Seq(S)
    PROVE  s \o <<>> = s /\ <<>> \o s = s
OBVIOUS

Unread == {"verify", "capture"}
Held == {"payload", "decode", "resign", "sign", "await"}
Leaving == {"close", "closing"}
PCs == Unread \cup Held \cup Leaving \cup {"done"}

View == [kind : {"none", "bytes", "file", "error"}, open : BOOLEAN,
         once : {"none", "handler", "transport", "done"}, got : Seq(Nat),
         end : {"reading", "eof", "error"}]
BodyRecord == [memory : Seq(Nat), spooled : BOOLEAN, size : Nat, closed : BOOLEAN, done : BOOLEAN]

ExType ==
  /\ exRequest \in ExRequests
  /\ pc \in PCs
  /\ left \in Nat
  /\ body \in BodyRecord
  /\ file \in Seq(Nat)
  /\ views \in [Views -> View]
  /\ registered \subseteq Views /\ toClose \subseteq Views
  /\ calls \in Nat
  /\ mu = "free"
  /\ transport \in {"idle", "reading", "closing", "closed"}
  /\ sourceCloses \in Nat

\* What is stored is what was read, until the memory is wiped.
StoreInv ==
  /\ body.spooled => file = Payload(body.size) /\ body.size > MaxInMemory /\ body.memory = <<>>
  /\ ~body.spooled => file = <<>> /\ body.size <= MaxInMemory
  /\ ~body.spooled /\ ~body.done => body.memory = Payload(body.size)
  /\ body.size <= MaxSpool
  /\ pc \in Unread => body.size + left = exRequest.length
  /\ pc \in (Unread \cup Held) \ {"await"} => transport = "idle"
  /\ pc \in Held \cup Leaving \/ transport # "idle" => body.size = exRequest.length

\* Where Body.Close is.
CloseInv ==
  /\ pc \in Unread \cup Held => ~body.closed /\ ~body.done
  /\ pc = "closing" => body.closed /\ ~body.done /\ calls > 0
  /\ pc = "close" => (body.closed <=> body.done) /\ (calls = 0 => body.closed)
  /\ pc # "closing" => toClose = {}
  /\ body.closed => registered = {}
  /\ body.done => body.closed

\* An open descriptor is one that Body.Close will find or is about to close.
ViewInv ==
  /\ \A v \in Views : /\ views[v].open => v \in registered \cup toClose /\ body.spooled
                      /\ views[v].once # "none" => ~views[v].open
  /\ transport = "closing" => ~views["out"].open

ReleaseInv ==
  /\ pc \in Unread => sourceCloses = 0 /\ registered = {}
  /\ pc = "verify" => ~linked
  /\ pc \notin Unread => sourceCloses = 1
  /\ body.done \/ pc = "done" => (linked => removeFailed)
  /\ pc = "done" => registered = {}

GotInv ==
  \A v \in Views : /\ views[v].got = Payload(Len(views[v].got))
                   /\ Len(views[v].got) <= exRequest.length
                   /\ views[v].end = "eof" => Len(views[v].got) = exRequest.length

\* What the checks passed so far have shown.
CheckInv ==
  /\ pc \in {"capture"} \cup Held \/ left < exRequest.length
       => \E now \in ExNow : HeadersAgree(exRequest, now)
  /\ pc \in {"capture"} \cup Held => PayloadHeadersAgree(exRequest)
  /\ pc \in Held \ {"payload"} => HashAgrees(exRequest) /\ SignatureAgrees(exRequest)

ExInv == ExType /\ StoreInv /\ CloseInv /\ ViewInv /\ ReleaseInv /\ GotInv /\ CheckInv

-----------------------------------------------------------------------------
(* Payloads.                                                               *)

LEMMA PayloadType == ASSUME NEW n \in Nat PROVE Payload(n) \in Seq(Nat) /\ Len(Payload(n)) = n
  BY DEF Payload

LEMMA PayloadZero == Payload(0) = <<>>
  BY DEF Payload

\* What the next read appends to what the earlier ones stored.
LEMMA PayloadGrows ==
  ASSUME NEW k \in Nat, NEW n \in Nat, NEW m \in Nat, k + n <= m
  PROVE  /\ SubSeq(Payload(m), k + 1, k + n) \in Seq(Nat)
         /\ Len(SubSeq(Payload(m), k + 1, k + n)) = n
         /\ Payload(k) \o SubSeq(Payload(m), k + 1, k + n) = Payload(k + n)
<1> DEFINE chunk == SubSeq(Payload(m), k + 1, k + n)
<1>1. Payload(m) \in Seq(Nat) /\ Len(Payload(m)) = m /\ Payload(k) \in Seq(Nat) /\ Len(Payload(k)) = k
  BY PayloadType
<1>2. chunk \in Seq(Nat) /\ Len(chunk) = n /\ \A i \in 1 .. n : chunk[i] = k + i
  <2>1. \A i \in k + 1 .. k + n : Payload(m)[i] = i
    BY DEF Payload
  <2>2. /\ chunk \in Seq(Nat)
        /\ Len(chunk) = IF k + 1 <= k + n THEN k + n - (k + 1) + 1 ELSE 0
        /\ \A i \in 1 .. k + n - (k + 1) + 1 : chunk[i] = Payload(m)[k + 1 + i - 1]
    <3>1. \A i \in k + 1 .. k + n : Payload(m)[i] \in Nat
      BY <2>1
    <3> QED BY <3>1, SubSeqFacts
  <2> HIDE DEF chunk
  <2> QED BY <2>1, <2>2
<1>3. Payload(k) \o chunk = Payload(k + n)
  <2> HIDE DEF chunk
  <2>1. /\ Payload(k) \o chunk \in Seq(Nat) /\ Len(Payload(k) \o chunk) = k + n
        /\ \A i \in 1 .. k + n : (Payload(k) \o chunk)[i] = IF i <= k THEN Payload(k)[i] ELSE chunk[i - k]
    <3> DEFINE p == Payload(k)
    <3>1. p \in Seq(Nat) /\ Len(p) = k /\ chunk \in Seq(Nat) /\ Len(chunk) = n
      BY <1>1, <1>2
    <3> HIDE DEF p
    <3>2. /\ p \o chunk \in Seq(Nat) /\ Len(p \o chunk) = Len(p) + Len(chunk)
          /\ \A i \in 1 .. Len(p) + Len(chunk) :
               (p \o chunk)[i] = IF i <= Len(p) THEN p[i] ELSE chunk[i - Len(p)]
      BY <3>1, ConcatFacts, Zenon
    <3>3. /\ p \o chunk \in Seq(Nat) /\ Len(p \o chunk) = k + n
          /\ \A i \in 1 .. k + n : (p \o chunk)[i] = IF i <= k THEN p[i] ELSE chunk[i - k]
      BY <3>1, <3>2, Zenon
    <3> QED BY <3>3 DEF p
  <2>2. \A i \in 1 .. k + n : (Payload(k) \o chunk)[i] = i
    BY <2>1, <1>2 DEF Payload
  <2>3. Payload(k + n) \in Seq(Nat) /\ Len(Payload(k + n)) = k + n /\ \A i \in 1 .. k + n : Payload(k + n)[i] = i
    BY PayloadType DEF Payload
  <2> QED BY <2>1, <2>2, <2>3, SeqEqual
<1> QED BY <1>2, <1>3

LEMMA PayloadAppends ==
  ASSUME NEW n \in Nat PROVE Append(Payload(n), n + 1) = Payload(n + 1)
  BY DEF Payload

-----------------------------------------------------------------------------
LEMMA LimitTypes == MaxInMemory \in Nat /\ MaxSpool \in Nat /\ MaxInMemory <= MaxSpool
  BY ExchangeAssumption

LEMMA LengthType == ASSUME exRequest \in ExRequests PROVE exRequest.length \in Nat
  BY ExchangeAssumption

LEMMA ReleasedHolds == ExInv => BodyIsReleased
<1> SUFFICES ASSUME ExInv, pc = "done" PROVE BodyIsReleased
  BY DEF BodyIsReleased
<1> QED BY DEF ExInv, ExType, CloseInv, ViewInv, ReleaseInv, BodyIsReleased, Unread

LEMMA PayloadHolds == ExInv => PayloadIsWhole
  BY DEF ExInv, GotInv, PayloadIsWhole

LEMMA VerifiedHolds == ExInv => VerifiedIsSigned
<1> SUFFICES ASSUME ExInv PROVE VerifiedIsSigned
  OBVIOUS
<1>1. ASSUME pc \in {"decode", "resign", "sign", "await"}
      PROVE  /\ exRequest.signature = "valid"
             /\ {"host", "x-amz-security-token"} \subseteq exRequest.signed
             /\ LET t == SigningTime(exRequest)
                IN  /\ t.name \in exRequest.signed
                    /\ t.at \div DayLength = exRequest.scopeDay
                    /\ \E now \in ExNow : t.at - now \in -MaxClockSkew .. MaxClockSkew
             /\ exRequest.hash \in {"absent", "right"} \/ AllowUnsigned
             /\ exRequest.length <= MaxSpool
             /\ body.spooled <=> exRequest.length > MaxInMemory
  <2> DEFINE t == SigningTime(exRequest)
  <2>1. PICK now \in ExNow : HeadersAgree(exRequest, now)
    BY <1>1 DEF ExInv, CheckInv, Held
  <2>2. /\ "host" \in exRequest.signed /\ "x-amz-security-token" \in exRequest.signed
        /\ t.name \in exRequest.signed /\ t.at \div DayLength = exRequest.scopeDay
        /\ now - t.at <= MaxClockSkew /\ t.at - now <= MaxClockSkew
    BY <2>1 DEF HeadersAgree, SignedHeadersParse, TimeAgrees
  <2>3. t.at \in Int
    BY ExchangeAssumption DEF SigningTime, ExInv, ExType
  <2>4. t.at - now \in -MaxClockSkew .. MaxClockSkew
    <3> HIDE DEF t
    <3>1. now \in Int /\ MaxClockSkew \in Int
      BY <2>1, ExchangeAssumption
    <3> QED BY <2>2, <2>3, <3>1
  <2>5. exRequest.signature = "valid" /\ (exRequest.hash \in {"absent", "right"} \/ AllowUnsigned)
    BY <1>1 DEF ExInv, CheckInv, Held, PayloadHeadersAgree, HashAgrees, SignatureAgrees
  <2>6. exRequest.length <= MaxSpool /\ (body.spooled <=> exRequest.length > MaxInMemory)
    BY <1>1, ExchangeAssumption DEF ExInv, ExType, StoreInv, Held, BodyRecord
  <2> QED BY <2>1, <2>2, <2>4, <2>5, <2>6
<1>2. left < exRequest.length => \E now \in ExNow : HeadersAgree(exRequest, now)
  BY DEF ExInv, CheckInv
<1> QED BY <1>1, <1>2 DEF VerifiedIsSigned

LEMMA NoViewType == NoView \in View /\ NoBody \in BodyRecord
  BY DEF NoView, View, NoBody, BodyRecord

LEMMA ExInitInv == ExInit => ExInv
<1> SUFFICES ASSUME ExInit PROVE ExInv
  OBVIOUS
<1> USE DEF ExInit
<1>1. ExType
  BY LengthType, NoViewType DEF ExType, PCs, Unread
<1>2. StoreInv /\ CloseInv
  BY LengthType, PayloadZero, ExchangeAssumption DEF StoreInv, CloseInv, Unread, Held, Leaving, NoBody
<1>3. ViewInv /\ ReleaseInv
  BY DEF ViewInv, ReleaseInv, Unread, NoView, NoBody
<1>4. GotInv
  BY PayloadZero, LengthType DEF GotInv, NoView
<1>5. CheckInv
  BY LengthType DEF CheckInv, Held
<1> QED BY <1>1, <1>2, <1>3, <1>4, <1>5 DEF ExInv

-----------------------------------------------------------------------------
(* The handler up to the captured body.                                    *)

LEMMA StepVerify == ExInv /\ Verify => ExInv'
<1> SUFFICES ASSUME ExInv, Verify PROVE ExInv'
  OBVIOUS
<1>1. /\ pc = "verify" /\ pc' \in {"capture", "done"}
      /\ pc' = "capture" => /\ sourceCloses' = sourceCloses
                            /\ \E now \in ExNow : HeadersAgree(exRequest, now)
                            /\ PayloadHeadersAgree(exRequest)
      /\ pc' = "done" => sourceCloses' = sourceCloses + 1
      /\ UNCHANGED <<exRequest, left, noProgress, body, file, linked, views, registered,
                     toClose, calls, mu, transport, removeFailed>>
  BY DEF Verify
<1> USE <1>1 DEF ExInv
<1>2. ExType' /\ StoreInv'
  BY DEF ExType, StoreInv, PCs, Unread, Held, Leaving
<1>3. CloseInv' /\ ViewInv' /\ GotInv'
  BY DEF CloseInv, ViewInv, GotInv, Unread, Held
<1>4. ReleaseInv'
  BY DEF ReleaseInv, Unread, CloseInv
<1>5. CheckInv'
  BY DEF CheckInv, Held, HeadersAgree, PayloadHeadersAgree
<1> QED BY <1>2, <1>3, <1>4, <1>5

LEMMA OpenedType ==
  ASSUME NEW b \in BodyRecord, NEW opens \in BOOLEAN, NEW v \in Views
  PROVE  /\ Opened(b, opens) \in View
         /\ Opened(b, opens).got = <<>> /\ Opened(b, opens).end = "reading"
         /\ Opened(b, opens).once = "none"
         /\ Opened(b, opens).open => b.spooled /\ ~b.closed
         /\ Registers(v, b, opens) \subseteq {v}
         /\ Opened(b, opens).open => v \in Registers(v, b, opens)
         /\ b.closed => Registers(v, b, opens) = {}
<1> DEFINE o == Opened(b, opens)
<1>1. \/ /\ b.closed \/ (b.spooled /\ ~opens)
         /\ o = [kind |-> "error", open |-> FALSE, once |-> "none", got |-> <<>>, end |-> "reading"]
      \/ /\ ~b.closed /\ b.spooled
         /\ o = [kind |-> "file", open |-> TRUE, once |-> "none", got |-> <<>>, end |-> "reading"]
      \/ /\ ~b.closed /\ ~b.spooled
         /\ o = [kind |-> "bytes", open |-> FALSE, once |-> "none", got |-> <<>>, end |-> "reading"]
  BY DEF Opened, NoView
<1>2. o \in View
  <2> HIDE DEF o
  <2>1. [kind |-> "error", open |-> FALSE, once |-> "none", got |-> <<>>, end |-> "reading"] \in View
    BY DEF View
  <2>2. [kind |-> "file", open |-> TRUE, once |-> "none", got |-> <<>>, end |-> "reading"] \in View
    BY DEF View
  <2>3. [kind |-> "bytes", open |-> FALSE, once |-> "none", got |-> <<>>, end |-> "reading"] \in View
    BY DEF View
  <2> QED BY <2>1, <2>2, <2>3, <1>1, Zenon
<1>3. Registers(v, b, opens) = IF o.open THEN {v} ELSE {}
  BY DEF Registers
<1> HIDE DEF o
<1>4. o.got = <<>> /\ o.end = "reading" /\ o.once = "none" /\ (o.open => b.spooled /\ ~b.closed)
  BY <1>1
<1>5. QED BY <1>2, <1>3, <1>4 DEF o

\* What one read leaves in memory and in the file.
LEMMA StoredType ==
  ASSUME ExInv, pc = "capture", NEW n \in Nat, n <= left, body.size + n <= MaxSpool,
         NEW chunk, chunk = SubSeq(Payload(exRequest.length), body.size + 1, body.size + n)
  PROVE  /\ Stored(chunk) \in BodyRecord /\ Spooled(chunk) \in Seq(Nat)
         /\ Stored(chunk).size = body.size + n
         /\ ~Stored(chunk).closed /\ ~Stored(chunk).done
         /\ Stored(chunk).spooled => /\ Spooled(chunk) = Payload(body.size + n) /\ Stored(chunk).memory = <<>>
                                     /\ body.size + n > MaxInMemory
         /\ ~Stored(chunk).spooled => /\ Spooled(chunk) = <<>> /\ Stored(chunk).memory = Payload(body.size + n)
                                      /\ body.size + n <= MaxInMemory
<1>1. /\ body \in BodyRecord /\ body.size \in Nat /\ left \in Nat /\ body.size + left = exRequest.length
      /\ exRequest.length \in Nat /\ body.memory \in Seq(Nat) /\ file \in Seq(Nat)
      /\ ~body.closed /\ ~body.done /\ body.spooled \in BOOLEAN
  BY LengthType DEF ExInv, ExType, StoreInv, CloseInv, Unread, BodyRecord
<1>2. /\ chunk \in Seq(Nat) /\ Len(chunk) = n
      /\ Payload(body.size) \o chunk = Payload(body.size + n)
  <2>1. body.size + n <= exRequest.length
    BY <1>1
  <2> QED BY <1>1, <2>1, PayloadGrows
<1>3. /\ body.spooled => file = Payload(body.size) /\ body.size > MaxInMemory /\ body.memory = <<>>
      /\ ~body.spooled => file = <<>> /\ body.memory = Payload(body.size)
  BY <1>1 DEF ExInv, StoreInv
<1>4. file \o body.memory = Payload(body.size)
  <2>1. Payload(body.size) \in Seq(Nat)
    BY <1>1, PayloadType
  <2> QED BY <1>3, <2>1, <1>1, ConcatEmptySeq
<1>5. file \o body.memory \o chunk = Payload(body.size + n)
  BY <1>2, <1>4
<1>6. Payload(body.size + n) \in Seq(Nat) /\ body.size + n \in Nat
  <2>1. body.size + n \in Nat
    BY <1>1
  <2> QED BY <2>1, PayloadType
<1>7. CASE ~body.spooled /\ body.size + Len(chunk) <= MaxInMemory
  <2>1. Stored(chunk) = [body EXCEPT !.memory = body.memory \o chunk, !.size = body.size + Len(chunk)]
    BY <1>7 DEF Stored
  <2>2. body.memory \o chunk = Payload(body.size + n)
    BY <1>7, <1>2, <1>3
  <2>3. /\ Stored(chunk) \in BodyRecord /\ Stored(chunk).size = body.size + n /\ ~Stored(chunk).spooled
        /\ ~Stored(chunk).closed /\ ~Stored(chunk).done /\ Stored(chunk).memory = Payload(body.size + n)
    BY <2>1, <2>2, <1>1, <1>2, <1>6, <1>7 DEF BodyRecord
  <2> QED BY <2>3, <1>1, <1>2, <1>3, <1>7 DEF Spooled
<1>8. CASE ~(~body.spooled /\ body.size + Len(chunk) <= MaxInMemory)
  <2>1. Stored(chunk) = [body EXCEPT !.memory = <<>>, !.spooled = TRUE, !.size = body.size + Len(chunk)]
    BY <1>8 DEF Stored
  <2>2. /\ Stored(chunk) \in BodyRecord /\ Stored(chunk).size = body.size + n /\ Stored(chunk).spooled
        /\ ~Stored(chunk).closed /\ ~Stored(chunk).done /\ Stored(chunk).memory = <<>>
    <3>1. body.size + Len(chunk) = body.size + n
      BY <1>2
    <3>2. Stored(chunk) = [memory |-> <<>>, spooled |-> TRUE, size |-> body.size + n,
                           closed |-> FALSE, done |-> FALSE]
      BY <2>1, <1>1, <3>1 DEF BodyRecord
    <3>3. Stored(chunk) \in BodyRecord
      <4> DEFINE k == body.size + n
      <4>1. k \in Nat
        BY <1>6
      <4> HIDE DEF k
      <4>2. [memory |-> <<>>, spooled |-> TRUE, size |-> k, closed |-> FALSE, done |-> FALSE] \in BodyRecord
        BY <4>1 DEF BodyRecord
      <4> QED BY <4>2, <3>2, Zenon DEF k
    <3> QED BY <3>2, <3>3
  <2>3. body.size + n > MaxInMemory
    <3>1. CASE body.spooled
      <4>1. body.size > MaxInMemory
        BY <3>1, <1>3
      <4> QED BY <4>1, <1>1, LimitTypes
    <3>2. CASE ~body.spooled
      <4>1. ~(body.size + n <= MaxInMemory)
        BY <3>2, <1>2, <1>8
      <4> QED BY <4>1, <1>1, LimitTypes
    <3> QED BY <3>1, <3>2
  <2> QED BY <2>2, <2>3, <1>5, <1>6 DEF Spooled
<1> QED BY <1>7, <1>8

LEMMA StepDiscard ==
  ASSUME ExInv, pc = "capture", NEW created, Discard(created), left' \in Nat,
         UNCHANGED <<exRequest, toClose, calls, mu, transport>>
  PROVE  ExInv'
<1>1. /\ pc' = "done" /\ body' = NoBody /\ file' = <<>> /\ sourceCloses' = sourceCloses + 1
      /\ UNCHANGED <<views, registered>> /\ (linked' => removeFailed')
  BY DEF Discard
<1>2. body' \in BodyRecord /\ body'.size = 0 /\ ~body'.spooled /\ ~body'.closed /\ ~body'.done /\ body'.memory = <<>>
  BY <1>1, NoViewType DEF NoBody
<1> USE <1>1 DEF ExInv
<1>3. ExType'
  BY <1>2 DEF ExType, PCs
<1>4. StoreInv'
  BY <1>2, PayloadZero, LimitTypes DEF ExType, StoreInv, Unread, Held, Leaving
<1>5. CloseInv'
  BY <1>2 DEF CloseInv, Unread, Held
<1>6. registered = {} /\ toClose = {}
  BY DEF ReleaseInv, CloseInv, Unread
<1>7. ViewInv'
  BY <1>6 DEF ViewInv
<1>8. ReleaseInv'
  BY <1>2, <1>6 DEF ReleaseInv, Unread, ExType
<1>9. GotInv'
  BY DEF GotInv
<1>10. CheckInv'
  BY DEF CheckInv, Held, HeadersAgree
<1> QED BY <1>3, <1>4, <1>5, <1>7, <1>8, <1>9, <1>10

\* A read that keeps the capture going, or ends it.
LEMMA StepKeep ==
  ASSUME ExInv, pc = "capture", NEW n \in Nat, left' = left - n, n <= left,
         UNCHANGED <<exRequest, toClose, calls, mu, transport, removeFailed>>,
         body' \in BodyRecord, file' \in Seq(Nat), body'.size = body.size + n, body.size + n <= MaxSpool,
         ~body'.closed, ~body'.done,
         body'.spooled => file' = Payload(body'.size) /\ body'.memory = <<>> /\ body'.size > MaxInMemory,
         ~body'.spooled => file' = <<>> /\ body'.memory = Payload(body'.size) /\ body'.size <= MaxInMemory,
         \/ UNCHANGED <<pc, views, registered, sourceCloses>>
         \/ /\ n = left /\ pc' = "payload" /\ sourceCloses' = sourceCloses + 1
            /\ \E view \in View : /\ views' = [views EXCEPT !["in"] = view]
                                  /\ view.got = <<>> /\ view.end = "reading" /\ view.once = "none"
                                  /\ registered' \subseteq {"in"}
                                  /\ view.open => body'.spooled /\ registered' = {"in"}
  PROVE  ExInv'
<1> USE DEF ExInv
<1>1. body.size \in Nat /\ left \in Nat /\ left' \in Nat /\ body.size + left = exRequest.length /\ transport = "idle"
      /\ exRequest.length \in Nat
  BY LengthType DEF ExType, StoreInv, BodyRecord, Unread
<1>2. registered = {} /\ toClose = {} /\ sourceCloses = 0 /\ \A v \in Views : ~views[v].open
  BY DEF ReleaseInv, CloseInv, ViewInv, Unread
<1>3. ASSUME UNCHANGED <<pc, views, registered, sourceCloses>> PROVE ExInv'
  <2>1. ExType'
    BY <1>1, <1>3 DEF ExType
  <2>2. StoreInv'
    BY <1>1, <1>3 DEF StoreInv, Unread, Held, Leaving
  <2>3. CloseInv' /\ ViewInv' /\ ReleaseInv' /\ GotInv'
    BY <1>2, <1>3 DEF CloseInv, ViewInv, ReleaseInv, GotInv, Unread, Held
  <2>4. CheckInv'
    BY <1>3 DEF CheckInv, Held, HeadersAgree, PayloadHeadersAgree, HashAgrees, SignatureAgrees
  <2> QED BY <2>1, <2>2, <2>3, <2>4
<1>4. ASSUME n = left, pc' = "payload", sourceCloses' = sourceCloses + 1,
             NEW view \in View, views' = [views EXCEPT !["in"] = view],
             view.got = <<>>, view.end = "reading", view.once = "none", registered' \subseteq {"in"},
             view.open => body'.spooled /\ registered' = {"in"}
      PROVE  ExInv'
  <2> USE <1>4
  <2>1. /\ views \in [Views -> View] /\ "in" \in Views /\ views'["in"] = view
        /\ \A v \in Views : v # "in" => views'[v] = views[v]
        /\ views' \in [Views -> View]
    BY DEF ExType, Views
  <2>2. ExType'
    BY <1>1, <1>2, <2>1 DEF ExType, PCs, Held, Views
  <2>3. StoreInv'
    BY <1>1 DEF StoreInv, Unread, Held, Leaving
  <2>4. CloseInv' /\ ReleaseInv'
    BY <1>2 DEF CloseInv, ReleaseInv, Unread, Held
  <2>5. ViewInv'
    BY <1>2, <2>1 DEF ViewInv
  <2>6. GotInv'
    <3>1. Len(view.got) = 0
      OBVIOUS
    <3> QED BY <1>1, <2>1, <3>1, PayloadZero DEF GotInv
  <2>7. CheckInv'
    BY DEF CheckInv, Held, HeadersAgree, PayloadHeadersAgree
  <2> QED BY <2>2, <2>3, <2>4, <2>5, <2>6, <2>7
<1> QED BY <1>3, <1>4

LEMMA StepRead == ExInv /\ Read => ExInv'
<1> SUFFICES ASSUME ExInv, Read PROVE ExInv'
  OBVIOUS
<1>1. /\ pc = "capture" /\ UNCHANGED <<exRequest, toClose, calls, mu, transport>>
      /\ body \in BodyRecord /\ body.size \in Nat /\ left \in Nat /\ file \in Seq(Nat)
  BY DEF Read, ExInv, ExType, BodyRecord
<1>2. PICK n \in Nat, end \in {"more", "eof", "error"}, fault \in BOOLEAN :
        n <= left /\ (end = "eof" => n = left) /\ ReadInto(n, end, fault)
  <2> DEFINE room == MaxSpool - body.size
             most == IF room = 0 THEN 1 ELSE Least(ReadBuffer, room)
  <2>1. PICK n \in 0 .. Least(most, left), end \in {"more", "eof", "error"}, fault \in BOOLEAN :
          (end = "eof" => n = left) /\ ReadInto(n, end, fault)
    BY DEF Read
  <2>2. n \in Nat /\ n <= left
    <3>1. room \in Nat
      BY <1>1, LimitTypes DEF ExInv, StoreInv
    <3>2. most \in Nat
      BY <3>1, ExchangeAssumption DEF Least
    <3> HIDE DEF most
    <3>3. Least(most, left) \in Nat /\ Least(most, left) <= left
      BY <3>2, <1>1 DEF Least
    <3> QED BY <3>3, <1>1
  <2> QED BY <2>1, <2>2
<1> DEFINE chunk == SubSeq(Payload(exRequest.length), body.size + 1, body.size + n)
           spools == body.size + n <= MaxSpool /\ IF n > 0 THEN Stored(chunk).spooled ELSE body.spooled
           created == body.spooled \/ (n > 0 /\ spools)
           fails == \/ body.size + n > MaxSpool \/ fault \/ end = "error"
                    \/ n = 0 /\ end = "more" /\ noProgress + 1 >= MaxNoProgress
           c == IF n > 0 THEN chunk ELSE <<>>
<1>3. /\ left' = left - n /\ left' \in Nat
      /\ fails => Discard(created)
      /\ ~fails => /\ body' = IF n > 0 THEN Stored(chunk) ELSE body
                   /\ file' = IF n > 0 THEN Spooled(chunk) ELSE file
                   /\ IF end = "eof" THEN Captured(c) ELSE UNCHANGED <<pc, views, registered, sourceCloses>>
                   /\ UNCHANGED removeFailed
  BY <1>1, <1>2 DEF ReadInto
<1> HIDE DEF spools, created
<1>4. CASE fails
  BY <1>1, <1>3, <1>4, StepDiscard
<1>5. CASE ~fails
  <2>1. body.size + n <= MaxSpool
    BY <1>1, <1>2, <1>5, LimitTypes
  <2> HIDE DEF fails
  <2>2. /\ body' \in BodyRecord /\ file' \in Seq(Nat) /\ body'.size = body.size + n /\ ~body'.closed /\ ~body'.done
        /\ body'.spooled => file' = Payload(body'.size) /\ body'.memory = <<>> /\ body'.size > MaxInMemory
        /\ ~body'.spooled => file' = <<>> /\ body'.memory = Payload(body'.size) /\ body'.size <= MaxInMemory
        /\ Stored(c) \in BodyRecord /\ (Stored(c).spooled => body'.spooled)
    <3>1. CASE n > 0
      <4>1. c = chunk /\ body' = Stored(chunk) /\ file' = Spooled(chunk)
        BY <3>1, <1>3, <1>5
      <4> HIDE DEF c
      <4> QED BY <4>1, <1>1, <1>2, <2>1, StoredType
    <3>2. CASE n = 0
      <4>1. c = <<>> /\ body' = body /\ file' = file
        BY <3>2, <1>3, <1>5
      <4>2. chunk = <<>>
        BY <3>2, <1>1, SubSeqEmpty
      <4>3. Stored(c) \in BodyRecord
        BY <4>1, <4>2, <1>1, <1>2, <2>1, StoredType
      <4>4. Stored(c).spooled => body.spooled
        <5> SUFFICES ASSUME ~body.spooled PROVE ~Stored(c).spooled
          OBVIOUS
        <5>1. body.size + Len(<<>>) <= MaxInMemory
          BY <1>1 DEF ExInv, StoreInv
        <5> QED BY <5>1, <4>1, <1>1 DEF Stored, BodyRecord
      <4>5. ~body.closed /\ ~body.done
        BY <1>1 DEF ExInv, CloseInv, Unread
      <4> QED BY <3>2, <4>1, <4>3, <4>4, <4>5, <1>1 DEF ExInv, StoreInv
    <3> QED BY <3>1, <3>2, <1>2
  <2>3. CASE end # "eof"
    <3>1. UNCHANGED <<pc, views, registered, sourceCloses>> /\ UNCHANGED removeFailed
      BY <2>3, <1>3, <1>5
    <3> QED BY <3>1, <1>1, <1>2, <1>3, <2>1, <2>2, StepKeep
  <2>4. CASE end = "eof"
    <3> HIDE DEF c
    <3>1. Captured(c) /\ UNCHANGED removeFailed /\ n = left
      BY <2>4, <1>2, <1>3, <1>5
    <3>2. PICK opens \in BOOLEAN : /\ views' = [views EXCEPT !["in"] = Opened(Stored(c), opens)]
                                   /\ registered' = Registers("in", Stored(c), opens)
      BY <3>1 DEF Captured
    <3>3. pc' = "payload" /\ sourceCloses' = sourceCloses + 1
      BY <3>1 DEF Captured
    <3> DEFINE view == Opened(Stored(c), opens)
    <3>4. /\ view \in View /\ view.got = <<>> /\ view.end = "reading" /\ view.once = "none"
          /\ view.open => Stored(c).spooled
          /\ registered' \subseteq {"in"} /\ (view.open => "in" \in registered')
      BY <2>2, <3>2, OpenedType DEF Views
    <3> HIDE DEF view
    <3>5. view.open => body'.spooled /\ registered' = {"in"}
      BY <2>2, <3>4
    <3>6. \E w \in View : /\ views' = [views EXCEPT !["in"] = w]
                          /\ w.got = <<>> /\ w.end = "reading" /\ w.once = "none"
                          /\ registered' \subseteq {"in"}
                          /\ w.open => body'.spooled /\ registered' = {"in"}
      BY <3>2, <3>4, <3>5 DEF view
    <3> QED BY <3>1, <3>3, <3>6, <1>1, <1>2, <1>3, <2>1, <2>2, StepKeep
  <2> QED BY <2>3, <2>4
<1> QED BY <1>4, <1>5

-----------------------------------------------------------------------------
(* The handler with the captured body.                                     *)

\* Steps that leave the views alone: the next stage, or the way out.
LEMMA StepStage ==
  ASSUME ExInv, pc \in Held, UNCHANGED <<Steps, body, views, registered>>,
         \/ pc' \in Held /\ calls' = calls
         \/ pc' = "close" /\ calls' \in Nat \ {0},
         transport' = transport \/ (transport' = "reading" /\ pc' = "await"),
         pc' \in Held => pc # "await",
         pc' \in Held \ {"payload"} => HashAgrees(exRequest) /\ SignatureAgrees(exRequest)
  PROVE  ExInv'
<1> USE DEF ExInv, Steps
<1>1. ExType'
  BY DEF ExType, PCs, Leaving
<1>2. StoreInv'
  BY DEF StoreInv, Unread, Held, Leaving
<1>3. CloseInv'
  BY DEF CloseInv, Unread, Held
<1>4. ViewInv' /\ GotInv'
  BY DEF ViewInv, GotInv
<1>5. ReleaseInv'
  BY DEF ReleaseInv, Unread, Held
<1>6. CheckInv'
  BY DEF CheckInv, Held, HeadersAgree, PayloadHeadersAgree, HashAgrees, SignatureAgrees
<1> QED BY <1>1, <1>2, <1>3, <1>4, <1>5, <1>6

LEMMA StepCheckPayload == ExInv /\ CheckPayload => ExInv'
  BY StepStage DEF CheckPayload, Leave, Held

LEMMA StepSign == ExInv /\ Sign => ExInv'
<1> SUFFICES ASSUME ExInv, Sign PROVE ExInv'
  OBVIOUS
<1>1. HashAgrees(exRequest) /\ SignatureAgrees(exRequest)
  BY DEF ExInv, CheckInv, Held, Sign
<1> QED BY <1>1, StepStage DEF Sign, Leave, Held

LEMMA StepRoundTripReturns == ExInv /\ RoundTripReturns => ExInv'
  BY StepStage DEF RoundTripReturns, Leave, Held

\* Before the body is closed, or while a descriptor is open, the contents are the payload.
LEMMA ContentsWhole ==
  ASSUME ExInv, body.size = exRequest.length, ~body.done \/ body.spooled
  PROVE  Contents = Payload(exRequest.length)
<1>1. CASE body.spooled
  BY <1>1 DEF ExInv, StoreInv, Contents
<1>2. CASE ~body.spooled
  BY <1>2 DEF ExInv, StoreInv, Contents
<1> QED BY <1>1, <1>2

\* Steps that replace one view by another that is no more open.
LEMMA StepView ==
  ASSUME ExInv, UNCHANGED <<Steps, body>>,
         \/ UNCHANGED <<pc, calls, transport>>
         \/ pc = "decode" /\ pc' = "resign" /\ UNCHANGED <<calls, transport>>
         \/ pc = "decode" /\ pc' = "close" /\ calls' \in Nat \ {0} /\ transport' = transport
         \/ /\ UNCHANGED <<pc, calls>> /\ transport \in {"reading", "closing"}
            /\ transport' \in {"closing", "closed"} /\ (transport' = "closing" => ~views'["out"].open),
         registered' \subseteq registered,
         \A w \in registered : w \notin registered' => ~views'[w].open,
         NEW v \in Views, NEW view \in View,
         views' = [views EXCEPT ![v] = view],
         view.open => views[v].open,
         view.once # "none" => ~view.open,
         view.got = Payload(Len(view.got)), Len(view.got) <= exRequest.length,
         view.end = "eof" => Len(view.got) = exRequest.length
  PROVE  ExInv'
<1> USE DEF ExInv, Steps
<1>1. /\ views'[v] = view /\ views' \in [Views -> View]
      /\ \A w \in Views : w # v => views'[w] = views[w]
  BY DEF ExType
<1>2. ExType'
  BY <1>1 DEF ExType, PCs, Held, Leaving
<1>3. StoreInv'
  BY DEF StoreInv, Unread, Held, Leaving
<1>4. CloseInv'
  BY DEF CloseInv, Unread, Held
<1>5. ViewInv'
  BY <1>1 DEF ViewInv
<1>6. ReleaseInv'
  BY DEF ReleaseInv, Unread, Held
<1>7. GotInv'
  BY <1>1 DEF GotInv
<1>8. CheckInv'
  BY DEF CheckInv, Held, HeadersAgree, PayloadHeadersAgree, HashAgrees, SignatureAgrees
<1> QED BY <1>2, <1>3, <1>4, <1>5, <1>6, <1>7, <1>8

LEMMA StepDecode == ExInv /\ Decode => ExInv'
<1> SUFFICES ASSUME ExInv, Decode PROVE ExInv'
  OBVIOUS
<1>1. /\ pc = "decode" /\ UNCHANGED <<Steps, body, transport>>
      /\ HashAgrees(exRequest) /\ SignatureAgrees(exRequest)
  BY DEF Decode, ExInv, CheckInv, Held
<1>2. CASE Leave(1) /\ UNCHANGED <<views, registered>>
  BY <1>1, <1>2, StepStage DEF Leave, Held
<1>3. ASSUME views' = [views EXCEPT !["in"] = [views["in"] EXCEPT !.open = FALSE, !.once = "done",
                                                                  !.got = Contents, !.end = "eof"]],
             registered' = registered \ {"in"},
             (pc' = "resign" /\ UNCHANGED calls) \/ Leave(1)
      PROVE  ExInv'
  <2> DEFINE view == [views["in"] EXCEPT !.open = FALSE, !.once = "done", !.got = Contents, !.end = "eof"]
  <2>1. exRequest.length \in Nat /\ views["in"] \in View /\ "in" \in Views /\ views \in [Views -> View]
    BY LengthType DEF ExInv, ExType, Views
  <2>2. Contents = Payload(exRequest.length)
    BY <1>1, ContentsWhole DEF ExInv, StoreInv, CloseInv, Held
  <2>3. Contents \in Seq(Nat) /\ Len(Contents) = exRequest.length
    BY <2>1, <2>2, PayloadType
  <2>4. /\ view \in View /\ ~view.open /\ view.got = Payload(Len(view.got))
        /\ Len(view.got) = exRequest.length /\ Len(view.got) <= exRequest.length
    <3>1. view \in View /\ ~view.open /\ view.got = Contents
      BY <2>1, <2>3 DEF View
    <3> HIDE DEF view
    <3> QED BY <3>1, <2>1, <2>2, <2>3
  <2>5. views' = [views EXCEPT !["in"] = view] /\ views'["in"] = view
    BY <1>3, <2>1
  <2> HIDE DEF view
  <2>6. \/ pc = "decode" /\ pc' = "resign" /\ UNCHANGED <<calls, transport>>
        \/ pc = "decode" /\ pc' = "close" /\ calls' \in Nat \ {0} /\ transport' = transport
    BY <1>1, <1>3 DEF Leave
  <2>7. registered' \subseteq registered /\ \A w \in registered : w \notin registered' => ~views'[w].open
    BY <1>3, <2>4, <2>5
  <2> QED BY <1>1, <2>1, <2>4, <2>5, <2>6, <2>7, StepView
<1> QED BY <1>2, <1>3 DEF Decode

LEMMA StepResign == ExInv /\ Resign => ExInv'
<1> SUFFICES ASSUME ExInv, Resign PROVE ExInv'
  OBVIOUS
<1>1. /\ pc = "resign" /\ UNCHANGED <<Steps, body, transport>>
      /\ HashAgrees(exRequest) /\ SignatureAgrees(exRequest)
  BY DEF Resign, ExInv, CheckInv, Held
<1>2. CASE Leave(2) /\ UNCHANGED <<views, registered>>
  BY <1>1, <1>2, StepStage DEF Leave, Held
<1>3. ASSUME NEW opens \in BOOLEAN,
             views' = [views EXCEPT !["probe"] = [Opened(body, TRUE) EXCEPT !.open = FALSE, !.once = "done"],
                                    !["out"] = Opened(body, opens)],
             registered' = registered \cup Registers("out", body, opens),
             pc' = "sign", UNCHANGED calls
      PROVE  ExInv'
  <2> DEFINE probe == [Opened(body, TRUE) EXCEPT !.open = FALSE, !.once = "done"]
             out == Opened(body, opens)
  <2>1. body \in BodyRecord /\ views \in [Views -> View] /\ registered \subseteq Views /\ toClose = {} /\ ~body.closed
    BY <1>1 DEF ExInv, ExType, CloseInv, Held
  <2>2. /\ out \in View /\ out.got = <<>> /\ out.end = "reading" /\ out.once = "none"
        /\ out.open => body.spooled /\ "out" \in registered'
        /\ registered' \subseteq registered \cup {"out"}
    BY <1>3, <2>1, OpenedType DEF Views
  <2>3. probe \in View /\ ~probe.open /\ probe.got = <<>> /\ probe.end = "reading"
    <3> DEFINE o == Opened(body, TRUE)
    <3>1. o \in View /\ o.got = <<>> /\ o.end = "reading"
      BY <2>1, OpenedType DEF Views
    <3> HIDE DEF o
    <3>2. [o EXCEPT !.open = FALSE, !.once = "done"] \in View
          /\ ~[o EXCEPT !.open = FALSE, !.once = "done"].open
          /\ [o EXCEPT !.open = FALSE, !.once = "done"].got = <<>>
          /\ [o EXCEPT !.open = FALSE, !.once = "done"].end = "reading"
      BY <3>1 DEF View
    <3> QED BY <3>2 DEF o
  <2> HIDE DEF probe, out
  <2>4. views' = [views EXCEPT !["probe"] = probe, !["out"] = out]
    BY <1>3 DEF probe, out
  <2>5. /\ views' \in [Views -> View] /\ views'["in"] = views["in"]
        /\ views'["probe"] = probe /\ views'["out"] = out
    BY <2>1, <2>2, <2>3, <2>4 DEF Views
  <2> USE <1>1, <1>3 DEF ExInv, Steps
  <2>6. ExType'
    BY <2>1, <2>2, <2>5 DEF ExType, PCs, Held, Views
  <2>7. StoreInv' /\ CloseInv' /\ ReleaseInv'
    BY <2>1 DEF StoreInv, CloseInv, ReleaseInv, Unread, Held, Leaving
  <2>8. ViewInv'
    <3>1. transport' = "idle"
      BY DEF StoreInv, Unread, Held
    <3> QED BY <2>2, <2>3, <2>5, <3>1 DEF ViewInv, Views
  <2>9. GotInv'
    <3>1. Len(<<>>) = 0
      OBVIOUS
    <3> QED BY <2>2, <2>3, <2>5, <3>1, PayloadZero, LengthType DEF ExType, GotInv, Views
  <2>10. CheckInv'
    BY DEF CheckInv, Held, HeadersAgree, PayloadHeadersAgree, HashAgrees, SignatureAgrees
  <2> QED BY <2>6, <2>7, <2>8, <2>9, <2>10
<1> QED BY <1>2, <1>3 DEF Resign

-----------------------------------------------------------------------------
(* Body.Close and the transport's goroutine.                               *)

\* Steps of Body.Close, which leave the request and what is read of it alone.
LEMMA StepClosing ==
  ASSUME ExInv, pc \in Leaving, pc' \in Leaving \cup {"done"},
         UNCHANGED <<exRequest, left, file, mu, transport, sourceCloses>>,
         StoreInv', CloseInv', ViewInv', GotInv',
         body' \in BodyRecord, views' \in [Views -> View], calls' \in Nat,
         registered' \subseteq Views, toClose' \subseteq Views,
         body'.done \/ pc' = "done" => (linked' => removeFailed'),
         pc' = "done" => registered' = {}
  PROVE  ExInv'
<1>1. ExType'
  BY DEF ExInv, ExType, PCs
<1>2. ReleaseInv'
  BY DEF ExInv, ReleaseInv, Unread, Leaving
<1>3. CheckInv'
  BY DEF ExInv, CheckInv, Held, Leaving, HeadersAgree
<1> QED BY <1>1, <1>2, <1>3 DEF ExInv

LEMMA StepCloseCall == ExInv /\ CloseCall => ExInv'
<1> SUFFICES ASSUME ExInv, CloseCall PROVE ExInv'
  OBVIOUS
<1>1. /\ pc = "close" /\ calls > 0 /\ calls \in Nat /\ body \in BodyRecord /\ toClose = {}
      /\ UNCHANGED <<exRequest, left, noProgress, file, linked, views, mu, transport,
                     sourceCloses, removeFailed>>
  BY DEF CloseCall, ExInv, ExType, CloseInv
<1>2. CASE body.closed
  <2>1. body.done /\ calls' = calls - 1 /\ UNCHANGED <<pc, body, toClose, registered>>
    BY <1>2 DEF CloseCall
  <2>2. StoreInv' /\ ViewInv' /\ GotInv'
    BY <1>1, <2>1 DEF ExInv, StoreInv, ViewInv, GotInv
  <2>3. CloseInv'
    BY <1>1, <1>2, <2>1 DEF ExInv, CloseInv, Unread, Held
  <2>4. linked => removeFailed
    BY <2>1 DEF ExInv, ReleaseInv
  <2> QED BY <1>1, <2>1, <2>2, <2>3, <2>4, StepClosing DEF ExInv, ExType, Leaving
<1>3. CASE ~body.closed
  <2>1. /\ body' = [body EXCEPT !.closed = TRUE] /\ toClose' = registered /\ registered' = {}
        /\ pc' = "closing" /\ calls' = calls
    BY <1>3 DEF CloseCall
  <2>2. ~body.done
    BY <1>1, <1>3 DEF ExInv, CloseInv
  <2>3. /\ body' \in BodyRecord /\ body'.closed /\ ~body'.done /\ body'.spooled = body.spooled
        /\ body'.size = body.size /\ body'.memory = body.memory
    BY <1>1, <2>1, <2>2 DEF BodyRecord
  <2>4. StoreInv'
    BY <1>1, <2>1, <2>2, <2>3 DEF ExInv, StoreInv, Unread, Held, Leaving
  <2>5. ViewInv' /\ GotInv'
    BY <1>1, <2>1, <2>3 DEF ExInv, ViewInv, GotInv
  <2>6. CloseInv'
    BY <1>1, <2>1, <2>3 DEF CloseInv, Unread, Held
  <2> QED BY <1>1, <2>1, <2>3, <2>4, <2>5, <2>6, StepClosing DEF ExInv, ExType, Leaving
<1> QED BY <1>2, <1>3

LEMMA StepCloseView == ExInv /\ CloseView => ExInv'
<1> SUFFICES ASSUME ExInv, CloseView PROVE ExInv'
  OBVIOUS
<1>1. /\ pc = "closing" /\ toClose \subseteq Views /\ views \in [Views -> View] /\ ~body.done
      /\ UNCHANGED <<exRequest, pc, left, noProgress, body, file, linked, registered, calls, mu,
                     transport, sourceCloses, removeFailed>>
  BY DEF CloseView, ExInv, ExType, CloseInv
<1>2. PICK v \in toClose :
         \/ /\ views[v].once = "none"
            /\ views' = [views EXCEPT ![v].open = FALSE, ![v].once = "handler"]
            /\ UNCHANGED toClose
         \/ /\ views[v].once = "handler"
            /\ views' = [views EXCEPT ![v].once = "done"]
            /\ toClose' = toClose \ {v}
         \/ /\ views[v].once = "done"
            /\ toClose' = toClose \ {v}
            /\ UNCHANGED views
  BY DEF CloseView
<1>3. /\ views' \in [Views -> View] /\ toClose' \subseteq toClose /\ ~views'[v].open
      /\ views'[v].got = views[v].got /\ views'[v].end = views[v].end
      /\ \A w \in Views : w # v => views'[w] = views[w] /\ (w \in toClose => w \in toClose')
  <2>1. v \in Views /\ views[v] \in View /\ (views[v].once # "none" => ~views[v].open)
    BY <1>1, <1>2 DEF ExInv, ViewInv
  <2>2. CASE views[v].once = "none" /\ views' = [views EXCEPT ![v].open = FALSE, ![v].once = "handler"]
             /\ UNCHANGED toClose
    <3> DEFINE new == [views[v] EXCEPT !.open = FALSE, !.once = "handler"]
    <3>1. views' = [views EXCEPT ![v] = new]
      BY <1>1, <2>1, <2>2 DEF View
    <3>2. new \in View /\ ~new.open /\ new.got = views[v].got /\ new.end = views[v].end
      BY <2>1 DEF View
    <3> HIDE DEF new
    <3> QED BY <1>1, <2>1, <2>2, <3>1, <3>2
  <2>3. CASE views[v].once = "handler" /\ views' = [views EXCEPT ![v].once = "done"] /\ toClose' = toClose \ {v}
    BY <1>1, <2>1, <2>3 DEF View
  <2>4. CASE views[v].once = "done" /\ toClose' = toClose \ {v} /\ UNCHANGED views
    BY <1>1, <2>1, <2>4
  <2> QED BY <1>2, <2>2, <2>3, <2>4
<1>4. StoreInv'
  BY <1>1 DEF ExInv, StoreInv
<1>5. CloseInv'
  BY <1>1, <1>3 DEF ExInv, CloseInv, Unread, Held
<1>6. ViewInv'
  BY <1>1, <1>3 DEF ExInv, ViewInv, Views
<1>7. GotInv'
  BY <1>1, <1>3 DEF ExInv, GotInv
<1> QED BY <1>1, <1>3, <1>4, <1>5, <1>6, <1>7, StepClosing DEF ExInv, ExType, Leaving

LEMMA StepCloseEnds == ExInv /\ CloseEnds => ExInv'
<1> SUFFICES ASSUME ExInv, CloseEnds PROVE ExInv'
  OBVIOUS
<1>1. /\ pc = "closing" /\ toClose = {} /\ pc' = "close" /\ calls' = calls - 1 /\ mu' = mu
      /\ body' = [body EXCEPT !.memory = [i \in DOMAIN body.memory |-> Zero], !.done = TRUE]
      /\ (linked' => removeFailed')
      /\ UNCHANGED <<exRequest, left, noProgress, file, views, registered, toClose, transport, sourceCloses>>
  BY DEF CloseEnds, ExInv, ExType
<1>2. calls' \in Nat /\ body \in BodyRecord /\ body.closed /\ body.memory \in Seq(Nat)
  BY <1>1 DEF ExInv, ExType, CloseInv, BodyRecord
<1>3. [i \in DOMAIN body.memory |-> Zero] \in Seq(Nat)
      /\ (body.memory = <<>> => [i \in DOMAIN body.memory |-> Zero] = <<>>)
  BY <1>2 DEF Zero
<1>4. /\ body' \in BodyRecord /\ body'.closed /\ body'.done /\ body'.spooled = body.spooled
      /\ body'.size = body.size /\ (body.memory = <<>> => body'.memory = <<>>)
  BY <1>1, <1>2, <1>3 DEF BodyRecord
<1>5. StoreInv'
  BY <1>1, <1>4 DEF ExInv, StoreInv, Unread, Held, Leaving
<1>6. CloseInv'
  BY <1>1, <1>2, <1>4 DEF ExInv, CloseInv, Unread, Held
<1>7. ViewInv' /\ GotInv'
  BY <1>1, <1>4 DEF ExInv, ViewInv, GotInv
<1> QED BY <1>1, <1>2, <1>4, <1>5, <1>6, <1>7, StepClosing DEF ExInv, ExType, Leaving

LEMMA StepHandlerReturns == ExInv /\ HandlerReturns => ExInv'
<1> SUFFICES ASSUME ExInv, HandlerReturns PROVE ExInv'
  OBVIOUS
<1>1. pc = "close" /\ calls = 0 /\ pc' = "done" /\ UNCHANGED <<Steps, body, views, registered, calls, transport>>
  BY DEF HandlerReturns
<1>2. body.closed /\ body.done /\ registered = {} /\ toClose = {} /\ (linked => removeFailed)
  BY <1>1 DEF ExInv, CloseInv, ReleaseInv
<1> USE <1>1, <1>2 DEF Steps
<1>3. StoreInv' /\ CloseInv' /\ ViewInv' /\ GotInv'
  BY DEF ExInv, StoreInv, CloseInv, ViewInv, GotInv, Unread, Held, Leaving
<1> QED BY <1>3, StepClosing DEF ExInv, ExType, Leaving

LEMMA StepTransportReads == ExInv /\ TransportReads => ExInv'
<1> SUFFICES ASSUME ExInv, TransportReads PROVE ExInv'
  OBVIOUS
<1> DEFINE old == views["out"]
           new == NextRead(old)
<1>1. /\ transport = "reading" /\ old.end = "reading" /\ views' = [views EXCEPT !["out"] = new]
      /\ UNCHANGED <<Steps, pc, body, registered, calls, transport>>
  BY DEF TransportReads
<1>2. /\ "out" \in Views /\ old \in View /\ old.got \in Seq(Nat) /\ exRequest.length \in Nat
      /\ body.size = exRequest.length /\ (old.open => body.spooled)
      /\ (old.once # "none" => ~old.open) /\ old.got = Payload(Len(old.got))
      /\ Len(old.got) <= exRequest.length
  BY <1>1, LengthType DEF ExInv, ExType, Views, View, StoreInv, ViewInv, GotInv
<1> HIDE DEF old
<1>3. Readable(old) => Contents = Payload(exRequest.length)
  <2> SUFFICES ASSUME Readable(old) PROVE ~body.done \/ body.spooled
    BY <1>2, ContentsWhole
  <2>1. CASE old.kind = "bytes"
    <3>1. ~body.closed
      BY <2>1 DEF Readable
    <3> QED BY <3>1 DEF ExInv, CloseInv
  <2>2. CASE old.kind # "bytes"
    BY <2>2, <1>2 DEF Readable
  <2> QED BY <2>1, <2>2
<1>4. /\ new \in View /\ new.open = old.open /\ new.once = old.once
      /\ new.got = Payload(Len(new.got)) /\ Len(new.got) <= exRequest.length
      /\ (new.end = "eof" => Len(new.got) = exRequest.length)
  <2>1. CASE ~Readable(old)
    <3>1. new = [old EXCEPT !.end = "error"]
      BY <2>1 DEF NextRead
    <3> QED BY <3>1, <1>2 DEF View
  <2> DEFINE n == Len(old.got)
  <2>2. n \in Nat
    BY <1>2
  <2>3. CASE Readable(old)
    <3>1. Contents = Payload(exRequest.length) /\ Len(Contents) = exRequest.length
      BY <2>3, <1>2, <1>3, PayloadType
    <3>2. CASE n >= Len(Contents)
      <4>1. new = [old EXCEPT !.end = "eof"]
        BY <2>3, <3>2 DEF NextRead
      <4>2. new \in View /\ new.open = old.open /\ new.once = old.once /\ new.got = old.got
        BY <4>1, <1>2 DEF View
      <4>3. n = exRequest.length
        BY <3>1, <3>2, <2>2, <1>2
      <4> HIDE DEF new
      <4> QED BY <4>2, <4>3, <1>2
    <3>3. CASE ~(n >= Len(Contents))
      <4>1. new = [old EXCEPT !.got = Append(old.got, Contents[n + 1])]
        BY <2>3, <3>3 DEF NextRead
      <4>2. Contents[n + 1] = n + 1
        BY <3>1, <3>3, <2>2, <1>2 DEF Payload
      <4>3. Append(old.got, n + 1) = Payload(n + 1) /\ Payload(n + 1) \in Seq(Nat) /\ Len(Payload(n + 1)) = n + 1
        <5>1. n + 1 \in Nat
          BY <2>2
        <5>2. Append(Payload(n), n + 1) = Payload(n + 1)
          BY <2>2, PayloadAppends
        <5> QED BY <5>1, <5>2, <1>2, PayloadType
      <4>4. new = [old EXCEPT !.got = Payload(n + 1)]
        BY <4>1, <4>2, <4>3
      <4>5. new \in View /\ new.open = old.open /\ new.once = old.once /\ new.got = Payload(n + 1) /\ new.end = "reading"
        BY <4>3, <4>4, <1>1, <1>2 DEF View, old
      <4>6. n + 1 <= exRequest.length
        BY <3>1, <3>3, <2>2, <1>2
      <4> HIDE DEF new
      <4> QED BY <4>3, <4>5, <4>6
    <3> QED BY <3>2, <3>3
  <2> QED BY <2>1, <2>3
<1> HIDE DEF new
<1>5. new.open => views["out"].open
  BY <1>4 DEF old
<1>6. new.once # "none" => ~new.open
  BY <1>4, <1>2
<1> QED BY <1>1, <1>2, <1>4, <1>5, <1>6, StepView

LEMMA StepTransportCloses == ExInv /\ TransportCloses => ExInv'
<1> SUFFICES ASSUME ExInv, TransportCloses PROVE ExInv'
  OBVIOUS
<1> DEFINE old == views["out"]
<1>1. /\ transport = "reading" /\ UNCHANGED <<Steps, pc, body, registered, calls>>
      /\ "out" \in Views /\ views \in [Views -> View] /\ old \in View
      /\ old.got = Payload(Len(old.got)) /\ Len(old.got) <= exRequest.length
      /\ (old.end = "eof" => Len(old.got) = exRequest.length)
      /\ (old.once # "none" => ~old.open)
  BY DEF TransportCloses, ExInv, ExType, GotInv, ViewInv, Views
<1>2. CASE views' = [views EXCEPT !["out"].open = FALSE, !["out"].once = "transport"] /\ transport' = "closing"
  <2> DEFINE new == [old EXCEPT !.open = FALSE, !.once = "transport"]
  <2>1. views' = [views EXCEPT !["out"] = new]
    BY <1>1, <1>2 DEF View
  <2>2. new \in View /\ ~new.open /\ new.got = old.got /\ new.end = old.end
    BY <1>1 DEF View
  <2>3. views'["out"] = new
    BY <1>1, <2>1
  <2> HIDE DEF new
  <2> QED BY <1>1, <1>2, <2>1, <2>2, <2>3, StepView
<1>3. CASE transport' = "closed" /\ UNCHANGED views
  <2>1. views' = [views EXCEPT !["out"] = old]
    BY <1>1, <1>3
  <2> QED BY <1>1, <1>3, <2>1, StepView
<1> QED BY <1>2, <1>3 DEF TransportCloses

LEMMA StepTransportUnregisters == ExInv /\ TransportUnregisters => ExInv'
<1> SUFFICES ASSUME ExInv, TransportUnregisters PROVE ExInv'
  OBVIOUS
<1> DEFINE old == views["out"]
           new == [old EXCEPT !.once = "done"]
<1>1. /\ transport = "closing" /\ transport' = "closed" /\ registered' = registered \ {"out"}
      /\ UNCHANGED <<Steps, pc, body, calls>>
      /\ "out" \in Views /\ views \in [Views -> View] /\ old \in View
      /\ old.got = Payload(Len(old.got)) /\ Len(old.got) <= exRequest.length
      /\ (old.end = "eof" => Len(old.got) = exRequest.length)
  BY DEF TransportUnregisters, ExInv, ExType, GotInv, Views
<1>2. ~old.open
  BY <1>1 DEF ExInv, ViewInv
<1>3. views' = [views EXCEPT !["out"] = new]
  BY <1>1 DEF TransportUnregisters, View
<1>4. new \in View /\ ~new.open /\ new.got = old.got /\ new.end = old.end /\ views'["out"] = new
  BY <1>1, <1>2, <1>3 DEF View
<1> HIDE DEF new
<1> QED BY <1>1, <1>3, <1>4, StepView

-----------------------------------------------------------------------------
LEMMA ExNextInv == ExInv /\ [ExNext]_exVars => ExInv'
<1> SUFFICES ASSUME ExInv, [ExNext]_exVars PROVE ExInv'
  OBVIOUS
<1>1. CASE HandlerStep
  BY <1>1, StepVerify, StepRead, StepCheckPayload, StepDecode, StepResign, StepSign, StepRoundTripReturns,
     StepCloseCall, StepCloseView, StepCloseEnds, StepHandlerReturns DEF HandlerStep
<1>2. CASE TransportReads \/ TransportEnds
  BY <1>2, StepTransportReads, StepTransportCloses, StepTransportUnregisters DEF TransportEnds
<1>3. CASE UNCHANGED exVars
  <2> USE <1>3 DEF exVars, ExInv
  <2>1. ExType' /\ StoreInv'
    BY DEF ExType, StoreInv
  <2>2. CloseInv' /\ ViewInv'
    BY DEF CloseInv, ViewInv
  <2>3. ReleaseInv' /\ GotInv'
    BY DEF ReleaseInv, GotInv
  <2>4. CheckInv'
    BY DEF CheckInv, HeadersAgree, PayloadHeadersAgree, HashAgrees, SignatureAgrees
  <2> QED BY <2>1, <2>2, <2>3, <2>4
<1> QED BY <1>1, <1>2, <1>3 DEF ExNext

LEMMA ExAlways == ExSpec => []ExInv
  BY ExInitInv, ExNextInv, PTL DEF ExSpec

\* On every path of the handler the client's body is closed once, and no descriptor
\* and no spool file is left that the file system let it remove.
THEOREM BodyReleased == ExSpec => []BodyIsReleased
  BY ExAlways, ReleasedHolds, PTL

\* No reader of the body sees anything but a prefix of what the client sent.
THEOREM PayloadWhole == ExSpec => []PayloadIsWhole
  BY ExAlways, PayloadHolds, PTL

\* A request goes past the verification only with what its signature must cover.
THEOREM VerifiedSigned == ExSpec => []VerifiedIsSigned
  BY ExAlways, VerifiedHolds, PTL
=============================================================================
