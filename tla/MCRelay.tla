------------------------------- MODULE MCRelay -------------------------------
EXTENDS Relay, TLC

NoEnv == [k \in {} |-> ""]
Both(n, m) == ("up" :> n) @@ ("down" :> m)
MCNormalIP == ("pub1" :> "pub1") @@ ("pub2" :> "pub2") @@ ("priv" :> "priv")
                @@ ("mapped" :> "priv") @@ ("lab" :> "lab")
MCResolutions == ("h" :> {<<"pub1">>, <<"pub1", "pub2">>, <<"pub2", "priv">>, <<"mapped">>, <<"lab">>, <<>>})
                   @@ ("ip" :> {<<"pub1">>}) @@ ("aws" :> {<<"pub1">>})

Asked(method, scheme) ==
  [method |-> method, scheme |-> scheme, host |-> "h", kind |-> "other", port |-> 443,
   authenticated |-> TRUE, fits |-> TRUE, bodyFits |-> TRUE, env |-> NoEnv, noProxy |-> {},
   early |-> Both(0, 0), sends |-> Both(0, 0), closes |-> Both(TRUE, TRUE)]
Tunnelled == [Asked("CONNECT", "https") EXCEPT !.host = "ip"]

\* Every way to be refused, every way to choose a parent proxy.
Admissions ==
  LET c == Asked("CONNECT", "https")
      p == Asked("GET", "http")
  IN  {c, p, [p EXCEPT !.bodyFits = FALSE], [c EXCEPT !.authenticated = FALSE], [c EXCEPT !.fits = FALSE],
       [c EXCEPT !.kind = "malformed"], [c EXCEPT !.kind = "awslike"],
       [c EXCEPT !.kind = "aws", !.host = "aws"], [c EXCEPT !.kind = "aws", !.host = "aws", !.port = 80],
       [p EXCEPT !.kind = "aws", !.host = "aws"]}
      \cup {[r EXCEPT !.env = e, !.noProxy = n] :
              r \in {c, p}, n \in {{}, {"h"}, {"*"}},
              e \in {"HTTPS_PROXY" :> "http", "HTTPS_PROXY" :> "" @@ "https_proxy" :> "http",
                     "https_proxy" :> "https", "http_proxy" :> "http", "ALL_PROXY" :> "http",
                     "HTTP_PROXY" :> "socks", "all_proxy" :> "socks"}}

\* Two bytes each way, up to one of them buffered; peers that close and that do not.
Flows ==
  {[Tunnelled EXCEPT !.early = Both(e, f), !.sends = Both(m, n), !.closes = c] :
     e \in {0, 1}, f \in {0, 1}, m \in {1, 2}, n \in {1, 2}, c \in {Both(TRUE, TRUE), Both(TRUE, FALSE), Both(FALSE, FALSE)}}

MCRelays == Admissions \cup Flows \cup {Tunnelled}
=============================================================================
