----------------------------- MODULE MCExchange -----------------------------
EXTENDS Exchange, TLC

\* A request every check accepts, of the given length; 5 is the time it was signed.
Sound(n) == [url |-> "endpoint", query |-> "plain", authorization |-> "v4",
             credential |-> "own", token |-> "own", scope |-> "endpoint",
             signed |-> {"host", "x-amz-date", "x-amz-security-token"},
             times |-> ("x-amz-date" :> 5), scopeDay |-> 1,
             contentType |-> "plain", hash |-> "right", signature |-> "valid",
             length |-> n, declared |-> n]

Changed == {[Sound(2) EXCEPT !.url = "other"], [Sound(2) EXCEPT !.query = "signing"],
            [Sound(2) EXCEPT !.authorization = "absent"], [Sound(2) EXCEPT !.credential = "other"],
            [Sound(2) EXCEPT !.token = "other"], [Sound(2) EXCEPT !.scope = "other"],
            [Sound(2) EXCEPT !.signed = {"x-amz-date", "x-amz-security-token"}],
            [Sound(2) EXCEPT !.signed = {"host", "x-amz-date"}],
            [Sound(2) EXCEPT !.signed = {"host", "x-amz-security-token"}],
            [Sound(2) EXCEPT !.signed = {"host", "date", "x-amz-security-token"},
                             !.times = ("date" :> 5) @@ ("x-amz-date" :> -1)],
            [Sound(2) EXCEPT !.signed = {"host", "date", "x-amz-security-token"},
                             !.times = ("date" :> 5) @@ ("x-amz-date" :> 5)],
            [Sound(2) EXCEPT !.signed = {"host", "date", "x-amz-security-token"},
                             !.times = ("date" :> 4)],
            [Sound(2) EXCEPT !.times = ("x-amz-date" :> 3), !.scopeDay = 0],
            [Sound(2) EXCEPT !.times = ("x-amz-date" :> 2), !.scopeDay = 0],
            [Sound(2) EXCEPT !.times = ("x-amz-date" :> 3)],
            [Sound(2) EXCEPT !.contentType = "eventstream"],
            [Sound(2) EXCEPT !.hash = "streaming"], [Sound(2) EXCEPT !.hash = "wrong"],
            [Sound(3) EXCEPT !.hash = "wrong"], [Sound(3) EXCEPT !.hash = "absent"],
            [Sound(3) EXCEPT !.signature = "invalid"], [Sound(1) EXCEPT !.signature = "invalid"]}

\* Bodies of no byte, of both limits and one byte over each, with and without a
\* declared length, and requests that each check refuses.
MCExRequests == {[Sound(n) EXCEPT !.declared = d] : n \in 0 .. 4, d \in {-1}}
                  \cup {Sound(n) : n \in {2, 3, 4}}
                  \cup Changed
=============================================================================
