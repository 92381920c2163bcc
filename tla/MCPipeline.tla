---------------------------- MODULE MCPipeline ----------------------------
(***************************************************************************)
(* Pipeline on a small instance: two requests that interleave freely, and  *)
(* a last one that arrives when both slots are taken and is turned away.   *)
(***************************************************************************)
EXTENDS Pipeline

CONSTANTS First, Last

\* The key of the last request does not matter; of two initial states that differ
\* by the names of the first two requests, one is enough.
LimitInit ==
    /\ Init
    /\ key[Last] \in Allowed
    /\ key[First] \notin Allowed => \A r \in Requests \ {Last} : key[r] \notin Allowed

AtTheLimit == pc[Last] = "idle" /\ pc'[Last] # "idle" => slots = MaxRequests

\* Pipeline's Fairness; the last request has no step to take once it arrived.
LimitFairness ==
    \A r \in Requests \ {Last} :
        /\ WF_vars(Handler(r) /\ pc[r] # "roundTrip")
        /\ WF_vars(RoundTripFail(r) /\ r \in cancelled)
        /\ WF_vars(Cancel(r) /\ server # "open")

LimitSpec == LimitInit /\ [][Next /\ AtTheLimit]_vars /\ LimitFairness
=============================================================================
