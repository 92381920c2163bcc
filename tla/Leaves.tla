------------------------------- MODULE Leaves -------------------------------
(***************************************************************************)
(* pki.LeafCache over one run's CA: lazily issued certificates of exact    *)
(* hosts in a bounded LRU, issuance under the cache's mutex, and the close *)
(* of the server, which empties the cache and then retires the CA.         *)
(***************************************************************************)
EXTENDS Integers, Lru

CONSTANTS LeafHosts,       \* normalised hosts
          BadLeafHosts,    \* names normalizeDNSName refuses
          LeafCallers,     \* handlers that ask for a leaf
          LeafCapacities,  \* capacities to start with
          LeafLife,        \* validity of a leaf (30 minutes)
          LeafSkew,        \* how long before its issue a leaf is valid
          CALife,          \* validity of the CA (24 hours)
          CASkew,          \* certificateSkew of the CA
          LastTime,        \* bound: the clock stops here
          MaxGets          \* bound: calls of Get

ASSUME LeavesAssumption ==
  /\ {LeafLife, LeafSkew, CALife, CASkew, LastTime, MaxGets} \subseteq Nat \ {0}
  /\ LeafCapacities \subseteq Nat \ {0}
  /\ "free" \notin LeafCallers

VARIABLES leafNow, leafCapacity, leafEntries, leafClosed, caOpen, leafMu, getter, gets, serials

leafVars == <<leafNow, leafCapacity, leafEntries, leafClosed, caOpen, leafMu, getter, gets, serials>>

NoLeaf == [host |-> "", from |-> 0, until |-> 0, serial |-> 0]
Waiting == [step |-> "idle", host |-> "", leaf |-> NoLeaf, at |-> 0]
Earliest(a, b) == IF a <= b THEN a ELSE b
Latest(a, b) == IF a >= b THEN a ELSE b

\* NewCA at time 0: CASkew before, CALife after.
CAFrom == -CASkew
CAUntil == CALife

LeavesInit ==
  /\ leafNow = 0
  /\ leafCapacity \in LeafCapacities
  /\ leafEntries = EmptyLru
  /\ leafClosed = FALSE /\ caOpen = TRUE
  /\ leafMu = "free"
  /\ getter = [c \in LeafCallers |-> Waiting]
  /\ gets = 0 /\ serials = 0

\* IssueLeaf: the validity of a leaf is cut to that of its CA.
LeafFrom == Latest(leafNow - LeafSkew, CAFrom)
LeafUntil == Earliest(leafNow + LeafLife, CAUntil)

AskLeaf(c) ==
  /\ getter[c].step \in {"idle", "answered", "refused"} /\ gets < MaxGets
  /\ gets' = gets + 1
  /\ \E h \in LeafHosts \cup BadLeafHosts :
       getter' = [getter EXCEPT ![c] = [Waiting EXCEPT !.host = h,
                    !.step = IF h \in BadLeafHosts THEN "refused" ELSE "locking"]]
  /\ UNCHANGED <<leafNow, leafCapacity, leafEntries, leafClosed, caOpen, leafMu, serials>>

\* Mutant: a Get that looks the host up before it takes the lock.
LockLeavesLate(c) ==
  /\ getter[c].step = "locking" /\ leafMu = "free"
  /\ getter' = [getter EXCEPT ![c] = IF leafClosed THEN [@ EXCEPT !.step = "refused"]
       ELSE IF @.host \in Resident(leafEntries)
            THEN [@ EXCEPT !.step = "answered", !.leaf = leafEntries.items[getter[c].host], !.at = leafNow]
       ELSE [@ EXCEPT !.step = "issuing"]]
  /\ UNCHANGED <<leafNow, leafCapacity, leafEntries, leafClosed, caOpen, leafMu, gets, serials>>

\* Under the lock: a closed cache refuses, a hit is answered and the lock given
\* back, a miss keeps it while the key is made.
LockLeaves(c) ==
  /\ getter[c].step = "locking" /\ leafMu = "free"
  /\ LET h == getter[c].host
     IN  IF leafClosed
         THEN /\ getter' = [getter EXCEPT ![c].step = "refused"]
              /\ UNCHANGED <<leafEntries, leafMu>>
         ELSE IF h \in Resident(leafEntries)
         THEN /\ getter' = [getter EXCEPT ![c].step = "answered", ![c].leaf = leafEntries.items[h],
                                          ![c].at = leafNow]
              /\ leafEntries' = LruGet(leafEntries, h)
              /\ UNCHANGED leafMu
         ELSE /\ getter' = [getter EXCEPT ![c].step = "issuing"]
              /\ leafMu' = c
              /\ UNCHANGED leafEntries
  /\ UNCHANGED <<leafNow, leafCapacity, leafClosed, caOpen, gets, serials>>

\* IssueLeaf and Put: refused by a closed CA, an exhausted validity or a failing
\* source of randomness.
IssueLeaf(c) ==
  /\ getter[c].step = "issuing"
  /\ \/ /\ caOpen /\ LeafUntil > LeafFrom
        /\ LET leaf == [host |-> getter[c].host, from |-> LeafFrom, until |-> LeafUntil,
                        serial |-> serials + 1]
           IN  /\ getter' = [getter EXCEPT ![c].step = "answered", ![c].leaf = leaf, ![c].at = leafNow]
               /\ leafEntries' = LruAdd(leafEntries, leaf.host, leaf, leafCapacity)
        /\ serials' = serials + 1
     \/ /\ getter' = [getter EXCEPT ![c].step = "refused"]
        /\ UNCHANGED <<leafEntries, serials>>
  /\ leafMu' = "free"
  /\ UNCHANGED <<leafNow, leafCapacity, leafClosed, caOpen, gets>>

\* Server.Close: LeafCache.Close takes the lock, then CA.Cleanup.
CloseLeaves ==
  /\ ~leafClosed /\ leafMu = "free"
  /\ leafClosed' = TRUE
  /\ leafEntries' = Cleared(leafEntries)
  /\ UNCHANGED <<leafNow, leafCapacity, caOpen, leafMu, getter, gets, serials>>

CleanupCA ==
  /\ leafClosed /\ caOpen
  /\ caOpen' = FALSE
  /\ UNCHANGED <<leafNow, leafCapacity, leafEntries, leafClosed, leafMu, getter, gets, serials>>

TimePasses ==
  /\ leafNow < LastTime
  /\ leafNow' = leafNow + 1
  /\ UNCHANGED <<leafCapacity, leafEntries, leafClosed, caOpen, leafMu, getter, gets, serials>>

LeavesNext ==
  \/ CloseLeaves \/ CleanupCA \/ TimePasses
  \/ \E c \in LeafCallers : AskLeaf(c) \/ LockLeaves(c) \/ IssueLeaf(c)
LeavesSpec == LeavesInit /\ [][LeavesNext]_leafVars

-----------------------------------------------------------------------------
Answered == {c \in LeafCallers : getter[c].step = "answered"}
Held == {getter[c].leaf : c \in Answered} \cup {leafEntries.items[h] : h \in Resident(leafEntries)}

\* A handler is given a leaf of exactly the host it asked for, inside the validity
\* of the CA; while nothing was evicted, handlers that ask for one host at the same
\* time share one key; a closed cache keeps no private key, also when a slow
\* issuance and the close meet.
LeavesAreExact ==
  /\ SoundLru(leafEntries, leafCapacity)
  /\ \A c \in Answered : getter[c].leaf.host = getter[c].host
  /\ \A l \in Held : CAFrom <= l.from /\ l.from < l.until /\ l.until <= CAUntil
  /\ leafEntries.evictions = 0 =>
       \A k, l \in Held : k.host = l.host => k.serial = l.serial
  /\ leafClosed => Resident(leafEntries) = {}

\* "Set a short validity window covering the run plus a small clock-skew
\* allowance": a leaf is within its validity when it is handed out, as long as
\* the CA is.
ServedLeafIsValid ==
  \A c \in Answered : getter[c].at < CAUntil => getter[c].at < getter[c].leaf.until
=============================================================================
