-------------------------------- MODULE Lru ---------------------------------
(***************************************************************************)
(* cache.LRU: a bounded cache whose operations run one at a time under its *)
(* own mutex.  A cache is a record: items maps the resident keys to their  *)
(* values, order lists them, the most recently used first, and evictions   *)
(* counts the keys that had to go.                                         *)
(***************************************************************************)
EXTENDS Naturals, Sequences, Functions

EmptyLru == [items |-> [k \in {} |-> k], order |-> <<>>, evictions |-> 0]

Resident(c) == DOMAIN c.items

\* The operations of container/list: an element is a place of the sequence.
ElementOf(s, k) == CHOOSE p \in DOMAIN s : s[p] = k
Unlinked(s, p) == [i \in 1 .. Len(s) - 1 |-> s[IF i < p THEN i ELSE i + 1]]
PushFront(s, k) == [i \in 1 .. Len(s) + 1 |-> IF i = 1 THEN k ELSE s[i - 1]]
MoveToFront(s, k) == PushFront(Unlinked(s, ElementOf(s, k)), k)

\* Get: the value is items[k]; a hit becomes the most recently used key.
LruGet(c, k) ==
  IF k \in Resident(c)
  THEN [items |-> c.items, order |-> MoveToFront(c.order, k), evictions |-> c.evictions]
  ELSE c

\* Add: a new key that exceeds the capacity evicts the key at the back.
Replaced(c, k, v) ==
  [items |-> [c.items EXCEPT ![k] = v], order |-> MoveToFront(c.order, k), evictions |-> c.evictions]

Pushed(c, k, v) ==
  [items |-> [j \in Resident(c) \cup {k} |-> IF j = k THEN v ELSE c.items[j]],
   order |-> PushFront(c.order, k), evictions |-> c.evictions]

WithoutBack(c) ==
  [items |-> [j \in Resident(c) \ {c.order[Len(c.order)]} |-> c.items[j]],
   order |-> Unlinked(c.order, Len(c.order)), evictions |-> c.evictions + 1]

LruAdd(c, k, v, capacity) ==
  IF k \in Resident(c) THEN Replaced(c, k, v)
  ELSE IF Len(Pushed(c, k, v).order) <= capacity THEN Pushed(c, k, v)
  ELSE WithoutBack(Pushed(c, k, v))

\* Clear: the statistics stay.
Cleared(c) == [EmptyLru EXCEPT !.evictions = c.evictions]

\* The map and the list agree and the capacity is kept.
SoundLru(c, capacity) ==
  /\ Range(c.order) = Resident(c)
  /\ IsInjective(c.order)
  /\ Len(c.order) <= capacity
=============================================================================
