---------------------------- MODULE CacheProofs -----------------------------
(***************************************************************************)
(* Proofs about the LRU cache and the two components that answer their     *)
(* callers from one: the leaf certificates of pki.LeafCache, and the       *)
(* endpoint classifier with its positive and negative caches.  They hold   *)
(* for any capacity, any number of callers and any hosts.                  *)
(***************************************************************************)
EXTENDS Leaves, Endpoints, TLAPS

(* The LRU cache *)

(* The list of a cache: keys in S, each at one place. *)
ListOf(s, S) == s \in Seq(S) /\ IsInjective(s)

LEMMA PushFrontList ==
    ASSUME NEW S, NEW s, ListOf(s, S), NEW k \in S, k \notin Range(s)
    PROVE  /\ ListOf(PushFront(s, k), S) /\ Len(PushFront(s, k)) = Len(s) + 1
           /\ Range(PushFront(s, k)) = Range(s) \cup {k}
<1>. DEFINE t == PushFront(s, k)
<1>1. Len(s) \in Nat /\ DOMAIN s = 1..Len(s) /\ \A i \in 1..Len(s) : s[i] \in S /\ s[i] # k
  BY DEF ListOf, Range
<1>2. t \in Seq(S) /\ Len(t) = Len(s) + 1 /\ DOMAIN t = 1..(Len(s) + 1)
  BY <1>1 DEF PushFront
<1>3. t[1] = k /\ \A i \in 1..Len(s) : t[i + 1] = s[i]
  BY <1>1 DEF PushFront
<1>4. \A i \in 1..(Len(s) + 1) : i = 1 \/ (i - 1 \in 1..Len(s) /\ t[i] = s[i - 1])
  BY <1>1 DEF PushFront
<1>. HIDE DEF t
<1>5. IsInjective(t)
  <2>1. \A i, j \in 1..Len(s) : s[i] = s[j] => i = j
    BY <1>1 DEF ListOf, IsInjective
  <2>2. ASSUME NEW i \in 1..(Len(s) + 1), NEW j \in 1..(Len(s) + 1), t[i] = t[j] PROVE i = j
    <3>1. CASE i = 1 \/ j = 1
      BY <1>1, <1>3, <1>4, <2>2, <3>1
    <3>2. CASE i # 1 /\ j # 1
      BY <1>1, <1>4, <2>1, <2>2, <3>2
    <3>. QED
      BY <3>1, <3>2
  <2>. QED
    BY <1>2, <2>2 DEF IsInjective
<1>6. Range(t) = Range(s) \cup {k}
  <2>1. Range(t) \subseteq Range(s) \cup {k}
    <3>1. \A i \in DOMAIN t : t[i] = k \/ \E j \in DOMAIN s : t[i] = s[j]
      BY <1>1, <1>2, <1>3, <1>4
    <3>. QED
      BY <3>1 DEF Range
  <2>2. ASSUME NEW j \in Range(s) PROVE j \in Range(t)
    <3>1. PICK i \in 1..Len(s) : j = s[i]
      BY <1>1 DEF Range
    <3>. QED
      BY <1>1, <1>2, <1>3, <3>1 DEF Range
  <2>3. k \in Range(t)
    BY <1>1, <1>2, <1>3 DEF Range
  <2>. QED
    BY <2>1, <2>2, <2>3
<1>. QED
  BY <1>2, <1>5, <1>6 DEF ListOf, t

LEMMA UnlinkedList ==
    ASSUME NEW S, NEW s, ListOf(s, S), NEW p \in 1..Len(s)
    PROVE  /\ ListOf(Unlinked(s, p), S) /\ Len(Unlinked(s, p)) = Len(s) - 1
           /\ Range(Unlinked(s, p)) = Range(s) \ {s[p]}
<1>. DEFINE t == Unlinked(s, p)
<1>1. Len(s) \in Nat /\ Len(s) >= 1 /\ DOMAIN s = 1..Len(s) /\ \A i \in 1..Len(s) : s[i] \in S
  BY DEF ListOf
<1>2. t \in Seq(S) /\ Len(t) = Len(s) - 1 /\ DOMAIN t = 1..(Len(s) - 1)
  BY <1>1 DEF Unlinked
<1>3. \A i \in 1..(Len(s) - 1) : t[i] = s[IF i < p THEN i ELSE i + 1]
  BY <1>1 DEF Unlinked
<1>4. \A i, j \in 1..Len(s) : s[i] = s[j] => i = j
  BY <1>1 DEF ListOf, IsInjective
<1>. HIDE DEF t
<1>5. IsInjective(t)
  BY <1>1, <1>2, <1>3, <1>4 DEF IsInjective
<1>6. Range(t) = Range(s) \ {s[p]}
  <2>1. Range(t) \subseteq Range(s) \ {s[p]}
    <3>1. \A i \in DOMAIN t : t[i] # s[p] /\ \E j \in DOMAIN s : t[i] = s[j]
      BY <1>1, <1>2, <1>3, <1>4
    <3>. QED
      BY <3>1 DEF Range
  <2>2. ASSUME NEW j \in Range(s) \ {s[p]} PROVE j \in Range(t)
    <3>1. PICK i \in 1..Len(s) : j = s[i]
      BY <1>1 DEF Range
    <3>2. CASE i < p
      BY <1>1, <1>2, <1>3, <3>1, <3>2 DEF Range
    <3>3. CASE i > p
      <4>1. i - 1 \in 1..(Len(s) - 1) /\ t[i - 1] = s[i]
        BY <1>1, <1>3, <3>3
      <4>. QED
        BY <1>2, <3>1, <4>1 DEF Range
    <3>. QED
      BY <1>1, <3>1, <3>2, <3>3
  <2>. QED
    BY <2>1, <2>2
<1>. QED
  BY <1>2, <1>5, <1>6 DEF ListOf, t

LEMMA MoveToFrontList ==
    ASSUME NEW S, NEW s, ListOf(s, S), NEW k \in Range(s)
    PROVE  /\ ListOf(MoveToFront(s, k), S) /\ Len(MoveToFront(s, k)) = Len(s)
           /\ Range(MoveToFront(s, k)) = Range(s)
<1>. DEFINE p == ElementOf(s, k)
            t == Unlinked(s, p)
<1>1. p \in 1..Len(s) /\ s[p] = k /\ k \in S /\ Len(s) \in Nat
  BY DEF ElementOf, Range, ListOf
<1>. HIDE DEF p
<1>2. ListOf(t, S) /\ Len(t) = Len(s) - 1 /\ Range(t) = Range(s) \ {k}
  BY <1>1, UnlinkedList
<1>. HIDE DEF t
<1>3. /\ ListOf(PushFront(t, k), S) /\ Len(PushFront(t, k)) = Len(t) + 1
      /\ Range(PushFront(t, k)) = Range(t) \cup {k}
  BY <1>1, <1>2, PushFrontList
<1>. QED
  BY <1>1, <1>2, <1>3 DEF MoveToFront, p, t

(* Get and Add on a cache whose map and list agree. *)
LEMMA GetSound ==
    ASSUME NEW S, NEW c, NEW capacity, ListOf(c.order, S), SoundLru(c, capacity), NEW k \in Resident(c)
    PROVE  /\ ListOf(LruGet(c, k).order, S) /\ SoundLru(LruGet(c, k), capacity)
           /\ LruGet(c, k).items = c.items /\ LruGet(c, k).evictions = c.evictions
<1>1. k \in Range(c.order)
  BY DEF SoundLru
<1>2. /\ ListOf(MoveToFront(c.order, k), S) /\ Len(MoveToFront(c.order, k)) = Len(c.order)
      /\ Range(MoveToFront(c.order, k)) = Range(c.order)
  BY <1>1, MoveToFrontList
<1>3. /\ LruGet(c, k).order = MoveToFront(c.order, k) /\ LruGet(c, k).items = c.items
      /\ LruGet(c, k).evictions = c.evictions
  BY DEF LruGet
<1>. QED
  BY <1>2, <1>3 DEF SoundLru, Resident, ListOf

LEMMA AddSound ==
    ASSUME NEW S, NEW c, NEW capacity \in Nat \ {0}, ListOf(c.order, S), SoundLru(c, capacity),
           c.evictions \in Nat, NEW k \in S, k \notin Resident(c), NEW v,
           NEW d, d = LruAdd(c, k, v, capacity)
    PROVE  /\ ListOf(d.order, S) /\ SoundLru(d, capacity)
           /\ k \in Resident(d) /\ Resident(d) \subseteq Resident(c) \cup {k}
           /\ d.items[k] = v /\ \A j \in Resident(d) \ {k} : d.items[j] = c.items[j]
           /\ d.evictions \in Nat
           /\ d.evictions = 0 => c.evictions = 0 /\ Resident(d) = Resident(c) \cup {k}
<1>. DEFINE q == Pushed(c, k, v)
<1>1. /\ ListOf(q.order, S) /\ Len(q.order) = Len(c.order) + 1 /\ Range(q.order) = Resident(c) \cup {k}
  <2>1. q.order = PushFront(c.order, k)
    BY DEF Pushed
  <2>2. Range(c.order) = Resident(c) /\ k \notin Range(c.order)
    BY DEF SoundLru
  <2>. HIDE DEF q
  <2>. QED
    BY <2>1, <2>2, PushFrontList
<1>2. /\ Resident(q) = Resident(c) \cup {k} /\ q.items[k] = v
      /\ \A j \in Resident(c) : q.items[j] = c.items[j]
      /\ q.evictions = c.evictions
  BY DEF Pushed, Resident
<1>3. Len(c.order) \in Nat /\ Len(c.order) <= capacity /\ q.order[1] = k
  <2>1. Len(c.order) \in Nat /\ Len(c.order) <= capacity
    BY DEF ListOf, SoundLru
  <2>2. q.order = PushFront(c.order, k)
    BY DEF Pushed
  <2>. HIDE DEF q
  <2>. QED
    BY <2>1, <2>2 DEF PushFront
<1>4. d = IF Len(q.order) <= capacity THEN q ELSE WithoutBack(q)
  BY DEF LruAdd
<1>. HIDE DEF q
<1>5. CASE Len(q.order) <= capacity
  BY <1>1, <1>2, <1>4, <1>5, Zenon DEF SoundLru, ListOf
<1>6. CASE ~(Len(q.order) <= capacity)
  <2>. DEFINE n == Len(q.order)
  <2>0. n = Len(c.order) + 1 /\ n > capacity
    BY <1>1, <1>3, <1>6
  <2>. HIDE DEF n
  <2>1. n \in 1..n /\ n # 1 /\ 1 \in 1..n /\ n - 1 <= capacity
    BY <1>3, <2>0
  <2>2. /\ ListOf(Unlinked(q.order, n), S) /\ Len(Unlinked(q.order, n)) = n - 1
        /\ Range(Unlinked(q.order, n)) = Range(q.order) \ {q.order[n]}
    <3>1. n = Len(q.order) /\ n \in 1..Len(q.order)
      BY <2>1 DEF n
    <3>. QED
      BY <1>1, <3>1, UnlinkedList
  <2>3. q.order[n] # k
    <3>1. DOMAIN q.order = 1..n /\ IsInjective(q.order)
      BY <1>1 DEF ListOf, n
    <3>. QED
      BY <1>3, <2>1, <3>1 DEF IsInjective
  <2>4. /\ d.order = Unlinked(q.order, n) /\ Resident(d) = Resident(q) \ {q.order[n]}
        /\ \A j \in Resident(d) : d.items[j] = q.items[j]
        /\ d.evictions = c.evictions + 1
    BY <1>2, <1>4, <1>6 DEF WithoutBack, Resident, n
  <2>5. ListOf(d.order, S) /\ SoundLru(d, capacity)
    BY <1>1, <1>2, <2>1, <2>2, <2>4 DEF SoundLru, ListOf
  <2>6. d.evictions # 0 /\ d.evictions \in Nat
    BY <2>4
  <2>7. /\ k \in Resident(d) /\ Resident(d) \subseteq Resident(c) \cup {k} /\ d.items[k] = v
        /\ \A j \in Resident(d) \ {k} : d.items[j] = c.items[j]
    BY <1>2, <2>3, <2>4
  <2>. QED
    BY <2>5, <2>6, <2>7
<1>. QED
  BY <1>5, <1>6

(* The same in two predicates: a cache of keys in S, and what it is once k is added. *)
CacheOf(c, S, capacity) == ListOf(c.order, S) /\ SoundLru(c, capacity) /\ c.evictions \in Nat
Added(c, d, k, v) ==
    /\ Resident(d) \subseteq Resident(c) \cup {k} /\ d.items[k] = v
    /\ \A j \in Resident(d) \ {k} : d.items[j] = c.items[j]

LEMMA AddedCache ==
    ASSUME NEW S, NEW c, NEW capacity \in Nat \ {0}, CacheOf(c, S, capacity),
           NEW k \in S, k \notin Resident(c), NEW v
    PROVE  CacheOf(LruAdd(c, k, v, capacity), S, capacity) /\ Added(c, LruAdd(c, k, v, capacity), k, v)
<1>1. PICK d : d = LruAdd(c, k, v, capacity)
  OBVIOUS
<1>2. /\ ListOf(d.order, S) /\ SoundLru(d, capacity) /\ d.evictions \in Nat
      /\ k \in Resident(d) /\ Resident(d) \subseteq Resident(c) \cup {k}
      /\ d.items[k] = v /\ \A j \in Resident(d) \ {k} : d.items[j] = c.items[j]
  BY <1>1, AddSound DEF CacheOf
<1>. QED
  BY <1>1, <1>2, Zenon DEF CacheOf, Added

-----------------------------------------------------------------------------
(* The leaf certificates *)

-----------------------------------------------------------------------------
(* The inductive invariant of the leaf cache. *)

Leaf == [host : LeafHosts \cup {""}, from : Int, until : Int, serial : Nat]
Getters == [step : {"idle", "locking", "issuing", "answered", "refused"},
            host : LeafHosts \cup BadLeafHosts \cup {""}, leaf : Leaf, at : Nat]

LeafType ==
    /\ leafNow \in Nat /\ serials \in Nat /\ gets \in Nat /\ leafCapacity \in Nat \ {0}
    /\ leafClosed \in BOOLEAN /\ getter \in [LeafCallers -> Getters]

InCA(l) == l \in Leaf /\ CAFrom <= l.from /\ l.from < l.until /\ l.until <= CAUntil

(* The cache: list and map agree, every resident leaf is one of its key. *)
EntriesInv ==
    /\ ListOf(leafEntries.order, LeafHosts) /\ SoundLru(leafEntries, leafCapacity)
    /\ \A h \in Resident(leafEntries) : leafEntries.items[h].host = h /\ InCA(leafEntries.items[h])
    /\ leafEntries.evictions \in Nat
    /\ leafClosed = TRUE => Resident(leafEntries) = {}

(* A caller that issues a leaf holds the lock of an open cache without its host. *)
IssuingInv(c) ==
    /\ getter[c].step \in {"locking", "issuing"} => getter[c].host \in LeafHosts
    /\ getter[c].step = "issuing" =>
          leafMu = c /\ leafClosed = FALSE /\ getter[c].host \notin Resident(leafEntries)

AnsweredInv(c) ==
    getter[c].step = "answered" => getter[c].leaf.host = getter[c].host /\ InCA(getter[c].leaf)

(* Before an eviction an answered leaf stays the resident one until the close. *)
SharedInv ==
    leafEntries.evictions = 0 =>
      /\ leafClosed = FALSE =>
            \A c \in Answered : /\ getter[c].host \in Resident(leafEntries)
                                 /\ getter[c].leaf = leafEntries.items[getter[c].host]
      /\ \A c, d \in Answered : getter[c].host = getter[d].host => getter[c].leaf = getter[d].leaf

LeafInv ==
    /\ LeafType /\ EntriesInv /\ SharedInv
    /\ \A c \in LeafCallers : IssuingInv(c) /\ AnsweredInv(c)

LEMMA LeafInitInv == LeavesInit => LeafInv
<1>. SUFFICES ASSUME LeavesInit PROVE LeafInv
  OBVIOUS
<1>1. \A c \in LeafCallers : getter[c] = Waiting
  BY DEF LeavesInit
<1>2. Waiting \in Getters /\ Waiting.step = "idle"
  BY DEF Waiting, Getters, NoLeaf, Leaf
<1>3. LeafType
  BY <1>2, LeavesAssumption, Zenon DEF LeavesInit, LeafType
<1>4. leafEntries.order = <<>> /\ Resident(leafEntries) = {} /\ leafEntries.evictions = 0
  BY DEF LeavesInit, EmptyLru, Resident
<1>5. EntriesInv
  BY <1>3, <1>4 DEF EntriesInv, ListOf, SoundLru, IsInjective, Range, LeafType
<1>6. SharedInv
  BY <1>1, <1>2 DEF SharedInv, Answered
<1>. QED
  BY <1>1, <1>2, <1>3, <1>5, <1>6 DEF LeafInv, IssuingInv, AnsweredInv

LEMMA LeafInvExact == LeafInv => LeavesAreExact
<1>. SUFFICES ASSUME LeafInv PROVE LeavesAreExact
  OBVIOUS
<1>1. SoundLru(leafEntries, leafCapacity) /\ (leafClosed => Resident(leafEntries) = {})
  BY DEF LeafInv, EntriesInv, LeafType
<1>2. \A c \in Answered : getter[c].leaf.host = getter[c].host /\ InCA(getter[c].leaf)
  BY DEF LeafInv, AnsweredInv, Answered
<1>3. \A h \in Resident(leafEntries) : leafEntries.items[h].host = h /\ InCA(leafEntries.items[h])
  BY DEF LeafInv, EntriesInv
<1>4. \A l \in Held : CAFrom <= l.from /\ l.from < l.until /\ l.until <= CAUntil
  BY <1>2, <1>3 DEF Held, InCA
<1>5. ASSUME leafEntries.evictions = 0, NEW k \in Held, NEW l \in Held, k.host = l.host
      PROVE  k = l
  <2>1. \A c \in Answered : \A h \in Resident(leafEntries) :
            getter[c].host = h => getter[c].leaf = leafEntries.items[h]
    BY <1>1, <1>5 DEF LeafInv, SharedInv, LeafType
  <2>2. \A c, d \in Answered : getter[c].host = getter[d].host => getter[c].leaf = getter[d].leaf
    BY <1>5 DEF LeafInv, SharedInv
  <2>. QED
    BY <1>2, <1>3, <1>5, <2>1, <2>2 DEF Held
<1>. QED
  BY <1>1, <1>2, <1>4, <1>5 DEF LeavesAreExact

(* The records of the callers that the steps build. *)
LEMMA AskedGetter ==
    ASSUME NEW h \in LeafHosts \cup BadLeafHosts, NEW st \in {"refused", "locking"}
    PROVE  LET g == [Waiting EXCEPT !.host = h, !.step = st]
           IN  g \in Getters /\ g.host = h /\ g.step = st
<1>1. NoLeaf \in Leaf
  BY DEF NoLeaf, Leaf
<1>. QED
  BY <1>1, Zenon DEF Waiting, Getters

LEMMA AnsweredGetter ==
    ASSUME NEW g \in Getters, NEW l \in Leaf, NEW t \in Nat, NEW a,
           a = [g EXCEPT !.step = "answered", !.leaf = l, !.at = t]
    PROVE  a \in Getters /\ a.step = "answered" /\ a.leaf = l /\ a.host = g.host
BY Zenon DEF Getters

LEMMA MovedGetter ==
    ASSUME NEW g \in Getters, NEW st \in {"refused", "issuing"}
    PROVE  LET a == [g EXCEPT !.step = st]
           IN  a \in Getters /\ a.step = st /\ a.host = g.host
BY Zenon DEF Getters

(* Steps of the clock and of the CA, and steps that change nothing. *)
LEMMA SameCacheInv ==
    ASSUME LeafInv, leafNow' \in Nat,
           UNCHANGED <<leafCapacity, leafEntries, leafClosed, leafMu, getter, gets, serials>>
    PROVE  LeafInv'
<1>1. LeafType'
  BY DEF LeafInv, LeafType
<1>2. EntriesInv' /\ SharedInv'
  BY DEF LeafInv, EntriesInv, SharedInv, Answered, InCA
<1>3. \A c \in LeafCallers : IssuingInv(c)' /\ AnsweredInv(c)'
  BY DEF LeafInv, IssuingInv, AnsweredInv, InCA
<1>. QED
  BY <1>1, <1>2, <1>3 DEF LeafInv

(* A step of one caller that ends without a leaf: it asks, is refused or starts to issue. *)
LEMMA UnansweredInv ==
    ASSUME LeafInv, NEW c \in LeafCallers, NEW g \in Getters, g.step # "answered",
           getter' = [getter EXCEPT ![c] = g], IssuingInv(c)',
           \A d \in LeafCallers \ {c} : getter[d].step = "issuing" => leafMu' = leafMu,
           gets' \in Nat, UNCHANGED <<leafNow, leafCapacity, leafEntries, leafClosed, serials>>
    PROVE  LeafInv'
<1>1. getter'[c] = g /\ \A d \in LeafCallers \ {c} : getter'[d] = getter[d]
  BY DEF LeafInv, LeafType
<1>2. LeafType'
  BY DEF LeafInv, LeafType
<1>3. EntriesInv'
  BY DEF LeafInv, EntriesInv, InCA
<1>4. Answered' \subseteq Answered \ {c}
  BY <1>1 DEF Answered
<1>5. SharedInv'
  <2>1. \A d \in Answered' : d \in Answered /\ getter'[d] = getter[d]
    BY <1>1, <1>4 DEF Answered
  <2>2. SharedInv
    BY DEF LeafInv
  <2>. QED
    BY <2>1, <2>2 DEF SharedInv
<1>6. ASSUME NEW d \in LeafCallers \ {c} PROVE IssuingInv(d)' /\ AnsweredInv(d)'
  BY <1>1 DEF LeafInv, IssuingInv, AnsweredInv, InCA
<1>7. AnsweredInv(c)'
  BY <1>1 DEF AnsweredInv
<1>. QED
  BY <1>2, <1>3, <1>5, <1>6, <1>7 DEF LeafInv

LEMMA AskLeafStep ==
    ASSUME LeafInv, NEW c \in LeafCallers, AskLeaf(c)
    PROVE  LeafInv'
<1>1. PICK h \in LeafHosts \cup BadLeafHosts :
         getter' = [getter EXCEPT ![c] = [Waiting EXCEPT !.host = h,
                      !.step = IF h \in BadLeafHosts THEN "refused" ELSE "locking"]]
  BY Zenon DEF AskLeaf
<1>. DEFINE g == [Waiting EXCEPT !.host = h, !.step = IF h \in BadLeafHosts THEN "refused" ELSE "locking"]
<1>2. /\ g \in Getters /\ g.host = h
      /\ g.step = "refused" \/ (g.step = "locking" /\ h \in LeafHosts)
  <2>. DEFINE st == IF h \in BadLeafHosts THEN "refused" ELSE "locking"
  <2>1. st \in {"refused", "locking"} /\ (st = "locking" => h \in LeafHosts)
    OBVIOUS
  <2>2. g = [Waiting EXCEPT !.host = h, !.step = st]
    OBVIOUS
  <2>. HIDE DEF st, g
  <2>. QED
    BY <2>1, <2>2, AskedGetter, Zenon
<1>3. gets' \in Nat
  BY DEF AskLeaf, LeafInv, LeafType
<1>. HIDE DEF g
<1>4. getter'[c] = g /\ getter' = [getter EXCEPT ![c] = g]
  BY <1>1 DEF LeafInv, LeafType, g
<1>5. IssuingInv(c)'
  BY <1>2, <1>4 DEF IssuingInv
<1>. QED
  BY <1>2, <1>3, <1>4, <1>5, UnansweredInv, Zenon DEF AskLeaf

(* Caller c is given leaf l of its host h, which is resident from now on. *)
Answers(c, h, l, g) ==
    /\ h \in LeafHosts /\ h = getter[c].host /\ InCA(l) /\ l.host = h
    /\ g = [getter[c] EXCEPT !.step = "answered", !.leaf = l, !.at = leafNow]
    /\ getter' = [getter EXCEPT ![c] = g]
    /\ leafClosed = FALSE /\ h \in Resident(leafEntries') /\ leafEntries'.items[h] = l
    /\ h \in Resident(leafEntries) => l = leafEntries.items[h]
    /\ \A j \in Resident(leafEntries') \ {h} :
          j \in Resident(leafEntries) /\ leafEntries'.items[j] = leafEntries.items[j]
    /\ leafEntries'.evictions = 0 => leafEntries.evictions = 0 /\ Resident(leafEntries) \subseteq Resident(leafEntries')
    /\ \A d \in LeafCallers \ {c} : getter[d].step # "issuing"
    /\ serials' \in Nat /\ UNCHANGED <<leafNow, leafCapacity, leafClosed, gets>>

LEMMA AnswerInv ==
    ASSUME LeafInv, EntriesInv', NEW c \in LeafCallers, NEW h, NEW l, NEW g, Answers(c, h, l, g)
    PROVE  LeafInv'
<1>0. /\ h \in LeafHosts /\ h = getter[c].host /\ InCA(l) /\ l.host = h
      /\ g = [getter[c] EXCEPT !.step = "answered", !.leaf = l, !.at = leafNow]
      /\ getter' = [getter EXCEPT ![c] = g]
      /\ leafClosed = FALSE /\ h \in Resident(leafEntries') /\ leafEntries'.items[h] = l
      /\ h \in Resident(leafEntries) => l = leafEntries.items[h]
      /\ serials' \in Nat /\ UNCHANGED <<leafNow, leafCapacity, leafClosed, gets>>
  BY DEF Answers
<1>00. /\ \A j \in Resident(leafEntries') \ {h} :
             j \in Resident(leafEntries) /\ leafEntries'.items[j] = leafEntries.items[j]
       /\ leafEntries'.evictions = 0 => leafEntries.evictions = 0 /\ Resident(leafEntries) \subseteq Resident(leafEntries')
       /\ \A d \in LeafCallers \ {c} : getter[d].step # "issuing"
  BY DEF Answers
<1>1. g \in Getters /\ g.step = "answered" /\ g.leaf = l /\ g.host = h
  <2>1. getter[c] \in Getters /\ l \in Leaf /\ leafNow \in Nat
    BY <1>0 DEF LeafInv, LeafType, InCA
  <2>. QED
    BY <1>0, <2>1, Zenon DEF Getters
<1>3. getter'[c] = g /\ \A d \in LeafCallers \ {c} : getter'[d] = getter[d]
  BY <1>0 DEF LeafInv, LeafType
<1>4. LeafType'
  BY <1>0, <1>1 DEF LeafInv, LeafType
<1>5. SharedInv'
  <2>. SUFFICES ASSUME leafEntries'.evictions = 0 PROVE SharedInv'
    BY <1>0, Zenon DEF SharedInv
  <2>1. ASSUME NEW d \in Answered'
        PROVE  /\ getter'[d].host \in Resident(leafEntries')
               /\ getter'[d].leaf = leafEntries'.items[getter'[d].host]
    <3>1. CASE d = c
      BY <1>0, <1>1, <1>3, <3>1, Zenon
    <3>2. CASE d # c
      <4>1. d \in Answered /\ d \in LeafCallers \ {c} /\ getter'[d] = getter[d]
        BY <1>3, <2>1, <3>2 DEF Answered
      <4>2. getter[d].host \in Resident(leafEntries) /\ getter[d].leaf = leafEntries.items[getter[d].host]
        BY <1>0, <1>00, <4>1 DEF LeafInv, SharedInv
      <4>. QED
        BY <1>0, <1>00, <4>1, <4>2
    <3>. QED
      BY <3>1, <3>2
  <2>. QED
    BY <1>0, <2>1 DEF SharedInv
<1>6. ASSUME NEW d \in LeafCallers \ {c} PROVE IssuingInv(d)' /\ AnsweredInv(d)'
  <2>1. IssuingInv(d)'
    BY <1>00, <1>3 DEF LeafInv, IssuingInv
  <2>2. AnsweredInv(d)'
    BY <1>3 DEF LeafInv, AnsweredInv, InCA
  <2>. QED
    BY <2>1, <2>2
<1>7. IssuingInv(c)' /\ AnsweredInv(c)'
  BY <1>0, <1>1, <1>3, Zenon DEF IssuingInv, AnsweredInv, InCA
<1>. QED
  BY <1>4, <1>5, <1>6, <1>7 DEF LeafInv

LEMMA LockLeavesStep ==
    ASSUME LeafInv, NEW c \in LeafCallers, LockLeaves(c)
    PROVE  LeafInv'
<1>. DEFINE h == getter[c].host
<1>1. /\ getter[c] \in Getters /\ h \in LeafHosts /\ leafClosed \in BOOLEAN /\ leafMu = "free"
      /\ gets' \in Nat /\ serials' \in Nat
  BY DEF LockLeaves, LeafInv, LeafType, IssuingInv
<1>2. \A d \in LeafCallers : getter[d].step # "issuing"
  BY <1>1, LeavesAssumption DEF LeafInv, IssuingInv
<1>3. CASE leafClosed = TRUE
  <2>. DEFINE g == [getter[c] EXCEPT !.step = "refused"]
  <2>1. getter' = [getter EXCEPT ![c] = g] /\ UNCHANGED <<leafEntries, leafMu>>
    BY <1>3 DEF LockLeaves
  <2>2. g \in Getters /\ g.step = "refused"
    BY <1>1, MovedGetter, Zenon
  <2>. HIDE DEF g
  <2>3. IssuingInv(c)'
    BY <2>1, <2>2 DEF IssuingInv, LeafInv, LeafType
  <2>. QED
    BY <1>1, <2>1, <2>2, <2>3, UnansweredInv, Zenon DEF LockLeaves
<1>4. CASE leafClosed = FALSE /\ h \in Resident(leafEntries)
  <2>. DEFINE l == leafEntries.items[h]
  <2>1. /\ getter' = [getter EXCEPT ![c] = [getter[c] EXCEPT !.step = "answered", !.leaf = l, !.at = leafNow]]
        /\ leafEntries' = LruGet(leafEntries, h) /\ leafMu' = leafMu
    BY <1>4, Zenon DEF LockLeaves
  <2>2. InCA(l) /\ l.host = h
    BY <1>4 DEF LeafInv, EntriesInv
  <2>3. /\ ListOf(leafEntries'.order, LeafHosts) /\ SoundLru(leafEntries', leafCapacity)
        /\ leafEntries'.items = leafEntries.items /\ leafEntries'.evictions = leafEntries.evictions
    BY <1>4, <2>1, GetSound, Zenon DEF LeafInv, EntriesInv
  <2>4. Resident(leafEntries') = Resident(leafEntries)
    BY <2>3 DEF Resident
  <2>5. EntriesInv'
    BY <1>4, <2>3, <2>4 DEF LockLeaves, LeafInv, EntriesInv, InCA
  <2>6. /\ UNCHANGED <<leafNow, leafCapacity, leafClosed, gets>>
        /\ leafEntries'.items[h] = l /\ h \in Resident(leafEntries')
        /\ \A j \in Resident(leafEntries') \ {h} :
              j \in Resident(leafEntries) /\ leafEntries'.items[j] = leafEntries.items[j]
        /\ Resident(leafEntries) \subseteq Resident(leafEntries') /\ leafEntries'.evictions = leafEntries.evictions
    BY <1>4, <2>3, <2>4 DEF LockLeaves
  <2>. DEFINE g == [getter[c] EXCEPT !.step = "answered", !.leaf = l, !.at = leafNow]
  <2>7. h = getter[c].host /\ g = [getter[c] EXCEPT !.step = "answered", !.leaf = l, !.at = leafNow]
        /\ l = leafEntries.items[h] /\ getter' = [getter EXCEPT ![c] = g]
    BY <2>1
  <2>. HIDE DEF g, l, h
  <2>. QED
    <3>1. Answers(c, h, l, g)
      BY <1>1, <1>2, <1>4, <2>2, <2>6, <2>7, Zenon DEF Answers
    <3>. QED
      BY <2>5, <3>1, AnswerInv
<1>5. CASE leafClosed = FALSE /\ h \notin Resident(leafEntries)
  <2>. DEFINE g == [getter[c] EXCEPT !.step = "issuing"]
  <2>1. getter' = [getter EXCEPT ![c] = g] /\ leafMu' = c /\ leafEntries' = leafEntries
    BY <1>5 DEF LockLeaves
  <2>2. g \in Getters /\ g.step = "issuing" /\ g.host = h
    BY <1>1, MovedGetter, Zenon
  <2>. HIDE DEF g
  <2>3. IssuingInv(c)'
    BY <1>1, <1>5, <2>1, <2>2 DEF IssuingInv, LeafInv, LeafType, LockLeaves
  <2>. QED
    BY <1>1, <1>2, <2>1, <2>2, <2>3, UnansweredInv, Zenon DEF LockLeaves
<1>. QED
  BY <1>1, <1>3, <1>4, <1>5, Zenon

(* IssueLeaf cuts the validity of a leaf to that of the CA. *)
LEMMA IssuedLeaf ==
    ASSUME NEW h \in LeafHosts, leafNow \in Nat, serials \in Nat, LeafUntil > LeafFrom
    PROVE  LET l == [host |-> h, from |-> LeafFrom, until |-> LeafUntil, serial |-> serials + 1]
           IN  InCA(l) /\ l.host = h
<1>1. /\ LeafFrom \in Int /\ LeafUntil \in Int /\ CAFrom <= LeafFrom /\ LeafUntil <= CAUntil
  BY LeavesAssumption DEF LeafFrom, LeafUntil, Latest, Earliest, CAFrom, CAUntil
<1>. DEFINE l == [host |-> h, from |-> LeafFrom, until |-> LeafUntil, serial |-> serials + 1]
<1>2. l \in Leaf /\ l.host = h /\ l.from = LeafFrom /\ l.until = LeafUntil
  <2>1. serials + 1 \in Nat
    OBVIOUS
  <2>. QED
    BY <1>1, <2>1, Zenon DEF Leaf
<1>. HIDE DEF l
<1>3. InCA(l) /\ l.host = h
  BY <1>1, <1>2 DEF InCA
<1>. QED
  BY <1>3 DEF l

LEMMA IssueLeafStep ==
    ASSUME LeafInv, NEW c \in LeafCallers, IssueLeaf(c)
    PROVE  LeafInv'
<1>. DEFINE h == getter[c].host
            l == [host |-> h, from |-> LeafFrom, until |-> LeafUntil, serial |-> serials + 1]
<1>1. /\ getter[c] \in Getters /\ h \in LeafHosts /\ leafMu = c /\ leafClosed = FALSE
      /\ h \notin Resident(leafEntries) /\ leafNow \in Nat /\ serials \in Nat /\ gets \in Nat
      /\ leafCapacity \in Nat \ {0}
  BY DEF IssueLeaf, LeafInv, LeafType, IssuingInv
<1>2. \A d \in LeafCallers \ {c} : getter[d].step # "issuing"
  BY <1>1 DEF LeafInv, IssuingInv
<1>3. CASE getter' = [getter EXCEPT ![c].step = "refused"] /\ UNCHANGED <<leafEntries, serials>>
  <2>. DEFINE g == [getter[c] EXCEPT !.step = "refused"]
  <2>1. getter' = [getter EXCEPT ![c] = g]
    BY <1>3
  <2>2. g \in Getters /\ g.step = "refused"
    BY <1>1, MovedGetter, Zenon
  <2>. HIDE DEF g
  <2>3. IssuingInv(c)'
    BY <2>1, <2>2 DEF IssuingInv, LeafInv, LeafType
  <2>. QED
    BY <1>1, <1>2, <1>3, <2>1, <2>2, <2>3, UnansweredInv, Zenon DEF IssueLeaf
<1>4. CASE /\ LeafUntil > LeafFrom /\ serials' = serials + 1
           /\ getter' = [getter EXCEPT ![c].step = "answered", ![c].leaf = l, ![c].at = leafNow]
           /\ leafEntries' = LruAdd(leafEntries, l.host, l, leafCapacity)
  <2>1. InCA(l) /\ l.host = h
    BY <1>1, <1>4, IssuedLeaf
  <2>2. getter' = [getter EXCEPT ![c] = [getter[c] EXCEPT !.step = "answered", !.leaf = l, !.at = leafNow]]
    BY <1>4, Zenon
  <2>. HIDE DEF l
  <2>3. leafEntries' = LruAdd(leafEntries, h, l, leafCapacity)
    BY <1>4, <2>1
  <2>. HIDE DEF h
  <2>4. /\ ListOf(leafEntries'.order, LeafHosts) /\ SoundLru(leafEntries', leafCapacity)
        /\ h \in Resident(leafEntries') /\ Resident(leafEntries') \subseteq Resident(leafEntries) \cup {h}
        /\ leafEntries'.items[h] = l
        /\ \A j \in Resident(leafEntries') \ {h} : leafEntries'.items[j] = leafEntries.items[j]
        /\ leafEntries'.evictions \in Nat
        /\ leafEntries'.evictions = 0 =>
              leafEntries.evictions = 0 /\ Resident(leafEntries') = Resident(leafEntries) \cup {h}
    <3>1. /\ ListOf(leafEntries.order, LeafHosts) /\ SoundLru(leafEntries, leafCapacity)
          /\ leafEntries.evictions \in Nat
      BY DEF LeafInv, EntriesInv
    <3>. QED
      BY <1>1, <2>3, <3>1, AddSound
  <2>5. EntriesInv'
    BY <1>1, <2>1, <2>4 DEF IssueLeaf, LeafInv, EntriesInv, InCA
  <2>6. leafEntries'.evictions = 0 => leafEntries.evictions = 0 /\ Resident(leafEntries) \subseteq Resident(leafEntries')
    BY <2>4
  <2>7. /\ UNCHANGED <<leafNow, leafCapacity, leafClosed, gets>> /\ serials' \in Nat
        /\ \A j \in Resident(leafEntries') \ {h} :
              j \in Resident(leafEntries) /\ leafEntries'.items[j] = leafEntries.items[j]
    BY <1>1, <1>4, <2>4 DEF IssueLeaf
  <2>. DEFINE g == [getter[c] EXCEPT !.step = "answered", !.leaf = l, !.at = leafNow]
  <2>8. /\ h = getter[c].host /\ g = [getter[c] EXCEPT !.step = "answered", !.leaf = l, !.at = leafNow]
        /\ getter' = [getter EXCEPT ![c] = g]
    BY <2>2 DEF h
  <2>. HIDE DEF g
  <2>9. /\ h \in LeafHosts /\ leafClosed = FALSE /\ h \in Resident(leafEntries')
        /\ leafEntries'.items[h] = l /\ (h \in Resident(leafEntries) => l = leafEntries.items[h])
    BY <1>1, <2>4
  <2>. QED
    <3>1. Answers(c, h, l, g)
      BY <1>2, <2>1, <2>6, <2>7, <2>8, <2>9 DEF Answers
    <3>. QED
      BY <2>5, <3>1, AnswerInv
<1>. QED
  BY <1>3, <1>4 DEF IssueLeaf

LEMMA CloseLeavesStep ==
    ASSUME LeafInv, CloseLeaves
    PROVE  LeafInv'
<1>1. /\ leafEntries'.order = <<>> /\ Resident(leafEntries') = {} /\ leafClosed' = TRUE
      /\ leafEntries'.evictions = leafEntries.evictions
  BY DEF CloseLeaves, Cleared, EmptyLru, Resident
<1>2. LeafType'
  BY DEF CloseLeaves, LeafInv, LeafType
<1>3. EntriesInv'
  <2>1. ListOf(leafEntries'.order, LeafHosts) /\ SoundLru(leafEntries', leafCapacity')
    BY <1>1, <1>2 DEF ListOf, SoundLru, IsInjective, Range, LeafType
  <2>2. leafEntries'.evictions \in Nat
    BY <1>1 DEF LeafInv, EntriesInv
  <2>. QED
    BY <1>1, <2>1, <2>2 DEF EntriesInv
<1>4. \A c \in LeafCallers : getter[c].step # "issuing"
  BY LeavesAssumption DEF CloseLeaves, LeafInv, IssuingInv
<1>5. SharedInv'
  BY <1>1 DEF CloseLeaves, LeafInv, SharedInv, Answered
<1>6. \A c \in LeafCallers : IssuingInv(c)' /\ AnsweredInv(c)'
  BY <1>4 DEF CloseLeaves, LeafInv, IssuingInv, AnsweredInv, InCA
<1>. QED
  BY <1>2, <1>3, <1>5, <1>6 DEF LeafInv

LEMMA LeafNextInv == LeafInv /\ [LeavesNext]_leafVars => LeafInv'
<1>. SUFFICES ASSUME LeafInv, [LeavesNext]_leafVars PROVE LeafInv'
  OBVIOUS
<1>1. ASSUME NEW c \in LeafCallers, AskLeaf(c) \/ LockLeaves(c) \/ IssueLeaf(c) PROVE LeafInv'
  BY <1>1, AskLeafStep, LockLeavesStep, IssueLeafStep
<1>2. CASE CloseLeaves
  BY <1>2, CloseLeavesStep
<1>3. CASE CleanupCA \/ TimePasses \/ UNCHANGED leafVars
  <2>1. /\ leafNow' \in Nat
        /\ UNCHANGED <<leafCapacity, leafEntries, leafClosed, leafMu, getter, gets, serials>>
    BY <1>3 DEF CleanupCA, TimePasses, leafVars, LeafInv, LeafType
  <2>. QED
    BY <2>1, SameCacheInv
<1>. QED
  BY <1>1, <1>2, <1>3 DEF LeavesNext

(***************************************************************************)
(* LeafInv holds of LeafCache.Get and Close under any number of handlers,  *)
(* hosts, capacities and validities.                                       *)
(***************************************************************************)
THEOREM LeafInvariant == LeavesSpec => []LeafInv
<1>1. LeavesInit => LeafInv
  BY LeafInitInv
<1>2. LeafInv /\ [LeavesNext]_leafVars => LeafInv'
  BY LeafNextInv
<1>. QED
  BY <1>1, <1>2, PTL DEF LeavesSpec

(***************************************************************************)
(* pki.LeafCache gives every handler a leaf of the host it asked for,      *)
(* inside the validity of the CA, shares one key per host while nothing is *)
(* evicted, keeps within its capacity and keeps no key once it is closed.  *)
(***************************************************************************)
THEOREM LeavesExact == LeavesSpec => []LeavesAreExact
<1>1. LeafInv => LeavesAreExact
  BY LeafInvExact
<1>. QED
  BY <1>1, LeafInvariant, PTL

-----------------------------------------------------------------------------
(* The endpoint classifier *)

(* Sequences of labels *)

LEMMA Words ==
    /\ "fips" \in EpLabels /\ "dualstack" \in EpLabels /\ "amazonaws" \in EpLabels /\ "com" \in EpLabels
    /\ "api" \in EpLabels /\ "aws" \in EpLabels
    /\ \A r \in EpRegions : r \in EpLabels
    /\ \A a \in EpAccounts : a \in EpLabels /\ a # "" /\ a # "fips" /\ a # "dualstack" /\ a \notin DOMAIN EpFips
    /\ \A l \in DOMAIN EpFips : /\ l \in EpLabels /\ EpFips[l] \in EpLabels
                                /\ l # "fips" /\ l # "dualstack" /\ l \notin EpAccounts
    /\ \A l, m \in DOMAIN EpFips : EpFips[l] = EpFips[m] => l = m
BY LabelsAssumption, Zenon DEF EpLabels, Range, IsInjective

LEMMA EmptyLen == Len(<<>>) = 0
OBVIOUS

LEMMA NotShort ==
    ASSUME NEW S, NEW s \in Seq(S), Len(s) >= 2 \/ ~(Len(s) < 2)
    PROVE  Len(s) >= 2 /\ s # <<>>
OBVIOUS

LEMMA NotOne ==
    ASSUME NEW S, NEW s \in Seq(S), Len(s) > 1
    PROVE  ~(Len(s) < 2)
OBVIOUS

LEMMA NotOneOf ==
    ASSUME NEW S, NEW s \in Seq(S), Len(s) >= 2
    PROVE  ~(Len(s) < 2)
OBVIOUS

LEMMA SplitLast ==
    ASSUME NEW S, NEW s \in Seq(S), s # <<>>
    PROVE  /\ ButLast(s) \in Seq(S) /\ LastLabel(s) \in S /\ s = ButLast(s) \o <<LastLabel(s)>>
           /\ Len(ButLast(s)) = Len(s) - 1 /\ Len(s) \in Nat \ {0}
BY DEF ButLast, LastLabel

LEMMA SplitHead ==
    ASSUME NEW S, NEW s \in Seq(S), s # <<>>
    PROVE  /\ Tail(s) \in Seq(S) /\ Head(s) \in S /\ s = <<Head(s)>> \o Tail(s)
           /\ Len(Tail(s)) = Len(s) - 1 /\ Len(s) \in Nat \ {0}
OBVIOUS

LEMMA LastOf ==
    ASSUME NEW S, NEW s \in Seq(S), NEW x \in S
    PROVE  /\ s \o <<x>> \in Seq(S) /\ s \o <<x>> # <<>> /\ Len(s \o <<x>>) = Len(s) + 1
           /\ ButLast(s \o <<x>>) = s /\ LastLabel(s \o <<x>>) = x
BY DEF ButLast, LastLabel

LEMMA HeadOf ==
    ASSUME NEW S, NEW s \in Seq(S), NEW x \in S
    PROVE  /\ <<x>> \o s \in Seq(S) /\ <<x>> \o s # <<>> /\ Len(<<x>> \o s) = Len(s) + 1
           /\ Head(<<x>> \o s) = x /\ Tail(<<x>> \o s) = s
OBVIOUS

LEMMA HeadBefore ==
    ASSUME NEW S, NEW s \in Seq(S), s # <<>>, NEW x \in S
    PROVE  Head(s \o <<x>>) = Head(s)
OBVIOUS

LEMMA LastAfter ==
    ASSUME NEW S, NEW s \in Seq(S), s # <<>>, NEW x \in S
    PROVE  LastLabel(<<x>> \o s) = LastLabel(s) /\ ButLast(<<x>> \o s) = <<x>> \o ButLast(s)
BY DEF ButLast, LastLabel

LEMMA Associative ==
    ASSUME NEW S, NEW s \in Seq(S), NEW t \in Seq(S), NEW u \in Seq(S)
    PROVE  (s \o t) \o u = s \o (t \o u)
OBVIOUS

LEMMA Regrouped ==
    ASSUME NEW s \in Seq(EpLabels), NEW x \in EpLabels, NEW z \in EpLabels
    PROVE  <<x>> \o (s \o <<z>>) = <<x>> \o s \o <<z>>
OBVIOUS

LEMMA Framed ==
    ASSUME NEW s \in Seq(EpLabels), NEW w \in Seq(EpLabels), NEW x \in EpLabels, NEW z \in EpLabels,
           NEW t, t = <<x>> \o s \o w \o <<z>>
    PROVE  t \in Seq(EpLabels) /\ t # <<>> /\ Head(t) = x
<1>1. <<x>> \o s \in Seq(EpLabels) /\ <<x>> \o s # <<>> /\ Head(<<x>> \o s) = x
  BY HeadOf
<1>2. <<x>> \o s \o w \in Seq(EpLabels) /\ Len(<<x>> \o s \o w) >= 1 /\ Head(<<x>> \o s \o w) = x
  BY <1>1
<1>. QED
  BY <1>2

LEMMA OneLabel == ASSUME NEW x \in EpLabels PROVE <<x>> \in Seq(EpLabels) /\ Head(<<>> \o <<x>>) = x
OBVIOUS

LEMMA NoLabel == <<>> \in Seq(EpLabels)
OBVIOUS

LEMMA TwoLabels ==
    ASSUME NEW s \in Seq(EpLabels), ~(Len(s) < 2)
    PROVE  /\ Tail(s) \in Seq(EpLabels) /\ Tail(s) # <<>> /\ Head(s) \in EpLabels /\ s # <<>>
           /\ ButLast(s) # <<>>
<1>1. Len(s) \in Nat /\ Len(s) >= 2 /\ Tail(s) \in Seq(EpLabels) /\ Len(Tail(s)) = Len(s) - 1 /\ Head(s) \in EpLabels
  OBVIOUS
<1>2. s # <<>>
  BY <1>1, EmptyLen
<1>3. Len(ButLast(s)) = Len(s) - 1
  BY <1>2, SplitLast, Zenon
<1>4. Len(ButLast(s)) # 0 /\ Len(Tail(s)) # 0
  BY <1>1, <1>3
<1>. QED
  BY <1>1, <1>2, <1>4, EmptyLen, Zenon

LEMMA Suffixed ==
    ASSUME NEW s \in Seq(EpLabels), NEW x \in EpLabels, NEW y \in EpLabels, NEW h, h = s \o <<x, y>>
    PROVE  /\ h \in Seq(EpLabels) /\ Len(h) = Len(s) + 2 /\ SubSeq(h, 1, Len(h) - 2) = s
           /\ h[Len(h) - 1] = x /\ h[Len(h)] = y
OBVIOUS

LEMMA Unsuffixed ==
    ASSUME NEW S, NEW h \in Seq(S), Len(h) >= 3,
           NEW s, s = SubSeq(h, 1, Len(h) - 2)
    PROVE  s \in Seq(S) /\ s # <<>> /\ h = s \o <<h[Len(h) - 1], h[Len(h)]>>
<1>. DEFINE n == Len(h)
            t == s \o <<h[n - 1], h[n]>>
<1>1. n \in Nat /\ n >= 3 /\ h[n - 1] \in S /\ h[n] \in S
  OBVIOUS
<1>2. s \in Seq(S) /\ Len(s) = n - 2 /\ \A i \in 1..(n - 2) : s[i] = h[i]
  BY <1>1
<1>3. t \in Seq(S) /\ Len(t) = n
  BY <1>1, <1>2
<1>4. ASSUME NEW i \in 1..n PROVE t[i] = h[i]
  <2>1. CASE i \in 1..(n - 2)
    BY <1>1, <1>2, <2>1
  <2>2. CASE i = n - 1
    BY <1>1, <1>2, <2>2
  <2>3. CASE i = n
    BY <1>1, <1>2, <2>3
  <2>. QED
    BY <1>1, <2>1, <2>2, <2>3
<1>. HIDE DEF t
<1>5. t = h
  <2>1. t = [i \in 1..n |-> t[i]] /\ h = [i \in 1..n |-> h[i]]
    BY <1>1, <1>3
  <2>2. \A i \in 1..n : t[i] = h[i]
    BY <1>4
  <2>. QED
    BY <2>1, <2>2
<1>6. s # <<>>
  <2>1. Len(s) # 0
    BY <1>1, <1>2
  <2>. QED
    BY <2>1, EmptyLen, Zenon
<1>. QED
  BY <1>2, <1>5, <1>6 DEF t

-----------------------------------------------------------------------------
(* Families and layouts *)

LEMMA FamilyPrefix ==
    ASSUME NEW p \in DOMAIN Families
    PROVE  /\ p \in EndpointPrefixes /\ p \in Seq(EpLabels) /\ p # <<>>
           /\ Head(p) \notin EpAccounts /\ Head(p) # "fips"
           /\ ~HasFips(LastLabel(p)) /\ LastLabel(p) # "dualstack"
<1>1. p \in EndpointPrefixes
  BY DEF Families, EndpointPrefixes
<1>. QED
  BY <1>1, PrefixAssumption DEF HasFips

(* The name with -fips trimmed is spelled with it again. *)
LEMMA TrimmedName ==
    ASSUME NEW t \in Seq(EpLabels), FipsLast(t)
    PROVE  TrimFips(t) \in Seq(EpLabels) /\ FipsName(TrimFips(t)) = t
<1>1. /\ t # <<>> /\ ButLast(t) \in Seq(EpLabels) /\ LastLabel(t) \in DOMAIN EpFips
      /\ EpFips[LastLabel(t)] \in EpLabels /\ t = ButLast(t) \o <<LastLabel(t)>>
  BY SplitLast, Words, Zenon DEF FipsLast, HasFips
<1>2. TrimFips(t) = ButLast(t) \o <<EpFips[LastLabel(t)]>>
  BY DEF TrimFips, FipsLast
<1>3. ButLast(TrimFips(t)) = ButLast(t) /\ LastLabel(TrimFips(t)) = EpFips[LastLabel(t)] /\ TrimFips(t) \in Seq(EpLabels)
  BY <1>1, <1>2, LastOf
<1>4. WithFips(EpFips[LastLabel(t)]) = LastLabel(t)
  BY <1>1, Words, Zenon DEF WithFips
<1>. QED
  BY <1>1, <1>3, <1>4 DEF FipsName

(* The name of a prefix with -fips. *)
LEMMA SpelledName ==
    ASSUME NEW p \in DOMAIN Families, NEW t, t = FipsName(p)
    PROVE  /\ t \in Seq(EpLabels) /\ t # <<>> /\ FipsLast(t) /\ TrimFips(t) = p
           /\ LastLabel(t) # "dualstack" /\ ~FipsFirst(t) /\ Head(t) \notin EpAccounts
<1>. DEFINE w == WithFips(LastLabel(p))
<1>1. /\ p \in Seq(EpLabels) /\ p # <<>> /\ p = ButLast(p) \o <<LastLabel(p)>> /\ ButLast(p) \in Seq(EpLabels)
      /\ LastLabel(p) \in EpLabels /\ Head(p) \notin EpAccounts /\ Head(p) # "fips"
  BY FamilyPrefix, SplitLast, Zenon
<1>2. w \in DOMAIN EpFips /\ EpFips[w] = LastLabel(p)
  BY FamilyPrefix, PrefixAssumption DEF WithFips, Range
<1>3. w \in EpLabels /\ w # "dualstack" /\ w # "fips" /\ w \notin EpAccounts
  BY <1>2, Words, Zenon
<1>4. t = ButLast(p) \o <<w>>
  BY DEF FipsName, w
<1>5. t \in Seq(EpLabels) /\ t # <<>> /\ ButLast(t) = ButLast(p) /\ LastLabel(t) = w
  BY <1>1, <1>3, <1>4, LastOf
<1>6. FipsLast(t) /\ TrimFips(t) = p
  BY <1>1, <1>2, <1>5 DEF FipsLast, TrimFips, HasFips
<1>7. Head(t) \notin EpAccounts /\ Head(t) # "fips"
  <2>1. CASE ButLast(p) = <<>>
    BY <1>3, <1>4, <2>1
  <2>2. CASE ButLast(p) # <<>>
    <3>1. Head(t) = Head(ButLast(p)) /\ Head(p) = Head(ButLast(p))
      BY <1>1, <1>3, <1>4, <2>2, HeadBefore
    <3>. QED
      BY <1>1, <3>1
  <2>. QED
    BY <2>1, <2>2
<1>. QED
  BY <1>3, <1>5, <1>6, <1>7 DEF FipsFirst

(* e is what some layout says of the host h. *)
MeantFor(h, e) == e \in Meanings /\ e.host = h /\ (e.global = FALSE => e.signingRegion = e.region)

(* What a shape says of an endpoint: global, FIPS, dual stack, with an account. *)
Flags(shape, g, f, d, c) ==
    /\ (shape \in GlobalShapes) = g /\ (shape \in FipsShapes) = f
    /\ (shape \in DualShapes) = d /\ (shape \in AccountShapes) = c

LEMMA ShapeFlags ==
    /\ Flags("regional", FALSE, FALSE, FALSE, FALSE)
    /\ Flags("regionalFIPS", FALSE, TRUE, FALSE, FALSE)
    /\ Flags("regionalFIPSLabel", FALSE, TRUE, FALSE, FALSE)
    /\ Flags("regionalFIPSLabelDualStack", FALSE, TRUE, TRUE, FALSE)
    /\ Flags("regionalDualStack", FALSE, FALSE, TRUE, FALSE)
    /\ Flags("regionalFIPSDualStack", FALSE, TRUE, TRUE, FALSE)
    /\ Flags("regionalAPIAWS", FALSE, FALSE, TRUE, FALSE)
    /\ Flags("regionalFIPSAPIAWS", FALSE, TRUE, TRUE, FALSE)
    /\ Flags("global", TRUE, FALSE, FALSE, FALSE)
    /\ Flags("globalFIPSLabel", TRUE, TRUE, FALSE, FALSE)
    /\ Flags("globalFIPSSuffix", TRUE, TRUE, FALSE, FALSE)
    /\ Flags("regionalGlobal", TRUE, FALSE, FALSE, FALSE)
    /\ Flags("accountRegional", FALSE, FALSE, FALSE, TRUE)
    /\ Flags("accountRegionalDualStack", FALSE, FALSE, TRUE, TRUE)
BY DEF Flags, GlobalShapes, FipsShapes, DualShapes, AccountShapes

LEMMA MeantBy ==
    ASSUME NEW p, NEW shape, NEW r \in EpRegions, NEW a \in EpAccounts, Offers(p, shape),
           NEW g \in BOOLEAN, NEW f \in BOOLEAN, NEW d \in BOOLEAN, NEW c \in BOOLEAN,
           Flags(shape, g, f, d, c), NEW host, host = Layout(p, shape, r, a)
    PROVE  MeantFor(host, EndpointOf(Families[p], host, IF g THEN "" ELSE r, g, f, d, IF c THEN a ELSE ""))
<1>. DEFINE e == Meant(p, shape, r, a)
<1>1. p \in DOMAIN Families /\ shape \in Families[p].shapes
  BY DEF Offers
<1>2. e \in Meanings
  BY <1>1 DEF Meanings
<1>3. e = EndpointOf(Families[p], host, IF g THEN "" ELSE r, g, f, d, IF c THEN a ELSE "")
  <2>1. /\ (shape \in GlobalShapes) = g /\ (shape \in FipsShapes) = f
        /\ (shape \in DualShapes) = d /\ (shape \in AccountShapes) = c
    BY DEF Flags
  <2>2. /\ (IF shape \in GlobalShapes THEN "" ELSE r) = (IF g THEN "" ELSE r)
        /\ (IF shape \in AccountShapes THEN a ELSE "") = (IF c THEN a ELSE "")
    BY <2>1, Zenon
  <2>. QED
    BY <2>1, <2>2, Zenon DEF Meant
<1>. HIDE DEF e
<1>4. e.host = host /\ e.global = g
  BY <1>3, Zenon DEF EndpointOf
<1>5. g = FALSE => e.signingRegion = e.region
  BY <1>3, Zenon DEF EndpointOf
<1>. QED
  BY <1>2, <1>3, <1>4, <1>5, Zenon DEF MeantFor

LEMMA MeantRegional ==
    ASSUME NEW p, NEW shape, NEW r \in EpRegions, NEW a \in EpAccounts, Offers(p, shape),
           NEW f \in BOOLEAN, NEW d \in BOOLEAN, Flags(shape, FALSE, f, d, FALSE),
           NEW host, host = Layout(p, shape, r, a)
    PROVE  MeantFor(host, EndpointOf(Families[p], host, r, FALSE, f, d, ""))
<1>. DEFINE e == Meant(p, shape, r, a)
<1>1. p \in DOMAIN Families /\ shape \in Families[p].shapes
  BY DEF Offers
<1>2. e \in Meanings
  BY <1>1 DEF Meanings
<1>3. e = EndpointOf(Families[p], host, r, FALSE, f, d, "")
  BY Zenon DEF Meant, Flags
<1>. HIDE DEF e
<1>4. e.host = host /\ e.signingRegion = e.region
  BY <1>3, Zenon DEF EndpointOf
<1>. QED
  BY <1>2, <1>3, <1>4, Zenon DEF MeantFor

LEMMA MeantAccount ==
    ASSUME NEW p, NEW shape, NEW r \in EpRegions, NEW a \in EpAccounts, Offers(p, shape),
           NEW d \in BOOLEAN, Flags(shape, FALSE, FALSE, d, TRUE),
           NEW host, host = Layout(p, shape, r, a)
    PROVE  MeantFor(host, EndpointOf(Families[p], host, r, FALSE, FALSE, d, a))
<1>. DEFINE e == Meant(p, shape, r, a)
<1>1. p \in DOMAIN Families /\ shape \in Families[p].shapes
  BY DEF Offers
<1>2. e \in Meanings
  BY <1>1 DEF Meanings
<1>3. e = EndpointOf(Families[p], host, r, FALSE, FALSE, d, a)
  BY Zenon DEF Meant, Flags
<1>. HIDE DEF e
<1>4. e.host = host /\ e.signingRegion = e.region
  BY <1>3 DEF EndpointOf
<1>. QED
  BY <1>2, <1>3, <1>4, Zenon DEF MeantFor

LEMMA MeantIsEndpoint == ASSUME NEW h, NEW e, MeantFor(h, e) PROVE e # NoEndpoint
BY NoEndpointAssumption DEF MeantFor

-----------------------------------------------------------------------------
(* What is classified is meant. *)

(* The body of a host under amazonaws.com. *)
BodyOf(host, body) == body \in Seq(EpLabels) /\ host = body \o <<"amazonaws", "com">>

LEMMA GlobalSound ==
    ASSUME NEW body, NEW host, BodyOf(host, body),
           NEW e, e = ClassifyGlobal(host, body, GlobalForm(body)), e # NoEndpoint
    PROVE  MeantFor(host, e)
<1>. DEFINE f == GlobalForm(body)
            Is(p, fips, shape) == /\ Offers(p, shape)
                                  /\ e = EndpointOf(Families[p], host, "", TRUE, fips, FALSE, "")
<1>1. PICK r \in EpRegions, a \in EpAccounts : TRUE
  BY LabelsAssumption, Zenon
<1>2. body # <<>> /\ Is(f.prefix, f.fips, f.shape)
  BY Zenon DEF ClassifyGlobal
<1>3. CASE FipsFirst(body)
  <2>1. Is(Tail(body), TRUE, "globalFIPSLabel")
    BY <1>2, <1>3, Zenon DEF GlobalForm
  <2>2. body = <<"fips">> \o Tail(body)
    BY <1>2, <1>3, SplitHead, Zenon DEF FipsFirst, BodyOf
  <2>3. host = Layout(Tail(body), "globalFIPSLabel", r, a)
    BY <2>2 DEF Layout, BodyOf
  <2>. QED
    BY <2>1, <2>3, ShapeFlags, MeantBy, Zenon
<1>4. CASE ~FipsFirst(body) /\ FipsLast(body)
  <2>1. Is(TrimFips(body), TRUE, "globalFIPSSuffix")
    BY <1>2, <1>4, Zenon DEF GlobalForm
  <2>2. FipsName(TrimFips(body)) = body
    BY <1>4, TrimmedName DEF BodyOf
  <2>3. host = Layout(TrimFips(body), "globalFIPSSuffix", r, a)
    BY <2>2 DEF Layout, BodyOf
  <2>. QED
    BY <2>1, <2>3, ShapeFlags, MeantBy, Zenon
<1>5. CASE ~FipsFirst(body) /\ ~FipsLast(body)
  <2>1. Is(body, FALSE, "global")
    BY <1>2, <1>5, Zenon DEF GlobalForm
  <2>2. host = Layout(body, "global", r, a)
    BY DEF Layout, BodyOf
  <2>. QED
    BY <2>1, <2>2, ShapeFlags, MeantBy, Zenon
<1>. QED
  BY <1>3, <1>4, <1>5

LEMMA APIAWSSound ==
    ASSUME NEW body \in Seq(EpLabels), NEW host, host = body \o <<"api", "aws">>,
           NEW e, e = ClassifyAPIAWS(host, body), e # NoEndpoint
    PROVE  MeantFor(host, e)
<1>. DEFINE rest == ButLast(body)
            r == LastLabel(body)
            p == TrimFips(rest)
            Is == /\ Len(body) >= 2 /\ r \in EpRegions
                  /\ Offers(p, IF FipsLast(rest) THEN "regionalFIPSAPIAWS" ELSE "regionalAPIAWS")
            x == EndpointOf(Families[p], host, r, FALSE, FipsLast(rest), TRUE, "")
<1>1. PICK a \in EpAccounts : TRUE
  BY LabelsAssumption, Zenon
<1>2. Is /\ e = x
  <2>1. ClassifyAPIAWS(host, body) = IF Is THEN x ELSE NoEndpoint
    BY Zenon DEF ClassifyAPIAWS
  <2>. QED
    BY <2>1, Zenon
<1>3. body # <<>>
  BY <1>2, NotShort, Zenon
<1>31. rest \in Seq(EpLabels) /\ body = rest \o <<r>>
  BY <1>3, SplitLast, Zenon
<1>. HIDE DEF rest, r
<1>4. CASE FipsLast(rest) = TRUE
  <2>1. FipsName(p) = rest
    BY <1>31, <1>4, TrimmedName
  <2>. HIDE DEF p
  <2>2. host = Layout(p, "regionalFIPSAPIAWS", r, a)
    BY <1>31, <2>1 DEF Layout
  <2>. QED
    BY <1>2, <1>4, <2>2, ShapeFlags, MeantBy, Zenon
<1>5. CASE FipsLast(rest) = FALSE
  <2>1. p = rest
    BY <1>5 DEF TrimFips, FipsLast
  <2>. HIDE DEF p
  <2>2. host = Layout(p, "regionalAPIAWS", r, a)
    BY <1>31, <2>1 DEF Layout
  <2>. QED
    BY <1>2, <1>5, <2>2, ShapeFlags, MeantBy, Zenon
<1>6. FipsLast(rest) \in BOOLEAN
  BY DEF FipsLast, HasFips
<1>. QED
  BY <1>4, <1>5, <1>6, Zenon

(* The labels before the region: a name, then dualstack or not. *)
Form(t, f, rest, d) ==
    /\ t = (IF d THEN rest \o <<"dualstack">> ELSE rest) /\ f.dual = d
    /\ \/ /\ rest = <<"fips">> \o f.prefix /\ f.fips = TRUE
          /\ f.shape = IF d THEN "regionalFIPSLabelDualStack" ELSE "regionalFIPSLabel"
       \/ /\ rest = FipsName(f.prefix) /\ f.fips = TRUE
          /\ f.shape = IF d THEN "regionalFIPSDualStack" ELSE "regionalFIPS"
       \/ /\ rest = f.prefix /\ f.fips = FALSE
          /\ f.shape = IF d THEN "regionalDualStack" ELSE "regional"

LEMMA FormOf ==
    ASSUME NEW t \in Seq(EpLabels), NEW f, f = RegionalForm(t)
    PROVE  \E rest \in Seq(EpLabels), d \in BOOLEAN : f.prefix \in Seq(EpLabels) /\ Form(t, f, rest, d)
<1>. DEFINE d == Len(t) >= 2 /\ LastLabel(t) = "dualstack"
            rest == IF d THEN ButLast(t) ELSE t
<1>1. d \in BOOLEAN /\ rest \in Seq(EpLabels) /\ t = (IF d THEN rest \o <<"dualstack">> ELSE rest)
  <2>1. CASE d
    <3>1. t # <<>>
      BY <2>1, EmptyLen
    <3>. QED
      BY <2>1, <3>1, SplitLast, Zenon
  <2>2. CASE ~d
    BY <2>2
  <2>. QED
    BY <2>1, <2>2
<1>2. f = IF FipsFirst(rest)
          THEN [prefix |-> Tail(rest), dual |-> d, fips |-> TRUE,
                shape |-> IF d THEN "regionalFIPSLabelDualStack" ELSE "regionalFIPSLabel"]
          ELSE IF FipsLast(rest)
          THEN [prefix |-> TrimFips(rest), dual |-> d, fips |-> TRUE,
                shape |-> IF d THEN "regionalFIPSDualStack" ELSE "regionalFIPS"]
          ELSE [prefix |-> rest, dual |-> d, fips |-> FALSE,
                shape |-> IF d THEN "regionalDualStack" ELSE "regional"]
  BY Zenon DEF RegionalForm
<1>. HIDE DEF d, rest
<1>3. CASE FipsFirst(rest)
  <2>1. rest = <<"fips">> \o Tail(rest) /\ Tail(rest) \in Seq(EpLabels)
    BY <1>1, <1>3, SplitHead DEF FipsFirst
  <2>2. /\ f.prefix = Tail(rest) /\ f.dual = d /\ f.fips = TRUE
        /\ f.shape = IF d THEN "regionalFIPSLabelDualStack" ELSE "regionalFIPSLabel"
    BY <1>2, <1>3
  <2>. QED
    BY <1>1, <2>1, <2>2, Zenon DEF Form
<1>4. CASE ~FipsFirst(rest) /\ FipsLast(rest)
  <2>1. rest = FipsName(TrimFips(rest)) /\ TrimFips(rest) \in Seq(EpLabels)
    BY <1>1, <1>4, TrimmedName
  <2>2. /\ f.prefix = TrimFips(rest) /\ f.dual = d /\ f.fips = TRUE
        /\ f.shape = IF d THEN "regionalFIPSDualStack" ELSE "regionalFIPS"
    BY <1>2, <1>4
  <2>. QED
    BY <1>1, <2>1, <2>2 DEF Form
<1>5. CASE ~FipsFirst(rest) /\ ~FipsLast(rest)
  <2>1. /\ f.prefix = rest /\ f.dual = d /\ f.fips = FALSE
        /\ f.shape = IF d THEN "regionalDualStack" ELSE "regional"
    BY <1>2, <1>5
  <2>. QED
    BY <1>1, <2>1 DEF Form
<1>. QED
  BY <1>3, <1>4, <1>5

LEMMA RegionalSound ==
    ASSUME NEW body, NEW host, BodyOf(host, body),
           NEW e, e = ClassifyRegional(host, body, "", RegionalForm(ButLast(body))), e # NoEndpoint
    PROVE  MeantFor(host, e)
<1>. DEFINE t == ButLast(body)
            r == LastLabel(body)
            f == RegionalForm(t)
            p == f.prefix
            Global == /\ Offers(t, "regionalGlobal")
                      /\ e = EndpointOf(Families[t], host, "", TRUE, FALSE, FALSE, "")
            Is(shape, fips, dual) ==
              Offers(p, shape) /\ e = EndpointOf(Families[p], host, r, FALSE, fips, dual, "")
            x == EndpointOf(Families[t], host, "", TRUE, FALSE, FALSE, "")
            y == EndpointOf(Families[p], host, r, FALSE, f.fips, f.dual, "")
<1>1. PICK a \in EpAccounts : TRUE
  BY LabelsAssumption, Zenon
<1>2. ~(Len(body) < 2) /\ r \in EpRegions /\ (Global \/ Is(f.shape, f.fips, f.dual))
  <2>1. e = IF Len(body) < 2 \/ r \notin EpRegions THEN NoEndpoint
            ELSE IF Offers(t, "regionalGlobal") THEN x
            ELSE IF Offers(p, f.shape) THEN y ELSE NoEndpoint
    <3>. HIDE DEF f, t, r
    <3>1. e = ClassifyRegional(host, body, "", f)
      BY Zenon DEF f, t
    <3>. QED
      BY <3>1, Zenon DEF ClassifyRegional, t, r
  <2>. QED
    BY <2>1, Zenon
<1>3. body \in Seq(EpLabels) /\ body # <<>>
  BY <1>2, NotShort, Zenon DEF BodyOf
<1>4. t \in Seq(EpLabels) /\ body = t \o <<r>>
  BY <1>3, SplitLast, Zenon
<1>. HIDE DEF t, r
<1>5. PICK rest \in Seq(EpLabels), d \in BOOLEAN : Form(t, f, rest, d)
  BY <1>4, FormOf, Zenon
<1>. HIDE DEF f
<1>6. host = t \o <<r>> \o <<"amazonaws", "com">>
  BY <1>4, Zenon DEF BodyOf
<1>7. CASE Global
  <2>1. host = Layout(t, "regionalGlobal", r, a)
    BY <1>6, Zenon DEF Layout
  <2>2. MeantFor(host, x)
    BY <1>2, <1>7, <2>1, ShapeFlags, MeantBy, Zenon
  <2>. QED
    BY <1>7, <2>2, Zenon
<1>8. CASE Is(f.shape, f.fips, f.dual) /\ d = FALSE
  <2>1. CASE rest = <<"fips">> \o p /\ Is("regionalFIPSLabel", TRUE, FALSE)
    <3>1. host = Layout(p, "regionalFIPSLabel", r, a)
      BY <1>5, <1>6, <1>8, <2>1, Zenon DEF Layout, Form
    <3>2. Flags("regionalFIPSLabel", FALSE, TRUE, FALSE, FALSE)
      BY ShapeFlags, Zenon
    <3>. QED
      BY <1>2, <2>1, <3>1, <3>2, MeantRegional, Zenon
  <2>2. CASE rest = FipsName(p) /\ Is("regionalFIPS", TRUE, FALSE)
    <3>1. host = Layout(p, "regionalFIPS", r, a)
      BY <1>5, <1>6, <1>8, <2>2, Zenon DEF Layout, Form
    <3>2. Flags("regionalFIPS", FALSE, TRUE, FALSE, FALSE)
      BY ShapeFlags, Zenon
    <3>. QED
      BY <1>2, <2>2, <3>1, <3>2, MeantRegional, Zenon
  <2>3. CASE rest = p /\ Is("regional", FALSE, FALSE)
    <3>1. host = Layout(p, "regional", r, a)
      BY <1>5, <1>6, <1>8, <2>3, Zenon DEF Layout, Form
    <3>2. Flags("regional", FALSE, FALSE, FALSE, FALSE)
      BY ShapeFlags, Zenon
    <3>. QED
      BY <1>2, <2>3, <3>1, <3>2, MeantRegional, Zenon
  <2>. QED
    BY <1>5, <1>8, <2>1, <2>2, <2>3, Zenon DEF Form
<1>9. CASE Is(f.shape, f.fips, f.dual) /\ d = TRUE
  <2>1. CASE rest = <<"fips">> \o p /\ Is("regionalFIPSLabelDualStack", TRUE, TRUE)
    <3>1. host = Layout(p, "regionalFIPSLabelDualStack", r, a)
      BY <1>5, <1>6, <1>9, <2>1, Zenon DEF Layout, Form
    <3>2. Flags("regionalFIPSLabelDualStack", FALSE, TRUE, TRUE, FALSE)
      BY ShapeFlags, Zenon
    <3>. QED
      BY <1>2, <2>1, <3>1, <3>2, MeantRegional, Zenon
  <2>2. CASE rest = FipsName(p) /\ Is("regionalFIPSDualStack", TRUE, TRUE)
    <3>1. host = Layout(p, "regionalFIPSDualStack", r, a)
      BY <1>5, <1>6, <1>9, <2>2, Zenon DEF Layout, Form
    <3>2. Flags("regionalFIPSDualStack", FALSE, TRUE, TRUE, FALSE)
      BY ShapeFlags, Zenon
    <3>. QED
      BY <1>2, <2>2, <3>1, <3>2, MeantRegional, Zenon
  <2>3. CASE rest = p /\ Is("regionalDualStack", FALSE, TRUE)
    <3>1. host = Layout(p, "regionalDualStack", r, a)
      BY <1>5, <1>6, <1>9, <2>3, Zenon DEF Layout, Form
    <3>2. Flags("regionalDualStack", FALSE, FALSE, TRUE, FALSE)
      BY ShapeFlags, Zenon
    <3>. QED
      BY <1>2, <2>3, <3>1, <3>2, MeantRegional, Zenon
  <2>. QED
    BY <1>5, <1>9, <2>1, <2>2, <2>3, Zenon DEF Form
<1>. QED
  BY <1>2, <1>7, <1>8, <1>9, Zenon

LEMMA AccountSound ==
    ASSUME NEW a \in EpAccounts, NEW body \in Seq(EpLabels), NEW host, BodyOf(host, <<a>> \o body),
           NEW e, e = ClassifyRegional(host, body, a, RegionalForm(ButLast(body))), e # NoEndpoint
    PROVE  MeantFor(host, e)
<1>. DEFINE t == ButLast(body)
            r == LastLabel(body)
            f == RegionalForm(t)
            p == f.prefix
            shape == IF f.dual THEN "accountRegionalDualStack" ELSE "accountRegional"
            y == EndpointOf(Families[p], host, r, FALSE, f.fips, f.dual, a)
<1>1. a # "" /\ a \in EpLabels
  BY Words, Zenon
<1>2. ~(Len(body) < 2) /\ r \in EpRegions /\ ~f.fips /\ Offers(p, shape) /\ e = y
  <2>1. e = IF Len(body) < 2 \/ r \notin EpRegions THEN NoEndpoint
            ELSE IF Offers(t, "regionalGlobal") THEN NoEndpoint
            ELSE IF ~f.fips /\ Offers(p, shape) /\ Families[p].accountLabel THEN y ELSE NoEndpoint
    <3>. HIDE DEF f, t, r
    <3>1. e = ClassifyRegional(host, body, a, f)
      BY DEF f, t
    <3>. QED
      BY <1>1, <3>1, Zenon DEF ClassifyRegional, t, r
  <2>. QED
    BY <2>1, Zenon
<1>3. body # <<>> /\ r \in EpLabels
  BY <1>2, NotShort, Words, Zenon
<1>4. t \in Seq(EpLabels) /\ body = t \o <<r>>
  BY <1>3, SplitLast
<1>. HIDE DEF t, r
<1>5. PICK rest \in Seq(EpLabels), d \in BOOLEAN : p \in Seq(EpLabels) /\ Form(t, f, rest, d)
  BY <1>4, FormOf, Zenon
<1>. HIDE DEF f
<1>6. rest = p /\ f.fips = FALSE /\ f.dual = d /\ t = IF d THEN p \o <<"dualstack">> ELSE p
  BY <1>2, <1>5, Zenon DEF Form
<1>10. p \in Seq(EpLabels) /\ a \in EpLabels /\ r \in EpLabels /\ "dualstack" \in EpLabels
  BY <1>1, <1>3, <1>5, Words, Zenon
<1>. HIDE DEF p
<1>7. host = <<a>> \o (t \o <<r>>) \o <<"amazonaws", "com">>
  BY <1>4 DEF BodyOf
<1>8. CASE d = FALSE
  <2>1. <<a>> \o (p \o <<r>>) = <<a>> \o p \o <<r>>
    BY <1>10, Regrouped, Zenon
  <2>2. host = Layout(p, "accountRegional", r, a)
    BY <1>6, <1>7, <1>8, <2>1 DEF Layout
  <2>. QED
    BY <1>2, <1>6, <1>8, <2>2, ShapeFlags, MeantAccount, Zenon
<1>9. CASE d = TRUE
  <2>1. <<a>> \o (p \o <<"dualstack">> \o <<r>>) = <<a>> \o p \o <<"dualstack">> \o <<r>>
    <3>1. PICK w \in EpLabels : w = "dualstack"
      BY <1>10
    <3>2. p \o <<w>> \in Seq(EpLabels)
      BY <1>10, LastOf, Zenon
    <3>3. <<a>> \o ((p \o <<w>>) \o <<r>>) = (<<a>> \o (p \o <<w>>)) \o <<r>>
      BY <1>10, <3>2, Regrouped, Zenon
    <3>4. <<a>> \o (p \o <<w>>) = (<<a>> \o p) \o <<w>>
      BY <1>10, Regrouped, Zenon
    <3>. QED
      BY <3>1, <3>3, <3>4, Zenon
  <2>2. host = Layout(p, "accountRegionalDualStack", r, a)
    BY <1>6, <1>7, <1>9, <2>1 DEF Layout
  <2>. QED
    BY <1>2, <1>6, <1>9, <2>2, ShapeFlags, MeantAccount, Zenon
<1>. QED
  BY <1>8, <1>9, Zenon

(* The plain attempt at a host under an account label finds no prefix: none begins so. *)
LEMMA TrimmedRefused ==
    ASSUME NEW body \in Seq(EpLabels), ~(Len(body) < 2), Head(body) \in EpAccounts, NEW host
    PROVE  ClassifyRegional(host, Trimmed(body), "", RegionalForm(ButLast(Trimmed(body)))) = NoEndpoint
<1>. DEFINE b == Trimmed(body)
            t == ButLast(b)
            f == RegionalForm(t)
<1>1. b \in Seq(EpLabels) /\ b # <<>> /\ Head(b) = Head(body)
  <2>. DEFINE labels == ButLast(Tail(body))
              dual == Len(labels) >= 2 /\ LastLabel(labels) = "dualstack"
              rest == IF dual THEN ButLast(labels) ELSE labels
  <2>1. body # <<>> /\ Tail(body) \in Seq(EpLabels) /\ Tail(body) # <<>> /\ Head(body) \in EpLabels
    BY TwoLabels, Zenon
  <2>2. labels \in Seq(EpLabels) /\ LastLabel(body) \in EpLabels
    BY <2>1, SplitLast, Zenon
  <2>3. rest \in Seq(EpLabels)
    <3>1. CASE dual
      <4>1. labels # <<>>
        BY <2>2, <3>1, NotShort, Zenon
      <4>. QED
        BY <2>2, <3>1, <4>1, SplitLast, Zenon
    <3>2. CASE ~dual
      BY <2>2, <3>2
    <3>. QED
      BY <3>1, <3>2
  <2>4. TrimFips(rest) \in Seq(EpLabels)
    <3>1. CASE FipsLast(rest)
      BY <2>3, <3>1, TrimmedName
    <3>2. CASE ~FipsLast(rest)
      BY <2>3, <3>2 DEF FipsLast, TrimFips
    <3>. QED
      BY <3>1, <3>2
  <2>5. b = body \/ b = <<Head(body)>> \o TrimFips(rest) \o (IF dual THEN <<"dualstack">> ELSE <<>>)
                           \o <<LastLabel(body)>>
    BY Zenon DEF Trimmed
  <2>. DEFINE w == IF dual THEN <<"dualstack">> ELSE <<>>
  <2>6. w \in Seq(EpLabels)
    BY Words, OneLabel, NoLabel, Zenon
  <2>. HIDE DEF b, labels, rest, w
  <2>7. CASE b = body
    BY <2>1, <2>7
  <2>8. CASE b = <<Head(body)>> \o TrimFips(rest) \o w \o <<LastLabel(body)>>
    BY <2>1, <2>2, <2>4, <2>6, <2>8, Framed
  <2>. QED
    BY <2>5, <2>7, <2>8 DEF w
<1>. HIDE DEF b
<1>2. SUFFICES ASSUME ~(Len(b) < 2) PROVE ~Offers(t, "regionalGlobal") /\ ~Offers(f.prefix, f.shape)
  <2>1. CASE Len(b) < 2
    BY <2>1, Zenon DEF ClassifyRegional, b
  <2>2. CASE ~Offers(t, "regionalGlobal") /\ ~Offers(f.prefix, f.shape)
    BY <2>2, Zenon DEF ClassifyRegional, b
  <2>. QED
    BY <2>1, <2>2, Zenon
<1>3. t \in Seq(EpLabels) /\ t # <<>> /\ Head(t) \in EpAccounts
  <2>1. t \in Seq(EpLabels) /\ LastLabel(b) \in EpLabels /\ b = t \o <<LastLabel(b)>>
    BY <1>1, SplitLast, Zenon
  <2>2. t # <<>>
    BY <1>1, <1>2, TwoLabels, Zenon
  <2>. HIDE DEF t
  <2>3. Head(t \o <<LastLabel(b)>>) = Head(t)
    BY <2>1, <2>2, HeadBefore
  <2>. QED
    BY <1>1, <2>1, <2>2, <2>3
<1>. HIDE DEF t
<1>4. ~Offers(t, "regionalGlobal")
  BY <1>3, FamilyPrefix DEF Offers
<1>5. ASSUME f.prefix \in DOMAIN Families PROVE FALSE
  <2>1. PICK rest \in Seq(EpLabels), d \in BOOLEAN : Form(t, f, rest, d)
    BY <1>3, FormOf
  <2>. HIDE DEF f
  <2>2. rest # <<>> /\ Head(rest) \in EpAccounts
    <3>1. CASE d = FALSE
      BY <1>3, <2>1, <3>1 DEF Form
    <3>2. CASE d = TRUE
      <4>1. t = rest \o <<"dualstack">>
        BY <2>1, <3>2 DEF Form
      <4>2. rest # <<>>
        <5>1. Head(<<>> \o <<"dualstack">>) = "dualstack"
          BY Words, OneLabel, Zenon
        <5>2. "dualstack" \notin EpAccounts
          BY Words, Zenon
        <5>. QED
          BY <1>3, <4>1, <5>1, <5>2, Zenon
      <4>. QED
        BY <1>3, <4>1, <4>2, HeadBefore
    <3>. QED
      BY <3>1, <3>2, Zenon
  <2>3. f.prefix \in Seq(EpLabels) /\ Head(f.prefix) \notin EpAccounts
    BY <1>5, FamilyPrefix
  <2>4. rest = <<"fips">> \o f.prefix \/ rest = FipsName(f.prefix) \/ rest = f.prefix
    BY <2>1 DEF Form
  <2>5. CASE rest = <<"fips">> \o f.prefix
    <3>1. Head(<<"fips">> \o f.prefix) = "fips"
      BY <2>3, HeadOf, Words, Zenon
    <3>2. "fips" \notin EpAccounts
      BY Words, Zenon
    <3>. QED
      BY <2>2, <2>5, <3>1, <3>2, Zenon
  <2>6. CASE rest = FipsName(f.prefix)
    BY <1>5, <2>2, <2>6, SpelledName
  <2>. QED
    BY <2>2, <2>3, <2>4, <2>5, <2>6
<1>. QED
  BY <1>4, <1>5 DEF Offers

AWSBody(h) == SubSeq(h, 1, Len(h) - 2)
EndsLikeAWS(h) ==
    /\ Len(h) >= 3
    /\ \/ h[Len(h) - 1] = "amazonaws" /\ h[Len(h)] = "com"
       \/ h[Len(h) - 1] = "api" /\ h[Len(h)] = "aws"

LEMMA AmazonSound ==
    ASSUME NEW host, NEW body \in Seq(EpLabels), body # <<>>, BodyOf(host, body),
           NEW e, e = ClassifyAmazonAWS(host, body), e # NoEndpoint
    PROVE  MeantFor(host, e)
<1>. DEFINE g == ClassifyGlobal(host, body, GlobalForm(body))
            x == ClassifyRegional(host, Tail(body), Head(body), RegionalForm(ButLast(Tail(body))))
            y == ClassifyRegional(host, Trimmed(body), "", RegionalForm(ButLast(Trimmed(body))))
            z == ClassifyRegional(host, body, "", RegionalForm(ButLast(body)))
            Labelled == Len(body) > 1 /\ Head(body) \in EpAccounts
<1>1. e = FirstEndpoint(g, IF Labelled THEN FirstEndpoint(x, y) ELSE z)
  BY Zenon DEF ClassifyAmazonAWS
<1>2. CASE g # NoEndpoint
  <2>1. e = g
    BY <1>1, <1>2, Zenon DEF FirstEndpoint
  <2>. QED
    BY <1>2, <2>1, GlobalSound, Zenon
<1>3. CASE g = NoEndpoint /\ ~Labelled
  <2>1. e = z
    BY <1>1, <1>3, Zenon DEF FirstEndpoint
  <2>. QED
    BY <2>1, RegionalSound, Zenon
<1>4. CASE g = NoEndpoint /\ Labelled
  <2>1. ~(Len(body) < 2)
    <3>1. Len(body) > 1
      BY <1>4
    <3>. HIDE DEF g, x, y, z
    <3>. QED
      BY <3>1, NotOne, Zenon
  <2>2. y = NoEndpoint
    BY <1>4, <2>1, TrimmedRefused, Zenon
  <2>3. e = x
    BY <1>1, <1>4, <2>2, Zenon DEF FirstEndpoint
  <2>4. Tail(body) \in Seq(EpLabels) /\ body = <<Head(body)>> \o Tail(body)
    BY SplitHead, Zenon
  <2>5. BodyOf(host, <<Head(body)>> \o Tail(body))
    BY <2>4, Zenon
  <2>. QED
    BY <1>4, <2>3, <2>4, <2>5, AccountSound, Zenon
<1>. QED
  BY <1>2, <1>3, <1>4

(* A host that is not refused is given what one of its layouts says. *)
LEMMA CommercialSound ==
    ASSUME NEW h \in Seq(EpLabels), NEW e, e = ClassifyCommercialHost(h), e # NoEndpoint
    PROVE  MeantFor(h, e) /\ EndsLikeAWS(h)
<1>. DEFINE n == Len(h)
            body == AWSBody(h)
            amazon == <<h[n - 1], h[n]>> = <<"amazonaws", "com">>
            api == <<h[n - 1], h[n]>> = <<"api", "aws">>
<1>1. e = IF n < 3 THEN NoEndpoint ELSE IF amazon THEN ClassifyAmazonAWS(h, body)
          ELSE IF api THEN ClassifyAPIAWS(h, body) ELSE NoEndpoint
  BY Zenon DEF ClassifyCommercialHost, AWSBody
<1>2. ~(n < 3) /\ (amazon \/ api)
  BY <1>1, Zenon
<1>3. n >= 3 /\ body \in Seq(EpLabels) /\ body # <<>> /\ h = body \o <<h[n - 1], h[n]>>
  <2>1. n >= 3
    BY <1>2
  <2>. QED
    BY <2>1, Unsuffixed, Zenon DEF AWSBody
<1>. HIDE DEF body
<1>4. CASE amazon
  <2>1. e = ClassifyAmazonAWS(h, body)
    BY <1>1, <1>2, <1>4, Zenon
  <2>2. BodyOf(h, body)
    BY <1>3, <1>4, Zenon DEF BodyOf
  <2>3. MeantFor(h, e)
    BY <1>3, <2>1, <2>2, AmazonSound, Zenon
  <2>4. h[n - 1] = "amazonaws" /\ h[n] = "com"
    BY <1>4
  <2>. QED
    BY <1>3, <2>3, <2>4 DEF EndsLikeAWS
<1>5. CASE ~amazon /\ api
  <2>1. e = ClassifyAPIAWS(h, body)
    BY <1>1, <1>2, <1>5, Zenon
  <2>2. h = body \o <<"api", "aws">>
    BY <1>3, <1>5, Zenon
  <2>3. MeantFor(h, e)
    BY <1>3, <2>1, <2>2, APIAWSSound, Zenon
  <2>4. h[n - 1] = "api" /\ h[n] = "aws"
    BY <1>5
  <2>. QED
    BY <1>3, <2>3, <2>4 DEF EndsLikeAWS
<1>. QED
  BY <1>2, <1>4, <1>5

-----------------------------------------------------------------------------
(* A host that some layout spells is not refused. *)

Spelled(rest, t, d) ==
    /\ rest \in Seq(EpLabels) /\ rest # <<>> /\ LastLabel(rest) # "dualstack"
    /\ t = (IF d THEN rest \o <<"dualstack">> ELSE rest)
FormSays(rest, t, f, d) ==
    /\ t \in Seq(EpLabels) /\ t # <<>> /\ Head(t) = Head(rest) /\ f.dual = d
    /\ FipsFirst(rest) =>
         /\ f.prefix = Tail(rest) /\ f.fips = TRUE
         /\ f.shape = IF d THEN "regionalFIPSLabelDualStack" ELSE "regionalFIPSLabel"
    /\ ~FipsFirst(rest) /\ FipsLast(rest) =>
         /\ f.prefix = TrimFips(rest) /\ f.fips = TRUE
         /\ f.shape = IF d THEN "regionalFIPSDualStack" ELSE "regionalFIPS"
    /\ ~FipsFirst(rest) /\ ~FipsLast(rest) =>
         /\ f.prefix = rest /\ f.fips = FALSE
         /\ f.shape = IF d THEN "regionalDualStack" ELSE "regional"

LEMMA FormFound ==
    ASSUME NEW rest, NEW t, NEW d \in BOOLEAN, Spelled(rest, t, d)
    PROVE  FormSays(rest, t, RegionalForm(t), d)
<1>0. /\ rest \in Seq(EpLabels) /\ rest # <<>> /\ LastLabel(rest) # "dualstack"
      /\ t = (IF d THEN rest \o <<"dualstack">> ELSE rest)
  BY DEF Spelled
<1>. DEFINE f == RegionalForm(t)
<1>. DEFINE dual == Len(t) >= 2 /\ LastLabel(t) = "dualstack"
            before == IF dual THEN ButLast(t) ELSE t
<1>1. t \in Seq(EpLabels) /\ t # <<>> /\ Head(t) = Head(rest) /\ dual = d /\ before = rest
  <2>1. CASE d = FALSE
    BY <1>0, <2>1
  <2>2. CASE d = TRUE
    <3>0. PICK w \in EpLabels : w = "dualstack"
      BY Words, Zenon
    <3>1. t = rest \o <<w>>
      BY <1>0, <2>2, <3>0
    <3>2. /\ t \in Seq(EpLabels) /\ t # <<>> /\ Len(t) = Len(rest) + 1
          /\ ButLast(t) = rest /\ LastLabel(t) = "dualstack"
      <4>1. LET u == rest \o <<w>>
            IN  /\ u \in Seq(EpLabels) /\ u # <<>> /\ Len(u) = Len(rest) + 1
                /\ ButLast(u) = rest /\ LastLabel(u) = w
        BY <1>0, LastOf, Zenon
      <4>. QED
        BY <3>0, <3>1, <4>1, Zenon
    <3>3. Head(t) = Head(rest)
      <4>1. Head(rest \o <<w>>) = Head(rest)
        BY <1>0, HeadBefore, Zenon
      <4>. QED
        BY <3>1, <4>1, Zenon
    <3>4. Len(rest) \in Nat \ {0}
      BY <1>0, SplitLast, Zenon
    <3>5. Len(t) >= 2
      BY <3>2, <3>4
    <3>. QED
      BY <2>2, <3>2, <3>3, <3>5, Zenon
  <2>. QED
    BY <2>1, <2>2, Zenon
<1>2. f = IF FipsFirst(before)
          THEN [prefix |-> Tail(before), dual |-> dual, fips |-> TRUE,
                shape |-> IF dual THEN "regionalFIPSLabelDualStack" ELSE "regionalFIPSLabel"]
          ELSE IF FipsLast(before)
          THEN [prefix |-> TrimFips(before), dual |-> dual, fips |-> TRUE,
                shape |-> IF dual THEN "regionalFIPSDualStack" ELSE "regionalFIPS"]
          ELSE [prefix |-> before, dual |-> dual, fips |-> FALSE,
                shape |-> IF dual THEN "regionalDualStack" ELSE "regional"]
  BY Zenon DEF RegionalForm
<1>. SUFFICES FormSays(rest, t, f, d)
  OBVIOUS
<1>. HIDE DEF dual, before, f
<1>3. f = IF FipsFirst(rest)
          THEN [prefix |-> Tail(rest), dual |-> d, fips |-> TRUE,
                shape |-> IF d THEN "regionalFIPSLabelDualStack" ELSE "regionalFIPSLabel"]
          ELSE IF FipsLast(rest)
          THEN [prefix |-> TrimFips(rest), dual |-> d, fips |-> TRUE,
                shape |-> IF d THEN "regionalFIPSDualStack" ELSE "regionalFIPS"]
          ELSE [prefix |-> rest, dual |-> d, fips |-> FALSE,
                shape |-> IF d THEN "regionalDualStack" ELSE "regional"]
  BY <1>1, <1>2
<1>4. CASE FipsFirst(rest)
  BY <1>1, <1>3, <1>4 DEF FormSays
<1>5. CASE ~FipsFirst(rest) /\ FipsLast(rest)
  BY <1>1, <1>3, <1>5 DEF FormSays
<1>6. CASE ~FipsFirst(rest) /\ ~FipsLast(rest)
  BY <1>1, <1>3, <1>6 DEF FormSays
<1>. QED
  BY <1>4, <1>5, <1>6

(* A host under amazonaws.com is classified by its body. *)
LEMMA AmazonHost ==
    ASSUME NEW host, NEW body \in Seq(EpLabels), body # <<>>, BodyOf(host, body)
    PROVE  ClassifyCommercialHost(host) = ClassifyAmazonAWS(host, body)
<1>1. host = body \o <<"amazonaws", "com">>
  BY DEF BodyOf
<1>2. /\ Len(host) = Len(body) + 2 /\ SubSeq(host, 1, Len(host) - 2) = body
      /\ host[Len(host) - 1] = "amazonaws" /\ host[Len(host)] = "com"
  <2>1. PICK x \in EpLabels, y \in EpLabels : x = "amazonaws" /\ y = "com"
    BY Words, Zenon
  <2>2. host = body \o <<x, y>>
    BY <1>1, <2>1, Zenon
  <2>3. /\ Len(host) = Len(body) + 2 /\ SubSeq(host, 1, Len(host) - 2) = body
        /\ host[Len(host) - 1] = x /\ host[Len(host)] = y
    BY <2>2, Suffixed
  <2>. QED
    BY <2>1, <2>3
<1>3. Len(body) \in Nat \ {0}
  BY SplitLast, Zenon
<1>4. ~(Len(host) < 3)
  BY <1>2, <1>3
<1>. QED
  BY <1>2, <1>4, Zenon DEF ClassifyCommercialHost

(* A host under api.aws likewise. *)
APIBodyOf(host, body) == body \in Seq(EpLabels) /\ host = body \o <<"api", "aws">>

LEMMA APIHost ==
    ASSUME NEW host, NEW body \in Seq(EpLabels), body # <<>>, APIBodyOf(host, body)
    PROVE  ClassifyCommercialHost(host) = ClassifyAPIAWS(host, body)
<1>1. host = body \o <<"api", "aws">>
  BY DEF APIBodyOf
<1>2. /\ Len(host) = Len(body) + 2 /\ SubSeq(host, 1, Len(host) - 2) = body
      /\ host[Len(host) - 1] = "api" /\ host[Len(host)] = "aws"
  <2>1. PICK x \in EpLabels, y \in EpLabels : x = "api" /\ y = "aws"
    BY Words, Zenon
  <2>2. host = body \o <<x, y>>
    BY <1>1, <2>1, Zenon
  <2>3. /\ Len(host) = Len(body) + 2 /\ SubSeq(host, 1, Len(host) - 2) = body
        /\ host[Len(host) - 1] = x /\ host[Len(host)] = y
    BY <2>2, Suffixed
  <2>. QED
    BY <2>1, <2>3
<1>3. Len(body) \in Nat \ {0}
  BY SplitLast, Zenon
<1>4. ~(Len(host) < 3)
  BY <1>2, <1>3
<1>. QED
  BY <1>2, <1>4, Zenon DEF ClassifyCommercialHost

(* The labels t and then a region; a label and then the labels t. *)
Placed(body, t, r) ==
    /\ body \in Seq(EpLabels) /\ body # <<>> /\ ~(Len(body) < 2) /\ body = t \o <<r>>
    /\ ButLast(body) = t /\ LastLabel(body) = r /\ Head(body) = Head(t)
Labelled(body, l, t) ==
    /\ body \in Seq(EpLabels) /\ body # <<>> /\ Len(body) > 1
    /\ Head(body) = l /\ Tail(body) = t

LEMMA Place ==
    ASSUME NEW t \in Seq(EpLabels), t # <<>>, NEW r \in EpLabels
    PROVE  Placed(t \o <<r>>, t, r)
<1>1. LET b == t \o <<r>> IN /\ b \in Seq(EpLabels) /\ b # <<>> /\ Len(b) = Len(t) + 1
                             /\ ButLast(b) = t /\ LastLabel(b) = r
  BY LastOf, Zenon
<1>2. Head(t \o <<r>>) = Head(t)
  BY HeadBefore, Zenon
<1>3. Len(t) \in Nat \ {0}
  BY SplitLast, Zenon
<1>4. ~(Len(t \o <<r>>) < 2)
  BY <1>1, <1>3
<1>. QED
  BY <1>1, <1>2, <1>4, Zenon DEF Placed

LEMMA Label ==
    ASSUME NEW t \in Seq(EpLabels), t # <<>>, NEW l \in EpLabels
    PROVE  Labelled(<<l>> \o t, l, t)
<1>1. LET b == <<l>> \o t IN /\ b \in Seq(EpLabels) /\ b # <<>> /\ Len(b) = Len(t) + 1
                             /\ Head(b) = l /\ Tail(b) = t
  BY HeadOf, Zenon
<1>2. Len(t) \in Nat \ {0}
  BY SplitLast, Zenon
<1>3. Len(<<l>> \o t) > 1
  BY <1>1, <1>2
<1>. QED
  BY <1>1, <1>3, Zenon DEF Labelled

LEMMA RegionalFound ==
    ASSUME NEW r \in EpRegions, NEW a \in EpAccounts, NEW t, NEW body, Placed(body, t, r),
           Head(t) \notin EpAccounts, NEW host, BodyOf(host, body),
           NEW f, f = RegionalForm(t), Offers(f.prefix, f.shape),
           MeantFor(host, EndpointOf(Families[f.prefix], host, r, FALSE, f.fips, f.dual, ""))
    PROVE  ClassifyCommercialHost(host) # NoEndpoint
<1>. DEFINE g == ClassifyGlobal(host, body, GlobalForm(body))
            z == ClassifyRegional(host, body, "", RegionalForm(ButLast(body)))
            v == EndpointOf(Families[t], host, "", TRUE, FALSE, FALSE, "")
            w == EndpointOf(Families[f.prefix], host, r, FALSE, f.fips, f.dual, "")
<1>1. z # NoEndpoint
  <2>1. z = ClassifyRegional(host, body, "", f)
    BY Zenon DEF Placed
  <2>2. z = IF Offers(t, "regionalGlobal") THEN v ELSE IF Offers(f.prefix, f.shape) THEN w ELSE NoEndpoint
    BY <2>1, Zenon DEF ClassifyRegional, Placed
  <2>3. CASE Offers(t, "regionalGlobal")
    <3>1. host = Layout(t, "regionalGlobal", r, a)
      BY Zenon DEF Layout, BodyOf, Placed
    <3>2. MeantFor(host, v)
      BY <2>3, <3>1, ShapeFlags, MeantBy, Zenon
    <3>. QED
      BY <2>2, <2>3, <3>2, MeantIsEndpoint, Zenon
  <2>4. CASE ~Offers(t, "regionalGlobal")
    BY <2>2, <2>4, MeantIsEndpoint, Zenon
  <2>. QED
    BY <2>3, <2>4, Zenon
<1>2. ClassifyAmazonAWS(host, body) = FirstEndpoint(g, z)
  BY Zenon DEF ClassifyAmazonAWS, Placed
<1>3. ClassifyCommercialHost(host) = FirstEndpoint(g, z)
  BY <1>2, AmazonHost, Zenon DEF Placed
<1>. QED
  BY <1>1, <1>3, Zenon DEF FirstEndpoint

LEMMA AccountFound ==
    ASSUME NEW a \in EpAccounts, NEW r \in EpRegions, NEW t, NEW rest, Placed(rest, t, r),
           NEW body, Labelled(body, a, rest), NEW host, BodyOf(host, body), ~Offers(t, "regionalGlobal"),
           NEW f, f = RegionalForm(t), f.fips = FALSE, Families[f.prefix].accountLabel = TRUE,
           Offers(f.prefix, IF f.dual THEN "accountRegionalDualStack" ELSE "accountRegional"),
           MeantFor(host, EndpointOf(Families[f.prefix], host, r, FALSE, f.fips, f.dual, a))
    PROVE  ClassifyCommercialHost(host) # NoEndpoint
<1>. DEFINE g == ClassifyGlobal(host, body, GlobalForm(body))
            x == ClassifyRegional(host, Tail(body), Head(body), RegionalForm(ButLast(Tail(body))))
            y == ClassifyRegional(host, Trimmed(body), "", RegionalForm(ButLast(Trimmed(body))))
            w == EndpointOf(Families[f.prefix], host, r, FALSE, f.fips, f.dual, a)
<1>1. x # NoEndpoint
  <2>1. x = ClassifyRegional(host, rest, a, f)
    BY Zenon DEF Placed, Labelled
  <2>2. a # "" /\ ~f.fips
    BY Words, Zenon
  <2>3. x = w
    BY <2>1, <2>2, Zenon DEF ClassifyRegional, Placed
  <2>. QED
    BY <2>3, MeantIsEndpoint, Zenon
<1>2. ClassifyAmazonAWS(host, body) = FirstEndpoint(g, FirstEndpoint(x, y))
  BY Zenon DEF ClassifyAmazonAWS, Labelled
<1>3. ClassifyCommercialHost(host) = FirstEndpoint(g, FirstEndpoint(x, y))
  BY <1>2, AmazonHost, Zenon DEF Labelled
<1>. QED
  BY <1>1, <1>3, Zenon DEF FirstEndpoint

LEMMA GlobalFound ==
    ASSUME NEW body \in Seq(EpLabels), body # <<>>, NEW host, BodyOf(host, body),
           NEW f, f = GlobalForm(body), f.prefix # <<>>, Offers(f.prefix, f.shape),
           MeantFor(host, EndpointOf(Families[f.prefix], host, "", TRUE, f.fips, FALSE, ""))
    PROVE  ClassifyCommercialHost(host) # NoEndpoint
<1>. DEFINE g == ClassifyGlobal(host, body, GlobalForm(body))
<1>1. g # NoEndpoint
  BY MeantIsEndpoint, Zenon DEF ClassifyGlobal
<1>2. \E z : ClassifyAmazonAWS(host, body) = FirstEndpoint(g, z)
  BY Zenon DEF ClassifyAmazonAWS
<1>3. \E z : ClassifyCommercialHost(host) = FirstEndpoint(g, z)
  BY <1>2, AmazonHost, Zenon
<1>. QED
  BY <1>1, <1>3, Zenon DEF FirstEndpoint

LEMMA RegionalNotRefused ==
    ASSUME NEW r \in EpRegions, NEW a \in EpAccounts,
           NEW t \in Seq(EpLabels), t # <<>>, Head(t) \notin EpAccounts,
           NEW f, f = RegionalForm(t), Offers(f.prefix, f.shape),
           NEW host, host = t \o <<r>> \o <<"amazonaws", "com">>,
           MeantFor(host, EndpointOf(Families[f.prefix], host, r, FALSE, f.fips, f.dual, ""))
    PROVE  ClassifyCommercialHost(host) # NoEndpoint
<1>1. Placed(t \o <<r>>, t, r)
  BY Words, Place, Zenon
<1>2. BodyOf(host, t \o <<r>>)
  BY <1>1, Zenon DEF BodyOf, Placed
<1>. QED
  BY <1>1, <1>2, RegionalFound, Zenon

(* The three ways a name precedes its region. *)
LEMMA Names ==
    ASSUME NEW p \in DOMAIN Families,
           NEW rest, rest = <<"fips">> \o p \/ rest = FipsName(p) \/ rest = p
    PROVE  /\ rest \in Seq(EpLabels) /\ rest # <<>> /\ LastLabel(rest) # "dualstack"
           /\ Head(rest) \notin EpAccounts
           /\ rest = <<"fips">> \o p => FipsFirst(rest) /\ Tail(rest) = p
           /\ rest = FipsName(p) => ~FipsFirst(rest) /\ FipsLast(rest) /\ TrimFips(rest) = p
           /\ rest = p => ~FipsFirst(rest) /\ ~FipsLast(rest)
<1>1. /\ p \in Seq(EpLabels) /\ p # <<>> /\ Head(p) \notin EpAccounts /\ Head(p) # "fips"
      /\ ~HasFips(LastLabel(p)) /\ LastLabel(p) # "dualstack"
  BY FamilyPrefix
<1>2. CASE rest = <<"fips">> \o p
  <2>1. PICK w \in EpLabels : w = "fips" /\ w \notin EpAccounts
    BY Words, Zenon
  <2>2. LET u == <<w>> \o p
        IN  u \in Seq(EpLabels) /\ u # <<>> /\ Head(u) = w /\ Tail(u) = p /\ LastLabel(u) = LastLabel(p)
    <3>1. LastLabel(<<w>> \o p) = LastLabel(p)
      BY <1>1, LastAfter, Zenon
    <3>. QED
      BY <1>1, <3>1, HeadOf, Zenon
  <2>3. /\ rest \in Seq(EpLabels) /\ rest # <<>> /\ Head(rest) = "fips" /\ Tail(rest) = p
        /\ LastLabel(rest) = LastLabel(p)
    BY <1>2, <2>1, <2>2, Zenon
  <2>4. FipsFirst(rest) /\ rest # p
    BY <1>1, <2>3, Zenon DEF FipsFirst
  <2>5. rest # FipsName(p)
    BY <2>4, SpelledName, Zenon
  <2>. QED
    BY <1>1, <2>1, <2>3, <2>4, <2>5, Zenon
<1>3. CASE rest = FipsName(p)
  <2>1. /\ rest \in Seq(EpLabels) /\ rest # <<>> /\ FipsLast(rest) /\ TrimFips(rest) = p
        /\ LastLabel(rest) # "dualstack" /\ ~FipsFirst(rest) /\ Head(rest) \notin EpAccounts
    BY <1>3, SpelledName, Zenon
  <2>2. rest # p
    BY <1>1, <2>1, Zenon DEF FipsLast
  <2>3. rest # <<"fips">> \o p
    <3>1. Head(<<"fips">> \o p) = "fips"
      BY <1>1, Words, HeadOf, Zenon
    <3>. QED
      BY <2>1, <3>1, Zenon DEF FipsFirst
  <2>. QED
    BY <2>1, <2>2, <2>3, Zenon
<1>4. CASE rest = p /\ rest # <<"fips">> \o p /\ rest # FipsName(p)
  BY <1>1, <1>4, Zenon DEF FipsFirst, FipsLast
<1>. QED
  BY <1>2, <1>3, <1>4, Zenon

(* Every family offers known shapes, and account shapes only with the account label. *)
LEMMA FamilyShapes ==
    ASSUME NEW p, NEW shape, Offers(p, shape)
    PROVE  /\ p \in DOMAIN Families
           /\ shape \in RegionalShapes \cup GlobalShapes \cup FipsShapes \cup AccountShapes
           /\ shape \in AccountShapes =>
                Families[p].accountLabel = TRUE /\ ~Offers(p, "regionalGlobal")
<1>1. p \in DOMAIN Families /\ shape \in Families[p].shapes
  BY DEF Offers
<1>. DEFINE s == CHOOSE x \in Range(EpServices) : x.prefix = p
<1>2. s.prefix = p /\ Families[p] = FamilyOf(s)
  BY <1>1 DEF Families
<1>. HIDE DEF s
<1>3. CASE p \in DOMAIN EpOverrides
  <2>1. /\ Families[p].shapes = EpOverrides[p].shapes
        /\ Families[p].accountLabel = EpOverrides[p].accountLabel
    <3>1. PICK over : over = EpOverrides[p]
      OBVIOUS
    <3>2. FamilyOf(s) = [service |-> s.prefix, signing |-> SigningOf(s), shapes |-> over.shapes,
                         signingRegion |-> over.signingRegion, accountLabel |-> over.accountLabel]
      BY <1>2, <1>3, <3>1, Zenon DEF FamilyOf
    <3>3. FamilyOf(s).shapes = over.shapes /\ FamilyOf(s).accountLabel = over.accountLabel
      BY <3>2
    <3>. QED
      BY <1>2, <3>1, <3>3, Zenon
  <2>. QED
    BY <1>1, <1>3, <2>1, OverridesAssumption DEF Offers
<1>4. CASE p \notin DOMAIN EpOverrides
  <2>1. Families[p].shapes = RegionalShapes
    <3>1. PICK plain : plain = [shapes |-> RegionalShapes, signingRegion |-> "", accountLabel |-> FALSE]
      BY Zenon
    <3>2. (IF s.prefix \in DOMAIN EpOverrides THEN EpOverrides[s.prefix] ELSE plain) = plain
      BY <1>2, <1>4
    <3>3. FamilyOf(s).shapes = (IF s.prefix \in DOMAIN EpOverrides THEN EpOverrides[s.prefix] ELSE plain).shapes
      BY <3>1, Zenon DEF FamilyOf
    <3>4. plain.shapes = RegionalShapes
      BY <3>1, Zenon
    <3>. QED
      BY <1>2, <3>2, <3>3, <3>4, Zenon
  <2>. QED
    BY <1>1, <2>1 DEF RegionalShapes, AccountShapes
<1>. QED
  BY <1>3, <1>4, Zenon

(* The form of each name that precedes the region. *)
FormIs(t, p, fips, d, shape) ==
    /\ t \in Seq(EpLabels) /\ t # <<>> /\ Head(t) \notin EpAccounts
    /\ RegionalForm(t).prefix = p /\ RegionalForm(t).shape = shape
    /\ RegionalForm(t).fips = fips /\ RegionalForm(t).dual = d

LEMMA FormOfShape ==
    ASSUME NEW p \in DOMAIN Families
    PROVE  /\ FormIs(p, p, FALSE, FALSE, "regional")
           /\ FormIs(FipsName(p), p, TRUE, FALSE, "regionalFIPS")
           /\ FormIs(<<"fips">> \o p, p, TRUE, FALSE, "regionalFIPSLabel")
           /\ FormIs(p \o <<"dualstack">>, p, FALSE, TRUE, "regionalDualStack")
           /\ FormIs(FipsName(p) \o <<"dualstack">>, p, TRUE, TRUE, "regionalFIPSDualStack")
           /\ FormIs(<<"fips">> \o p \o <<"dualstack">>, p, TRUE, TRUE, "regionalFIPSLabelDualStack")
<1>1. PICK no \in BOOLEAN, yes \in BOOLEAN : no = FALSE /\ yes = TRUE
  BY Zenon
<1>2. ASSUME NEW rest, rest = <<"fips">> \o p \/ rest = FipsName(p) \/ rest = p
      PROVE  /\ FormSays(rest, rest, RegionalForm(rest), FALSE)
             /\ FormSays(rest, rest \o <<"dualstack">>, RegionalForm(rest \o <<"dualstack">>), TRUE)
             /\ Head(rest) \notin EpAccounts
  <2>1. rest \in Seq(EpLabels) /\ rest # <<>> /\ LastLabel(rest) # "dualstack" /\ Head(rest) \notin EpAccounts
    BY <1>2, Names, Zenon
  <2>2. Spelled(rest, rest, no) /\ Spelled(rest, rest \o <<"dualstack">>, yes)
    BY <1>1, <2>1, Zenon DEF Spelled
  <2>3. /\ FormSays(rest, rest, RegionalForm(rest), no)
        /\ FormSays(rest, rest \o <<"dualstack">>, RegionalForm(rest \o <<"dualstack">>), yes)
    BY <2>2, FormFound, Zenon
  <2>. QED
    BY <1>1, <2>1, <2>3, Zenon
<1>3. FormIs(p, p, FALSE, FALSE, "regional") /\ FormIs(p \o <<"dualstack">>, p, FALSE, TRUE, "regionalDualStack")
  <2>1. ~FipsFirst(p) /\ ~FipsLast(p)
    BY Names, Zenon
  <2>. QED
    BY <1>2, <2>1, Zenon DEF FormIs, FormSays
<1>4. /\ FormIs(FipsName(p), p, TRUE, FALSE, "regionalFIPS")
      /\ FormIs(FipsName(p) \o <<"dualstack">>, p, TRUE, TRUE, "regionalFIPSDualStack")
  <2>1. ~FipsFirst(FipsName(p)) /\ FipsLast(FipsName(p)) /\ TrimFips(FipsName(p)) = p
    BY Names, Zenon
  <2>. QED
    BY <1>2, <2>1, Zenon DEF FormIs, FormSays
<1>5. /\ FormIs(<<"fips">> \o p, p, TRUE, FALSE, "regionalFIPSLabel")
      /\ FormIs(<<"fips">> \o p \o <<"dualstack">>, p, TRUE, TRUE, "regionalFIPSLabelDualStack")
  <2>1. FipsFirst(<<"fips">> \o p) /\ Tail(<<"fips">> \o p) = p
    BY Names, Zenon
  <2>. QED
    BY <1>2, <2>1, Zenon DEF FormIs, FormSays
<1>. QED
  BY <1>3, <1>4, <1>5, Zenon

LEMMA RegionalShapeFound ==
    ASSUME NEW p, NEW shape, NEW r \in EpRegions, NEW a \in EpAccounts, Offers(p, shape),
           NEW host, host = Layout(p, shape, r, a),
           shape \in {"regional", "regionalFIPS", "regionalFIPSLabel", "regionalDualStack",
                      "regionalFIPSDualStack", "regionalFIPSLabelDualStack"}
    PROVE  ClassifyCommercialHost(host) # NoEndpoint
<1>1. p \in DOMAIN Families
  BY DEF Offers
<1>2. CASE shape = "regional"
  <2>1. host = p \o <<r>> \o <<"amazonaws", "com">>
    BY <1>2 DEF Layout
  <2>2. MeantFor(host, EndpointOf(Families[p], host, r, FALSE, FALSE, FALSE, ""))
    BY <1>2, ShapeFlags, MeantRegional, Zenon
  <2>3. FormIs(p, p, FALSE, FALSE, shape)
    BY <1>1, <1>2, FormOfShape, Zenon
  <2>. QED
    BY <2>1, <2>2, <2>3, RegionalNotRefused, Zenon DEF FormIs
<1>3. CASE shape = "regionalFIPS"
  <2>1. host = FipsName(p) \o <<r>> \o <<"amazonaws", "com">>
    BY <1>3 DEF Layout
  <2>2. MeantFor(host, EndpointOf(Families[p], host, r, FALSE, TRUE, FALSE, ""))
    BY <1>3, ShapeFlags, MeantRegional, Zenon
  <2>3. FormIs(FipsName(p), p, TRUE, FALSE, shape)
    BY <1>1, <1>3, FormOfShape, Zenon
  <2>. QED
    BY <2>1, <2>2, <2>3, RegionalNotRefused, Zenon DEF FormIs
<1>4. CASE shape = "regionalFIPSLabel"
  <2>1. host = <<"fips">> \o p \o <<r>> \o <<"amazonaws", "com">>
    BY <1>4 DEF Layout
  <2>2. MeantFor(host, EndpointOf(Families[p], host, r, FALSE, TRUE, FALSE, ""))
    BY <1>4, ShapeFlags, MeantRegional, Zenon
  <2>3. FormIs(<<"fips">> \o p, p, TRUE, FALSE, shape)
    BY <1>1, <1>4, FormOfShape, Zenon
  <2>. QED
    BY <2>1, <2>2, <2>3, RegionalNotRefused, Zenon DEF FormIs
<1>5. CASE shape = "regionalDualStack"
  <2>1. host = p \o <<"dualstack">> \o <<r>> \o <<"amazonaws", "com">>
    BY <1>5 DEF Layout
  <2>2. MeantFor(host, EndpointOf(Families[p], host, r, FALSE, FALSE, TRUE, ""))
    BY <1>5, ShapeFlags, MeantRegional, Zenon
  <2>3. FormIs(p \o <<"dualstack">>, p, FALSE, TRUE, shape)
    BY <1>1, <1>5, FormOfShape, Zenon
  <2>. QED
    BY <2>1, <2>2, <2>3, RegionalNotRefused, Zenon DEF FormIs
<1>6. CASE shape = "regionalFIPSDualStack"
  <2>1. host = FipsName(p) \o <<"dualstack">> \o <<r>> \o <<"amazonaws", "com">>
    BY <1>6 DEF Layout
  <2>2. MeantFor(host, EndpointOf(Families[p], host, r, FALSE, TRUE, TRUE, ""))
    BY <1>6, ShapeFlags, MeantRegional, Zenon
  <2>3. FormIs(FipsName(p) \o <<"dualstack">>, p, TRUE, TRUE, shape)
    BY <1>1, <1>6, FormOfShape, Zenon
  <2>. QED
    BY <2>1, <2>2, <2>3, RegionalNotRefused, Zenon DEF FormIs
<1>7. CASE shape = "regionalFIPSLabelDualStack"
  <2>1. host = <<"fips">> \o p \o <<"dualstack">> \o <<r>> \o <<"amazonaws", "com">>
    BY <1>7 DEF Layout
  <2>2. MeantFor(host, EndpointOf(Families[p], host, r, FALSE, TRUE, TRUE, ""))
    BY <1>7, ShapeFlags, MeantRegional, Zenon
  <2>3. FormIs(<<"fips">> \o p \o <<"dualstack">>, p, TRUE, TRUE, shape)
    BY <1>1, <1>7, FormOfShape, Zenon
  <2>. QED
    BY <2>1, <2>2, <2>3, RegionalNotRefused, Zenon DEF FormIs
<1>. QED
  BY <1>2, <1>3, <1>4, <1>5, <1>6, <1>7

(* A host with an account label. *)
LEMMA AccountNotRefused ==
    ASSUME NEW r \in EpRegions, NEW a \in EpAccounts,
           NEW t \in Seq(EpLabels), t # <<>>, ~Offers(t, "regionalGlobal"),
           RegionalForm(t).fips = FALSE, NEW p, RegionalForm(t).prefix = p, Families[p].accountLabel = TRUE,
           Offers(p, IF RegionalForm(t).dual THEN "accountRegionalDualStack" ELSE "accountRegional"),
           NEW host, host = <<a>> \o t \o <<r>> \o <<"amazonaws", "com">>,
           MeantFor(host, EndpointOf(Families[p], host, r, FALSE, FALSE, RegionalForm(t).dual, a))
    PROVE  ClassifyCommercialHost(host) # NoEndpoint
<1>. DEFINE rest == t \o <<r>>
            body == <<a>> \o rest
<1>1. Placed(rest, t, r)
  BY Words, Place, Zenon
<1>2. Labelled(body, a, rest)
  BY <1>1, Words, Label, Zenon DEF Placed
<1>3. body = <<a>> \o t \o <<r>>
  BY Words, Regrouped, Zenon
<1>. HIDE DEF rest, body
<1>4. BodyOf(host, body)
  BY <1>2, <1>3, Zenon DEF BodyOf, Labelled
<1>. QED
  BY <1>1, <1>2, <1>4, AccountFound, Zenon

LEMMA AccountShapeFound ==
    ASSUME NEW p, NEW shape, NEW r \in EpRegions, NEW a \in EpAccounts, Offers(p, shape),
           NEW host, host = Layout(p, shape, r, a), shape \in AccountShapes
    PROVE  ClassifyCommercialHost(host) # NoEndpoint
<1>1. p \in DOMAIN Families /\ Families[p].accountLabel = TRUE /\ ~Offers(p, "regionalGlobal")
  BY FamilyShapes, Zenon
<1>2. p \in Seq(EpLabels) /\ p # <<>>
  BY <1>1, FamilyPrefix
<1>3. CASE shape = "accountRegional"
  <2>1. host = <<a>> \o (p) \o <<r>> \o <<"amazonaws", "com">>
    BY <1>3 DEF Layout
  <2>2. MeantFor(host, EndpointOf(Families[p], host, r, FALSE, FALSE, FALSE, a))
    BY <1>3, ShapeFlags, MeantAccount, Zenon
  <2>3. FormIs(p, p, FALSE, FALSE, "regional")
    BY <1>1, FormOfShape, Zenon
  <2>4. ~Offers(p, "regionalGlobal")
    BY <1>1, Zenon
  <2>5. Offers(p, IF RegionalForm(p).dual THEN "accountRegionalDualStack" ELSE "accountRegional")
    BY <1>3, <2>3 DEF FormIs
  <2>. QED
    BY <1>1, <2>1, <2>2, <2>3, <2>4, <2>5, AccountNotRefused, Zenon DEF FormIs
<1>4. CASE shape = "accountRegionalDualStack"
  <2>1. host = <<a>> \o (p \o <<"dualstack">>) \o <<r>> \o <<"amazonaws", "com">>
    <3>1. host = <<a>> \o p \o <<"dualstack">> \o <<r>> \o <<"amazonaws", "com">>
      BY <1>4 DEF Layout
    <3>2. PICK w \in EpLabels : w = "dualstack"
      BY Words, Zenon
    <3>3. <<a>> \o (p \o <<w>>) = <<a>> \o p \o <<w>>
      BY <1>2, Words, Regrouped, Zenon
    <3>. QED
      BY <3>1, <3>2, <3>3, Zenon
  <2>2. MeantFor(host, EndpointOf(Families[p], host, r, FALSE, FALSE, TRUE, a))
    BY <1>4, ShapeFlags, MeantAccount, Zenon
  <2>3. FormIs(p \o <<"dualstack">>, p, FALSE, TRUE, "regionalDualStack")
    BY <1>1, FormOfShape, Zenon
  <2>4. ~Offers(p \o <<"dualstack">>, "regionalGlobal")
    <3>1. PICK w \in EpLabels : w = "dualstack"
      BY Words, Zenon
    <3>2. LastLabel(p \o <<w>>) = w
      BY <1>2, LastOf, Zenon
    <3>. QED
      BY <3>1, <3>2, FamilyPrefix, Zenon DEF Offers
  <2>5. Offers(p, IF RegionalForm(p \o <<"dualstack">>).dual THEN "accountRegionalDualStack" ELSE "accountRegional")
    BY <1>4, <2>3 DEF FormIs
  <2>. QED
    BY <1>1, <2>1, <2>2, <2>3, <2>4, <2>5, AccountNotRefused, Zenon DEF FormIs
<1>. QED
  BY <1>3, <1>4 DEF AccountShapes

LEMMA GlobalShapeFound ==
    ASSUME NEW p, NEW shape, NEW r \in EpRegions, NEW a \in EpAccounts, Offers(p, shape),
           NEW host, host = Layout(p, shape, r, a), shape \in {"global", "globalFIPSLabel", "globalFIPSSuffix"}
    PROVE  ClassifyCommercialHost(host) # NoEndpoint
<1>1. p \in DOMAIN Families
  BY DEF Offers
<1>2. p \in Seq(EpLabels) /\ p # <<>>
  BY <1>1, FamilyPrefix
<1>3. CASE shape = "global"
  <2>1. host = p \o <<"amazonaws", "com">>
    BY <1>3 DEF Layout
  <2>2. MeantFor(host, EndpointOf(Families[p], host, "", TRUE, FALSE, FALSE, ""))
    BY <1>3, ShapeFlags, MeantBy, Zenon
  <2>3. p \in Seq(EpLabels) /\ p # <<>> /\ ~FipsFirst(p) /\ ~FipsLast(p)
    BY <1>1, Names, Zenon
  <2>4. BodyOf(host, p)
    BY <2>1, <2>3, Zenon DEF BodyOf
  <2>5. GlobalForm(p) = [prefix |-> p, fips |-> FALSE, shape |-> "global"]
    BY <2>3, Zenon DEF GlobalForm
  <2>6. LET f == GlobalForm(p) IN f.prefix = p /\ f.fips = FALSE /\ f.shape = shape
    BY <1>3, <2>5
  <2>. QED
    BY <1>2, <2>2, <2>3, <2>4, <2>6, GlobalFound, Zenon
<1>4. CASE shape = "globalFIPSLabel"
  <2>1. host = (<<"fips">> \o p) \o <<"amazonaws", "com">>
    BY <1>4 DEF Layout
  <2>2. MeantFor(host, EndpointOf(Families[p], host, "", TRUE, TRUE, FALSE, ""))
    BY <1>4, ShapeFlags, MeantBy, Zenon
  <2>3. (<<"fips">> \o p) \in Seq(EpLabels) /\ (<<"fips">> \o p) # <<>> /\ FipsFirst(<<"fips">> \o p) /\ Tail(<<"fips">> \o p) = p
    BY <1>1, Names, Zenon
  <2>4. BodyOf(host, (<<"fips">> \o p))
    BY <2>1, <2>3, Zenon DEF BodyOf
  <2>5. GlobalForm((<<"fips">> \o p)) = [prefix |-> p, fips |-> TRUE, shape |-> "globalFIPSLabel"]
    BY <2>3, Zenon DEF GlobalForm
  <2>6. LET f == GlobalForm((<<"fips">> \o p)) IN f.prefix = p /\ f.fips = TRUE /\ f.shape = shape
    BY <1>4, <2>5
  <2>. QED
    BY <1>2, <2>2, <2>3, <2>4, <2>6, GlobalFound, Zenon
<1>5. CASE shape = "globalFIPSSuffix"
  <2>1. host = FipsName(p) \o <<"amazonaws", "com">>
    BY <1>5 DEF Layout
  <2>2. MeantFor(host, EndpointOf(Families[p], host, "", TRUE, TRUE, FALSE, ""))
    BY <1>5, ShapeFlags, MeantBy, Zenon
  <2>3. FipsName(p) \in Seq(EpLabels) /\ FipsName(p) # <<>> /\ ~FipsFirst(FipsName(p)) /\ FipsLast(FipsName(p)) /\ TrimFips(FipsName(p)) = p
    BY <1>1, Names, Zenon
  <2>4. BodyOf(host, FipsName(p))
    BY <2>1, <2>3, Zenon DEF BodyOf
  <2>5. GlobalForm(FipsName(p)) = [prefix |-> p, fips |-> TRUE, shape |-> "globalFIPSSuffix"]
    BY <2>3, Zenon DEF GlobalForm
  <2>6. LET f == GlobalForm(FipsName(p)) IN f.prefix = p /\ f.fips = TRUE /\ f.shape = shape
    BY <1>5, <2>5
  <2>. QED
    BY <1>2, <2>2, <2>3, <2>4, <2>6, GlobalFound, Zenon
<1>. QED
  BY <1>3, <1>4, <1>5

(* A regional-looking global host. *)
LEMMA RegionalGlobalFound ==
    ASSUME NEW p, NEW r \in EpRegions, NEW a \in EpAccounts, Offers(p, "regionalGlobal"),
           NEW host, host = Layout(p, "regionalGlobal", r, a)
    PROVE  ClassifyCommercialHost(host) # NoEndpoint
<1>. DEFINE body == p \o <<r>>
            g == ClassifyGlobal(host, body, GlobalForm(body))
            z == ClassifyRegional(host, body, "", RegionalForm(ButLast(body)))
            v == EndpointOf(Families[p], host, "", TRUE, FALSE, FALSE, "")
<1>1. p \in Seq(EpLabels) /\ p # <<>> /\ Head(p) \notin EpAccounts
  BY FamilyPrefix DEF Offers
<1>2. Placed(body, p, r)
  BY <1>1, Words, Place, Zenon
<1>3. host = body \o <<"amazonaws", "com">>
  BY DEF Layout
<1>4. MeantFor(host, v)
  BY ShapeFlags, MeantBy, Zenon
<1>. HIDE DEF body
<1>5. BodyOf(host, body)
  BY <1>2, <1>3, Zenon DEF BodyOf, Placed
<1>6. z = v
  BY <1>2, Zenon DEF ClassifyRegional, Placed
<1>7. ClassifyAmazonAWS(host, body) = FirstEndpoint(g, z)
  BY <1>1, <1>2, Zenon DEF ClassifyAmazonAWS, Placed
<1>8. ClassifyCommercialHost(host) = FirstEndpoint(g, z)
  BY <1>2, <1>5, <1>7, AmazonHost, Zenon DEF Placed
<1>. QED
  BY <1>4, <1>6, <1>8, MeantIsEndpoint, Zenon DEF FirstEndpoint

(* A host under api.aws. *)
LEMMA APIFound ==
    ASSUME NEW r \in EpRegions, NEW t \in Seq(EpLabels), t # <<>>,
           NEW p, p = TrimFips(t), NEW fips, fips = FipsLast(t),
           Offers(p, IF fips THEN "regionalFIPSAPIAWS" ELSE "regionalAPIAWS"),
           NEW host, host = t \o <<r>> \o <<"api", "aws">>,
           MeantFor(host, EndpointOf(Families[p], host, r, FALSE, fips, TRUE, ""))
    PROVE  ClassifyCommercialHost(host) # NoEndpoint
<1>. DEFINE body == t \o <<r>>
<1>1. Placed(body, t, r)
  BY Words, Place, Zenon
<1>2. APIBodyOf(host, body)
  BY <1>1, Zenon DEF APIBodyOf, Placed
<1>. HIDE DEF body
<1>3. ClassifyCommercialHost(host) = ClassifyAPIAWS(host, body)
  BY <1>1, <1>2, APIHost, Zenon DEF Placed
<1>4. body \in Seq(EpLabels) /\ Len(body) >= 2
  <2>1. body \in Seq(EpLabels) /\ ~(Len(body) < 2)
    BY <1>1, Zenon DEF Placed
  <2>. QED
    BY <2>1, NotShort, Zenon
<1>5. ClassifyAPIAWS(host, body) = EndpointOf(Families[p], host, r, FALSE, fips, TRUE, "")
  BY <1>1, <1>4, Zenon DEF ClassifyAPIAWS, Placed
<1>. QED
  BY <1>3, <1>5, MeantIsEndpoint, Zenon

LEMMA APIShapeFound ==
    ASSUME NEW p, NEW shape, NEW r \in EpRegions, NEW a \in EpAccounts, Offers(p, shape),
           NEW host, host = Layout(p, shape, r, a), shape \in {"regionalAPIAWS", "regionalFIPSAPIAWS"}
    PROVE  ClassifyCommercialHost(host) # NoEndpoint
<1>1. p \in DOMAIN Families
  BY DEF Offers
<1>2. CASE shape = "regionalAPIAWS"
  <2>1. host = p \o <<r>> \o <<"api", "aws">>
    BY <1>2 DEF Layout
  <2>2. MeantFor(host, EndpointOf(Families[p], host, r, FALSE, FALSE, TRUE, ""))
    BY <1>2, ShapeFlags, MeantRegional, Zenon
  <2>3. p \in Seq(EpLabels) /\ p # <<>> /\ ~FipsLast(p)
    BY <1>1, Names, Zenon
  <2>4. TrimFips(p) = p /\ FipsLast(p) = FALSE
    BY <2>3 DEF TrimFips, FipsLast
  <2>5. Offers(p, IF FipsLast(p) THEN "regionalFIPSAPIAWS" ELSE "regionalAPIAWS")
    BY <1>2, <2>4
  <2>. QED
    BY <2>1, <2>2, <2>3, <2>4, <2>5, APIFound, Zenon
<1>3. CASE shape = "regionalFIPSAPIAWS"
  <2>1. host = FipsName(p) \o <<r>> \o <<"api", "aws">>
    BY <1>3 DEF Layout
  <2>2. MeantFor(host, EndpointOf(Families[p], host, r, FALSE, TRUE, TRUE, ""))
    BY <1>3, ShapeFlags, MeantRegional, Zenon
  <2>3. FipsName(p) \in Seq(EpLabels) /\ FipsName(p) # <<>> /\ FipsLast(FipsName(p)) /\ TrimFips(FipsName(p)) = p
    BY <1>1, Names, Zenon
  <2>4. TrimFips(FipsName(p)) = p /\ FipsLast(FipsName(p)) = TRUE
    BY <2>3 DEF TrimFips, FipsLast
  <2>5. Offers(p, IF FipsLast(FipsName(p)) THEN "regionalFIPSAPIAWS" ELSE "regionalAPIAWS")
    BY <1>3, <2>4
  <2>. QED
    BY <2>1, <2>2, <2>3, <2>4, <2>5, APIFound, Zenon
<1>. QED
  BY <1>2, <1>3

(* A host that a layout of some family spells is not refused. *)
LEMMA NotRefused ==
    ASSUME NEW e \in Meanings
    PROVE  ClassifyCommercialHost(e.host) # NoEndpoint
<1>1. PICK p \in DOMAIN Families : \E s \in Families[p].shapes, r \in EpRegions, a \in EpAccounts :
        e = Meant(p, s, r, a)
  BY DEF Meanings
<1>11. PICK s \in Families[p].shapes, r \in EpRegions, a \in EpAccounts : e = Meant(p, s, r, a)
  BY <1>1
<1>2. e.host = Layout(p, s, r, a)
  BY <1>11, Zenon DEF Meant, EndpointOf
<1>3. Offers(p, s)
  BY DEF Offers
<1>4. s \in RegionalShapes \cup GlobalShapes \cup FipsShapes \cup AccountShapes
  BY <1>3, FamilyShapes, Zenon
<1>5. \/ s \in {"regional", "regionalFIPS", "regionalFIPSLabel", "regionalDualStack",
                "regionalFIPSDualStack", "regionalFIPSLabelDualStack"}
      \/ s \in AccountShapes
      \/ s \in {"global", "globalFIPSLabel", "globalFIPSSuffix"}
      \/ s = "regionalGlobal"
      \/ s \in {"regionalAPIAWS", "regionalFIPSAPIAWS"}
  BY <1>4 DEF RegionalShapes, GlobalShapes, FipsShapes
<1>. QED
  BY <1>2, <1>3, <1>5, RegionalShapeFound, AccountShapeFound, GlobalShapeFound, RegionalGlobalFound,
     APIShapeFound, Zenon

-----------------------------------------------------------------------------
(* The caches under concurrent callers *)

LEMMA HostLabels ==
    ASSUME NEW a \in UNION EpPools
    PROVE  NormalizeEndpointHost(a).host \in Seq(EpLabels)
<1>. DEFINE fold == [i \in DOMAIN a.labels |-> Folded(a.labels[i])]
<1>1. a.labels \in Seq(EpLabels)
  BY LabelsAssumption, Zenon
<1>2. ASSUME NEW l \in EpLabels PROVE Folded(l) \in EpLabels
  BY DEF Folded, EpLabels, Range
<1>3. fold \in Seq(EpLabels)
  <2>1. PICK n \in Nat : DOMAIN a.labels = 1..n /\ \A i \in 1..n : a.labels[i] \in EpLabels
    BY <1>1
  <2>. QED
    BY <1>2, <2>1
<1>4. NormalizeEndpointHost(a).host = fold \/ NormalizeEndpointHost(a).host = <<>>
  <2>. DEFINE port == IF a.port = -1 THEN 443 ELSE a.port
              valid == /\ a.form = "dns"
                       /\ a.port = -1 \/ a.port \in 1 .. 65535
                       /\ a.root <= 1
                       /\ a.labels # <<>>
                       /\ \A i \in DOMAIN a.labels : a.labels[i] \notin EpBadLabels
  <2>1. NormalizeEndpointHost(a) = IF valid THEN [host |-> fold, port |-> port] ELSE [host |-> <<>>, port |-> 0]
    BY DEF NormalizeEndpointHost
  <2>. HIDE DEF fold, port, valid
  <2>2. PICK z : z = <<>>
    OBVIOUS
  <2>3. NormalizeEndpointHost(a) = [host |-> fold, port |-> port] \/ NormalizeEndpointHost(a) = [host |-> z, port |-> 0]
    BY <2>1, <2>2, Zenon
  <2>4. NormalizeEndpointHost(a).host = fold \/ NormalizeEndpointHost(a).host = z
    <3>1. PICK v : v = NormalizeEndpointHost(a)
      OBVIOUS
    <3>2. v.host = fold \/ v.host = z
      BY <2>3, <3>1
    <3>. QED
      BY <3>1, <3>2, Zenon
  <2>. QED
    BY <2>2, <2>4, Zenon
<1>. HIDE DEF fold
<1>. QED
  BY <1>3, <1>4, NoLabel, Zenon

(* What the classifier says of an authority when nothing is cached. *)
Fresh(a) ==
    IF NormalizeEndpointHost(a).port = 443
    THEN ClassifyCommercialHost(NormalizeEndpointHost(a).host) ELSE NoEndpoint

EpAuthorities == (UNION EpPools) \cup {<<>>}
EpAnswers == Meanings \cup {NoEndpoint}
AskSteps == {"idle", "lookup", "missed", "locking", "locked", "answered"}

(* A caller past Ask has an authority on port 443, and an answered one has what the *)
(* classifier says of its authority.                                                *)
CallerOK(q) ==
    /\ q \in [step : AskSteps, authority : EpAuthorities, answer : EpAnswers]
    /\ q.step # "idle" => q.authority \in UNION EpPools
    /\ q.step \in {"lookup", "missed", "locking", "locked"} => NormalizeEndpointHost(q.authority).port = 443
    /\ q.step = "answered" => q.answer = Fresh(q.authority)

HostNames == Seq(EpLabels)

CacheOK(cache) == CacheOf(cache, HostNames, EpCapacity)

PositiveOK(cache) ==
    /\ CacheOK(cache)
    /\ \A h \in Resident(cache) :
         cache.items[h] = ClassifyCommercialHost(h) /\ ClassifyCommercialHost(h) # NoEndpoint

NegativeOK(cache) ==
    CacheOK(cache) /\ \A h \in Resident(cache) : ClassifyCommercialHost(h) = NoEndpoint

(* Every caller and both caches are as they should be. *)
EpInv ==
    /\ epPool \in EpPools
    /\ callers = [c \in Callers |-> callers[c]] /\ \A c \in Callers : CallerOK(callers[c])
    /\ PositiveOK(positive) /\ NegativeOK(negative)

LEMMA ClassifiedType ==
    ASSUME NEW h \in Seq(EpLabels)
    PROVE  ClassifyCommercialHost(h) \in EpAnswers
BY CommercialSound, Zenon DEF MeantFor, EpAnswers

LEMMA EmptyCache == PositiveOK(EmptyLru) /\ NegativeOK(EmptyLru)
<1>1. EmptyLru.order = <<>> /\ Resident(EmptyLru) = {} /\ EmptyLru.evictions = 0
  BY DEF EmptyLru, Resident
<1>2. <<>> \in Seq(HostNames) /\ Range(<<>>) = {} /\ IsInjective(<<>>) /\ Len(<<>>) = 0
  BY DEF Range, IsInjective
<1>3. CacheOK(EmptyLru)
  BY <1>1, <1>2, EndpointsAssumption DEF CacheOK, CacheOf, ListOf, SoundLru
<1>. QED
  BY <1>1, <1>3 DEF PositiveOK, NegativeOK

LEMMA CacheGet ==
    ASSUME NEW cache, CacheOK(cache), NEW h
    PROVE  /\ CacheOK(LruGet(cache, h)) /\ LruGet(cache, h).items = cache.items
           /\ Resident(LruGet(cache, h)) = Resident(cache)
<1>1. CASE h \in Resident(cache)
  <2>1. /\ ListOf(LruGet(cache, h).order, HostNames) /\ SoundLru(LruGet(cache, h), EpCapacity)
        /\ LruGet(cache, h).items = cache.items /\ LruGet(cache, h).evictions = cache.evictions
    BY <1>1, GetSound DEF CacheOK, CacheOf
  <2>. QED
    BY <2>1 DEF CacheOK, CacheOf, Resident
<1>2. CASE h \notin Resident(cache)
  BY <1>2 DEF LruGet
<1>. QED
  BY <1>1, <1>2

LEMMA CallerMoves ==
    ASSUME EpInv, NEW c \in Callers, NEW q, CallerOK(q), callers' = [callers EXCEPT ![c] = q]
    PROVE  callers' = [d \in Callers |-> callers'[d]] /\ \A d \in Callers : CallerOK(callers'[d])
<1>1. DOMAIN callers = Callers
  BY DEF EpInv
<1>2. DOMAIN callers' = Callers /\ \A d \in Callers : callers'[d] = IF d = c THEN q ELSE callers[d]
  BY <1>1
<1>3. callers' = [d \in Callers |-> callers'[d]]
  BY <1>1, Zenon
<1>. QED
  BY <1>2, <1>3 DEF EpInv

LEMMA IdleCaller ==
    Idle \in [step : AskSteps, authority : EpAuthorities, answer : EpAnswers] /\ Idle.step = "idle" /\ Idle.answer = NoEndpoint
<1>1. PICK z : z = <<>>
  OBVIOUS
<1>2. Idle = [step |-> "idle", authority |-> z, answer |-> NoEndpoint]
  BY <1>1, Zenon DEF Idle
<1>3. "idle" \in AskSteps /\ z \in EpAuthorities /\ NoEndpoint \in EpAnswers
  BY <1>1, Zenon DEF AskSteps, EpAuthorities, EpAnswers
<1>. QED
  BY <1>2, <1>3

(* The records of a caller that has asked, and of one that is answered. *)
LEMMA AskedRecord ==
    ASSUME NEW S, NEW A, NEW W, NEW x \in S, NEW y \in A, NEW v \in [step : S, authority : A, answer : W],
           NEW q, q = [v EXCEPT !.step = x, !.authority = y]
    PROVE  q \in [step : S, authority : A, answer : W] /\ q.step = x /\ q.authority = y /\ q.answer = v.answer
BY Zenon

LEMMA AnsweredRecord ==
    ASSUME NEW S, NEW A, NEW W, NEW x \in S, NEW y \in W, NEW v \in [step : S, authority : A, answer : W],
           NEW q, q = [v EXCEPT !.step = x, !.answer = y]
    PROVE  q \in [step : S, authority : A, answer : W] /\ q.step = x /\ q.authority = v.authority /\ q.answer = y
BY Zenon

LEMMA AskStep == ASSUME EpInv, NEW c \in Callers, Ask(c) PROVE EpInv'
<1>1. PICK a \in epPool : callers' = [callers EXCEPT ![c] = [Idle EXCEPT !.step =
                     IF NormalizeEndpointHost(a).port = 443 THEN "lookup" ELSE "answered",
                     !.authority = a]]
  BY Zenon DEF Ask
<1>. DEFINE s == IF NormalizeEndpointHost(a).port = 443 THEN "lookup" ELSE "answered"
            q == [Idle EXCEPT !.step = s, !.authority = a]
<1>2. callers' = [callers EXCEPT ![c] = q]
  BY <1>1
<1>3. a \in UNION EpPools
  BY DEF EpInv
<1>4. CallerOK(q)
  <2>1. s \in AskSteps /\ s # "idle" /\ (s = "answered" <=> NormalizeEndpointHost(a).port # 443)
           /\ (s \in {"lookup", "missed", "locking", "locked"} <=> NormalizeEndpointHost(a).port = 443)
    BY DEF AskSteps
  <2>. HIDE DEF s
  <2>2. a \in EpAuthorities
    BY <1>3 DEF EpAuthorities
  <2>3. /\ q \in [step : AskSteps, authority : EpAuthorities, answer : EpAnswers]
        /\ q.step = s /\ q.authority = a /\ q.answer = NoEndpoint
    BY <2>1, <2>2, IdleCaller, AskedRecord, Zenon
  <2>. HIDE DEF q
  <2>. QED
    BY <1>3, <2>1, <2>3 DEF CallerOK, Fresh
<1>. HIDE DEF q
<1>5. callers' = [d \in Callers |-> callers'[d]] /\ \A d \in Callers : CallerOK(callers'[d])
  BY <1>2, <1>4, CallerMoves, Zenon
<1>. QED
  BY <1>5 DEF EpInv, Ask

(* A caller that goes on, and one that is answered. *)
LEMMA GoesOn ==
    ASSUME EpInv, NEW c \in Callers, callers[c].step \in {"lookup", "missed", "locking"},
           NEW s \in {"missed", "locking", "locked"}, callers' = [callers EXCEPT ![c].step = s]
    PROVE  callers' = [d \in Callers |-> callers'[d]] /\ \A d \in Callers : CallerOK(callers'[d])
<1>. DEFINE q == [callers[c] EXCEPT !.step = s]
<1>1. CallerOK(callers[c])
  BY DEF EpInv
<1>2. CallerOK(q)
  BY <1>1 DEF CallerOK, AskSteps
<1>3. callers' = [callers EXCEPT ![c] = q]
  OBVIOUS
<1>. HIDE DEF q
<1>. QED
  BY <1>2, <1>3, CallerMoves, Zenon

LEMMA IsAnswered ==
    ASSUME EpInv, NEW c \in Callers, callers[c].step \in {"lookup", "missed", "locked"},
           NEW e, e = ClassifyCommercialHost(HostOf(c)), Answer(c, e)
    PROVE  callers' = [d \in Callers |-> callers'[d]] /\ \A d \in Callers : CallerOK(callers'[d])
<1>. DEFINE q == [callers[c] EXCEPT !.step = "answered", !.answer = e]
<1>1. CallerOK(callers[c])
  BY DEF EpInv
<1>2. callers[c].authority \in UNION EpPools /\ NormalizeEndpointHost(callers[c].authority).port = 443
  BY <1>1 DEF CallerOK
<1>3. e = Fresh(callers[c].authority)
  BY <1>2 DEF Fresh, HostOf
<1>4. /\ q \in [step : AskSteps, authority : EpAuthorities, answer : EpAnswers]
      /\ q.step = "answered" /\ q.authority = callers[c].authority /\ q.answer = e
  <2>1. e \in EpAnswers
    BY <1>2, HostLabels, ClassifiedType DEF HostOf
  <2>2. "answered" \in AskSteps /\ callers[c] \in [step : AskSteps, authority : EpAuthorities, answer : EpAnswers]
    BY <1>1 DEF CallerOK, AskSteps
  <2>. QED
    BY <2>1, <2>2, AnsweredRecord, Zenon
<1>5. CallerOK(q)
  <2>. HIDE DEF q
  <2>. QED
    BY <1>2, <1>3, <1>4 DEF CallerOK, AskSteps
<1>6. callers' = [callers EXCEPT ![c] = q]
  BY Zenon DEF Answer
<1>. HIDE DEF q
<1>. QED
  BY <1>5, <1>6, CallerMoves, Zenon

LEMMA LookupPositiveStep == ASSUME EpInv, NEW c \in Callers, LookupPositive(c) PROVE EpInv'
<1>1. callers[c].step = "lookup" /\ PositiveOK(positive)
  BY DEF LookupPositive, EpInv
<1>2. PositiveOK(positive')
  BY <1>1, CacheGet DEF LookupPositive, PositiveOK
<1>3. callers' = [d \in Callers |-> callers'[d]] /\ \A d \in Callers : CallerOK(callers'[d])
  <2>1. CASE HostOf(c) \in Resident(positive)
    <3>1. Answer(c, positive.items[HostOf(c)])
      BY <2>1 DEF LookupPositive
    <3>2. positive.items[HostOf(c)] = ClassifyCommercialHost(HostOf(c))
      BY <1>1, <2>1 DEF PositiveOK
    <3>. QED
      BY <1>1, <3>1, <3>2, IsAnswered
  <2>2. CASE HostOf(c) \notin Resident(positive)
    <3>1. callers' = [callers EXCEPT ![c].step = "missed"]
      BY <2>2 DEF LookupPositive
    <3>. QED
      BY <1>1, <3>1, GoesOn, Zenon
  <2>. QED
    BY <2>1, <2>2
<1>. QED
  BY <1>2, <1>3 DEF EpInv, LookupPositive

LEMMA LookupNegativeStep == ASSUME EpInv, NEW c \in Callers, LookupNegative(c) PROVE EpInv'
<1>1. callers[c].step = "missed" /\ NegativeOK(negative)
  BY DEF LookupNegative, EpInv
<1>2. NegativeOK(negative')
  BY <1>1, CacheGet DEF LookupNegative, NegativeOK
<1>3. callers' = [d \in Callers |-> callers'[d]] /\ \A d \in Callers : CallerOK(callers'[d])
  <2>1. CASE HostOf(c) \in Resident(negative)
    <3>1. Answer(c, NoEndpoint)
      BY <2>1 DEF LookupNegative
    <3>2. NoEndpoint = ClassifyCommercialHost(HostOf(c))
      BY <1>1, <2>1 DEF NegativeOK
    <3>. QED
      BY <1>1, <3>1, <3>2, IsAnswered
  <2>2. CASE HostOf(c) \notin Resident(negative)
    <3>1. callers' = [callers EXCEPT ![c].step = "locking"]
      BY <2>2 DEF LookupNegative
    <3>. QED
      BY <1>1, <3>1, GoesOn, Zenon
  <2>. QED
    BY <2>1, <2>2
<1>. QED
  BY <1>2, <1>3 DEF EpInv, LookupNegative

LEMMA LockMissStep == ASSUME EpInv, NEW c \in Callers, LockMiss(c) PROVE EpInv'
<1>1. callers[c].step = "locking" /\ callers' = [callers EXCEPT ![c].step = "locked"]
  BY DEF LockMiss
<1>2. callers' = [d \in Callers |-> callers'[d]] /\ \A d \in Callers : CallerOK(callers'[d])
  BY <1>1, GoesOn, Zenon
<1>. QED
  BY <1>2 DEF EpInv, LockMiss

LEMMA CacheAdd ==
    ASSUME NEW cache, CacheOK(cache), NEW h \in HostNames, h \notin Resident(cache), NEW e
    PROVE  CacheOK(LruAdd(cache, h, e, EpCapacity)) /\ Added(cache, LruAdd(cache, h, e, EpCapacity), h, e)
BY EndpointsAssumption, AddedCache, Zenon DEF CacheOK

LEMMA ClassifyMissStep == ASSUME EpInv, NEW c \in Callers, ClassifyMiss(c) PROVE EpInv'
<1>. DEFINE h == HostOf(c)
            e == ClassifyCommercialHost(h)
            Callers1 == callers' = [d \in Callers |-> callers'[d]] /\ \A d \in Callers : CallerOK(callers'[d])
<1>1. callers[c].step = "locked" /\ PositiveOK(positive) /\ NegativeOK(negative) /\ epPool' \in EpPools
  BY DEF ClassifyMiss, EpInv
<1>2. h \in HostNames
  <2>1. CallerOK(callers[c])
    BY DEF EpInv
  <2>2. callers[c].authority \in UNION EpPools
    BY <1>1, <2>1 DEF CallerOK
  <2>. QED
    BY <2>2, HostLabels DEF HostOf, HostNames
<1>3. \/ /\ h \in Resident(positive)
         /\ positive' = LruGet(positive, h) /\ UNCHANGED negative
         /\ Answer(c, positive.items[h])
      \/ /\ h \notin Resident(positive) /\ h \in Resident(negative)
         /\ negative' = LruGet(negative, h) /\ UNCHANGED positive
         /\ Answer(c, NoEndpoint)
      \/ /\ h \notin Resident(positive) \cup Resident(negative)
         /\ Answer(c, e)
         /\ IF e = NoEndpoint
            THEN negative' = LruAdd(negative, h, e, EpCapacity) /\ UNCHANGED positive
            ELSE positive' = LruAdd(positive, h, e, EpCapacity) /\ UNCHANGED negative
  BY Zenon DEF ClassifyMiss
<1>4. ASSUME Answer(c, e) PROVE Callers1
  BY <1>1, <1>4, IsAnswered
<1>. HIDE DEF h, e, Callers1
<1>5. CASE h \in Resident(positive)
  <2>1. positive.items[h] = e
    BY <1>1, <1>5 DEF PositiveOK, e
  <2>2. Callers1
    BY <1>3, <1>4, <1>5, <2>1
  <2>3. PositiveOK(positive') /\ negative' = negative
    BY <1>1, <1>3, <1>5, CacheGet, Zenon DEF PositiveOK
  <2>. QED
    BY <1>1, <2>2, <2>3 DEF EpInv, Callers1
<1>6. CASE h \notin Resident(positive) /\ h \in Resident(negative)
  <2>1. e = NoEndpoint
    BY <1>1, <1>6, Zenon DEF NegativeOK, e
  <2>2. Callers1
    BY <1>3, <1>4, <1>6, <2>1
  <2>3. NegativeOK(negative') /\ positive' = positive
    BY <1>1, <1>3, <1>6, CacheGet, Zenon DEF NegativeOK
  <2>. QED
    BY <1>1, <2>2, <2>3 DEF EpInv, Callers1
<1>7. CASE h \notin Resident(positive) /\ h \notin Resident(negative) /\ e = NoEndpoint
  <2>1. Callers1 /\ negative' = LruAdd(negative, h, e, EpCapacity) /\ positive' = positive
    BY <1>3, <1>4, <1>7
  <2>2. CacheOK(negative') /\ Added(negative, negative', h, e)
    BY <1>1, <1>2, <1>7, <2>1, CacheAdd, Zenon DEF NegativeOK
  <2>3. NegativeOK(negative')
    BY <1>1, <1>7, <2>2, Zenon DEF NegativeOK, Added, e
  <2>. QED
    BY <1>1, <2>1, <2>3 DEF EpInv, Callers1
<1>8. CASE h \notin Resident(positive) /\ h \notin Resident(negative) /\ e # NoEndpoint
  <2>1. Callers1 /\ positive' = LruAdd(positive, h, e, EpCapacity) /\ negative' = negative
    BY <1>3, <1>4, <1>8
  <2>2. CacheOK(positive') /\ Added(positive, positive', h, e)
    BY <1>1, <1>2, <1>8, <2>1, CacheAdd, Zenon DEF PositiveOK
  <2>3. PositiveOK(positive')
    BY <1>1, <1>8, <2>2 DEF PositiveOK, Added, e
  <2>. QED
    BY <1>1, <2>1, <2>3 DEF EpInv, Callers1
<1>. QED
  BY <1>3, <1>5, <1>6, <1>7, <1>8

LEMMA EpInitInv == EpInit => EpInv
<1>1. CallerOK(Idle)
  BY IdleCaller DEF CallerOK
<1>. QED
  BY <1>1, EmptyCache DEF EpInit, EpInv

LEMMA EpNextInv == EpInv /\ [EpNext]_epVars => EpInv'
<1>1. ASSUME EpInv, EpNext PROVE EpInv'
  BY <1>1, AskStep, LookupPositiveStep, LookupNegativeStep, LockMissStep, ClassifyMissStep DEF EpNext
<1>2. ASSUME EpInv, UNCHANGED epVars PROVE EpInv'
  BY <1>2 DEF EpInv, epVars
<1>. QED
  BY <1>1, <1>2

LEMMA MeantGlobal == ASSUME NEW e \in Meanings PROVE e.global \in BOOLEAN
<1>1. PICK p \in DOMAIN Families : \E s \in Families[p].shapes, r \in EpRegions, a \in EpAccounts :
        e = Meant(p, s, r, a)
  BY DEF Meanings
<1>2. PICK s \in Families[p].shapes, r \in EpRegions, a \in EpAccounts : e = Meant(p, s, r, a)
  BY <1>1
<1>3. e.global = (s \in GlobalShapes)
  BY <1>2, Zenon DEF Meant, EndpointOf
<1>4. (s \in GlobalShapes) \in BOOLEAN
  OBVIOUS
<1>. QED
  BY <1>3, <1>4, Zenon

LEMMA LooksLike ==
    ASSUME NEW a, NormalizeEndpointHost(a).host \in Seq(EpLabels), EndsLikeAWS(NormalizeEndpointHost(a).host)
    PROVE  LooksLikeAWSHost(a)
<1>. DEFINE h == NormalizeEndpointHost(a).host
            n == Len(h)
<1>1. n \in Nat /\ n >= 3
  <2>1. h \in Seq(EpLabels) /\ Len(h) >= 3
    BY Zenon DEF EndsLikeAWS
  <2>. HIDE DEF h
  <2>. QED
    BY <2>1
<1>2. \/ h[n - 1] = "amazonaws" /\ h[n] = "com"
      \/ h[n - 1] = "api" /\ h[n] = "aws"
  BY DEF EndsLikeAWS
<1>3. LooksLikeAWSHost(a) <=> \/ \E i \in 1 .. n - 1 : h[i] = "amazonaws" /\ h[i + 1] = "com"
                              \/ n >= 2 /\ h[n - 1] = "api" /\ h[n] = "aws"
  BY Zenon DEF LooksLikeAWSHost
<1>. HIDE DEF h
<1>4. n - 1 \in 1 .. n - 1 /\ (n - 1) + 1 = n /\ n >= 2
  BY <1>1
<1>. HIDE DEF n
<1>. QED
  BY <1>2, <1>3, <1>4

(* What the classifier says is what the layouts mean. *)
LEMMA FreshIsMeant ==
    ASSUME NEW c, callers[c].authority \in UNION EpPools, callers[c].answer = Fresh(callers[c].authority)
    PROVE  AnswerIsMeant(c)
<1>. DEFINE a == callers[c].authority
            n == NormalizeEndpointHost(a)
            meant == {e \in Meanings : e.host = n.host}
            answer == callers[c].answer
<1>1. SUFFICES IF n.port # 443 \/ meant = {} THEN answer = NoEndpoint
               ELSE /\ answer \in meant
                    /\ answer.global \/ answer.signingRegion = answer.region
                    /\ LooksLikeAWSHost(a)
  BY Zenon DEF AnswerIsMeant
<1>2. CASE n.port # 443
  BY <1>2 DEF Fresh
<1>3. CASE n.port = 443
  <2>1. n.host \in Seq(EpLabels)
    BY HostLabels
  <2>2. answer = ClassifyCommercialHost(n.host)
    BY <1>3 DEF Fresh
  <2>. HIDE DEF n, answer
  <2>3. CASE answer = NoEndpoint
    <3>1. meant = {}
      BY <2>2, <2>3, NotRefused, Zenon
    <3>. QED
      BY <2>3, <3>1
  <2>4. CASE answer # NoEndpoint
    <3>1. MeantFor(n.host, answer) /\ EndsLikeAWS(n.host)
      BY <2>1, <2>2, <2>4, CommercialSound
    <3>2. answer \in meant
      BY <3>1 DEF MeantFor
    <3>3. answer.global \/ answer.signingRegion = answer.region
      <4>1. answer.global \in BOOLEAN
        BY <3>2, MeantGlobal
      <4>. QED
        BY <3>1, <4>1 DEF MeantFor
    <3>4. LooksLikeAWSHost(a)
      BY <2>1, <3>1, LooksLike DEF n
    <3>. QED
      BY <1>3, <3>2, <3>3, <3>4
  <2>. QED
    BY <2>3, <2>4
<1>. QED
  BY <1>2, <1>3, Zenon

LEMMA EpInvRight == EpInv => ClassificationIsRight
<1>. SUFFICES ASSUME EpInv PROVE ClassificationIsRight
  OBVIOUS
<1>1. ASSUME NEW c \in Callers, callers[c].step = "answered" PROVE AnswerIsMeant(c)
  <2>1. CallerOK(callers[c])
    BY DEF EpInv
  <2>2. callers[c].authority \in UNION EpPools /\ callers[c].answer = Fresh(callers[c].authority)
    BY <1>1, <2>1 DEF CallerOK
  <2>. QED
    BY <2>2, FreshIsMeant
<1>2. Resident(positive) \cap Resident(negative) = {}
  BY DEF EpInv, PositiveOK, NegativeOK
<1>. QED
  BY <1>1, <1>2 DEF ClassificationIsRight, EpInv, PositiveOK, NegativeOK, CacheOK, CacheOf

(* Whatever the catalogue's services, their overrides, the regions, the spellings and  *)
(* the authorities asked for, and however any number of callers interleave, the        *)
(* classifier and its two caches give every caller what the layouts of the families    *)
(* mean: it refuses exactly the hosts no layout spells, a regional host signs in its   *)
(* own region, and a cached answer is the one a fresh classification gives.  The       *)
(* prefixes are read apart as PrefixAssumption says.                                   *)
THEOREM EndpointsRight == EpSpec => []ClassificationIsRight
<1>1. EpSpec => []EpInv
  BY EpInitInv, EpNextInv, PTL DEF EpSpec
<1>. QED
  BY <1>1, EpInvRight, PTL
=============================================================================
