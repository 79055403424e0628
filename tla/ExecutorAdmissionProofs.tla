----------------------- MODULE ExecutorAdmissionProofs -----------------------
(***************************************************************************)
(* Proofs about ExecutorAdmission, for every number of requests, slots,    *)
(* queue places and for every timeout.                                     *)
(***************************************************************************)
EXTENDS ExecutorAdmission, FiniteSetTheorems, WellFoundedInduction, TLAPS

\* What every method of the controller keeps: the slot count is exact, the
\* waiters hold distinct places, and the outcome recorded for a request says
\* whether it queues or has been granted a lease.
Sound(c) ==
    /\ c \in Controller
    /\ c.active = Cardinality(c.leases)
    /\ c.active <= Concurrency
    /\ \A w \in c.waiters : c.outcome[w] = "none" /\ c.place[w] < c.totals.queued
    /\ \A v, w \in c.waiters : c.place[v] = c.place[w] => v = w
    /\ \A r \in c.leases : c.outcome[r] = "granted"

\* Nobody queues beside a free slot.
Busy(c) == c.waiters # {} => ~c.closed /\ c.active = Concurrency

\* What a method may do to the requests it is not called for.
Advances(c, d) ==
    /\ d.closed = c.closed
    /\ d.waiters \subseteq c.waiters
    /\ d.leases \subseteq c.leases \cup c.waiters
    /\ d.totals.queued = c.totals.queued
    /\ d.place = c.place
    /\ \A r \in Requests \ c.waiters : d.outcome[r] = c.outcome[r]
    /\ \A r \in c.waiters \ d.waiters : d.outcome[r] # "none"
    /\ \A r \in d.leases \ c.leases : d.outcome[r] = "granted"
    /\ \A r \in c.waiters : d.outcome[r] = "granted" => r \in d.leases

\* Who is granted a slot was queued before whoever stays queued.
InOrder(c, d) ==
    \A r \in d.leases \ c.leases, w \in c.waiters \cap d.waiters : r \in c.waiters /\ c.place[r] < c.place[w]

\* Every set of requests is finite.
LEMMA FiniteRequests ==
    ASSUME NEW S \in SUBSET Requests
    PROVE  IsFiniteSet(S) /\ Cardinality(S) \in Nat
BY RequestsFinite, FS_Subset, FS_CardinalityType

\* Removing a subset takes exactly its cardinality away.
LEMMA CardinalityMinus ==
    ASSUME NEW S \in SUBSET Requests, NEW T \in SUBSET S
    PROVE  Cardinality(S \ T) = Cardinality(S) - Cardinality(T)
<1>1. IsFiniteSet(T) /\ IsFiniteSet(S \ T) /\ IsFiniteSet(S)
    BY FiniteRequests
<1>2. Cardinality(T \cup (S \ T)) = Cardinality(T) + Cardinality(S \ T) - Cardinality(T \cap (S \ T))
    BY <1>1, FS_Union
<1>3. T \cup (S \ T) = S /\ T \cap (S \ T) = {}
    OBVIOUS
<1>4. Cardinality(T) \in Nat /\ Cardinality(S \ T) \in Nat
    BY FiniteRequests
<1>5. Cardinality(T \cap (S \ T)) = 0
    BY <1>3, FS_EmptySet
<1>6. Cardinality(T \cup (S \ T)) = Cardinality(S)
    BY <1>3
<1>7. Cardinality(S) \in Nat
    BY FiniteRequests
<1> QED BY <1>2, <1>4, <1>5, <1>6, <1>7

\* Disjoint sets of requests add up.
LEMMA CardinalityPlus ==
    ASSUME NEW S \in SUBSET Requests, NEW T \in SUBSET Requests, S \cap T = {}
    PROVE  Cardinality(S \cup T) = Cardinality(S) + Cardinality(T)
<1>1. IsFiniteSet(T) /\ IsFiniteSet(S)
    BY FiniteRequests
<1>2. Cardinality(S \cup T) = Cardinality(S) + Cardinality(T) - Cardinality(S \cap T)
    BY <1>1, FS_Union
<1>3. Cardinality(S) \in Nat /\ Cardinality(T) \in Nat
    BY FiniteRequests
<1> QED BY <1>2, <1>3, FS_EmptySet

-----------------------------------------------------------------------------
(* The waiters served. *)

\* The waiters ahead of one another nest, strictly when their places differ.
LEMMA AheadNests ==
    ASSUME NEW c, Sound(c), NEW v \in c.waiters, NEW w \in c.waiters,
           c.place[v] < c.place[w]
    PROVE  Cardinality(Ahead(c, v)) < Cardinality(Ahead(c, w))
<1>1. c.place \in [Requests -> Nat] /\ c.waiters \subseteq Requests
    BY DEF Sound, Controller
<1>2. Ahead(c, v) \subseteq Ahead(c, w) /\ v \in Ahead(c, w) /\ v \notin Ahead(c, v)
    BY <1>1 DEF Ahead
<1>3. Ahead(c, v) \in SUBSET Requests /\ Ahead(c, w) \in SUBSET Requests
    BY <1>1 DEF Ahead
<1>4. Cardinality(Ahead(c, v)) <= Cardinality(Ahead(c, w))
    BY <1>2, <1>3, FiniteRequests, FS_Subset
<1>5. Cardinality(Ahead(c, v)) # Cardinality(Ahead(c, w))
    BY <1>2, <1>3, FiniteRequests, FS_Subset
<1> QED BY <1>3, <1>4, <1>5, FiniteRequests

\* fillSlots never hands out more slots than are free: the served waiters have
\* distinct numbers of waiters ahead of them, all below the free slots.
LEMMA ServedFits ==
    ASSUME NEW c, Sound(c)
    PROVE  /\ Served(c) \subseteq c.waiters
           /\ c.active + Cardinality(Served(c)) <= Concurrency
<1> DEFINE free == Concurrency - c.active
           f == [w \in Served(c) |-> Cardinality(Ahead(c, w))]
<1>0. /\ c.waiters \subseteq Requests
      /\ c.place \in [Requests -> Nat]
      /\ c.active \in Nat
      /\ free \in Nat
    BY ConcurrencyPositive DEF Sound, Controller
<1>1. Served(c) \subseteq c.waiters
    BY DEF Served
<1>2. \A w \in Served(c) : Cardinality(Ahead(c, w)) \in 0 .. free - 1
    <2> SUFFICES ASSUME NEW w \in Served(c) PROVE Cardinality(Ahead(c, w)) \in 0 .. free - 1
        OBVIOUS
    <2>1. Cardinality(Ahead(c, w)) \in Nat
        BY <1>0, FiniteRequests DEF Ahead
    <2>2. c.active + Cardinality(Ahead(c, w)) < Concurrency
        BY DEF Served
    <2> QED BY <1>0, <2>1, <2>2, ConcurrencyPositive
<1>3. \A v, w \in Served(c) : f[v] = f[w] => v = w
    <2> SUFFICES ASSUME NEW v \in Served(c), NEW w \in Served(c), f[v] = f[w], v # w
                 PROVE  FALSE
        OBVIOUS
    <2>1. c.place[v] # c.place[w]
        BY <1>1 DEF Sound
    <2>2. c.place[v] < c.place[w] \/ c.place[w] < c.place[v]
        BY <1>0, <1>1, <2>1
    <2>3. Cardinality(Ahead(c, v)) \in Nat /\ Cardinality(Ahead(c, w)) \in Nat
        BY <1>0, FiniteRequests DEF Ahead
    <2> QED BY <1>1, <2>2, <2>3, AheadNests
<1>4. f \in Injection(Served(c), 0 .. free - 1)
    BY <1>2, <1>3 DEF Injection, IsInjective
<1>5. IsFiniteSet(0 .. free - 1) /\ Cardinality(0 .. free - 1) = free
    <2> DEFINE last == free - 1
    <2>1. last \in Int /\ 0 \in Int /\ (0 > last <=> free = 0) /\ last - 0 + 1 = free
        BY <1>0
    <2> HIDE DEF last
    <2>2. IsFiniteSet(0 .. last) /\ Cardinality(0 .. last) = IF 0 > last THEN 0 ELSE last - 0 + 1
        BY <2>1, FS_Interval
    <2>3. Cardinality(0 .. last) = free
        BY <2>1, <2>2
    <2> USE DEF last
    <2> QED BY <2>2, <2>3
<1>6. Cardinality(Served(c)) <= free
    <2> HIDE DEF f
    <2> QED BY <1>4, <1>5, FS_Injection
<1>7. Cardinality(Served(c)) \in Nat
    BY <1>0, <1>1, FiniteRequests
<1> QED BY <1>0, <1>1, <1>6, <1>7, ConcurrencyPositive

\* Of some requests, one is the first by any measure.
LEMMA Earliest ==
    ASSUME NEW x \in [Requests -> Nat], NEW S \in SUBSET Requests, S # {}
    PROVE  \E l \in S : \A m \in S : x[l] <= x[m]
<1> DEFINE T == {x[l] : l \in S}
<1>1. T \subseteq Nat /\ T # {}
    OBVIOUS
<1>2. PICK e \in T : \A n \in T : ~ (<<n, e>> \in OpToRel(<, Nat))
    <2> HIDE DEF T
    <2> QED BY <1>1, NatLessThanWellFounded, WFMin
<1>3. \A n \in T : ~ (n < e)
    BY <1>1, <1>2 DEF OpToRel
<1>4. PICK l \in S : e = x[l]
    OBVIOUS
<1>5. \A m \in S : x[m] \in T
    OBVIOUS
<1>6. \A m \in S : ~ (x[m] < x[l])
    BY <1>3, <1>4, <1>5
<1> QED BY <1>6

\* A set of waiters, if not empty, has a first one.
LEMMA FirstWaiter ==
    ASSUME NEW c, Sound(c), NEW S \in SUBSET c.waiters, S # {}
    PROVE  \E w \in S : \A v \in S : c.place[w] <= c.place[v]
<1>1. c.place \in [Requests -> Nat] /\ S \in SUBSET Requests
    BY DEF Sound, Controller
<1> QED BY <1>1, Earliest

\* fillSlots passes nobody over: the waiters it serves are the first ones.
LEMMA ServedFirst ==
    ASSUME NEW c, Sound(c), NEW v \in Served(c), NEW w \in c.waiters \ Served(c)
    PROVE  c.place[v] < c.place[w]
<1>0. /\ c.waiters \subseteq Requests /\ c.place \in [Requests -> Nat] /\ c.active \in Nat
      /\ v \in c.waiters /\ v # w
    BY DEF Sound, Controller, Served
<1>1. c.place[v] # c.place[w] /\ c.place[v] \in Nat /\ c.place[w] \in Nat
    BY <1>0 DEF Sound
<1>2. CASE c.place[w] < c.place[v]
    <2>1. Cardinality(Ahead(c, w)) < Cardinality(Ahead(c, v))
        BY <1>0, <1>2, AheadNests
    <2>2. Cardinality(Ahead(c, v)) \in Nat /\ Cardinality(Ahead(c, w)) \in Nat
        BY <1>0, FiniteRequests DEF Ahead
    <2>3. c.active + Cardinality(Ahead(c, v)) < Concurrency
        BY DEF Served
    <2>4. c.active + Cardinality(Ahead(c, w)) < Concurrency
        BY <1>0, <2>1, <2>2, <2>3, ConcurrencyPositive
    <2> QED BY <2>4 DEF Served
<1> QED BY <1>1, <1>2

\* fillSlots leaves a waiter behind only when every slot is taken.
LEMMA ServedFills ==
    ASSUME NEW c, Sound(c), c.waiters \ Served(c) # {}
    PROVE  c.active + Cardinality(Served(c)) = Concurrency
<1>0. /\ c.waiters \subseteq Requests
      /\ c.place \in [Requests -> Nat]
      /\ c.active \in Nat
    BY DEF Sound, Controller
<1>1. PICK w \in c.waiters \ Served(c) : \A v \in c.waiters \ Served(c) : c.place[w] <= c.place[v]
    BY FirstWaiter
<1>2. Ahead(c, w) \subseteq Served(c)
    BY <1>0, <1>1 DEF Ahead
<1>3. Served(c) \in SUBSET Requests
    BY <1>0 DEF Served
<1>4. Cardinality(Ahead(c, w)) <= Cardinality(Served(c))
    BY <1>2, <1>3, FiniteRequests, FS_Subset
<1>5. ~ (c.active + Cardinality(Ahead(c, w)) < Concurrency)
    BY <1>1 DEF Served
<1>6. Cardinality(Ahead(c, w)) \in Nat /\ Cardinality(Served(c)) \in Nat
    BY <1>0, <1>3, FiniteRequests DEF Ahead
<1>7. c.active + Cardinality(Served(c)) <= Concurrency
    BY ServedFits
<1> QED BY <1>0, <1>4, <1>5, <1>6, <1>7, ConcurrencyPositive

-----------------------------------------------------------------------------
(* The controller's methods. *)

\* Two methods in a row, the first of which grants nothing, advance.
LEMMA AdvancesTwice ==
    ASSUME NEW c, NEW e, NEW d, Sound(c), Sound(e), Sound(d), Advances(c, e), Advances(e, d),
           e.leases \subseteq c.leases
    PROVE  Advances(c, d)
<1>1. c.waiters \subseteq Requests /\ e.waiters \subseteq Requests
    BY DEF Sound, Controller
<1>2. \A r \in Requests \ c.waiters : d.outcome[r] = c.outcome[r]
    BY DEF Advances
<1>3. \A r \in c.waiters \ d.waiters : d.outcome[r] # "none"
    BY <1>1 DEF Advances
<1>4. \A r \in c.waiters : d.outcome[r] = "granted" => r \in d.leases
    <2> SUFFICES ASSUME NEW r \in c.waiters, d.outcome[r] = "granted" PROVE r \in d.leases
        OBVIOUS
    <2>1. r \notin c.leases
        BY DEF Sound
    <2>2. CASE r \in e.waiters
        BY <2>2 DEF Advances
    <2>3. CASE r \notin e.waiters
        BY <1>1, <2>1, <2>3 DEF Advances
    <2> QED BY <2>2, <2>3
<1> QED BY <1>2, <1>3, <1>4 DEF Advances, Sound

\* pruneExpiredWaiters() touches the queue, its outcomes and a counter only.
LEMMA PruneTyped ==
    ASSUME NEW c \in Controller
    PROVE  LET d == PruneExpiredWaiters(c)
           IN  d \in Controller /\ d.leases = c.leases /\ d.expiresAt = c.expiresAt
<1> DEFINE gone == ExpiredWaiters(c)
           d == PruneExpiredWaiters(c)
           o == [r \in Requests |-> IF r \in gone THEN "overloaded" ELSE c.outcome[r]]
           t == [c.totals EXCEPT !.rejected = @ + Cardinality(gone)]
<1>1. Cardinality(gone) \in Nat
    BY FiniteRequests DEF ExpiredWaiters, Controller
<1>2. o \in [Requests -> Outcome]
    BY DEF Controller, Outcome
<1>3. t \in Totals
    BY <1>1 DEF Controller, Totals
<1>4. d = [c EXCEPT !.waiters = @ \ gone, !.outcome = o, !.totals = t]
    BY DEF PruneExpiredWaiters, Controller
<1> HIDE DEF o, t, d
<1>5. d \in Controller
    BY <1>2, <1>3, <1>4 DEF Controller
<1>6. d.leases = c.leases /\ d.expiresAt = c.expiresAt
    BY <1>4 DEF Controller
<1> QED BY <1>5, <1>6 DEF d

\* pruneExpiredWaiters() takes nobody's slot and grants none.
LEMMA PruneSound ==
    ASSUME NEW c, Sound(c), now \in Nat
    PROVE  LET d == PruneExpiredWaiters(c)
           IN  Sound(d) /\ Advances(c, d) /\ d.active = c.active /\ d.leases = c.leases
<1> DEFINE gone == ExpiredWaiters(c)
           d == PruneExpiredWaiters(c)
<1>1. gone \subseteq c.waiters /\ c \in Controller /\ c.waiters \subseteq Requests
    BY DEF ExpiredWaiters, Sound, Controller
<1>2. Cardinality(gone) \in Nat
    BY <1>1, FiniteRequests
<1>3. d \in Controller
    BY <1>1, PruneTyped
<1>4. /\ d.active = c.active /\ d.leases = c.leases /\ d.closed = c.closed
      /\ d.place = c.place /\ d.waiters = c.waiters \ gone
      /\ d.totals.queued = c.totals.queued
      /\ \A r \in Requests : d.outcome[r] = IF r \in gone THEN "overloaded" ELSE c.outcome[r]
    BY <1>1 DEF PruneExpiredWaiters, Controller, Totals
<1> HIDE DEF d
<1>5. \A r \in c.leases : r \in Requests /\ r \notin gone
    BY <1>1 DEF Sound, Controller
<1>6. Sound(d)
    BY <1>1, <1>3, <1>4, <1>5 DEF Sound
<1>7. Advances(c, d)
    BY <1>1, <1>4 DEF Advances, Sound
<1> QED BY <1>4, <1>6, <1>7 DEF d

\* Granting free slots to requests that hold none.
LEMMA GrantSound ==
    ASSUME NEW c, Sound(c), now \in Nat,
           NEW G \in SUBSET Requests, G \cap c.leases = {},
           c.active + Cardinality(G) <= Concurrency
    PROVE  LET d == GrantTo(c, G)
           IN  /\ Sound(d)
               /\ d.active = c.active + Cardinality(G)
               /\ d.leases = c.leases \cup G
               /\ d.waiters = c.waiters \ G
               /\ d.closed = c.closed /\ d.place = c.place
               /\ d.totals.queued = c.totals.queued
               /\ \A r \in Requests : d.outcome[r] = IF r \in G THEN "granted" ELSE c.outcome[r]
<1> DEFINE d == GrantTo(c, G)
<1>1. c \in Controller /\ c.leases \in SUBSET Requests /\ c.waiters \subseteq Requests
    BY DEF Sound, Controller
<1>2. Cardinality(G) \in Nat
    BY FiniteRequests
<1> DEFINE m == MakeLeases(c, G)
<1>3. /\ m \in Controller
      /\ m.active = c.active + Cardinality(G)
      /\ m.leases = c.leases \cup G
      /\ m.waiters = c.waiters /\ m.closed = c.closed /\ m.place = c.place
      /\ m.totals = c.totals /\ m.outcome = c.outcome
    <2> DEFINE x == [r \in Requests |-> IF r \in G THEN now + MaxDuration ELSE c.expiresAt[r]]
    <2>1. x \in [Requests -> Nat]
        BY <1>1, MaxDurationNatural DEF Controller
    <2>2. m = [c EXCEPT !.active = @ + Cardinality(G), !.leases = @ \cup G, !.expiresAt = x]
        BY <1>1 DEF MakeLeases, Controller
    <2> HIDE DEF x, m
    <2>3. c.active + Cardinality(G) \in Nat /\ c.leases \cup G \in SUBSET Requests
        BY <1>1, <1>2 DEF Controller
    <2> DEFINE n == c.active + Cardinality(G)
               l == c.leases \cup G
    <2>4. m = [c EXCEPT !.active = n, !.leases = l, !.expiresAt = x]
        BY <2>2
    <2> HIDE DEF n, l
    <2>5. m \in Controller
        BY <1>1, <2>1, <2>3, <2>4 DEF Controller, n, l
    <2>6. /\ m.active = c.active + Cardinality(G)
          /\ m.leases = c.leases \cup G
        BY <1>1, <2>2 DEF Controller
    <2>7. /\ m.waiters = c.waiters /\ m.closed = c.closed /\ m.place = c.place
          /\ m.totals = c.totals /\ m.outcome = c.outcome
        BY <1>1, <2>2 DEF Controller
    <2> QED BY <2>5, <2>6, <2>7
<1> DEFINE o == [r \in Requests |-> IF r \in G THEN "granted" ELSE m.outcome[r]]
           t == [m.totals EXCEPT !.admitted = @ + Cardinality(G)]
<1>4. /\ d \in Controller
      /\ d.active = c.active + Cardinality(G)
      /\ d.leases = c.leases \cup G
      /\ d.waiters = c.waiters \ G
      /\ d.closed = c.closed /\ d.place = c.place
      /\ d.totals.queued = c.totals.queued
      /\ \A r \in Requests : d.outcome[r] = IF r \in G THEN "granted" ELSE c.outcome[r]
    <2>1. o \in [Requests -> Outcome]
        BY <1>1, <1>3 DEF Controller, Outcome
    <2>2. t \in Totals /\ t.queued = m.totals.queued
        BY <1>1, <1>2, <1>3 DEF Controller, Totals
    <2>3. d = [m EXCEPT !.waiters = @ \ G, !.outcome = o, !.totals = t]
        <3> HIDE DEF m
        <3> QED BY <1>3 DEF GrantTo, Controller, m
    <2>4. \A r \in Requests : o[r] = IF r \in G THEN "granted" ELSE c.outcome[r]
        BY <1>3
    <2> HIDE DEF o, t, d, m
    <2> QED BY <1>1, <1>2, <1>3, <2>1, <2>2, <2>3, <2>4 DEF Controller
<1> HIDE DEF d
<1>5. Cardinality(d.leases) = d.active
    BY <1>1, <1>4, CardinalityPlus DEF Sound
<1>6. Sound(d)
    BY <1>1, <1>4, <1>5 DEF Sound
<1> QED BY <1>4, <1>6 DEF d

\* fillSlots() leaves nobody queued beside a free slot.
LEMMA FillSound ==
    ASSUME NEW c, Sound(c), now \in Nat, ~c.closed
    PROVE  LET d == FillSlots(c) IN Sound(d) /\ Busy(d) /\ Advances(c, d) /\ InOrder(c, d)
<1> DEFINE live == PruneExpiredWaiters(c)
           G == Served(live)
           d == GrantTo(live, G)
<1>1. Sound(live) /\ Advances(c, live) /\ live.leases = c.leases
    BY PruneSound
<1> HIDE DEF live
<1>2. G \subseteq live.waiters /\ live.active + Cardinality(G) <= Concurrency
    BY <1>1, ServedFits
<1>3. live.waiters \subseteq Requests /\ live.waiters \cap live.leases = {}
    BY <1>1 DEF Sound, Controller
<1>4. /\ live.waiters \ G # {} => live.active + Cardinality(G) = Concurrency
      /\ \A v \in G, w \in live.waiters \ G : live.place[v] < live.place[w]
    BY <1>1, ServedFills, ServedFirst
<1> HIDE DEF G
<1>5. /\ Sound(d)
      /\ d.active = live.active + Cardinality(G)
      /\ d.leases = live.leases \cup G
      /\ d.waiters = live.waiters \ G
      /\ d.closed = live.closed /\ d.place = live.place
      /\ d.totals.queued = live.totals.queued
      /\ \A r \in Requests : d.outcome[r] = IF r \in G THEN "granted" ELSE live.outcome[r]
    BY <1>1, <1>2, <1>3, GrantSound
<1> HIDE DEF d
<1>6. Busy(d)
    BY <1>1, <1>4, <1>5 DEF Busy, Advances
<1>7. Advances(c, d)
    <2>1. c.waiters \subseteq Requests
        BY DEF Sound, Controller
    <2> QED BY <1>1, <1>2, <1>3, <1>5, <2>1 DEF Advances
<1>8. InOrder(c, d)
    <2>1. live.place = c.place /\ live.waiters \subseteq c.waiters
        BY <1>1 DEF Advances
    <2>2. \A r \in d.leases \ c.leases : r \in G
        BY <1>1, <1>5
    <2>3. \A w \in d.waiters : w \in live.waiters \ G
        BY <1>5
    <2> QED BY <1>2, <1>4, <2>1, <2>2, <2>3 DEF InOrder
<1> QED BY <1>5, <1>6, <1>7, <1>8 DEF FillSlots, d, G, live

\* release(), the first or a later one, gives back at most its own slot.
LEMMA ReleaseSound ==
    ASSUME NEW c, Sound(c), Busy(c), now \in Nat, NEW r \in Requests
    PROVE  LET d == ReleaseLease(c, r)
           IN  Sound(d) /\ Busy(d) /\ Advances(c, d) /\ InOrder(c, d) /\ r \notin d.leases
<1> DEFINE b == [c EXCEPT !.leases = @ \ {r}]
           e == [b EXCEPT !.active = IF @ > 0 THEN @ - 1 ELSE @]
           d == ReleaseLease(c, r)
<1>1. c \in Controller /\ c.leases \in SUBSET Requests /\ c.waiters \subseteq Requests
    BY DEF Sound, Controller
<1>2. CASE r \notin c.leases
    <2>1. d = c
        BY <1>2 DEF ReleaseLease
    <2>2. Advances(c, c) /\ InOrder(c, c)
        BY DEF Advances, InOrder, Sound
    <2> QED BY <1>2, <2>1, <2>2
<1>3. CASE r \in c.leases
    <2>1. {r} \in SUBSET c.leases /\ Cardinality({r}) = 1
        BY <1>3, FS_Singleton
    <2>2. Cardinality(c.leases \ {r}) = c.active - 1 /\ Cardinality(c.leases \ {r}) \in Nat
        BY <1>1, <2>1, CardinalityMinus, FiniteRequests DEF Sound
    <2>3. c.active \in Nat /\ c.active > 0
        BY <1>1, <2>2 DEF Controller
    <2>4. /\ e \in Controller
          /\ e.active = c.active - 1 /\ e.leases = c.leases \ {r} /\ e.closed = c.closed
          /\ e.waiters = c.waiters /\ e.place = c.place /\ e.outcome = c.outcome
          /\ e.totals = c.totals
        BY <1>1, <2>2, <2>3 DEF Controller
    <2>5. d = IF c.closed THEN e ELSE FillSlots(e)
        BY <1>1, <1>3 DEF ReleaseLease, ReleaseSlot, Controller
    <2> HIDE DEF e, d
    <2>6. Sound(e)
        BY <1>1, <2>2, <2>3, <2>4, ConcurrencyPositive DEF Sound
    <2>7. CASE c.closed
        <3>1. Busy(e)
            BY <2>4, <2>7 DEF Busy
        <3>2. Advances(c, e) /\ InOrder(c, e)
            BY <2>4 DEF Advances, InOrder, Sound
        <3> QED BY <2>4, <2>5, <2>6, <2>7, <3>1, <3>2 DEF d
    <2>8. CASE ~c.closed
        <3>1. Sound(d) /\ Busy(d) /\ Advances(e, d) /\ InOrder(e, d)
            BY <2>4, <2>5, <2>6, <2>8, FillSound
        <3>2. r \notin e.waiters /\ r \notin e.leases
            BY <1>3, <2>4 DEF Sound
        <3>3. r \notin d.leases /\ InOrder(c, d)
            BY <2>4, <3>1, <3>2 DEF Advances, InOrder
        <3> QED BY <2>4, <3>1, <3>2, <3>3 DEF Advances, d
    <2> QED BY <2>7, <2>8
<1> QED BY <1>2, <1>3

\* reapExpired() takes back overdue leases and refills their slots.
LEMMA ReapSound ==
    ASSUME NEW c, Sound(c), Busy(c), now \in Nat
    PROVE  LET d == ReapExpired(c) IN Sound(d) /\ Busy(d) /\ Advances(c, d) /\ InOrder(c, d)
<1> DEFINE p == PruneExpiredWaiters(c)
           gone == ExpiredLeases(p)
           e == DropLeases(p, gone)
           d == ReapExpired(c)
<1>1. Sound(p) /\ Advances(c, p) /\ p.active = c.active /\ p.leases = c.leases
    BY PruneSound
<1>2. d = CASE MaxDuration = 0 -> p
            [] MaxDuration > 0 /\ c.closed -> e
            [] MaxDuration > 0 /\ ~c.closed -> FillSlots(e)
    BY DEF ReapExpired
<1> HIDE DEF p, d
<1>3. p \in Controller /\ p.leases \in SUBSET Requests /\ gone \in SUBSET p.leases
    BY <1>1 DEF Sound, Controller, ExpiredLeases
<1> HIDE DEF gone
<1>4. /\ Cardinality(p.leases \ gone) = p.active - Cardinality(gone)
      /\ Cardinality(gone) \in Nat /\ Cardinality(p.leases \ gone) \in Nat
    <2>1. gone \in SUBSET Requests /\ p.leases \ gone \in SUBSET Requests
        BY <1>3
    <2>2. Cardinality(p.leases \ gone) = Cardinality(p.leases) - Cardinality(gone)
        BY <1>3, CardinalityMinus
    <2> QED BY <1>1, <2>1, <2>2, FiniteRequests DEF Sound
<1>5. /\ e \in Controller
      /\ e.active = p.active - Cardinality(gone) /\ e.leases = p.leases \ gone
      /\ e.closed = p.closed /\ e.waiters = p.waiters /\ e.place = p.place
      /\ e.outcome = p.outcome /\ e.totals = p.totals
    BY <1>3, <1>4 DEF DropLeases, Controller
<1> HIDE DEF e
<1>6. p.active \in Nat
    BY <1>3 DEF Controller
<1>7. Sound(e)
    BY <1>1, <1>4, <1>5, <1>6, ConcurrencyPositive DEF Sound
<1>8. Advances(c, e)
    BY <1>1, <1>5 DEF Advances, Sound
<1>9. CASE MaxDuration = 0
    <2>1. d = p
        BY <1>2, <1>9
    <2>2. Busy(p) /\ InOrder(c, p)
        BY <1>1 DEF Busy, Advances, InOrder
    <2> QED BY <1>1, <2>1, <2>2 DEF d
<1>10. CASE MaxDuration > 0 /\ c.closed
    <2>1. d = e
        BY <1>2, <1>10, MaxDurationNatural
    <2>2. Busy(e) /\ InOrder(c, e)
        BY <1>1, <1>5, <1>10 DEF Busy, Advances, InOrder
    <2> QED BY <1>7, <1>8, <2>1, <2>2 DEF d
<1>11. CASE MaxDuration > 0 /\ ~c.closed
    <2>1. d = FillSlots(e)
        BY <1>2, <1>11, MaxDurationNatural
    <2>2. ~e.closed
        BY <1>1, <1>5, <1>11 DEF Advances
    <2>3. Sound(d) /\ Busy(d) /\ Advances(e, d) /\ InOrder(e, d)
        BY <1>7, <2>1, <2>2, FillSound
    <2>4. Advances(c, d)
        BY <1>1, <1>5, <1>7, <1>8, <2>3, AdvancesTwice
    <2>5. InOrder(c, d)
        <3>1. e.leases \subseteq c.leases /\ e.waiters \subseteq c.waiters /\ e.place = c.place
              /\ d.waiters \subseteq e.waiters /\ d.leases \subseteq e.leases \cup e.waiters
            BY <1>1, <1>5, <2>3 DEF Advances
        <3>2. c.waiters \cap c.leases = {}
            BY DEF Sound
        <3> QED BY <2>3, <3>1, <3>2 DEF InOrder
    <2> QED BY <2>3, <2>4, <2>5 DEF d
<1> QED BY <1>9, <1>10, <1>11, MaxDurationNatural

-----------------------------------------------------------------------------
(* The inductive invariant. *)

\* The controller and the callers' phases p agree: each lease has an owner, a
\* request that has not arrived has left no trace, a waiter waits.
Owned(c, p) ==
    \A r \in c.leases : p[r] = "holding" \/ (p[r] = "waiting" /\ c.outcome[r] = "granted")

InPhase(c, p) ==
    \A r \in Requests :
        /\ p[r] = "idle" => c.outcome[r] = "none" /\ r \notin c.waiters
        /\ r \in c.waiters => p[r] = "waiting"

Consistent(c, p) ==
    /\ Sound(c)
    /\ Busy(c)
    /\ Cardinality(c.waiters) <= MaxQueueSize
    /\ Owned(c, p)
    /\ InPhase(c, p)

IInv == TypeOK /\ Consistent(ctl, pc)

\* The inductive invariant implies the invariants that the runs check.
LEMMA IInvImplies == IInv => TypeOK /\ SlotsExact /\ NoIdleSlot /\ LeaseOwned
BY DEF IInv, Consistent, Sound, Busy, Owned, SlotsExact, NoIdleSlot, LeaseOwned

\* A method that advances the controller disturbs no caller's phase.
LEMMA AdvanceConsistent ==
    ASSUME NEW c, NEW d, NEW p, Consistent(c, p), Sound(d), Busy(d), Advances(c, d)
    PROVE  Consistent(d, p)
<1>1. c.waiters \in SUBSET Requests /\ d.waiters \in SUBSET c.waiters /\ c.leases \subseteq Requests
    BY DEF Consistent, Sound, Controller, Advances
<1>2. Cardinality(d.waiters) <= MaxQueueSize
    <2>1. Cardinality(d.waiters) <= Cardinality(c.waiters)
        BY <1>1, FiniteRequests, FS_Subset
    <2>2. Cardinality(d.waiters) \in Nat /\ Cardinality(c.waiters) \in Nat
        BY <1>1, FiniteRequests
    <2> QED BY <2>1, <2>2, MaxQueueSizeNatural DEF Consistent
<1>3. Owned(d, p)
    <2> SUFFICES ASSUME NEW r \in d.leases
                 PROVE  p[r] = "holding" \/ (p[r] = "waiting" /\ d.outcome[r] = "granted")
        BY DEF Owned
    <2>1. d.outcome[r] = "granted"
        BY DEF Sound
    <2>2. CASE r \in c.leases
        BY <2>1, <2>2 DEF Consistent, Owned
    <2>3. CASE r \in c.waiters
        BY <1>1, <2>1, <2>3 DEF Consistent, InPhase
    <2> QED BY <2>2, <2>3 DEF Advances
<1>4. InPhase(d, p)
    BY <1>1 DEF Consistent, InPhase, Advances
<1> QED BY <1>2, <1>3, <1>4 DEF Consistent

\* Counters other than queuedTotal are nobody's concern.
LEMMA CountConsistent ==
    ASSUME NEW c, NEW p, Consistent(c, p), NEW t \in Totals, t.queued = c.totals.queued
    PROVE  Consistent([c EXCEPT !.totals = t], p)
<1> DEFINE d == [c EXCEPT !.totals = t]
<1>1. c \in Controller
    BY DEF Consistent, Sound
<1>2. /\ d \in Controller
      /\ d.active = c.active /\ d.leases = c.leases /\ d.closed = c.closed
      /\ d.waiters = c.waiters /\ d.place = c.place /\ d.outcome = c.outcome
      /\ d.totals.queued = c.totals.queued
    BY <1>1 DEF Controller
<1> HIDE DEF d
<1>3. Sound(d)
    BY <1>2 DEF Consistent, Sound
<1>4. Busy(d) /\ Cardinality(d.waiters) <= MaxQueueSize
    BY <1>2 DEF Consistent, Busy
<1>5. Owned(d, p) /\ InPhase(d, p)
    BY <1>2 DEF Consistent, Owned, InPhase
<1>6. Consistent(d, p)
    BY <1>3, <1>4, <1>5 DEF Consistent
<1> QED BY <1>6 DEF d

\* A caller that neither queues nor holds a lease may move on.
LEMMA LeaveConsistent ==
    ASSUME NEW c, NEW p \in [Requests -> Phase], Consistent(c, p), NEW r \in Requests,
           r \notin c.waiters, NEW x \in Phase \ {"idle"},
           r \in c.leases => x = "holding"
    PROVE  Consistent(c, [p EXCEPT ![r] = x])
<1> DEFINE q == [p EXCEPT ![r] = x]
<1>1. Owned(c, q)
    BY DEF Consistent, Owned, Sound, Controller
<1>2. InPhase(c, q)
    BY DEF Consistent, InPhase
<1> QED BY <1>1, <1>2 DEF Consistent

\* Taking a waiter out of the queue leaves its caller free to move on.
LEMMA RemoveConsistent ==
    ASSUME NEW c, NEW p, Consistent(c, p), NEW r \in Requests
    PROVE  Consistent(Remove(c, r), p) /\ r \notin Remove(c, r).waiters
<1> DEFINE d == Remove(c, r)
<1>1. c \in Controller
    BY DEF Consistent, Sound
<1>2. /\ d \in Controller
      /\ d.active = c.active /\ d.leases = c.leases /\ d.closed = c.closed
      /\ d.waiters = c.waiters \ {r} /\ d.place = c.place /\ d.outcome = c.outcome
      /\ d.totals = c.totals
    BY <1>1 DEF Controller, Remove
<1> HIDE DEF d
<1>3. Sound(d)
    BY <1>2 DEF Consistent, Sound
<1>4. Busy(d)
    BY <1>2 DEF Consistent, Busy
<1>5. Cardinality(d.waiters) <= MaxQueueSize
    <2>1. c.waiters \in SUBSET Requests /\ d.waiters \in SUBSET c.waiters
        BY <1>1, <1>2 DEF Controller
    <2>2. Cardinality(d.waiters) <= Cardinality(c.waiters)
        BY <2>1, FiniteRequests, FS_Subset
    <2>3. Cardinality(d.waiters) \in Nat /\ Cardinality(c.waiters) \in Nat
        BY <2>1, FiniteRequests
    <2> QED BY <2>2, <2>3, MaxQueueSizeNatural DEF Consistent
<1>6. Owned(d, p) /\ InPhase(d, p)
    BY <1>2 DEF Consistent, Owned, InPhase
<1>7. Consistent(d, p) /\ r \notin d.waiters
    BY <1>2, <1>3, <1>4, <1>5, <1>6 DEF Consistent
<1> QED BY <1>7 DEF d

\* A new controller satisfies the inductive invariant.
LEMMA InitIInv == Init => IInv
<1> SUFFICES ASSUME Init PROVE IInv
    OBVIOUS
<1> USE DEF Init
<1>1. TypeOK
    BY DEF TypeOK, Controller, Totals, Outcome, Phase
<1>2. Cardinality({}) = 0
    BY FS_EmptySet
<1>3. Sound(ctl)
    BY <1>1, <1>2, ConcurrencyPositive DEF Sound, TypeOK
<1>4. Busy(ctl) /\ Cardinality(ctl.waiters) <= MaxQueueSize /\ Owned(ctl, pc) /\ InPhase(ctl, pc)
    BY <1>2, MaxQueueSizeNatural DEF Busy, Owned, InPhase
<1> QED BY <1>1, <1>3, <1>4 DEF IInv, Consistent

\* What an action must establish. The type of ctl' is part of Sound.
Keeps == /\ now' \in Nat
         /\ pc' \in [Requests -> Phase]
         /\ reapAt' \in [Requests -> Nat]
         /\ Consistent(ctl', pc')

\* The counters move one at a time.
LEMMA CounterTypes ==
    ASSUME NEW c \in Controller, NEW n \in Nat
    PROVE  /\ [c.totals EXCEPT !.closed = @ + n] \in Totals
           /\ [c.totals EXCEPT !.closed = @ + n].queued = c.totals.queued
           /\ [c.totals EXCEPT !.cancelled = @ + n] \in Totals
           /\ [c.totals EXCEPT !.cancelled = @ + n].queued = c.totals.queued
           /\ [c.totals EXCEPT !.rejected = @ + n] \in Totals
           /\ [c.totals EXCEPT !.rejected = @ + n].queued = c.totals.queued
BY DEF Controller, Totals

\* The reaping at the start of acquire() disturbs nobody.
LEMMA ReapedConsistent ==
    ASSUME IInv
    PROVE  /\ Consistent(ReapExpired(ctl), pc)
           /\ Advances(ctl, ReapExpired(ctl))
           /\ ReapExpired(ctl) \in Controller
           /\ now \in Nat
           /\ pc \in [Requests -> Phase]
           /\ reapAt \in [Requests -> Nat]
<1>1. Sound(ctl) /\ Busy(ctl) /\ now \in Nat
    BY DEF IInv, Consistent, TypeOK
<1>2. Sound(ReapExpired(ctl)) /\ Busy(ReapExpired(ctl)) /\ Advances(ctl, ReapExpired(ctl))
    BY <1>1, ReapSound
<1>3. Consistent(ReapExpired(ctl), pc)
    BY <1>2, AdvanceConsistent DEF IInv
<1> QED BY <1>1, <1>2, <1>3 DEF IInv, TypeOK, Sound

\* A newcomer is in no queue and holds no lease, reaped or not.
LEMMA Newcomer ==
    ASSUME IInv, NEW r \in Requests, pc[r] = "idle"
    PROVE  /\ r \notin ReapExpired(ctl).waiters
           /\ r \notin ReapExpired(ctl).leases
           /\ ReapExpired(ctl).outcome[r] = "none"
BY ReapedConsistent DEF Consistent, InPhase, Sound

\* An acquire() that is refused at once only counts.
LEMMA AcquireFails ==
    ASSUME IInv, NEW r \in Requests, AcquireClosed(r) \/ AcquireAborted(r) \/ \E w \in BOOLEAN : AcquireRefused(r, w)
    PROVE  Keeps
<1> DEFINE c == ReapExpired(ctl)
<1>1. /\ Consistent(c, pc) /\ c \in Controller /\ now \in Nat
      /\ pc \in [Requests -> Phase] /\ reapAt \in [Requests -> Nat]
    BY ReapedConsistent
<1>2. pc[r] = "idle" /\ now' = now /\ reapAt' = reapAt
    BY DEF AcquireClosed, AcquireAborted, AcquireRefused, Arriving
<1>3. r \notin c.waiters /\ r \notin c.leases
    BY <1>2, Newcomer
<1>4. PICK x \in {"closed", "cancelled", "overloaded"} : pc' = [pc EXCEPT ![r] = x]
    BY DEF AcquireClosed, AcquireAborted, AcquireRefused
<1>5. \/ ctl' = [c EXCEPT !.totals = [c.totals EXCEPT !.closed = @ + 1]]
      \/ ctl' = [c EXCEPT !.totals = [c.totals EXCEPT !.cancelled = @ + 1]]
      \/ ctl' = [c EXCEPT !.totals = [c.totals EXCEPT !.rejected = @ + 1]]
    BY DEF AcquireClosed, AcquireAborted, AcquireRefused
<1> HIDE DEF c
<1>6. PICK t \in Totals : ctl' = [c EXCEPT !.totals = t] /\ t.queued = c.totals.queued
    BY <1>1, <1>5, CounterTypes
<1>7. Consistent(ctl', pc)
    BY <1>1, <1>6, CountConsistent
<1>8. ctl'.waiters = c.waiters /\ ctl'.leases = c.leases
    BY <1>1, <1>6 DEF Controller
<1>9. x \in Phase \ {"idle"}
    BY <1>4 DEF Phase
<1>10. Consistent(ctl', pc')
    BY <1>1, <1>3, <1>4, <1>7, <1>8, <1>9, LeaveConsistent
<1>11. pc' \in [Requests -> Phase]
    BY <1>1, <1>4, <1>9
<1> QED BY <1>1, <1>2, <1>10, <1>11 DEF Keeps

\* An acquire() that finds a free slot takes exactly one.
LEMMA AcquireNowKeeps ==
    ASSUME IInv, NEW r \in Requests, AcquireNow(r)
    PROVE  Keeps
<1> DEFINE c == ReapExpired(ctl)
           d == GrantTo(c, {r})
<1>1. /\ Consistent(c, pc) /\ c \in Controller /\ now \in Nat
      /\ pc \in [Requests -> Phase] /\ reapAt \in [Requests -> Nat]
    BY ReapedConsistent
<1>2. /\ pc[r] = "idle" /\ now' = now /\ reapAt' = reapAt /\ c.active < Concurrency
      /\ ctl' = d /\ pc' = [pc EXCEPT ![r] = "holding"]
    BY DEF AcquireNow, Arriving
<1>3. r \notin c.waiters /\ r \notin c.leases
    BY <1>2, Newcomer
<1> HIDE DEF c
<1>4. c.active + Cardinality({r}) <= Concurrency
    <2>1. Cardinality({r}) = 1
        BY FS_Singleton
    <2>2. c.active \in Nat
        BY <1>1 DEF Controller
    <2> QED BY <1>2, <2>1, <2>2, ConcurrencyPositive
<1>5. /\ Sound(d)
      /\ d.active = c.active + Cardinality({r})
      /\ d.leases = c.leases \cup {r}
      /\ d.waiters = c.waiters \ {r}
      /\ d.closed = c.closed
      /\ \A s \in Requests : d.outcome[s] = IF s \in {r} THEN "granted" ELSE c.outcome[s]
    <2>1. Sound(c)
        BY <1>1 DEF Consistent
    <2>2. {r} \in SUBSET Requests /\ {r} \cap c.leases = {}
        BY <1>3
    <2>3. now \in Nat
        BY <1>1
    <2> HIDE DEF c
    <2> QED BY <1>4, <2>1, <2>2, <2>3, GrantSound
<1> HIDE DEF d
<1>6. c.waiters = {} /\ d.waiters = {}
    BY <1>1, <1>2, <1>3, <1>5, ConcurrencyPositive DEF Consistent, Busy, Controller
<1>7. Busy(d) /\ Cardinality(d.waiters) <= MaxQueueSize
    BY <1>6, FS_EmptySet, MaxQueueSizeNatural DEF Busy
<1>8. Owned(d, pc')
    BY <1>1, <1>2, <1>5 DEF Consistent, Owned, Sound, Controller
<1>9. InPhase(d, pc')
    BY <1>1, <1>2, <1>5, <1>6 DEF Consistent, InPhase
<1>10. Consistent(ctl', pc')
    BY <1>2, <1>5, <1>7, <1>8, <1>9 DEF Consistent
<1>11. pc' \in [Requests -> Phase]
    BY <1>1, <1>2 DEF Phase
<1> QED BY <1>1, <1>2, <1>10, <1>11 DEF Keeps

\* A queued acquire() joins behind everybody, with all slots busy.
LEMMA AcquireQueuedKeeps ==
    ASSUME IInv, NEW r \in Requests, AcquireQueued(r)
    PROVE  Keeps
<1> DEFINE c == ReapExpired(ctl)
           t == [c.totals EXCEPT !.queued = @ + 1]
<1>1. /\ Consistent(c, pc) /\ c \in Controller /\ now \in Nat
      /\ pc \in [Requests -> Phase] /\ reapAt \in [Requests -> Nat]
    BY ReapedConsistent
<1>2. /\ pc[r] = "idle" /\ now' = now /\ reapAt' = reapAt /\ c.active >= Concurrency
      /\ ~c.closed /\ Cardinality(c.waiters) < MaxQueueSize
      /\ pc' = [pc EXCEPT ![r] = "waiting"]
    BY DEF AcquireQueued, Arriving
<1>3. ctl' = [c EXCEPT !.waiters = @ \cup {r},
                       !.queuedAt = [c.queuedAt EXCEPT ![r] = now],
                       !.place = [c.place EXCEPT ![r] = c.totals.queued],
                       !.totals = t]
    BY DEF AcquireQueued
<1>4. r \notin c.waiters /\ r \notin c.leases /\ c.outcome[r] = "none"
    BY <1>2, Newcomer
<1> HIDE DEF c
<1>5. c.totals.queued \in Nat /\ t \in Totals /\ t.queued = c.totals.queued + 1
    BY <1>1 DEF Controller, Totals
<1>6. /\ [c.queuedAt EXCEPT ![r] = now] \in [Requests -> Nat]
      /\ [c.place EXCEPT ![r] = c.totals.queued] \in [Requests -> Nat]
      /\ \A s \in Requests : [c.place EXCEPT ![r] = c.totals.queued][s]
                               = IF s = r THEN c.totals.queued ELSE c.place[s]
    BY <1>1, <1>5 DEF Controller
<1> HIDE DEF t
<1>7. ctl' \in Controller
    BY <1>1, <1>3, <1>5, <1>6 DEF Controller
<1>8. /\ ctl'.active = c.active /\ ctl'.leases = c.leases /\ ctl'.closed = c.closed
      /\ ctl'.waiters = c.waiters \cup {r} /\ ctl'.outcome = c.outcome
      /\ ctl'.place = [c.place EXCEPT ![r] = c.totals.queued]
      /\ ctl'.totals = t
    BY <1>1, <1>3 DEF Controller
<1>9. Sound(c)
    BY <1>1 DEF Consistent
<1>10. \A s \in c.waiters : ctl'.place[s] = c.place[s] /\ c.place[s] \in Nat /\ c.place[s] < c.totals.queued
    BY <1>1, <1>4, <1>6, <1>8, <1>9 DEF Controller, Sound
<1>11. ctl'.place[r] = c.totals.queued
    BY <1>6, <1>8
<1>12. \A s \in ctl'.waiters : ctl'.outcome[s] = "none" /\ ctl'.place[s] < ctl'.totals.queued
    BY <1>4, <1>5, <1>8, <1>9, <1>10, <1>11 DEF Sound
<1>13. \A v, w \in ctl'.waiters : ctl'.place[v] = ctl'.place[w] => v = w
    BY <1>5, <1>8, <1>9, <1>10, <1>11 DEF Sound
<1>14. Sound(ctl')
    BY <1>7, <1>8, <1>9, <1>12, <1>13 DEF Sound
<1>15. Busy(ctl')
    BY <1>1, <1>2, <1>8, <1>9, ConcurrencyPositive DEF Busy, Sound, Controller
<1>16. Cardinality(ctl'.waiters) <= MaxQueueSize
    <2>1. c.waiters \in SUBSET Requests
        BY <1>1 DEF Controller
    <2>2. Cardinality(c.waiters \cup {r}) = Cardinality(c.waiters) + 1 /\ Cardinality(c.waiters) \in Nat
        BY <1>4, <2>1, FiniteRequests, FS_AddElement
    <2> QED BY <1>2, <1>8, <2>2, MaxQueueSizeNatural
<1>17. Owned(ctl', pc') /\ InPhase(ctl', pc')
    BY <1>1, <1>2, <1>4, <1>8 DEF Consistent, Owned, InPhase, Controller
<1>18. pc' \in [Requests -> Phase]
    BY <1>1, <1>2 DEF Phase
<1> QED BY <1>1, <1>2, <1>14, <1>15, <1>16, <1>17, <1>18 DEF Keeps, Consistent

\* The waiter's own timer and its signal.
LEMMA GiveUpKeeps ==
    ASSUME IInv, NEW r \in Requests, TimesOut(r) \/ AbortHeard(r)
    PROVE  Keeps
<1> DEFINE c == Remove(ctl, r)
<1>1. /\ Consistent(ctl, pc) /\ ctl \in Controller /\ now \in Nat
      /\ pc \in [Requests -> Phase] /\ reapAt \in [Requests -> Nat]
    BY DEF IInv, TypeOK
<1>2. now' = now /\ RaceEnds(r) /\ r \in ctl.waiters
    BY DEF TimesOut, AbortHeard
<1>3. Consistent(c, pc) /\ r \notin c.waiters
    BY <1>1, RemoveConsistent
<1>4. c \in Controller /\ c.leases = ctl.leases
    BY <1>1 DEF Remove, Controller
<1>5. r \notin c.leases
    BY <1>1, <1>2, <1>4 DEF Consistent, Sound
<1>6. PICK x \in {"cancelled", "overloaded"} : pc' = [pc EXCEPT ![r] = x]
    BY DEF TimesOut, AbortHeard
<1>7. \/ ctl' = [c EXCEPT !.totals = [c.totals EXCEPT !.cancelled = @ + 1]]
      \/ ctl' = [c EXCEPT !.totals = [c.totals EXCEPT !.rejected = @ + 1]]
    BY DEF TimesOut, AbortHeard
<1> HIDE DEF c
<1>8. PICK t \in Totals : ctl' = [c EXCEPT !.totals = t] /\ t.queued = c.totals.queued
    <2>1. /\ [c.totals EXCEPT !.cancelled = @ + 1] \in Totals
          /\ [c.totals EXCEPT !.cancelled = @ + 1].queued = c.totals.queued
          /\ [c.totals EXCEPT !.rejected = @ + 1] \in Totals
          /\ [c.totals EXCEPT !.rejected = @ + 1].queued = c.totals.queued
        BY <1>4, CounterTypes
    <2> QED BY <1>7, <2>1
<1>9. Consistent(ctl', pc)
    BY <1>3, <1>8, CountConsistent
<1>10. ctl'.waiters = c.waiters /\ ctl'.leases = c.leases
    BY <1>4, <1>8 DEF Controller
<1>11. x \in Phase \ {"idle"}
    BY <1>6 DEF Phase
<1>12. Consistent(ctl', pc')
    BY <1>1, <1>3, <1>5, <1>6, <1>9, <1>10, <1>11, LeaveConsistent
<1>13. pc' \in [Requests -> Phase]
    BY <1>1, <1>6, <1>11
<1>14. reapAt' \in [Requests -> Nat]
    BY <1>1, <1>2 DEF RaceEnds
<1> QED BY <1>1, <1>2, <1>12, <1>13, <1>14 DEF Keeps

\* A recorded outcome is heard.
LEMMA HearKeeps ==
    ASSUME IInv, NEW r \in Requests, Hear(r) \/ Received(r)
    PROVE  Keeps
<1>1. /\ Consistent(ctl, pc) /\ ctl \in Controller /\ now \in Nat
      /\ pc \in [Requests -> Phase] /\ reapAt \in [Requests -> Nat]
    BY DEF IInv, TypeOK
<1>2. now' = now /\ reapAt' \in [Requests -> Nat] /\ ctl.outcome[r] # "none"
    BY <1>1 DEF Hear, Received, RaceEnds
<1>3. r \notin ctl.waiters
    BY <1>1, <1>2 DEF Consistent, Sound
<1>4. CASE Hear(r)
    <2>1. PICK x \in {"overloaded", "closed"} :
              ctl.outcome[r] = x /\ pc' = [pc EXCEPT ![r] = x] /\ ctl' = ctl
        BY <1>4 DEF Hear
    <2>2. r \notin ctl.leases
        BY <1>1, <2>1 DEF Consistent, Sound
    <2>3. x \in Phase \ {"idle"}
        BY <2>1 DEF Phase
    <2>4. Consistent(ctl', pc')
        BY <1>1, <1>3, <2>1, <2>2, <2>3, LeaveConsistent
    <2> QED BY <1>1, <1>2, <2>1, <2>3, <2>4 DEF Keeps
<1>5. CASE Received(r) /\ ~ctl.closed
    <2>1. pc' = [pc EXCEPT ![r] = "holding"] /\ ctl' = ctl
        BY <1>5 DEF Received
    <2>2. "holding" \in Phase \ {"idle"}
        BY DEF Phase
    <2>3. Consistent(ctl', pc')
        BY <1>1, <1>3, <2>1, <2>2, LeaveConsistent
    <2> QED BY <1>1, <1>2, <2>1, <2>2, <2>3 DEF Keeps
<1>6. CASE Received(r) /\ ctl.closed
    <2> DEFINE c == ReleaseLease(ctl, r)
    <2>1. pc' = [pc EXCEPT ![r] = "closed"] /\ ctl' = [c EXCEPT !.totals = [c.totals EXCEPT !.closed = @ + 1]]
        BY <1>6 DEF Received
    <2>2. Sound(c) /\ Busy(c) /\ Advances(ctl, c) /\ r \notin c.leases
        BY <1>1, ReleaseSound DEF Consistent
    <2> HIDE DEF c
    <2>3. Consistent(c, pc) /\ c \in Controller /\ r \notin c.waiters
        BY <1>1, <1>3, <2>2, AdvanceConsistent DEF Advances, Sound
    <2>4. Consistent(ctl', pc)
        BY <2>1, <2>3, CounterTypes, CountConsistent
    <2>5. ctl'.waiters = c.waiters /\ ctl'.leases = c.leases
        BY <2>1, <2>3 DEF Controller
    <2>6. "closed" \in Phase \ {"idle"}
        BY DEF Phase
    <2>7. Consistent(ctl', pc')
        BY <1>1, <2>1, <2>2, <2>3, <2>4, <2>5, <2>6, LeaveConsistent
    <2> QED BY <1>1, <1>2, <2>1, <2>6, <2>7 DEF Keeps
<1> QED BY <1>4, <1>5, <1>6

\* A lease given back by its holder, or by the interrupted waiter it was meant for.
LEMMA ReleaseKeeps ==
    ASSUME IInv, NEW r \in Requests, Release(r) \/ Interrupt(r)
    PROVE  Keeps
<1>1. /\ Consistent(ctl, pc) /\ ctl \in Controller /\ now \in Nat
      /\ pc \in [Requests -> Phase] /\ reapAt \in [Requests -> Nat]
    BY DEF IInv, TypeOK
<1>2. now' = now /\ reapAt' \in [Requests -> Nat]
    BY <1>1 DEF Release, Interrupt, RaceEnds
<1>3. PICK x \in {"released", "interrupted"} : pc' = [pc EXCEPT ![r] = x]
    BY DEF Release, Interrupt
<1>4. x \in Phase \ {"idle"}
    BY <1>3 DEF Phase
<1>5. pc' \in [Requests -> Phase]
    BY <1>1, <1>3, <1>4
<1>6. Consistent(ctl', pc) /\ r \notin ctl'.waiters /\ r \notin ctl'.leases
    <2>1. CASE ctl' = ReleaseLease(ctl, r) /\ r \notin ctl.waiters
        <3>1. Sound(ctl') /\ Busy(ctl') /\ Advances(ctl, ctl') /\ r \notin ctl'.leases
            BY <1>1, <2>1, ReleaseSound DEF Consistent
        <3> QED BY <1>1, <2>1, <3>1, AdvanceConsistent DEF Advances
    <2>2. CASE Interrupt(r) /\ r \in ctl.waiters
        <3> DEFINE c == Remove(ctl, r)
        <3>1. ctl' = [c EXCEPT !.totals = [c.totals EXCEPT !.cancelled = @ + 1]]
            BY <2>2 DEF Interrupt, Cleanup
        <3>2. Consistent(c, pc) /\ r \notin c.waiters
            BY <1>1, RemoveConsistent
        <3>3. c \in Controller /\ c.leases = ctl.leases
            BY <1>1 DEF Remove, Controller
        <3> HIDE DEF c
        <3>4. Consistent(ctl', pc)
            BY <3>1, <3>2, <3>3, CounterTypes, CountConsistent
        <3>5. ctl'.waiters = c.waiters /\ ctl'.leases = c.leases
            BY <3>1, <3>3 DEF Controller
        <3> QED BY <1>1, <2>2, <3>2, <3>3, <3>4, <3>5 DEF Consistent, Sound
    <2>3. CASE Interrupt(r) /\ r \notin ctl.waiters /\ ctl.outcome[r] # "granted"
        <3>1. ctl' = ctl
            BY <2>3 DEF Interrupt, Cleanup
        <3> QED BY <1>1, <2>3, <3>1 DEF Consistent, Sound
    <2>4. CASE Interrupt(r) /\ r \notin ctl.waiters /\ ctl.outcome[r] = "granted"
        BY <2>1, <2>4 DEF Interrupt, Cleanup
    <2>5. CASE Release(r)
        <3>1. r \notin ctl.waiters
            BY <1>1, <2>5 DEF Release, Consistent, InPhase
        <3> QED BY <2>1, <2>5, <3>1 DEF Release
    <2> QED BY <2>2, <2>3, <2>4, <2>5
<1>7. Consistent(ctl', pc')
    BY <1>1, <1>3, <1>4, <1>6, LeaveConsistent
<1> QED BY <1>1, <1>2, <1>5, <1>7 DEF Keeps

\* close() empties the queue and takes nobody's lease.
LEMMA CloseKeeps == ASSUME IInv, Close PROVE Keeps
<1>1. /\ Consistent(ctl, pc) /\ ctl \in Controller /\ now \in Nat
      /\ pc \in [Requests -> Phase] /\ reapAt \in [Requests -> Nat]
    BY DEF IInv, TypeOK
<1> DEFINE o == [r \in Requests |-> IF r \in ctl.waiters THEN "closed" ELSE ctl.outcome[r]]
           t == [ctl.totals EXCEPT !.closed = @ + Cardinality(ctl.waiters)]
<1>2. /\ now' = now /\ reapAt' = reapAt /\ pc' = pc
      /\ ctl' = [ctl EXCEPT !.closed = TRUE, !.waiters = {}, !.outcome = o, !.totals = t]
    BY <1>1 DEF Close, Controller
<1>3. Cardinality(ctl.waiters) \in Nat
    BY <1>1, FiniteRequests DEF Controller
<1>4. o \in [Requests -> Outcome] /\ t \in Totals
    BY <1>1, <1>3, CounterTypes DEF Controller, Outcome
<1>5. \A r \in Requests : o[r] = IF r \in ctl.waiters THEN "closed" ELSE ctl.outcome[r]
    OBVIOUS
<1> HIDE DEF o, t
<1>6. ctl' \in Controller
    BY <1>1, <1>2, <1>4 DEF Controller
<1>7. /\ ctl'.active = ctl.active /\ ctl'.leases = ctl.leases /\ ctl'.waiters = {}
      /\ ctl'.outcome = o
    BY <1>1, <1>2 DEF Controller
<1>8. Sound(ctl')
    BY <1>1, <1>5, <1>6, <1>7 DEF Consistent, Sound, Controller
<1>9. Busy(ctl') /\ Cardinality(ctl'.waiters) <= MaxQueueSize
    BY <1>7, FS_EmptySet, MaxQueueSizeNatural DEF Busy
<1>10. Owned(ctl', pc') /\ InPhase(ctl', pc')
    BY <1>1, <1>2, <1>5, <1>7 DEF Consistent, Owned, InPhase, Sound, Controller
<1> QED BY <1>1, <1>2, <1>8, <1>9, <1>10 DEF Keeps, Consistent

\* A reaper's sleep ends at an instant.
LEMMA NextReapTyped == ASSUME IInv PROVE NextReap \in Nat
<1>1. now \in Nat /\ ctl.expiresAt \in [Requests -> Nat] /\ ctl.leases \subseteq Requests
    BY DEF IInv, TypeOK, Controller
<1>2. PICK first : first = CHOOSE l \in ctl.leases : \A m \in ctl.leases : ctl.expiresAt[l] <= ctl.expiresAt[m]
    OBVIOUS
<1>3. NextReap = IF ctl.leases = {} THEN now + ReapFallback
                 ELSE IF ctl.expiresAt[first] > now THEN ctl.expiresAt[first] ELSE now + 1
    BY <1>2 DEF NextReap
<1>4. ctl.leases # {} => first \in ctl.leases
    <2> SUFFICES ASSUME ctl.leases # {} PROVE first \in ctl.leases
        OBVIOUS
    <2>1. \E l \in ctl.leases : \A m \in ctl.leases : ctl.expiresAt[l] <= ctl.expiresAt[m]
        BY <1>1, Earliest
    <2> QED BY <1>2, <2>1
<1> QED BY <1>1, <1>3, <1>4, ReapFallbackPositive

\* Every step keeps the inductive invariant.
LEMMA NextKeeps == ASSUME IInv, Next PROVE Keeps
<1>1. CASE Snapshot \/ \E r \in Requests : ReaperFires(r)
    <2>1. ctl' = ReapExpired(ctl) /\ UNCHANGED <<now, pc>>
        BY <1>1 DEF Snapshot, ReaperFires
    <2>2. reapAt' \in [Requests -> Nat]
        BY <1>1, ReapedConsistent DEF Snapshot, ReaperFires
    <2> QED BY <2>1, <2>2, ReapedConsistent DEF Keeps
<1>2. CASE Tick \/ \E r \in Requests : ReaperSleeps(r)
    <2>1. now \in Nat /\ reapAt \in [Requests -> Nat]
        BY DEF IInv, TypeOK
    <2>2. ctl' = ctl /\ pc' = pc /\ now' \in Nat
        BY <1>2, <2>1 DEF Tick, ReaperSleeps
    <2>3. reapAt' \in [Requests -> Nat]
        BY <1>2, <2>1, NextReapTyped DEF Tick, ReaperSleeps
    <2> QED BY <2>2, <2>3 DEF Keeps, IInv, TypeOK
<1>3. CASE Close
    BY <1>3, CloseKeeps
<1>4. ASSUME NEW r \in Requests,
             AcquireClosed(r) \/ AcquireAborted(r) \/ \E w \in BOOLEAN : AcquireRefused(r, w)
      PROVE  Keeps
    BY <1>4, AcquireFails
<1>5. ASSUME NEW r \in Requests, AcquireNow(r) PROVE Keeps
    BY <1>5, AcquireNowKeeps
<1>6. ASSUME NEW r \in Requests, AcquireQueued(r) PROVE Keeps
    BY <1>6, AcquireQueuedKeeps
<1>7. ASSUME NEW r \in Requests, Hear(r) \/ Received(r) PROVE Keeps
    BY <1>7, HearKeeps
<1>8. ASSUME NEW r \in Requests, TimesOut(r) \/ AbortHeard(r) PROVE Keeps
    BY <1>8, GiveUpKeeps
<1>9. ASSUME NEW r \in Requests, Release(r) \/ Interrupt(r) PROVE Keeps
    BY <1>9, ReleaseKeeps
<1> QED BY <1>1, <1>2, <1>3, <1>4, <1>5, <1>6, <1>7, <1>8, <1>9 DEF Next

\* The inductive invariant holds in every reachable state.
THEOREM InvariantHolds == Spec => []IInv
<1>1. IInv /\ [Next]_vars => IInv'
    <2> SUFFICES ASSUME IInv, [Next]_vars PROVE IInv'
        OBVIOUS
    <2>1. CASE Next
        <3>1. Keeps
            BY <2>1, NextKeeps
        <3>2. ctl' \in Controller
            BY <3>1 DEF Keeps, Consistent, Sound
        <3> QED BY <3>1, <3>2 DEF Keeps, IInv, TypeOK
    <2>2. CASE UNCHANGED vars
        BY <2>2 DEF vars, IInv, TypeOK, Consistent, Sound, Busy, Owned, InPhase
    <2> QED BY <2>1, <2>2
<1> QED BY <1>1, InitIInv, PTL DEF Spec

\* Type correctness, for every configuration of the controller.
THEOREM TypesHold == Spec => []TypeOK
BY InvariantHolds, IInvImplies, PTL

\* The slot count is exact and bounded, whoever gives slots back.
THEOREM SlotsExactHolds == Spec => []SlotsExact
BY InvariantHolds, IInvImplies, PTL

\* Nobody queues beside a free slot, and the queue keeps its bound.
THEOREM NoIdleSlotHolds == Spec => []NoIdleSlot
BY InvariantHolds, IInvImplies, PTL

\* No lease is stranded by a waiter that left.
THEOREM LeaseOwnedHolds == Spec => []LeaseOwned
BY InvariantHolds, IInvImplies, PTL

\* No caller starts once the controller is closed.
THEOREM NothingStartsAfterCloseHolds == Spec => NothingStartsAfterClose
<1>1. ASSUME IInv, [Next]_vars, NEW r \in Requests, pc[r] # "holding", pc'[r] = "holding"
      PROVE  ~ctl.closed
    <2>0. pc \in [Requests -> Phase]
        BY <1>1 DEF IInv, TypeOK
    <2>1. CASE UNCHANGED vars
        BY <1>1, <2>1 DEF vars
    <2>2. CASE Snapshot \/ Close \/ Tick \/ \E s \in Requests : Reaper(s)
        BY <1>1, <2>2 DEF Snapshot, Close, Tick, Reaper, ReaperSleeps, ReaperFires
    <2>3. ASSUME NEW s \in Requests, NEW x \in Phase \ {"holding"}, pc' = [pc EXCEPT ![s] = x] PROVE FALSE
        BY <1>1, <2>0, <2>3
    <2>4. \A x \in {"closed", "cancelled", "overloaded", "waiting", "interrupted", "released"} :
              x \in Phase \ {"holding"}
        BY DEF Phase
    <2>5. ASSUME NEW s \in Requests,
                 \/ AcquireClosed(s) \/ AcquireAborted(s) \/ AcquireQueued(s)
                 \/ \E w \in BOOLEAN : AcquireRefused(s, w)
                 \/ Hear(s) \/ TimesOut(s) \/ AbortHeard(s) \/ Interrupt(s) \/ Release(s)
          PROVE  FALSE
        <3>1. PICK x \in {"closed", "cancelled", "overloaded", "waiting", "interrupted", "released"} :
                  pc' = [pc EXCEPT ![s] = x]
            BY <2>5 DEF AcquireClosed, AcquireAborted, AcquireQueued, AcquireRefused,
                        Hear, TimesOut, AbortHeard, Interrupt, Release
        <3> QED BY <2>3, <2>4, <3>1
    <2>6. ASSUME NEW s \in Requests, Received(s) PROVE ~ctl.closed
        <3>1. CASE ctl.closed
            <4>1. pc' = [pc EXCEPT ![s] = "closed"]
                BY <2>6, <3>1 DEF Received
            <4> QED BY <2>3, <2>4, <4>1
        <3> QED BY <3>1
    <2>7. ASSUME NEW s \in Requests, AcquireNow(s) PROVE ~ctl.closed
        BY <1>1, <2>7, ReapedConsistent DEF AcquireNow, Advances
    <2> QED BY <1>1, <2>1, <2>2, <2>5, <2>6, <2>7 DEF Next, Reaper
<1>2. IInv /\ [Next]_vars =>
        [\A r \in Requests : pc[r] # "holding" /\ pc'[r] = "holding" => ~ctl.closed]_vars
    BY <1>1
<1> QED BY <1>2, InvariantHolds, PTL DEF Spec, NothingStartsAfterClose

-----------------------------------------------------------------------------
(* The controller implements AdmissionPool. *)

\* A step of the pool, said of two states of the controller.
Turns(c, d) ==
    /\ d.closed = c.closed
    /\ \A r \in d.leases \ c.leases : c.outcome[r] # "granted" /\ ~c.closed
    /\ \A r \in Requests : d.outcome[r] = "granted" <=> c.outcome[r] = "granted" \/ r \in d.leases \ c.leases

\* What a method does to the leases is a turnover of slots.
LEMMA AdvancesTurns ==
    ASSUME NEW c, NEW d, Sound(c), Busy(c), Sound(d), Advances(c, d)
    PROVE  Turns(c, d)
<1>1. c.waiters \subseteq Requests /\ c.leases \subseteq Requests
    BY DEF Sound, Controller
<1>2. \A r \in d.leases \ c.leases : r \in c.waiters /\ c.outcome[r] = "none"
    BY DEF Advances, Sound
<1>3. \A r \in d.leases \ c.leases : ~c.closed
    BY <1>2 DEF Busy
<1>4. \A r \in Requests : d.outcome[r] = "granted" => c.outcome[r] = "granted" \/ r \in d.leases \ c.leases
    BY DEF Advances, Sound
<1>5. \A r \in Requests : c.outcome[r] = "granted" => d.outcome[r] = "granted"
    BY DEF Advances, Sound
<1>6. \A r \in d.leases : d.outcome[r] = "granted"
    BY DEF Sound
<1> QED BY <1>1, <1>2, <1>3, <1>4, <1>5, <1>6 DEF Turns, Advances

\* A turnover of the controller is one of the pool.
LEMMA TurnsIsTurnover ==
    ASSUME Sound(ctl), Sound(ctl'), Turns(ctl, ctl')
    PROVE  Pool!Turnover
<1> DEFINE past == {r \in Requests : ctl.outcome[r] = "granted"} \ ctl.leases
           pastp == {r \in Requests : ctl'.outcome[r] = "granted"} \ ctl'.leases
           back == ctl.leases \ ctl'.leases
           fresh == ctl'.leases \ ctl.leases
<1>1. ctl.leases \subseteq Requests /\ ctl'.leases \subseteq Requests
    BY DEF Sound, Controller
<1>2. back \in SUBSET ctl.leases /\ fresh \in SUBSET (Requests \ (ctl.leases \cup past))
    BY <1>1 DEF Turns
<1>3. fresh # {} => ~ctl.closed
    BY DEF Turns
<1>4. ctl'.leases = (ctl.leases \ back) \cup fresh
    OBVIOUS
<1>5. pastp = past \cup back
    BY <1>1 DEF Turns, Sound
<1>6. Cardinality(ctl'.leases) <= Concurrency
    BY DEF Sound
<1>7. (~ctl'.closed) = (~ctl.closed)
    BY DEF Turns
<1>8. Pool!Cardinality(ctl'.leases) = Cardinality(ctl'.leases)
    BY DEF Pool!Cardinality, Cardinality, Pool!IsFiniteSet, IsFiniteSet
<1>9. \E b \in SUBSET ctl.leases, f \in SUBSET (Requests \ (ctl.leases \cup past)) :
        /\ f # {} => ~ctl.closed
        /\ ctl'.leases = (ctl.leases \ b) \cup f
        /\ pastp = past \cup b
    BY <1>2, <1>3, <1>4, <1>5
<1> QED BY <1>6, <1>7, <1>8, <1>9 DEF Pool!Turnover

\* Updates of the controller that the pool does not see.
SameSlots(c, d) == d.closed = c.closed /\ d.leases = c.leases /\ d.outcome = c.outcome

\* Every action but close() and an immediate admission runs one method of the
\* controller and then, at most, moves counters or the queue.
LEMMA StepAdvances ==
    ASSUME IInv, Next, ~Close, \A r \in Requests : ~AcquireNow(r)
    PROVE  \E d : Sound(d) /\ Busy(d) /\ Advances(ctl, d) /\ SameSlots(d, ctl')
<1>1. Sound(ctl) /\ Busy(ctl) /\ now \in Nat /\ ctl \in Controller
    BY DEF IInv, Consistent, TypeOK
<1>2. Advances(ctl, ctl)
    BY <1>1 DEF Advances, Sound
<1>3. LET c == ReapExpired(ctl) IN Sound(c) /\ Busy(c) /\ Advances(ctl, c) /\ c \in Controller
    BY ReapedConsistent DEF Consistent
<1>4. ASSUME NEW r \in Requests
      PROVE  LET c == ReleaseLease(ctl, r) IN Sound(c) /\ Busy(c) /\ Advances(ctl, c) /\ c \in Controller
    BY <1>1, ReleaseSound DEF Sound
<1>5. CASE Snapshot \/ \E r \in Requests : ReaperFires(r)
    <2>1. SameSlots(ReapExpired(ctl), ctl')
        BY <1>5 DEF Snapshot, ReaperFires, SameSlots
    <2> QED BY <1>3, <2>1
<1>6. CASE Tick \/ \E r \in Requests : ReaperSleeps(r) \/ Hear(r)
    <2>1. SameSlots(ctl, ctl')
        BY <1>6 DEF Tick, ReaperSleeps, Hear, SameSlots
    <2> QED BY <1>1, <1>2, <2>1
<1>7. ASSUME NEW r \in Requests,
             AcquireClosed(r) \/ AcquireAborted(r) \/ AcquireQueued(r) \/ \E w \in BOOLEAN : AcquireRefused(r, w)
      PROVE  SameSlots(ReapExpired(ctl), ctl')
    BY <1>3, <1>7 DEF AcquireClosed, AcquireAborted, AcquireQueued, AcquireRefused, SameSlots, Controller
<1>8. ASSUME NEW r \in Requests, TimesOut(r) \/ AbortHeard(r)
      PROVE  SameSlots(ctl, ctl')
    BY <1>1, <1>8 DEF TimesOut, AbortHeard, Remove, SameSlots, Controller
<1>9. ASSUME NEW r \in Requests, Received(r) \/ Release(r)
      PROVE  SameSlots(ReleaseLease(ctl, r), ctl') \/ SameSlots(ctl, ctl')
    BY <1>4, <1>9 DEF Received, Release, SameSlots, Controller
<1>10. ASSUME NEW r \in Requests, Interrupt(r)
       PROVE  SameSlots(ReleaseLease(ctl, r), ctl') \/ SameSlots(ctl, ctl')
    BY <1>1, <1>10 DEF Interrupt, Cleanup, Remove, SameSlots, Controller
<1> QED BY <1>1, <1>2, <1>3, <1>4, <1>5, <1>6, <1>7, <1>8, <1>9, <1>10 DEF Next

\* AdmissionController implements a pool of `concurrency` slots: no request
\* holds a slot twice, none is handed out after close(), never too many.
THEOREM ImplementsPool == Spec => PoolSpec
<1>1. Init => Pool!Init
    BY DEF Init, Pool!Init
<1>2. ASSUME IInv, IInv', [Next]_vars PROVE [Pool!Next]_(Pool!vars)
    <2>1. Sound(ctl) /\ Sound(ctl') /\ Busy(ctl) /\ ctl \in Controller
        BY <1>2 DEF IInv, Consistent, Sound
    <2>2. CASE UNCHANGED vars
        BY <2>2 DEF vars, Pool!vars
    <2>3. CASE Close
        <3>1. /\ ~ctl.closed /\ ctl'.closed /\ ctl'.leases = ctl.leases
              /\ \A r \in Requests : ctl'.outcome[r] = IF r \in ctl.waiters THEN "closed" ELSE ctl.outcome[r]
            BY <2>1, <2>3 DEF Close, Controller
        <3>2. {r \in Requests : ctl'.outcome[r] = "granted"} = {r \in Requests : ctl.outcome[r] = "granted"}
            BY <2>1, <3>1 DEF Sound
        <3> QED BY <3>1, <3>2 DEF Pool!Next, Pool!Shut
    <2>4. ASSUME NEW r \in Requests, AcquireNow(r) PROVE Turns(ctl, ctl')
        <3> DEFINE c == ReapExpired(ctl)
        <3>1. /\ Sound(c) /\ Busy(c) /\ Advances(ctl, c) /\ c \in Controller
              /\ r \notin c.leases /\ c.outcome[r] = "none"
            BY <1>2, <2>4, ReapedConsistent, Newcomer DEF Consistent, AcquireNow, Arriving
        <3>2. ctl' = GrantTo(c, {r}) /\ ~c.closed
            BY <2>4 DEF AcquireNow
        <3> HIDE DEF c
        <3>3. /\ ctl'.leases = c.leases \cup {r} /\ ctl'.closed = c.closed
              /\ \A s \in Requests : ctl'.outcome[s] = IF s = r THEN "granted" ELSE c.outcome[s]
            BY <3>1, <3>2 DEF GrantTo, MakeLeases, Controller
        <3>4. Turns(ctl, c)
            BY <2>1, <3>1, AdvancesTurns
        <3>5. r \notin ctl.leases /\ ctl.outcome[r] # "granted"
            BY <2>1, <3>1, <3>4 DEF Turns, Sound
        <3> QED BY <3>2, <3>3, <3>4, <3>5 DEF Turns
    <2>5. CASE Next /\ ~Close /\ \A r \in Requests : ~AcquireNow(r)
        <3>1. PICK d : Sound(d) /\ Busy(d) /\ Advances(ctl, d) /\ SameSlots(d, ctl')
            BY <1>2, <2>5, StepAdvances
        <3>2. Turns(ctl, d)
            BY <2>1, <3>1, AdvancesTurns
        <3>3. Turns(ctl, ctl')
            BY <3>1, <3>2 DEF Turns, SameSlots
        <3> QED BY <2>1, <3>3, TurnsIsTurnover DEF Pool!Next
    <2> QED BY <1>2, <2>1, <2>2, <2>3, <2>4, <2>5, TurnsIsTurnover DEF Pool!Next
<1> QED BY <1>1, <1>2, InvariantHolds, PTL DEF Spec, PoolSpec, Pool!Spec
-----------------------------------------------------------------------------
(* Grants follow the queue. *)

\* What a method does to slots and queue, and then at most a newcomer queues, or
\* somebody leaves.
LEMMA InOrderAfter ==
    ASSUME NEW c, NEW d, InOrder(c, d), NEW e, e.leases = d.leases, c.waiters \cap e.waiters \subseteq d.waiters
    PROVE  InOrder(c, e)
BY DEF InOrder

LEMMA StepInOrder ==
    ASSUME IInv, Next
    PROVE  InOrder(ctl, ctl')
<1>1. Sound(ctl) /\ Busy(ctl) /\ now \in Nat /\ ctl \in Controller
    BY DEF IInv, Consistent, TypeOK
<1>2. ASSUME ctl'.leases = ctl.leases
      PROVE  InOrder(ctl, ctl')
    BY <1>2 DEF InOrder
<1>3. PICK c : c = ReapExpired(ctl)
    OBVIOUS
<1>4. Sound(c) /\ Busy(c) /\ InOrder(ctl, c) /\ c \in Controller /\ Advances(ctl, c)
    BY <1>1, <1>3, ReapSound DEF Sound
<1>5. ASSUME NEW r \in Requests
      PROVE  LET d == ReleaseLease(ctl, r) IN InOrder(ctl, d) /\ d \in Controller
    BY <1>1, ReleaseSound DEF Sound
<1>6. ASSUME NEW r \in Requests, AcquireClosed(r) \/ AcquireAborted(r) \/ \E wait \in BOOLEAN : AcquireRefused(r, wait)
      PROVE  InOrder(ctl, ctl')
    <2>1. ctl'.leases = c.leases /\ ctl'.waiters = c.waiters
        BY <1>3, <1>4, <1>6 DEF AcquireClosed, AcquireAborted, AcquireRefused, Controller
    <2> QED BY <1>4, <2>1, InOrderAfter
\* Where a slot is left, nobody is queued.
<1>7. ASSUME NEW r \in Requests, AcquireNow(r)
      PROVE  InOrder(ctl, ctl')
    <2>1. ctl' = GrantTo(c, {r}) /\ c.active < Concurrency
        BY <1>3, <1>7 DEF AcquireNow
    <2>2. c.waiters = {}
        BY <1>4, <2>1, ConcurrencyPositive DEF Busy, Controller
    <2>3. ctl'.waiters = {}
        BY <1>4, <2>1, <2>2 DEF GrantTo, MakeLeases, Controller
    <2> QED BY <2>3 DEF InOrder
<1>8. ASSUME NEW r \in Requests, AcquireQueued(r)
      PROVE  InOrder(ctl, ctl')
    <2>1. ctl'.leases = c.leases /\ ctl'.waiters = c.waiters \cup {r}
        BY <1>3, <1>4, <1>8 DEF AcquireQueued, Controller
    <2>2. r \notin ctl.waiters
        BY <1>8 DEF AcquireQueued, Arriving, IInv, Consistent, InPhase
    <2>3. ctl.waiters \cap ctl'.waiters \subseteq c.waiters
        BY <2>1, <2>2
    <2> QED BY <1>4, <2>1, <2>3, InOrderAfter
<1>9. ASSUME NEW r \in Requests, Hear(r) \/ ReaperSleeps(r) \/ TimesOut(r) \/ AbortHeard(r)
      PROVE  ctl'.leases = ctl.leases
    BY <1>1, <1>9 DEF Hear, ReaperSleeps, TimesOut, AbortHeard, Remove, Controller
<1>10. ASSUME NEW r \in Requests, Received(r) \/ Release(r)
       PROVE  InOrder(ctl, ctl')
    <2>1. PICK d : d = ReleaseLease(ctl, r)
        OBVIOUS
    <2>2. InOrder(ctl, d) /\ d \in Controller
        BY <1>5, <2>1
    <2>3. ctl' = ctl \/ ctl' = d \/ ctl' = [d EXCEPT !.totals.closed = @ + 1]
        BY <1>10, <2>1 DEF Received, Release
    <2>4. ctl' = ctl \/ (ctl'.leases = d.leases /\ ctl'.waiters = d.waiters)
        BY <2>2, <2>3 DEF Controller
    <2> QED BY <1>2, <2>2, <2>4, InOrderAfter
<1>11. ASSUME NEW r \in Requests, Interrupt(r)
       PROVE  InOrder(ctl, ctl')
    <2>1. \/ ctl' = ctl \/ ctl' = ReleaseLease(ctl, r)
          \/ ctl' = [Remove(ctl, r) EXCEPT !.totals.cancelled = @ + 1]
        BY <1>11 DEF Interrupt, Cleanup
    <2>2. [Remove(ctl, r) EXCEPT !.totals.cancelled = @ + 1].leases = ctl.leases
        BY <1>1 DEF Remove, Controller
    <2> QED BY <1>2, <1>5, <2>1, <2>2
<1>12. CASE Snapshot \/ \E r \in Requests : ReaperFires(r)
    BY <1>3, <1>4, <1>12 DEF Snapshot, ReaperFires
<1>13. CASE Close
    BY <1>1, <1>2, <1>13 DEF Close, Controller
<1>14. CASE Tick
    BY <1>2, <1>14 DEF Tick
<1> QED BY <1>2, <1>6, <1>7, <1>8, <1>9, <1>10, <1>11, <1>12, <1>13, <1>14 DEF Next

\* fillSlots() and acquire(): whoever is granted a slot was queued before every
\* waiter that stays queued, for any number of slots freed at once.
THEOREM ServedInOrderHolds == Spec => ServedInOrder
<1>1. ASSUME IInv, [Next]_vars
      PROVE  [\A r \in ctl'.leases \ ctl.leases, w \in ctl.waiters \cap ctl'.waiters :
                 r \in ctl.waiters /\ ctl.place[r] < ctl.place[w]]_vars
    <2>1. CASE UNCHANGED vars
        BY <2>1
    <2>2. CASE Next
        <3>1. InOrder(ctl, ctl')
            BY <1>1, <2>2, StepInOrder
        <3> QED BY <3>1 DEF InOrder
    <2> QED BY <1>1, <2>1, <2>2
<1> QED BY <1>1, InvariantHolds, PTL DEF Spec, ServedInOrder
-----------------------------------------------------------------------------
(* The reapers wake in time. *)

\* What a method does to the leases: those it leaves keep their expiry, those it
\* makes have the whole lifetime before them.
Dates(c, d) ==
    \A l \in d.leases : \/ l \in c.leases /\ d.expiresAt[l] = c.expiresAt[l]
                        \/ d.expiresAt[l] = now + MaxDuration

LEMMA DatesTwice ==
    ASSUME NEW c, NEW e, NEW d, Dates(c, e), Dates(e, d)
    PROVE  Dates(c, d)
BY DEF Dates

\* Slots that are free are granted for the whole lifetime.
LEMMA FillDates ==
    ASSUME NEW c \in Controller, now \in Nat
    PROVE  Dates(c, FillSlots(c))
<1> DEFINE e == PruneExpiredWaiters(c)
           G == Served(e)
           d == GrantTo(e, G)
<1>1. e \in Controller /\ e.leases = c.leases /\ e.expiresAt = c.expiresAt
    BY PruneTyped
<1> HIDE DEF e
<1>2. G \subseteq Requests /\ c.leases \subseteq Requests
    BY <1>1 DEF Served, Controller
<1>3. d.leases = e.leases \cup G
    <2> HIDE DEF G
    <2> QED BY <1>1 DEF GrantTo, MakeLeases, Controller
<1>4. \A l \in Requests : d.expiresAt[l] = IF l \in G THEN now + MaxDuration ELSE e.expiresAt[l]
    <2> HIDE DEF G
    <2> QED BY <1>1 DEF GrantTo, MakeLeases, Controller
<1> HIDE DEF d, G
<1>5. Dates(c, d)
    BY <1>1, <1>2, <1>3, <1>4 DEF Dates
<1> QED BY <1>5 DEF FillSlots, d, G, e

\* The release of a lease.
LEMMA ReleaseDates ==
    ASSUME NEW c \in Controller, now \in Nat, NEW r \in Requests
    PROVE  Dates(c, ReleaseLease(c, r))
<1> DEFINE b == [c EXCEPT !.leases = @ \ {r}]
           e == [b EXCEPT !.active = IF @ > 0 THEN @ - 1 ELSE @]
<1>1. ReleaseLease(c, r) = IF r \in c.leases THEN (IF c.closed THEN e ELSE FillSlots(e)) ELSE c
    BY DEF ReleaseLease, ReleaseSlot, Controller
<1>2. e \in Controller /\ e.leases = c.leases \ {r} /\ e.expiresAt = c.expiresAt
    <2>1. PICK n \in Nat : n = IF c.active > 0 THEN c.active - 1 ELSE c.active
        BY DEF Controller
    <2>2. e = [c EXCEPT !.leases = c.leases \ {r}, !.active = n]
        BY <2>1 DEF Controller
    <2> HIDE DEF e
    <2> QED BY <2>2 DEF Controller
<1> HIDE DEF e
<1>3. Dates(e, FillSlots(e))
    BY <1>2, FillDates
<1>4. Dates(c, e) /\ Dates(c, c)
    BY <1>2 DEF Dates
<1> QED BY <1>1, <1>3, <1>4, DatesTwice

\* reapExpired().
LEMMA ReapDates ==
    ASSUME NEW c, Sound(c), now \in Nat
    PROVE  Dates(c, ReapExpired(c))
<1> DEFINE p == PruneExpiredWaiters(c)
           gone == ExpiredLeases(p)
           e == DropLeases(p, gone)
<1>1. Sound(p) /\ p.leases = c.leases /\ p.expiresAt = c.expiresAt
    BY PruneSound, PruneTyped DEF Sound
<1>2. \/ ReapExpired(c) = p
      \/ ReapExpired(c) = e
      \/ ReapExpired(c) = FillSlots(e)
    BY MaxDurationNatural DEF ReapExpired
<1> HIDE DEF p
<1>3. p \in Controller /\ p.leases \in SUBSET Requests /\ gone \in SUBSET p.leases /\ p.active \in Nat
    BY <1>1 DEF Sound, Controller, ExpiredLeases
<1> HIDE DEF gone
<1>4. p.active - Cardinality(gone) \in Nat
    <2>1. gone \in SUBSET Requests /\ p.leases \ gone \in SUBSET Requests
        BY <1>3
    <2>2. Cardinality(p.leases \ gone) = Cardinality(p.leases) - Cardinality(gone)
        BY <1>3, CardinalityMinus
    <2> QED BY <1>1, <2>1, <2>2, FiniteRequests DEF Sound
<1>5. e \in Controller /\ e.leases = p.leases \ gone /\ e.expiresAt = p.expiresAt
    BY <1>3, <1>4 DEF DropLeases, Controller
<1> HIDE DEF e
<1>6. Dates(c, p) /\ Dates(c, e)
    BY <1>1, <1>5 DEF Dates
<1>7. Dates(e, FillSlots(e))
    BY <1>5, FillDates
<1> QED BY <1>2, <1>6, <1>7, DatesTwice

\* What every step does to the leases.
LEMMA StepDates ==
    ASSUME IInv, Next
    PROVE  Dates(ctl, ctl')
<1>1. Sound(ctl) /\ now \in Nat /\ ctl \in Controller
    BY DEF IInv, Consistent, TypeOK
<1>2. PICK c : c = ReapExpired(ctl)
    OBVIOUS
<1>3. Dates(ctl, c) /\ c \in Controller
    BY <1>1, <1>2, ReapDates, ReapedConsistent
<1>4. ASSUME ctl'.leases = ctl.leases, ctl'.expiresAt = ctl.expiresAt
      PROVE  Dates(ctl, ctl')
    BY <1>4 DEF Dates
<1>5. ASSUME ctl'.leases = c.leases, ctl'.expiresAt = c.expiresAt
      PROVE  Dates(ctl, ctl')
    BY <1>3, <1>5 DEF Dates
<1>6. ASSUME NEW r \in Requests,
             \/ AcquireClosed(r) \/ AcquireAborted(r) \/ AcquireQueued(r)
             \/ \E wait \in BOOLEAN : AcquireRefused(r, wait)
      PROVE  Dates(ctl, ctl')
    <2>1. ctl'.leases = c.leases /\ ctl'.expiresAt = c.expiresAt
        BY <1>2, <1>3, <1>6 DEF AcquireClosed, AcquireAborted, AcquireQueued, AcquireRefused, Controller
    <2> QED BY <1>5, <2>1
<1>7. ASSUME NEW r \in Requests, AcquireNow(r)
      PROVE  Dates(ctl, ctl')
    <2>1. ctl' = GrantTo(c, {r})
        BY <1>2, <1>7 DEF AcquireNow
    <2>2. ctl'.leases = c.leases \cup {r}
        BY <1>3, <2>1 DEF GrantTo, MakeLeases, Controller
    <2>3. \A l \in Requests : ctl'.expiresAt[l] = IF l \in {r} THEN now + MaxDuration ELSE c.expiresAt[l]
        BY <1>3, <2>1 DEF GrantTo, MakeLeases, Controller
    <2>4. Dates(c, ctl')
        BY <1>3, <2>2, <2>3 DEF Dates, Controller
    <2> QED BY <1>3, <2>4, DatesTwice
<1>8. ASSUME NEW r \in Requests, Hear(r) \/ ReaperSleeps(r) \/ TimesOut(r) \/ AbortHeard(r)
      PROVE  Dates(ctl, ctl')
    BY <1>1, <1>4, <1>8 DEF Hear, ReaperSleeps, TimesOut, AbortHeard, Remove, Controller
<1>9. ASSUME NEW r \in Requests, Received(r) \/ Release(r) \/ Interrupt(r)
      PROVE  Dates(ctl, ctl')
    <2>1. PICK d : d = ReleaseLease(ctl, r)
        OBVIOUS
    <2>2. Dates(ctl, d) /\ d \in Controller
        BY <1>1, <2>1, ReleaseDates, ReleaseSound DEF Sound, IInv, Consistent
    <2>3. \/ ctl' = ctl \/ ctl' = d \/ ctl' = [d EXCEPT !.totals.closed = @ + 1]
          \/ ctl' = [Remove(ctl, r) EXCEPT !.totals.cancelled = @ + 1]
        BY <1>9, <2>1 DEF Received, Release, Interrupt, Cleanup
    <2>4. CASE ctl' = [d EXCEPT !.totals.closed = @ + 1]
        <3>1. ctl'.leases = d.leases /\ ctl'.expiresAt = d.expiresAt
            BY <2>2, <2>4 DEF Controller
        <3> QED BY <2>2, <3>1 DEF Dates
    <2>5. CASE ctl' = [Remove(ctl, r) EXCEPT !.totals.cancelled = @ + 1]
        BY <1>1, <1>4, <2>5 DEF Remove, Controller
    <2> QED BY <1>4, <2>2, <2>3, <2>4, <2>5
<1>10. CASE Snapshot \/ \E r \in Requests : ReaperFires(r)
    BY <1>2, <1>3, <1>10 DEF Snapshot, ReaperFires
<1>11. CASE Close \/ Tick
    BY <1>1, <1>4, <1>11 DEF Close, Tick, Controller
<1> QED BY <1>6, <1>7, <1>8, <1>9, <1>10, <1>11 DEF Next

\* What keeps the reapers in time: only a waiter's reaper sleeps, and no lease
\* outlives a lease made now.
Timely ==
    /\ \A r \in Requests : pc[r] # "waiting" => reapAt[r] = 0
    /\ \A l \in ctl.leases : ctl.expiresAt[l] <= now + MaxDuration
    /\ ReaperInTime

\* A reaper's sleep ends when the first lease expires, or as soon as it can.
LEMMA NextReapFirst ==
    ASSUME IInv, NEW l \in ctl.leases
    PROVE  NextReap <= ctl.expiresAt[l] \/ NextReap <= now + 1
<1>1. now \in Nat /\ ctl.expiresAt \in [Requests -> Nat] /\ ctl.leases \subseteq Requests
    BY DEF IInv, TypeOK, Controller
<1>2. PICK first : first = CHOOSE m \in ctl.leases : \A n \in ctl.leases : ctl.expiresAt[m] <= ctl.expiresAt[n]
    OBVIOUS
<1>3. NextReap = IF ctl.expiresAt[first] > now THEN ctl.expiresAt[first] ELSE now + 1
    BY <1>2 DEF NextReap
<1>4. first \in ctl.leases /\ ctl.expiresAt[first] <= ctl.expiresAt[l]
    <2>1. \E m \in ctl.leases : \A n \in ctl.leases : ctl.expiresAt[m] <= ctl.expiresAt[n]
        BY <1>1, Earliest
    <2> QED BY <1>2, <2>1
<1> QED BY <1>1, <1>3, <1>4

\* While a request queues some lease is out, so its reaper sleeps no longer than
\* a lease made now would live.
LEMMA SleepBounded ==
    ASSUME IInv, Timely, MaxDuration > 0, NEW w \in ctl.waiters
    PROVE  reapAt[w] <= now + MaxDuration
<1>1. /\ now \in Nat /\ ctl.expiresAt \in [Requests -> Nat] /\ ctl.leases \subseteq Requests
      /\ reapAt[w] \in Nat
    BY DEF IInv, TypeOK, Controller
<1>2. ctl.leases # {}
    <2>1. Cardinality(ctl.leases) = Concurrency
        BY DEF IInv, Consistent, Busy, Sound
    <2> QED BY <2>1, ConcurrencyPositive, FS_EmptySet
<1>3. PICK l \in ctl.leases : TRUE
    BY <1>2
<1>4. reapAt[w] <= ctl.expiresAt[l] \/ reapAt[w] <= now + 1
    BY DEF Timely, ReaperInTime
<1>5. ctl.expiresAt[l] <= now + MaxDuration
    BY DEF Timely
<1>6. ctl.expiresAt[l] \in Nat
    BY <1>1
<1> QED BY <1>1, <1>4, <1>5, <1>6, MaxDurationNatural

\* Where only leases and waiters change, and reapers wake.
LEMMA TimelyKept ==
    ASSUME IInv, IInv', Timely, Dates(ctl, ctl'), now' = now,
           \A w \in Requests : reapAt'[w] = reapAt[w] \/ reapAt'[w] = 0,
           \A w \in ctl'.waiters : w \in ctl.waiters \/ reapAt'[w] = 0,
           \A r \in Requests : pc'[r] # "waiting" => pc[r] # "waiting" \/ reapAt'[r] = 0
    PROVE  Timely'
<1>1. /\ now \in Nat /\ ctl.expiresAt \in [Requests -> Nat] /\ ctl.leases \subseteq Requests
      /\ reapAt \in [Requests -> Nat]
    BY DEF IInv, TypeOK, Controller
<1>2. /\ ctl'.expiresAt \in [Requests -> Nat] /\ ctl'.leases \subseteq Requests
      /\ ctl'.waiters \subseteq Requests /\ reapAt' \in [Requests -> Nat]
    BY DEF IInv, TypeOK, Controller
<1>3. \A r \in Requests : pc'[r] # "waiting" => reapAt'[r] = 0
    BY DEF Timely
<1>4. \A l \in ctl'.leases : ctl'.expiresAt[l] <= now + MaxDuration
    <2> SUFFICES ASSUME NEW l \in ctl'.leases PROVE ctl'.expiresAt[l] <= now + MaxDuration
        OBVIOUS
    <2>1. CASE l \in ctl.leases /\ ctl'.expiresAt[l] = ctl.expiresAt[l]
        BY <2>1 DEF Timely
    <2>2. CASE ctl'.expiresAt[l] = now + MaxDuration
        BY <1>1, <2>2, MaxDurationNatural
    <2> QED BY <2>1, <2>2 DEF Dates
<1>5. ReaperInTime'
    <2> SUFFICES ASSUME NEW w \in ctl'.waiters, NEW l \in ctl'.leases, MaxDuration > 0
                 PROVE  reapAt'[w] <= ctl'.expiresAt[l] \/ reapAt'[w] <= now' + 1
        BY DEF ReaperInTime
    <2>1. CASE reapAt'[w] = 0
        BY <1>1, <2>1
    <2>2. CASE w \in ctl.waiters /\ reapAt'[w] = reapAt[w]
        <3>1. CASE l \in ctl.leases /\ ctl'.expiresAt[l] = ctl.expiresAt[l]
            <4>1. reapAt[w] <= ctl.expiresAt[l] \/ reapAt[w] <= now + 1
                BY <2>2, <3>1 DEF Timely, ReaperInTime
            <4> QED BY <2>2, <3>1, <4>1
        <3>2. CASE ctl'.expiresAt[l] = now + MaxDuration
            <4>1. reapAt[w] <= now + MaxDuration
                BY <2>2, SleepBounded
            <4> QED BY <2>2, <3>2, <4>1
        <3> QED BY <3>1, <3>2 DEF Dates
    <2> QED BY <1>2, <2>1, <2>2
<1> QED BY <1>3, <1>4, <1>5 DEF Timely

LEMMA TimelyStep ==
    ASSUME IInv, IInv', Timely, Next
    PROVE  Timely'
<1>1. /\ Sound(ctl) /\ Busy(ctl) /\ now \in Nat /\ ctl \in Controller
      /\ pc \in [Requests -> Phase] /\ reapAt \in [Requests -> Nat]
    BY DEF IInv, Consistent, TypeOK
<1>2. Dates(ctl, ctl')
    BY StepDates
<1>3. PICK c : c = ReapExpired(ctl)
    OBVIOUS
<1>4. c \in Controller /\ c.waiters \subseteq ctl.waiters
    BY <1>1, <1>3, ReapedConsistent DEF Advances
<1>5. ASSUME NEW r \in Requests,
             \/ AcquireClosed(r) \/ AcquireAborted(r) \/ AcquireNow(r)
             \/ \E wait \in BOOLEAN : AcquireRefused(r, wait)
      PROVE  Timely'
    <2>1. now' = now /\ reapAt' = reapAt /\ pc[r] = "idle" /\ \A q \in Requests : q # r => pc'[q] = pc[q]
        BY <1>1, <1>5 DEF AcquireClosed, AcquireAborted, AcquireNow, AcquireRefused, Arriving
    <2>2. ctl'.waiters \subseteq c.waiters
        <3>1. CASE AcquireNow(r)
            <4>1. ctl' = GrantTo(c, {r})
                BY <1>3, <3>1 DEF AcquireNow
            <4>2. ctl'.waiters = c.waiters \ {r}
                BY <1>4, <4>1 DEF GrantTo, MakeLeases, Controller
            <4> QED BY <4>2
        <3>2. CASE AcquireClosed(r) \/ AcquireAborted(r) \/ \E wait \in BOOLEAN : AcquireRefused(r, wait)
            BY <1>3, <1>4, <3>2 DEF AcquireClosed, AcquireAborted, AcquireRefused, Controller
        <3> QED BY <1>5, <3>1, <3>2
    <2>3. \A q \in Requests : pc'[q] # "waiting" => pc[q] # "waiting"
        BY <2>1
    <2> QED BY <1>2, <1>4, <2>1, <2>2, <2>3, TimelyKept
\* A newcomer's reaper has not measured its sleep yet.
<1>6. ASSUME NEW r \in Requests, AcquireQueued(r)
      PROVE  Timely'
    <2>1. now' = now /\ reapAt' = reapAt /\ pc[r] = "idle" /\ pc' = [pc EXCEPT ![r] = "waiting"]
        BY <1>6 DEF AcquireQueued, Arriving
    <2>2. ctl'.waiters = c.waiters \cup {r}
        BY <1>3, <1>4, <1>6 DEF AcquireQueued, Controller
    <2>3. reapAt'[r] = 0
        BY <2>1 DEF Timely
    <2>4. \A q \in Requests : pc'[q] # "waiting" => pc[q] # "waiting"
        BY <1>1, <2>1
    <2> QED BY <1>2, <1>4, <2>1, <2>2, <2>3, <2>4, TimelyKept
\* The race that ends takes its reaper along.
<1>7. ASSUME NEW r \in Requests,
             Hear(r) \/ Received(r) \/ TimesOut(r) \/ AbortHeard(r) \/ Interrupt(r)
      PROVE  Timely'
    <2>1. now' = now /\ RaceEnds(r) /\ \A q \in Requests : q # r => pc'[q] = pc[q]
        BY <1>1, <1>7 DEF Hear, Received, TimesOut, AbortHeard, Interrupt
    <2>2. \A q \in Requests : reapAt'[q] = IF q = r THEN 0 ELSE reapAt[q]
        BY <1>1, <2>1 DEF RaceEnds
    <2>3. ctl'.waiters \subseteq ctl.waiters
        <3>1. PICK d : d = ReleaseLease(ctl, r)
            OBVIOUS
        <3>2. d \in Controller /\ d.waiters \subseteq ctl.waiters
            BY <1>1, <3>1, ReleaseSound DEF Sound, Advances
        <3>3. \/ ctl' = ctl \/ ctl' = d \/ ctl' = [d EXCEPT !.totals.closed = @ + 1]
              \/ ctl' = [Remove(ctl, r) EXCEPT !.totals.cancelled = @ + 1]
              \/ ctl' = [Remove(ctl, r) EXCEPT !.totals.rejected = @ + 1]
            BY <1>7, <3>1 DEF Hear, Received, TimesOut, AbortHeard, Interrupt, Cleanup
        <3>4. CASE ctl' = [d EXCEPT !.totals.closed = @ + 1]
            BY <3>2, <3>4 DEF Controller
        <3>5. CASE \/ ctl' = [Remove(ctl, r) EXCEPT !.totals.cancelled = @ + 1]
                   \/ ctl' = [Remove(ctl, r) EXCEPT !.totals.rejected = @ + 1]
            <4>1. PICK m : m = Remove(ctl, r)
                OBVIOUS
            <4>2. m \in Controller /\ m.waiters \subseteq ctl.waiters
                BY <1>1, <4>1 DEF Remove, Controller
            <4>3. ctl' = [m EXCEPT !.totals.cancelled = @ + 1] \/ ctl' = [m EXCEPT !.totals.rejected = @ + 1]
                BY <3>5, <4>1
            <4> QED BY <4>2, <4>3 DEF Controller
        <3> QED BY <3>2, <3>3, <3>4, <3>5
    <2>4. \A q \in Requests : pc'[q] # "waiting" => pc[q] # "waiting" \/ reapAt'[q] = 0
        BY <2>1, <2>2
    <2> QED BY <1>2, <2>1, <2>2, <2>3, <2>4, TimelyKept
<1>8. ASSUME NEW r \in Requests, Release(r)
      PROVE  Timely'
    <2>1. now' = now /\ reapAt' = reapAt /\ pc[r] = "holding" /\ pc' = [pc EXCEPT ![r] = "released"]
        BY <1>8 DEF Release
    <2>2. ctl'.waiters \subseteq ctl.waiters
        BY <1>1, <1>8, ReleaseSound DEF Release, Advances
    <2>3. \A q \in Requests : pc'[q] # "waiting" => pc[q] # "waiting"
        BY <1>1, <2>1
    <2> QED BY <1>2, <2>1, <2>2, <2>3, TimelyKept
<1>9. CASE Snapshot \/ \E r \in Requests : ReaperFires(r)
    <2>1. now' = now /\ pc' = pc /\ ctl' = c
        BY <1>3, <1>9 DEF Snapshot, ReaperFires
    <2>2. \A w \in Requests : reapAt'[w] = reapAt[w] \/ reapAt'[w] = 0
        BY <1>1, <1>9 DEF Snapshot, ReaperFires
    <2> QED BY <1>2, <1>4, <2>1, <2>2, TimelyKept
<1>10. CASE Close
    <2>1. now' = now /\ pc' = pc /\ reapAt' = reapAt /\ ctl'.waiters = {}
        BY <1>1, <1>10 DEF Close, Controller
    <2> QED BY <1>2, <2>1, TimelyKept
<1>11. ASSUME NEW r \in Requests, ReaperSleeps(r)
       PROVE  Timely'
    <2>1. now' = now /\ ctl' = ctl /\ pc' = pc /\ pc[r] = "waiting" /\ reapAt' = [reapAt EXCEPT ![r] = NextReap]
        BY <1>11 DEF ReaperSleeps
    <2>2. \A q \in Requests : reapAt'[q] = IF q = r THEN NextReap ELSE reapAt[q]
        BY <1>1, <2>1
    <2>3. ReaperInTime'
        <3> SUFFICES ASSUME NEW w \in ctl.waiters, NEW l \in ctl.leases, MaxDuration > 0
                     PROVE  reapAt'[w] <= ctl.expiresAt[l] \/ reapAt'[w] <= now + 1
            BY <2>1 DEF ReaperInTime
        <3>1. w \in Requests
            BY <1>1 DEF Controller
        <3>2. CASE w = r
            BY <2>2, <3>1, <3>2, NextReapFirst
        <3>3. CASE w # r
            <4>1. reapAt[w] <= ctl.expiresAt[l] \/ reapAt[w] <= now + 1
                BY DEF Timely, ReaperInTime
            <4> QED BY <2>2, <3>1, <3>3, <4>1
        <3> QED BY <3>2, <3>3
    <2>4. \A q \in Requests : pc'[q] # "waiting" => reapAt'[q] = 0
        BY <2>1, <2>2 DEF Timely
    <2>5. \A l \in ctl'.leases : ctl'.expiresAt[l] <= now' + MaxDuration
        BY <2>1 DEF Timely
    <2> QED BY <2>3, <2>4, <2>5 DEF Timely
<1>12. CASE Tick
    <2>1. now' = now + 1 /\ ctl' = ctl /\ pc' = pc /\ reapAt' = reapAt
        BY <1>12 DEF Tick
    <2>2. ctl.expiresAt \in [Requests -> Nat] /\ ctl.leases \subseteq Requests /\ ctl.waiters \subseteq Requests
        BY <1>1 DEF Controller
    <2>3. \A l \in ctl.leases : ctl.expiresAt[l] <= now + 1 + MaxDuration
        <3> SUFFICES ASSUME NEW l \in ctl.leases PROVE ctl.expiresAt[l] <= now + 1 + MaxDuration
            OBVIOUS
        <3>1. ctl.expiresAt[l] <= now + MaxDuration /\ ctl.expiresAt[l] \in Nat
            BY <2>2 DEF Timely
        <3> QED BY <1>1, <3>1, MaxDurationNatural
    <2>4. ReaperInTime'
        <3> SUFFICES ASSUME NEW w \in ctl.waiters, NEW l \in ctl.leases, MaxDuration > 0
                     PROVE  reapAt[w] <= ctl.expiresAt[l] \/ reapAt[w] <= now + 1 + 1
            BY <2>1 DEF ReaperInTime
        <3>1. reapAt[w] \in Nat
            BY <1>1, <2>2
        <3>2. reapAt[w] <= ctl.expiresAt[l] \/ reapAt[w] <= now + 1
            BY DEF Timely, ReaperInTime
        <3> QED BY <1>1, <3>1, <3>2
    <2> QED BY <2>1, <2>3, <2>4 DEF Timely
<1> QED BY <1>5, <1>6, <1>7, <1>8, <1>9, <1>10, <1>11, <1>12 DEF Next

\* nextReapDelay(): no queued request's reaper sleeps past the expiry of a lease,
\* except for the least sleep when the lease was overdue already, however leases
\* are released, reaped and granted while it sleeps.
THEOREM ReaperInTimeHolds == Spec => []ReaperInTime
<1>1. Init => Timely
    BY MaxDurationNatural DEF Init, Timely, ReaperInTime
<1>2. IInv /\ IInv' /\ Timely /\ [Next]_vars => Timely'
    <2> SUFFICES ASSUME IInv, IInv', Timely, [Next]_vars PROVE Timely'
        OBVIOUS
    <2>1. CASE Next
        BY <2>1, TimelyStep
    <2>2. CASE UNCHANGED vars
        BY <2>2 DEF vars, Timely, ReaperInTime
    <2> QED BY <2>1, <2>2
<1>3. Timely => ReaperInTime
    BY DEF Timely
<1> QED BY <1>1, <1>2, <1>3, InvariantHolds, PTL DEF Spec
=============================================================================
