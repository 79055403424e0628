--------------------------- MODULE CallAdmissionProofs ---------------------------
(***************************************************************************)
(* Proofs about CallAdmission for any calls, keys, limits and bounds. What *)
(* makes the counting hold although the map may lose a partition's state   *)
(* and make another is that permits and waiters name their state object,   *)
(* not their key, and that an object is named after the call that made it. *)
(***************************************************************************)
EXTENDS CallAdmission, FiniteSetTheorems, FunctionTheorems, WellFoundedInduction, TLAPS

\* The permits that state object o gave and has not got back.
Permits(c, o) == {s \in c.held : c.home[s] = o}

\* A permit's owner can still release it; a waiter is queued in its own state
\* object, undecided and without a permit; an object counts its permits; and an
\* object that a call or the map refers to was made by a call that has arrived.
\* Nothing is recorded for a call that has not.
OwnersKnown(c, p) ==
    \A s \in c.held :
        /\ c.home[s] # None
        /\ p[s] = "running" \/ (p[s] = "waiting" /\ c.outcome[s] = "permit")
WaitersUndecided(c, p) ==
    \A o \in Calls : \A w \in c.states[o].waiters :
        c.home[w] = o /\ p[w] = "waiting" /\ c.outcome[w] = "none" /\ w \notin c.held
ActiveExact(c) == \A o \in Calls : c.states[o].active = Cardinality(Permits(c, o))
MakersArrived(c, p) ==
    /\ \A s \in Calls : c.home[s] # None => p[c.home[s]] # "idle"
    /\ \A k \in Keys : c.partitions[k] # None => p[c.partitions[k]] # "idle"
    /\ \A s \in Calls : p[s] = "idle" => c.outcome[s] = "none"

Consistent(c, p) ==
    /\ c \in Controller
    /\ OwnersKnown(c, p) /\ WaitersUndecided(c, p) /\ ActiveExact(c) /\ MakersArrived(c, p)

\* The inductive invariant.
IInv == TypeOK /\ Consistent(ctl, pc)

\* d differs from c in its totals only.
Counts(c, d) ==
    /\ d \in Controller
    /\ d.partitions = c.partitions /\ d.states = c.states /\ d.held = c.held
    /\ d.home = c.home /\ d.outcome = c.outcome

LEMMA CountsKeeps ==
    ASSUME NEW c, NEW d, NEW p, Consistent(c, p), Counts(c, d)
    PROVE  Consistent(d, p)
BY DEF Consistent, Counts, OwnersKnown, WaitersUndecided, ActiveExact, MakersArrived, Permits

\* The totals a step may move are naturals.
LEMMA TotalsMove ==
    ASSUME NEW c \in Controller, NEW n \in Nat
    PROVE  /\ Counts(c, [c EXCEPT !.totals.rejected = @ + n])
           /\ Counts(c, [c EXCEPT !.totals.rateLimited = @ + n])
           /\ Counts(c, [c EXCEPT !.totals.cancelled = @ + n])
<1>1. Counts(c, [c EXCEPT !.totals.rejected = @ + n])
    BY SMTT(30) DEF Counts, Controller, Totals
<1>2. Counts(c, [c EXCEPT !.totals.rateLimited = @ + n])
    BY SMTT(30) DEF Counts, Controller, Totals
<1>3. Counts(c, [c EXCEPT !.totals.cancelled = @ + n])
    BY SMTT(30) DEF Counts, Controller, Totals
<1> QED BY <1>1, <1>2, <1>3

\* A call that neither holds a permit nor queues may move on to any phase.
LEMMA PhaseKeeps ==
    ASSUME NEW c, NEW p \in [Calls -> Phase], NEW s \in Calls, NEW phase \in Phase \ {"idle"},
           Consistent(c, p), s \notin c.held,
           \A o \in Calls : s \notin c.states[o].waiters
    PROVE  Consistent(c, [p EXCEPT ![s] = phase])
<1> DEFINE q == [p EXCEPT ![s] = phase]
<1>1. \A t \in Calls : q[t] = IF t = s THEN phase ELSE p[t]
    OBVIOUS
<1> HIDE DEF q
<1>0. c \in Controller
    BY DEF Consistent
<1>2. OwnersKnown(c, q)
    BY <1>0, <1>1 DEF Consistent, OwnersKnown, Controller
<1>3. WaitersUndecided(c, q)
    BY <1>0, <1>1 DEF Consistent, WaitersUndecided, Controller, PartitionState
<1>4. MakersArrived(c, q)
    <2>1. \A t \in Calls : p[t] # "idle" => q[t] # "idle"
        BY <1>1
    <2> QED BY <1>0, <2>1 DEF Consistent, MakersArrived, Controller
<1>5. Consistent(c, q)
    BY <1>2, <1>3, <1>4 DEF Consistent
<1> QED BY <1>5 DEF q

\* Pruning a state object's budget keeps who uses the object.
LEMMA PruneTypes ==
    ASSUME NEW st \in PartitionState, now \in Nat
    PROVE  /\ PruneBudget(st) \in PartitionState
           /\ PruneBudget(st).active = st.active /\ PruneBudget(st).waiters = st.waiters
           /\ PruneBudget(st).admittedAt = Recent(st.admittedAt)
BY DEF PruneBudget, Recent, PartitionState, Charge

\* Every state object keeps its users; the map may lose some of them.
LEMMA MapLoses ==
    ASSUME NEW c, NEW d, NEW p, Consistent(c, p), d \in Controller,
           d.held = c.held, d.home = c.home, d.outcome = c.outcome,
           \A o \in Calls : d.states[o].active = c.states[o].active
                            /\ d.states[o].waiters \subseteq c.states[o].waiters,
           \A k \in Keys : d.partitions[k] \in {c.partitions[k], None}
    PROVE  Consistent(d, p)
BY DEF Consistent, OwnersKnown, WaitersUndecided, ActiveExact, MakersArrived, Permits

LEMMA EvictKeeps ==
    ASSUME NEW c, NEW p, Consistent(c, p), now \in Nat
    PROVE  Consistent(EvictIdlePartitions(c), p)
<1> DEFINE present == {c.partitions[k] : k \in Keys}
           pruned == [o \in Calls |-> IF o \in present THEN PruneBudget(c.states[o]) ELSE c.states[o]]
           d == EvictIdlePartitions(c)
<1>0. c \in Controller
    BY DEF Consistent
<1>1. pruned \in [Calls -> PartitionState]
      /\ \A o \in Calls : pruned[o].active = c.states[o].active /\ pruned[o].waiters = c.states[o].waiters
    BY <1>0, PruneTypes DEF Controller
<1>2. /\ d.states = pruned
      /\ d.partitions = [k \in Keys |->
            IF c.partitions[k] # None /\ Drained(pruned[c.partitions[k]]) THEN None ELSE c.partitions[k]]
      /\ d.held = c.held /\ d.home = c.home /\ d.outcome = c.outcome
    BY <1>0 DEF EvictIdlePartitions, Controller
<1>3. d \in Controller
    <2> HIDE DEF pruned
    <2>1. [k \in Keys |-> IF c.partitions[k] # None /\ Drained(pruned[c.partitions[k]])
                          THEN None ELSE c.partitions[k]] \in [Keys -> Calls \cup {None}]
        BY <1>0 DEF Controller
    <2> QED BY <1>0, <1>1, <2>1 DEF EvictIdlePartitions, Controller, pruned
<1> HIDE DEF d, pruned
<1>4. Consistent(d, p)
    BY <1>1, <1>2, <1>3, MapLoses
<1> QED BY <1>4 DEF d
\* removeWaiter() and what follows: s leaves the queue of its own state object.
LEMMA WithdrawnShape ==
    ASSUME NEW c \in Controller, now \in Nat, NEW s \in Calls, c.home[s] \in Calls
    PROVE  LET o == c.home[s]
               st == PruneBudget([c.states[o] EXCEPT !.waiters = @ \ {s}])
           IN  Withdrawn(c, s) =
                 [c EXCEPT !.states = [c.states EXCEPT ![o] = st],
                           !.partitions = [c.partitions EXCEPT ![c.key[s]] = IF Drained(st) THEN None ELSE @]]
<1> DEFINE o == c.home[s]
           k == c.key[s]
           W == c.states[o].waiters \ {s}
           st == PruneBudget([c.states[o] EXCEPT !.waiters = W])
           S == [c.states EXCEPT ![o] = st]
           P == [c.partitions EXCEPT ![k] = IF Drained(st) THEN None ELSE @]
           d == Withdrawn(c, s)
<1>0. o \in Calls /\ c.states \in [Calls -> PartitionState]
      /\ c.partitions \in [Keys -> Calls \cup {None}]
    BY DEF Controller
<1>3. d = [c EXCEPT !.states = S, !.partitions = P]
    <2> DEFINE b == [c EXCEPT !.states[o].waiters = @ \ {s}]
    <2>1. b.states = [c.states EXCEPT ![o] = [c.states[o] EXCEPT !.waiters = W]]
          /\ b.partitions = c.partitions
        BY <1>0 DEF Controller
    <2>2. b.states[o] = [c.states[o] EXCEPT !.waiters = W]
        BY <1>0, <2>1
    <2>3. d = MaybeDeletePartition(b, k, o)
        BY DEF Withdrawn
    <2>4. b = [c EXCEPT !.states = [c.states EXCEPT ![o] = [c.states[o] EXCEPT !.waiters = W]]]
        OBVIOUS
    <2> HIDE DEF b, d
    <2>7. d = [b EXCEPT !.states[o] = st, !.partitions[k] = IF Drained(st) THEN None ELSE @]
        BY <2>2, <2>3 DEF MaybeDeletePartition
    <2> HIDE DEF st
    <2>5. [b.states EXCEPT ![o] = st] = S
        BY <1>0, <2>1
    <2>6. d = [b EXCEPT !.states = S, !.partitions = P]
        BY <2>1, <2>5, <2>7
    <2> HIDE DEF S, P
    <2> QED BY <1>0, <2>4, <2>6 DEF Controller
<1> QED BY <1>3

LEMMA WithdrawnKeeps ==
    ASSUME NEW c, NEW p, Consistent(c, p), now \in Nat, NEW s \in Calls, c.home[s] # None
    PROVE  /\ Consistent(Withdrawn(c, s), p)
           /\ Withdrawn(c, s).held = c.held
           /\ s \in c.states[c.home[s]].waiters =>
                 s \notin c.held /\ \A o \in Calls : s \notin Withdrawn(c, s).states[o].waiters
<1> DEFINE o == c.home[s]
           k == c.key[s]
           W == c.states[o].waiters \ {s}
           st == PruneBudget([c.states[o] EXCEPT !.waiters = W])
           S == [c.states EXCEPT ![o] = st]
           P == [c.partitions EXCEPT ![k] = IF Drained(st) THEN None ELSE @]
           d == Withdrawn(c, s)
<1>0. c \in Controller /\ o \in Calls /\ c.states \in [Calls -> PartitionState]
      /\ c.partitions \in [Keys -> Calls \cup {None}]
    BY DEF Consistent, Controller
<1>1. LET st1 == [c.states[o] EXCEPT !.waiters = W] IN
        st1 \in PartitionState /\ st1.active = c.states[o].active /\ st1.waiters = W
    <2>1. PICK z \in PartitionState : z = c.states[o]
        BY <1>0
    <2>2. PICK V : V = W
        OBVIOUS
    <2>3. V \subseteq Calls
        BY <2>1, <2>2 DEF PartitionState
    <2>4. LET x == [z EXCEPT !.waiters = V] IN
            x \in PartitionState /\ x.active = z.active /\ x.waiters = V
        BY <2>3 DEF PartitionState
    <2> QED BY <2>1, <2>2, <2>4
<1>2. st \in PartitionState /\ st.active = c.states[o].active /\ st.waiters = W
    BY <1>1, PruneTypes
<1>3. d = [c EXCEPT !.states = S, !.partitions = P]
    BY <1>0, WithdrawnShape
<1> HIDE DEF st
<1>4. S \in [Calls -> PartitionState] /\ P \in [Keys -> Calls \cup {None}]
      /\ \A j \in Keys : P[j] \in {c.partitions[j], None}
    BY <1>0, <1>2
<1>5. \A x \in Calls : S[x].active = c.states[x].active
                       /\ S[x].waiters = IF x = o THEN W ELSE c.states[x].waiters
    BY <1>0, <1>2
<1> HIDE DEF S, P, d
<1>6. /\ d.states = S /\ d.held = c.held /\ d.home = c.home /\ d.outcome = c.outcome
      /\ d.partitions = P /\ d \in Controller
    BY <1>0, <1>3, <1>4 DEF Controller
<1>7. Consistent(d, p)
    BY <1>4, <1>5, <1>6, MapLoses
<1>8. ASSUME s \in c.states[o].waiters
      PROVE  s \notin c.held /\ \A x \in Calls : s \notin d.states[x].waiters
    <2>1. s \notin c.held /\ \A x \in Calls : x # o => s \notin c.states[x].waiters
        BY <1>0, <1>8 DEF Consistent, WaitersUndecided
    <2> QED BY <1>5, <1>6, <2>1
<1> QED BY <1>6, <1>7, <1>8 DEF d

\* Calls W that refer to o and hold nothing are added to the permits of o.
LEMMA PermitsGrow ==
    ASSUME NEW c \in Controller, NEW o \in Calls, NEW W \in SUBSET Calls,
           \A w \in W : c.home[w] = o /\ w \notin c.held,
           c.states[o].active = Cardinality(Permits(c, o))
    PROVE  /\ Cardinality(W) \in Nat
           /\ c.states[o].active + Cardinality(W)
                = Cardinality({s \in c.held \cup W : c.home[s] = o})
<1> DEFINE Q == Permits(c, o)
<1>1. IsFiniteSet(W) /\ IsFiniteSet(Q)
    BY CallsFinite, FS_Subset DEF Permits, Controller
<1>2. {s \in c.held \cup W : c.home[s] = o} = Q \cup W /\ Q \cap W = {}
    BY DEF Permits
<1> HIDE DEF Q
<1>3. Cardinality(Q \cup W) = Cardinality(Q) + Cardinality(W) - Cardinality(Q \cap W)
    BY <1>1, FS_Union
<1>4. Cardinality(Q \cap W) = 0
    BY <1>2, FS_EmptySet
<1>5. Cardinality(W) \in Nat /\ Cardinality(Q) \in Nat
    BY <1>1, FS_CardinalityType
<1>6. Cardinality(Q \cup W) = Cardinality(Q) + Cardinality(W)
    BY <1>3, <1>4, <1>5
<1>7. Cardinality({s \in c.held \cup W : c.home[s] = o}) = Cardinality(Q) + Cardinality(W)
    BY <1>2, <1>6, Zenon
<1> QED BY <1>5, <1>7 DEF Q

LEMMA ChargedTypes ==
    ASSUME NEW st \in PartitionState, NEW W \in SUBSET Calls, Cardinality(W) \in Nat, now \in Nat
    PROVE  /\ Charged(st, W) \in PartitionState
           /\ Charged(st, W).active = st.active + Cardinality(W)
           /\ Charged(st, W).waiters = st.waiters
           /\ Charged(st, W).admittedAt = st.admittedAt \cup {ChargeOf(w, 0) : w \in W}
<1> DEFINE a == st.active + Cardinality(W)
           x == st.admittedAt \cup {ChargeOf(w, 0) : w \in W}
<1>1. a \in Nat /\ x \in SUBSET Charge
    BY DEF PartitionState, ChargeOf, Charge
<1>2. Charged(st, W) = [st EXCEPT !.active = a, !.admittedAt = x]
    BY DEF Charged
<1> HIDE DEF a, x
<1>3. Charged(st, W) \in PartitionState /\ Charged(st, W).active = a /\ Charged(st, W).waiters = st.waiters
      /\ Charged(st, W).admittedAt = x
    BY <1>1, <1>2 DEF PartitionState
<1> QED BY <1>3 DEF a, x

\* admit() alone, for a call that has just arrived or for waiters.
LEMMA AdmitTypes ==
    ASSUME NEW c \in Controller, NEW o \in Calls, NEW W \in SUBSET Calls, Cardinality(W) \in Nat,
           now \in Nat
    PROVE  /\ Admit(c, o, W) \in Controller
           /\ Admit(c, o, W).states = [c.states EXCEPT ![o] = Charged(c.states[o], W)]
           /\ Admit(c, o, W).held = c.held \cup W
           /\ Admit(c, o, W).home = c.home /\ Admit(c, o, W).outcome = c.outcome
           /\ Admit(c, o, W).partitions = c.partitions
           /\ Admit(c, o, W).key = c.key /\ Admit(c, o, W).place = c.place
           /\ Admit(c, o, W).closed = c.closed /\ Admit(c, o, W).totals.queued = c.totals.queued
<1> DEFINE S == [c.states EXCEPT ![o] = Charged(c.states[o], W)]
           H == c.held \cup W
           t == [c.totals EXCEPT !.admitted = @ + Cardinality(W)]
           d == Admit(c, o, W)
<1>1. S \in [Calls -> PartitionState] /\ H \in SUBSET Calls /\ t \in Totals /\ t.queued = c.totals.queued
    BY SMTT(30), ChargedTypes DEF Controller, Totals
<1>2. d = [c EXCEPT !.states = S, !.held = H, !.totals = t]
    BY DEF Admit
<1> HIDE DEF S, H, t, d
<1>3. d \in Controller
    BY <1>1, <1>2 DEF Controller
<1>4. /\ d.states = S /\ d.held = H
      /\ d.home = c.home /\ d.outcome = c.outcome /\ d.partitions = c.partitions
      /\ d.key = c.key /\ d.place = c.place /\ d.closed = c.closed /\ d.totals.queued = c.totals.queued
    BY <1>1, <1>2 DEF Controller
<1> QED BY <1>3, <1>4 DEF S, H, d
\* What pump() leaves in e: the waiters R leave the queue of o, of whom G get the
\* permits and the others a refusal.
Pumped(c, o, R, G, e) ==
    /\ e \in Controller
    /\ e.partitions = c.partitions /\ e.home = c.home /\ e.held = c.held \cup G
    /\ e.key = c.key /\ e.place = c.place /\ e.closed = c.closed
    /\ e.totals.queued = c.totals.queued
    /\ \A x \in Calls : x # o => e.states[x] = c.states[x]
    /\ e.states[o].active = c.states[o].active + Cardinality(G)
    /\ e.states[o].waiters = c.states[o].waiters \ R
    /\ e.states[o].admittedAt = Recent(c.states[o].admittedAt) \cup {ChargeOf(w, 0) : w \in G}
    /\ \A w \in Calls : /\ w \notin R => e.outcome[w] = c.outcome[w]
                        /\ w \in G => e.outcome[w] = "permit"
                        /\ w \in R \ G => e.outcome[w] \in {"rejected", "rateLimited"}
    /\ R \subseteq c.states[o].waiters /\ G \subseteq R /\ Cardinality(G) \in Nat

LEMMA PumpShape ==
    ASSUME NEW c \in Controller, now \in Nat, NEW o \in Calls, ~c.closed
    PROVE  LET st == PruneBudget(c.states[o])
           IN  Pumped(c, o, Reached(c, st), Granted(c, st), Pump(c, o))
<1> DEFINE st == PruneBudget(c.states[o])
           R == Reached(c, st)
           G == Granted(c, st)
           late == R \cap Expired(c, st)
           limited == R \ (late \cup G)
           b == [c EXCEPT !.states[o] = st]
           d == Admit(b, o, G)
           S == [d.states EXCEPT ![o] = [d.states[o] EXCEPT !.waiters = @ \ R]]
           O == [w \in Calls |-> IF w \in late THEN "rejected"
                                 ELSE IF w \in limited THEN "rateLimited"
                                 ELSE IF w \in G THEN "permit" ELSE d.outcome[w]]
           t == [[d.totals EXCEPT !.rejected = @ + Cardinality(late)]
                    EXCEPT !.rateLimited = @ + Cardinality(limited)]
           e == Pump(c, o)
<1>0. /\ c \in Controller /\ c.states \in [Calls -> PartitionState] /\ c.held \subseteq Calls
      /\ c.outcome \in [Calls -> Outcome]
    BY DEF Controller
<1>1. /\ st \in PartitionState /\ st.active = c.states[o].active
      /\ st.waiters = c.states[o].waiters /\ st.waiters \subseteq Calls
      /\ st.admittedAt = Recent(c.states[o].admittedAt)
    BY <1>0, PruneTypes DEF PartitionState
<1>2. R \subseteq st.waiters /\ G \subseteq R
    BY DEF Reached, Granted
<1>3. Cardinality(late) \in Nat /\ Cardinality(limited) \in Nat /\ Cardinality(G) \in Nat
    BY <1>1, <1>2, CallsFinite, FS_Subset, FS_CardinalityType
<1>4. e = [d EXCEPT !.states = S, !.outcome = O, !.totals = t]
    BY ZenonT(60) DEF Pump
<1> HIDE DEF st, R, G, late, limited
<1>5. /\ b \in Controller /\ b.states = [c.states EXCEPT ![o] = st] /\ b.held = c.held
      /\ b.home = c.home /\ b.outcome = c.outcome /\ b.partitions = c.partitions
      /\ b.key = c.key /\ b.place = c.place /\ b.closed = c.closed /\ b.totals.queued = c.totals.queued
    BY <1>0, <1>1 DEF Controller
<1> HIDE DEF b
<1>6. b.states[o] = st /\ Charged(st, G) \in PartitionState
      /\ Charged(st, G).active = st.active + Cardinality(G) /\ Charged(st, G).waiters = st.waiters
      /\ Charged(st, G).admittedAt = st.admittedAt \cup {ChargeOf(w, 0) : w \in G}
    BY <1>0, <1>1, <1>2, <1>3, <1>5, ChargedTypes
<1>7. /\ d \in Controller /\ d.states = [c.states EXCEPT ![o] = Charged(st, G)]
      /\ d.held = c.held \cup G
      /\ d.home = c.home /\ d.outcome = c.outcome /\ d.partitions = c.partitions
      /\ d.key = c.key /\ d.place = c.place /\ d.closed = c.closed /\ d.totals.queued = c.totals.queued
    BY <1>1, <1>2, <1>3, <1>5, <1>6, AdmitTypes
<1> HIDE DEF d
<1>8. /\ S \in [Calls -> PartitionState]
      /\ \A x \in Calls : x # o => S[x] = c.states[x]
      /\ S[o].active = c.states[o].active + Cardinality(G)
      /\ S[o].waiters = c.states[o].waiters \ R
      /\ S[o].admittedAt = Recent(c.states[o].admittedAt) \cup {ChargeOf(w, 0) : w \in G}
    <2>1. d.states[o] = Charged(st, G) /\ d.states \in [Calls -> PartitionState]
        BY <1>0, <1>6, <1>7
    <2> DEFINE y == [d.states[o] EXCEPT !.waiters = @ \ R]
    <2>2. y \in PartitionState /\ y.active = d.states[o].active /\ y.waiters = d.states[o].waiters \ R
          /\ y.admittedAt = d.states[o].admittedAt
        BY <1>6, <2>1 DEF PartitionState
    <2> HIDE DEF y
    <2>3. [d.states EXCEPT ![o] = y] \in [Calls -> PartitionState] /\ [d.states EXCEPT ![o] = y][o] = y
          /\ \A x \in Calls : x # o => [d.states EXCEPT ![o] = y][x] = c.states[x]
        BY <1>0, <1>7, <2>1, <2>2
    <2> QED BY <1>1, <1>6, <2>1, <2>2, <2>3 DEF y
<1>9. O \in [Calls -> Outcome] /\ t \in Totals /\ t.queued = d.totals.queued
    <2>1. O \in [Calls -> Outcome]
        BY <1>0, <1>7 DEF Outcome
    <2>2. d.totals \in Totals
        BY <1>7 DEF Controller
    <2>3. [d.totals EXCEPT !.rejected = @ + Cardinality(late)] \in Totals
          /\ [d.totals EXCEPT !.rejected = @ + Cardinality(late)].queued = d.totals.queued
        BY <1>3, <2>2 DEF Totals
    <2> DEFINE u == [d.totals EXCEPT !.rejected = @ + Cardinality(late)]
    <2> HIDE DEF u
    <2>4. u \in Totals /\ u.queued = d.totals.queued
        BY <2>3 DEF u
    <2>5. [u EXCEPT !.rateLimited = @ + Cardinality(limited)] \in Totals
          /\ [u EXCEPT !.rateLimited = @ + Cardinality(limited)].queued = u.queued
        BY <1>3, <2>4 DEF Totals
    <2> QED BY <2>1, <2>4, <2>5 DEF u
<1> DEFINE Out(w) == IF w \in late THEN "rejected" ELSE IF w \in limited THEN "rateLimited"
                     ELSE IF w \in G THEN "permit" ELSE c.outcome[w]
<1>10. \A w \in Calls : O[w] = Out(w)
    BY <1>7
<1> HIDE DEF S, O, t, e, Out
<1>11. /\ e.states = S /\ e.outcome = O /\ e.held = c.held \cup G /\ e.home = c.home
       /\ e.partitions = c.partitions /\ e \in Controller
    BY <1>4, <1>7, <1>8, <1>9 DEF Controller
<1>12. \A w \in Calls : /\ w \notin R => O[w] = c.outcome[w]
                        /\ w \in G => O[w] = "permit"
                        /\ w \in R \ G => O[w] \in {"rejected", "rateLimited"}
    BY <1>2, <1>10 DEF Out, late, limited, Granted, G
<1>13. e.key = c.key /\ e.place = c.place /\ e.closed = c.closed /\ e.totals.queued = c.totals.queued
    BY <1>4, <1>7, <1>9 DEF Controller
<1>14. Pumped(c, o, R, G, e)
    BY <1>1, <1>2, <1>3, <1>8, <1>11, <1>12, <1>13 DEF Pumped
<1> QED BY <1>14 DEF R, G, st, e

\* pump() gives the permits of o to waiters of o, and refuses others of them.
LEMMA PumpKeeps ==
    ASSUME NEW c, NEW p, Consistent(c, p), now \in Nat, NEW o \in Calls
    PROVE  /\ Consistent(Pump(c, o), p)
           /\ \A s \in Calls : s \notin c.held /\ (\A x \in Calls : s \notin c.states[x].waiters) =>
                 s \notin Pump(c, o).held /\ \A x \in Calls : s \notin Pump(c, o).states[x].waiters
<1>1. CASE c.closed
    BY <1>1 DEF Pump
<1>2. CASE ~c.closed
    <2> DEFINE st == PruneBudget(c.states[o])
               R == Reached(c, st)
               G == Granted(c, st)
               e == Pump(c, o)
    <2>0. /\ c \in Controller /\ c.states \in [Calls -> PartitionState] /\ c.held \subseteq Calls
          /\ c.outcome \in [Calls -> Outcome] /\ c.states[o].waiters \subseteq Calls
        BY DEF Consistent, Controller, PartitionState
    <2>1. Pumped(c, o, R, G, e)
        BY <1>2, <2>0, PumpShape
    <2> HIDE DEF st, R, G, e
    <2>2. R \subseteq c.states[o].waiters /\ G \subseteq R
        BY <2>1 DEF Pumped
    <2>3. \A w \in R : w \notin c.held /\ c.home[w] = o /\ p[w] = "waiting" /\ w \in Calls
        BY <2>0, <2>2 DEF Consistent, WaitersUndecided
    <2>4. e.home = c.home /\ e.held = c.held \cup G /\ e.partitions = c.partitions
        BY <2>1 DEF Pumped
    <2>5. OwnersKnown(e, p)
        <3> SUFFICES ASSUME NEW s \in c.held \cup G
                     PROVE  c.home[s] # None /\ (p[s] = "running" \/ (p[s] = "waiting" /\ e.outcome[s] = "permit"))
            BY <2>4 DEF OwnersKnown
        <3>1. CASE s \in G
            BY <2>1, <2>2, <2>3, <3>1, CallsFinite DEF Pumped
        <3>2. CASE s \in c.held
            <4>1. s \in Calls /\ s \notin R
                BY <2>0, <2>3, <3>2
            <4> QED BY <2>1, <3>2, <4>1 DEF Pumped, Consistent, OwnersKnown
        <3> QED BY <3>1, <3>2
    <2>6. WaitersUndecided(e, p)
        <3> SUFFICES ASSUME NEW x \in Calls, NEW w \in e.states[x].waiters
                     PROVE  c.home[w] = x /\ p[w] = "waiting" /\ e.outcome[w] = "none"
                            /\ w \notin c.held \cup G
            BY <2>4 DEF WaitersUndecided
        <3>1. w \in c.states[x].waiters /\ (x = o => w \notin R)
            BY <2>1 DEF Pumped
        <3>2. w \in Calls /\ c.home[w] = x /\ p[w] = "waiting" /\ c.outcome[w] = "none" /\ w \notin c.held
            BY <2>0, <3>1 DEF Consistent, WaitersUndecided, PartitionState
        <3>3. w \notin R
            BY <2>3, <3>1, <3>2
        <3> QED BY <2>1, <2>2, <3>2, <3>3 DEF Pumped
    <2>7. ActiveExact(e)
        <3>1. e.states[o].active = Cardinality(Permits(e, o))
            <4>1. /\ c.states[o].active = Cardinality(Permits(c, o))
                  /\ \A w \in G : c.home[w] = o /\ w \notin c.held
                BY <2>2, <2>3 DEF Consistent, ActiveExact
            <4>2. G \in SUBSET Calls
                BY <2>0, <2>2
            <4>3. c.states[o].active + Cardinality(G) = Cardinality({s \in c.held \cup G : c.home[s] = o})
                BY <2>0, <4>1, <4>2, PermitsGrow
            <4> QED BY <2>1, <2>4, <4>3 DEF Permits, Pumped
        <3>2. ASSUME NEW x \in Calls, x # o PROVE e.states[x].active = Cardinality(Permits(e, x))
            <4>1. Permits(e, x) = Permits(c, x)
                BY <2>2, <2>3, <2>4, <3>2 DEF Permits
            <4> QED BY <2>1, <3>2, <4>1 DEF Consistent, ActiveExact, Pumped
        <3> QED BY <3>1, <3>2 DEF ActiveExact
    <2>8. MakersArrived(e, p)
        <3>1. \A w \in Calls : p[w] = "idle" => e.outcome[w] = c.outcome[w]
            BY <2>1, <2>3 DEF Pumped
        <3> QED BY <2>4, <3>1 DEF Consistent, MakersArrived
    <2>9. Consistent(e, p)
        BY <2>1, <2>5, <2>6, <2>7, <2>8 DEF Consistent, Pumped
    <2>10. ASSUME NEW s \in Calls, s \notin c.held, \A x \in Calls : s \notin c.states[x].waiters
           PROVE  s \notin e.held /\ \A x \in Calls : s \notin e.states[x].waiters
        BY <2>1, <2>2, <2>4, <2>10 DEF Pumped
    <2> QED BY <2>9, <2>10 DEF e
<1> QED BY <1>1, <1>2 DEF Consistent, Controller

\* Setting the count of permits changes nothing else of an object.
LEMMA ActiveSet ==
    ASSUME NEW z \in PartitionState, NEW n \in Nat
    PROVE  /\ [z EXCEPT !.active = n] \in PartitionState
           /\ [z EXCEPT !.active = n].active = n /\ [z EXCEPT !.active = n].waiters = z.waiters
           /\ [z EXCEPT !.active = n].admittedAt = z.admittedAt
BY DEF PartitionState

\* release(), by the permit's owner or for a waiter that never took it: the
\* object s refers to gets one slot back, which makes b, and is pumped.
Returned(c, s, b) ==
    /\ b \in Controller
    /\ b.partitions = c.partitions /\ b.home = c.home /\ b.held = c.held \ {s}
    /\ b.key = c.key /\ b.place = c.place /\ b.closed = c.closed /\ b.outcome = c.outcome
    /\ b.totals.queued = c.totals.queued
    /\ \A x \in Calls : /\ x # c.home[s] => b.states[x] = c.states[x]
                        /\ b.states[x].waiters = c.states[x].waiters
                        /\ b.states[x].admittedAt = c.states[x].admittedAt
    /\ b.states[c.home[s]].active = c.states[c.home[s]].active - 1

LEMMA ReleaseShape ==
    ASSUME NEW c \in Controller, NEW s \in c.held, c.home[s] \in Calls, c.states[c.home[s]].active > 0
    PROVE  \E b : Returned(c, s, b) /\ ReleasePermit(c, s) = Pump(b, c.home[s])
<1> DEFINE o == c.home[s]
           H == c.held \ {s}
           y == [c.states[o] EXCEPT !.active = IF @ > 0 THEN @ - 1 ELSE 0]
           S == [c.states EXCEPT ![o] = y]
           b == [c EXCEPT !.held = H, !.states = S]
<1>0. c.states \in [Calls -> PartitionState] /\ c.held \subseteq Calls /\ o \in Calls
    BY DEF Controller
<1>1. ReleasePermit(c, s) = Pump(b, o)
    BY DEF ReleasePermit
<1>2. y \in PartitionState /\ y.active = c.states[o].active - 1
      /\ y.waiters = c.states[o].waiters /\ y.admittedAt = c.states[o].admittedAt
    <2>1. PICK z \in PartitionState : z = c.states[o]
        BY <1>0
    <2>2. z.active \in Nat /\ z.active > 0
        BY <2>1 DEF PartitionState
    <2>3. PICK n \in Nat : n = z.active - 1
        BY <2>2
    <2>4. y = [z EXCEPT !.active = n]
        BY <2>1, <2>2, <2>3
    <2> HIDE DEF y
    <2>5. y \in PartitionState /\ y.active = n /\ y.waiters = z.waiters /\ y.admittedAt = z.admittedAt
        BY <2>4, ActiveSet
    <2> QED BY <2>1, <2>3, <2>5
<1> HIDE DEF y
<1>3. S \in [Calls -> PartitionState] /\ S[o] = y /\ \A x \in Calls : x # o => S[x] = c.states[x]
    BY <1>0, <1>2
<1> HIDE DEF S
<1>4. /\ b.held = H /\ b.states = S /\ b.home = c.home /\ b.outcome = c.outcome
      /\ b.partitions = c.partitions /\ b \in Controller
      /\ b.key = c.key /\ b.place = c.place /\ b.closed = c.closed /\ b.totals = c.totals
    BY <1>0, <1>3 DEF Controller
<1> HIDE DEF b
<1>5. Returned(c, s, b)
    BY <1>0, <1>2, <1>3, <1>4 DEF Returned
<1> QED BY <1>1, <1>5

LEMMA ReleaseKeeps ==
    ASSUME NEW c, NEW p, Consistent(c, p), now \in Nat, NEW s \in Calls,
           \A x \in Calls : s \notin c.states[x].waiters
    PROVE  /\ Consistent(ReleasePermit(c, s), p)
           /\ s \notin ReleasePermit(c, s).held
           /\ \A x \in Calls : s \notin ReleasePermit(c, s).states[x].waiters
<1>1. CASE s \notin c.held
    BY <1>1 DEF ReleasePermit
<1>2. CASE s \in c.held
    <2> DEFINE o == c.home[s]
    <2>0. c \in Controller /\ c.held \subseteq Calls /\ o \in Calls
        BY <1>2 DEF Consistent, OwnersKnown, Controller
    <2>1. /\ IsFiniteSet(Permits(c, o)) /\ s \in Permits(c, o)
          /\ c.states[o].active = Cardinality(Permits(c, o))
        BY <1>2, <2>0, CallsFinite, FS_Subset DEF Permits, Consistent, ActiveExact
    <2>2. Cardinality(Permits(c, o) \ {s}) = Cardinality(Permits(c, o)) - 1
          /\ Cardinality(Permits(c, o)) \in Nat \ {0}
        BY <2>1, FS_RemoveElement, FS_CardinalityType, FS_EmptySet
    <2>3. c.states[o].active > 0
        BY <2>1, <2>2
    <2>4. PICK b : Returned(c, s, b) /\ ReleasePermit(c, s) = Pump(b, o)
        BY <1>2, <2>0, <2>3, ReleaseShape
    <2>5. OwnersKnown(b, p) /\ MakersArrived(b, p)
        BY <2>4 DEF Consistent, OwnersKnown, MakersArrived, Returned
    <2>6. WaitersUndecided(b, p)
        BY <2>4 DEF Consistent, WaitersUndecided, Returned
    <2>7. ActiveExact(b)
        <3>1. Permits(b, o) = Permits(c, o) \ {s}
            BY <2>4 DEF Permits, Returned
        <3>2. b.states[o].active = Cardinality(Permits(b, o))
            BY <2>1, <2>2, <2>4, <3>1 DEF Returned
        <3>3. \A x \in Calls : x # o => Permits(b, x) = Permits(c, x) /\ b.states[x] = c.states[x]
            BY <2>4 DEF Permits, Returned
        <3> QED BY <3>2, <3>3 DEF ActiveExact, Consistent
    <2>8. Consistent(b, p) /\ s \notin b.held /\ \A x \in Calls : s \notin b.states[x].waiters
        BY <2>4, <2>5, <2>6, <2>7 DEF Consistent, Returned
    <2>9. PICK e : e = Pump(b, o)
        OBVIOUS
    <2>10. Consistent(e, p) /\ s \notin e.held /\ \A x \in Calls : s \notin e.states[x].waiters
        <3>1. Consistent(Pump(b, o), p)
            BY <2>0, <2>8, PumpKeeps
        <3>2. s \notin Pump(b, o).held /\ \A x \in Calls : s \notin Pump(b, o).states[x].waiters
            BY <2>0, <2>8, PumpKeeps
        <3> QED BY <2>9, <3>1, <3>2
    <2> QED BY <2>4, <2>9, <2>10
<1> QED BY <1>1, <1>2

\* Finding or making a partition admits nobody and records nothing.
LEMMA OpenedShape ==
    ASSUME NEW c \in Controller, NEW s, NEW k
    PROVE  Opened(c, s, k).outcome = c.outcome /\ Opened(c, s, k).held = c.held
<1> DEFINE v == EvictIdlePartitions(c)
           a == IF c.partitions[k] # None THEN c
                ELSE [v EXCEPT !.partitions[k] = s, !.states[s] = NewState]
<1>1. v.outcome = c.outcome /\ v.held = c.held
    BY DEF EvictIdlePartitions, Controller
<1>2. {"outcome", "held", "states", "home", "key"} \subseteq DOMAIN v
    BY DEF EvictIdlePartitions, Controller
<1> HIDE DEF v
<1>3. a.outcome = c.outcome /\ a.held = c.held
    BY <1>1, <1>2
<1> HIDE DEF a
<1>4. Opened(c, s, k) = [a EXCEPT !.states[a.partitions[k]] = PruneBudget(@),
                                  !.home[s] = a.partitions[k], !.key[s] = k]
    BY DEF Opened, a, v
<1> QED BY <1>3, <1>4

\* A call that has just arrived refers to nothing and nothing refers to it. The
\* object it is given is the map's, or a new one in its own name.
LEMMA OpenedKeeps ==
    ASSUME NEW c, NEW p \in [Calls -> Phase], Consistent(c, p), now \in Nat,
           NEW s \in Calls, NEW k \in Keys, NEW phase \in Phase \ {"idle"}, p[s] = "idle"
    PROVE  /\ Consistent(Opened(c, s, k), [p EXCEPT ![s] = phase])
           /\ Opened(c, s, k).home[s] \in Calls /\ s \notin Opened(c, s, k).held
           /\ \A x \in Calls : s \notin Opened(c, s, k).states[x].waiters
<1> DEFINE q == [p EXCEPT ![s] = phase]
<1>0. /\ c \in Controller /\ s \notin c.held /\ \A x \in Calls : s \notin c.states[x].waiters
    BY DEF Consistent, OwnersKnown, WaitersUndecided
<1>1. Consistent(c, q)
    BY <1>0, PhaseKeeps
<1> DEFINE v == EvictIdlePartitions(c)
           a == IF c.partitions[k] # None THEN c
                ELSE [v EXCEPT !.partitions[k] = s, !.states[s] = NewState]
<1>2. /\ Consistent(a, q) /\ a.held = c.held /\ a.outcome = c.outcome
      /\ a.partitions[k] \in Calls
      /\ \A x \in Calls : s \notin a.states[x].waiters
    <2>1. CASE c.partitions[k] # None
        BY <1>0, <1>1, <2>1 DEF Controller
    <2>2. CASE c.partitions[k] = None
        <3>1. /\ Consistent(v, p) /\ Consistent(v, q) /\ v.held = c.held /\ v.outcome = c.outcome
              /\ v.home = c.home /\ \A x \in Calls : v.states[x].waiters = c.states[x].waiters
            <4>1. Consistent(v, p) /\ Consistent(v, q)
                BY <1>1, EvictKeeps
            <4>2. v.held = c.held /\ v.outcome = c.outcome /\ v.home = c.home
                BY <1>0 DEF EvictIdlePartitions, Controller
            <4>3. ASSUME NEW x \in Calls PROVE v.states[x].waiters = c.states[x].waiters
                <5>1. c.states[x] \in PartitionState
                    BY <1>0 DEF Controller
                <5>2. PruneBudget(c.states[x]).waiters = c.states[x].waiters
                    BY <5>1, PruneTypes
                <5>3. v.states[x] \in {PruneBudget(c.states[x]), c.states[x]}
                    BY <1>0 DEF EvictIdlePartitions, Controller
                <5> QED BY <5>2, <5>3
            <4> QED BY <4>1, <4>2, <4>3
        <3> HIDE DEF v, q
        <3> DEFINE b == [v EXCEPT !.partitions[k] = s, !.states[s] = NewState]
        <3>2. v \in Controller /\ a = b
            BY <2>2, <3>1 DEF Consistent
        <3>3. NewState \in PartitionState /\ NewState.active = 0 /\ NewState.waiters = {}
            BY DEF NewState, PartitionState
        <3>4. /\ b.partitions = [v.partitions EXCEPT ![k] = s] /\ b.states = [v.states EXCEPT ![s] = NewState]
              /\ b.held = v.held /\ b.home = v.home /\ b.outcome = v.outcome /\ b \in Controller
            BY <3>2, <3>3 DEF Controller
        <3> HIDE DEF b, a
        <3>5. /\ v.states \in [Calls -> PartitionState] /\ v.partitions \in [Keys -> Calls \cup {None}]
              /\ v.home \in [Calls -> Calls \cup {None}]
            BY <3>2 DEF Controller
        <3>6. /\ b.states[s] = NewState /\ \A x \in Calls : x # s => b.states[x] = v.states[x]
              /\ b.partitions[k] = s /\ \A j \in Keys : j # k => b.partitions[j] = v.partitions[j]
            BY <3>4, <3>5
        <3>7. OwnersKnown(b, q)
            BY <3>1, <3>4 DEF Consistent, OwnersKnown
        <3>8. WaitersUndecided(b, q)
            BY <3>1, <3>3, <3>4, <3>6 DEF Consistent, WaitersUndecided
        <3>9. ActiveExact(b)
            <4>1. \A x \in Calls : Permits(b, x) = Permits(v, x)
                BY <3>4 DEF Permits
            <4>2. Permits(v, s) = {}
                <5> SUFFICES ASSUME NEW t \in v.held, v.home[t] = s PROVE FALSE
                    BY DEF Permits
                <5>1. t \in Calls /\ s # None
                    BY <3>2, CallsFinite DEF Controller
                <5>2. p[v.home[t]] # "idle"
                    BY <3>1, <5>1 DEF Consistent, MakersArrived
                <5> QED BY <5>2
            <4>3. Cardinality(Permits(b, s)) = 0
                BY <4>1, <4>2, FS_EmptySet
            <4> QED BY <3>1, <3>3, <3>6, <4>1, <4>3 DEF ActiveExact, Consistent
        <3>10. MakersArrived(b, q)
            <4>1. q[s] # "idle"
                BY DEF q
            <4> QED BY <3>1, <3>4, <3>6, <4>1 DEF Consistent, MakersArrived
        <3> QED BY <1>0, <3>1, <3>2, <3>3, <3>4, <3>6, <3>7, <3>8, <3>9, <3>10 DEF Consistent
    <2> QED BY <2>1, <2>2
<1> DEFINE o == a.partitions[k]
           d == Opened(c, s, k)
<1>3. d = [a EXCEPT !.states[o] = PruneBudget(@), !.home[s] = o, !.key[s] = k]
    BY DEF Opened
<1> HIDE DEF a, q
<1>4. a \in Controller /\ a.states[o] \in PartitionState
    BY <1>2 DEF Consistent, Controller
<1> DEFINE st == PruneBudget(a.states[o])
<1>5. st \in PartitionState /\ st.active = a.states[o].active /\ st.waiters = a.states[o].waiters
    BY <1>4, PruneTypes
<1>6. d = [a EXCEPT !.states[o] = st, !.home[s] = o, !.key[s] = k]
    BY <1>3
<1> HIDE DEF st, d
<1>7. /\ d.states = [a.states EXCEPT ![o] = st] /\ d.home = [a.home EXCEPT ![s] = o]
      /\ d.held = a.held /\ d.outcome = a.outcome /\ d.partitions = a.partitions /\ d \in Controller
    <2>1. o \in Calls
        BY <1>2
    <2> HIDE DEF o
    <2>2. /\ d.states = [a.states EXCEPT ![o] = st] /\ d.home = [a.home EXCEPT ![s] = o]
          /\ d.held = a.held /\ d.outcome = a.outcome /\ d.partitions = a.partitions
        BY <1>4, <1>6 DEF Controller
    <2> DEFINE S == [a.states EXCEPT ![o] = st]
               Hm == [a.home EXCEPT ![s] = o]
               K == [a.key EXCEPT ![s] = k]
    <2>3. S \in [Calls -> PartitionState] /\ Hm \in [Calls -> Calls \cup {None}]
          /\ K \in [Calls -> Keys \cup {None}]
        BY <1>4, <1>5, <2>1 DEF Controller
    <2>4. d = [a EXCEPT !.states = S, !.home = Hm, !.key = K]
        BY <1>6
    <2> HIDE DEF S, Hm, K
    <2>5. d \in Controller
        BY <1>4, <2>3, <2>4 DEF Controller
    <2> QED BY <2>2, <2>5
<1>8. /\ a.states \in [Calls -> PartitionState] /\ a.home \in [Calls -> Calls \cup {None}]
      /\ a.partitions \in [Keys -> Calls \cup {None}] /\ a.held \subseteq Calls
    BY <1>4 DEF Controller
<1>9. /\ \A x \in Calls : d.states[x].active = a.states[x].active /\ d.states[x].waiters = a.states[x].waiters
      /\ d.home[s] = o /\ \A t \in Calls : t # s => d.home[t] = a.home[t]
    BY <1>2, <1>5, <1>7, <1>8
<1>10. s \notin a.held /\ o # None
    BY <1>0, <1>2, CallsFinite
<1>11. OwnersKnown(d, q)
    BY <1>2, <1>7, <1>8, <1>9, <1>10 DEF Consistent, OwnersKnown
<1>12. WaitersUndecided(d, q)
    <2> SUFFICES ASSUME NEW x \in Calls, NEW w \in a.states[x].waiters
                 PROVE  d.home[w] = x /\ q[w] = "waiting" /\ a.outcome[w] = "none" /\ w \notin a.held
        BY <1>7, <1>9 DEF WaitersUndecided
    <2>1. w \in Calls /\ w # s
        BY <1>2, <1>8 DEF PartitionState
    <2> QED BY <1>2, <1>9, <2>1 DEF Consistent, WaitersUndecided
<1>13. ActiveExact(d)
    <2>1. \A x \in Calls : Permits(d, x) = Permits(a, x)
        BY <1>7, <1>8, <1>9, <1>10 DEF Permits
    <2> QED BY <1>2, <1>9, <2>1 DEF Consistent, ActiveExact
<1>14. MakersArrived(d, q)
    BY <1>2, <1>7, <1>8, <1>9, <1>10 DEF Consistent, MakersArrived
<1>15. Consistent(d, q)
    BY <1>7, <1>11, <1>12, <1>13, <1>14 DEF Consistent
<1> QED BY <1>2, <1>7, <1>9, <1>10, <1>15 DEF d, q
\* close(): every partition in the map loses its queue, whose waiters are told.
LEMMA CloseKeeps ==
    ASSUME IInv, Close
    PROVE  IInv'
<1> DEFINE here(o) == \E k \in Keys : ctl.partitions[k] = o
           S == [o \in Calls |-> IF here(o) THEN [ctl.states[o] EXCEPT !.waiters = {}] ELSE ctl.states[o]]
           told(s) == \E k \in Keys : ctl.partitions[k] # None /\ s \in ctl.states[ctl.partitions[k]].waiters
           O == [s \in Calls |-> IF told(s) THEN "closed" ELSE ctl.outcome[s]]
<1>0. /\ Consistent(ctl, pc) /\ ctl \in Controller /\ ctl.states \in [Calls -> PartitionState]
      /\ ctl.outcome \in [Calls -> Outcome] /\ ctl.partitions \in [Keys -> Calls \cup {None}]
    BY DEF IInv, TypeOK, Controller
<1>1. ctl' = [ctl EXCEPT !.closed = TRUE, !.states = S, !.outcome = O]
    BY DEF Close
<1>2. \A o \in Calls : /\ S[o] \in PartitionState /\ S[o].active = ctl.states[o].active
                       /\ S[o].waiters = IF here(o) THEN {} ELSE ctl.states[o].waiters
    BY <1>0 DEF PartitionState
<1>3. S \in [Calls -> PartitionState] /\ O \in [Calls -> Outcome]
    BY <1>0, <1>2 DEF Outcome
<1>4. \A s \in Calls : O[s] = IF told(s) THEN "closed" ELSE ctl.outcome[s]
    OBVIOUS
<1> HIDE DEF S, O
<1>5. /\ ctl'.states = S /\ ctl'.outcome = O /\ ctl'.held = ctl.held /\ ctl'.home = ctl.home
      /\ ctl'.partitions = ctl.partitions /\ ctl' \in Controller /\ pc' = pc
    BY <1>0, <1>1, <1>3 DEF Controller, Close
<1>6. OwnersKnown(ctl, pc)' /\ MakersArrived(ctl, pc)'
    <2>1. \A s \in ctl.held : s \in Calls /\ ~told(s)
        BY <1>0 DEF Consistent, WaitersUndecided, Controller
    <2>2. \A s \in Calls : told(s) => pc[s] = "waiting"
        BY <1>0 DEF Consistent, WaitersUndecided
    <2> QED BY <1>0, <1>4, <1>5, <2>1, <2>2 DEF Consistent, OwnersKnown, MakersArrived
<1>7. WaitersUndecided(ctl, pc)'
    <2> SUFFICES ASSUME NEW o \in Calls, NEW w \in S[o].waiters
                 PROVE  ctl.home[w] = o /\ pc[w] = "waiting" /\ O[w] = "none" /\ w \notin ctl.held
        BY <1>5 DEF WaitersUndecided
    <2>1. ~here(o) /\ w \in ctl.states[o].waiters /\ w \in Calls
        BY <1>0, <1>2 DEF PartitionState
    <2>2. ctl.home[w] = o /\ pc[w] = "waiting" /\ ctl.outcome[w] = "none" /\ w \notin ctl.held
        BY <1>0, <2>1 DEF Consistent, WaitersUndecided
    <2>3. ~told(w)
        BY <1>0, <2>1, <2>2 DEF Consistent, WaitersUndecided
    <2> QED BY <1>4, <2>1, <2>2, <2>3
<1>8. ActiveExact(ctl)'
    BY <1>0, <1>2, <1>5 DEF Consistent, ActiveExact, Permits
<1>9. Consistent(ctl, pc)'
    BY <1>5, <1>6, <1>7, <1>8 DEF Consistent
<1>10. TypeOK'
    BY <1>5 DEF IInv, TypeOK, Close
<1> QED BY <1>9, <1>10 DEF IInv

LEMMA InitHolds == Init => IInv
<1> SUFFICES ASSUME Init PROVE IInv
    OBVIOUS
<1>1. NewState \in PartitionState /\ NewState.active = 0 /\ NewState.waiters = {}
    BY DEF NewState, PartitionState
<1>2. ctl \in Controller /\ ctl.held = {} /\ \A o \in Calls : ctl.states[o] = NewState
    BY <1>1 DEF Init, Controller, Totals, Outcome
<1>3. TypeOK
    BY <1>2 DEF Init, TypeOK, Phase, Charge
<1>4. ActiveExact(ctl)
    <2>1. \A o \in Calls : Permits(ctl, o) = {}
        BY <1>2 DEF Permits
    <2> QED BY <1>1, <1>2, <2>1, FS_EmptySet DEF ActiveExact
<1>5. OwnersKnown(ctl, pc) /\ WaitersUndecided(ctl, pc)
    BY <1>1, <1>2 DEF OwnersKnown, WaitersUndecided
<1>6. MakersArrived(ctl, pc)
    BY DEF Init, MakersArrived
<1> QED BY <1>2, <1>3, <1>4, <1>5, <1>6 DEF IInv, Consistent

\* The histories: what is logged are charges.
LEMMA RecordTypes ==
    ASSUME NEW c \in Controller, log \in [Keys -> SUBSET Charge], now \in Nat, Record(c)
    PROVE  log' \in [Keys -> SUBSET Charge]
<1>1. \A s \in Calls : ChargeOf(s, 0) \in Charge
    BY DEF ChargeOf, Charge
<1>2. c.held \subseteq Calls
    BY DEF Controller
<1> QED BY <1>1, <1>2 DEF Record
\* The variables the controller does not keep.
Around == now \in Nat /\ pc \in [Calls -> Phase] /\ aborted \subseteq Calls /\ asked \in Nat
          /\ log \in [Keys -> SUBSET Charge]

LEMMA Facts == ASSUME IInv PROVE Around /\ Consistent(ctl, pc) /\ ctl \in Controller
BY DEF IInv, TypeOK, Around

LEMMA Rebuild == ASSUME Around', Consistent(ctl, pc)' PROVE IInv'
BY DEF IInv, TypeOK, Around, Consistent

\* A call that is idle holds nothing and queues nowhere.
LEMMA IdleFree ==
    ASSUME IInv, NEW s \in Calls, pc[s] = "idle"
    PROVE  s \notin ctl.held /\ \A o \in Calls : s \notin ctl.states[o].waiters
BY DEF IInv, Consistent, OwnersKnown, WaitersUndecided

\* acquire() refuses a call before it has looked for a partition, or for room.
LEMMA TurnedAwayKeeps ==
    ASSUME IInv, NEW s \in Calls, NEW k,
           AcquireClosed(s) \/ AcquireCancelled(s) \/ AcquireInvalid(s) \/ AcquireNoRoom(s, k)
    PROVE  IInv'
<1>0. Around /\ Consistent(ctl, pc) /\ ctl \in Controller /\ pc[s] = "idle"
    BY Facts DEF AcquireClosed, AcquireCancelled, AcquireInvalid, AcquireNoRoom, Arriving
<1>1. PICK phase \in {"closed", "cancelled", "rejected"} : pc' = [pc EXCEPT ![s] = phase]
    BY DEF AcquireClosed, AcquireCancelled, AcquireInvalid, AcquireNoRoom, Ends
<1>2. Around'
    BY <1>0, <1>1 DEF Around, Phase, AcquireClosed, AcquireCancelled, AcquireInvalid, AcquireNoRoom
<1>3. Consistent(ctl, pc')
    BY <1>0, <1>1, IdleFree, PhaseKeeps DEF Around, Phase
<1>4. Consistent(EvictIdlePartitions(ctl), pc')
    BY <1>0, <1>3, EvictKeeps DEF Around
<1>5. EvictIdlePartitions(ctl) \in Controller
    BY <1>4 DEF Consistent
<1>6. CASE AcquireClosed(s)
    BY <1>2, <1>3, <1>6, Rebuild DEF AcquireClosed
<1>7. CASE AcquireCancelled(s)
    <2>1. Counts(ctl, ctl')
        BY <1>0, <1>7, TotalsMove DEF AcquireCancelled
    <2> QED BY <1>2, <1>3, <2>1, CountsKeeps, Rebuild
<1>8. CASE AcquireInvalid(s)
    <2>1. Counts(ctl, ctl')
        BY <1>0, <1>8, TotalsMove DEF AcquireInvalid
    <2> QED BY <1>2, <1>3, <2>1, CountsKeeps, Rebuild
<1>9. CASE AcquireNoRoom(s, k)
    <2>1. Counts(EvictIdlePartitions(ctl), ctl')
        BY <1>5, <1>9, TotalsMove DEF AcquireNoRoom
    <2> QED BY <1>2, <1>4, <2>1, CountsKeeps, Rebuild
<1> QED BY <1>6, <1>7, <1>8, <1>9

\* acquire() finds or makes the partition, and admits, queues or refuses.
LEMMA EntersKeeps ==
    ASSUME IInv, NEW s \in Calls, NEW k \in Keys,
           AcquireLimited(s, k) \/ AcquireFull(s, k) \/ AcquireAdmitted(s, k) \/ AcquireQueued(s, k)
    PROVE  IInv'
<1> DEFINE c == Opened(ctl, s, k)
           o == c.home[s]
<1>0. Around /\ Consistent(ctl, pc) /\ ctl \in Controller /\ pc[s] = "idle"
    BY Facts DEF AcquireLimited, AcquireFull, AcquireAdmitted, AcquireQueued, Enters, Arriving
<1>1. PICK phase \in {"rateLimited", "rejected", "running", "waiting"} : pc' = [pc EXCEPT ![s] = phase]
    BY DEF AcquireLimited, AcquireFull, AcquireAdmitted, AcquireQueued, Ends
<1>2. /\ Consistent(c, pc') /\ o \in Calls /\ s \notin c.held
      /\ \A x \in Calls : s \notin c.states[x].waiters
      /\ c.outcome = ctl.outcome /\ c.held = ctl.held
    <2>1. phase \in Phase \ {"idle"} /\ pc \in [Calls -> Phase] /\ now \in Nat
        BY <1>0, <1>1 DEF Around, Phase
    <2>2. Consistent(c, [pc EXCEPT ![s] = phase]) /\ o \in Calls /\ s \notin c.held
          /\ (\A x \in Calls : s \notin c.states[x].waiters)
          /\ c.outcome = ctl.outcome /\ c.held = ctl.held
        <3>1. PICK u : u = Opened(ctl, s, k)
            OBVIOUS
        <3>2. phase # "idle" /\ phase \in Phase
            BY <2>1
        <3>3. Consistent(u, [pc EXCEPT ![s] = phase])
            BY <1>0, <2>1, <3>1, OpenedKeeps
        <3>4. u.home[s] \in Calls
            BY <1>0, <2>1, <3>1, OpenedKeeps
        <3>6. s \notin u.held
            BY <1>0, <2>1, <3>1, OpenedKeeps
        <3>7. u.outcome = ctl.outcome /\ u.held = ctl.held
            BY <1>0, <3>1, OpenedShape
        <3>5. \A x \in Calls : s \notin u.states[x].waiters
            BY <1>0, <2>1, <3>1, OpenedKeeps
        <3> QED BY <3>1, <3>3, <3>4, <3>5, <3>6, <3>7
    <2> QED BY <1>1, <2>2
<1>3. c \in Controller /\ c.outcome[s] = "none"
    BY <1>0, <1>2 DEF Consistent, MakersArrived
<1>4. now' \in Nat /\ pc' \in [Calls -> Phase] /\ aborted' \subseteq Calls /\ asked' \in Nat
    BY <1>0, <1>1 DEF Around, Phase, AcquireLimited, AcquireFull, AcquireAdmitted, AcquireQueued
<1> HIDE DEF c
<1>5. CASE AcquireLimited(s, k) \/ AcquireFull(s, k)
    <2>1. Counts(c, ctl')
        BY <1>3, <1>5, TotalsMove DEF AcquireLimited, AcquireFull, c
    <2>2. log' = log
        BY <1>5 DEF AcquireLimited, AcquireFull
    <2> QED BY <1>0, <1>2, <1>4, <2>1, <2>2, CountsKeeps, Rebuild DEF Around
<1>6. CASE AcquireAdmitted(s, k)
    <2> DEFINE d == Admit(c, o, {s})
    <2>1. ctl' = d /\ Record(d) /\ pc' = [pc EXCEPT ![s] = "running"]
        BY <1>6 DEF AcquireAdmitted, Ends, c
    <2>2. Cardinality({s}) \in Nat
          /\ c.states[o].active + Cardinality({s}) = Cardinality({t \in c.held \cup {s} : c.home[t] = o})
        BY <1>2, <1>3, PermitsGrow DEF Consistent, ActiveExact
    <2>3. /\ d \in Controller /\ d.states = [c.states EXCEPT ![o] = Charged(c.states[o], {s})]
          /\ d.held = c.held \cup {s}
          /\ d.home = c.home /\ d.outcome = c.outcome /\ d.partitions = c.partitions
        <3>1. {s} \in SUBSET Calls /\ now \in Nat
            BY <1>0 DEF Around
        <3>2. PICK W : W = {s}
            OBVIOUS
        <3>3. W \in SUBSET Calls /\ Cardinality(W) \in Nat
            BY <2>2, <3>2
        <3>4. /\ Admit(c, o, W) \in Controller
              /\ Admit(c, o, W).states = [c.states EXCEPT ![o] = Charged(c.states[o], W)]
              /\ Admit(c, o, W).held = c.held \cup W
              /\ Admit(c, o, W).home = c.home /\ Admit(c, o, W).outcome = c.outcome
              /\ Admit(c, o, W).partitions = c.partitions
            BY <1>2, <1>3, <3>1, <3>3, AdmitTypes
        <3> QED BY <3>2, <3>4
    <2>4. c.states \in [Calls -> PartitionState]
        BY <1>3 DEF Controller
    <2>5. Charged(c.states[o], {s}).active = c.states[o].active + Cardinality({s})
          /\ Charged(c.states[o], {s}).waiters = c.states[o].waiters
        BY <1>0, <1>2, <2>2, <2>4, ChargedTypes DEF Around
    <2> HIDE DEF d
    <2>6. \A x \in Calls : d.states[x].waiters = c.states[x].waiters
                           /\ (x # o => d.states[x].active = c.states[x].active)
        BY <1>2, <2>3, <2>4, <2>5
    <2>7. OwnersKnown(d, pc') /\ MakersArrived(d, pc')
        <3>1. pc'[s] = "running" /\ c.home[s] # None
            BY <1>0, <1>2, <2>1, CallsFinite DEF Around
        <3> QED BY <1>2, <2>3, <3>1 DEF Consistent, OwnersKnown, MakersArrived
    <2>8. WaitersUndecided(d, pc')
        BY <1>2, <2>3, <2>6 DEF Consistent, WaitersUndecided
    <2>9. ActiveExact(d)
        <3>1. d.states[o].active = Cardinality(Permits(d, o))
            BY <1>2, <2>2, <2>3, <2>4, <2>5 DEF Permits
        <3>2. ASSUME NEW x \in Calls, x # o PROVE d.states[x].active = Cardinality(Permits(d, x))
            <4>1. Permits(d, x) = Permits(c, x)
                BY <2>3, <3>2 DEF Permits
            <4> QED BY <1>2, <2>6, <3>2, <4>1 DEF Consistent, ActiveExact
        <3> QED BY <3>1, <3>2 DEF ActiveExact
    <2>10. log' \in [Keys -> SUBSET Charge]
        BY <1>0, <2>1, <2>3, RecordTypes DEF Around
    <2>11. Around'
        BY <1>4, <2>10 DEF Around
    <2>12. Consistent(d, pc')
        BY <2>3, <2>7, <2>8, <2>9 DEF Consistent
    <2> QED BY <2>1, <2>11, <2>12, Rebuild
<1>7. CASE AcquireQueued(s, k)
    <2> DEFINE y == [c.states[o] EXCEPT !.waiters = @ \cup {s}]
               S == [c.states EXCEPT ![o] = y]
               t == [c.totals EXCEPT !.queued = @ + 1]
               A == [c.queuedAt EXCEPT ![s] = now]
               B == [c.place EXCEPT ![s] = c.totals.queued]
    <2>1. ctl' = [c EXCEPT !.states = S, !.queuedAt = A, !.place = B, !.totals = t]
          /\ pc' = [pc EXCEPT ![s] = "waiting"] /\ log' = log
        BY <1>7 DEF AcquireQueued, Ends, c
    <2>2. c.states \in [Calls -> PartitionState]
        BY <1>3 DEF Controller
    <2>3. y \in PartitionState /\ y.active = c.states[o].active /\ y.waiters = c.states[o].waiters \cup {s}
        <3>1. PICK z \in PartitionState : z = c.states[o]
            BY <1>2, <2>2
        <3>2. PICK V : V = c.states[o].waiters \cup {s}
            OBVIOUS
        <3>3. V \subseteq Calls
            BY <3>1, <3>2 DEF PartitionState
        <3>4. LET x == [z EXCEPT !.waiters = V] IN
                x \in PartitionState /\ x.active = z.active /\ x.waiters = V
            BY <3>3 DEF PartitionState
        <3> QED BY <3>1, <3>2, <3>4
    <2>4. t \in Totals /\ A \in [Calls -> Nat] /\ B \in [Calls -> Nat]
        BY <1>0, <1>3 DEF Controller, Totals, Around
    <2> HIDE DEF y, t, A, B
    <2>5. S \in [Calls -> PartitionState] /\ S[o] = y /\ \A x \in Calls : x # o => S[x] = c.states[x]
        BY <1>2, <2>2, <2>3
    <2> HIDE DEF S
    <2>6. /\ ctl'.states = S /\ ctl'.held = c.held /\ ctl'.home = c.home /\ ctl'.outcome = c.outcome
          /\ ctl'.partitions = c.partitions /\ ctl' \in Controller
        BY <1>3, <2>1, <2>4, <2>5 DEF Controller
    <2>7. pc'[s] = "waiting"
        BY <1>0, <2>1 DEF Around
    <2>8. OwnersKnown(ctl, pc)' /\ MakersArrived(ctl, pc)'
        BY <1>2, <2>6 DEF Consistent, OwnersKnown, MakersArrived
    <2>9. WaitersUndecided(ctl, pc)'
        <3> SUFFICES ASSUME NEW x \in Calls, NEW w \in S[x].waiters
                     PROVE  c.home[w] = x /\ pc'[w] = "waiting" /\ c.outcome[w] = "none" /\ w \notin c.held
            BY <2>6 DEF WaitersUndecided
        <3>1. w \in c.states[x].waiters \/ (w = s /\ x = o)
            BY <2>3, <2>5
        <3> QED BY <1>2, <1>3, <2>7, <3>1 DEF Consistent, WaitersUndecided
    <2>10. ActiveExact(ctl)'
        BY <1>2, <2>3, <2>5, <2>6 DEF Consistent, ActiveExact, Permits
    <2>11. Around'
        BY <1>0, <1>4, <2>1 DEF Around
    <2>12. Consistent(ctl, pc)'
        BY <2>6, <2>8, <2>9, <2>10 DEF Consistent
    <2> QED BY <2>11, <2>12, Rebuild
<1> QED BY <1>5, <1>6, <1>7
\* What a queued caller hears or does, and a running one's release.
LEMMA RaceKeeps ==
    ASSUME IInv, NEW s \in Calls,
           HearRefusal(s) \/ Received(s) \/ TimesOut(s) \/ AbortHeard(s) \/ Interrupt(s) \/ Release(s)
    PROVE  IInv'
<1>0. Around /\ Consistent(ctl, pc) /\ ctl \in Controller /\ now \in Nat
      /\ log \in [Keys -> SUBSET Charge] /\ pc \in [Calls -> Phase]
    BY Facts DEF Around
<1>1. PICK phase \in Phase \ {"idle", "waiting"} : pc' = [pc EXCEPT ![s] = phase]
    BY DEF HearRefusal, Received, TimesOut, AbortHeard, Interrupt, Release, Ends, Phase
<1>2. now' \in Nat /\ pc' \in [Calls -> Phase] /\ aborted' \subseteq Calls /\ asked' \in Nat
    BY <1>0, <1>1 DEF Around, HearRefusal, Received, TimesOut, AbortHeard, Interrupt, Release
\* s is free in c: its phase may change to what the step says.
<1>3. ASSUME NEW c, Consistent(c, pc), s \notin c.held, \A o \in Calls : s \notin c.states[o].waiters,
             ctl' = c, log' \in [Keys -> SUBSET Charge]
      PROVE  IInv'
    <2>1. Consistent(c, pc')
        BY <1>0, <1>1, <1>3, PhaseKeeps
    <2> QED BY <1>2, <1>3, <2>1, Rebuild DEF Around
<1>4. ASSUME Queued(s)
      PROVE  LET c == [Withdrawn(ctl, s) EXCEPT !.totals.rejected = @ + 1]
                 d == [Withdrawn(ctl, s) EXCEPT !.totals.cancelled = @ + 1]
             IN  /\ Consistent(c, pc) /\ s \notin c.held /\ \A o \in Calls : s \notin c.states[o].waiters
                 /\ Consistent(d, pc) /\ s \notin d.held /\ \A o \in Calls : s \notin d.states[o].waiters
                 /\ c.held = ctl.held /\ d.held = ctl.held
    <2> DEFINE w == Withdrawn(ctl, s)
    <2>1. /\ Consistent(w, pc) /\ w.held = ctl.held /\ s \notin ctl.held
          /\ \A o \in Calls : s \notin w.states[o].waiters
        BY <1>0, <1>4, WithdrawnKeeps DEF Queued
    <2>2. w \in Controller
        BY <2>1 DEF Consistent
    <2> HIDE DEF w
    <2>3. Counts(w, [w EXCEPT !.totals.rejected = @ + 1]) /\ Counts(w, [w EXCEPT !.totals.cancelled = @ + 1])
        BY <2>2, TotalsMove
    <2>4. Consistent([w EXCEPT !.totals.rejected = @ + 1], pc)
          /\ Consistent([w EXCEPT !.totals.cancelled = @ + 1], pc)
        BY <2>1, <2>3, CountsKeeps
    <2> QED BY <2>1, <2>3, <2>4 DEF Counts, w
<1>5. ASSUME NEW o \in Calls, s \in ctl.states[o].waiters
      PROVE  pc[s] = "waiting" /\ ctl.outcome[s] = "none" /\ Queued(s)
    BY <1>0, <1>5, CallsFinite DEF Consistent, WaitersUndecided, Queued
<1>6. CASE HearRefusal(s)
    <2>1. s \notin ctl.held
        BY <1>0, <1>6 DEF HearRefusal, Consistent, OwnersKnown
    <2>2. \A o \in Calls : s \notin ctl.states[o].waiters
        BY <1>5, <1>6 DEF HearRefusal
    <2> QED BY <1>0, <1>3, <1>6, <2>1, <2>2 DEF HearRefusal
<1>7. CASE Received(s)
    <2>1. \A o \in Calls : s \notin ctl.states[o].waiters
        BY <1>5, <1>7 DEF Received
    <2>2. CASE ctl.closed
        <3>1. ctl' = ReleasePermit(ctl, s) /\ log' = log
            BY <1>7, <2>2 DEF Received
        <3> QED BY <1>0, <1>3, <2>1, <3>1, ReleaseKeeps
    <2>3. CASE ~ctl.closed
        <3>1. ctl' = ctl /\ pc' = [pc EXCEPT ![s] = "running"] /\ log' = log
            BY <1>7, <2>3 DEF Received, Ends
        <3>2. \A t \in Calls : pc'[t] = IF t = s THEN "running" ELSE pc[t]
            BY <1>0, <3>1
        <3>3. OwnersKnown(ctl, pc')
            BY <1>0, <3>2 DEF Consistent, OwnersKnown, Controller
        <3>4. WaitersUndecided(ctl, pc')
            BY <1>0, <2>1, <3>2 DEF Consistent, WaitersUndecided, Controller, PartitionState
        <3>5. MakersArrived(ctl, pc')
            BY <1>0, <3>2 DEF Consistent, MakersArrived, Controller
        <3>6. Consistent(ctl, pc')
            BY <1>0, <3>3, <3>4, <3>5 DEF Consistent
        <3> QED BY <1>0, <1>2, <3>1, <3>6, Rebuild DEF Around
    <2> QED BY <2>2, <2>3
<1>8. CASE TimesOut(s) \/ AbortHeard(s)
    BY <1>0, <1>3, <1>4, <1>8 DEF TimesOut, AbortHeard
<1>9. CASE Interrupt(s)
    <2>1. CASE Queued(s)
        <3> DEFINE c == [Withdrawn(ctl, s) EXCEPT !.totals.cancelled = @ + 1]
        <3>1. /\ Consistent(c, pc) /\ s \notin c.held /\ \A o \in Calls : s \notin c.states[o].waiters
              /\ ctl' = c /\ Record(c)
            BY <1>4, <1>9, <2>1 DEF Interrupt
        <3> HIDE DEF c
        <3>2. log' \in [Keys -> SUBSET Charge]
            BY <1>0, <3>1, RecordTypes DEF Consistent
        <3> QED BY <1>3, <3>1, <3>2
    <2>2. CASE ~Queued(s)
        <3> DEFINE c == ReleasePermit(ctl, s)
        <3>1. /\ Consistent(c, pc) /\ s \notin c.held /\ \A o \in Calls : s \notin c.states[o].waiters
            BY <1>0, <1>5, <2>2, ReleaseKeeps
        <3>2. ctl' = c /\ Record(c)
            BY <1>9, <2>2 DEF Interrupt
        <3> HIDE DEF c
        <3>3. log' \in [Keys -> SUBSET Charge]
            BY <1>0, <3>1, <3>2, RecordTypes DEF Consistent
        <3> QED BY <1>3, <3>1, <3>2, <3>3
    <2> QED BY <2>1, <2>2
<1>10. CASE Release(s)
    <2> DEFINE c == ReleasePermit(ctl, s)
    <2>1. pc[s] = "running" /\ ctl' = c /\ Record(c)
        BY <1>10 DEF Release
    <2>2. /\ Consistent(c, pc) /\ s \notin c.held /\ \A o \in Calls : s \notin c.states[o].waiters
        BY <1>0, <1>5, <2>1, ReleaseKeeps
    <2> HIDE DEF c
    <2>3. log' \in [Keys -> SUBSET Charge]
        BY <1>0, <2>1, <2>2, RecordTypes DEF Consistent
    <2> QED BY <1>3, <2>1, <2>2, <2>3
<1> QED BY <1>6, <1>7, <1>8, <1>9, <1>10

\* The windows of the state objects may change, and the totals.
LEMMA WindowsMove ==
    ASSUME NEW c, NEW p, Consistent(c, p), NEW S \in [Calls -> PartitionState], NEW t \in Totals,
           \A o \in Calls : S[o].active = c.states[o].active /\ S[o].waiters = c.states[o].waiters
    PROVE  Consistent([c EXCEPT !.states = S, !.totals = t], p)
<1> DEFINE d == [c EXCEPT !.states = S, !.totals = t]
<1>1. c \in Controller
    BY DEF Consistent
<1>2. /\ d \in Controller /\ d.states = S /\ d.held = c.held /\ d.home = c.home
      /\ d.outcome = c.outcome /\ d.partitions = c.partitions
    BY <1>1 DEF Controller
<1> HIDE DEF d
<1>3. Consistent(d, p)
    BY <1>2, MapLoses
<1> QED BY <1>3 DEF d

\* A further request of a running call charges its state object's window; slots
\* and queues stay as they are.
LEMMA ChargeKeeps ==
    ASSUME IInv, NEW s \in Calls, ChargeBudget(s)
    PROVE  IInv'
<1> DEFINE o == ctl.home[s]
           k == ctl.key[s]
           st == PruneBudget(ctl.states[o])
           S == [ctl.states EXCEPT ![o] = st]
           c == [ctl EXCEPT !.states[o] = st]
           x == ChargeOf(s, asked + 1)
           y == [S[o] EXCEPT !.admittedAt = @ \cup {x}]
           T == [S EXCEPT ![o] = y]
           t == [ctl.totals EXCEPT !.admitted = @ + 1]
           d == [c EXCEPT !.states[o].admittedAt = @ \cup {x}, !.totals.admitted = @ + 1]
<1>0. Around /\ Consistent(ctl, pc) /\ ctl \in Controller /\ now \in Nat /\ asked \in Nat
      /\ log \in [Keys -> SUBSET Charge] /\ pc \in [Calls -> Phase] /\ o \in Calls \cup {None}
      /\ ctl.states \in [Calls -> PartitionState] /\ ctl.totals \in Totals
    BY Facts DEF Around, Controller
<1>1. pc' = pc /\ now' = now /\ aborted' = aborted /\ asked' = asked + 1
    BY DEF ChargeBudget
<1>2. x \in Charge
    BY <1>0 DEF ChargeOf, Charge
<1>3. o \in Calls => /\ st \in PartitionState
                     /\ st.active = ctl.states[o].active /\ st.waiters = ctl.states[o].waiters
    BY <1>0, PruneTypes
<1>4. Consistent(c, pc)
    <2>1. c = [ctl EXCEPT !.states = S, !.totals = ctl.totals]
        BY <1>0 DEF Controller
    <2> HIDE DEF st, c
    <2>2. /\ S \in [Calls -> PartitionState]
          /\ \A z \in Calls : S[z].active = ctl.states[z].active /\ S[z].waiters = ctl.states[z].waiters
        BY <1>0, <1>3
    <2> HIDE DEF S
    <2> QED BY <1>0, <2>1, <2>2, WindowsMove
<1>5. Consistent(d, pc)
    <2>1. c = [ctl EXCEPT !.states = S] /\ t \in Totals
        BY <1>0 DEF Controller, Totals
    <2> HIDE DEF st
    <2>2. /\ S \in [Calls -> PartitionState]
          /\ \A z \in Calls : S[z].active = ctl.states[z].active /\ S[z].waiters = ctl.states[z].waiters
        BY <1>0, <1>3
    <2> HIDE DEF c, S, x
    <2>3. c.states = S /\ c.totals = ctl.totals
        BY <1>0, <2>1 DEF Controller
    <2>4. d = [c EXCEPT !.states = [c.states EXCEPT ![o] = [c.states[o] EXCEPT !.admittedAt = @ \cup {x}]],
                        !.totals = [c.totals EXCEPT !.admitted = @ + 1]]
        OBVIOUS
    <2> HIDE DEF d
    <2>5. d = [c EXCEPT !.states = T, !.totals = t]
        BY <2>3, <2>4
    <2>6. o \in Calls => /\ y \in PartitionState
                         /\ y.active = S[o].active /\ y.waiters = S[o].waiters
        BY <1>2, <2>2 DEF PartitionState
    <2> HIDE DEF y
    <2>7. /\ T \in [Calls -> PartitionState]
          /\ \A z \in Calls : T[z].active = S[z].active /\ T[z].waiters = S[z].waiters
        BY <1>0, <2>2, <2>6
    <2>8. \A z \in Calls : T[z].active = c.states[z].active /\ T[z].waiters = c.states[z].waiters
        BY <2>3, <2>7
    <2>9. t \in Totals
        BY <2>1
    <2> HIDE DEF T, t
    <2>10. Consistent([c EXCEPT !.states = T, !.totals = t], pc)
        BY <1>4, <2>7, <2>8, <2>9, WindowsMove
    <2> QED BY <2>5, <2>10
<1>6. Consistent([ctl EXCEPT !.totals.cancelled = @ + 1], pc)
    BY <1>0, TotalsMove, CountsKeeps
<1>7. Consistent([c EXCEPT !.totals.rateLimited = @ + 1], pc)
    <2> HIDE DEF c
    <2>1. c \in Controller
        BY <1>4 DEF Consistent
    <2> QED BY <1>4, <2>1, TotalsMove, CountsKeeps
<1>8. ctl' \in {[ctl EXCEPT !.totals.cancelled = @ + 1], [c EXCEPT !.totals.rateLimited = @ + 1], d}
    BY DEF ChargeBudget
<1>9. log' = log \/ log' = [log EXCEPT ![k] = @ \cup {x}]
    BY DEF ChargeBudget
<1> HIDE DEF c, d, x
<1>10. log' \in [Keys -> SUBSET Charge]
    BY <1>0, <1>2, <1>9
<1>11. Consistent(ctl, pc)'
    BY <1>1, <1>5, <1>6, <1>7, <1>8
<1> QED BY <1>0, <1>1, <1>10, <1>11, Rebuild DEF Around

\* Every step keeps the inductive invariant.
LEMMA NextHolds == IInv /\ [Next]_vars => IInv'
<1> SUFFICES ASSUME IInv, [Next]_vars PROVE IInv'
    OBVIOUS
<1>0. Around /\ Consistent(ctl, pc) /\ ctl \in Controller /\ now \in Nat
    BY Facts DEF Around
<1>1. CASE UNCHANGED vars
    BY <1>0, <1>1, Rebuild DEF vars, Around
<1>2. CASE Close
    BY <1>2, CloseKeeps
<1>3. CASE IsIdle
    BY <1>0, <1>3, EvictKeeps, Rebuild DEF IsIdle, Around
<1>4. CASE Tick
    BY <1>0, <1>4, BoundsNatural, Rebuild DEF Tick, Around
<1>5. ASSUME NEW s \in Calls, Abort(s) PROVE IInv'
    BY <1>0, <1>5, Rebuild DEF Abort, Around
<1> QED BY <1>1, <1>2, <1>3, <1>4, <1>5, TurnedAwayKeeps, EntersKeeps, RaceKeeps, ChargeKeeps DEF Next

\* The inductive invariant holds of every reachable state of the controller.
THEOREM AlwaysIInv == Spec => []IInv
BY InitHolds, NextHolds, PTL DEF Spec

\* Every field of the controller and every variable keeps its shape.
THEOREM TypesHold == Spec => []TypeOK
<1>1. IInv => TypeOK
    BY DEF IInv
<1> QED BY <1>1, AlwaysIInv, PTL

\* release(), pump() and onInterrupt: no permit is stranded, and `active` of each
\* state object is the permits it gave, whether or not the map still has it.
THEOREM PermitOwnedHolds == Spec => []PermitOwned
<1>1. IInv => PermitOwned
    BY DEF IInv, Consistent, OwnersKnown, ActiveExact, Permits, PermitOwned
<1> QED BY <1>1, AlwaysIInv, PTL

\* acquire() and received(): only an open controller lets a call run.
THEOREM NothingStartsAfterCloseHolds == Spec => NothingStartsAfterClose
<1>1. ASSUME IInv, [Next]_vars, NEW s \in Calls, pc[s] # "running", pc'[s] = "running"
      PROVE  ~ctl.closed
    <2>0. pc \in [Calls -> Phase]
        BY <1>1 DEF IInv, TypeOK
    <2>1. pc' # pc
        BY <1>1
    <2>2. PICK t \in Calls :
              \/ AcquireClosed(t) \/ AcquireCancelled(t) \/ AcquireInvalid(t)
              \/ \E k \in Keys :
                  \/ AcquireNoRoom(t, k) \/ AcquireLimited(t, k) \/ AcquireAdmitted(t, k)
                  \/ AcquireFull(t, k) \/ AcquireQueued(t, k)
              \/ HearRefusal(t) \/ Received(t) \/ TimesOut(t) \/ AbortHeard(t) \/ Interrupt(t)
              \/ Release(t)
        BY <1>1, <2>1 DEF Next, vars, ChargeBudget, Abort, Close, IsIdle, Tick
    <2>3. PICK phase : pc' = [pc EXCEPT ![t] = phase]
        BY <2>2 DEF AcquireClosed, AcquireCancelled, AcquireInvalid, AcquireNoRoom, AcquireLimited,
                    AcquireAdmitted, AcquireFull, AcquireQueued, HearRefusal, Received, TimesOut,
                    AbortHeard, Interrupt, Release, Ends
    <2>4. pc'[t] = "running"
        BY <1>1, <2>0, <2>3
    <2>5. CASE \E k \in Keys : AcquireAdmitted(t, k)
        BY <2>5 DEF AcquireAdmitted, Enters
    <2>6. CASE Received(t)
        BY <2>0, <2>4, <2>6 DEF Received, Ends
    <2>7. CASE AcquireClosed(t) \/ AcquireCancelled(t) \/ AcquireInvalid(t)
        BY <2>0, <2>4, <2>7 DEF AcquireClosed, AcquireCancelled, AcquireInvalid, Ends
    <2>8. CASE \E k \in Keys : AcquireNoRoom(t, k) \/ AcquireLimited(t, k) \/ AcquireFull(t, k)
                               \/ AcquireQueued(t, k)
        BY <2>0, <2>4, <2>8 DEF AcquireNoRoom, AcquireLimited, AcquireFull, AcquireQueued, Ends
    <2>9. CASE HearRefusal(t)
        BY <2>0, <2>4, <2>9 DEF HearRefusal, Ends
    <2>10. CASE TimesOut(t) \/ AbortHeard(t) \/ Interrupt(t) \/ Release(t)
        BY <2>0, <2>4, <2>10 DEF TimesOut, AbortHeard, Interrupt, Release, Ends
    <2> QED BY <2>2, <2>5, <2>6, <2>7, <2>8, <2>9, <2>10
<1>2. IInv /\ [Next]_vars =>
        [\A s \in Calls : pc[s] # "running" /\ pc'[s] = "running" => ~ctl.closed]_vars
    BY <1>1
<1> QED BY <1>2, AlwaysIInv, PTL DEF Spec, NothingStartsAfterClose
-----------------------------------------------------------------------------
(* The map, the queues and the budgets. A state object that is used, by a  *)
(* permit, a waiter or a charge whose window is open, is the one the map   *)
(* has for its key (Mapped); so whoever looks the key up counts all of it. *)

Young(X, t) == {x \in X : x.at + Window > t}
Used(st, t) == st.active > 0 \/ st.waiters # {} \/ Young(st.admittedAt, t) # {}

\* The map has an object for one key, that of the calls which refer to it.
Keyed(c) ==
    /\ \A s \in Calls, k \in Keys :
          c.home[s] # None /\ c.partitions[k] = c.home[s] => c.key[s] = k
    /\ \A j, k \in Keys : c.partitions[j] # None /\ c.partitions[j] = c.partitions[k] => j = k
Mapped(c, t) == \A o \in Calls : Used(c.states[o], t) => \E k \in Keys : c.partitions[k] = o

\* The queue of o is behind a state of an open controller with at most n slots
\* free, and is not too long.
Backed(c, o, n) ==
    /\ c.states[o].active <= Concurrency
    /\ c.states[o].waiters # {} => ~c.closed /\ c.states[o].active + n >= Concurrency
    /\ Cardinality(c.states[o].waiters) <= MaxQueueSize
Busy(c) == \A o \in Calls : Backed(c, o, 0)

\* No two waiters of a queue have one place in it.
Turns(c) ==
    \A o \in Calls : \A v, w \in c.states[o].waiters :
        /\ c.place[w] < c.totals.queued
        /\ v # w => c.place[v] # c.place[w]

\* A waiting call without an outcome is queued, and one that was admitted has a
\* permit.
Heard(c, p) ==
    \A s \in Calls : p[s] = "waiting" /\ c.outcome[s] = "none" =>
        c.home[s] # None /\ s \in c.states[c.home[s]].waiters
Holding(c, p) ==
    \A s \in Calls : p[s] = "running" \/ (p[s] = "waiting" /\ c.outcome[s] = "permit") => s \in c.held

\* What a key was charged in an open window is in the window of its object.
Logged(c, l, t) ==
    \A k \in Keys : \A x \in Young(l[k], t) :
        c.partitions[k] # None /\ x \in c.states[c.partitions[k]].admittedAt
\* No object has more charges in an open window than the budget allows.
Within(c, t) ==
    \A o \in Calls : /\ IsFiniteSet(c.states[o].admittedAt)
                    /\ Cardinality(Young(c.states[o].admittedAt, t)) <= MaxCalls

Linked(c, p, l, t) ==
    /\ Keyed(c) /\ Mapped(c, t) /\ Turns(c)
    /\ Heard(c, p) /\ Holding(c, p) /\ Logged(c, l, t) /\ Within(c, t)
Orderly(c, p, l, t) == Busy(c) /\ Linked(c, p, l, t)

\* RollingBudget of a log whose last entries are as old as t.
History(l, t) ==
    \A k \in Keys : /\ IsFiniteSet(l[k])
                    /\ \A x \in l[k] : x.at <= t
                    /\ \A x \in l[k] :
                          Cardinality({y \in l[k] : y.at <= x.at /\ x.at < y.at + Window}) <= MaxCalls

\* What refers to what, and the order of the queues.
Same(c, d) ==
    /\ d.home = c.home /\ d.key = c.key /\ d.held = c.held /\ d.outcome = c.outcome
    /\ d.closed = c.closed /\ d.place = c.place /\ d.totals.queued = c.totals.queued

\* A state object loses waiters, and charges whose window is over.
Prunes(x, y) ==
    /\ y.active = x.active /\ y.waiters \subseteq x.waiters
    /\ y.admittedAt \subseteq x.admittedAt /\ Young(x.admittedAt, now) \subseteq y.admittedAt

\* The map loses objects nobody uses.
Forgets(c, d) ==
    /\ Same(c, d)
    /\ \A o \in Calls : Prunes(c.states[o], d.states[o])
    /\ \A k \in Keys :
          \/ d.partitions[k] = c.partitions[k]
          \/ /\ c.partitions[k] # None /\ d.partitions[k] = None
             /\ ~Used(d.states[c.partitions[k]], now)

LEMMA PrunesUsed ==
    ASSUME NEW x, NEW y, Prunes(x, y)
    PROVE  /\ Used(y, now) => Used(x, now)
           /\ \A e \in Young(x.admittedAt, now) : e \in Young(y.admittedAt, now)
BY DEF Prunes, Used, Young

LEMMA FewerYoung ==
    ASSUME NEW X, NEW Y, NEW t, Y \subseteq X, IsFiniteSet(X), Cardinality(Young(X, t)) <= MaxCalls
    PROVE  IsFiniteSet(Y) /\ Cardinality(Young(Y, t)) <= MaxCalls
<1>1. Young(X, t) \subseteq X /\ Young(Y, t) \subseteq Young(X, t)
    BY DEF Young
<1>2. IsFiniteSet(Y) /\ IsFiniteSet(Young(X, t))
    BY <1>1, FS_Subset
<1>3. /\ Cardinality(Young(Y, t)) <= Cardinality(Young(X, t))
      /\ Cardinality(Young(Y, t)) \in Nat /\ Cardinality(Young(X, t)) \in Nat
    BY <1>1, <1>2, FS_Subset, FS_CardinalityType
<1> QED BY <1>2, <1>3, LimitsPositive

LEMMA ForgetsOrderly ==
    ASSUME NEW c \in Controller, NEW d \in Controller, NEW p, NEW l,
           Orderly(c, p, l, now), Forgets(c, d),
           \A s \in Calls : c.home[s] # None /\ p[s] = "waiting" /\ s \in c.states[c.home[s]].waiters =>
               s \in d.states[c.home[s]].waiters
    PROVE  Orderly(d, p, l, now)
<1>1. /\ c.partitions \in [Keys -> Calls \cup {None}] /\ c.states \in [Calls -> PartitionState]
      /\ c.home \in [Calls -> Calls \cup {None}]
    BY DEF Controller
<1>2. Keyed(d)
    BY DEF Orderly, Linked, Keyed, Forgets, Same
<1>3. Mapped(d, now)
    <2> SUFFICES ASSUME NEW o \in Calls, Used(d.states[o], now)
                 PROVE  \E k \in Keys : d.partitions[k] = o
        BY DEF Mapped
    <2>1. Used(c.states[o], now)
        BY PrunesUsed DEF Forgets
    <2>2. PICK k \in Keys : c.partitions[k] = o
        BY <2>1 DEF Orderly, Linked, Mapped
    <2>3. d.partitions[k] = o
        BY <2>2 DEF Forgets
    <2> QED BY <2>3
<1>4. Busy(d)
    <2> SUFFICES ASSUME NEW o \in Calls PROVE Backed(d, o, 0)
        BY DEF Busy
    <2>1. d.states[o].waiters \subseteq c.states[o].waiters /\ d.states[o].active = c.states[o].active
        BY DEF Forgets, Prunes
    <2>2. c.states[o].waiters \subseteq Calls
        BY <1>1 DEF PartitionState
    <2>3. IsFiniteSet(c.states[o].waiters)
        BY <2>2, CallsFinite, FS_Subset
    <2>4. /\ Cardinality(d.states[o].waiters) <= Cardinality(c.states[o].waiters)
          /\ Cardinality(d.states[o].waiters) \in Nat /\ Cardinality(c.states[o].waiters) \in Nat
        BY <2>1, <2>3, FS_Subset, FS_CardinalityType
    <2>5. Backed(c, o, 0) /\ d.closed = c.closed
        BY DEF Orderly, Linked, Busy, Forgets, Same
    <2> QED BY <2>1, <2>4, <2>5, BoundsNatural DEF Backed
<1>5. Turns(d)
    BY DEF Orderly, Linked, Turns, Forgets, Same, Prunes
<1>6. Heard(d, p)
    BY DEF Orderly, Linked, Heard, Forgets, Same
<1>7. Holding(d, p)
    BY DEF Orderly, Linked, Holding, Forgets, Same
<1>8. Logged(d, l, now)
    <2> SUFFICES ASSUME NEW k \in Keys, NEW x \in Young(l[k], now)
                 PROVE  d.partitions[k] # None /\ x \in d.states[d.partitions[k]].admittedAt
        BY DEF Logged
    <2>1. PICK o \in Calls : c.partitions[k] = o /\ o # None /\ x \in c.states[o].admittedAt
        BY <1>1 DEF Orderly, Linked, Logged
    <2>2. x \in Young(c.states[o].admittedAt, now)
        BY <2>1 DEF Young
    <2>3. Prunes(c.states[o], d.states[o])
        BY DEF Forgets
    <2>4. x \in d.states[o].admittedAt /\ Used(d.states[o], now)
        BY <2>2, <2>3, PrunesUsed DEF Used, Prunes
    <2> QED BY <2>1, <2>4 DEF Forgets
<1>9. Within(d, now)
    <2> SUFFICES ASSUME NEW o \in Calls
                 PROVE  /\ IsFiniteSet(d.states[o].admittedAt)
                        /\ Cardinality(Young(d.states[o].admittedAt, now)) <= MaxCalls
        BY DEF Within
    <2>1. d.states[o].admittedAt \subseteq c.states[o].admittedAt
        BY DEF Forgets, Prunes
    <2>2. /\ IsFiniteSet(c.states[o].admittedAt)
          /\ Cardinality(Young(c.states[o].admittedAt, now)) <= MaxCalls
        BY DEF Orderly, Linked, Within
    <2> QED BY <2>1, <2>2, FewerYoung
<1> QED BY <1>2, <1>3, <1>4, <1>5, <1>6, <1>7, <1>8, <1>9 DEF Orderly, Linked
-----------------------------------------------------------------------------
(* What each operation does to the map, the queues and the windows.        *)

LEMMA PrunesSame == ASSUME NEW x PROVE Prunes(x, x)
BY DEF Prunes, Young

LEMMA PruneShape ==
    ASSUME NEW st \in PartitionState, now \in Nat
    PROVE  Prunes(st, PruneBudget(st)) /\ PruneBudget(st).admittedAt = Young(st.admittedAt, now)
<1>1. PruneBudget(st).admittedAt = Young(st.admittedAt, now)
    BY DEF PruneBudget, Recent, Young, PartitionState
<1> QED BY <1>1, PruneTypes DEF Prunes, Young

\* Totals other than the number of calls ever queued matter to nobody.
LEMMA TotalsForget ==
    ASSUME NEW c \in Controller, NEW n \in Nat
    PROVE  /\ Forgets(c, [c EXCEPT !.totals.rejected = @ + n])
           /\ Forgets(c, [c EXCEPT !.totals.rateLimited = @ + n])
           /\ Forgets(c, [c EXCEPT !.totals.cancelled = @ + n])
<1>1. ASSUME NEW d, Counts(c, d), Same(c, d) PROVE Forgets(c, d)
    BY <1>1, PrunesSame DEF Forgets, Counts
<1>2. Same(c, [c EXCEPT !.totals.rejected = @ + n])
    BY SMTT(30) DEF Same, Controller, Totals
<1>3. Same(c, [c EXCEPT !.totals.rateLimited = @ + n])
    BY SMTT(30) DEF Same, Controller, Totals
<1>4. Same(c, [c EXCEPT !.totals.cancelled = @ + n])
    BY SMTT(30) DEF Same, Controller, Totals
<1> QED BY <1>1, <1>2, <1>3, <1>4, TotalsMove

LEMMA DrainedUnused == ASSUME NEW st, Drained(st) PROVE ~Used(st, now)
BY DEF Drained, Used, Young

LEMMA EvictForgets ==
    ASSUME NEW c \in Controller, now \in Nat
    PROVE  /\ Forgets(c, EvictIdlePartitions(c))
           /\ \A o \in Calls : EvictIdlePartitions(c).states[o].waiters = c.states[o].waiters
<1> DEFINE present == {c.partitions[k] : k \in Keys}
           S == [o \in Calls |-> IF o \in present THEN PruneBudget(c.states[o]) ELSE c.states[o]]
           P == [k \in Keys |->
                   IF c.partitions[k] # None /\ Drained(S[c.partitions[k]]) THEN None ELSE c.partitions[k]]
           d == EvictIdlePartitions(c)
<1>0. c.states \in [Calls -> PartitionState] /\ c.partitions \in [Keys -> Calls \cup {None}]
    BY DEF Controller
<1>1. \A o \in Calls : Prunes(c.states[o], S[o]) /\ S[o].waiters = c.states[o].waiters
    BY <1>0, PruneShape, PruneTypes, PrunesSame
<1>2. d = [c EXCEPT !.states = S, !.partitions = P]
    BY <1>0 DEF EvictIdlePartitions, Controller
<1>3. \A k \in Keys : P[k] = c.partitions[k]
                      \/ (c.partitions[k] # None /\ P[k] = None /\ ~Used(S[c.partitions[k]], now))
    BY DrainedUnused
<1> HIDE DEF S, P, d
<1>4. d.states = S /\ d.partitions = P /\ Same(c, d)
    BY <1>2 DEF Controller, Same
<1> QED BY <1>1, <1>3, <1>4 DEF Forgets, d

LEMMA WithdrawnForgets ==
    ASSUME NEW c \in Controller, NEW p, NEW l, now \in Nat, NEW s \in Calls, c.home[s] \in Calls,
           s \in c.states[c.home[s]].waiters, Orderly(c, p, l, now)
    PROVE  /\ Forgets(c, Withdrawn(c, s))
           /\ \A o \in Calls : \A w \in c.states[o].waiters :
                 w # s => w \in Withdrawn(c, s).states[o].waiters
<1> DEFINE o == c.home[s]
           k == c.key[s]
           st == PruneBudget([c.states[o] EXCEPT !.waiters = @ \ {s}])
           S == [c.states EXCEPT ![o] = st]
           P == [c.partitions EXCEPT ![k] = IF Drained(st) THEN None ELSE @]
           d == Withdrawn(c, s)
<1>0. /\ c.states \in [Calls -> PartitionState] /\ c.partitions \in [Keys -> Calls \cup {None}]
      /\ o \in Calls /\ o # None
    BY CallsFinite DEF Controller
<1>1. PICK st1 \in PartitionState :
          /\ st1 = [c.states[o] EXCEPT !.waiters = @ \ {s}]
          /\ st1.active = c.states[o].active /\ st1.waiters = c.states[o].waiters \ {s}
          /\ st1.admittedAt = c.states[o].admittedAt
    <2>1. PICK z \in PartitionState : z = c.states[o]
        BY <1>0
    <2>2. PICK W : W = z.waiters \ {s}
        OBVIOUS
    <2>3. W \subseteq Calls
        BY <2>2 DEF PartitionState
    <2>4. PICK y : y = [z EXCEPT !.waiters = W]
        OBVIOUS
    <2>5. /\ y \in PartitionState /\ y.active = z.active /\ y.waiters = W
          /\ y.admittedAt = z.admittedAt
        BY <2>3, <2>4 DEF PartitionState
    <2> QED BY <2>1, <2>2, <2>4, <2>5
<1>2. /\ Prunes(c.states[o], st) /\ st.waiters = c.states[o].waiters \ {s}
    BY <1>1, PruneShape, PruneTypes DEF Prunes
<1>3. d = [c EXCEPT !.states = S, !.partitions = P]
    BY <1>0, WithdrawnShape
<1> HIDE DEF st
<1>4. \A x \in Calls : Prunes(c.states[x], S[x])
                       /\ \A w \in c.states[x].waiters : w # s => w \in S[x].waiters
    BY <1>0, <1>2, PrunesSame
\* The key's partition is still the object, which has a waiter.
<1>5. \A j \in Keys : c.partitions[j] = o <=> j = k
    <2>1. Used(c.states[o], now)
        BY DEF Used
    <2>2. PICK j \in Keys : c.partitions[j] = o
        BY <1>0, <2>1 DEF Orderly, Linked, Mapped
    <2> QED BY <1>0, <2>2 DEF Orderly, Linked, Keyed
<1>6. S[o] = st
    BY <1>0
<1>7. \A j \in Keys : P[j] = c.partitions[j]
                      \/ (c.partitions[j] # None /\ P[j] = None /\ ~Used(S[c.partitions[j]], now))
    BY <1>0, <1>5, <1>6, DrainedUnused
<1> HIDE DEF S, P, d
<1>8. d.states = S /\ d.partitions = P /\ Same(c, d)
    BY <1>3 DEF Controller, Same
<1> QED BY <1>4, <1>7, <1>8 DEF Forgets, d

\* A call that is over concerns no queue.
LEMMA EndsOrderly ==
    ASSUME NEW c, NEW p \in [Calls -> Phase], NEW l, NEW t, NEW s \in Calls, NEW phase,
           phase \notin {"waiting", "running"}, Orderly(c, p, l, t)
    PROVE  Orderly(c, [p EXCEPT ![s] = phase], l, t)
<1>1. Heard(c, [p EXCEPT ![s] = phase])
    BY DEF Orderly, Linked, Heard
<1>2. Holding(c, [p EXCEPT ![s] = phase])
    BY DEF Orderly, Linked, Holding
<1> QED BY <1>1, <1>2 DEF Orderly, Linked
-----------------------------------------------------------------------------
(* pump() hands out permits until the slots are taken or the queue is      *)
(* empty, and no more than the slots and the budget allow.                 *)

\* A queue has a first and a last of any of its waiters.
LEMMA FirstOf ==
    ASSUME NEW f \in [Calls -> Nat], NEW S \in SUBSET Calls, S # {}
    PROVE  \E w \in S : \A v \in S : f[w] <= f[v]
<1> DEFINE T == {f[w] : w \in S}
<1>1. T \subseteq Nat /\ T # {}
    OBVIOUS
<1>2. PICK m \in T : \A n \in T : ~ (<<n, m>> \in OpToRel(<, Nat))
    <2> HIDE DEF T
    <2> QED BY <1>1, NatLessThanWellFounded, WFMin
<1>3. \A n \in T : ~ (n < m)
    BY <1>1, <1>2 DEF OpToRel
<1>4. PICK w \in S : m = f[w]
    OBVIOUS
<1>5. \A v \in S : ~ (f[v] < f[w])
    BY <1>3, <1>4
<1> QED BY <1>5

LEMMA LastOf ==
    ASSUME NEW f \in [Calls -> Nat], NEW S \in SUBSET Calls, S # {},
           NEW n \in Nat, \A w \in S : f[w] < n
    PROVE  \E w \in S : \A v \in S : f[v] <= f[w]
<1> DEFINE g == [w \in Calls |-> IF f[w] < n THEN n - f[w] ELSE 0]
<1>1. g \in [Calls -> Nat]
    OBVIOUS
<1>2. \A w \in S : f[w] \in Nat /\ f[w] < n /\ g[w] = n - f[w]
    OBVIOUS
<1> HIDE DEF g
<1>3. PICK w \in S : \A v \in S : g[w] <= g[v]
    BY <1>1, FirstOf
<1>4. \A v \in S : f[v] <= f[w]
    BY <1>2, <1>3
<1> QED BY <1>4

\* Of a pruned state with at most one slot free.
LEMMA PumpGrants ==
    ASSUME NEW c \in Controller, now \in Nat, NEW st \in PartitionState,
           \A v, w \in st.waiters : c.place[w] < c.totals.queued /\ (v # w => c.place[v] # c.place[w]),
           IsFiniteSet(st.admittedAt), Cardinality(st.admittedAt) <= MaxCalls,
           st.active <= Concurrency, st.waiters # {} => st.active + 1 >= Concurrency
    PROVE  /\ st.active + Cardinality(Granted(c, st)) <= Concurrency
           /\ Cardinality(st.admittedAt) + Cardinality(Granted(c, st)) <= MaxCalls
           /\ st.waiters \ Reached(c, st) # {} =>
                 st.active + Cardinality(Granted(c, st)) >= Concurrency
<1> DEFINE R == Reached(c, st)
           G == Granted(c, st)
           live == st.waiters \ Expired(c, st)
<1>0. /\ st.waiters \subseteq Calls /\ st.active \in Nat /\ Cardinality(st.admittedAt) \in Nat
      /\ c.place \in [Calls -> Nat] /\ c.totals.queued \in Nat
    BY FS_CardinalityType DEF PartitionState, Controller, Totals
<1>1. \A w : LiveAhead(c, st, w) = {v \in live : c.place[v] < c.place[w]}
    BY DEF LiveAhead
<1>2. \A w : w \in R <=>
        /\ w \in st.waiters
        /\ \/ st.active + Cardinality(LiveAhead(c, st, w)) < Concurrency
           \/ st.active + MaxCalls < Concurrency + Cardinality(st.admittedAt)
    BY DEF Reached
<1>3. \A w : w \in G <=>
        /\ w \in R /\ w \in live
        /\ Cardinality(st.admittedAt) + Cardinality(LiveAhead(c, st, w)) < MaxCalls
    BY <1>2 DEF Granted, InBudget
<1>4. live \subseteq st.waiters
    OBVIOUS
<1> HIDE DEF live, R, G
<1>5. G \subseteq live /\ IsFiniteSet(live) /\ IsFiniteSet(G) /\ Cardinality(G) \in Nat
    BY <1>0, <1>3, <1>4, CallsFinite, FS_Subset, FS_CardinalityType
<1>6. \A w : IsFiniteSet(LiveAhead(c, st, w)) /\ Cardinality(LiveAhead(c, st, w)) \in Nat
    BY <1>1, <1>5, FS_Subset, FS_CardinalityType
\* The last to be granted counts all the others.
<1>7. /\ st.active + Cardinality(G) <= Concurrency
      /\ Cardinality(st.admittedAt) + Cardinality(G) <= MaxCalls
    <2>1. CASE G = {}
        BY <1>0, <2>1, FS_EmptySet, LimitsPositive
    <2>2. CASE G # {}
        <3>1. G \in SUBSET Calls /\ \A w \in G : c.place[w] < c.totals.queued
            BY <1>0, <1>4, <1>5
        <3>2. PICK w \in G : \A v \in G : c.place[v] <= c.place[w]
            BY <1>0, <2>2, <3>1, LastOf
        <3> DEFINE A == LiveAhead(c, st, w)
        <3>3. G \ {w} \subseteq A
            <4> SUFFICES ASSUME NEW v \in G, v # w PROVE v \in live /\ c.place[v] < c.place[w]
                BY <1>1
            <4>1. c.place[v] <= c.place[w] /\ c.place[v] # c.place[w]
                BY <1>4, <1>5, <3>2
            <4>2. c.place[v] \in Nat /\ c.place[w] \in Nat
                BY <1>0, <3>1
            <4> QED BY <1>5, <4>1, <4>2
        <3>4. Cardinality(G \ {w}) = Cardinality(G) - 1
            BY <1>5, FS_RemoveElement
        <3>5. Cardinality(A) \in Nat /\ Cardinality(G \ {w}) <= Cardinality(A)
            BY <1>6, <3>3, FS_Subset
        <3>6. Cardinality(G) <= Cardinality(A) + 1
            BY <1>5, <3>4, <3>5
        <3>7. /\ Cardinality(st.admittedAt) + Cardinality(A) < MaxCalls
              /\ \/ st.active + Cardinality(A) < Concurrency
                 \/ st.active + MaxCalls < Concurrency + Cardinality(st.admittedAt)
            BY <1>2, <1>3
        <3> HIDE DEF A
        <3> QED BY <1>0, <1>5, <3>5, <3>6, <3>7, LimitsPositive
    <2> QED BY <2>1, <2>2
\* The first alive is granted if a waiter behind it is not reached.
<1>8. ASSUME st.waiters \ R # {} PROVE st.active + Cardinality(G) >= Concurrency
    <2>1. PICK w \in st.waiters : w \notin R
        BY <1>8
    <2>2. /\ ~ (st.active + Cardinality(LiveAhead(c, st, w)) < Concurrency)
          /\ ~ (st.active + MaxCalls < Concurrency + Cardinality(st.admittedAt))
        BY <1>2, <2>1
    <2>3. CASE st.active >= Concurrency
        BY <1>0, <1>5, <2>3, LimitsPositive
    <2>4. CASE ~ (st.active >= Concurrency)
        <3>1. st.active + 1 = Concurrency
            BY <1>0, <2>1, <2>4, LimitsPositive
        <3>2. Cardinality(LiveAhead(c, st, w)) # 0
            BY <1>0, <1>6, <2>2, <3>1
        <3>3. live # {}
            BY <1>1, <3>2, FS_EmptySet
        <3>4. live \in SUBSET Calls
            BY <1>0, <1>4
        <3>5. PICK v \in live : \A u \in live : c.place[v] <= c.place[u]
            BY <1>0, <3>3, <3>4, FirstOf
        <3>6. LiveAhead(c, st, v) = {}
            <4>1. \A u \in live : c.place[u] \in Nat /\ c.place[v] \in Nat
                BY <1>0, <3>4
            <4>2. \A u \in live : ~ (c.place[u] < c.place[v])
                BY <3>5, <4>1
            <4> QED BY <1>1, <4>2
        <3>7. Cardinality(LiveAhead(c, st, v)) = 0
            BY <3>6, FS_EmptySet
        <3>8. Cardinality(st.admittedAt) + Cardinality(LiveAhead(c, st, v)) < MaxCalls
            BY <1>0, <2>2, <3>1, <3>7, LimitsPositive
        <3>9. st.active + Cardinality(LiveAhead(c, st, v)) < Concurrency
            BY <1>0, <3>1, <3>7
        <3>10. v \in G
            BY <1>2, <1>3, <1>4, <3>8, <3>9
        <3>11. Cardinality(G) # 0
            BY <1>5, <3>10, FS_EmptySet
        <3> QED BY <1>0, <1>5, <3>1, <3>11
    <2> QED BY <2>3, <2>4
<1> QED BY <1>7, <1>8 DEF R, G

\* Charging the calls W adds at most as many entries.
LEMMA ChargesCount ==
    ASSUME NEW X, IsFiniteSet(X), NEW W, IsFiniteSet(W)
    PROVE  LET Y == X \cup {ChargeOf(w, 0) : w \in W}
           IN  IsFiniteSet(Y) /\ Cardinality(Y) <= Cardinality(X) + Cardinality(W)
<1> DEFINE Z == {ChargeOf(w, 0) : w \in W}
           f == [w \in W |-> ChargeOf(w, 0)]
<1>1. f \in Surjection(W, Z)
    BY DEF Surjection
<1> HIDE DEF f, Z
<1>2. IsFiniteSet(Z) /\ Cardinality(Z) <= Cardinality(W)
    BY <1>1, FS_Surjection
<1>3. IsFiniteSet(X \cup Z) /\ Cardinality(X \cup Z) = Cardinality(X) + Cardinality(Z) - Cardinality(X \cap Z)
    BY <1>2, FS_Union
<1>4. IsFiniteSet(X \cap Z)
    BY FS_Subset
<1>5. /\ Cardinality(X \cap Z) \in Nat /\ Cardinality(X) \in Nat /\ Cardinality(Z) \in Nat
      /\ Cardinality(W) \in Nat
    BY <1>2, <1>4, FS_CardinalityType
<1>6. Cardinality(X \cup Z) <= Cardinality(X) + Cardinality(W)
    BY <1>2, <1>3, <1>5
<1> QED BY <1>3, <1>6 DEF Z
\* A pump keeps what is linked; the queue of o is behind a full state again, if
\* there was at most one slot free. m is the log with the new charges.
LEMMA PumpOrderly ==
    ASSUME NEW c \in Controller, NEW q, WaitersUndecided(c, q), now \in Nat, NEW o \in Calls,
           NEW p, NEW l, NEW m, Linked(c, p, l, now),
           Backed(c, o, 1), \A x \in Calls : x # o => Backed(c, x, 0),
           \A k \in Keys : \A x \in m[k] :
               x \in l[k] \/ \E w \in Pump(c, o).held \ c.held : c.key[w] = k /\ x = ChargeOf(w, 0)
    PROVE  Orderly(Pump(c, o), p, m, now)
<1>0. /\ c.states \in [Calls -> PartitionState] /\ c.partitions \in [Keys -> Calls \cup {None}]
      /\ c.states[o] \in PartitionState /\ c.states[o].waiters \subseteq Calls
      /\ c.states[o].active \in Nat
    BY DEF Controller, PartitionState
<1>1. CASE c.closed
    <2>1. Pump(c, o) = c
        BY <1>1 DEF Pump
    <2>2. Busy(c)
        <3>1. c.states[o].waiters = {}
            BY <1>1 DEF Backed
        <3> QED BY <3>1 DEF Busy, Backed
    <2>3. \A k \in Keys : \A x \in m[k] : x \in l[k]
        BY <2>1
    <2>4. Logged(c, m, now)
        BY <2>3 DEF Linked, Logged, Young
    <2> QED BY <2>1, <2>2, <2>4 DEF Linked, Orderly
<1>2. CASE ~c.closed
    <2> DEFINE st == PruneBudget(c.states[o])
               R == Reached(c, st)
               G == Granted(c, st)
               e == Pump(c, o)
    <2>1. Pumped(c, o, R, G, e)
        BY <1>2, PumpShape
    <2>2. /\ st \in PartitionState /\ st.active = c.states[o].active /\ st.waiters = c.states[o].waiters
          /\ st.admittedAt = Young(c.states[o].admittedAt, now)
        BY <1>0, PruneTypes, PruneShape
    <2>3. /\ IsFiniteSet(st.admittedAt) /\ Cardinality(st.admittedAt) <= MaxCalls
          /\ IsFiniteSet(c.states[o].admittedAt)
        <3>1. Young(c.states[o].admittedAt, now) \subseteq c.states[o].admittedAt
            BY DEF Young
        <3> QED BY <2>2, <3>1, FS_Subset DEF Linked, Within
    <2>4. \A v, w \in st.waiters : c.place[w] < c.totals.queued /\ (v # w => c.place[v] # c.place[w])
        BY <2>2 DEF Linked, Turns
    <2>5. st.active <= Concurrency /\ (st.waiters # {} => st.active + 1 >= Concurrency)
        BY <2>2 DEF Backed
    <2>6. /\ st.active + Cardinality(G) <= Concurrency
          /\ Cardinality(st.admittedAt) + Cardinality(G) <= MaxCalls
          /\ st.waiters \ R # {} => st.active + Cardinality(G) >= Concurrency
        BY <2>2, <2>3, <2>4, <2>5, PumpGrants
    <2>7. /\ R \subseteq c.states[o].waiters /\ G \subseteq R /\ Cardinality(G) \in Nat
          /\ R \subseteq Calls
        BY <1>0, <2>1 DEF Pumped
    <2>8. Recent(c.states[o].admittedAt) = st.admittedAt
        BY <1>0, <2>2, PruneTypes
    <2> HIDE DEF st, R, G, e
    <2>9. Busy(e)
        <3>1. ASSUME NEW x \in Calls, x # o PROVE Backed(e, x, 0)
            BY <2>1, <3>1 DEF Backed, Pumped
        <3>2. Backed(e, o, 0)
            <4>1. IsFiniteSet(c.states[o].waiters)
                BY <1>0, CallsFinite, FS_Subset
            <4>2. /\ Cardinality(c.states[o].waiters \ R) <= Cardinality(c.states[o].waiters)
                  /\ Cardinality(c.states[o].waiters \ R) \in Nat /\ Cardinality(c.states[o].waiters) \in Nat
                BY <4>1, FS_Subset, FS_CardinalityType
            <4>3. Cardinality(c.states[o].waiters \ R) <= MaxQueueSize
                BY <4>2, BoundsNatural DEF Backed
            <4>4. /\ e.states[o].waiters = c.states[o].waiters \ R /\ e.closed = c.closed
                  /\ e.states[o].active = c.states[o].active + Cardinality(G)
                BY <2>1 DEF Pumped
            <4> QED BY <1>0, <1>2, <2>2, <2>6, <2>7, <4>3, <4>4, LimitsPositive DEF Backed
        <3> QED BY <3>1, <3>2 DEF Busy
    <2>10. Keyed(e)
        BY <2>1 DEF Linked, Keyed, Pumped
    <2>11. Mapped(e, now)
        <3> SUFFICES ASSUME NEW x \in Calls, Used(e.states[x], now)
                     PROVE  Used(c.states[x], now)
            BY <2>1 DEF Linked, Mapped, Pumped
        <3>1. CASE x # o
            BY <2>1, <3>1 DEF Pumped
        <3>2. CASE c.states[o].waiters # {}
            BY <3>1, <3>2 DEF Used
        <3>3. CASE x = o /\ c.states[o].waiters = {}
            <4>1. G = {} /\ Cardinality(G) = 0
                BY <2>7, <3>3, FS_EmptySet
            <4>2. /\ e.states[o].active = c.states[o].active /\ e.states[o].waiters = {}
                  /\ e.states[o].admittedAt = Young(c.states[o].admittedAt, now)
                BY <1>0, <2>1, <2>2, <2>8, <3>3, <4>1 DEF Pumped
            <4> QED BY <3>3, <4>2 DEF Used, Young
        <3> QED BY <3>1, <3>2, <3>3
    <2>12. Turns(e)
        <3>1. \A x \in Calls : e.states[x].waiters \subseteq c.states[x].waiters
            BY <2>1 DEF Pumped
        <3>2. e.place = c.place /\ e.totals.queued = c.totals.queued
            BY <2>1 DEF Pumped
        <3> QED BY <3>1, <3>2 DEF Linked, Turns
    <2>13. Heard(e, p)
        <3> SUFFICES ASSUME NEW s \in Calls, p[s] = "waiting", e.outcome[s] = "none"
                     PROVE  c.home[s] # None /\ s \in e.states[c.home[s]].waiters
            BY <2>1 DEF Heard, Pumped
        <3>1. s \notin R /\ c.outcome[s] = "none"
            BY <2>1, <2>7 DEF Pumped
        <3>2. c.home[s] # None /\ s \in c.states[c.home[s]].waiters
            BY <3>1 DEF Linked, Heard
        <3>3. c.home[s] \in Calls
            BY <3>2 DEF Controller
        <3> QED BY <2>1, <3>1, <3>2, <3>3 DEF Pumped
    <2>14. Holding(e, p)
        <3> SUFFICES ASSUME NEW s \in Calls,
                            p[s] = "running" \/ (p[s] = "waiting" /\ e.outcome[s] = "permit")
                     PROVE  s \in c.held \cup G
            BY <2>1 DEF Holding, Pumped
        <3>1. CASE s \in R \ G
            BY <2>1, <3>1 DEF Pumped, Linked, Holding
        <3>2. CASE s \notin R
            BY <2>1, <3>2 DEF Pumped, Linked, Holding
        <3> QED BY <3>1, <3>2
    <2>15. Logged(e, m, now)
        <3> SUFFICES ASSUME NEW k \in Keys, NEW x \in Young(m[k], now)
                     PROVE  c.partitions[k] # None /\ x \in e.states[c.partitions[k]].admittedAt
            BY <2>1 DEF Logged, Pumped
        <3>0. x \in m[k] /\ x.at + Window > now
            BY DEF Young
        <3>1. CASE x \in l[k]
            <4>1. x \in Young(l[k], now)
                BY <3>0, <3>1 DEF Young
            <4>2. c.partitions[k] # None /\ x \in c.states[c.partitions[k]].admittedAt
                BY <4>1 DEF Linked, Logged
            <4>3. CASE c.partitions[k] = o
                BY <2>1, <3>0, <4>2, <4>3 DEF Pumped, Recent
            <4>4. CASE c.partitions[k] # o
                BY <1>0, <2>1, <4>2, <4>4 DEF Pumped
            <4> QED BY <4>3, <4>4
        <3>2. CASE x \notin l[k]
            <4>1. PICK w \in e.held \ c.held : c.key[w] = k /\ x = ChargeOf(w, 0)
                BY <3>0, <3>2 DEF e
            <4>2. w \in G /\ w \in c.states[o].waiters /\ w \in Calls
                BY <2>1, <2>7, <4>1 DEF Pumped
            <4>3. c.home[w] = o /\ Used(c.states[o], now)
                BY <4>2 DEF WaitersUndecided, Used
            <4>4. PICK j \in Keys : c.partitions[j] = o
                BY <4>3 DEF Linked, Mapped
            <4>5. o # None
                BY CallsFinite
            <4>6. j = k
                BY <4>1, <4>2, <4>3, <4>4, <4>5 DEF Linked, Keyed
            <4> QED BY <2>1, <4>1, <4>2, <4>4, <4>5, <4>6 DEF Pumped
        <3> QED BY <3>1, <3>2
    <2>16. Within(e, now)
        <3>1. ASSUME NEW x \in Calls, x # o
              PROVE  /\ IsFiniteSet(e.states[x].admittedAt)
                     /\ Cardinality(Young(e.states[x].admittedAt, now)) <= MaxCalls
            BY <2>1, <3>1 DEF Pumped, Linked, Within
        <3>2. /\ IsFiniteSet(e.states[o].admittedAt)
              /\ Cardinality(Young(e.states[o].admittedAt, now)) <= MaxCalls
            <4> DEFINE Y == e.states[o].admittedAt
            <4>1. Y = st.admittedAt \cup {ChargeOf(w, 0) : w \in G}
                BY <2>1, <2>8 DEF Pumped
            <4>2. IsFiniteSet(G)
                BY <2>7, CallsFinite, FS_Subset
            <4>3. IsFiniteSet(Y) /\ Cardinality(Y) <= Cardinality(st.admittedAt) + Cardinality(G)
                <5>1. PICK X : X = st.admittedAt
                    OBVIOUS
                <5>2. IsFiniteSet(X \cup {ChargeOf(w, 0) : w \in G})
                      /\ Cardinality(X \cup {ChargeOf(w, 0) : w \in G}) <= Cardinality(X) + Cardinality(G)
                    BY <2>3, <4>2, <5>1, ChargesCount
                <5> QED BY <4>1, <5>1, <5>2
            <4> HIDE DEF Y
            <4>4. Young(Y, now) \subseteq Y
                BY DEF Young
            <4>5. /\ Cardinality(Young(Y, now)) <= Cardinality(Y)
                  /\ Cardinality(Young(Y, now)) \in Nat /\ Cardinality(Y) \in Nat
                  /\ Cardinality(st.admittedAt) \in Nat
                BY <2>3, <4>3, <4>4, FS_Subset, FS_CardinalityType
            <4>6. Cardinality(Young(Y, now)) <= MaxCalls
                BY <2>6, <2>7, <4>3, <4>5, LimitsPositive
            <4> QED BY <4>3, <4>6 DEF Y
        <3> QED BY <3>1, <3>2 DEF Within
    <2>17. Orderly(e, p, m, now)
        BY <2>9, <2>10, <2>11, <2>12, <2>13, <2>14, <2>15, <2>16 DEF Orderly, Linked
    <2> QED BY <2>17 DEF e
<1> QED BY <1>1, <1>2

\* A release by a call that is over. m is the log with what the pump charges.
LEMMA ReleaseOrderly ==
    ASSUME NEW c, NEW q, Consistent(c, q), now \in Nat, NEW s \in Calls,
           NEW p, NEW l, NEW m, Orderly(c, p, l, now), p[s] \notin {"waiting", "running"},
           \A k \in Keys : \A x \in m[k] :
               x \in l[k] \/ \E w \in ReleasePermit(c, s).held \ c.held :
                                   ReleasePermit(c, s).key[w] = k /\ x = ChargeOf(w, 0)
    PROVE  Orderly(ReleasePermit(c, s), p, m, now)
<1>0. c \in Controller
    BY DEF Consistent
<1>1. CASE s \notin c.held
    <2>1. ReleasePermit(c, s) = c
        BY <1>1 DEF ReleasePermit
    <2>2. \A k \in Keys : \A x \in m[k] : x \in l[k]
        BY <2>1
    <2>3. Logged(c, m, now)
        BY <2>2 DEF Orderly, Linked, Logged, Young
    <2> QED BY <2>1, <2>3 DEF Orderly, Linked
<1>2. CASE s \in c.held
    <2> DEFINE o == c.home[s]
    <2>1. o \in Calls
        BY <1>0, <1>2 DEF Consistent, OwnersKnown, Controller
    <2>2. /\ IsFiniteSet(Permits(c, o)) /\ s \in Permits(c, o)
          /\ c.states[o].active = Cardinality(Permits(c, o)) /\ c.states[o].active \in Nat
        <3>1. Permits(c, o) \subseteq Calls /\ s \in Permits(c, o)
            BY <1>0, <1>2 DEF Permits, Controller
        <3>2. IsFiniteSet(Permits(c, o)) /\ Cardinality(Permits(c, o)) \in Nat
            BY <3>1, CallsFinite, FS_Subset, FS_CardinalityType
        <3>3. c.states[o].active = Cardinality(Permits(c, o))
            BY <2>1 DEF Consistent, ActiveExact
        <3> QED BY <3>1, <3>2, <3>3
    <2>3. c.states[o].active > 0
        BY <2>2, FS_EmptySet
    <2>4. PICK b : Returned(c, s, b) /\ ReleasePermit(c, s) = Pump(b, o)
        BY <1>0, <1>2, <2>1, <2>3, ReleaseShape
    <2>5. b \in Controller /\ b.home = c.home /\ b.held = c.held \ {s} /\ b.key = c.key
        BY <2>4 DEF Returned
    <2>6. WaitersUndecided(b, q)
        BY <2>4 DEF Consistent, WaitersUndecided, Returned
    <2>7. Linked(b, p, l, now)
        <3>1. Keyed(b)
            BY <2>4 DEF Orderly, Linked, Keyed, Returned
        <3>2. Mapped(b, now)
            <4>1. ASSUME NEW x \in Calls, Used(b.states[x], now) PROVE Used(c.states[x], now)
                BY <2>2, <2>3, <2>4, <4>1 DEF Used, Returned
            <4> QED BY <2>4, <4>1 DEF Orderly, Linked, Mapped, Returned
        <3>3. Turns(b)
            BY <2>4 DEF Orderly, Linked, Turns, Returned
        <3>4. Heard(b, p)
            <4>1. \A x \in Calls : b.states[x].waiters = c.states[x].waiters
                BY <2>4 DEF Returned
            <4>2. b.home = c.home /\ b.outcome = c.outcome
                BY <2>4 DEF Returned
            <4> QED BY <1>0, <4>1, <4>2 DEF Orderly, Linked, Heard, Controller
        <3>5. Holding(b, p)
            BY <2>4 DEF Orderly, Linked, Holding, Returned
        <3>6. Logged(b, l, now)
            <4>1. \A x \in Calls : b.states[x].admittedAt = c.states[x].admittedAt
                BY <2>4 DEF Returned
            <4>2. b.partitions = c.partitions
                BY <2>4 DEF Returned
            <4>3. \A k \in Keys : c.partitions[k] # None => c.partitions[k] \in Calls
                BY <1>0 DEF Controller
            <4>4. Logged(c, l, now)
                BY DEF Orderly, Linked
            <4> QED BY <4>1, <4>2, <4>3, <4>4 DEF Logged
        <3>7. Within(b, now)
            BY <2>4 DEF Orderly, Linked, Within, Returned
        <3> QED BY <3>1, <3>2, <3>3, <3>4, <3>5, <3>6, <3>7 DEF Linked
    <2>8. \A x \in Calls : x # o => Backed(b, x, 0)
        BY <2>4 DEF Orderly, Busy, Backed, Returned
    <2>9. Backed(b, o, 1)
        <3>1. Backed(c, o, 0)
            BY <2>1 DEF Orderly, Busy
        <3>2. /\ b.states[o].waiters = c.states[o].waiters /\ b.closed = c.closed
              /\ b.states[o].active = c.states[o].active - 1
            BY <2>1, <2>4 DEF Returned
        <3> QED BY SMTT(30), <2>2, <2>3, <3>1, <3>2, LimitsPositive DEF Backed
    <2>10. \A k \in Keys : \A x \in m[k] :
               x \in l[k] \/ \E w \in Pump(b, o).held \ b.held : b.key[w] = k /\ x = ChargeOf(w, 0)
        <3>1. Pump(b, o).key = b.key
            <4>1. CASE b.closed
                BY <4>1 DEF Pump
            <4>2. CASE ~b.closed
                BY <2>1, <2>5, <4>2, PumpShape DEF Pumped
            <4> QED BY <4>1, <4>2
        <3> QED BY <2>4, <2>5, <3>1
    <2>11. Orderly(Pump(b, o), p, m, now)
        BY <2>1, <2>5, <2>6, <2>7, <2>8, <2>9, <2>10, PumpOrderly
    <2> QED BY <2>4, <2>11
<1> QED BY <1>1, <1>2
-----------------------------------------------------------------------------
(* acquire(): the partition found or made, and the call in it.             *)

\* A state object nobody refers to becomes the key's, whose budget is unspent.
LEMMA FreshOrderly ==
    ASSUME NEW v \in Controller, NEW p, NEW l, Orderly(v, p, l, now), NEW s \in Calls, NEW k \in Keys,
           v.partitions[k] = None, \A x \in Calls : v.home[x] # s, \A j \in Keys : v.partitions[j] # s
    PROVE  LET b == [v EXCEPT !.partitions[k] = s, !.states[s] = NewState]
           IN  b \in Controller /\ Orderly(b, p, l, now) /\ b.partitions[k] = s /\ b.closed = v.closed
<1> DEFINE P == [v.partitions EXCEPT ![k] = s]
           S == [v.states EXCEPT ![s] = NewState]
           b == [v EXCEPT !.partitions[k] = s, !.states[s] = NewState]
<1>0. v.states \in [Calls -> PartitionState] /\ v.partitions \in [Keys -> Calls \cup {None}]
    BY DEF Controller
<1>1. /\ NewState \in PartitionState /\ NewState.active = 0 /\ NewState.waiters = {}
      /\ NewState.admittedAt = {}
    BY DEF NewState, PartitionState
<1>2. S \in [Calls -> PartitionState] /\ P \in [Keys -> Calls \cup {None}]
    BY <1>0, <1>1
<1>3. b = [v EXCEPT !.partitions = P, !.states = S]
    OBVIOUS
<1>4. /\ S[s] = NewState /\ \A x \in Calls : x # s => S[x] = v.states[x]
      /\ P[k] = s /\ \A j \in Keys : j # k => P[j] = v.partitions[j]
    BY <1>0
<1> HIDE DEF P, S, b
<1>5. b \in Controller /\ b.states = S /\ b.partitions = P /\ Same(v, b)
    BY <1>2, <1>3 DEF Controller, Same
<1>6. ~Used(NewState, now) /\ Young({}, now) = {}
    BY <1>1 DEF Used, Young
<1>7. Cardinality({}) = 0 /\ IsFiniteSet({})
    BY FS_EmptySet
<1>8. Busy(b)
    <2>1. \A x \in Calls : x # s => Backed(b, x, 0)
        BY <1>4, <1>5 DEF Orderly, Busy, Backed, Same
    <2>2. Backed(b, s, 0)
        <3>1. b.states[s].active = 0 /\ b.states[s].waiters = {}
            BY <1>1, <1>4, <1>5
        <3>2. Cardinality(b.states[s].waiters) = 0
            BY <1>7, <3>1
        <3> QED BY <3>1, <3>2, LimitsPositive, BoundsNatural DEF Backed
    <2> QED BY <2>1, <2>2 DEF Busy
<1>9. Keyed(b)
    BY <1>4, <1>5 DEF Orderly, Linked, Keyed, Same
<1>10. Mapped(b, now)
    <2> SUFFICES ASSUME NEW x \in Calls, Used(b.states[x], now) PROVE \E j \in Keys : P[j] = x
        BY <1>5 DEF Mapped
    <2>1. x # s /\ Used(v.states[x], now)
        BY <1>4, <1>5, <1>6
    <2>2. PICK j \in Keys : v.partitions[j] = x
        BY <2>1 DEF Orderly, Linked, Mapped
    <2>3. j # k
        BY <2>2, CallsFinite
    <2> QED BY <1>4, <2>2, <2>3
<1>11. Turns(b)
    BY <1>1, <1>4, <1>5 DEF Orderly, Linked, Turns, Same
<1>12. Heard(b, p)
    <2> SUFFICES ASSUME NEW x \in Calls, p[x] = "waiting", v.outcome[x] = "none"
                 PROVE  v.home[x] # None /\ x \in S[v.home[x]].waiters
        BY <1>5 DEF Heard, Same
    <2>1. v.home[x] # None /\ x \in v.states[v.home[x]].waiters /\ v.home[x] # s
        BY DEF Orderly, Linked, Heard
    <2>2. v.home[x] \in Calls
        BY <2>1 DEF Controller
    <2> QED BY <1>4, <2>1, <2>2
<1>13. Holding(b, p)
    BY <1>5 DEF Orderly, Linked, Holding, Same
<1>14. Logged(b, l, now)
    <2> SUFFICES ASSUME NEW j \in Keys, NEW x \in Young(l[j], now)
                 PROVE  P[j] # None /\ x \in S[P[j]].admittedAt
        BY <1>5 DEF Logged
    <2>1. v.partitions[j] # None /\ x \in v.states[v.partitions[j]].admittedAt
        BY DEF Orderly, Linked, Logged
    <2>2. j # k /\ v.partitions[j] # s /\ v.partitions[j] \in Calls
        BY <1>0, <2>1
    <2> QED BY <1>4, <2>1, <2>2
<1>15. Within(b, now)
    <2>1. b.states[s].admittedAt = {}
        BY <1>1, <1>4, <1>5
    <2>2. IsFiniteSet(b.states[s].admittedAt) /\ Cardinality(Young(b.states[s].admittedAt, now)) = 0
        BY <1>6, <1>7, <2>1
    <2>3. \A x \in Calls : x # s => b.states[x] = v.states[x]
        BY <1>4, <1>5
    <2> QED BY <2>2, <2>3, LimitsPositive DEF Orderly, Linked, Within
<1> QED BY <1>4, <1>5, <1>8, <1>9, <1>10, <1>11, <1>12, <1>13, <1>14, <1>15 DEF Orderly, Linked, Same, b

\* s refers to the object that the map has for its key k, whose window is pruned.
Entered(d, s, k) ==
    /\ d \in Controller
    /\ d.home[s] \in Calls /\ d.partitions[k] = d.home[s] /\ d.key[s] = k
    /\ d.states[d.home[s]].admittedAt = Young(d.states[d.home[s]].admittedAt, now)

Finds(a, s, k) == [a EXCEPT !.states[a.partitions[k]] = PruneBudget(@),
                            !.home[s] = a.partitions[k], !.key[s] = k]

LEMMA FoundOrderly ==
    ASSUME NEW a \in Controller, NEW p, NEW l, Orderly(a, p, l, now), now \in Nat,
           NEW s \in Calls, NEW k \in Keys, a.partitions[k] \in Calls, p[s] = "idle"
    PROVE  Orderly(Finds(a, s, k), p, l, now) /\ Entered(Finds(a, s, k), s, k)
           /\ Finds(a, s, k).closed = a.closed
<1> DEFINE o == a.partitions[k]
           st == PruneBudget(a.states[o])
           S == [a.states EXCEPT ![o] = st]
           Hm == [a.home EXCEPT ![s] = o]
           K == [a.key EXCEPT ![s] = k]
           d == Finds(a, s, k)
           b == [a EXCEPT !.states = S]
<1>0. /\ a.states \in [Calls -> PartitionState] /\ a.home \in [Calls -> Calls \cup {None}]
      /\ a.key \in [Calls -> Keys \cup {None}] /\ a.partitions \in [Keys -> Calls \cup {None}]
      /\ o \in Calls /\ a.states[o] \in PartitionState
    BY DEF Controller
<1>1. /\ Prunes(a.states[o], st) /\ st \in PartitionState /\ st.waiters = a.states[o].waiters
      /\ st.admittedAt = Young(a.states[o].admittedAt, now)
    BY <1>0, PruneShape, PruneTypes
<1>2. d = [a EXCEPT !.states = S, !.home = Hm, !.key = K]
    BY DEF Finds
<1> HIDE DEF st
<1>3. /\ S \in [Calls -> PartitionState] /\ S[o] = st /\ \A x \in Calls : x # o => S[x] = a.states[x]
      /\ Hm \in [Calls -> Calls \cup {None}] /\ Hm[s] = o /\ \A x \in Calls : x # s => Hm[x] = a.home[x]
      /\ K \in [Calls -> Keys \cup {None}] /\ K[s] = k /\ \A x \in Calls : x # s => K[x] = a.key[x]
    BY <1>0, <1>1
<1> HIDE DEF S, Hm, K, d
<1>4. b \in Controller /\ b.states = S /\ b.partitions = a.partitions /\ Same(a, b)
    BY <1>3 DEF Controller, Same
<1> HIDE DEF b
<1>5. \A x \in Calls : Prunes(a.states[x], S[x]) /\ S[x].waiters = a.states[x].waiters
    BY <1>1, <1>3, PrunesSame
<1>6. Forgets(a, b)
    BY <1>4, <1>5 DEF Forgets
<1>7. Orderly(b, p, l, now)
    <2>1. \A x \in Calls : a.home[x] # None /\ p[x] = "waiting" /\ x \in a.states[a.home[x]].waiters =>
               x \in b.states[a.home[x]].waiters
        BY <1>0, <1>4, <1>5
    <2> QED BY <1>4, <1>6, <2>1, ForgetsOrderly
<1>8. /\ d \in Controller /\ d.states = b.states /\ d.partitions = b.partitions /\ d.home = Hm /\ d.key = K
      /\ d.held = b.held /\ d.outcome = b.outcome /\ d.closed = b.closed /\ d.place = b.place
      /\ d.totals.queued = b.totals.queued
    BY <1>2, <1>3, <1>4 DEF Controller, Same
<1>9. Busy(d) /\ Mapped(d, now) /\ Turns(d) /\ Holding(d, p) /\ Logged(d, l, now) /\ Within(d, now)
    BY <1>7, <1>8 DEF Orderly, Linked, Busy, Backed, Mapped, Turns, Holding, Logged, Within
<1>10. Heard(d, p)
    BY <1>3, <1>4, <1>7, <1>8 DEF Orderly, Linked, Heard, Same
<1>11. Keyed(d)
    <2>1. \A i, j \in Keys : a.partitions[i] # None /\ a.partitions[i] = a.partitions[j] => i = j
        BY <1>4, <1>7 DEF Orderly, Linked, Keyed
    <2>2. ASSUME NEW x \in Calls, NEW j \in Keys, Hm[x] # None, a.partitions[j] = Hm[x]
          PROVE  K[x] = j
        <3>1. CASE x = s
            BY <1>0, <1>3, <2>1, <2>2, <3>1, CallsFinite
        <3>2. CASE x # s
            BY <1>3, <1>4, <1>7, <2>2, <3>2 DEF Orderly, Linked, Keyed, Same
        <3> QED BY <3>1, <3>2
    <2> QED BY <1>4, <1>8, <2>1, <2>2 DEF Keyed
<1>12. Entered(d, s, k)
    <2>1. d.states[o].admittedAt = Young(a.states[o].admittedAt, now)
        BY <1>1, <1>3, <1>4, <1>8
    <2>2. Young(Young(a.states[o].admittedAt, now), now) = Young(a.states[o].admittedAt, now)
        BY DEF Young
    <2> QED BY <1>0, <1>3, <1>4, <1>8, <2>1, <2>2 DEF Entered
<1>13. d.closed = a.closed
    BY <1>4, <1>8 DEF Same
<1> QED BY <1>9, <1>10, <1>11, <1>12, <1>13 DEF Orderly, Linked, d

LEMMA OpenedOrderly ==
    ASSUME NEW c, NEW p, Consistent(c, p), NEW l, Orderly(c, p, l, now), now \in Nat,
           NEW s \in Calls, NEW k \in Keys, p[s] = "idle"
    PROVE  /\ Orderly(Opened(c, s, k), p, l, now) /\ Entered(Opened(c, s, k), s, k)
           /\ Opened(c, s, k).closed = c.closed
<1> DEFINE v == EvictIdlePartitions(c)
           a == IF c.partitions[k] # None THEN c
                ELSE [v EXCEPT !.partitions[k] = s, !.states[s] = NewState]
<1>0. c \in Controller /\ c.partitions \in [Keys -> Calls \cup {None}]
    BY DEF Consistent, Controller
<1>1. a \in Controller /\ Orderly(a, p, l, now) /\ a.partitions[k] \in Calls /\ a.closed = c.closed
    <2>1. CASE c.partitions[k] # None
        BY <1>0, <2>1
    <2>2. CASE c.partitions[k] = None
        <3>1. v \in Controller /\ Forgets(c, v) /\ \A o \in Calls : v.states[o].waiters = c.states[o].waiters
            <4>1. Consistent(v, p)
                BY EvictKeeps
            <4> QED BY <1>0, <4>1, EvictForgets DEF Consistent
        <3> HIDE DEF v
        <3>2. Orderly(v, p, l, now)
            <4>1. \A x \in Calls : c.home[x] # None /\ p[x] = "waiting" /\ x \in c.states[c.home[x]].waiters =>
                       x \in v.states[c.home[x]].waiters
                BY <1>0, <3>1 DEF Controller
            <4> QED BY <1>0, <3>1, <4>1, ForgetsOrderly
        <3>3. /\ v.home = c.home /\ v.closed = c.closed
              /\ \A j \in Keys : v.partitions[j] \in {c.partitions[j], None}
            BY <3>1 DEF Forgets, Same
        <3>4. s # None
            BY CallsFinite
        <3>5. \A x \in Calls : v.home[x] # s
            BY <3>3, <3>4 DEF Consistent, MakersArrived
        <3>6. \A j \in Keys : v.partitions[j] # s
            BY <3>3, <3>4 DEF Consistent, MakersArrived
        <3>7. v.partitions[k] = None
            BY <2>2, <3>3
        <3> DEFINE b == [v EXCEPT !.partitions[k] = s, !.states[s] = NewState]
        <3>8. b \in Controller /\ Orderly(b, p, l, now) /\ b.partitions[k] = s /\ b.closed = v.closed
            BY ZenonT(30), <3>1, <3>2, <3>5, <3>6, <3>7, FreshOrderly
        <3>9. a = b
            BY <2>2
        <3> QED BY <3>3, <3>8, <3>9
    <2> QED BY <2>1, <2>2
<1>2. Opened(c, s, k) = Finds(a, s, k)
    BY DEF Opened, Finds
<1> HIDE DEF a
<1>3. Orderly(Finds(a, s, k), p, l, now) /\ Entered(Finds(a, s, k), s, k)
      /\ Finds(a, s, k).closed = a.closed
    BY <1>1, FoundOrderly
<1> QED BY <1>1, <1>2, <1>3

\* A free slot is free of a queue: the call takes it and a place in the window.
LEMMA AdmitOrderly ==
    ASSUME NEW c, NEW p \in [Calls -> Phase], NEW l, NEW m, Orderly(c, p, l, now), now \in Nat,
           NEW s \in Calls, NEW k \in Keys, Entered(c, s, k),
           ~Exhausted(StateOf(c, s)), StateOf(c, s).active < Concurrency,
           \A j \in Keys : \A x \in m[j] : x \in l[j] \/ (j = k /\ x = ChargeOf(s, 0))
    PROVE  Orderly(Admit(c, c.home[s], {s}), [p EXCEPT ![s] = "running"], m, now)
<1> DEFINE o == c.home[s]
           q == [p EXCEPT ![s] = "running"]
<1>0. /\ c \in Controller /\ o \in Calls /\ c.partitions[k] = o /\ c.key[s] = k
      /\ c.states \in [Calls -> PartitionState] /\ c.states[o] \in PartitionState
      /\ c.states[o].admittedAt = Young(c.states[o].admittedAt, now) /\ c.states[o].active \in Nat
    BY DEF Entered, Controller, PartitionState
<1>1. PICK W : W = {s}
    OBVIOUS
<1>2. W \in SUBSET Calls /\ Cardinality(W) = 1 /\ Cardinality(W) \in Nat /\ IsFiniteSet(W)
    <2>1. IsFiniteSet({s}) /\ Cardinality({s}) = 1
        BY FS_Singleton
    <2> QED BY <1>1, <2>1
<1>3. PICK d : d = Admit(c, o, W)
    OBVIOUS
<1>4. /\ d.states = [c.states EXCEPT ![o] = Charged(c.states[o], W)] /\ d.held = c.held \cup W
      /\ d.home = c.home /\ d.outcome = c.outcome /\ d.partitions = c.partitions
      /\ d.key = c.key /\ d.place = c.place /\ d.closed = c.closed /\ d.totals.queued = c.totals.queued
    BY <1>0, <1>2, <1>3, AdmitTypes
<1>5. PICK X : X = c.states[o].admittedAt
    OBVIOUS
<1>6. PICK Y : Y = X \cup {ChargeOf(w, 0) : w \in W}
    OBVIOUS
<1>7. /\ Charged(c.states[o], W).active = c.states[o].active + 1
      /\ Charged(c.states[o], W).waiters = c.states[o].waiters
      /\ Charged(c.states[o], W).admittedAt = Y
    BY <1>0, <1>2, <1>5, <1>6, ChargedTypes
<1>8. /\ d.states[o].active = c.states[o].active + 1 /\ d.states[o].waiters = c.states[o].waiters
      /\ d.states[o].admittedAt = Y
      /\ \A x \in Calls : x # o => d.states[x] = c.states[x]
    BY <1>0, <1>4, <1>7
<1>9. \A x \in Calls : q[x] = IF x = s THEN "running" ELSE p[x]
    OBVIOUS
<1> HIDE DEF q
<1>10. Busy(d)
    <2>1. \A x \in Calls : x # o => Backed(d, x, 0)
        BY <1>4, <1>8 DEF Orderly, Busy, Backed
    <2>2. c.states[o].active < Concurrency
        BY DEF StateOf
    <2>3. Backed(c, o, 0)
        BY <1>0 DEF Orderly, Busy
    <2>4. c.states[o].waiters = {}
        BY <1>0, <2>2, <2>3, LimitsPositive DEF Backed
    <2>5. Backed(d, o, 0)
        <3>1. Cardinality(c.states[o].waiters) <= MaxQueueSize
            BY <2>3 DEF Backed
        <3>2. d.states[o].active <= Concurrency
            BY <1>0, <1>8, <2>2, LimitsPositive
        <3>3. d.states[o].waiters = {} /\ Cardinality(d.states[o].waiters) <= MaxQueueSize
            BY <1>8, <2>4, <3>1
        <3> QED BY <3>2, <3>3 DEF Backed
    <2> QED BY <2>1, <2>5 DEF Busy
<1>11. Keyed(d) /\ Turns(d)
    <2>1. Keyed(d)
        BY <1>4 DEF Orderly, Linked, Keyed
    <2>2. \A x \in Calls : d.states[x].waiters = c.states[x].waiters
        BY <1>8
    <2> QED BY <1>4, <2>1, <2>2 DEF Orderly, Linked, Turns
<1>12. Mapped(d, now)
    BY <1>0, <1>4, <1>8 DEF Orderly, Linked, Mapped
<1>13. Heard(d, q)
    <2> SUFFICES ASSUME NEW x \in Calls, q[x] = "waiting", c.outcome[x] = "none"
                 PROVE  c.home[x] # None /\ x \in d.states[c.home[x]].waiters
        BY <1>4 DEF Heard
    <2>1. c.home[x] # None /\ x \in c.states[c.home[x]].waiters
        BY <1>9 DEF Orderly, Linked, Heard
    <2>2. c.home[x] \in Calls
        BY <1>0, <2>1 DEF Controller
    <2> QED BY <1>8, <2>1, <2>2
<1>14. Holding(d, q)
    BY <1>1, <1>4, <1>9 DEF Orderly, Linked, Holding
<1>15. Logged(d, m, now)
    <2> SUFFICES ASSUME NEW j \in Keys, NEW x \in Young(m[j], now)
                 PROVE  c.partitions[j] # None /\ x \in d.states[c.partitions[j]].admittedAt
        BY <1>4 DEF Logged
    <2>1. CASE x \in l[j]
        <3>1. x \in Young(l[j], now)
            BY <2>1 DEF Young
        <3>2. c.partitions[j] # None /\ x \in c.states[c.partitions[j]].admittedAt
            BY <3>1 DEF Orderly, Linked, Logged
        <3>3. c.partitions[j] \in Calls
            BY <1>0, <3>2 DEF Controller
        <3> QED BY <1>5, <1>6, <1>8, <3>2, <3>3
    <2>2. CASE x \notin l[j]
        <3>1. j = k /\ x = ChargeOf(s, 0)
            BY <2>2 DEF Young
        <3>2. x \in Y
            BY <1>1, <1>6, <3>1
        <3> QED BY <1>0, <1>8, <3>1, <3>2, CallsFinite
    <2> QED BY <2>1, <2>2
<1>16. Within(d, now)
    <2>1. IsFiniteSet(X)
        BY <1>0, <1>5 DEF Orderly, Linked, Within
    <2>2. Cardinality(X) \in Nat /\ Cardinality(X) < MaxCalls
        BY <1>5, <2>1, FS_CardinalityType, LimitsPositive DEF Exhausted, StateOf
    <2>3. IsFiniteSet(Y) /\ Cardinality(Y) <= Cardinality(X) + Cardinality(W)
        BY <1>2, <1>6, <2>1, ChargesCount
    <2>4. Young(Y, now) \subseteq Y
        BY DEF Young
    <2>5. /\ Cardinality(Young(Y, now)) <= Cardinality(Y)
          /\ Cardinality(Young(Y, now)) \in Nat /\ Cardinality(Y) \in Nat
        BY <2>3, <2>4, FS_Subset, FS_CardinalityType
    <2>6. Cardinality(Young(Y, now)) <= MaxCalls
        BY <1>2, <2>2, <2>3, <2>5, LimitsPositive
    <2> QED BY <1>8, <2>3, <2>6 DEF Orderly, Linked, Within
<1>17. Orderly(d, q, m, now)
    BY <1>10, <1>11, <1>12, <1>13, <1>14, <1>15, <1>16 DEF Orderly, Linked
<1> QED BY <1>1, <1>3, <1>17 DEF q

\* The call queues behind a full state.
LEMMA QueueOrderly ==
    ASSUME NEW c, NEW p \in [Calls -> Phase], NEW l, Orderly(c, p, l, now), now \in Nat,
           NEW s \in Calls, NEW k \in Keys, Entered(c, s, k), ~c.closed,
           c.outcome[s] = "none", \A x \in Calls : s \notin c.states[x].waiters,
           StateOf(c, s).active >= Concurrency, Cardinality(StateOf(c, s).waiters) < MaxQueueSize
    PROVE  Orderly([c EXCEPT !.states[c.home[s]].waiters = @ \cup {s},
                             !.queuedAt[s] = now,
                             !.place[s] = c.totals.queued,
                             !.totals.queued = @ + 1],
                   [p EXCEPT ![s] = "waiting"], l, now)
<1> DEFINE o == c.home[s]
           q == [p EXCEPT ![s] = "waiting"]
           y == [c.states[o] EXCEPT !.waiters = @ \cup {s}]
           S == [c.states EXCEPT ![o] = y]
           t == [c.totals EXCEPT !.queued = @ + 1]
           A == [c.queuedAt EXCEPT ![s] = now]
           B == [c.place EXCEPT ![s] = c.totals.queued]
           d == [c EXCEPT !.states[o].waiters = @ \cup {s}, !.queuedAt[s] = now,
                          !.place[s] = c.totals.queued, !.totals.queued = @ + 1]
<1>0. /\ c \in Controller /\ o \in Calls /\ c.partitions[k] = o /\ c.key[s] = k
      /\ c.states \in [Calls -> PartitionState] /\ c.states[o] \in PartitionState
      /\ c.place \in [Calls -> Nat] /\ c.totals \in Totals /\ c.totals.queued \in Nat
      /\ c.states[o].waiters \subseteq Calls
    BY DEF Entered, Controller, PartitionState, Totals
<1>1. d = [c EXCEPT !.states = S, !.queuedAt = A, !.place = B, !.totals = t]
    OBVIOUS
<1>2. PICK W : W = c.states[o].waiters \cup {s}
    OBVIOUS
<1>3. y.active = c.states[o].active /\ y.admittedAt = c.states[o].admittedAt /\ y.waiters = W
    <2>1. PICK z \in PartitionState : z = c.states[o]
        BY <1>0
    <2>2. y = [z EXCEPT !.waiters = W]
        BY <1>2, <2>1
    <2> HIDE DEF y
    <2> QED BY <2>1, <2>2 DEF PartitionState
<1>4. t.queued = c.totals.queued + 1
    BY <1>0 DEF Totals
<1> HIDE DEF y, t
<1>5. /\ S[o] = y /\ \A x \in Calls : x # o => S[x] = c.states[x]
      /\ B[s] = c.totals.queued /\ \A x \in Calls : x # s => B[x] = c.place[x]
    BY <1>0
<1> HIDE DEF S, A, B, d
<1>6. /\ d.states = S /\ d.place = B /\ d.totals = t /\ d.home = c.home /\ d.key = c.key
      /\ d.held = c.held /\ d.outcome = c.outcome /\ d.partitions = c.partitions /\ d.closed = c.closed
    BY <1>0, <1>1 DEF Controller
<1>7. \A x \in Calls : q[x] = IF x = s THEN "waiting" ELSE p[x]
    OBVIOUS
<1> HIDE DEF q
<1>8. \A x \in Calls : S[x].active = c.states[x].active /\ S[x].admittedAt = c.states[x].admittedAt
                       /\ S[x].waiters = IF x = o THEN W ELSE c.states[x].waiters
    BY <1>3, <1>5
<1>9. Busy(d)
    <2>1. \A x \in Calls : x # o => Backed(d, x, 0)
        BY <1>5, <1>6 DEF Orderly, Busy, Backed
    <2>2. IsFiniteSet(c.states[o].waiters) /\ s \notin c.states[o].waiters
        BY <1>0, CallsFinite, FS_Subset
    <2>3. Cardinality(W) = Cardinality(c.states[o].waiters) + 1
          /\ Cardinality(c.states[o].waiters) \in Nat
        BY <1>2, <2>2, FS_AddElement, FS_CardinalityType
    <2>4. Cardinality(W) <= MaxQueueSize
        BY <2>3, BoundsNatural DEF StateOf
    <2>5. c.states[o].active \in Nat /\ c.states[o].active >= Concurrency
        BY <1>0 DEF StateOf, PartitionState
    <2>6. Backed(c, o, 0)
        BY <1>0 DEF Orderly, Busy
    <2>7. /\ d.states[o].active = c.states[o].active /\ d.states[o].waiters = W /\ ~d.closed
        BY <1>0, <1>6, <1>8
    <2>8. Backed(d, o, 0)
        BY <2>4, <2>5, <2>6, <2>7, LimitsPositive DEF Backed
    <2> QED BY <2>1, <2>8 DEF Busy
<1>10. Keyed(d)
    BY <1>6 DEF Orderly, Linked, Keyed
<1>11. Mapped(d, now)
    <2> SUFFICES ASSUME NEW x \in Calls, Used(S[x], now) PROVE \E j \in Keys : c.partitions[j] = x
        BY <1>6 DEF Mapped
    <2>1. CASE x = o
        BY <1>0, <2>1
    <2>2. CASE x # o
        BY <1>5, <2>2 DEF Orderly, Linked, Mapped
    <2> QED BY <2>1, <2>2
<1>12. Turns(d)
    <2> SUFFICES ASSUME NEW x \in Calls, NEW v \in S[x].waiters, NEW w \in S[x].waiters
                 PROVE  B[w] < t.queued /\ (v # w => B[v] # B[w])
        BY <1>6 DEF Turns
    <2>1. \A u \in S[x].waiters : u \in Calls /\ (u # s => u \in c.states[x].waiters)
        BY <1>0, <1>2, <1>8 DEF PartitionState
    <2>2. \A u \in c.states[x].waiters : u # s /\ c.place[u] < c.totals.queued
        BY DEF Orderly, Linked, Turns
    <2>3. v # s /\ w # s /\ v # w => c.place[v] # c.place[w]
        BY <2>1 DEF Orderly, Linked, Turns
    <2>4. /\ v # s => B[v] = c.place[v] /\ c.place[v] < c.totals.queued /\ c.place[v] \in Nat
          /\ w # s => B[w] = c.place[w] /\ c.place[w] < c.totals.queued /\ c.place[w] \in Nat
        BY <1>0, <1>5, <2>1, <2>2
    <2> QED BY <1>0, <1>4, <1>5, <2>3, <2>4
<1>13. Heard(d, q)
    <2> SUFFICES ASSUME NEW x \in Calls, q[x] = "waiting", c.outcome[x] = "none"
                 PROVE  c.home[x] # None /\ x \in S[c.home[x]].waiters
        BY <1>6 DEF Heard
    <2>1. CASE x = s
        BY <1>0, <1>2, <1>8, <2>1, CallsFinite
    <2>2. CASE x # s
        <3>1. c.home[x] # None /\ x \in c.states[c.home[x]].waiters
            BY <1>7, <2>2 DEF Orderly, Linked, Heard
        <3>2. c.home[x] \in Calls
            BY <1>0, <3>1 DEF Controller
        <3> QED BY <1>2, <1>8, <3>1, <3>2
    <2> QED BY <2>1, <2>2
<1>14. Holding(d, q)
    BY <1>6, <1>7 DEF Orderly, Linked, Holding
<1>15. Logged(d, l, now)
    <2>1. \A j \in Keys : c.partitions[j] # None => c.partitions[j] \in Calls
        BY <1>0 DEF Controller
    <2> QED BY <1>6, <1>8, <2>1 DEF Orderly, Linked, Logged
<1>16. Within(d, now)
    BY <1>6, <1>8 DEF Orderly, Linked, Within
<1>17. Orderly(d, q, l, now)
    BY <1>9, <1>10, <1>11, <1>12, <1>13, <1>14, <1>15, <1>16 DEF Orderly, Linked
<1> QED BY <1>17 DEF d, q
-----------------------------------------------------------------------------
(* The steps.                                                              *)

LEMMA TotalsOrderly ==
    ASSUME NEW c \in Controller, NEW p, NEW l, Orderly(c, p, l, now), NEW n \in Nat
    PROVE  /\ Orderly([c EXCEPT !.totals.rejected = @ + n], p, l, now)
           /\ Orderly([c EXCEPT !.totals.rateLimited = @ + n], p, l, now)
           /\ Orderly([c EXCEPT !.totals.cancelled = @ + n], p, l, now)
<1>1. ASSUME NEW d, Counts(c, d), Forgets(c, d) PROVE Orderly(d, p, l, now)
    <2>1. d \in Controller /\ d.states = c.states
        BY <1>1 DEF Counts
    <2> QED BY <1>1, <2>1, ForgetsOrderly
<1> QED BY <1>1, TotalsMove, TotalsForget

LEMMA EvictOrderly ==
    ASSUME NEW c, NEW q, Consistent(c, q), now \in Nat, NEW p, NEW l, Orderly(c, p, l, now)
    PROVE  EvictIdlePartitions(c) \in Controller /\ Orderly(EvictIdlePartitions(c), p, l, now)
<1> DEFINE v == EvictIdlePartitions(c)
<1>0. c \in Controller
    BY DEF Consistent
<1>1. v \in Controller
    BY EvictKeeps DEF Consistent
<1>2. Forgets(c, v) /\ \A o \in Calls : v.states[o].waiters = c.states[o].waiters
    BY <1>0, EvictForgets
<1> HIDE DEF v
<1>3. \A x \in Calls : c.home[x] # None /\ p[x] = "waiting" /\ x \in c.states[c.home[x]].waiters =>
           x \in v.states[c.home[x]].waiters
    BY <1>0, <1>2 DEF Controller
<1>4. Orderly(v, p, l, now)
    BY <1>0, <1>1, <1>2, <1>3, ForgetsOrderly
<1> QED BY <1>1, <1>4 DEF v

LEMMA WithdrawnOrderly ==
    ASSUME NEW c, NEW q, Consistent(c, q), now \in Nat, NEW p, NEW l, Orderly(c, p, l, now),
           NEW s \in Calls, c.home[s] # None, s \in c.states[c.home[s]].waiters, p[s] # "waiting"
    PROVE  Withdrawn(c, s) \in Controller /\ Orderly(Withdrawn(c, s), p, l, now)
<1> DEFINE v == Withdrawn(c, s)
<1>0. c \in Controller /\ c.home[s] \in Calls
    BY DEF Consistent, Controller
<1>1. v \in Controller
    BY WithdrawnKeeps DEF Consistent
<1>2. Forgets(c, v) /\ \A o \in Calls : \A w \in c.states[o].waiters : w # s => w \in v.states[o].waiters
    BY <1>0, WithdrawnForgets
<1> HIDE DEF v
<1>3. \A x \in Calls : c.home[x] # None /\ p[x] = "waiting" /\ x \in c.states[c.home[x]].waiters =>
           x \in v.states[c.home[x]].waiters
    BY <1>0, <1>2 DEF Controller
<1>4. Orderly(v, p, l, now)
    BY <1>0, <1>1, <1>2, <1>3, ForgetsOrderly
<1> QED BY <1>1, <1>4 DEF v

\* acquire() refuses a call before it has looked for a partition, or for room.
LEMMA TurnedAwayOrderly ==
    ASSUME IInv, Orderly(ctl, pc, log, now), NEW s \in Calls, NEW k,
           AcquireClosed(s) \/ AcquireCancelled(s) \/ AcquireInvalid(s) \/ AcquireNoRoom(s, k)
    PROVE  Orderly(ctl', pc', log', now')
<1>0. /\ Consistent(ctl, pc) /\ ctl \in Controller /\ pc \in [Calls -> Phase] /\ now \in Nat
      /\ log' = log /\ now' = now
    BY Facts DEF Around, AcquireClosed, AcquireCancelled, AcquireInvalid, AcquireNoRoom
<1>1. PICK phase \in {"closed", "cancelled", "rejected"} : pc' = [pc EXCEPT ![s] = phase]
    BY DEF AcquireClosed, AcquireCancelled, AcquireInvalid, AcquireNoRoom, Ends
<1>2. Orderly(ctl, pc', log, now)
    BY <1>0, <1>1, EndsOrderly
<1>3. PICK v : v = EvictIdlePartitions(ctl)
    OBVIOUS
<1>4. v \in Controller /\ Orderly(v, pc', log, now)
    BY <1>0, <1>2, <1>3, EvictOrderly
<1>5. \/ ctl' = ctl
      \/ ctl' = [ctl EXCEPT !.totals.cancelled = @ + 1] \/ ctl' = [ctl EXCEPT !.totals.rejected = @ + 1]
      \/ ctl' = [v EXCEPT !.totals.rejected = @ + 1]
    BY <1>3 DEF AcquireClosed, AcquireCancelled, AcquireInvalid, AcquireNoRoom
<1>6. /\ Orderly([ctl EXCEPT !.totals.cancelled = @ + 1], pc', log, now)
      /\ Orderly([ctl EXCEPT !.totals.rejected = @ + 1], pc', log, now)
      /\ Orderly([v EXCEPT !.totals.rejected = @ + 1], pc', log, now)
    BY <1>0, <1>2, <1>4, TotalsOrderly
<1> QED BY <1>0, <1>2, <1>5, <1>6

LEMMA AdmitHolds ==
    ASSUME NEW c \in Controller, NEW o \in Calls, NEW W \in SUBSET Calls, Cardinality(W) \in Nat,
           now \in Nat
    PROVE  /\ Admit(c, o, W).held = c.held \cup W /\ Admit(c, o, W).key = c.key
           /\ Admit(c, o, W).closed = c.closed /\ Admit(c, o, W).outcome = c.outcome
BY ZenonT(30), AdmitTypes

\* acquire() finds or makes the partition, and admits, queues or refuses.
LEMMA EntersOrderly ==
    ASSUME IInv, Orderly(ctl, pc, log, now), NEW s \in Calls, NEW k \in Keys,
           AcquireLimited(s, k) \/ AcquireFull(s, k) \/ AcquireAdmitted(s, k) \/ AcquireQueued(s, k)
    PROVE  Orderly(ctl', pc', log', now')
<1>0. /\ Consistent(ctl, pc) /\ ctl \in Controller /\ pc \in [Calls -> Phase] /\ now \in Nat
      /\ pc[s] = "idle" /\ ~ctl.closed /\ now' = now
    BY Facts DEF Around, AcquireLimited, AcquireFull, AcquireAdmitted, AcquireQueued, Enters, Arriving
<1>1. PICK c : c = Opened(ctl, s, k)
    OBVIOUS
<1>2. Orderly(c, pc, log, now) /\ Entered(c, s, k) /\ c.closed = ctl.closed
    BY <1>0, <1>1, OpenedOrderly
<1>3. c \in Controller /\ c.key[s] = k /\ c.home[s] \in Calls
    BY <1>2 DEF Entered
<1>4. c.outcome = ctl.outcome /\ c.held = ctl.held
    BY <1>0, <1>1, OpenedShape
<1>5. /\ c.outcome[s] = "none" /\ s \notin c.held
    BY <1>0, <1>4 DEF Consistent, MakersArrived, OwnersKnown
<1>6. CASE AcquireLimited(s, k) \/ AcquireFull(s, k)
    <2>1. PICK phase \in {"rateLimited", "rejected"} : pc' = [pc EXCEPT ![s] = phase]
        BY <1>6 DEF AcquireLimited, AcquireFull, Ends
    <2>2. Orderly(c, pc', log, now)
        BY <1>0, <1>2, <2>1, EndsOrderly
    <2>3. /\ log' = log
          /\ ctl' = [c EXCEPT !.totals.rateLimited = @ + 1] \/ ctl' = [c EXCEPT !.totals.rejected = @ + 1]
        BY <1>1, <1>6 DEF AcquireLimited, AcquireFull
    <2>4. /\ Orderly([c EXCEPT !.totals.rateLimited = @ + 1], pc', log, now)
          /\ Orderly([c EXCEPT !.totals.rejected = @ + 1], pc', log, now)
        BY <1>3, <2>2, TotalsOrderly
    <2> QED BY <1>0, <2>3, <2>4
<1>7. CASE AcquireAdmitted(s, k)
    <2>1. /\ ctl' = Admit(c, c.home[s], {s}) /\ Record(ctl') /\ pc' = [pc EXCEPT ![s] = "running"]
          /\ ~Exhausted(StateOf(c, s)) /\ StateOf(c, s).active < Concurrency
        BY <1>1, <1>7 DEF AcquireAdmitted, Ends
    <2>2. ctl'.held = ctl.held \cup {s} /\ ctl'.key[s] = k
        <3>1. PICK W : W = {s}
            OBVIOUS
        <3>2. IsFiniteSet({s}) /\ Cardinality({s}) \in Nat
            <4>1. IsFiniteSet({s}) /\ Cardinality({s}) = 1
                BY FS_Singleton
            <4> QED BY <4>1
        <3>3. W \in SUBSET Calls /\ Cardinality(W) \in Nat
            BY <3>1, <3>2
        <3>4. Admit(c, c.home[s], W).held = c.held \cup W /\ Admit(c, c.home[s], W).key = c.key
            <4>1. PICK o \in Calls : o = c.home[s]
                BY <1>3
            <4>2. c \in Controller /\ now \in Nat
                BY <1>0, <1>3
            <4>3. Admit(c, o, W).held = c.held \cup W /\ Admit(c, o, W).key = c.key
                BY <3>3, <4>2, AdmitHolds
            <4> QED BY <4>1, <4>3
        <3> QED BY <1>3, <1>4, <2>1, <3>1, <3>4
    <2>3. \A j \in Keys : \A x \in log'[j] : x \in log[j] \/ (j = k /\ x = ChargeOf(s, 0))
        BY <2>1, <2>2 DEF Record
    <2>4. Orderly(Admit(c, c.home[s], {s}), [pc EXCEPT ![s] = "running"], log', now)
        BY <1>0, <1>2, <2>1, <2>3, AdmitOrderly
    <2> QED BY <1>0, <2>1, <2>4
<1>8. CASE AcquireQueued(s, k)
    <2>1. /\ ctl' = [c EXCEPT !.states[c.home[s]].waiters = @ \cup {s},
                              !.queuedAt[s] = now,
                              !.place[s] = c.totals.queued,
                              !.totals.queued = @ + 1]
          /\ pc' = [pc EXCEPT ![s] = "waiting"] /\ log' = log
          /\ StateOf(c, s).active >= Concurrency /\ Cardinality(StateOf(c, s).waiters) < MaxQueueSize
        BY <1>1, <1>8 DEF AcquireQueued, Ends
    <2>2. \A x \in Calls : s \notin c.states[x].waiters
        <3>1. "waiting" \in Phase \ {"idle"}
            BY DEF Phase
        <3> QED BY <1>0, <1>1, <3>1, OpenedKeeps
    <2>3. Orderly([c EXCEPT !.states[c.home[s]].waiters = @ \cup {s},
                            !.queuedAt[s] = now,
                            !.place[s] = c.totals.queued,
                            !.totals.queued = @ + 1], [pc EXCEPT ![s] = "waiting"], log, now)
        BY <1>0, <1>2, <1>5, <2>1, <2>2, QueueOrderly
    <2> QED BY <1>0, <2>1, <2>3
<1> QED BY <1>6, <1>7, <1>8

\* What a queued caller hears or does, and a running one's release.
LEMMA RaceOrderly ==
    ASSUME IInv, Orderly(ctl, pc, log, now), NEW s \in Calls,
           HearRefusal(s) \/ Received(s) \/ TimesOut(s) \/ AbortHeard(s) \/ Interrupt(s) \/ Release(s)
    PROVE  Orderly(ctl', pc', log', now')
<1>0. /\ Consistent(ctl, pc) /\ ctl \in Controller /\ pc \in [Calls -> Phase] /\ now \in Nat
      /\ now' = now
    BY Facts DEF Around, HearRefusal, Received, TimesOut, AbortHeard, Interrupt, Release
<1>1. CASE Received(s) /\ ~ctl.closed
    <2>1. ctl' = ctl /\ log' = log /\ pc' = [pc EXCEPT ![s] = "running"]
          /\ pc[s] = "waiting" /\ ctl.outcome[s] = "permit"
        BY <1>1 DEF Received, Ends
    <2>2. \A x \in Calls : pc'[x] = IF x = s THEN "running" ELSE pc[x]
        BY <1>0, <2>1
    <2>3. Heard(ctl, pc') /\ Holding(ctl, pc')
        BY <2>1, <2>2 DEF Orderly, Linked, Heard, Holding
    <2> QED BY <1>0, <2>1, <2>3 DEF Orderly, Linked
<1>2. CASE ~(Received(s) /\ ~ctl.closed)
    <2>1. PICK phase : phase \notin {"waiting", "running"} /\ pc' = [pc EXCEPT ![s] = phase]
        BY <1>2 DEF HearRefusal, Received, TimesOut, AbortHeard, Interrupt, Release, Ends
    <2>2. Orderly(ctl, pc', log, now) /\ pc'[s] \notin {"waiting", "running"}
        BY <1>0, <2>1, EndsOrderly
    <2>3. ASSUME Queued(s)
          PROVE  /\ Orderly([Withdrawn(ctl, s) EXCEPT !.totals.rejected = @ + 1], pc', log, now)
                 /\ Orderly([Withdrawn(ctl, s) EXCEPT !.totals.cancelled = @ + 1], pc', log, now)
        <3>1. PICK v : v = Withdrawn(ctl, s)
            OBVIOUS
        <3>2. v \in Controller /\ Orderly(v, pc', log, now)
            BY <1>0, <2>2, <2>3, <3>1, WithdrawnOrderly DEF Queued
        <3>3. /\ Orderly([v EXCEPT !.totals.rejected = @ + 1], pc', log, now)
              /\ Orderly([v EXCEPT !.totals.cancelled = @ + 1], pc', log, now)
            BY <3>2, TotalsOrderly
        <3> QED BY <3>1, <3>3
    <2>4. ASSUME ctl' = ReleasePermit(ctl, s), Record(ctl') \/ log' = log
          PROVE  Orderly(ctl', pc', log', now')
        <3>1. \A k \in Keys : \A x \in log'[k] :
                  x \in log[k] \/ \E w \in ReleasePermit(ctl, s).held \ ctl.held :
                                      ReleasePermit(ctl, s).key[w] = k /\ x = ChargeOf(w, 0)
            BY <2>4 DEF Record
        <3>2. Orderly(ReleasePermit(ctl, s), pc', log', now)
            BY <1>0, <2>2, <3>1, ReleaseOrderly
        <3> QED BY <1>0, <2>4, <3>2
    <2>5. CASE HearRefusal(s)
        BY <1>0, <2>2, <2>5 DEF HearRefusal
    <2>6. CASE Received(s)
        BY <1>2, <2>4, <2>6 DEF Received
    <2>7. CASE TimesOut(s) \/ AbortHeard(s)
        BY <1>0, <2>3, <2>7 DEF TimesOut, AbortHeard
    <2>8. CASE Interrupt(s) /\ Queued(s)
        <3>1. /\ ctl' = [Withdrawn(ctl, s) EXCEPT !.totals.cancelled = @ + 1] /\ Record(ctl')
            BY <2>8 DEF Interrupt
        <3>2. ctl'.held = ctl.held
            <4>1. PICK v : v = Withdrawn(ctl, s)
                OBVIOUS
            <4>2. Consistent(v, pc) /\ v.held = ctl.held
                BY <1>0, <2>8, <4>1, WithdrawnKeeps DEF Queued
            <4>3. v \in Controller
                BY <4>2 DEF Consistent
            <4>4. [v EXCEPT !.totals.cancelled = @ + 1].held = v.held
                BY <4>3 DEF Controller
            <4> QED BY <3>1, <4>1, <4>2, <4>4
        <3>3. \A k \in Keys : log'[k] = log[k]
            BY <3>1, <3>2 DEF Record
        <3>4. Orderly(ctl', pc', log, now)
            BY <2>3, <2>8, <3>1
        <3>5. Logged(ctl', log', now)
            BY <3>3, <3>4 DEF Orderly, Linked, Logged
        <3> QED BY <1>0, <3>4, <3>5 DEF Orderly, Linked
    <2>9. CASE (Interrupt(s) /\ ~Queued(s)) \/ Release(s)
        BY <2>4, <2>9 DEF Interrupt, Release
    <2> QED BY <2>5, <2>6, <2>7, <2>8, <2>9
<1> QED BY <1>1, <1>2
\* A further request of a running call: its object is still the map's for its key.
LEMMA ChargeMoves ==
    ASSUME NEW c \in Controller, NEW d, NEW p, NEW l, NEW m, Orderly(c, p, l, now), Same(c, d),
           d.partitions = c.partitions, NEW k \in Keys, NEW o \in Calls, c.partitions[k] = o,
           NEW x, d.states[o].admittedAt = c.states[o].admittedAt \cup {x},
           Cardinality(c.states[o].admittedAt) < MaxCalls,
           \A y \in Calls : /\ y # o => d.states[y] = c.states[y]
                            /\ d.states[y].active = c.states[y].active
                            /\ d.states[y].waiters = c.states[y].waiters,
           \A j \in Keys : \A y \in m[j] : y \in l[j] \/ (j = k /\ y = x)
    PROVE  Orderly(d, p, m, now)
<1>0. \A j \in Keys : c.partitions[j] # None => c.partitions[j] \in Calls
    BY DEF Controller
<1>1. Busy(d)
    BY DEF Orderly, Busy, Backed, Same
<1>2. Keyed(d)
    BY DEF Orderly, Linked, Keyed, Same
<1>3. Mapped(d, now)
    <2>1. \A y \in Calls : y # o /\ Used(d.states[y], now) => \E j \in Keys : c.partitions[j] = y
        BY DEF Orderly, Linked, Mapped
    <2> QED BY <2>1 DEF Mapped
<1>4. Turns(d)
    BY DEF Orderly, Linked, Turns, Same
<1>5. Heard(d, p)
    <2>1. \A y \in Calls : c.home[y] # None => c.home[y] \in Calls
        BY DEF Controller
    <2>2. Heard(c, p)
        BY DEF Orderly, Linked
    <2> QED BY <2>1, <2>2 DEF Heard, Same
<1>6. Holding(d, p)
    BY DEF Orderly, Linked, Holding, Same
<1>7. Logged(d, m, now)
    <2> SUFFICES ASSUME NEW j \in Keys, NEW y \in Young(m[j], now)
                 PROVE  c.partitions[j] # None /\ y \in d.states[c.partitions[j]].admittedAt
        BY DEF Logged
    <2>1. CASE y \in l[j]
        <3>1. y \in Young(l[j], now)
            BY <2>1 DEF Young
        <3>2. c.partitions[j] # None /\ y \in c.states[c.partitions[j]].admittedAt
            BY <3>1 DEF Orderly, Linked, Logged
        <3> QED BY <1>0, <3>2
    <2>2. CASE y \notin l[j]
        <3>1. j = k /\ y = x
            BY <2>2 DEF Young
        <3> QED BY <3>1, CallsFinite
    <2> QED BY <2>1, <2>2
<1>8. Within(d, now)
    <2> DEFINE X == c.states[o].admittedAt
               Y == X \cup {x}
    <2>1. IsFiniteSet(X)
        BY DEF Orderly, Linked, Within
    <2> HIDE DEF X
    <2>2. Cardinality(X) \in Nat /\ Cardinality(X) < MaxCalls
        BY <2>1, FS_CardinalityType DEF X
    <2>3. IsFiniteSet(Y) /\ Cardinality(Y) <= MaxCalls
        <3>1. IsFiniteSet(Y) /\ (Cardinality(Y) = Cardinality(X) \/ Cardinality(Y) = Cardinality(X) + 1)
            BY <2>1, FS_AddElement
        <3> QED BY <2>2, <3>1, LimitsPositive
    <2> HIDE DEF Y
    <2>4. Young(Y, now) \subseteq Y
        BY DEF Young
    <2>5. /\ Cardinality(Young(Y, now)) <= Cardinality(Y)
          /\ Cardinality(Young(Y, now)) \in Nat /\ Cardinality(Y) \in Nat
        BY <2>3, <2>4, FS_Subset, FS_CardinalityType
    <2>6. Cardinality(Young(Y, now)) <= MaxCalls
        BY <2>3, <2>5, LimitsPositive
    <2>7. d.states[o].admittedAt = Y
        BY DEF X, Y
    <2> QED BY <2>3, <2>6, <2>7 DEF Orderly, Linked, Within
<1> QED BY <1>1, <1>2, <1>3, <1>4, <1>5, <1>6, <1>7, <1>8 DEF Orderly, Linked

LEMMA ChargeOrderly ==
    ASSUME IInv, Orderly(ctl, pc, log, now), NEW s \in Calls, ChargeBudget(s)
    PROVE  Orderly(ctl', pc', log', now')
<1> DEFINE o == ctl.home[s]
           k == ctl.key[s]
           st == PruneBudget(ctl.states[o])
           S == [ctl.states EXCEPT ![o] = st]
           c == [ctl EXCEPT !.states[o] = st]
           x == ChargeOf(s, asked + 1)
           d == [c EXCEPT !.states[o].admittedAt = @ \cup {x}, !.totals.admitted = @ + 1]
<1>0. /\ Consistent(ctl, pc) /\ ctl \in Controller /\ now \in Nat
      /\ now' = now /\ pc' = pc /\ pc[s] = "running"
      /\ ctl.states \in [Calls -> PartitionState] /\ ctl.totals \in Totals
      /\ log \in [Keys -> SUBSET Charge]
    BY Facts DEF Around, Controller, ChargeBudget
<1>1. s \in ctl.held /\ o # None
    BY <1>0 DEF Orderly, Linked, Holding, Consistent, OwnersKnown
<1>2. o \in Calls
    BY <1>0, <1>1 DEF Controller
<1>3. Used(ctl.states[o], now)
    <2>1. Permits(ctl, o) \subseteq Calls /\ s \in Permits(ctl, o)
        BY <1>0, <1>1 DEF Permits, Controller
    <2>2. Cardinality(Permits(ctl, o)) \in Nat /\ Cardinality(Permits(ctl, o)) # 0
        BY <2>1, CallsFinite, FS_Subset, FS_CardinalityType, FS_EmptySet
    <2>3. ctl.states[o].active = Cardinality(Permits(ctl, o))
        BY <1>0, <1>2 DEF Consistent, ActiveExact
    <2> QED BY <2>2, <2>3 DEF Used
<1>4. k \in Keys /\ ctl.partitions[k] = o
    <2>1. PICK j \in Keys : ctl.partitions[j] = o
        BY <1>2, <1>3 DEF Orderly, Linked, Mapped
    <2>2. k = j
        BY <1>1, <2>1 DEF Orderly, Linked, Keyed
    <2> QED BY <2>1, <2>2
<1>5. /\ Prunes(ctl.states[o], st) /\ st \in PartitionState /\ st.waiters = ctl.states[o].waiters
    BY <1>0, <1>2, PruneShape, PruneTypes
<1> HIDE DEF st
<1>6. /\ S \in [Calls -> PartitionState] /\ S[o] = st /\ \A y \in Calls : y # o => S[y] = ctl.states[y]
    BY <1>0, <1>2, <1>5
<1>7. c = [ctl EXCEPT !.states = S]
    OBVIOUS
<1> HIDE DEF S, c
<1>8. c \in Controller /\ c.states = S /\ c.partitions = ctl.partitions /\ Same(ctl, c) /\ c.totals = ctl.totals
    BY <1>0, <1>6, <1>7 DEF Controller, Same
<1>9. Orderly(c, pc, log, now)
    <2>1. \A y \in Calls : Prunes(ctl.states[y], S[y]) /\ S[y].waiters = ctl.states[y].waiters
        BY <1>5, <1>6, PrunesSame
    <2>2. Forgets(ctl, c)
        BY <1>8, <2>1 DEF Forgets
    <2>3. \A y \in Calls : ctl.home[y] # None /\ pc[y] = "waiting" /\ y \in ctl.states[ctl.home[y]].waiters =>
              y \in c.states[ctl.home[y]].waiters
        BY <1>0, <1>8, <2>1 DEF Controller
    <2> QED BY <1>0, <1>8, <2>2, <2>3, ForgetsOrderly
<1>10. CASE /\ ctl' = [ctl EXCEPT !.totals.cancelled = @ + 1] \/ ctl' = [c EXCEPT !.totals.rateLimited = @ + 1]
            /\ log' = log
    <2>1. /\ Orderly([ctl EXCEPT !.totals.cancelled = @ + 1], pc, log, now)
          /\ Orderly([c EXCEPT !.totals.rateLimited = @ + 1], pc, log, now)
        BY <1>0, <1>8, <1>9, TotalsOrderly
    <2> QED BY <1>0, <1>10, <2>1
<1>11. CASE ~Exhausted(st) /\ ctl' = d /\ log' = [log EXCEPT ![k] = @ \cup {x}]
    <2> DEFINE y == [S[o] EXCEPT !.admittedAt = @ \cup {x}]
               T == [S EXCEPT ![o] = y]
               t == [ctl.totals EXCEPT !.admitted = @ + 1]
    <2>1. d = [c EXCEPT !.states = T, !.totals = t]
        <3>1. d = [c EXCEPT !.states = [c.states EXCEPT ![o] = [c.states[o] EXCEPT !.admittedAt = @ \cup {x}]],
                            !.totals = [c.totals EXCEPT !.admitted = @ + 1]]
            OBVIOUS
        <3> HIDE DEF d, x
        <3> QED BY <1>8, <3>1
    <2> HIDE DEF x, d
    <2>2. y.active = S[o].active /\ y.waiters = S[o].waiters /\ y.admittedAt = S[o].admittedAt \cup {x}
        <3>1. PICK z \in PartitionState : z = S[o]
            BY <1>2, <1>6
        <3>2. PICK Y : Y = z.admittedAt \cup {x}
            OBVIOUS
        <3>3. y = [z EXCEPT !.admittedAt = Y]
            BY <3>1, <3>2
        <3> HIDE DEF y
        <3> QED BY <3>1, <3>2, <3>3 DEF PartitionState
    <2>3. t.queued = ctl.totals.queued
        BY <1>0 DEF Totals
    <2> HIDE DEF y, t
    <2>4. T[o] = y /\ \A z \in Calls : z # o => T[z] = S[z]
        BY <1>2, <1>6
    <2> HIDE DEF T
    <2>5. d.states = T /\ d.partitions = c.partitions /\ Same(c, d)
        BY <1>8, <2>1, <2>3 DEF Controller, Same
    <2>6. Cardinality(c.states[o].admittedAt) < MaxCalls
        <3>1. IsFiniteSet(st.admittedAt)
            BY <1>2, <1>6, <1>8, <1>9 DEF Orderly, Linked, Within
        <3>2. Cardinality(st.admittedAt) \in Nat
            BY <3>1, FS_CardinalityType
        <3> QED BY <1>6, <1>8, <1>11, <3>2, LimitsPositive DEF Exhausted
    <2>7. d.states[o].admittedAt = c.states[o].admittedAt \cup {x}
        BY <1>8, <2>2, <2>4, <2>5
    <2>8. \A z \in Calls : /\ z # o => d.states[z] = c.states[z]
                           /\ d.states[z].active = c.states[z].active
                           /\ d.states[z].waiters = c.states[z].waiters
        BY <1>8, <2>2, <2>4, <2>5
    <2>9. \A j \in Keys : \A z \in log'[j] : z \in log[j] \/ (j = k /\ z = x)
        BY <1>0, <1>4, <1>11
    <2>10. c.partitions[k] = o
        BY <1>4, <1>8
    <2> HIDE DEF o, k
    <2>11. Orderly(d, pc, log', now)
        BY <1>2, <1>4, <1>8, <1>9, <2>5, <2>6, <2>7, <2>8, <2>9, <2>10, ChargeMoves
    <2> QED BY <1>0, <1>11, <2>11
<1>12. \/ /\ ctl' = [ctl EXCEPT !.totals.cancelled = @ + 1] \/ ctl' = [c EXCEPT !.totals.rateLimited = @ + 1]
          /\ log' = log
       \/ ~Exhausted(st) /\ ctl' = d /\ log' = [log EXCEPT ![k] = @ \cup {x}]
    BY DEF ChargeBudget, c, st
<1> QED BY <1>10, <1>11, <1>12

\* close(): whoever waits is in the queue of an object the map has, and is told.
LEMMA CloseOrderly ==
    ASSUME IInv, Orderly(ctl, pc, log, now), Close
    PROVE  Orderly(ctl', pc', log', now')
<1> DEFINE here(o) == \E k \in Keys : ctl.partitions[k] = o
           S == [o \in Calls |-> IF here(o) THEN [ctl.states[o] EXCEPT !.waiters = {}] ELSE ctl.states[o]]
           told(s) == \E k \in Keys : ctl.partitions[k] # None /\ s \in ctl.states[ctl.partitions[k]].waiters
           O == [s \in Calls |-> IF told(s) THEN "closed" ELSE ctl.outcome[s]]
<1>0. /\ Consistent(ctl, pc) /\ ctl \in Controller /\ ctl.states \in [Calls -> PartitionState]
      /\ ctl.outcome \in [Calls -> Outcome] /\ ctl.partitions \in [Keys -> Calls \cup {None}]
      /\ now' = now /\ pc' = pc /\ log' = log
    BY Facts DEF Controller, Close
<1>1. ctl' = [ctl EXCEPT !.closed = TRUE, !.states = S, !.outcome = O]
    BY DEF Close
<1>2. \A o \in Calls : /\ S[o].active = ctl.states[o].active
                       /\ S[o].waiters = IF here(o) THEN {} ELSE ctl.states[o].waiters
                       /\ S[o].admittedAt = ctl.states[o].admittedAt
    BY <1>0 DEF PartitionState
<1>3. \A o \in Calls : ctl.states[o].waiters # {} => here(o)
    BY DEF Orderly, Linked, Mapped, Used
<1>4. \A s \in Calls : O[s] = IF told(s) THEN "closed" ELSE ctl.outcome[s]
    OBVIOUS
<1> HIDE DEF S, O
<1>5. \A o \in Calls : S[o].waiters = {}
    BY <1>2, <1>3
<1>6. /\ ctl'.states = S /\ ctl'.outcome = O /\ ctl'.held = ctl.held /\ ctl'.home = ctl.home
      /\ ctl'.partitions = ctl.partitions /\ ctl'.key = ctl.key
    BY <1>0, <1>1 DEF Controller
<1>7. Busy(ctl')
    <2>1. Cardinality({}) = 0
        BY FS_EmptySet
    <2>2. ASSUME NEW o \in Calls PROVE Backed(ctl', o, 0)
        <3>1. ctl'.states[o].waiters = {} /\ ctl'.states[o].active = ctl.states[o].active
            BY <1>2, <1>5, <1>6
        <3>2. Cardinality(ctl'.states[o].waiters) <= MaxQueueSize
            BY <2>1, <3>1, BoundsNatural
        <3> QED BY <3>1, <3>2 DEF Orderly, Busy, Backed
    <2> QED BY <2>2 DEF Busy
<1>8. Keyed(ctl')
    BY <1>6 DEF Orderly, Linked, Keyed
<1>9. Mapped(ctl', now)
    <2>1. ASSUME NEW o \in Calls, Used(S[o], now) PROVE Used(ctl.states[o], now)
        BY <1>2, <1>5, <2>1 DEF Used
    <2> QED BY <1>6, <2>1 DEF Orderly, Linked, Mapped
<1>10. Turns(ctl')
    BY <1>5, <1>6 DEF Turns
<1>11. Heard(ctl', pc)
    <2> SUFFICES ASSUME NEW s \in Calls, pc[s] = "waiting", O[s] = "none" PROVE FALSE
        BY <1>6 DEF Heard
    <2>1. ~told(s) /\ ctl.outcome[s] = "none"
        BY <1>4
    <2>2. ctl.home[s] # None /\ s \in ctl.states[ctl.home[s]].waiters
        BY <2>1 DEF Orderly, Linked, Heard
    <2>3. ctl.home[s] \in Calls
        BY <1>0, <2>2 DEF Controller
    <2>4. here(ctl.home[s])
        BY <1>3, <2>2, <2>3
    <2> QED BY <2>1, <2>2, <2>4
<1>12. Holding(ctl', pc)
    BY <1>4, <1>6 DEF Orderly, Linked, Holding
<1>13. Logged(ctl', log, now)
    <2>1. \A k \in Keys : ctl.partitions[k] # None => ctl.partitions[k] \in Calls
        BY <1>0
    <2> QED BY <1>2, <1>6, <2>1 DEF Orderly, Linked, Logged
<1>14. Within(ctl', now)
    BY <1>2, <1>6 DEF Orderly, Linked, Within
<1> QED BY <1>0, <1>7, <1>8, <1>9, <1>10, <1>11, <1>12, <1>13, <1>14 DEF Orderly, Linked

\* Time closes windows.
LEMMA TickOrderly ==
    ASSUME IInv, Orderly(ctl, pc, log, now), Tick
    PROVE  Orderly(ctl', pc', log', now')
<1>0. /\ now \in Nat /\ now' = now + 1 /\ ctl' = ctl /\ pc' = pc /\ log' = log
      /\ ctl \in Controller /\ log \in [Keys -> SUBSET Charge]
    BY Facts DEF Around, Tick
<1>1. \A X \in SUBSET Charge : Young(X, now + 1) \subseteq Young(X, now)
    BY <1>0, BoundsNatural DEF Young, Charge
<1>2. \A o \in Calls : ctl.states[o] \in PartitionState /\ ctl.states[o].admittedAt \in SUBSET Charge
    BY <1>0 DEF Controller, PartitionState
<1>3. Mapped(ctl, now + 1)
    <2>1. ASSUME NEW o \in Calls, Used(ctl.states[o], now + 1) PROVE Used(ctl.states[o], now)
        <3>1. Young(ctl.states[o].admittedAt, now + 1) \subseteq Young(ctl.states[o].admittedAt, now)
            BY <1>1, <1>2
        <3> QED BY <2>1, <3>1 DEF Used
    <2> QED BY <2>1 DEF Orderly, Linked, Mapped
<1>4. Logged(ctl, log, now + 1)
    BY <1>0, <1>1 DEF Orderly, Linked, Logged
<1>5. Within(ctl, now + 1)
    <2> SUFFICES ASSUME NEW o \in Calls
                 PROVE  /\ IsFiniteSet(ctl.states[o].admittedAt)
                        /\ Cardinality(Young(ctl.states[o].admittedAt, now + 1)) <= MaxCalls
        BY DEF Within
    <2> DEFINE X == ctl.states[o].admittedAt
    <2>1. IsFiniteSet(X) /\ Cardinality(Young(X, now)) <= MaxCalls /\ Young(X, now + 1) \subseteq Young(X, now)
        BY <1>1, <1>2 DEF Orderly, Linked, Within
    <2> HIDE DEF X
    <2>2. IsFiniteSet(Young(X, now))
        <3>1. Young(X, now) \subseteq X
            BY DEF Young
        <3> QED BY <2>1, <3>1, FS_Subset
    <2>3. /\ Cardinality(Young(X, now + 1)) <= Cardinality(Young(X, now))
          /\ Cardinality(Young(X, now + 1)) \in Nat /\ Cardinality(Young(X, now)) \in Nat
        BY <2>1, <2>2, FS_Subset, FS_CardinalityType
    <2>4. Cardinality(Young(X, now + 1)) <= MaxCalls
        BY <2>1, <2>3, LimitsPositive
    <2> QED BY <2>1, <2>4 DEF X
<1> QED BY <1>0, <1>3, <1>4, <1>5 DEF Orderly, Linked
-----------------------------------------------------------------------------
(* The history, the invariant, and what it says.                           *)

\* A step other than the clock's logs charges of this instant, finitely many.
Grows(l, m) ==
    \A k \in Keys : \E N : IsFiniteSet(N) /\ m[k] = l[k] \cup N /\ \A x \in N : x.at = now

\* Only the clock's steps move the clock, and only admissions and charges the log.
LEMMA LogMoves ==
    ASSUME Next
    PROVE  \/ Tick
           \/ now' = now /\ (log' = log \/ Record(ctl') \/ \E s \in Calls : ChargeBudget(s))
<1>1. ASSUME NEW s \in Calls,
             AcquireClosed(s) \/ AcquireCancelled(s) \/ AcquireInvalid(s) \/ HearRefusal(s) \/ Received(s)
             \/ TimesOut(s) \/ AbortHeard(s) \/ Abort(s)
      PROVE  now' = now /\ log' = log
    BY <1>1 DEF AcquireClosed, AcquireCancelled, AcquireInvalid, HearRefusal, Received, TimesOut,
                AbortHeard, Abort
<1>2. ASSUME NEW s \in Calls, NEW k \in Keys,
             AcquireNoRoom(s, k) \/ AcquireLimited(s, k) \/ AcquireFull(s, k) \/ AcquireQueued(s, k)
      PROVE  now' = now /\ log' = log
    BY <1>2 DEF AcquireNoRoom, AcquireLimited, AcquireFull, AcquireQueued
<1>3. ASSUME NEW s \in Calls, NEW k \in Keys, AcquireAdmitted(s, k)
      PROVE  now' = now /\ Record(ctl')
    <2>1. PICK d : ctl' = d /\ Record(d) /\ now' = now
        BY <1>3 DEF AcquireAdmitted
    <2> QED BY <2>1
<1>4. ASSUME NEW s \in Calls, Interrupt(s) \/ Release(s)
      PROVE  now' = now /\ Record(ctl')
    <2>1. PICK d : ctl' = d /\ Record(d) /\ now' = now
        BY <1>4 DEF Interrupt, Release
    <2> QED BY <2>1
<1>5. ASSUME NEW s \in Calls, ChargeBudget(s)
      PROVE  now' = now
    BY <1>5 DEF ChargeBudget
<1>6. ASSUME Close \/ IsIdle
      PROVE  now' = now /\ log' = log
    BY <1>6 DEF Close, IsIdle
<1> QED BY <1>1, <1>2, <1>3, <1>4, <1>5, <1>6 DEF Next

LEMMA LogGrows ==
    ASSUME IInv, Next, IInv'
    PROVE  Tick \/ Grows(log, log')
<1>0. ctl' \in Controller /\ log \in [Keys -> SUBSET Charge]
    BY DEF IInv, TypeOK
<1>1. ASSUME log' = log PROVE Grows(log, log')
    <2>1. IsFiniteSet({}) /\ \A k \in Keys : log'[k] = log[k] \cup {}
        BY <1>1, FS_EmptySet
    <2>2. \A k \in Keys : IsFiniteSet({}) /\ log'[k] = log[k] \cup {} /\ \A x \in {} : x.at = now
        BY <2>1
    <2> QED BY <2>2 DEF Grows
<1>2. ASSUME Record(ctl') PROVE Grows(log, log')
    <2> SUFFICES ASSUME NEW k \in Keys
                 PROVE  \E N : IsFiniteSet(N) /\ log'[k] = log[k] \cup N /\ \A x \in N : x.at = now
        BY DEF Grows
    <2> DEFINE W == {w \in ctl'.held \ ctl.held : ctl'.key[w] = k}
               N == {} \cup {ChargeOf(w, 0) : w \in W}
    <2>1. log'[k] = log[k] \cup N
        BY <1>2 DEF Record
    <2>2. W \subseteq Calls
        BY <1>0 DEF Controller
    <2>3. IsFiniteSet(W)
        BY <2>2, CallsFinite, FS_Subset
    <2> HIDE DEF W
    <2>4. IsFiniteSet({})
        BY FS_EmptySet
    <2>5. IsFiniteSet(N)
        <3>1. PICK X : X = {}
            OBVIOUS
        <3>2. IsFiniteSet(X \cup {ChargeOf(w, 0) : w \in W})
            BY <2>3, <2>4, <3>1, ChargesCount
        <3> QED BY <3>1, <3>2
    <2>6. \A x \in N : x.at = now
        BY DEF ChargeOf
    <2> QED BY <2>1, <2>5, <2>6
<1>3. ASSUME NEW s \in Calls, ChargeBudget(s) PROVE Grows(log, log')
    <2>1. PICK x : x.at = now /\ (log' = log \/ log' = [log EXCEPT ![ctl.key[s]] = @ \cup {x}])
        <3>1. PICK x : x = ChargeOf(s, asked + 1)
            OBVIOUS
        <3>2. x.at = now
            BY <3>1 DEF ChargeOf
        <3>3. log' = log \/ log' = [log EXCEPT ![ctl.key[s]] = @ \cup {x}]
            BY <1>3, <3>1 DEF ChargeBudget
        <3> QED BY <3>2, <3>3
    <2>2. CASE log' = log
        BY <1>1, <2>2
    <2>3. CASE log' = [log EXCEPT ![ctl.key[s]] = @ \cup {x}]
        <3> SUFFICES ASSUME NEW k \in Keys
                     PROVE  \E N : IsFiniteSet(N) /\ log'[k] = log[k] \cup N /\ \A y \in N : y.at = now
            BY DEF Grows
        <3>1. IsFiniteSet({x}) /\ IsFiniteSet({})
            BY FS_Singleton, FS_EmptySet
        <3>2. log'[k] = log[k] \cup {x} \/ log'[k] = log[k] \cup {}
            BY <1>0, <2>3
        <3> QED BY <2>1, <3>1, <3>2
    <2> QED BY <2>1, <2>2, <2>3
<1> QED BY <1>1, <1>2, <1>3, LogMoves

\* The log keeps within the budget: what is charged now falls in a window with
\* those charges only that the key's object counts.
LEMMA HistoryGrows ==
    ASSUME NEW l, NEW m, Grows(l, m), History(l, now), now \in Nat, m \in [Keys -> SUBSET Charge],
           NEW c, Logged(c, m, now), Within(c, now),
           \A k \in Keys : c.partitions[k] # None => c.partitions[k] \in Calls
    PROVE  History(m, now)
<1> SUFFICES ASSUME NEW k \in Keys
             PROVE  /\ IsFiniteSet(m[k])
                    /\ \A x \in m[k] : x.at <= now
                    /\ \A x \in m[k] :
                          Cardinality({y \in m[k] : y.at <= x.at /\ x.at < y.at + Window}) <= MaxCalls
    BY DEF History
<1>1. PICK N : IsFiniteSet(N) /\ m[k] = l[k] \cup N /\ \A x \in N : x.at = now
    BY DEF Grows
<1>2. IsFiniteSet(m[k])
    BY <1>1, FS_Union DEF History
<1>3. \A x \in m[k] : x.at \in Nat /\ x.at <= now
    BY <1>1 DEF History, Charge
<1>4. ASSUME NEW x \in m[k]
      PROVE  Cardinality({y \in m[k] : y.at <= x.at /\ x.at < y.at + Window}) <= MaxCalls
    <2> DEFINE A == {y \in m[k] : y.at <= x.at /\ x.at < y.at + Window}
    <2>1. CASE x.at = now
        <3>1. A \subseteq Young(m[k], now)
            BY <1>3, <2>1, BoundsNatural DEF Young
        <3>2. CASE A = {}
            <4> HIDE DEF A
            <4>1. Cardinality({}) = 0
                BY FS_EmptySet
            <4>2. Cardinality(A) <= MaxCalls
                BY <3>2, <4>1, LimitsPositive
            <4> QED BY <4>2 DEF A
        <3>3. CASE A # {}
            <4> DEFINE o == c.partitions[k]
                       X == c.states[o].admittedAt
            <4>1. o # None /\ Young(m[k], now) \subseteq X
                BY <3>1, <3>3 DEF Logged
            <4>2. o \in Calls
                BY <4>1
            <4>3. IsFiniteSet(X) /\ Cardinality(Young(X, now)) <= MaxCalls
                BY <4>2 DEF Within
            <4>4. A \subseteq Young(X, now)
                BY <3>1, <4>1 DEF Young
            <4> HIDE DEF A, X
            <4>5. Young(X, now) \subseteq X
                BY DEF Young
            <4>6. IsFiniteSet(Young(X, now))
                BY <4>3, <4>5, FS_Subset
            <4>7. /\ Cardinality(A) <= Cardinality(Young(X, now))
                  /\ Cardinality(A) \in Nat /\ Cardinality(Young(X, now)) \in Nat
                BY <4>4, <4>6, FS_Subset, FS_CardinalityType
            <4>8. Cardinality(A) <= MaxCalls
                BY <4>3, <4>7, LimitsPositive
            <4> QED BY <4>8 DEF A
        <3> QED BY <3>2, <3>3
    <2>2. CASE x.at # now
        <3>1. x \in l[k] /\ x.at < now
            BY <1>1, <1>3, <2>2
        <3>2. A = {y \in l[k] : y.at <= x.at /\ x.at < y.at + Window}
            BY <1>1, <1>3, <3>1
        <3> HIDE DEF A
        <3>3. Cardinality(A) <= MaxCalls
            BY <3>1, <3>2 DEF History
        <3> QED BY <3>3 DEF A
    <2> QED BY <2>1, <2>2
<1> QED BY <1>2, <1>3, <1>4

LEMMA HistoryAges ==
    ASSUME NEW l \in [Keys -> SUBSET Charge], now \in Nat, History(l, now)
    PROVE  History(l, now + 1)
<1>1. \A k \in Keys : \A x \in l[k] : x.at \in Nat
    BY DEF Charge
<1> QED BY <1>1 DEF History

\* The inductive invariant of the map, the queues and the budgets.
OrderInv == IInv /\ Orderly(ctl, pc, log, now) /\ History(log, now)

LEMMA OrderInit == Init => OrderInv
<1> SUFFICES ASSUME Init PROVE OrderInv
    OBVIOUS
<1>1. IInv
    BY InitHolds
<1>2. /\ ctl.partitions = [k \in Keys |-> None] /\ ctl.home = [s \in Calls |-> None]
      /\ \A o \in Calls : ctl.states[o] = NewState
      /\ \A s \in Calls : pc[s] = "idle"
      /\ \A k \in Keys : log[k] = {}
    BY DEF Init
<1>3. /\ NewState.active = 0 /\ NewState.waiters = {} /\ NewState.admittedAt = {}
      /\ IsFiniteSet({}) /\ Cardinality({}) = 0 /\ \A t : Young({}, t) = {}
    BY FS_EmptySet DEF NewState, Young
<1>4. \A o \in Calls : Cardinality(ctl.states[o].waiters) = 0
                       /\ Cardinality(Young(ctl.states[o].admittedAt, now)) = 0
    BY <1>2, <1>3
<1>5. Busy(ctl)
    BY <1>2, <1>3, <1>4, LimitsPositive, BoundsNatural DEF Busy, Backed
<1>6. Keyed(ctl) /\ Mapped(ctl, now) /\ Turns(ctl) /\ Logged(ctl, log, now)
    <2>1. \A o \in Calls : ~Used(ctl.states[o], now)
        <3>1. \A t : ~Used(NewState, t)
            BY <1>3 DEF Used
        <3> QED BY <1>2, <3>1
    <2>2. Turns(ctl)
        BY <1>2, <1>3 DEF Turns
    <2>3. Keyed(ctl)
        BY <1>2 DEF Keyed
    <2>4. Logged(ctl, log, now)
        BY <1>2, <1>3 DEF Logged
    <2> QED BY <2>1, <2>2, <2>3, <2>4 DEF Mapped
<1>7. Heard(ctl, pc) /\ Holding(ctl, pc)
    BY <1>2 DEF Heard, Holding
<1>8. Within(ctl, now)
    <2>1. \A o \in Calls : IsFiniteSet(ctl.states[o].admittedAt)
        BY <1>2, <1>3
    <2> QED BY <1>4, <2>1, LimitsPositive DEF Within
<1>9. History(log, now)
    BY <1>2, <1>3 DEF History
<1> QED BY <1>1, <1>5, <1>6, <1>7, <1>8, <1>9 DEF OrderInv, Orderly, Linked

LEMMA OrderNext == OrderInv /\ [Next]_vars => OrderInv'
<1> SUFFICES ASSUME OrderInv, [Next]_vars PROVE OrderInv'
    OBVIOUS
<1>0. IInv /\ IInv' /\ Orderly(ctl, pc, log, now)
    BY NextHolds DEF OrderInv
<1>1. now \in Nat /\ ctl \in Controller /\ Consistent(ctl, pc) /\ log \in [Keys -> SUBSET Charge]
    BY <1>0, Facts DEF Around
<1>2. CASE UNCHANGED vars
    BY <1>0, <1>2 DEF OrderInv, vars
<1>3. CASE Next
    <2>1. Orderly(ctl', pc', log', now')
        <3>1. CASE IsIdle
            <4>1. Orderly(EvictIdlePartitions(ctl), pc, log, now)
                BY <1>0, <1>1, EvictOrderly
            <4> QED BY <3>1, <4>1 DEF IsIdle
        <3>2. ASSUME NEW s \in Calls, Abort(s) PROVE Orderly(ctl', pc', log', now')
            BY <1>0, <3>2 DEF Abort
        <3> QED BY <1>0, <1>3, <3>1, <3>2, TurnedAwayOrderly, EntersOrderly, RaceOrderly, ChargeOrderly,
                   CloseOrderly, TickOrderly DEF Next
    <2>2. CASE Tick
        <3>1. History(log, now + 1)
            BY <1>1, HistoryAges DEF OrderInv
        <3> QED BY <1>0, <2>1, <2>2, <3>1 DEF OrderInv, Tick
    <2>3. CASE ~Tick
        <3>1. Grows(log, log')
            BY <1>0, <1>3, <2>3, LogGrows
        <3>2. now' = now
            BY <1>3, <2>3, LogMoves
        <3>3. Logged(ctl', log', now) /\ Within(ctl', now)
            BY <2>1, <3>2 DEF Orderly, Linked
        <3>4. log' \in [Keys -> SUBSET Charge]
              /\ \A k \in Keys : ctl'.partitions[k] # None => ctl'.partitions[k] \in Calls
            BY <1>0 DEF IInv, TypeOK, Controller
        <3>5. History(log, now)
            BY DEF OrderInv
        <3>6. History(log', now)
            BY <1>1, <3>1, <3>3, <3>4, <3>5, HistoryGrows
        <3> QED BY <1>0, <2>1, <3>2, <3>6 DEF OrderInv
    <2> QED BY <2>2, <2>3
<1> QED BY <1>2, <1>3

\* Whatever acquire(), pump(), maybeDeletePartition(), evictIdlePartitions(),
\* chargeCallBudget() and close() do, a state object in use is the one the map has
\* for its key, its queue is behind taken slots, and its window holds what the
\* key was charged.
THEOREM AlwaysOrdered == Spec => []OrderInv
BY OrderInit, OrderNext, PTL DEF Spec

\* race() and giveUp(): a waiting call is queued in its own state object or has an
\* outcome to hear, never neither and never both.
THEOREM WaiterReachableHolds == Spec => []WaiterReachable
<1>1. OrderInv => WaiterReachable
    <2> SUFFICES ASSUME OrderInv, NEW s \in Calls, pc[s] = "waiting"
                 PROVE  Queued(s) <=> ctl.outcome[s] = "none"
        BY DEF WaiterReachable
    <2>1. ctl \in Controller /\ Consistent(ctl, pc)
        BY Facts DEF OrderInv
    <2>2. ctl.outcome[s] = "none" => Queued(s)
        BY DEF OrderInv, Orderly, Linked, Heard, Queued
    <2>3. Queued(s) => ctl.outcome[s] = "none"
        BY <2>1 DEF Queued, Controller, Consistent, WaitersUndecided
    <2> QED BY <2>2, <2>3
<1> QED BY <1>1, AlwaysOrdered, PTL

\* pump() and maybeDeletePartition(): a queue is behind a full state that the map
\* still has, for any number of calls, keys, slots and places.
THEOREM NoIdleSlotHolds == Spec => []NoIdleSlot
<1>1. OrderInv => NoIdleSlot
    <2> SUFFICES ASSUME OrderInv, NEW o \in Calls
                 PROVE  /\ ctl.states[o].waiters # {} =>
                              /\ ~ctl.closed /\ ctl.states[o].active >= Concurrency
                              /\ \E k \in Keys : ctl.partitions[k] = o
                        /\ Cardinality(ctl.states[o].waiters) <= MaxQueueSize
        BY DEF NoIdleSlot
    <2>1. Backed(ctl, o, 0)
        BY DEF OrderInv, Orderly, Busy
    <2>2. ctl.states[o].waiters # {} => \E k \in Keys : ctl.partitions[k] = o
        BY DEF OrderInv, Orderly, Linked, Mapped, Used
    <2>3. ctl.states[o].active \in Nat
        BY Facts DEF OrderInv, Controller, PartitionState
    <2> QED BY <2>1, <2>2, <2>3, LimitsPositive DEF Backed
<1> QED BY <1>1, AlwaysOrdered, PTL

\* chargeCallBudget(), admit() and pump(): a window of any length never holds more
\* admissions of a key than the budget, whatever was evicted in between.
THEOREM RollingBudgetHolds == Spec => []RollingBudget
<1>1. OrderInv => RollingBudget
    BY DEF OrderInv, History, RollingBudget
<1> QED BY <1>1, AlwaysOrdered, PTL

\* isIdle() answers yes only if nothing runs or waits and no charge counts still.
THEOREM IdleMeansDrainedHolds == Spec => []IdleMeansDrained
<1>1. ASSUME OrderInv, \A k \in Keys : EvictIdlePartitions(ctl).partitions[k] = None
      PROVE  /\ ctl.held = {}
             /\ \A s \in Calls : ~Queued(s)
             /\ \A k \in Keys : Recent(log[k]) = {}
    <2> DEFINE v == EvictIdlePartitions(ctl)
    <2>1. ctl \in Controller /\ Consistent(ctl, pc) /\ now \in Nat /\ Orderly(ctl, pc, log, now)
        BY <1>1, Facts DEF OrderInv, Around
    <2>2. Forgets(ctl, v) /\ (\A o \in Calls : v.states[o].waiters = ctl.states[o].waiters)
          /\ Orderly(v, pc, log, now)
        BY <2>1, EvictForgets, EvictOrderly
    <2>3. \A k \in Keys : v.partitions[k] = None
        BY <1>1
    <2> HIDE DEF v
    <2>4. \A o \in Calls : ~Used(v.states[o], now)
        BY <2>2, <2>3, CallsFinite DEF Orderly, Linked, Mapped
    <2>5. \A o \in Calls : v.states[o].active = ctl.states[o].active
        BY <2>2 DEF Forgets, Prunes
    <2>6. ctl.held = {}
        <3> SUFFICES ASSUME NEW s \in ctl.held PROVE FALSE
            OBVIOUS
        <3>1. s \in Calls /\ ctl.home[s] \in Calls
            BY <2>1 DEF Consistent, OwnersKnown, Controller
        <3> DEFINE Q == Permits(ctl, ctl.home[s])
        <3>2. Q \subseteq Calls /\ s \in Q
            BY <2>1 DEF Permits, Controller
        <3>3. ctl.states[ctl.home[s]].active = Cardinality(Q)
            BY <2>1, <3>1 DEF Consistent, ActiveExact
        <3> HIDE DEF Q
        <3>4. Cardinality(Q) \in Nat /\ Cardinality(Q) # 0
            BY <3>2, CallsFinite, FS_Subset, FS_CardinalityType, FS_EmptySet
        <3> QED BY <2>4, <2>5, <3>1, <3>3, <3>4 DEF Used
    <2>7. \A s \in Calls : ~Queued(s)
        BY <2>1, <2>2, <2>4 DEF Queued, Used, Controller
    <2>8. \A k \in Keys : Recent(log[k]) = {}
        BY <2>2, <2>3 DEF Orderly, Linked, Logged, Young, Recent
    <2> QED BY <2>6, <2>7, <2>8
<1>2. OrderInv => IdleMeansDrained
    BY <1>1 DEF IdleMeansDrained
<1> QED BY <1>2, AlwaysOrdered, PTL
-----------------------------------------------------------------------------
(* The controller is a pool of slots for each key. A call is charged and   *)
(* given a permit in one step, and only if it has no outcome and no charge *)
(* yet.                                                                    *)

Undecided(c, p, s) == p[s] = "waiting" /\ c.outcome[s] = "none"

\* Every permit was charged to its key, and a charged call is not to be admitted
\* again.
Book(c, p, l) ==
    /\ \A k \in Keys : \A x \in l[k] : p[x.call] # "idle" /\ ~Undecided(c, p, x.call)
    /\ \A s \in c.held : \E x \in l[c.key[s]] : x.call = s

\* What a method of the controller does to permits and outcomes: a permit goes to
\* one who queued, while the controller is open, and no outcome is taken back.
Settles(c, d) ==
    /\ d.key = c.key /\ d.closed = c.closed
    /\ \A x \in Calls : c.outcome[x] # "none" => d.outcome[x] # "none"
    /\ \A x \in d.held \ c.held : ~c.closed /\ \E o \in Calls : x \in c.states[o].waiters

\* What a step does to the permits and the history, close() aside.
Goes ==
    /\ ctl'.closed = ctl.closed
    /\ \A x \in Calls : pc[x] # "idle" => pc'[x] # "idle" /\ ctl'.key[x] = ctl.key[x]
    /\ \A x \in Calls : Undecided(ctl', pc', x) => pc[x] = "idle" \/ Undecided(ctl, pc, x)
    /\ \A x \in ctl'.held \ ctl.held : ~ctl.closed /\ (pc[x] = "idle" \/ Undecided(ctl, pc, x))
    /\ ctl'.held \subseteq ctl.held \/ Record(ctl')

LEMMA ForgetsSettles == ASSUME NEW c, NEW d, Forgets(c, d) PROVE Settles(c, d) /\ d.held = c.held
BY DEF Forgets, Same, Settles

LEMMA PumpSettles ==
    ASSUME NEW c \in Controller, now \in Nat, NEW o \in Calls
    PROVE  Settles(c, Pump(c, o)) /\ (c.closed => Pump(c, o) = c)
<1>1. CASE c.closed
    BY <1>1 DEF Pump, Settles
<1>2. CASE ~c.closed
    <2>1. PICK R, G, e : e = Pump(c, o) /\ Pumped(c, o, R, G, e)
        BY <1>2, PumpShape
    <2>2. \A x \in Calls : c.outcome[x] # "none" => e.outcome[x] # "none"
        BY <2>1 DEF Pumped
    <2>3. \A x \in e.held \ c.held : x \in c.states[o].waiters
        BY <2>1 DEF Pumped
    <2>4. e.key = c.key /\ e.closed = c.closed
        BY <2>1 DEF Pumped
    <2>5. Settles(c, e)
        BY <1>2, <2>2, <2>3, <2>4 DEF Settles
    <2> QED BY <1>2, <2>1, <2>5
<1> QED BY <1>1, <1>2

LEMMA ReleaseSettles ==
    ASSUME NEW c, NEW p, Consistent(c, p), now \in Nat, NEW s \in Calls,
           \A o \in Calls : s \notin c.states[o].waiters
    PROVE  /\ Settles(c, ReleasePermit(c, s))
           /\ c.closed => ReleasePermit(c, s).held \subseteq c.held
<1>1. CASE s \notin c.held
    BY <1>1 DEF ReleasePermit, Settles
<1>2. CASE s \in c.held
    <2> DEFINE o == c.home[s]
    <2>0. c \in Controller /\ c.held \subseteq Calls /\ o \in Calls
        BY <1>2 DEF Consistent, OwnersKnown, Controller
    <2>1. /\ IsFiniteSet(Permits(c, o)) /\ s \in Permits(c, o)
          /\ c.states[o].active = Cardinality(Permits(c, o))
        BY <1>2, <2>0, CallsFinite, FS_Subset DEF Permits, Consistent, ActiveExact
    <2>2. Cardinality(Permits(c, o)) \in Nat /\ Cardinality(Permits(c, o)) # 0
        BY <2>1, FS_CardinalityType, FS_EmptySet
    <2>3. c.states[o].active > 0
        BY <2>1, <2>2
    <2>4. PICK b : Returned(c, s, b) /\ ReleasePermit(c, s) = Pump(b, o)
        BY <1>2, <2>0, <2>3, ReleaseShape
    <2>5. PICK e : e = Pump(b, o)
        OBVIOUS
    <2>6. Settles(b, e) /\ (b.closed => e = b)
        BY <2>0, <2>4, <2>5, PumpSettles DEF Returned
    <2>7. /\ b.key = c.key /\ b.closed = c.closed /\ b.outcome = c.outcome /\ b.held = c.held \ {s}
          /\ \A x \in Calls : b.states[x].waiters = c.states[x].waiters
        BY <2>4 DEF Returned
    <2>8. e.closed = c.closed /\ e.key = c.key /\ \A x \in Calls : c.outcome[x] # "none" => e.outcome[x] # "none"
        BY <2>6, <2>7 DEF Settles
    <2>9. ASSUME NEW x \in e.held \ c.held PROVE ~c.closed /\ \E y \in Calls : x \in c.states[y].waiters
        BY <2>6, <2>7 DEF Settles
    <2>10. c.closed => e.held \subseteq c.held
        BY <2>6, <2>7
    <2>11. Settles(c, e)
        BY <2>8, <2>9 DEF Settles
    <2> QED BY <2>4, <2>5, <2>10, <2>11
<1> QED BY <1>1, <1>2

\* Only the call that enters learns its key.
LEMMA OpenedNames ==
    ASSUME NEW c \in Controller, NEW s \in Calls, NEW k
    PROVE  \A x \in Calls : x # s => Opened(c, s, k).key[x] = c.key[x]
<1> DEFINE v == EvictIdlePartitions(c)
           a == IF c.partitions[k] # None THEN c
                ELSE [v EXCEPT !.partitions[k] = s, !.states[s] = NewState]
<1>1. v.key = c.key
    BY DEF EvictIdlePartitions, Controller
<1>2. {"outcome", "held", "states", "home", "key"} \subseteq DOMAIN v
    BY DEF EvictIdlePartitions, Controller
<1> HIDE DEF v
<1>3. a.key = c.key /\ {"outcome", "held", "states", "home", "key"} \subseteq DOMAIN a
    BY <1>1, <1>2 DEF Controller
<1> HIDE DEF a
<1>4. Opened(c, s, k) = [a EXCEPT !.states[a.partitions[k]] = PruneBudget(@),
                                  !.home[s] = a.partitions[k], !.key[s] = k]
    BY DEF Opened, a, v
<1>5. Opened(c, s, k).key = [a.key EXCEPT ![s] = k]
    BY <1>3, <1>4
<1>6. a.key \in [Calls -> Keys \cup {None}]
    BY <1>3 DEF Controller
<1> QED BY <1>3, <1>5, <1>6
LEMMA SettlesGoes ==
    ASSUME IInv, Settles(ctl, ctl'),
           \A x \in Calls : /\ pc[x] # "idle" => pc'[x] # "idle"
                            /\ pc'[x] = "waiting" => pc[x] = "waiting",
           ctl'.held \subseteq ctl.held \/ Record(ctl'),
           ctl' \in Controller
    PROVE  Goes
<1>1. ctl' \in Controller /\ ctl \in Controller /\ Consistent(ctl, pc) /\ ctl'.held \subseteq Calls
    BY Facts DEF Controller
<1>2. \A x \in Calls : Undecided(ctl', pc', x) => Undecided(ctl, pc, x)
    BY DEF Settles, Undecided
<1>3. \A x \in ctl'.held \ ctl.held : ~ctl.closed /\ Undecided(ctl, pc, x)
    BY <1>1 DEF Settles, Consistent, WaitersUndecided, Undecided
<1>4. \A x \in Calls : pc[x] # "idle" => pc'[x] # "idle" /\ ctl'.key[x] = ctl.key[x]
    BY DEF Settles
<1>5. ctl'.closed = ctl.closed
    BY DEF Settles
<1> QED BY <1>2, <1>3, <1>4, <1>5 DEF Goes

\* No step but a call's own arrival makes a phase "idle" or "waiting".
LEMMA EndsOnwards ==
    ASSUME pc \in [Calls -> Phase], NEW s \in Calls, NEW phase, phase \notin {"idle", "waiting"},
           pc' = [pc EXCEPT ![s] = phase]
    PROVE  \A x \in Calls : /\ pc[x] # "idle" => pc'[x] # "idle"
                            /\ pc'[x] = "waiting" => pc[x] = "waiting"
OBVIOUS

LEMMA TurnedAwayGoes ==
    ASSUME IInv, IInv', NEW s \in Calls, NEW k,
           AcquireClosed(s) \/ AcquireCancelled(s) \/ AcquireInvalid(s) \/ AcquireNoRoom(s, k)
    PROVE  Goes
<1>0. /\ ctl \in Controller /\ pc \in [Calls -> Phase] /\ now \in Nat /\ ctl' \in Controller
    BY Facts DEF Around, IInv, TypeOK
<1>1. PICK phase \in {"closed", "cancelled", "rejected"} : pc' = [pc EXCEPT ![s] = phase]
    BY DEF AcquireClosed, AcquireCancelled, AcquireInvalid, AcquireNoRoom, Ends
<1>2. PICK v : v = EvictIdlePartitions(ctl)
    OBVIOUS
<1>3. Settles(ctl, v) /\ v.held = ctl.held /\ v \in Controller
    <2>1. Forgets(ctl, v)
        BY <1>0, <1>2, EvictForgets
    <2>2. Consistent(v, pc)
        BY <1>0, <1>2, Facts, EvictKeeps
    <2> QED BY <2>1, <2>2, ForgetsSettles DEF Consistent
<1>4. \/ ctl' = ctl
      \/ ctl' = [ctl EXCEPT !.totals.cancelled = @ + 1] \/ ctl' = [ctl EXCEPT !.totals.rejected = @ + 1]
      \/ ctl' = [v EXCEPT !.totals.rejected = @ + 1]
    BY <1>2 DEF AcquireClosed, AcquireCancelled, AcquireInvalid, AcquireNoRoom
<1>5. Settles(ctl, ctl') /\ ctl'.held = ctl.held
    <2>1. CASE ctl' = ctl
        BY <2>1 DEF Settles
    <2>2. CASE ctl' = [ctl EXCEPT !.totals.cancelled = @ + 1]
        BY <1>0, <2>2, TotalsForget, ForgetsSettles
    <2>3. CASE ctl' = [ctl EXCEPT !.totals.rejected = @ + 1]
        BY <1>0, <2>3, TotalsForget, ForgetsSettles
    <2>4. CASE ctl' = [v EXCEPT !.totals.rejected = @ + 1]
        <3>1. Settles(v, ctl') /\ ctl'.held = v.held
            BY <1>3, <2>4, TotalsForget, ForgetsSettles
        <3> QED BY <1>3, <3>1 DEF Settles
    <2> QED BY <1>4, <2>1, <2>2, <2>3, <2>4
<1>6. \A x \in Calls : /\ pc[x] # "idle" => pc'[x] # "idle"
                       /\ pc'[x] = "waiting" => pc[x] = "waiting"
    BY <1>0, <1>1, EndsOnwards
<1> QED BY <1>0, <1>5, <1>6, SettlesGoes

\* acquire() finds or makes the partition: c is what it then goes on with.
LEMMA EntersGoes ==
    ASSUME IInv, IInv', Orderly(ctl, pc, log, now), NEW s \in Calls, NEW k \in Keys,
           AcquireLimited(s, k) \/ AcquireFull(s, k) \/ AcquireAdmitted(s, k) \/ AcquireQueued(s, k)
    PROVE  Goes
<1>0. /\ Consistent(ctl, pc) /\ ctl \in Controller /\ pc \in [Calls -> Phase] /\ now \in Nat
      /\ pc[s] = "idle" /\ ~ctl.closed
    BY Facts DEF Around, AcquireLimited, AcquireFull, AcquireAdmitted, AcquireQueued, Enters, Arriving
<1>1. PICK c : c = Opened(ctl, s, k)
    OBVIOUS
<1>2. Entered(c, s, k) /\ c.closed = ctl.closed
    BY <1>0, <1>1, OpenedOrderly
<1>3. c \in Controller /\ c.home[s] \in Calls
    BY <1>2 DEF Entered
<1>4. c.outcome = ctl.outcome /\ c.held = ctl.held /\ \A x \in Calls : x # s => c.key[x] = ctl.key[x]
    BY <1>0, <1>1, OpenedShape, OpenedNames
\* What the rest of the step does to c is told of ctl.
<1>5. ASSUME ctl'.key = c.key, ctl'.closed = c.closed, ctl'.outcome = c.outcome,
             NEW phase, phase # "idle", pc' = [pc EXCEPT ![s] = phase],
             ctl'.held = c.held \/ (ctl'.held = c.held \cup {s} /\ Record(ctl'))
      PROVE  Goes
    <2>1. \A x \in Calls : pc'[x] = IF x = s THEN phase ELSE pc[x]
        BY <1>0, <1>5
    <2>2. \A x \in Calls : Undecided(ctl', pc', x) => pc[x] = "idle" \/ Undecided(ctl, pc, x)
        BY <1>0, <1>4, <1>5, <2>1 DEF Undecided
    <2>3. \A x \in Calls : pc[x] # "idle" => pc'[x] # "idle" /\ ctl'.key[x] = ctl.key[x]
        BY <1>0, <1>4, <1>5, <2>1
    <2>4. \A x \in ctl'.held \ ctl.held : ~ctl.closed /\ pc[x] = "idle"
        BY <1>0, <1>4, <1>5
    <2>5. ctl'.held \subseteq ctl.held \/ Record(ctl')
        BY <1>4, <1>5
    <2> QED BY <1>2, <1>5, <2>2, <2>3, <2>4, <2>5 DEF Goes
<1>6. CASE AcquireLimited(s, k) \/ AcquireFull(s, k)
    <2>1. PICK phase \in {"rateLimited", "rejected"} : pc' = [pc EXCEPT ![s] = phase]
        BY <1>6 DEF AcquireLimited, AcquireFull, Ends
    <2>2. ctl' = [c EXCEPT !.totals.rateLimited = @ + 1] \/ ctl' = [c EXCEPT !.totals.rejected = @ + 1]
        BY <1>1, <1>6 DEF AcquireLimited, AcquireFull
    <2>3. Forgets(c, ctl')
        BY <1>3, <2>2, TotalsForget
    <2>4. ctl'.key = c.key /\ ctl'.closed = c.closed /\ ctl'.outcome = c.outcome /\ ctl'.held = c.held
        BY <2>3 DEF Forgets, Same
    <2> QED BY <1>5, <2>1, <2>4
<1>7. CASE AcquireAdmitted(s, k)
    <2>1. ctl' = Admit(c, c.home[s], {s}) /\ Record(ctl') /\ pc' = [pc EXCEPT ![s] = "running"]
        BY <1>1, <1>7 DEF AcquireAdmitted, Ends
    <2>2. PICK W : W = {s}
        OBVIOUS
    <2>3. IsFiniteSet(W) /\ Cardinality(W) = 1
        BY <2>2, FS_Singleton
    <2>4. PICK o \in Calls : o = c.home[s]
        BY <1>3
    <2>5. W \in SUBSET Calls /\ Cardinality(W) \in Nat
        BY <2>2, <2>3
    <2>6. PICK d : d = Admit(c, o, W)
        OBVIOUS
    <2>7. d.held = c.held \cup W /\ d.key = c.key /\ d.closed = c.closed /\ d.outcome = c.outcome
        <3>1. c \in Controller /\ now \in Nat
            BY <1>0, <1>3
        <3>2. /\ Admit(c, o, W).held = c.held \cup W /\ Admit(c, o, W).key = c.key
              /\ Admit(c, o, W).closed = c.closed /\ Admit(c, o, W).outcome = c.outcome
            BY <2>5, <3>1, AdmitHolds
        <3> QED BY <2>6, <3>2
    <2>8. ctl' = d
        BY <2>1, <2>2, <2>4, <2>6
    <2> QED BY <1>5, <2>1, <2>2, <2>7, <2>8
<1>8. CASE AcquireQueued(s, k)
    <2>1. /\ ctl' = [c EXCEPT !.states[c.home[s]].waiters = @ \cup {s},
                              !.queuedAt[s] = now,
                              !.place[s] = c.totals.queued,
                              !.totals.queued = @ + 1]
          /\ pc' = [pc EXCEPT ![s] = "waiting"]
        BY <1>1, <1>8 DEF AcquireQueued, Ends
    <2>2. ctl'.key = c.key /\ ctl'.closed = c.closed /\ ctl'.outcome = c.outcome /\ ctl'.held = c.held
        BY <1>3, <2>1 DEF Controller
    <2> QED BY <1>5, <2>1, <2>2
<1> QED BY <1>6, <1>7, <1>8
LEMMA RaceGoes ==
    ASSUME IInv, IInv', Orderly(ctl, pc, log, now), NEW s \in Calls,
           HearRefusal(s) \/ Received(s) \/ TimesOut(s) \/ AbortHeard(s) \/ Interrupt(s) \/ Release(s)
    PROVE  Goes
<1>0. /\ Consistent(ctl, pc) /\ ctl \in Controller /\ pc \in [Calls -> Phase] /\ now \in Nat
      /\ ctl' \in Controller
    BY Facts DEF Around, IInv, TypeOK
<1>1. PICK phase \in {"closed", "rejected", "rateLimited", "cancelled", "interrupted", "released", "running"} :
          pc' = [pc EXCEPT ![s] = phase]
    BY DEF HearRefusal, Received, TimesOut, AbortHeard, Interrupt, Release, Ends
<1>2. \A x \in Calls : /\ pc[x] # "idle" => pc'[x] # "idle"
                       /\ pc'[x] = "waiting" => pc[x] = "waiting"
    BY <1>0, <1>1, EndsOnwards
\* s is not queued: the slot it may have goes back.
<1>3. ASSUME ~Queued(s), ctl' = ReleasePermit(ctl, s), Record(ctl') \/ ctl.closed
      PROVE  Goes
    <2>1. \A o \in Calls : s \notin ctl.states[o].waiters
        BY <1>0, <1>3, CallsFinite DEF Consistent, WaitersUndecided, Queued
    <2>2. /\ Settles(ctl, ReleasePermit(ctl, s))
          /\ ctl.closed => ReleasePermit(ctl, s).held \subseteq ctl.held
        BY <1>0, <2>1, ReleaseSettles
    <2>3. Settles(ctl, ctl') /\ (ctl'.held \subseteq ctl.held \/ Record(ctl'))
        BY <1>3, <2>2
    <2> QED BY <1>0, <1>2, <2>3, SettlesGoes
\* s is queued: it leaves the queue.
<1>4. ASSUME Queued(s),
             \/ ctl' = [Withdrawn(ctl, s) EXCEPT !.totals.rejected = @ + 1]
             \/ ctl' = [Withdrawn(ctl, s) EXCEPT !.totals.cancelled = @ + 1]
      PROVE  Goes
    <2>1. PICK v : v = Withdrawn(ctl, s)
        OBVIOUS
    <2>2. ctl.home[s] \in Calls /\ s \in ctl.states[ctl.home[s]].waiters
        BY <1>0, <1>4 DEF Queued, Controller
    <2>3. Forgets(ctl, v)
        BY <1>0, <2>1, <2>2, WithdrawnForgets
    <2>4. v \in Controller
        <3>1. Consistent(v, pc)
            BY <1>0, <1>4, <2>1, WithdrawnKeeps DEF Queued
        <3> QED BY <3>1 DEF Consistent
    <2>5. Forgets(v, ctl')
        BY <1>4, <2>1, <2>4, TotalsForget
    <2>6. Settles(ctl, v) /\ v.held = ctl.held /\ Settles(v, ctl') /\ ctl'.held = v.held
        BY <2>3, <2>5, ForgetsSettles
    <2>7. Settles(ctl, ctl') /\ ctl'.held = ctl.held
        BY <2>6 DEF Settles
    <2> QED BY <1>0, <1>2, <2>7, SettlesGoes
<1>5. CASE HearRefusal(s) \/ (Received(s) /\ ~ctl.closed)
    <2>1. ctl' = ctl
        BY <1>5 DEF HearRefusal, Received
    <2>2. Settles(ctl, ctl') /\ ctl'.held = ctl.held
        BY <2>1 DEF Settles
    <2> QED BY <1>0, <1>2, <2>2, SettlesGoes
<1>6. CASE Received(s) /\ ctl.closed
    <2>1. ctl' = ReleasePermit(ctl, s) /\ ctl.outcome[s] = "permit"
        BY <1>6 DEF Received
    <2>2. ~Queued(s)
        BY <1>0, <2>1 DEF Queued, Consistent, WaitersUndecided, Controller
    <2> QED BY <1>3, <1>6, <2>1, <2>2
<1>7. CASE TimesOut(s) \/ AbortHeard(s)
    BY <1>4, <1>7 DEF TimesOut, AbortHeard
<1>8. CASE Interrupt(s)
    <2>1. CASE Queued(s)
        BY <1>4, <1>8, <2>1 DEF Interrupt
    <2>2. CASE ~Queued(s)
        BY <1>3, <1>8, <2>2 DEF Interrupt
    <2> QED BY <2>1, <2>2
<1>9. CASE Release(s)
    <2>1. pc[s] = "running" /\ ctl' = ReleasePermit(ctl, s) /\ Record(ctl')
        BY <1>9 DEF Release
    <2>2. ~Queued(s)
        BY <1>0, <2>1 DEF Queued, Consistent, WaitersUndecided, Controller
    <2> QED BY <1>3, <2>1, <2>2
<1> QED BY <1>5, <1>6, <1>7, <1>8, <1>9

LEMMA ChargeGoes ==
    ASSUME IInv, IInv', NEW s \in Calls, ChargeBudget(s)
    PROVE  Goes /\ ctl'.held = ctl.held /\ ctl'.key = ctl.key
<1> DEFINE o == ctl.home[s]
           st == PruneBudget(ctl.states[o])
           x == ChargeOf(s, asked + 1)
<1>0. ctl \in Controller /\ ctl' \in Controller /\ pc' = pc
    BY Facts DEF IInv, TypeOK, ChargeBudget
<1>1. \/ ctl' = [ctl EXCEPT !.totals.cancelled = @ + 1]
      \/ ctl' = [[ctl EXCEPT !.states[o] = st] EXCEPT !.totals.rateLimited = @ + 1]
      \/ ctl' = [[ctl EXCEPT !.states[o] = st]
                     EXCEPT !.states[o].admittedAt = @ \cup {x}, !.totals.admitted = @ + 1]
    BY DEF ChargeBudget
<1> HIDE DEF st, x
<1>2. /\ ctl'.key = ctl.key /\ ctl'.closed = ctl.closed /\ ctl'.outcome = ctl.outcome
      /\ ctl'.held = ctl.held
    <2>1. CASE ctl' = [ctl EXCEPT !.totals.cancelled = @ + 1]
        BY <1>0, <2>1 DEF Controller
    <2>2. CASE ctl' = [[ctl EXCEPT !.states[o] = st] EXCEPT !.totals.rateLimited = @ + 1]
        BY <1>0, <2>2 DEF Controller
    <2>3. CASE ctl' = [[ctl EXCEPT !.states[o] = st]
                           EXCEPT !.states[o].admittedAt = @ \cup {x}, !.totals.admitted = @ + 1]
        BY <1>0, <2>3 DEF Controller
    <2> QED BY <1>1, <2>1, <2>2, <2>3
<1>3. Settles(ctl, ctl')
    BY <1>2 DEF Settles
<1> QED BY <1>0, <1>2, <1>3, SettlesGoes
\* A step other than the clock's and close()'s.
LEMMA StepGoes ==
    ASSUME IInv, IInv', Orderly(ctl, pc, log, now), Next, ~Close
    PROVE  Goes
<1>0. ctl \in Controller /\ ctl' \in Controller /\ now \in Nat
    BY Facts DEF Around, IInv, TypeOK
<1>1. ASSUME ctl' = ctl, pc' = pc
      PROVE  Goes
    <2>1. Settles(ctl, ctl') /\ ctl'.held = ctl.held
        BY <1>1 DEF Settles
    <2> QED BY <1>0, <1>1, <2>1, SettlesGoes
<1>2. CASE IsIdle
    <2>1. ctl' = EvictIdlePartitions(ctl) /\ pc' = pc
        BY <1>2 DEF IsIdle
    <2>2. Forgets(ctl, ctl')
        BY <1>0, <2>1, EvictForgets
    <2>3. Settles(ctl, ctl') /\ ctl'.held = ctl.held
        BY <2>2, ForgetsSettles
    <2> QED BY <1>0, <2>1, <2>3, SettlesGoes
<1>3. CASE Tick
    BY <1>1, <1>3 DEF Tick
<1>4. ASSUME NEW s \in Calls, Abort(s) PROVE Goes
    BY <1>1, <1>4 DEF Abort
<1> QED BY <1>2, <1>3, <1>4, TurnedAwayGoes, EntersGoes, RaceGoes, ChargeGoes DEF Next

\* close() answers the waiters: permits, keys and charges stay.
LEMMA CloseGoes ==
    ASSUME IInv, Close
    PROVE  /\ ctl'.held = ctl.held /\ ctl'.key = ctl.key /\ pc' = pc /\ log' = log
           /\ ~ctl.closed /\ ctl'.closed
           /\ \A x \in Calls : Undecided(ctl', pc', x) => Undecided(ctl, pc, x)
<1>1. PICK S, O : ctl' = [ctl EXCEPT !.closed = TRUE, !.states = S, !.outcome = O]
                  /\ O = [s \in Calls |->
                              IF \E k \in Keys : ctl.partitions[k] # None
                                                 /\ s \in ctl.states[ctl.partitions[k]].waiters
                              THEN "closed" ELSE ctl.outcome[s]]
    BY DEF Close
<1>2. /\ ctl \in Controller /\ pc' = pc /\ log' = log /\ ~ctl.closed
    BY Facts DEF Close
<1>3. ctl'.held = ctl.held /\ ctl'.key = ctl.key /\ ctl'.closed = TRUE /\ ctl'.outcome = O
    BY <1>1, <1>2 DEF Controller
<1>4. \A x \in Calls : O[x] = "closed" \/ O[x] = ctl.outcome[x]
    BY <1>1
<1> QED BY <1>2, <1>3, <1>4 DEF Undecided

\* A permit is of a key whose partition is the permit's object.
LEMMA HeldKey ==
    ASSUME OrderInv, NEW s \in ctl.held
    PROVE  /\ s \in Calls /\ ctl.key[s] \in Keys /\ ctl.home[s] \in Calls
           /\ ctl.partitions[ctl.key[s]] = ctl.home[s] /\ pc[s] # "idle"
           /\ ~Undecided(ctl, pc, s)
<1>0. Consistent(ctl, pc) /\ ctl \in Controller /\ Orderly(ctl, pc, log, now)
    BY Facts DEF OrderInv
<1>1. /\ s \in Calls /\ ctl.home[s] # None /\ ctl.home[s] \in Calls
      /\ pc[s] # "idle" /\ ~Undecided(ctl, pc, s)
    BY <1>0 DEF Consistent, OwnersKnown, Controller, Undecided
<1> DEFINE o == ctl.home[s]
<1>2. Permits(ctl, o) \subseteq Calls /\ s \in Permits(ctl, o)
    BY <1>0 DEF Permits, Controller
<1>3. Cardinality(Permits(ctl, o)) \in Nat /\ Cardinality(Permits(ctl, o)) # 0
    BY <1>2, CallsFinite, FS_Subset, FS_CardinalityType, FS_EmptySet
<1>4. ctl.states[o].active = Cardinality(Permits(ctl, o))
    BY <1>0, <1>1 DEF Consistent, ActiveExact
<1>5. Used(ctl.states[o], now)
    BY <1>3, <1>4 DEF Used
<1>6. PICK j \in Keys : ctl.partitions[j] = o
    BY <1>0, <1>1, <1>5 DEF Orderly, Linked, Mapped
<1>7. ctl.key[s] = j
    BY <1>0, <1>1, <1>6 DEF Orderly, Linked, Keyed
<1> QED BY <1>1, <1>6, <1>7

LEMMA KeysNow == OrderInv => \A s \in ctl.held : ctl.key[s] \in Keys
BY HeldKey

LEMMA KeysNext == OrderInv' => \A s \in ctl'.held : ctl'.key[s] \in Keys
<1>1. OrderInv' => (\A s \in ctl.held : ctl.key[s] \in Keys)'
    BY KeysNow, PTL
<1> QED BY <1>1

\* The slots of a key are those of its partition's object.
LEMMA KeyWithin ==
    ASSUME OrderInv, NEW k \in Keys
    PROVE  Cardinality(HeldIn(k)) <= Concurrency
<1> DEFINE o == ctl.partitions[k]
<1>0. Consistent(ctl, pc) /\ ctl \in Controller /\ Orderly(ctl, pc, log, now)
    BY Facts DEF OrderInv
<1>1. CASE HeldIn(k) = {}
    BY <1>1, FS_EmptySet, LimitsPositive
<1>2. CASE HeldIn(k) # {}
    <2>1. \A s \in HeldIn(k) : ctl.home[s] = o /\ o \in Calls
        BY HeldKey DEF HeldIn
    <2>2. o \in Calls /\ HeldIn(k) \subseteq Permits(ctl, o) /\ Permits(ctl, o) \subseteq Calls
        BY <1>0, <1>2, <2>1 DEF HeldIn, Permits, Controller
    <2>3. /\ Cardinality(HeldIn(k)) <= Cardinality(Permits(ctl, o))
          /\ Cardinality(HeldIn(k)) \in Nat /\ Cardinality(Permits(ctl, o)) \in Nat
        BY <2>2, CallsFinite, FS_Subset, FS_CardinalityType
    <2>4. Cardinality(Permits(ctl, o)) <= Concurrency
        BY <1>0, <2>2 DEF Consistent, ActiveExact, Orderly, Busy, Backed
    <2> QED BY <2>3, <2>4, LimitsPositive
<1> QED BY <1>1, <1>2

LEMMA WithinNow == OrderInv => \A k \in Keys : Cardinality(HeldIn(k)) <= Concurrency
BY KeyWithin

LEMMA WithinNext == OrderInv' => \A k \in Keys : Cardinality(HeldIn(k)') <= Concurrency
<1>1. OrderInv' => (\A k \in Keys : Cardinality(HeldIn(k)) <= Concurrency)'
    BY WithinNow, PTL
<1> QED BY <1>1

\* What a step writes in the history is of permits of the key, and every new
\* permit is written there.
Written ==
    /\ \A k \in Keys : log[k] \subseteq log'[k]
    /\ \A k \in Keys : \A x \in log'[k] : x \in log[k] \/ (x.call \in ctl'.held /\ ctl'.key[x.call] = k)
    /\ \A s \in ctl'.held \ ctl.held : \E x \in log'[ctl'.key[s]] : x.call = s

LEMMA StepWritten ==
    ASSUME OrderInv, OrderInv', Next, Goes
    PROVE  Written
<1>0. IInv /\ IInv' /\ log \in [Keys -> SUBSET Charge]
    BY DEF OrderInv, IInv, TypeOK
<1>1. \A s \in ctl'.held : ctl'.key[s] \in Keys
    BY KeysNext
<1>2. CASE Record(ctl')
    <2>1. \A s : ChargeOf(s, 0).call = s
        BY DEF ChargeOf
    <2>2. \A k \in Keys : log'[k] = log[k] \cup {ChargeOf(s, 0) : s \in {w \in ctl'.held \ ctl.held : ctl'.key[w] = k}}
        BY <1>2 DEF Record
    <2>3. ASSUME NEW s \in ctl'.held \ ctl.held PROVE \E x \in log'[ctl'.key[s]] : x.call = s
        BY <1>1, <2>1, <2>2
    <2>4. \A k \in Keys : log[k] \subseteq log'[k]
        BY <2>2
    <2>5. \A k \in Keys : \A x \in log'[k] : x \in log[k] \/ (x.call \in ctl'.held /\ ctl'.key[x.call] = k)
        BY <2>1, <2>2
    <2> QED BY <2>3, <2>4, <2>5 DEF Written
<1>3. CASE ctl'.held \subseteq ctl.held /\ log' = log
    BY <1>3 DEF Written
<1>4. ASSUME NEW s \in Calls, ChargeBudget(s) PROVE Written
    <2>1. PICK x : x = ChargeOf(s, asked + 1)
        OBVIOUS
    <2>2. log' = log \/ log' = [log EXCEPT ![ctl.key[s]] = @ \cup {x}]
        BY <1>4, <2>1 DEF ChargeBudget
    <2>3. ctl'.held = ctl.held /\ ctl'.key = ctl.key
        BY <1>0, <1>4, ChargeGoes
    <2>4. x.call = s /\ s \in ctl.held
        BY <1>4, <2>1 DEF ChargeOf, ChargeBudget, OrderInv, Orderly, Linked, Holding
    <2>5. \A k \in Keys : log'[k] = log[k] \/ (k = ctl.key[s] /\ log'[k] = log[k] \cup {x})
        BY <1>0, <2>2
    <2>6. \A k \in Keys : log[k] \subseteq log'[k]
        BY <2>5
    <2>7. \A k \in Keys : \A y \in log'[k] : y \in log[k] \/ (y.call \in ctl'.held /\ ctl'.key[y.call] = k)
        BY <2>3, <2>4, <2>5
    <2> QED BY <2>3, <2>6, <2>7 DEF Written
<1>5. CASE Tick
    BY <1>3, <1>5 DEF Tick
<1>6. ctl'.held \subseteq ctl.held \/ Record(ctl')
    BY DEF Goes
<1> QED BY <1>2, <1>3, <1>4, <1>5, <1>6, LogMoves
\* The inductive invariant of the pool.
PoolInv == OrderInv /\ Book(ctl, pc, log)

LEMMA BookInit == Init => Book(ctl, pc, log)
BY DEF Init, Book

LEMMA BookNext == PoolInv /\ [Next]_vars => PoolInv'
<1> SUFFICES ASSUME PoolInv, [Next]_vars PROVE PoolInv'
    OBVIOUS
<1>1. OrderInv /\ OrderInv' /\ Book(ctl, pc, log)
    BY OrderNext DEF PoolInv
<1>2. /\ log \in [Keys -> SUBSET Charge] /\ IInv /\ IInv' /\ Orderly(ctl, pc, log, now)
      /\ ctl \in Controller /\ Consistent(ctl', pc') /\ ctl' \in Controller
    BY <1>1 DEF OrderInv, IInv, TypeOK
<1>3. \A k \in Keys : \A x \in log[k] : x.call \in Calls
    BY <1>2 DEF Charge
<1>4. CASE UNCHANGED vars
    BY <1>1, <1>4 DEF PoolInv, vars, Book, Undecided
<1>5. CASE Close
    <2>1. /\ ctl'.held = ctl.held /\ ctl'.key = ctl.key /\ pc' = pc /\ log' = log
          /\ \A x \in Calls : Undecided(ctl', pc', x) => Undecided(ctl, pc, x)
        BY <1>2, <1>5, CloseGoes
    <2>2. Book(ctl', pc', log')
        BY <1>1, <1>3, <2>1 DEF Book
    <2> QED BY <1>1, <2>2 DEF PoolInv
<1>6. CASE Next /\ ~Close
    <2>1. Goes /\ Written
        BY <1>1, <1>2, <1>6, StepGoes, StepWritten
    <2>2. ASSUME NEW x \in ctl'.held PROVE pc'[x] # "idle" /\ ~Undecided(ctl', pc', x)
        BY <1>2, <2>2 DEF Consistent, OwnersKnown, Undecided
    <2>3. ASSUME NEW k \in Keys, NEW x \in log'[k]
          PROVE  pc'[x.call] # "idle" /\ ~Undecided(ctl', pc', x.call)
        <3>1. CASE x \in log[k]
            <4>1. x.call \in Calls /\ pc[x.call] # "idle" /\ ~Undecided(ctl, pc, x.call)
                BY <1>1, <1>3, <3>1 DEF Book
            <4> QED BY <2>1, <4>1 DEF Goes
        <3>2. CASE x.call \in ctl'.held
            BY <2>2, <3>2
        <3> QED BY <2>1, <2>3, <3>1, <3>2 DEF Written
    <2>4. ASSUME NEW s \in ctl'.held PROVE \E x \in log'[ctl'.key[s]] : x.call = s
        <3>1. CASE s \in ctl.held
            <4>1. s \in Calls /\ ctl.key[s] \in Keys /\ pc[s] # "idle"
                BY <1>1, <3>1, HeldKey
            <4>2. PICK x \in log[ctl.key[s]] : x.call = s
                BY <1>1, <3>1 DEF Book
            <4>3. ctl'.key[s] = ctl.key[s] /\ log[ctl.key[s]] \subseteq log'[ctl.key[s]]
                BY <2>1, <4>1 DEF Goes, Written
            <4> QED BY <4>2, <4>3
        <3>2. CASE s \notin ctl.held
            BY <2>1, <2>4, <3>2 DEF Written
        <3> QED BY <3>1, <3>2
    <2>5. Book(ctl', pc', log')
        BY <2>3, <2>4 DEF Book
    <2> QED BY <1>1, <2>5 DEF PoolInv
<1> QED BY <1>4, <1>5, <1>6

\* The calls of k that have had their slot.
PastOf(k) == {s \in Calls : ctl.key[s] = k /\ (\E x \in log[k] : x.call = s)} \ ctl.held

\* One key's slots are handed back and out.
LEMMA KeyTurns ==
    ASSUME PoolInv, PoolInv', Goes, Written, NEW k \in Keys
    PROVE  \E back \in SUBSET HeldIn(k), fresh \in SUBSET (Calls \ (HeldIn(k) \cup PastOf(k))) :
              /\ fresh # {} => ~ctl.closed
              /\ HeldIn(k)' = (HeldIn(k) \ back) \cup fresh
              /\ PastOf(k)' = PastOf(k) \cup back
<1> DEFINE back == HeldIn(k) \ HeldIn(k)'
           fresh == HeldIn(k)' \ HeldIn(k)
<1>0. /\ OrderInv /\ Book(ctl, pc, log) /\ ctl \in Controller /\ ctl' \in Controller
      /\ log \in [Keys -> SUBSET Charge]
    BY DEF PoolInv, OrderInv, IInv, TypeOK
<1>1. ctl.held \subseteq Calls /\ ctl'.held \subseteq Calls
    BY <1>0 DEF Controller
<1>2. \A s \in ctl.held : pc[s] # "idle" /\ ~Undecided(ctl, pc, s)
    BY <1>0, HeldKey
\* A call that has been charged, or has a permit, keeps its key.
<1>3. \A x \in log[k] : x.call \in Calls /\ pc[x.call] # "idle" /\ ~Undecided(ctl, pc, x.call)
                        /\ ctl'.key[x.call] = ctl.key[x.call]
    <2>1. \A x \in log[k] : x.call \in Calls
        BY <1>0 DEF Charge
    <2>2. \A x \in log[k] : pc[x.call] # "idle" /\ ~Undecided(ctl, pc, x.call)
        BY <1>0 DEF Book
    <2> QED BY <2>1, <2>2 DEF Goes
<1>4. \A s \in ctl.held : ctl'.key[s] = ctl.key[s]
    BY <1>1, <1>2 DEF Goes
<1>5. \A s \in ctl'.held \ ctl.held : ~ctl.closed /\ \A x \in log[k] : x.call # s
    BY <1>3 DEF Goes
<1>6. HeldIn(k)' = {s \in ctl'.held : ctl'.key[s] = k}
    BY DEF HeldIn
<1>7. \A s \in fresh : s \in ctl'.held \ ctl.held
    BY <1>4, <1>6 DEF HeldIn
<1>8. \A s \in back : s \in ctl.held /\ s \notin ctl'.held /\ ctl.key[s] = k
    BY <1>4, <1>6 DEF HeldIn
<1>9. fresh \in SUBSET (Calls \ (HeldIn(k) \cup PastOf(k))) /\ (fresh # {} => ~ctl.closed)
    BY <1>1, <1>5, <1>6, <1>7 DEF PastOf
<1>10. PastOf(k)' = {s \in Calls : ctl'.key[s] = k /\ (\E x \in log'[k] : x.call = s)} \ ctl'.held
    BY DEF PastOf
<1>11. ASSUME NEW s \in Calls, ctl.key[s] = k, NEW x \in log[k], x.call = s, s \notin ctl.held
       PROVE  s \in PastOf(k)'
    <2>1. s \notin ctl'.held
        BY <1>5, <1>11
    <2>2. x \in log'[k] /\ ctl'.key[s] = k
        BY <1>3, <1>11 DEF Written
    <2> QED BY <1>10, <1>11, <2>1, <2>2
<1>12. ASSUME NEW s \in back PROVE s \in PastOf(k)'
    <2>1. PICK x \in log[k] : x.call = s
        BY <1>0, <1>8 DEF Book
    <2>2. x \in log'[k] /\ ctl'.key[s] = k /\ s \in Calls
        BY <1>1, <1>4, <1>8, <2>1 DEF Written
    <2> QED BY <1>8, <1>10, <2>1, <2>2
<1>13. ASSUME NEW s \in PastOf(k)' PROVE s \in PastOf(k) \/ s \in back
    <2>1. PICK x \in log'[k] : x.call = s
        BY <1>10
    <2>2. s \in Calls /\ ctl'.key[s] = k /\ s \notin ctl'.held
        BY <1>10
    <2>3. x \in log[k]
        BY <2>1, <2>2 DEF Written
    <2>4. ctl.key[s] = k
        BY <1>3, <2>1, <2>2, <2>3
    <2> QED BY <1>6, <2>1, <2>2, <2>3, <2>4 DEF PastOf, HeldIn
<1>14. PastOf(k)' = PastOf(k) \cup back
    <2>1. \A s \in PastOf(k) : s \in PastOf(k)'
        BY <1>11 DEF PastOf
    <2> QED BY <1>12, <1>13, <2>1
<1> QED BY <1>9, <1>14

LEMMA KeyTurnover ==
    ASSUME PoolInv, PoolInv', Goes, Written, NEW k \in Keys
    PROVE  Pool(k)!Turnover
<1>1. \E back \in SUBSET HeldIn(k), fresh \in SUBSET (Calls \ (HeldIn(k) \cup PastOf(k))) :
          /\ fresh # {} => ~ctl.closed
          /\ HeldIn(k)' = (HeldIn(k) \ back) \cup fresh
          /\ PastOf(k)' = PastOf(k) \cup back
    BY KeyTurns
<1>2. Cardinality(HeldIn(k)') <= Concurrency
    BY WithinNext DEF PoolInv
<1>3. Pool(k)!Cardinality(HeldIn(k)') = Cardinality(HeldIn(k)')
    BY DEF Pool!Cardinality, Cardinality, Pool!IsFiniteSet, IsFiniteSet
<1>4. (~ctl'.closed) = (~ctl.closed)
    BY DEF Goes
<1> QED BY <1>1, <1>2, <1>3, <1>4 DEF Pool!Turnover, PastOf

LEMMA KeyShut ==
    ASSUME IInv, Close, NEW k \in Keys
    PROVE  Pool(k)!Shut
<1>1. /\ ctl'.held = ctl.held /\ ctl'.key = ctl.key /\ log' = log /\ ~ctl.closed /\ ctl'.closed
    BY CloseGoes
<1>2. HeldIn(k)' = HeldIn(k) /\ PastOf(k)' = PastOf(k)
    BY <1>1 DEF HeldIn, PastOf
<1> QED BY <1>1, <1>2 DEF Pool!Shut, PastOf

\* The controller implements AdmissionPool for every key: acquire(), pump() and
\* release() hand out at most maxConcurrency slots of a key at a time, whatever
\* objects the map has lost and made again, to a call only once, and none after
\* close().
THEOREM ImplementsPools == Spec => PoolPerKey
<1>1. Init => \A k \in Keys : Pool(k)!Init
    BY DEF Init, Pool!Init, HeldIn
<1>2. ASSUME PoolInv, PoolInv', [Next]_vars
      PROVE  [\A k \in Keys : Pool(k)!Next \/ UNCHANGED Pool(k)!vars]_vars
    <2>1. CASE UNCHANGED vars
        BY <2>1
    <2>2. CASE Close
        BY <1>2, <2>2, KeyShut DEF Pool!Next, PoolInv, OrderInv
    <2>3. CASE Next /\ ~Close
        <3>1. Goes
            BY <1>2, <2>3, StepGoes DEF PoolInv, OrderInv
        <3>2. Written
            BY <1>2, <2>3, <3>1, StepWritten DEF PoolInv
        <3> QED BY <1>2, <3>1, <3>2, KeyTurnover DEF Pool!Next
    <2> QED BY <1>2, <2>1, <2>2, <2>3
<1>3. Spec => []PoolInv
    <2>1. Init => PoolInv
        BY OrderInit, BookInit DEF PoolInv
    <2> QED BY <2>1, BookNext, PTL DEF Spec
<1> QED BY <1>1, <1>2, <1>3, PTL DEF Spec, PoolPerKey
================================================================================
