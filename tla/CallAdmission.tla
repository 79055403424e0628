----------------------------- MODULE CallAdmission -----------------------------
(***************************************************************************)
(* Per-connector call admission, src/src/call-admission.ts:                *)
(* ConnectorCallAdmissionController. Calls are limited per partition, by   *)
(* concurrency and by a rolling budget of admissions.                      *)
(*                                                                         *)
(* A partition's state is an object that calls keep a reference to while   *)
(* the map may forget it and make another for the same key. An object is   *)
(* named after the call that made it, so two objects of one key differ.    *)
(*                                                                         *)
(* As in ExecutorAdmission, the methods run to completion on one thread    *)
(* and an outcome is recorded by one request and heard by another later.   *)
(***************************************************************************)
EXTENDS Naturals, FiniteSets

CONSTANTS
    Calls,          \* acquire() calls
    Keys,           \* what partitionKey returns
    Concurrency,    \* maxConcurrency; when omitted, at least as many as Calls
    MaxQueueSize,
    QueueTimeout,   \* queueTimeoutMs
    MaxPartitions,
    MaxCalls,       \* budget.maxCalls; without a budget, at least as many as Calls
    Window,         \* budget.windowMs; without a budget, 0
    MaxCharges,     \* bound: calls of chargeCallBudget()
    LastArrival,    \* bound: no acquire() after this instant
    None

ASSUME CallsFinite == IsFiniteSet(Calls) /\ None \notin Calls
ASSUME KeysFinite == IsFiniteSet(Keys) /\ None \notin Keys
ASSUME LimitsPositive ==
    /\ Concurrency \in Nat \ {0} /\ MaxCalls \in Nat \ {0} /\ MaxPartitions \in Nat \ {0}
    /\ QueueTimeout \in Nat \ {0}
ASSUME BoundsNatural ==
    MaxQueueSize \in Nat /\ Window \in Nat /\ MaxCharges \in Nat /\ LastArrival \in Nat

VARIABLES
    now,        \* the callers' clock
    ctl,        \* the controller's fields, its partition states and its waiters
    pc,         \* how far each caller has come
    aborted,    \* callers whose signal has fired
    asked,      \* history: calls of chargeCallBudget() so far
    log         \* history: every admission ever charged, per key

vars == <<now, ctl, pc, aborted, asked, log>>

Phase == {"idle", "waiting", "running", "released", "rejected", "rateLimited",
          "cancelled", "closed", "interrupted"}
Outcome == {"none", "permit", "rejected", "rateLimited", "closed"}

\* An entry of admittedAt. The array is a set, so an entry carries who was
\* charged and for which chargeCallBudget(), 0 being the admission itself.
Charge == [call : Calls, nth : Nat, at : Nat]

PartitionState == [active : Nat, waiters : SUBSET Calls, admittedAt : SUBSET Charge]

Totals == [admitted : Nat, queued : Nat, rejected : Nat, rateLimited : Nat, cancelled : Nat]

\* held are the permits not yet released. key, home, queuedAt and place are
\* the locals that a permit or a waiter closes over; place orders the queue.
Controller ==
    [partitions : [Keys -> Calls \cup {None}],
     states     : [Calls -> PartitionState],
     closed     : BOOLEAN,
     held       : SUBSET Calls,
     key        : [Calls -> Keys \cup {None}],
     home       : [Calls -> Calls \cup {None}],
     queuedAt   : [Calls -> Nat],
     place      : [Calls -> Nat],
     outcome    : [Calls -> Outcome],
     totals     : Totals]

\* The shape of every variable.
TypeOK ==
    /\ now \in Nat
    /\ ctl \in Controller
    /\ pc \in [Calls -> Phase]
    /\ aborted \subseteq Calls
    /\ asked \in Nat
    /\ log \in [Keys -> SUBSET Charge]

NewState == [active |-> 0, waiters |-> {}, admittedAt |-> {}]

Init ==
    /\ now = 0
    /\ ctl = [partitions |-> [k \in Keys |-> None],
              states |-> [s \in Calls |-> NewState],
              closed |-> FALSE, held |-> {},
              key |-> [s \in Calls |-> None], home |-> [s \in Calls |-> None],
              queuedAt |-> [s \in Calls |-> 0], place |-> [s \in Calls |-> 0],
              outcome |-> [s \in Calls |-> "none"],
              totals |-> [admitted |-> 0, queued |-> 0, rejected |-> 0, rateLimited |-> 0,
                          cancelled |-> 0]]
    /\ pc = [s \in Calls |-> "idle"]
    /\ aborted = {}
    /\ asked = 0
    /\ log = [k \in Keys |-> {}]

-----------------------------------------------------------------------------
(* The controller's private methods. *)

Recent(charges) == {x \in charges : x.at + Window > now}

PruneBudget(st) == [st EXCEPT !.admittedAt = Recent(@)]

\* budgetRetryAfterMs() of a pruned state.
Exhausted(st) == Cardinality(st.admittedAt) >= MaxCalls

\* Fault: a partition is forgotten although its window is still open.
DrainedIgnoringBudget(st) == st.active = 0 /\ st.waiters = {}

\* Fault: a partition is forgotten while its calls run.
DrainedWhileActive(st) == st.waiters = {} /\ st.admittedAt = {}

Drained(st) == st.active = 0 /\ st.waiters = {} /\ st.admittedAt = {}

\* Deletes by key, whatever object the key names by now.
MaybeDeletePartition(c, k, o) ==
    LET st == PruneBudget(c.states[o])
    IN  [c EXCEPT !.states[o] = st, !.partitions[k] = IF Drained(st) THEN None ELSE @]

EvictIdlePartitions(c) ==
    LET present == {c.partitions[k] : k \in Keys}
        pruned == [o \in Calls |-> IF o \in present THEN PruneBudget(c.states[o]) ELSE c.states[o]]
    IN  [c EXCEPT !.states = pruned,
                  !.partitions = [k \in Keys |->
                      IF @[k] # None /\ Drained(pruned[@[k]]) THEN None ELSE @[k]]]

ChargeOf(s, nth) == [call |-> s, nth |-> nth, at |-> now]

\* admit() for the calls W: of the state that takes them, and of the controller.
Charged(st, W) ==
    [st EXCEPT !.active = @ + Cardinality(W),
               !.admittedAt = @ \cup {ChargeOf(w, 0) : w \in W}]

Admit(c, o, W) ==
    [c EXCEPT !.states[o] = Charged(@, W),
              !.held = @ \cup W,
              !.totals.admitted = @ + Cardinality(W)]

(* pump(): waiters leave the front of the queue while a slot is free. One  *)
(* that has expired is rejected, one that finds the budget spent is        *)
(* refused, and neither takes the slot. A waiter is reached if the live    *)
(* ones ahead of it, as far as the budget lets them in, leave a slot.      *)

Expired(c, st) == {w \in st.waiters : now >= c.queuedAt[w] + QueueTimeout}

LiveAhead(c, st, w) == {v \in st.waiters \ Expired(c, st) : c.place[v] < c.place[w]}

InBudget(c, st, w) == Cardinality(st.admittedAt) + Cardinality(LiveAhead(c, st, w)) < MaxCalls

Reached(c, st) ==
    {w \in st.waiters :
        \/ st.active + Cardinality(LiveAhead(c, st, w)) < Concurrency
        \/ st.active + MaxCalls < Concurrency + Cardinality(st.admittedAt)}

\* Fault: the budget was checked when the call queued.
GrantedOverBudget(c, st) == Reached(c, st) \ Expired(c, st)

Granted(c, st) == {w \in Reached(c, st) \ Expired(c, st) : InBudget(c, st, w)}

\* Fault: the slot is given back and nobody takes it.
PumpNobody(c, o) == c

\* Pruning first is invisible: whoever reads the budget prunes it.
Pump(c, o) ==
    LET st == PruneBudget(c.states[o])
        late == Reached(c, st) \cap Expired(c, st)
        limited == Reached(c, st) \ (late \cup Granted(c, st))
        d == Admit([c EXCEPT !.states[o] = st], o, Granted(c, st))
    IN  IF c.closed THEN c ELSE
        [d EXCEPT !.states[o].waiters = @ \ Reached(c, st),
                  !.outcome = [w \in Calls |->
                      IF w \in late THEN "rejected"
                      ELSE IF w \in limited THEN "rateLimited"
                      ELSE IF w \in Granted(c, st) THEN "permit" ELSE @[w]],
                  !.totals.rejected = @ + Cardinality(late),
                  !.totals.rateLimited = @ + Cardinality(limited)]

\* Fault: a slot is given back for a permit that was never handed out.
ReleasePermitBlind(c, s) ==
    Pump([c EXCEPT !.held = @ \ {s}, !.states[c.home[s]].active = @ - 1], c.home[s])

\* CallAdmissionPermit.release()
ReleasePermit(c, s) ==
    IF s \notin c.held THEN c ELSE
    Pump([c EXCEPT !.held = @ \ {s}, !.states[c.home[s]].active = IF @ > 0 THEN @ - 1 ELSE 0],
         c.home[s])

Queued(s) == ctl.home[s] # None /\ s \in ctl.states[ctl.home[s]].waiters

\* removeWaiter(), then what follows when the waiter was still queued.
Withdrawn(c, s) ==
    MaybeDeletePartition([c EXCEPT !.states[c.home[s]].waiters = @ \ {s}], c.key[s], c.home[s])

\* The admissions a step of the controller made, for the history.
Record(c) ==
    log' = [k \in Keys |->
              log[k] \cup {ChargeOf(s, 0) : s \in {w \in c.held \ ctl.held : c.key[w] = k}}]

-----------------------------------------------------------------------------
(* acquire(): each outcome of the admission program is an action. *)

Arriving(s) == pc[s] = "idle" /\ now <= LastArrival
Ends(s, phase) == pc' = [pc EXCEPT ![s] = phase]

AcquireClosed(s) ==
    /\ Arriving(s)
    /\ ctl.closed
    /\ Ends(s, "closed")
    /\ UNCHANGED <<now, ctl, aborted, asked, log>>

AcquireCancelled(s) ==
    /\ Arriving(s)
    /\ ~ctl.closed
    /\ s \in aborted
    /\ ctl' = [ctl EXCEPT !.totals.cancelled = @ + 1]
    /\ Ends(s, "cancelled")
    /\ UNCHANGED <<now, aborted, asked, log>>

\* partitionKey threw, or returned no key or too long a one.
AcquireInvalid(s) ==
    /\ Arriving(s)
    /\ ~ctl.closed
    /\ s \notin aborted
    /\ ctl' = [ctl EXCEPT !.totals.rejected = @ + 1]
    /\ Ends(s, "rejected")
    /\ UNCHANGED <<now, aborted, asked, log>>

HasRoom(c, k) ==
    c.partitions[k] = None =>
        Cardinality({j \in Keys : EvictIdlePartitions(c).partitions[j] # None}) < MaxPartitions

AcquireNoRoom(s, k) ==
    /\ Arriving(s)
    /\ ~ctl.closed
    /\ s \notin aborted
    /\ ~HasRoom(ctl, k)
    /\ ctl' = [EvictIdlePartitions(ctl) EXCEPT !.totals.rejected = @ + 1]
    /\ Ends(s, "rejected")
    /\ UNCHANGED <<now, aborted, asked, log>>

\* The partition's state found, or made in the name of s, and pruned.
Opened(c, s, k) ==
    LET d == IF c.partitions[k] # None THEN c
             ELSE [EvictIdlePartitions(c) EXCEPT !.partitions[k] = s, !.states[s] = NewState]
    IN  [d EXCEPT !.states[d.partitions[k]] = PruneBudget(@),
                  !.home[s] = d.partitions[k], !.key[s] = k]

StateOf(c, s) == c.states[c.home[s]]

Enters(s, k) == Arriving(s) /\ ~ctl.closed /\ s \notin aborted /\ HasRoom(ctl, k)

AcquireLimited(s, k) ==
    LET c == Opened(ctl, s, k) IN
    /\ Enters(s, k)
    /\ Exhausted(StateOf(c, s))
    /\ ctl' = [c EXCEPT !.totals.rateLimited = @ + 1]
    /\ Ends(s, "rateLimited")
    /\ UNCHANGED <<now, aborted, asked, log>>

AcquireAdmitted(s, k) ==
    LET c == Opened(ctl, s, k)
        d == Admit(c, c.home[s], {s})
    IN
    /\ Enters(s, k)
    /\ ~Exhausted(StateOf(c, s))
    /\ StateOf(c, s).active < Concurrency
    /\ ctl' = d
    /\ Record(d)
    /\ Ends(s, "running")
    /\ UNCHANGED <<now, aborted, asked>>

AcquireFull(s, k) ==
    LET c == Opened(ctl, s, k) IN
    /\ Enters(s, k)
    /\ ~Exhausted(StateOf(c, s))
    /\ StateOf(c, s).active >= Concurrency
    /\ Cardinality(StateOf(c, s).waiters) >= MaxQueueSize
    /\ ctl' = [c EXCEPT !.totals.rejected = @ + 1]
    /\ Ends(s, "rejected")
    /\ UNCHANGED <<now, aborted, asked, log>>

AcquireQueued(s, k) ==
    LET c == Opened(ctl, s, k) IN
    /\ Enters(s, k)
    /\ ~Exhausted(StateOf(c, s))
    /\ StateOf(c, s).active >= Concurrency
    /\ Cardinality(StateOf(c, s).waiters) < MaxQueueSize
    /\ ctl' = [c EXCEPT !.states[c.home[s]].waiters = @ \cup {s},
                        !.queuedAt[s] = now,
                        !.place[s] = c.totals.queued,
                        !.totals.queued = @ + 1]
    /\ Ends(s, "waiting")
    /\ UNCHANGED <<now, aborted, asked, log>>

-----------------------------------------------------------------------------
(* What a queued caller's race can hear, and what a running one may do. *)

HearRefusal(s) ==
    /\ pc[s] = "waiting"
    /\ ctl.outcome[s] \in {"rejected", "rateLimited", "closed"}
    /\ Ends(s, ctl.outcome[s])
    /\ UNCHANGED <<now, ctl, aborted, asked, log>>

\* A permit, rechecked against a shutdown in the gap before it was heard.
Received(s) ==
    /\ pc[s] = "waiting"
    /\ ctl.outcome[s] = "permit"
    /\ \/ /\ ~ctl.closed
          /\ Ends(s, "running")
          /\ UNCHANGED ctl
       \/ /\ ctl.closed
          /\ Ends(s, "closed")
          /\ ctl' = ReleasePermit(ctl, s)
    /\ UNCHANGED <<now, aborted, asked, log>>

\* giveUp() on the queue timer. A waiter that is queued no more waits for the
\* outcome recorded for it.
TimesOut(s) ==
    /\ pc[s] = "waiting"
    /\ Queued(s)
    /\ now >= ctl.queuedAt[s] + QueueTimeout
    /\ ctl' = [Withdrawn(ctl, s) EXCEPT !.totals.rejected = @ + 1]
    /\ Ends(s, "rejected")
    /\ UNCHANGED <<now, aborted, asked, log>>

\* giveUp() on the caller's signal.
AbortHeard(s) ==
    /\ pc[s] = "waiting"
    /\ Queued(s)
    /\ s \in aborted
    /\ ctl' = [Withdrawn(ctl, s) EXCEPT !.totals.cancelled = @ + 1]
    /\ Ends(s, "cancelled")
    /\ UNCHANGED <<now, aborted, asked, log>>

\* cleanupWaiter(): a waiter that was handed a permit gives it back.
Interrupt(s) ==
    LET c == IF Queued(s) THEN [Withdrawn(ctl, s) EXCEPT !.totals.cancelled = @ + 1]
             ELSE ReleasePermit(ctl, s)
    IN
    /\ pc[s] = "waiting"
    /\ ctl' = c
    /\ Record(c)
    /\ Ends(s, "interrupted")
    /\ UNCHANGED <<now, aborted, asked>>

Release(s) ==
    LET c == ReleasePermit(ctl, s) IN
    /\ pc[s] = "running"
    /\ ctl' = c
    /\ Record(c)
    /\ Ends(s, "released")
    /\ UNCHANGED <<now, aborted, asked>>

\* chargeCallBudget(): a further request of a call that is already admitted.
\* A refusal is the call's to handle; it keeps its permit.
ChargeBudget(s) ==
    LET o == ctl.home[s]
        k == ctl.key[s]
        st == PruneBudget(ctl.states[o])
        c == [ctl EXCEPT !.states[o] = st]
        x == ChargeOf(s, asked + 1)
    IN
    /\ pc[s] = "running"
    /\ asked < MaxCharges
    /\ ~ctl.closed
    /\ asked' = asked + 1
    /\ \/ /\ s \in aborted
          /\ ctl' = [ctl EXCEPT !.totals.cancelled = @ + 1]
          /\ UNCHANGED log
       \/ /\ s \notin aborted /\ Exhausted(st)
          /\ ctl' = [c EXCEPT !.totals.rateLimited = @ + 1]
          /\ UNCHANGED log
       \/ /\ s \notin aborted /\ ~Exhausted(st)
          /\ ctl' = [c EXCEPT !.states[o].admittedAt = @ \cup {x}, !.totals.admitted = @ + 1]
          /\ log' = [log EXCEPT ![k] = @ \cup {x}]
    /\ UNCHANGED <<now, pc, aborted>>

Abort(s) ==
    /\ s \notin aborted
    /\ pc[s] \in {"idle", "waiting", "running"}
    /\ aborted' = aborted \cup {s}
    /\ UNCHANGED <<now, ctl, pc, asked, log>>

\* Fault: the queues are emptied and nobody is told.
CloseSilent ==
    /\ ~ctl.closed
    /\ ctl' = [ctl EXCEPT !.closed = TRUE,
                          !.states = [o \in Calls |-> [@[o] EXCEPT !.waiters = {}]]]
    /\ UNCHANGED <<now, pc, aborted, asked, log>>

Close ==
    /\ ~ctl.closed
    /\ ctl' = [ctl EXCEPT !.closed = TRUE,
                          !.states = [o \in Calls |->
                              IF \E k \in Keys : ctl.partitions[k] = o
                              THEN [@[o] EXCEPT !.waiters = {}] ELSE @[o]],
                          !.outcome = [s \in Calls |->
                              IF \E k \in Keys : ctl.partitions[k] # None
                                                 /\ s \in ctl.states[ctl.partitions[k]].waiters
                              THEN "closed" ELSE @[s]]]
    /\ UNCHANGED <<now, pc, aborted, asked, log>>

\* The registry asks before it evicts a principal.
IsIdle ==
    /\ ctl' = EvictIdlePartitions(ctl)
    /\ UNCHANGED <<now, pc, aborted, asked, log>>

Tick ==
    /\ now < LastArrival + QueueTimeout + Window
    /\ now' = now + 1
    /\ UNCHANGED <<ctl, pc, aborted, asked, log>>

Next ==
    \/ \E s \in Calls :
        \/ AcquireClosed(s) \/ AcquireCancelled(s) \/ AcquireInvalid(s)
        \/ \E k \in Keys :
            \/ AcquireNoRoom(s, k) \/ AcquireLimited(s, k) \/ AcquireAdmitted(s, k)
            \/ AcquireFull(s, k) \/ AcquireQueued(s, k)
        \/ HearRefusal(s) \/ Received(s) \/ TimesOut(s) \/ AbortHeard(s) \/ Interrupt(s)
        \/ Release(s) \/ ChargeBudget(s) \/ Abort(s)
    \/ Close \/ IsIdle \/ Tick

Spec == Init /\ [][Next]_vars

-----------------------------------------------------------------------------
(* Properties. *)

HeldIn(k) == {s \in ctl.held : ctl.key[s] = k}

\* No window of windowMs holds more than maxCalls admissions of one key,
\* charges made by running calls included, whenever the key's partition was
\* pruned, evicted and made again in between.
RollingBudget ==
    \A k \in Keys : \A x \in log[k] :
        Cardinality({y \in log[k] : y.at <= x.at /\ x.at < y.at + Window}) <= MaxCalls

\* Nobody queues beside a free slot, nor in a partition the map has lost, where
\* close() would not find them.
NoIdleSlot ==
    \A o \in Calls :
        /\ ctl.states[o].waiters # {} =>
              /\ ~ctl.closed /\ ctl.states[o].active >= Concurrency
              /\ \E k \in Keys : ctl.partitions[k] = o
        /\ Cardinality(ctl.states[o].waiters) <= MaxQueueSize

\* Every permit has someone left to release it: its caller, or the waiter that
\* has yet to hear of it. Each state object's `active` is the permits it gave,
\* also once the map has lost the object.
PermitOwned ==
    /\ \A s \in ctl.held :
          pc[s] = "running" \/ (pc[s] = "waiting" /\ ctl.outcome[s] = "permit")
    /\ \A o \in Calls : ctl.states[o].active = Cardinality({s \in ctl.held : ctl.home[s] = o})

\* No waiting call is forgotten: it is in the queue of its own state object, where
\* its timer and its signal find it, or an outcome is recorded for it to hear, and
\* never both. Whoever holds the slots for ever, its own timer can answer it.
WaiterReachable ==
    \A s \in Calls : pc[s] = "waiting" => (Queued(s) <=> ctl.outcome[s] = "none")

\* "A principal registry may be evicted only after calls and budgets drain":
\* when isIdle() answers yes, no call runs or waits, and no admission still
\* counts against a window.
IdleMeansDrained ==
    (\A k \in Keys : EvictIdlePartitions(ctl).partitions[k] = None) =>
        /\ ctl.held = {}
        /\ \A s \in Calls : ~Queued(s)
        /\ \A k \in Keys : Recent(log[k]) = {}

\* No call starts once the controller is closed, though its permit may have been
\* recorded before close() and heard after it.
NothingStartsAfterClose ==
    [][\A s \in Calls : pc[s] # "running" /\ pc'[s] = "running" => ~ctl.closed]_vars

Pool(k) == INSTANCE AdmissionPool WITH
    Requests <- Calls,
    Capacity <- Concurrency,
    holders <- HeldIn(k),
    past <- {s \in Calls : ctl.key[s] = k /\ (\E x \in log[k] : x.call = s)} \ ctl.held,
    open <- ~ctl.closed

\* The controller is a pool of maxConcurrency slots for each key, counted over
\* every state object the key's calls refer to (a partition forgotten too early
\* and made again would count from zero): it admits a call only while it is open
\* and a slot of the key is free, and never twice.
PoolPerKey ==
    /\ \A k \in Keys : Pool(k)!Init
    /\ [][\A k \in Keys : Pool(k)!Next \/ UNCHANGED Pool(k)!vars]_vars
=============================================================================
