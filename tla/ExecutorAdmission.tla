-------------------------- MODULE ExecutorAdmission --------------------------
(***************************************************************************)
(* Bounded admission, src/src/executor-admission.ts: AdmissionController.  *)
(* The same class admits code executions, HTTP requests and QuickJS runs.  *)
(*                                                                         *)
(* The controller's bookkeeping is one record, ctl, so that the methods    *)
(* that call one another (release -> releaseSlot -> fillSlots -> prune)    *)
(* compose as operators, and each entry point is one atomic action: the    *)
(* code runs on one JavaScript thread and these methods never await.       *)
(*                                                                         *)
(* The gap that does exist is modelled: a grant is recorded in the         *)
(* waiter's Settlement by whoever freed the slot and heard by the waiter a *)
(* turn later (src/src/runtime/settlement.ts).                             *)
(***************************************************************************)
EXTENDS Naturals, FiniteSets

CONSTANTS
    Requests,       \* acquire() calls; each makes at most one lease
    Concurrency,
    MaxQueueSize,
    QueueTimeout,   \* queueTimeoutMs
    MaxDuration,    \* maxDurationMs, 0 when the option is omitted
    ReapFallback,   \* nextReapDelay() when no lease can expire, 250 ms
    LastArrival     \* bound: no acquire() after this instant

ASSUME RequestsFinite == IsFiniteSet(Requests)
ASSUME ConcurrencyPositive == Concurrency \in Nat \ {0}
ASSUME MaxQueueSizeNatural == MaxQueueSize \in Nat
ASSUME QueueTimeoutPositive == QueueTimeout \in Nat \ {0}
ASSUME MaxDurationNatural == MaxDuration \in Nat
ASSUME ReapFallbackPositive == ReapFallback \in Nat \ {0}
ASSUME LastArrivalNatural == LastArrival \in Nat

VARIABLES
    now,        \* Date.now()
    ctl,        \* the AdmissionController's fields
    pc,         \* how far each caller has come
    reapAt      \* when each waiter's reaper wakes, 0 while it is awake or none runs

vars == <<now, ctl, pc, reapAt>>

Outcome == {"none", "granted", "overloaded", "closed"}
Phase == {"idle", "waiting", "holding", "released",
          "overloaded", "cancelled", "closed", "interrupted"}

Totals == [admitted : Nat, queued : Nat, rejected : Nat, cancelled : Nat, closed : Nat]

\* The array of waiters is the set of them; a waiter's place in the array is
\* the value queuedTotal had when it was pushed.
Controller ==
    [active    : Nat,
     leases    : SUBSET Requests,
     expiresAt : [Requests -> Nat],
     closed    : BOOLEAN,
     waiters   : SUBSET Requests,
     queuedAt  : [Requests -> Nat],
     place     : [Requests -> Nat],
     outcome   : [Requests -> Outcome],
     totals    : Totals]

\* The shape of every variable.
TypeOK ==
    /\ now \in Nat
    /\ ctl \in Controller
    /\ pc \in [Requests -> Phase]
    /\ reapAt \in [Requests -> Nat]

-----------------------------------------------------------------------------
(* The controller's private methods. *)

ExpiredWaiters(c) == {w \in c.waiters : now >= c.queuedAt[w] + QueueTimeout}

PruneExpiredWaiters(c) ==
    LET gone == ExpiredWaiters(c)
    IN  [c EXCEPT !.waiters = @ \ gone,
                  !.outcome = [r \in Requests |-> IF r \in gone THEN "overloaded" ELSE @[r]],
                  !.totals.rejected = @ + Cardinality(gone)]

\* Fault: the queue is served newest first.
AheadNewest(c, w) == {v \in c.waiters : c.place[v] > c.place[w]}

Ahead(c, w) == {v \in c.waiters : c.place[v] < c.place[w]}

\* The waiters that the loop shifts off the front while a slot is free.
Served(c) == {w \in c.waiters : c.active + Cardinality(Ahead(c, w)) < Concurrency}

MakeLeases(c, granted) ==
    [c EXCEPT !.active = @ + Cardinality(granted),
              !.leases = @ \cup granted,
              !.expiresAt = [r \in Requests |-> IF r \in granted THEN now + MaxDuration ELSE @[r]]]

GrantTo(c, granted) ==
    [MakeLeases(c, granted) EXCEPT
              !.waiters = @ \ granted,
              !.outcome = [r \in Requests |-> IF r \in granted THEN "granted" ELSE @[r]],
              !.totals.admitted = @ + Cardinality(granted)]

\* Fault: expired waiters are dropped and nobody takes the slot.
FillSlotsNobody(c) == PruneExpiredWaiters(c)

FillSlots(c) ==
    LET live == PruneExpiredWaiters(c)
    IN  GrantTo(live, Served(live))

ReleaseSlot(c) ==
    LET freed == [c EXCEPT !.active = IF @ > 0 THEN @ - 1 ELSE @]
    IN  IF c.closed THEN freed ELSE FillSlots(freed)

\* AdmissionLease.release: only the first release, and none after the lease
\* has been reaped, gives a slot back.
ReleaseLease(c, r) ==
    IF r \in c.leases THEN ReleaseSlot([c EXCEPT !.leases = @ \ {r}]) ELSE c

ExpiredLeases(c) == {r \in c.leases : c.expiresAt[r] <= now}

DropLeases(c, gone) ==
    [c EXCEPT !.leases = @ \ gone, !.active = @ - Cardinality(gone)]

ReapExpired(c) ==
    LET pruned == PruneExpiredWaiters(c)
        reaped == DropLeases(pruned, ExpiredLeases(pruned))
    IN  CASE MaxDuration = 0 -> pruned
          [] MaxDuration > 0 /\ c.closed -> reaped
          [] MaxDuration > 0 /\ ~c.closed -> FillSlots(reaped)

Remove(c, r) == [c EXCEPT !.waiters = @ \ {r}]

\* Fault: an interrupted waiter leaves the slot it was handed behind.
CleanupStrands(c, r) ==
    IF r \in c.waiters THEN [Remove(c, r) EXCEPT !.totals.cancelled = @ + 1] ELSE c

\* The waiting fiber was interrupted, by its scope and not by its signal.
Cleanup(c, r) ==
    IF r \in c.waiters THEN [Remove(c, r) EXCEPT !.totals.cancelled = @ + 1]
    ELSE IF c.outcome[r] = "granted" THEN ReleaseLease(c, r)
    ELSE c

-----------------------------------------------------------------------------
Init ==
    /\ now = 0
    /\ ctl = [active |-> 0, leases |-> {}, expiresAt |-> [r \in Requests |-> 0],
              closed |-> FALSE,
              waiters |-> {}, queuedAt |-> [r \in Requests |-> 0],
              place |-> [r \in Requests |-> 0],
              outcome |-> [r \in Requests |-> "none"],
              totals |-> [admitted |-> 0, queued |-> 0, rejected |-> 0,
                          cancelled |-> 0, closed |-> 0]]
    /\ pc = [r \in Requests |-> "idle"]
    /\ reapAt = [r \in Requests |-> 0]

(* acquire(): each outcome of the admission program is an action. All of   *)
(* them reap first.                                                        *)
Arriving(r) == pc[r] = "idle" /\ now <= LastArrival

AcquireClosed(r) ==
    /\ Arriving(r)
    /\ ctl.closed
    /\ ctl' = [ReapExpired(ctl) EXCEPT !.totals.closed = @ + 1]
    /\ pc' = [pc EXCEPT ![r] = "closed"]
    /\ UNCHANGED <<now, reapAt>>

\* The caller's signal is already aborted.
AcquireAborted(r) ==
    /\ Arriving(r)
    /\ ~ctl.closed
    /\ ctl' = [ReapExpired(ctl) EXCEPT !.totals.cancelled = @ + 1]
    /\ pc' = [pc EXCEPT ![r] = "cancelled"]
    /\ UNCHANGED <<now, reapAt>>

\* Fault: a free slot is taken without a look at the shutdown flag.
AcquireNowUnchecked(r) ==
    LET c == ReapExpired(ctl) IN
    /\ Arriving(r)
    /\ c.active < Concurrency
    /\ ctl' = GrantTo(c, {r})
    /\ pc' = [pc EXCEPT ![r] = "holding"]
    /\ UNCHANGED <<now, reapAt>>

AcquireNow(r) ==
    LET c == ReapExpired(ctl) IN
    /\ Arriving(r)
    /\ ~c.closed
    /\ c.active < Concurrency
    /\ ctl' = GrantTo(c, {r})
    /\ pc' = [pc EXCEPT ![r] = "holding"]
    /\ UNCHANGED <<now, reapAt>>

\* The nested call that may not wait, and the queue that is full.
AcquireRefused(r, wait) ==
    LET c == ReapExpired(ctl) IN
    /\ Arriving(r)
    /\ ~c.closed
    /\ c.active >= Concurrency
    /\ wait => Cardinality(c.waiters) >= MaxQueueSize
    /\ ctl' = [c EXCEPT !.totals.rejected = @ + 1]
    /\ pc' = [pc EXCEPT ![r] = "overloaded"]
    /\ UNCHANGED <<now, reapAt>>

AcquireQueued(r) ==
    LET c == ReapExpired(ctl) IN
    /\ Arriving(r)
    /\ ~c.closed
    /\ c.active >= Concurrency
    /\ Cardinality(c.waiters) < MaxQueueSize
    /\ ctl' = [c EXCEPT !.waiters = @ \cup {r},
                        !.queuedAt[r] = now,
                        !.place[r] = c.totals.queued,
                        !.totals.queued = @ + 1]
    /\ pc' = [pc EXCEPT ![r] = "waiting"]
    /\ UNCHANGED <<now, reapAt>>

(* What a queued caller's race can hear. *)

\* The first contender to finish interrupts the others, the reaper with them.
RaceEnds(r) == reapAt' = [reapAt EXCEPT ![r] = 0]

\* Fault: the outcome another request recorded is never delivered.
HearLost(r) == FALSE /\ UNCHANGED vars

Hear(r) ==
    /\ pc[r] = "waiting"
    /\ ctl.outcome[r] \in {"overloaded", "closed"}
    /\ pc' = [pc EXCEPT ![r] = ctl.outcome[r]]
    /\ RaceEnds(r)
    /\ UNCHANGED <<now, ctl>>

\* Fault: a grant is taken as heard, whatever happened since.
ReceivedUnchecked(r) ==
    /\ pc[r] = "waiting"
    /\ ctl.outcome[r] = "granted"
    /\ pc' = [pc EXCEPT ![r] = "holding"]
    /\ RaceEnds(r)
    /\ UNCHANGED <<now, ctl>>

\* A grant, rechecked against a shutdown in the gap before it was heard.
Received(r) ==
    /\ pc[r] = "waiting"
    /\ ctl.outcome[r] = "granted"
    /\ \/ /\ ~ctl.closed
          /\ pc' = [pc EXCEPT ![r] = "holding"]
          /\ UNCHANGED ctl
       \/ /\ ctl.closed
          /\ pc' = [pc EXCEPT ![r] = "closed"]
          /\ ctl' = [ReleaseLease(ctl, r) EXCEPT !.totals.closed = @ + 1]
    /\ RaceEnds(r)
    /\ UNCHANGED now

\* The waiter's own timer; when it finds the waiter already out of the queue
\* the recorded outcome is the answer (Hear, Received).
TimesOut(r) ==
    /\ pc[r] = "waiting"
    /\ r \in ctl.waiters
    /\ now >= ctl.queuedAt[r] + QueueTimeout
    /\ ctl' = [Remove(ctl, r) EXCEPT !.totals.rejected = @ + 1]
    /\ pc' = [pc EXCEPT ![r] = "overloaded"]
    /\ RaceEnds(r)
    /\ UNCHANGED now

\* The caller's signal aborts while it queues, and that is heard in time. Heard
\* after the waiter left the queue it changes nothing.
AbortHeard(r) ==
    /\ pc[r] = "waiting"
    /\ r \in ctl.waiters
    /\ ctl' = [Remove(ctl, r) EXCEPT !.totals.cancelled = @ + 1]
    /\ pc' = [pc EXCEPT ![r] = "cancelled"]
    /\ RaceEnds(r)
    /\ UNCHANGED now

\* nextReapDelay(), as the instant it ends at: when the earliest lease expires,
\* and never less than one clock unit away.
NextReap ==
    IF ctl.leases = {} THEN now + ReapFallback
    ELSE LET first == CHOOSE l \in ctl.leases :
                          \A m \in ctl.leases : ctl.expiresAt[l] <= ctl.expiresAt[m]
         IN  IF ctl.expiresAt[first] > now THEN ctl.expiresAt[first] ELSE now + 1

\* Fault: the delay is measured over the leases still to expire, and a reaper
\* that finds none does not sleep but ends.
ReaperSleepsAhead(r) ==
    /\ MaxDuration > 0
    /\ pc[r] = "waiting"
    /\ reapAt[r] = 0
    /\ ctl.leases \ ExpiredLeases(ctl) # {}
    /\ reapAt' = [reapAt EXCEPT ![r] = NextReap]
    /\ UNCHANGED <<now, ctl, pc>>

\* The reaper that a queued request runs while leases may expire. It measures
\* its sleep, sleeps and reaps, over and over; between a reap and the next
\* measurement other fibers may run.
ReaperSleeps(r) ==
    /\ MaxDuration > 0
    /\ pc[r] = "waiting"
    /\ reapAt[r] = 0
    /\ reapAt' = [reapAt EXCEPT ![r] = NextReap]
    /\ UNCHANGED <<now, ctl, pc>>

ReaperFires(r) ==
    /\ MaxDuration > 0
    /\ pc[r] = "waiting"
    /\ reapAt[r] # 0
    /\ now >= reapAt[r]
    /\ ctl' = ReapExpired(ctl)
    /\ reapAt' = [reapAt EXCEPT ![r] = 0]
    /\ UNCHANGED <<now, pc>>

Interrupt(r) ==
    /\ pc[r] = "waiting"
    /\ ctl' = Cleanup(ctl, r)
    /\ pc' = [pc EXCEPT ![r] = "interrupted"]
    /\ RaceEnds(r)
    /\ UNCHANGED now

Release(r) ==
    /\ pc[r] = "holding"
    /\ ctl' = ReleaseLease(ctl, r)
    /\ pc' = [pc EXCEPT ![r] = "released"]
    /\ UNCHANGED <<now, reapAt>>

Close ==
    /\ ~ctl.closed
    /\ ctl' = [ctl EXCEPT !.closed = TRUE,
                          !.waiters = {},
                          !.outcome = [r \in Requests |->
                                          IF r \in ctl.waiters THEN "closed" ELSE @[r]],
                          !.totals.closed = @ + Cardinality(ctl.waiters)]
    /\ UNCHANGED <<now, pc, reapAt>>

\* snapshot() reaps before it reports.
Snapshot ==
    /\ ctl' = ReapExpired(ctl)
    /\ UNCHANGED <<now, pc, reapAt>>

\* Time runs until every wait begun by LastArrival is over, and for as long as a
\* reaper sleeps while a lease is out.
Tick ==
    /\ \/ now < LastArrival + QueueTimeout
       \/ ctl.leases # {} /\ \E w \in Requests : reapAt[w] > now
    /\ now' = now + 1
    /\ UNCHANGED <<ctl, pc, reapAt>>

Next ==
    \/ \E r \in Requests :
        \/ AcquireClosed(r)
        \/ AcquireAborted(r)
        \/ AcquireNow(r)
        \/ \E wait \in BOOLEAN : AcquireRefused(r, wait)
        \/ AcquireQueued(r)
        \/ Hear(r)
        \/ Received(r)
        \/ TimesOut(r)
        \/ AbortHeard(r)
        \/ ReaperSleeps(r)
        \/ ReaperFires(r)
        \/ Interrupt(r)
        \/ Release(r)
    \/ Close
    \/ Snapshot
    \/ Tick

Spec == Init /\ [][Next]_vars

\* Time passes, timers fire and recorded outcomes are delivered. Nobody owes a
\* release, an abort, an interruption, a shutdown or a snapshot.
Fairness ==
    /\ WF_vars(Tick)
    /\ \A r \in Requests :
        /\ WF_vars(Hear(r))
        /\ WF_vars(Received(r))
        /\ WF_vars(TimesOut(r))

-----------------------------------------------------------------------------
(* Properties. *)

Requesting(phases) == {r \in Requests : pc[r] \in phases}

\* The counter `active` is the number of leases in the map and never exceeds
\* `concurrency`, although a slot is given back by release(), by the reaper,
\* by an interrupted waiter and by a shutdown noticed late, any two of which
\* may meet on one lease.
SlotsExact ==
    /\ ctl.active = Cardinality(ctl.leases)
    /\ ctl.active <= Concurrency

\* Nobody queues beside a free slot: whatever frees one refills it in the same
\* step, so a newcomer cannot barge past the queue and no wake-up is lost. A
\* closed controller has no queue, and the queue keeps its bound.
NoIdleSlot ==
    /\ ctl.waiters # {} => ~ctl.closed /\ ctl.active = Concurrency
    /\ Cardinality(ctl.waiters) <= MaxQueueSize

\* Every lease has someone left to release it: the caller that holds it, or
\* the waiter that has yet to hear of it. A waiter that left (timeout, abort,
\* interruption, shutdown) never strands the slot it was handed.
LeaseOwned ==
    \A r \in ctl.leases :
        \/ pc[r] = "holding"
        \/ pc[r] = "waiting" /\ ctl.outcome[r] = "granted"

\* Grants follow the queue: a request granted a slot in a step, queued or
\* newly arrived, overtakes no waiter that stays queued.
ServedInOrder ==
    [][\A r \in ctl'.leases \ ctl.leases, w \in ctl.waiters \cap ctl'.waiters :
          r \in ctl.waiters /\ ctl.place[r] < ctl.place[w]]_vars

\* "nothing granted before close() starts after it": no caller comes to hold
\* a lease once the controller is closed, though the grant may be recorded
\* before close() and heard after it.
NothingStartsAfterClose ==
    [][\A r \in Requests :
          pc[r] # "holding" /\ pc'[r] = "holding" => ~ctl.closed]_vars

Pool == INSTANCE AdmissionPool WITH
    Capacity <- Concurrency,
    holders <- ctl.leases,
    past <- {r \in Requests : ctl.outcome[r] = "granted"} \ ctl.leases,
    open <- ~ctl.closed

\* The controller implements a pool of `concurrency` slots: whatever path frees or
\* grants one, no request is admitted twice, over capacity or after close().
PoolSpec == Pool!Spec

\* Every queued acquire() is answered, whoever holds the slots: the waiter's
\* own timer ends the wait when nothing else does. This needs what the runtime
\* gives: time passes, timers fire, a recorded outcome is delivered. A request
\* acquires once, so a wait that never ended would leave somebody waiting for ever.
WaiterAnswered == Fairness => []<>(Requesting({"waiting"}) = {})

\* A queued request's reaper wakes in time: no lease in the map expires while
\* it sleeps on, whatever leases were released, reaped and granted since the
\* sleep was measured. Only a reap that comes late, by the least sleep, can
\* find a lease that was overdue already.
ReaperInTime ==
    \A w \in ctl.waiters, l \in ctl.leases :
        MaxDuration > 0 => reapAt[w] <= ctl.expiresAt[l] \/ reapAt[w] <= now + 1

\* The fiber of one queued request's reaper.
Reaper(r) == ReaperSleeps(r) \/ ReaperFires(r)

\* A lease past its lifetime is taken back while somebody waits, even if its
\* holder never releases: the waiting requests' reapers sleep, wake and sleep
\* again until no lease is overdue or nobody's race still runs. Time passes and
\* those fibers run; no queue timer fires and no outcome is delivered for sure.
\* A request makes one lease and waits once, so a lease that stayed overdue
\* beside a waiter would do so for ever.
OverdueReclaimed ==
    WF_vars(Tick) /\ (\A r \in Requests : WF_vars(Reaper(r))) =>
        []<>(MaxDuration = 0 \/ ExpiredLeases(ctl) = {} \/ Requesting({"waiting"}) = {})
=============================================================================
