# Connecta: a TLA+ development

Connecta is an MCP server that puts many downstream connectors (remote MCP servers, HTTP APIs)
behind a handful of meta tools. It runs on Node and on Cloudflare Workers. On Workers a deployment is
many short-lived isolates that share nothing but a key-value store with `compareAndSet`. Inside an
isolate one JavaScript thread serves many requests, and what one request settles another one hears in
a later turn. Both facts shape this development: the modules below are about who owns a slot, a permit,
a refresh token, a session or a child process while requests, isolates, timers, operators and servers interleave, and about
what may be said of a write once its answer was lost.

Paths are relative to `src/src/` of the repository.

## Inventory

| Component | State | Operations | Talks to | Hard behaviour | Correct when |
|---|---|---|---|---|---|
| **Executor, request and code admission** `executor-admission.ts` (`AdmissionController`) | slots, leases with a lifetime, bounded queue, totals | acquire, release, reap, prune, snapshot, close | settlements; used by `execute.ts`, the QuickJS executor and the HTTP server | a grant is recorded by one request and heard by another; release, reaper, interruption and shutdown meet on one lease | slots exact, nobody queued beside a free slot, no slot leaked, nothing starts after close, every waiter answered |
| **Connector call admission** `call-admission.ts` | per partition: active, waiters, rolling budget; totals | acquire, release, chargeCallBudget, pump, evict, isIdle, close | invocation path, registry eviction | partitions are forgotten and made again while calls refer to the old object; the budget is rechecked when a queued call is finally granted | concurrency and budget hold per key across evictions; idle means drained |
| **OAuth refresh** `auth/downstream-oauth/refresh-{records,coordinator}.ts` | lease per epoch and token, spent record per token, liveness key per holder, the grant | refresh, claim, dispatch, store, release, discard, sweep | store, authorization server, consent, reset | crash between any two writes, lost answers, lost CAS answers, clock skew, reset and re-consent in flight | a token the server may have consumed is never sent again; a reset fences late answers; racing isolates lose no grant; nobody polls for ever |
| **OAuth grant store and consent** `auth/downstream-oauth/{grant-store,consent,sdk-hooks}.ts` | GRANT record (epoch, tokens, client, discovery, receipt), consent flow records | bind, save, invalidate, reset, start, claim callback, exchange, sweep | refresh, routes, store | two consents, a reset during an exchange, a callback delivered twice | a callback is spent once; a superseded flow writes nothing |
| Settlement and Effect edge `runtime/settlement.ts`, `runtime/run.ts` | one recorded outcome, its waiters | settle, wait, fromSignal | both admissions, flights | outcome recorded before or after the wait begins, abort without replay | settled once, heard in the waiter's own request |
| **Request reads** `runtime/request-reads.ts`; shared reads `runtime/shared-read.ts` | readers of one read; per-request memo with versions | join, leave, end, record, notice | store, catalog | a write overtakes a read in flight; the last reader leaves as the read ends | a memo never answers with what was read before a write of its isolate, nor goes back to an older value |
| Storage `storage/*` | records with expiry | get, set, compareAndSet, list, delete | everything durable | expiry against CAS, batched reads | CAS is atomic, expired is absent |
| Catalog `catalog-cache.ts`, `catalog-service.ts`, `discovery-health.ts` | generations, freshness, discovery backoff | read, refresh, invalidate | connectors, store | a refresh that ends after an invalidation | no retired generation is served as current |
| **Write outcome** `write-outcome.ts`, `provider-call.ts`, `connectors/api-connector.ts`, `connectors/guarded-fetch.ts` | a ledger of the requests each call sent, and how they were answered | open, dispatch, answer, renew, close, decide | invocation, connectors | failure between sending and answering; a refusal of one request of several; a 401 after the vendor may have acted | a write called failed is not applied, then or later |
| **Program writes** `program-writes.ts`, `execute.ts`, `invocation.ts` | writes gated, in flight and recorded; whether the program has settled | gate, begin, enter, cut off, record, close, drain, finish | write outcome, call admission | a write past the gate when the program ends; an answer before the writes are settled | an answer hides no effect and offers no retry after one |
| **QuickJS pool** `executors/quickjs{,-child,-protocol}.ts` | slots, child processes, the active run of a slot, crash backoff | acquire, release, execute, spawn, retire, terminate, close | executor admission, child processes over IPC, provider functions | a run may end in a dozen ways while its child goes on; messages, send errors and exits come late; `close()` over children on their way out | no run reaches into another's slot, no child reused while busy, no child lost, every run ends |
| Invocation and execution, the rest `invocation.ts`, `execute.ts`, `executors/worker.ts` | running calls and programs | call, retry, deadline | all of the above | answers after the end | every call settles once, permits come back |
| **Remote MCP connection** `connectors/remote-mcp/*` | per request scope: one lease, one attempt, one client, the version it is bound to | join, start, recheck, publish, abandon, reset, close | transports, OAuth epochs, credentials, store | close or reset while connecting, replacement of what a client is bound to, a cancelled caller | one attempt at a time, every session ended, no client of a past epoch or credential reused |
| Registry `registry.ts` | principals and their runtimes | resolve, evict | call admission's isIdle, refresh retention | eviction of a principal whose work is still running | evicted only when drained |
| Inbound authorization `access-tokens.ts`, `auth/static-oauth.ts`, ... | issued tokens, codes | issue, rotate, revoke, verify | routes, store | rotation raced by reuse | a revoked or rotated token is refused |
| Vault, redaction, activity, pages, vendor providers, configuration | mostly none | pure functions, I/O | | | |

`PROJECT.json` lists every component with its sources, its status and why it is left out if it is; it
also lists the hazards, each at the line where it bites, and the properties that would catch it.

## Plan

1. *Done.* `ExecutorAdmission` with the abstract `AdmissionPool`, proved; `OAuthRefresh`, its safety proved; `CallAdmission`,
   proved; `RequestReads`, proved; `ProgramWrites`, its safety proved; `RemoteConnection`, its safety proved;
   `QuickJsPool`, its safety proved.
2. The rest of downstream OAuth: the consent flow (start, claim of the callback, supersession, sweep)
   composed with the grant of `OAuthRefresh`, and the flights by which requests of one isolate join.
3. `SharedRead`, against an abstract read that every reader hears once; the in-memory and SQL stores
   against one register per key.
4. `CatalogCache` (generations and invalidation), access token rotation, the registry's eviction over `CallAdmission`.
5. The proofs of what 2 to 4 add.

## Modules

### ExecutorAdmission, AdmissionPool

`ExecutorAdmission` is `AdmissionController`. Its fields are one record, `ctl`, and its private methods
are operators from a controller to a controller, named as in the code, so that release → releaseSlot →
fillSlots → prune is a composition and every public entry point is one action: the code never awaits
inside them. The queue is a set with each waiter's place. `pc` is how far a caller has come, `now` the
clock; the callers' signals are the environment's, so `AcquireAborted` and `AbortHeard` may come at any moment. What is
not atomic is kept apart: `GrantTo` records an outcome, `Hear` and `Received` are the waiter's own later turn
(`runtime/settlement.ts`), and `TimesOut`, `AbortHeard`, `ReaperFires` and `Interrupt` may all come first.

The reaper each waiter runs is two steps, because the code measures a sleep and then sleeps it. `ReaperSleeps` sets
`reapAt` from the leases of that moment (`NextReap` is `nextReapDelay()`: the first expiry, at least one unit away, or
`ReapFallback` where no lease can expire), `ReaperFires` wakes at that instant and not before, reaps, and leaves the
next measurement to a later turn. Meanwhile leases are released, reaped and granted. Whatever ends the race ends the
reaper (`RaceEnds`). `MaxDuration = 0` is a controller without a lease lifetime, which runs no reaper.

`AdmissionPool` is the promise with no queue, clock or signal: at most `Capacity` holders, each request
holds a slot at most once, none is handed out once the pool is shut. `ExecutorAdmission` implements it
(`PoolSpec`); so does each key of `CallAdmission` (`PoolPerKey`).

### CallAdmission

`ConnectorCallAdmissionController`. A partition state is an object that calls keep a reference to while the
map may forget it and make another for the same key, so the model names an object after the call that
made it: `partitions` maps a key to the object current for it, `home` a call to the object it uses.
`Pump` does the loop of `pump()` in one step, as the code does, by saying which waiters the loop
reaches, and which of them are late, refused by the budget or granted. `admittedAt` is a set of charges;
`log` keeps every charge ever made, so `RollingBudget` does not rely on what the controller remembers,
and `asked` bounds the budget charges. Without a budget `Window` is 0.

That a queued call is answered is stated as `WaiterReachable`: it is in the queue of its own state object, where its
timer and its signal look for it, or an outcome is recorded for it, and never both. With timers that fire this is
what the wait needs to end; the temporal statement itself is checked for the executor, whose queue is the same
construction. The liveness graph of three calls without symmetry is out of TLC's reach here, and with two calls the
pump never passes over anybody.

### OAuthRefresh

One redemption (`redeem`) is a redeemer that claims under a holder of its own. Every storage operation is
a step; a read-then-CAS loop is one step, at the CAS that succeeds. The poll of `claimRefresh` reads lease, grant
and spent record in three steps because a store may read the batch one key at a time. `mem` is what the
generator holds in memory, `todo` what is left of its cleanup, `verdict` what the cleanup will write.

| Record | In the model | In storage |
|---|---|---|
| `grant` | epoch, tokens (refresh token and the number of the response that brought them), receipt | `GRANT` |
| `lease[epoch][token]` | holder, state, digest, predecessor; `completed` and a verdict are states | `oauthRefreshKeys.lease` |
| `spent[token]` | epoch, holder, outstanding / ambiguous / resolved | `oauthRefreshSpentKeys.spent` |
| `active` | holders whose liveness key is stored | `oauthRefreshActiveKeys.holder`, 120 s |
| `lapsed` | holders whose claim's `expiresAt` has passed | the lease's `expiresAt` |

`Faults` says what may go wrong in an instance: `crash` (an isolate is gone, a deadline interrupts
without cleanup, or a failed read or a lost claim answer ends the flow, which leave the same storage
behind), `lost` (no answer), `refuse`, `expire` (a liveness key outlived by its holder), `storage` (a write fails,
applied or not), `reset`, `skew` (clocks disagree about a claim), `reissue` (the server hands out a token it
handed out before). A flow that is bound to an epoch ends when the epoch is over; one that is not reads it
again when it dispatches, so `sendEpoch` may differ from `epoch`. A disconnected epoch is one in which
no consent is answered.

History: `responses` (an access token is its place here), `unanswered` (tokens in a request without an
answer) and `unstored` (tokens not stored in the grant since they were last sent or answered).

### RequestReads

The memos of `runtime/request-reads.ts`, one for each request of an isolate, over one store. A value is the
number of writes applied to its key. `values`, `versions` and `started` are the maps of `StoreEntries`; `status`
says whether the memo is registered for notices. A read closes over the version and the turn it found
(`StartRead`), is answered by the store (`Answer`) and returns (`Return`, which does `record`); a write of the isolate
gives a notice, is applied, and gives another (`BeginWrite`, `Apply`, `SettleWrite`). `memoryStorage()` does all of it
in one turn with one notice. A hit changes nothing and has no step.

`Linkable` are the keys a linked prefetch locates through the generation it reads. `Faults` may hold `external`
(another isolate writes) and `abandon` (the fiber of a write is interrupted; its promise is not cancelled and may
still be applied). History: `settled` and `recorded`.

The head of `request-reads.ts` promises more than the code keeps. `NeverHidden` states its first promise in its words, and
of the three ways in which the model departs from what the head says, the first has a run:

- a located key is looked up after the snapshot returned, so a notice during the snapshot is missed;
- an interrupted write gives its last notice before it is applied (`AbandonWrite`, `ApplyLate`), so a value read between
  the two hides it; `settled` does not count such a write;
- a plain read that overtakes a fresh one alone may record, and what it saw may be older than what the fresh one returned.

`NoHiddenWrite` and `NeverGoesBack` are what it does keep, for keys that are not located, in the presence of the other two.

### RemoteConnection

The `ConnectionState` of one request scope. An attempt makes one lease, one client and one transport, so the four are one
number; `conn.att` says how far each attempt is, what it is bound to, whether its lease is open and whether the server
has issued it a session. Stored credentials and OAuth epochs are version numbers (`live`), and `cut` holds the epochs
that began with an operator's disconnect. A step ends where the code awaits: between `Arrive` and `Proceed` a call reads
the epoch (`ReadLive`, `EpochSeen`) or the credential and its digest (`DigestSeen`, `Reread`); an attempt goes through
`BeginFlow`, `Prepare`, `HandshakeDone`, `Recheck`, `Checked` and `Stored`. `Fail`, `Leave`, `CloseHalf` and `Reset` are
what the code does under those names or in its `catch`: operators on the state, since each runs in one turn.
`SessionIssued` is the server's: the transport holds a session before the handshake is over, so a lease may be closed
before there is anything to end.

Left as the code has them: an attempt whose verdict does not pass the inspection before it is stored
(`assertDownstreamOutputSafe` or the redaction, `connectors/negotiation-cache.ts:55-56`) fails with its client still cached,
which is the exception in `CachedUsable`, while a failure of the store itself is caught and logged there and fails nothing
(`Stored` lets the inspection throw at any time); a call that joins an OAuth attempt in flight has that attempt's recheck only (the exception in
`NotStale`); a second handshake after a contradicted verdict drops the first one's session without a `DELETE`
(`dropped`). `SiblingsKept` does not hold, see *Disagreements*.

### ProgramWrites

Each write call of a program, from the guest's `connecta.call()` to the outcome `ProgramWrites` counts.
`call[c].requests` is the call's ledger: a request is known by how it was answered. `kind` is what decides whether the
ledger can be trusted ("tracked", "open", "wrapper"). An error is a record of what the decision reads of it: its code, an
explicit unknown marker, and the request whose refusal it is; `Failures` are the ones a handler can end with.
`FailureOutcome` composes `providerCallFailure`, `knownCallFailure`, `settleWrite`, `enrich` and `classifyWriteOutcome`;
`ResultOutcome` and `CutOutcome` are the ends without a failure. `applied` is history: whether the vendor acted, which
the code cannot see, at any time, also after the answer has left. `run` is the program: settled (`draining`) and
answered (`reported`).

`Budgeted` are the calls that `beforeWrite` charges: a tool classified as a read may still come to the gate, and passes
it without spending. `NotEntered` also stands for an `api()` boundary that refuses before its handler starts, and
`Withdrawn` for the authorization failure of a call that sent nothing, with the code's exception for a request the
boundary itself refused.

`settleWrite` is redundant by design: believing a bare 401 in `servedRefusal` alone would break no property, because
`settleWrite` would still leave that call unknown.

### QuickJsPool

The Node executor: a request leases a slot, its program runs on the slot's child process. A lease executes once, so the
request is also the run and its job id. `req[r].run` says where `run()` waits: for the backoff ("restarting"), for the
child's readiness ("starting"), for the answer ("running"). `child[c]` has both sides of the channel: what the
parent keeps of it (`ready`, `retired`, `connected`, `killed`, `finished`), and the process with its queues of messages,
each of which is a step of its own. `Execute` is `run()` up to its first wait, `Restart`, `Dispatch` and `StartFails` are
its continuations; `Abort`, `Interrupt`, `Deadline`, `SendFails`, `CloseSeen`, `ErrorSeen`, `Message`, `Release` and `Close`
are its ends. `Retired`, `Recycled` and `Ended` are the methods every end is made of. The child's own steps end when it is
let go, since nothing it writes afterwards is read; what remains of it is that it dies, which `Terminated` forces.
Admission is a permit for each slot here, and time is left out: a timer may fire whenever it is set. `Close` is the first
`close()`; a second one returns at once, while the first may still wait for children (`executors/quickjs.ts:357`), and no
property says anything of it.

A child's own death is three events for the parent: disconnect, exit, close. Between the first and the last, `ensureChild()`
may find the child disconnected and retire it (`ReplaceChild`); the close event then finds it retired and charges no crash,
so this crash alone is not followed by a backoff. The model has it so, and states nothing of the backoff's length.

## Disagreements

Two statements of the sources do not hold; each has a run in which TLC finds the counterexample.

- `NeverHidden` (`runtime/request-reads.ts:20-22`): see *RequestReads* above.
- `SiblingsKept` (`connectors/remote-mcp/connection.ts:745-747`): `connect()` caches its client before it awaits
  `storeNegotiation()`. A second call is handed that client and leaves the attempt's waiters. When the first one is then
  cancelled, it is the last waiter of an attempt that is still published, so `leave()` closes the lease under the second.

## Runs

| Run | Instance | Shows |
|---|---|---|
| `executor_admission` | 3 requests, 1 slot, queue of 2, lifetime 1, queue timeout 2, arrivals at two times, a holder that need not release | `NoIdleSlot`, `LeaseOwned`, `ServedInOrder`, `NothingStartsAfterClose`, `PoolSpec`; `WaiterAnswered` by the waiter's own timer; `OverdueReclaimed` by time and the reapers' own sleeps |
| `call_admission` | 3 calls, 2 keys, room for 1 partition, budget of 2 per window of 2, 1 extra charge | `RollingBudget`, `NoIdleSlot`, `PermitOwned`, `WaiterReachable`, `IdleMeansDrained`, `PoolPerKey` |
| `oauth_refresh` | 2 redeemers, 2 tokens, 2 epochs, 3 responses, 2 consents; storage, lost, expire, reset, reissue | `NoReplay`, `UnansweredBlocked`, `AmbiguousIsFinal`, `ResetFences` |
| `oauth_refresh_race` | 3 redeemers, 1 epoch, 4 responses, skewed clocks, nothing fails | `GrantKept` |
| `oauth_refresh_live` | 2 redeemers, 1 token, 2 epochs; crash, lost, refuse, reset, reissue | `NobodyWaitsForEver` |
| `request_reads` | 2 keys, one of them linkable, 2 requests, 2 reads, 1 write (batched, interrupted or in memory), 1 external write | `NoHiddenWrite`, `NeverGoesBack` |
| `request_reads_linked` | 1 request, 2 reads, 1 write, no faults | violates `NeverHidden` |
| `remote_connection` | 2 calls, an OAuth and a credential connector, 1 replacement | `SessionOwned`, `OneAttempt`, `CachedUsable`, `NotStale`, `CallAnswered`, `SessionsEnd` |
| `remote_connection_sibling` | 2 calls, a credential connector, nothing replaced | violates `SiblingsKept` |
| `program_writes` | 2 writes, one over any kind of connector with 2 requests, one over a tracked connector with 1; the first is charged to a budget of 1 | `FailedNeverApplied`, `RetrySafe`, `EffectsAccounted`, `NothingLate`, `ProgramAnswered` |
| `quickjs_pool` | 2 requests on 1 slot, 2 children, 1 chunk; crash, error, garbled, dirty | `RunWithinLease`, `ChildFitForRun`, `WholeAnswer`, `NoChildLost`, `RejectedForCause`, `NoStrayAnswer` |
| `quickjs_pool_live` | the same without chunks; crash | `RunEnds`, `RetirementEnds` |

*Why the bounds are enough.* An admission controller's cases come from who meets whom on one slot: one
holder, one waiter that is granted, and one that stays or comes later; three requests give that with one slot, and the
proofs cover any number of both. `LastArrival` lets arrivals span a lifetime (or a budget window), and the clock runs
on until everything has expired. In `ExecutorAdmission` the queue timeout is longer than the lifetime, so that a lease is
overdue while a waiter still has time, a reap hands the slot to it and the lease made then is overdue in its turn; the
clock runs until every wait begun by `LastArrival` is over, and on for as long as a reaper sleeps while a lease is out.
`ReapFallback` is 2, longer than a lifetime: a reaper that sleeps it may find a lease made and overdue meanwhile. Two keys and one partition force every eviction. For refresh, the replay
needs one redeemer that sent and one that comes after; two epochs give the reset between them and a
consent in either; a third redeemer matters where two commit while one reads (`race`). The safety run has no `crash`
fault because it has every state a crash leaves: a claim that nobody releases (`UnclaimFails`), a redeemer that takes no
further step, and its liveness key running out under `expire`; the liveness run, whose fairness rules such a stop out, has it. Three responses
are a consent, a refresh and a second consent or refresh. A read is overtaken by
one other read or one write, so two reads and a write give every race on a key; the proof covers the rest. Two calls give a
connection its starter, its joiner and a second attempt beside an abandoned one; one replacement suffices for
every comparison of a version with an older one, and the proof covers more of both. A write's decision looks at one ledger, where two requests are enough
for one to speak for the other; the second write gives the program an outcome of each kind beside it, and the proof
covers the rest. In a pool, what goes wrong goes from a run to its successor on the same slot, so one slot and two
requests are enough; each run forks at most one child, so two children never run out. One chunk tells a whole
answer from one cut short and from one that follows another's rest. Redeemers redeem once, reads and writes of `RequestReads` happen once, calls of `RemoteConnection` are
made once, a program of `ProgramWrites` ends and a request of `QuickJsPool` leases once, so the instances of these modules stop: deadlock is not checked there.
It is checked for both admission controllers.

*Symmetry.* Calls and keys (not those of `RequestReads`), reads, writes, redeemers, tokens, and the requests and slots of
`QuickJsPool` are interchangeable in the safety runs; a run with a liveness property uses no symmetry.

*Fairness.* Time passes, timers fire, and an outcome recorded in a settlement is delivered; the JavaScript
runtime guarantees these. Nobody is assumed to release, abort, be interrupted or shut down. In `ExecutorAdmission` the
fairness is the antecedent of each liveness property, because the two need different parts of it: `OverdueReclaimed`
needs time and the reapers' fibers (`Tick`, `ReaperSleeps`, `ReaperFires`), and neither the queue timers nor the delivery
of outcomes; `WaiterAnswered` does not need the reapers. Both say that what they rule out does not last (`[]<>`): a
request waits once and makes one lease, so a wait or an overdue lease that never ended would last for ever. In `OAuthRefresh` a redemption that runs keeps running, since its promise is handed to
`waitUntil` and its caller's abort does not reach it, and storage expires what is due. In `RemoteConnection` reads of the
store and handshakes are answered or time out, and a resumed call or attempt runs; that a session is issued, a value
replaced or the scope closed is not assumed. In `ProgramWrites` the watchdog ends a program, a call's deadline ends the
call, and what is decided is recorded; vendors, handlers and the guest owe nothing. In `QuickJsPool` timers fire (the
backoff, the startup watchdog, the wall deadline, the grace before SIGKILL), a fiber that need not wait goes on, and
SIGKILL is obeyed; a child owes nothing, neither an answer nor an exit on SIGTERM.

*`GrantKept` is conditional by design.* After a crash or a lost answer the code prefers to drop a grant. Two
more cases are conservative in the same way: a consent in the same epoch that returns the same refresh token
leaves a completed lease that does not match, so the next refresh drops the grant; and a reset between
claim and dispatch records the new epoch in the spent record, so the receipt of a later consent in that epoch
for the same token does not admit it. Neither occurs with a server that never hands out a retired token.

Each property has a mutant in `PROJECT.json`: an operator marked `Fault:` beside the definition it replaces,
with which TLC finds the property violated.

## Proofs

`ExecutorAdmissionProofs` holds for every finite set of requests, every positive `Concurrency`, `QueueTimeout` and `ReapFallback`
and every natural queue size, lifetime and last arrival (the named assumptions of `ExecutorAdmission`):

- `TypesHold`, `SlotsExactHolds`, `NoIdleSlotHolds`, `LeaseOwnedHolds`: the invariants of the same names;
- `NothingStartsAfterCloseHolds`, `ServedInOrderHolds`: action properties, the second because the served waiters are the
  first ones (`ServedFirst`), a method keeps the order of those it leaves waiting (`InOrder`), and an immediate admission
  finds the queue empty (`Busy`);
- `ImplementsPool`: every behaviour is one of `AdmissionPool`;
- `ReaperInTimeHolds`: a queued request's reaper is never due later than a lease expires, or than one unit from now.

None of the invariants is inductive alone. `SlotsExact` needs that a grant goes to waiters only, and only as many
as fit: that a waiter has no outcome yet, and that places in the queue are distinct and below
`queuedTotal` (`Sound`). `NoIdleSlot` needs `SlotsExact` to know that a freed slot is refilled (`Busy`).
`LeaseOwned` needs that the outcome recorded for a request agrees with its caller's phase (`Owned`, `InPhase`). `IInv`
is their conjunction with `TypeOK`. The argument has two layers. Lemmas about the operators, with the
controller as a parameter, say what a method does: it keeps `Sound` and `Busy`, and `Advances` bounds what it may do to the requests
it is not called for. The one that carries the weight is `ServedFits` / `ServedFills`: the set
of waiters served by `fillSlots()` has exactly the size of the free slots or exhausts the queue. Lemmas about actions
then only have to deal with the caller itself. Refinement reuses `Advances`: what a
method does to the leases is a turnover of slots.

`ReaperInTime` is the safety half of `OverdueReclaimed`: a sleep measured on old leases is never too long for those of
now. A lease made while a reaper sleeps has its whole lifetime before it (`Dates`), and no lease outlives one made now
(`Timely`). By `NoIdleSlot` a request that queues leaves some lease out, so the sleep it measured ends no later than a
lease made now (`SleepBounded`); the fallback of an empty map is slept by a waiter that has been handed its outcome only.

`RequestReadsProofs` holds for every set of keys, requests, reads and writes, both kinds of store, any `Linkable` and any
faults: `TypesHold`, `NoHiddenWriteHolds` and `NeverGoesBackHolds`. What makes them inductive is `AnswersCurrent`: an
answer that `record` would still take is as new as every settled write and everything the memo held. A notice keeps
it because versions only grow past what a read in flight noted (`FlightsRegistered`), and a read that records
keeps it for the others because no two have the same turn (`TurnsDistinct`): the one that records was the last
to start, so nobody else will.

`ProgramWritesProofs` holds for every finite set of calls, each with any bound on its requests, every mix of connectors
and every write budget: `TypesHold`, `FailedNeverAppliedHolds`, `RetrySafeHolds`, `EffectsAccountedHolds`,
and `NothingLateHolds`, from `NothingLeavesAfterHolds` and `SettledProgramSendsNothingHolds`. None of these is inductive alone, since a verdict must
survive whatever the vendor does after it. `Sound` says what one call keeps from its first step to its last: nothing is
sent before its connector is entered, a ledger that sees every request sees the one that was applied, and a verdict of
failed on an entered call means that its connector is tracked, nothing was applied and nothing is on the wire any more.
`AnswerFinal` carries this to the answer: when it has left, no write is in flight and the outcomes it was made from no
longer change. The lemmas on the decision are about one ledger and use no step.

`CallAdmissionProofs` holds for every finite set of calls and keys and all bounds: `TypesHold`, `PermitOwnedHolds`,
`NothingStartsAfterCloseHolds`, `WaiterReachableHolds`, `NoIdleSlotHolds`, `RollingBudgetHolds`, `IdleMeansDrainedHolds`,
and `ImplementsPools`, every property its run checks. The invariant `Consistent` says that an object is named after a call that arrived
(`MakersArrived`, so a partition made again is a new object), that permits and waiters refer to their object and not to
their key (`OwnersKnown`), that a waiter has no outcome yet (`WaitersUndecided`) and that `active` counts the object's
permits (`ActiveExact`). Of the map it needs only that what it names
has arrived: permits are safe whatever the map forgets.

The other properties do rest on the map, and `OrderInv` says how. An object that is used, by a permit, a waiter or a charge
whose window is open, is the one the map has for the key of the calls that refer to it (`Mapped`, `Keyed`), so
whoever looks the key up finds the queue and counts every slot and charge; `RollingBudget` follows because the window of
that object holds what the key was charged (`Logged`) and no more than the budget (`Within`). What the map loses is
unused (`Forgets`), which covers pruning, eviction and withdrawal in one lemma. A queue is behind taken slots (`Backed`,
with one slot free while `pump()` is about to fill it) and its places are distinct (`Turns`): `PumpGrants` takes the last
waiter granted and counts the others ahead of it, so slots and budget are respected and a free slot means an empty
queue. For the refinement, `Book` adds that every permit was charged to its key and that a charged call is not to be
admitted again, so that a key's slots are handed out once each; that they fit is `KeyWithin`: the permits of a key are those of
the one object the map has for it.

`QuickJsPoolProofs` holds for every finite set of requests and slots, every bound and all faults: `TypesHold`,
`RunWithinLeaseHolds`, `NoOrphanHolds`, `AlwaysASlotHolds`, `RejectedForCauseHolds`. `NoOrphan` is inductive with the facts that a slot's child was
forked on it and not let go (`Forked`, `OnSlot`). `RunWithinLease` needs `Leased` and `Exclusive`, that leases and free
slots partition the slots, and `Waiting` and `ActiveOwned`, which tie what a run waits for to the slot it was leased.
`AlwaysASlot` then needs a count: the invariant `SlotLeft` says that the permits granted or held, with the free slots
beside those held, come to no more than there are slots, so an admitted request that has no slot yet leaves one free.
For `RejectedForCause` the step that is not about the active run by its own guard is the late report of a failed send:
by `Reports`, a run among a child's send errors is over or still running on that very child, so one that is the slot's
active run is this child's.

`QuickJsChildProofs` continues it, for any number of children and of chunks in an answer: `ChildFitForRunHolds`,
`WholeAnswerHolds`, `NoChildLostHolds`, `NoStrayAnswerHolds`. The invariant `Channel` is about what lies between the pool and a child that is not let go. A
run that was sent is in one place only, on its way, taken, or answered (`OneRun`), and it is the active run of the
child's slot (`Its`): whoever ends an active run also retires its child, except the message that resolves it, and that
message is the last thing the child says of it. `Collecting` says that the chunks still missing are those
directly before the result, so a result finds them collected. `Fit` is `ChildFitForRun` in the form a step keeps:
a child that was let go still runs, and is sent nothing. For `NoChildLost`, `Reaped` says that from the close on every child forked
is let go, and was either waited to its end or is one that close() waits for. The channel operations (a message sent, read,
dropped) have a lemma each, over an arbitrary child record; most steps leave the channel alone (`Gentle`). For
`NoStrayAnswer` it is enough that only a dispatch and a returning host call lengthen an inbox (`Drains` is every other
step's part), and each of them sends for the active run of the slot (`ToActive`).

`OAuthRefreshProofs` holds for any redeemers and tokens, every positive bound on epochs and responses, any number of
consents and all faults, crashes among them, provided that `None` is none of the values it stands beside (`NoneIsFresh`):
`TypesHold`, `UnansweredBlockedHolds`, `NoReplayHolds`, `AmbiguousIsFinalHolds`, `ResetFencesHolds`. `NoReplay` is about
a decision that a redemption takes on a lease, a receipt and a spent record it read several steps ago, so its invariant
says that whatever these prove stays true. `Stored(q, t)` is what they prove: redemption `q` will not send again, and
if the spent record of `t` is still its own, the grant was given `t` since. It is stable (`StoredKept`): only a sender
makes a token unstored, and the CAS by which it became the sender replaced the spent record. `Remembers` has it for
what a redemption holds in memory, `LeasesProven` and `Receipts` for what is in storage. `SpentOwned`, `OwnsSend` and
`Blocked` tie a spent record to the step its holder has come to: while the token has no answer, its holder is over, is
waiting, or cleans up with an ambiguous verdict, so nothing resolves the record. `ResetFences` is inductive with the
facts that an answer held in memory, or by a consent under way, is of the epoch it is bound to. Most steps
leave spent records with their holders and do not start to send (`Quiet`); one lemma deals with all of those, and
`SpendTakes` and `SenderStep` with the CAS, the request and its answer.

`GrantKeptHolds` has a premise, `Calm`: nothing fails but the clocks, so isolates may take over each other's claims at any
moment. Its invariant `KInv` stands beside the other. A token that a refresh has replaced does not come back: tokens
handed out are new, and one not yet redeemed has no records (`Ledger`, `Pristine`). A lease stands on the last commit of its
token, its *base*, which claims and releases leave alone, and a redemption that dispatches it comes back as the base
itself, one that nobody can have read before (`Based`). A poll reads lease, grant
and spent record one after another; if the lease has the same base when it is claimed as when it was read (`Match`),
nothing was sent in between and what was read is current (`SnapshotAt`); and no current reading of a token in the
grant condemns it (`AtRest`). A redemption that would drop the grant has therefore read of a token that is not in it any more,
and its discard, which compares, drops nothing.

`RemoteConnectionProofs` holds for every finite set of calls, either kind of connector or both, and any number of
replacements: `TypesHold`, `SessionOwnedHolds`, `OneAttemptHolds`, `CachedUsableHolds`, `NotStaleHolds`. Three conjuncts
make them inductive. `Sound` relates the lease, the client and the published attempt of a connection: an open lease is the
one the connection names, it belongs to the published attempt or to the client, and an attempt that has cached its client
and still stores the verdict is that client's. `BoundTo` says that `generation` and `digest` are what the
client or the attempt is bound to, which is why comparing them is comparing versions. `CallsSound` says that what a call
has read is no older than the call, that an attempt's waiters are the calls that have joined it, and that there
are no more attempts than calls that may have started one, so a call that starts one finds an unused
number (`AttemptLeft`). The proof has the layers of the code. Lemmas about `closeConnection`, the lease's finalizer,
`closeHalf`, the catch and the publishing of a client, with the connection as a parameter, keep `Sound` and `BoundTo`;
a call knows of them only that they `Advance` the attempts: one in use stays so, binds itself only to what is
stored at that moment, and once failed remains so. `ProceedHolds` is the argument of `NotStale`: whichever check led a call
there, the client or attempt it finds is bound to no less than the call has read.

*Only model-checked:* liveness (out of the prover's reach). The type invariants of `ExecutorAdmission`, `CallAdmission`,
`OAuthRefresh`, `RequestReads`, `ProgramWrites`, `RemoteConnection` and `QuickJsPool` are proved, and so are `SlotsExact`, `AlwaysASlot` and
`NothingStartsAfterClose` of `CallAdmission`; they have no run of their own.

## Not modelled

Error texts and retry hints, queue-wait statistics, issuer matching, client registration, discovery state,
encryption of the grant, and early renewal. In-isolate refresh flights: a joiner only waits, so
leaving them out allows more races than the code has. Storage is assumed to make `compareAndSet` atomic
and to treat expired records as absent. In `RemoteConnection`: tool listing and its fences, header framing, streaming, the
credential that a listing hands to the call after it (`preread`, `connectors/remote-mcp/connection.ts:635`), the
two seconds a close may take, and principals (a principal is part of what the digest stands for). In `ProgramWrites`:
auxiliary and proven read requests, idempotency keys, call admission (its own module), the wait for an authorization
handoff beyond the deadline, and a request whose client has gone, for which nobody hears the answer. In `QuickJsPool`:
the interpreter inside the child with its CPU and memory limits, payload sizes, logs, and the lengths of the timers. The components that are not modelled yet, or will not be, are
listed in `PROJECT.json` with the reason.
