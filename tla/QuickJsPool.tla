------------------------------ MODULE QuickJsPool ------------------------------
(***************************************************************************)
(* The Node executor's pool of QuickJS child processes                     *)
(* (src/src/executors/quickjs.ts) and the child at the other end of the    *)
(* IPC channel (quickjs-child.ts). An admitted request leases a slot and   *)
(* executes one program on the slot's child: the warm one, or a new one    *)
(* once a crash's backoff has passed. The run ends by the child's answer,  *)
(* its crash, a failed send, the wall deadline, the caller's abort or      *)
(* interruption, the lease's release or the pool's close, and a child that *)
(* may still be busy is let go: off its slot, SIGTERM, SIGKILL after a     *)
(* grace.                                                                  *)
(*                                                                         *)
(* A lease executes once, so a run and its job id are known by the         *)
(* request. Admission is a permit for each slot here; ExecutorAdmission    *)
(* models its queue. Time is left out: a timer may fire whenever it is     *)
(* set. Payloads, logs and size limits are left out; an answer counts its  *)
(* chunks. A step ends where the code awaits or an event handler returns.  *)
(***************************************************************************)
EXTENDS Naturals, Sequences, FiniteSets

CONSTANTS
    Requests,       \* callers, each acquiring at most one lease
    Slots,          \* the pool's slots; concurrency is their number
    MaxChildren,    \* bound on the child processes ever forked
    MaxChunks,      \* bound on the result-chunk messages before a result
    Faults,         \* what may go wrong outside the pool
    None

\* "crash": a child dies by itself. "error": the process object reports an
\* error. "garbled": a result that is no valid payload. "dirty": a run whose
\* answer says that its child cannot take another (timedOut, retire).
KnownFaults == {"crash", "error", "garbled", "dirty"}

ASSUME RequestsFinite == IsFiniteSet(Requests)
ASSUME SlotsFinite == IsFiniteSet(Slots)
ASSUME BoundsNatural == MaxChildren \in Nat /\ MaxChunks \in Nat
ASSUME FaultsKnown == Faults \subseteq KnownFaults
ASSUME NoneApart == None \notin Requests \cup Slots \cup Nat

Children == 1 .. MaxChildren

VARIABLES
    req,        \* each request's lease and run
    slot,       \* the slots (ChildSlot)
    child,      \* the child processes, both sides of the channel
    available,  \* slots no lease holds, in the order they are handed out
    spawned,    \* children forked so far
    pool,       \* "open", "closing" while close() waits, "closed"
    awaited     \* the children close() waits for

vars == <<req, slot, child, available, spawned, pool, awaited>>

Envelope == [type : {"ready", "host-call", "result-chunk", "result", "run", "host-result"},
            job : Requests \cup {None}, mark : {"good", "garbled", "dirty"}]
Msg(type, job, mark) == [type |-> type, job |-> job, mark |-> mark]

\* child is the child the run waits for or was sent to, aborted says that the
\* caller's signal aborted. call is the run's one host call: sent by the guest,
\* open while the provider function runs, done. parts and got count the chunks
\* the child sent and the parent collected.
Request ==
    [lease : {"none", "granted", "held", "released"}, slot : Slots \cup {None},
     run : {"none", "restarting", "starting", "running", "ended"},
     child : Children \cup {None}, answer : {"none", "result", "failed", "noSlot"},
     aborted : BOOLEAN, call : {"none", "sent", "open", "done"}, parts : 0 .. MaxChunks, got : Nat]

NewRequest ==
    [lease |-> "none", slot |-> None, run |-> "none", child |-> None, answer |-> "none",
     aborted |-> FALSE, call |-> "none", parts |-> 0, got |-> 0]

\* crashes counts the crashes not yet charged, holding says that notBefore lies
\* in the future.
ChildSlot ==
    [child : Children \cup {None}, active : Requests \cup {None},
     crashes : Nat, holding : BOOLEAN]

FreeSlot == [child |-> None, active |-> None, crashes |-> 0, holding |-> FALSE]

\* The parent's side: its slot, ready, retired, connected, exited (seen to),
\* killed (signalled), finished (its Scope closed) and the runs whose send will
\* report an error. The process: state, job, the messages
\* in both directions, overlapped (it was sent a run in the middle of another)
\* and soiled (its last answer said that it cannot take another).
Child ==
    [slot : Slots \cup {None}, ready : {"pending", "ok", "failed"}, retired : BOOLEAN,
     connected : BOOLEAN, exited : BOOLEAN,
     killed : {"no", "SIGTERM", "SIGKILL"}, finished : BOOLEAN, errors : SUBSET Requests,
     state : {"unborn", "loading", "up", "dead"}, job : Requests \cup {None},
     inbox : Seq(Envelope), outbox : Seq(Envelope), overlapped : BOOLEAN, soiled : BOOLEAN]

Unborn ==
    [slot |-> None, ready |-> "pending", retired |-> FALSE, connected |-> FALSE,
     exited |-> FALSE, killed |-> "no", finished |-> FALSE, errors |-> {},
     state |-> "unborn", job |-> None, inbox |-> <<>>, outbox |-> <<>>,
     overlapped |-> FALSE, soiled |-> FALSE]

\* What every variable holds, with the bounds.
TypeOK ==
    /\ req \in [Requests -> Request]
    /\ slot \in [Slots -> ChildSlot]
    /\ child \in [Children -> Child]
    /\ available \in Seq(Slots)
    /\ spawned \in 0 .. MaxChildren
    /\ pool \in {"open", "closing", "closed"}
    /\ awaited \subseteq Children

Init ==
    /\ req = [r \in Requests |-> NewRequest]
    /\ slot = [s \in Slots |-> FreeSlot]
    /\ child = [c \in Children |-> Unborn]
    /\ available \in {q \in [1 .. Cardinality(Slots) -> Slots] :
                        \A i, j \in DOMAIN q : q[i] = q[j] => i = j}
    /\ spawned = 0 /\ pool = "open" /\ awaited = {}

Underway == {"restarting", "starting", "running"}

-----------------------------------------------------------------------------
(* Letting a child go, and ending a run. *)

\* Fault: readiness is left pending, its waiters with it.
RetiredSilently(c) ==
    [c EXCEPT !.retired = TRUE, !.killed = IF c.retired \/ c.exited THEN @ ELSE "SIGTERM"]

\* retire(): the signal leaves before the call returns, unless the exit was
\* seen; waiters of its readiness fail.
Retired(c) ==
    [c EXCEPT !.retired = TRUE,
              !.killed = IF c.retired \/ c.exited THEN @ ELSE "SIGTERM",
              !.ready = IF @ = "pending" THEN "failed" ELSE @]

\* The run is over. Its provider function may still be open; what nothing will
\* read any more is forgotten.
Ended(q, answer) ==
    [q EXCEPT !.run = "ended", !.answer = answer, !.aborted = FALSE,
              !.child = IF q.call = "open" THEN @ ELSE None,
              !.call = IF @ = "open" THEN @ ELSE "done",
              !.parts = IF answer = "result" THEN @ ELSE 0,
              !.got = IF answer = "result" THEN @ ELSE 0]

\* recycle(): the slot's child, whichever it is, is retired.
Recycled(s) == [c \in Children |-> IF c = slot[s].child THEN Retired(child[c]) ELSE child[c]]

Vacant(sl) == [sl EXCEPT !.child = None, !.active = None]

\* Fault: whatever run is active.
AnyActive(s, r) == slot[s].active # None

\* "slot.active !== active": what comes late for a run that is over is not
\* for its successor.
StillActive(s, r) == slot[s].active = r

\* rejectActive() followed by recycle().
RejectAndRecycle(s) ==
    /\ req' = [r \in Requests |-> IF r = slot[s].active THEN Ended(req[r], "failed") ELSE req[r]]
    /\ child' = Recycled(s)
    /\ slot' = [slot EXCEPT ![s] = Vacant(@)]

OneMoreCrash(sl) == [sl EXCEPT !.crashes = @ + 1]

-----------------------------------------------------------------------------
(* Leases *)

\* A permit is granted: admit() succeeded.
Grant(r) ==
    /\ req[r].lease = "none"
    /\ pool = "open"
    /\ Cardinality({q \in Requests : req[q].lease \in {"granted", "held"}}) < Cardinality(Slots)
    /\ req' = [req EXCEPT ![r].lease = "granted"]
    /\ UNCHANGED <<slot, child, available, spawned, pool, awaited>>

\* The admitted caller takes the slot that has been free longest.
Lease(r) ==
    /\ req[r].lease = "granted"
    /\ \/ /\ available # <<>>
          /\ req' = [req EXCEPT ![r].lease = "held", ![r].slot = Head(available)]
          /\ available' = Tail(available)
       \/ /\ available = <<>>
          /\ req' = [req EXCEPT ![r].lease = "released", ![r].answer = "noSlot"]
          /\ UNCHANGED available
    /\ UNCHANGED <<slot, child, spawned, pool, awaited>>

\* Fault: the run that waits for its child is not stopped.
ReleasedRunning(q) == [q EXCEPT !.lease = "released"]

Released(q) ==
    [IF q.run \in Underway THEN Ended(q, "failed") ELSE q EXCEPT !.lease = "released"]

\* The lease is released, by its owner or by the scope it lives in: ownership
\* is revoked, then the slot and the permit go to a successor.
Release(r) ==
    LET s == req[r].slot IN
    /\ req[r].lease = "held"
    /\ req' = [req EXCEPT ![r] = Released(@)]
    /\ IF slot[s].active # None
         THEN child' = Recycled(s) /\ slot' = [slot EXCEPT ![s] = Vacant(@)]
         ELSE UNCHANGED <<child, slot>>
    /\ available' = Append(available, s)
    /\ UNCHANGED <<spawned, pool, awaited>>

-----------------------------------------------------------------------------
(* A run, until it is sent to its child *)

\* spawn(): a new process on the slot, loading its interpreter.
Fork(r, s, children, sl) ==
    LET c == spawned + 1 IN
    /\ spawned < MaxChildren
    /\ spawned' = c
    /\ child' = [children EXCEPT ![c] = [Unborn EXCEPT !.slot = s, !.connected = TRUE,
                                                       !.state = "loading"]]
    /\ slot' = [slot EXCEPT ![s] = [sl EXCEPT !.child = c]]
    /\ req' = [req EXCEPT ![r].run = "starting", ![r].child = c]

Refused(r) ==
    /\ req[r].aborted \/ pool # "open"
    /\ req' = [req EXCEPT ![r] = Ended(@, "failed")]
    /\ UNCHANGED <<slot, child, spawned>>

\* ensureChild() finds a child that is connected, ready or not.
UseWarmChild(r, s) ==
    LET c == slot[s].child IN
    /\ c # None
    /\ child[c].connected
    /\ req' = [req EXCEPT ![r].run = "starting", ![r].child = c]
    /\ UNCHANGED <<slot, child, spawned>>

\* A child that is disconnected but did not close yet is let go, its readiness
\* left as it is. Crashes are charged to the backoff, which may have passed
\* already; a new child is forked, at once or after it.
ReplaceChild(r, s) ==
    LET c == slot[s].child
        children == IF c = None THEN child
                    ELSE [child EXCEPT ![c] = [Retired(@) EXCEPT !.ready = child[c].ready]]
    IN
    /\ c # None => ~child[c].connected
    /\ \E later \in BOOLEAN :
        LET sl == [slot[s] EXCEPT !.child = None, !.crashes = 0, !.holding = later] IN
        /\ slot[s].crashes = 0 => later = slot[s].holding
        /\ \/ ~later /\ Fork(r, s, children, sl)
           \/ /\ later
              /\ child' = children
              /\ slot' = [slot EXCEPT ![s] = sl]
              /\ req' = [req EXCEPT ![r].run = "restarting"]
              /\ UNCHANGED spawned

\* lease.execute(), once: run() and ensureChild() up to their first wait.
Execute(r) ==
    LET s == req[r].slot IN
    /\ req[r].lease = "held" /\ req[r].run = "none"
    /\ \/ Refused(r)
       \/ /\ ~req[r].aborted /\ pool = "open"
          /\ UseWarmChild(r, s) \/ ReplaceChild(r, s)
    /\ UNCHANGED <<available, pool, awaited>>

\* notBefore is reached.
BackoffPasses(s) ==
    /\ slot[s].holding
    /\ slot' = [slot EXCEPT ![s].holding = FALSE]
    /\ UNCHANGED <<req, child, available, spawned, pool, awaited>>

\* The run that waited the backoff out forks its child, unless the pool closed.
Restart(r) ==
    LET s == req[r].slot IN
    /\ req[r].run = "restarting" /\ ~slot[s].holding
    /\ \/ Refused(r)
       \/ pool = "open" /\ Fork(r, s, child, slot[s])
    /\ UNCHANGED <<available, pool, awaited>>

\* What a message to a child does: it is on its way, or, the process being gone,
\* its send will report an error to the run.
Sent(c, m) ==
    IF c.state = "dead" THEN [c EXCEPT !.errors = @ \cup {m.job}]
    ELSE [c EXCEPT !.inbox = Append(@, m)]

\* The child reported ready: its slot's child is sent the run, which is active
\* from then on.
Dispatch(r) ==
    LET s == req[r].slot
        c == slot[s].child
    IN
    /\ req[r].run = "starting" /\ child[req[r].child].ready = "ok"
    /\ \/ /\ req[r].aborted \/ c = None \/ (c # None /\ ~child[c].connected)
          /\ req' = [req EXCEPT ![r] = Ended(@, "failed")]
          /\ UNCHANGED <<slot, child>>
       \/ /\ ~req[r].aborted
          /\ c # None /\ child[c].connected
          /\ req' = [req EXCEPT ![r].run = "running", ![r].child = c]
          /\ slot' = [slot EXCEPT ![s].active = r]
          /\ child' = [child EXCEPT ![c] = Sent(@, Msg("run", r, "good"))]
    /\ UNCHANGED <<available, spawned, pool, awaited>>

\* The child it waited for will never be ready.
StartFails(r) ==
    /\ req[r].run = "starting" /\ child[req[r].child].ready = "failed"
    /\ req' = [req EXCEPT ![r] = Ended(@, "failed")]
    /\ UNCHANGED <<slot, child, available, spawned, pool, awaited>>

-----------------------------------------------------------------------------
(* Ends from outside the child *)

\* Fault: the run is rejected, its child kept for the next.
EndRunKeepsChild(r) ==
    LET s == req[r].slot IN
    /\ req' = [req EXCEPT ![r] = Ended(@, "failed")]
    /\ slot' = IF StillActive(s, r) THEN [slot EXCEPT ![s].active = None] ELSE slot
    /\ UNCHANGED <<child, available, spawned, pool, awaited>>

\* A signal ends a run that still waits for its child, and rejects an active
\* run and recycles its child. A run that settled keeps both.
EndRun(r) ==
    LET s == req[r].slot IN
    /\ req' = [req EXCEPT ![r] = Ended(@, "failed")]
    /\ IF req[r].run = "running" /\ StillActive(s, r)
         THEN child' = Recycled(s) /\ slot' = [slot EXCEPT ![s] = Vacant(@)]
         ELSE UNCHANGED <<child, slot>>
    /\ UNCHANGED <<available, spawned, pool, awaited>>

\* The caller's AbortSignal fires; after the run nothing listens to it.
Abort(r) ==
    /\ req[r].lease \in {"granted", "held"}
    /\ req[r].run # "ended" /\ ~req[r].aborted
    /\ \/ req[r].run \in Underway /\ EndRun(r)
       \/ /\ req[r].run = "none"
          /\ req' = [req EXCEPT ![r].aborted = TRUE]
          /\ UNCHANGED <<slot, child, available, spawned, pool, awaited>>

\* The fiber of the run is interrupted.
Interrupt(r) ==
    /\ req[r].run \in Underway
    /\ EndRun(r)

\* timeoutMs and its grace passed since the run was sent.
Deadline(r) ==
    /\ req[r].run = "running"
    /\ EndRun(r)

-----------------------------------------------------------------------------
(* The child process. One that was let go may go on until its signal ends  *)
(* it, but whatever it then writes is dropped (Message): it only dies here. *)

\* The interpreter is loaded.
ChildReady(c) ==
    /\ child[c].state = "loading" /\ ~child[c].retired
    /\ child' = [child EXCEPT ![c].state = "up",
                              ![c].outbox = Append(@, Msg("ready", None, "good"))]
    /\ UNCHANGED <<req, slot, available, spawned, pool, awaited>>

\* A host result goes to the guest, if its run is still the child's, and shows
\* in nothing modelled here. A run is started; a run that comes in the middle
\* of another throws, and its failure is answered under its own id.
ChildReceives(c) ==
    LET m == Head(child[c].inbox)
        overlap == m.type = "run" /\ child[c].job # None
    IN
    /\ child[c].state = "up" /\ ~child[c].retired
    /\ child[c].inbox # <<>>
    /\ child' = [child EXCEPT
        ![c].inbox = Tail(@),
        ![c].job = IF m.type # "run" THEN @ ELSE IF overlap THEN None ELSE m.job,
        ![c].outbox = IF overlap THEN Append(@, Msg("result", m.job, "good")) ELSE @,
        ![c].overlapped = @ \/ overlap]
    /\ UNCHANGED <<req, slot, available, spawned, pool, awaited>>

\* The guest calls a provider function.
ChildCalls(c) ==
    LET r == child[c].job IN
    /\ r # None /\ ~child[c].retired
    /\ req[r].call = "none"
    /\ req' = [req EXCEPT ![r].call = "sent"]
    /\ child' = [child EXCEPT ![c].outbox = Append(@, Msg("host-call", r, "good"))]
    /\ UNCHANGED <<slot, available, spawned, pool, awaited>>

\* Fault: the result overtakes its chunks.
AnswersOutOfOrder(c) ==
    LET r == child[c].job IN
    /\ r # None /\ ~child[c].retired
    /\ \E n \in 0 .. MaxChunks :
        /\ req' = [req EXCEPT ![r].parts = n]
        /\ child' = [child EXCEPT
            ![c].outbox = @ \o <<Msg("result", r, "good")>>
                            \o [i \in 1 .. n |-> Msg("result-chunk", r, "good")],
            ![c].job = None]
    /\ UNCHANGED <<slot, available, spawned, pool, awaited>>

\* The run settled and its runtime was freed, or not: the answer leaves in
\* chunks and a result, whether or not host calls are still open.
ChildAnswers(c) ==
    LET r == child[c].job IN
    /\ r # None /\ ~child[c].retired
    /\ \E n \in 0 .. MaxChunks, mark \in {"good"} \cup (Faults \cap {"garbled", "dirty"}) :
        /\ req' = [req EXCEPT ![r].parts = n]
        /\ child' = [child EXCEPT
            ![c].outbox = @ \o [i \in 1 .. n |-> Msg("result-chunk", r, "good")]
                            \o <<Msg("result", r, mark)>>,
            ![c].soiled = mark = "dirty",
            ![c].job = None]
    /\ UNCHANGED <<slot, available, spawned, pool, awaited>>

\* The process ends, signalled or by itself; what it did not finish writing, and
\* what it did not read, is lost.
Die(c) ==
    /\ child[c].state \in {"loading", "up"}
    /\ child[c].killed # "no" \/ "crash" \in Faults
    /\ \E kept \in 0 .. Len(child[c].outbox) :
        child' = [child EXCEPT ![c].state = "dead", ![c].job = None, ![c].inbox = <<>>,
                               ![c].outbox = IF child[c].retired THEN <<>> ELSE SubSeq(@, 1, kept)]
    /\ UNCHANGED <<req, slot, available, spawned, pool, awaited>>

-----------------------------------------------------------------------------
(* What the parent hears of its children *)

\* onMessage(): only the slot's child is heard, and only about the active run.
Heard(c, m) ==
    LET s == child[c].slot IN
    /\ slot[s].child = c
    /\ slot[s].active # None /\ m.job = slot[s].active

ReadyArrives(c) ==
    /\ child' = [child EXCEPT ![c].outbox = Tail(@),
                              ![c].ready = IF slot[child[c].slot].child = c /\ @ = "pending"
                                           THEN "ok" ELSE @]
    /\ UNCHANGED <<req, slot>>

HostCallArrives(c, r) ==
    /\ req' = [req EXCEPT ![r].call = "open"]
    /\ child' = [child EXCEPT ![c].outbox = Tail(@)]
    /\ UNCHANGED slot

ChunkArrives(c, r) ==
    /\ req' = [req EXCEPT ![r].got = @ + 1]
    /\ child' = [child EXCEPT ![c].outbox = Tail(@)]
    /\ UNCHANGED slot

\* A result ends the crash streak and the run; a child that cannot take another
\* is recycled. One that does not parse rejects the run and recycles the child.
ResultArrives(c, m) ==
    LET s == child[c].slot
        keep == m.mark = "good"
        heard == [child EXCEPT ![c].outbox = Tail(@)]
    IN
    /\ req' = [req EXCEPT ![m.job] = Ended(@, IF m.mark = "garbled" THEN "failed" ELSE "result")]
    /\ child' = IF keep THEN heard ELSE [heard EXCEPT ![c] = Retired(@)]
    /\ slot' = [slot EXCEPT
        ![s] = [child |-> IF keep THEN c ELSE None, active |-> None,
                crashes |-> IF m.mark = "garbled" THEN @.crashes ELSE 0,
                holding |-> m.mark = "garbled" /\ @.holding]]

\* The next message of a child. One about a run that is over is dropped, and so
\* is all that a child that is off its slot wrote: it never returns to it.
Message(c) ==
    LET m == Head(child[c].outbox) IN
    /\ child[c].outbox # <<>>
    /\ \/ m.type = "ready" /\ ReadyArrives(c)
       \/ /\ m.type # "ready" /\ ~Heard(c, m)
          /\ child' = [child EXCEPT ![c].outbox = IF child[c].retired THEN <<>> ELSE Tail(@)]
          /\ UNCHANGED <<req, slot>>
       \/ m.type = "host-call" /\ Heard(c, m) /\ HostCallArrives(c, m.job)
       \/ m.type = "result-chunk" /\ Heard(c, m) /\ ChunkArrives(c, m.job)
       \/ m.type = "result" /\ Heard(c, m) /\ ResultArrives(c, m)
    /\ UNCHANGED <<available, spawned, pool, awaited>>

\* Fault: the run of the call is not looked at.
MayAnswerAnyRun(r) == req[r].child # None /\ child[req[r].child].connected

\* A host call answers while its child is connected and its run is active, which
\* is also as long as its fiber lives: the run's end closes their scope.
MayAnswer(r) == StillActive(req[r].slot, r) /\ child[req[r].child].connected

\* The provider function settled.
HostReturns(r) ==
    /\ req[r].call = "open"
    /\ req' = [req EXCEPT ![r].call = "done", ![r].child = IF req[r].run = "ended" THEN None ELSE @]
    /\ child' = IF MayAnswer(r)
                THEN [child EXCEPT ![req[r].child] = Sent(@, Msg("host-result", r, "good"))]
                ELSE child
    /\ UNCHANGED <<slot, available, spawned, pool, awaited>>

\* A send reports its error, to the run it was for.
SendFails(c, r) ==
    LET s == child[c].slot
        reported == [child EXCEPT ![c].errors = @ \ {r}]
    IN
    /\ r \in child[c].errors
    /\ IF StillActive(s, r)
         THEN /\ req' = [q \in Requests |-> IF q = slot[s].active THEN Ended(req[q], "failed")
                                            ELSE req[q]]
              /\ child' = [d \in Children |-> IF d = slot[s].child THEN Retired(reported[d])
                                              ELSE reported[d]]
              /\ slot' = [slot EXCEPT ![s] = Vacant(@)]
         ELSE child' = reported /\ UNCHANGED <<req, slot>>
    /\ UNCHANGED <<available, spawned, pool, awaited>>

\* The channel is closed, once every message that came over it was read. Nothing
\* asks a retired child for it.
Disconnect(c) ==
    /\ child[c].state = "dead" /\ child[c].connected /\ ~child[c].retired
    /\ child[c].outbox = <<>>
    /\ child' = [child EXCEPT ![c].connected = FALSE]
    /\ UNCHANGED <<req, slot, available, spawned, pool, awaited>>

\* The "exit" event, or "close" if that is the first, of a retired child, whose
\* termination waits for it. Before that it would only spare a dead process a
\* SIGTERM.
ExitSeen(c) ==
    /\ child[c].state = "dead" /\ child[c].retired /\ ~child[c].finished
    /\ ~child[c].exited
    /\ child' = [child EXCEPT ![c].exited = TRUE]
    /\ UNCHANGED <<req, slot, available, spawned, pool, awaited>>

\* The "close" event of a child that was not let go, a crash: it is charged
\* before the child leaves its slot and its run is rejected.
CloseSeen(c) ==
    LET s == child[c].slot IN
    /\ child[c].state = "dead" /\ ~child[c].connected /\ ~child[c].retired
    /\ child' = [child EXCEPT ![c] = Retired([@ EXCEPT !.exited = TRUE])]
    /\ slot' = [slot EXCEPT ![s] = OneMoreCrash(Vacant(@))]
    /\ req' = [r \in Requests |-> IF r = slot[s].active THEN Ended(req[r], "failed") ELSE req[r]]
    /\ UNCHANGED <<available, spawned, pool, awaited>>

\* failChildStartup(): the slot's child did not become ready in time.
FailStartup(c) ==
    LET s == child[c].slot IN
    /\ child[c].ready = "pending"
    /\ slot[s].child = c
    /\ child' = [child EXCEPT ![c] = Retired(@)]
    /\ slot' = [slot EXCEPT ![s] = OneMoreCrash([@ EXCEPT !.child = None])]
    /\ UNCHANGED req

\* The startup watchdog lives as long as its child does.
Watchdog(c) ==
    /\ child[c].slot # None /\ ~child[c].retired
    /\ FailStartup(c)
    /\ UNCHANGED <<available, spawned, pool, awaited>>

\* The "error" event of the slot's child.
ErrorSeen(c) ==
    /\ "error" \in Faults
    /\ child[c].slot # None /\ slot[child[c].slot].child = c
    /\ FailStartup(c) \/ (child[c].ready # "pending" /\ RejectAndRecycle(child[c].slot))
    /\ UNCHANGED <<available, spawned, pool, awaited>>

-----------------------------------------------------------------------------
(* Retirement and the pool's close *)

\* Fault: SIGTERM is trusted.
TerminatedPatient(c) ==
    /\ child[c].retired /\ ~child[c].finished /\ child[c].exited
    /\ child' = [child EXCEPT ![c].finished = TRUE]
    /\ UNCHANGED <<req, slot, available, spawned, pool, awaited>>

\* terminate() ends: the exit was seen, or its grace passed and SIGKILL was sent.
Terminated(c) ==
    /\ child[c].retired /\ ~child[c].finished
    /\ child' = [child EXCEPT ![c].finished = TRUE,
                              ![c].killed = IF child[c].exited THEN @ ELSE "SIGKILL"]
    /\ UNCHANGED <<req, slot, available, spawned, pool, awaited>>

\* Fault: only the children it lets go itself are waited for.
CloseForgetful ==
    LET on == {slot[s].child : s \in Slots} IN
    /\ pool = "open"
    /\ pool' = "closing"
    /\ req' = [r \in Requests |-> IF \E s \in Slots : slot[s].active = r
                                  THEN Ended(req[r], "failed") ELSE req[r]]
    /\ slot' = [s \in Slots |-> IF slot[s].child # None THEN Vacant(slot[s]) ELSE slot[s]]
    /\ child' = [c \in Children |-> IF c \in on THEN Retired(child[c]) ELSE child[c]]
    /\ awaited' = Children \cap on
    /\ UNCHANGED <<available, spawned>>

\* close(): admission is shut, every slot's child is let go and its run
\* rejected; then every child still on its way out is waited for.
Close ==
    LET on == {slot[s].child : s \in Slots} IN
    /\ pool = "open"
    /\ pool' = "closing"
    /\ req' = [r \in Requests |-> IF \E s \in Slots : slot[s].active = r
                                  THEN Ended(req[r], "failed") ELSE req[r]]
    /\ slot' = [s \in Slots |-> IF slot[s].child # None THEN Vacant(slot[s]) ELSE slot[s]]
    /\ child' = [c \in Children |-> IF c \in on THEN Retired(child[c]) ELSE child[c]]
    /\ awaited' = {c \in Children : child'[c].retired /\ ~child'[c].finished}
    /\ UNCHANGED <<available, spawned>>

CloseReturns ==
    /\ pool = "closing"
    /\ \A c \in awaited : child[c].finished
    /\ pool' = "closed"
    /\ UNCHANGED <<req, slot, child, available, spawned, awaited>>

-----------------------------------------------------------------------------

Next ==
    \/ \E r \in Requests :
        \/ Grant(r) \/ Lease(r) \/ Execute(r) \/ Release(r)
        \/ Restart(r) \/ Dispatch(r) \/ StartFails(r)
        \/ Abort(r) \/ Interrupt(r) \/ Deadline(r)
        \/ HostReturns(r)
    \/ \E s \in Slots : BackoffPasses(s)
    \/ \E c \in Children :
        \/ ChildReady(c) \/ ChildReceives(c) \/ ChildCalls(c) \/ ChildAnswers(c) \/ Die(c)
        \/ Message(c) \/ Disconnect(c) \/ ExitSeen(c) \/ CloseSeen(c)
        \/ Watchdog(c) \/ ErrorSeen(c) \/ Terminated(c)
        \/ \E r \in Requests : SendFails(c, r)
    \/ Close \/ CloseReturns

Spec == Init /\ [][Next]_vars

\* What a run does next when it need not wait, its deadline being the last.
Proceed(r) == Restart(r) \/ Dispatch(r) \/ StartFails(r) \/ Deadline(r)

\* Timers fire, fibers resume, and SIGKILL is obeyed. Nothing is asked of a
\* child, of SIGTERM, of the channel, of a provider function or of the caller.
Fairness ==
    /\ \A r \in Requests : WF_vars(Proceed(r))
    /\ \A s \in Slots : WF_vars(BackoffPasses(s))
    /\ \A c \in Children : /\ WF_vars(Watchdog(c)) /\ WF_vars(Terminated(c))
                           /\ WF_vars(child[c].killed = "SIGKILL" /\ Die(c))
    /\ WF_vars(CloseReturns)

FairSpec == Spec /\ Fairness

-----------------------------------------------------------------------------
(* Properties *)

\* INV-7 of quickjs-pool.node.test.ts (lines 115 to 225): a run goes on only
\* within its own lease, so a lease released during backoff or readiness leaves
\* nothing behind that spawns or dispatches on the slot's next owner; and the
\* active run of a slot has that slot's child, ready and not let go.
RunWithinLease ==
    /\ \A r \in Requests : req[r].run \in Underway => req[r].lease = "held"
    /\ \A s \in Slots : slot[s].active # None =>
        LET r == slot[s].active IN
        /\ req[r].slot = s /\ req[r].run = "running"
        /\ slot[s].child = req[r].child
        /\ child[slot[s].child].ready = "ok" /\ ~child[slot[s].child].retired

\* A slot goes from lease to lease without being lost or shared: "Executor
\* admission invariant failed: no child slot" (quickjs.ts, 292) never happens.
AlwaysASlot ==
    /\ \A r \in Requests : req[r].answer # "noSlot"
    /\ \A q, r \in Requests :
        q # r /\ req[q].lease = "held" /\ req[r].lease = "held" => req[q].slot # req[r].slot

\* A child is sent a run only when it is done with the one before, by whichever
\* way that one ended (quickjs-child.ts, 99: "QuickJS child received overlapping
\* executions"), and one whose runtime could not be freed or whose run timed out
\* "is replaced before it can take another run" (code-mode.md, X3).
ChildFitForRun ==
    \A c \in Children :
        /\ ~child[c].overlapped
        /\ child[c].soiled /\ child[c].job = None =>
              \A i \in DOMAIN child[c].inbox : child[c].inbox[i].type # "run"

\* A run resolves with every chunk of its own answer (quickjs.ts, 703 to 714),
\* even when its child dies while it writes, or it follows another run.
WholeAnswer == \A r \in Requests : req[r].answer = "result" => req[r].got = req[r].parts

\* A process that was forked is on its slot until the pool lets it go: no path
\* (an abandoned run, a replaced child, the close) leaves one that nobody kills.
NoOrphan ==
    \A c \in 1 .. spawned : ~child[c].retired => slot[child[c].slot].child = c

\* No process is lost: one that nobody would kill, or one that close() leaves
\* behind. When it has resolved, every child ever forked was seen to exit or sent
\* SIGKILL, those recycled before it included (quickjs-pool.node.test.ts, 294 to
\* 340), and none is forked afterwards.
NoChildLost ==
    /\ NoOrphan
    /\ pool = "closed" => \A c \in 1 .. spawned : child[c].exited \/ child[c].killed = "SIGKILL"

\* An active run is rejected only for a reason of its own: its caller, its
\* deadline, its release, its child's death, error or bad answer, its failed
\* send, or the close. What is left of an earlier run of the slot, a late send
\* error, a late answer, a late exit, never ends its successor.
RejectedForCause ==
    [][\A r \in Requests :
        req[r].run = "running" /\ req'[r].run = "ended" /\ req'[r].answer = "failed" =>
            \/ Abort(r) \/ Interrupt(r) \/ Deadline(r) \/ Release(r) \/ Close
            \/ LET c == req[r].child IN
               \/ child[c].state = "dead" \/ r \in child[c].errors \/ ErrorSeen(c)
               \/ /\ child[c].outbox # <<>> /\ Message(c)
                  /\ Head(child[c].outbox) = Msg("result", r, "garbled")]_vars

\* quickjs-pool.node.test.ts, 227: late host results are not sent into a
\* successor's run, only to the child of the run that asked, while it is active.
NoStrayAnswer ==
    [][\A c \in Children : Len(child'[c].inbox) > Len(child[c].inbox) =>
        LET m == child'[c].inbox[Len(child'[c].inbox)] IN
        slot'[child[c].slot].active = m.job /\ slot'[child[c].slot].child = c]_vars

\* Every run ends, whatever its child does: answers, hangs, dies, never starts.
RunEnds == \A r \in Requests : (req[r].run \in Underway) ~> (req[r].run = "ended")

\* close() resolves although a child ignores SIGTERM, and a child that was let
\* go, by the close or before it, is gone in the end.
RetirementEnds ==
    /\ (pool = "closing") ~> (pool = "closed")
    /\ \A c \in Children : child[c].retired ~> (child[c].state = "dead")
=============================================================================
