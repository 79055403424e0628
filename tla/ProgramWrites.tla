----------------------------- MODULE ProgramWrites -----------------------------
(***************************************************************************)
(* The writes one execute_code program sends, and what its answer says of  *)
(* them. A write passes the program's gate (src/src/execute.ts), waits for *)
(* admission and credentials, enters its connector and sends requests that *)
(* a ledger records (src/src/provider-call.ts, api-connector.ts); its end  *)
(* is decided from that ledger (src/src/write-outcome.ts, invocation.ts)   *)
(* and counted by ProgramWrites (src/src/program-writes.ts), which is      *)
(* closed and drained before the program's answer leaves.                  *)
(*                                                                         *)
(* Whether the vendor applied a write is history the code cannot see. A    *)
(* request is known by how it was answered, an error by what the decision  *)
(* reads of it. Auxiliary requests and requests proven to be reads carry   *)
(* no write and are left out. Clocks are left out: a deadline, or the      *)
(* caller's cancellation, may end a call or the program at any moment. A   *)
(* step ends where the code awaits.                                        *)
(***************************************************************************)
EXTENDS Naturals, Sequences, FiniteSets

CONSTANTS
    Calls,          \* the write calls the program may make
    Kinds,          \* the kinds of connector a call may be for
    Budgeted,       \* those of a tool that is not classified as a read
    MaxWrites,      \* execute.maxWrites
    MaxRequests     \* bound, by call, on the requests its handler opens

\* "tracked": an api() boundary whose ledger sees every request it sends
\* (tracksEveryRequest). "open": an api() boundary whose handler may also send
\* around the ledger. "wrapper": a custom connector around an api() boundary,
\* which does not own the logical call and may send around it too.
ConnectorKinds == {"tracked", "open", "wrapper"}

ASSUME CallsFinite == IsFiniteSet(Calls)
ASSUME KindsKnown == Kinds \in [Calls -> SUBSET ConnectorKinds]
ASSUME BudgetedCalls == Budgeted \subseteq Calls
ASSUME MaxWritesNatural == MaxWrites \in Nat
ASSUME MaxRequestsNatural == MaxRequests \in [Calls -> Nat]

VARIABLES
    run,        \* "running", "draining" once the program settled, "reported"
    result,     \* what the program settled with, before accounting
    report,     \* the answer that left
    writes,     \* budgeted writes that passed the gate
    call        \* each call's invocation and ledger

vars == <<run, result, report, writes, call>>

\* ProviderRequest: "open" was not dispatched yet, "sent" is on the wire,
\* "lost" had no answer (the fetch rejected). Answers: "ok" a 2xx, "refused" a
\* 4xx other than 401 and 408, "unauthorized" a 401, "renewed" a 401 whose
\* credential was then renewed, "declined" a 401 covered by the vendor's
\* reviewed authBeforeExecution evidence, "error" a 408 or a 5xx.
Answers == {"ok", "refused", "unauthorized", "declined", "error"}
Request == {"open", "sent", "lost", "renewed"} \cup Answers

States == {"ok", "failed", "unknown"}
None == "none"

\* dispatched says that the handler was entered (dispatchedToConnector), open
\* that the ledger takes requests, verdict is the outcome decided, outcome the
\* one recorded, and applied is history: the vendor acted on a request.
Call ==
    [phase : {"idle", "catalog", "admission", "running", "settling", "ended"},
     kind : ConnectorKinds, requests : Seq(Request), dispatched : BOOLEAN, open : BOOLEAN,
     verdict : States \cup {None}, outcome : States \cup {None}, applied : BOOLEAN]

Answer == [kind : {None, "value", "error", "unknown"}, retryable : BOOLEAN]
NoAnswer == [kind |-> None, retryable |-> FALSE]

\* What every variable holds, with the bounds; a call that is being settled was
\* decided, one way or another.
TypeOK ==
    /\ run \in {"running", "draining", "reported"}
    /\ result \in Answer /\ report \in Answer
    /\ writes \in 0 .. MaxWrites
    /\ call \in [Calls -> Call]
    /\ \A c \in Calls : /\ Len(call[c].requests) <= MaxRequests[c]
                        /\ call[c].phase = "settling" => call[c].verdict # None

Init ==
    /\ run = "running" /\ result = NoAnswer /\ report = NoAnswer
    /\ writes = 0
    /\ \E kind \in [Calls -> ConnectorKinds] :
         /\ \A c \in Calls : kind[c] \in Kinds[c]
         /\ call = [c \in Calls |->
             [phase |-> "idle", kind |-> kind[c], requests |-> <<>>,
              dispatched |-> FALSE, open |-> FALSE, verdict |-> None, outcome |-> None, applied |-> FALSE]]

-------------------------------------------------------------------------------
(***************************************************************************)
(* Deciding an outcome: write-outcome.ts over one call's ledger.           *)
(***************************************************************************)

\* The requests that left; logical.sent holds the same ones.
Dispatched(q) == {r \in DOMAIN q.requests : q.requests[r] # "open"}
Having(q, statuses) == {r \in DOMAIN q.requests : q.requests[r] \in statuses}
Unauthorized(q) == Having(q, {"unauthorized", "renewed", "declined"})

\* What the decision reads of a failure: its code, an explicit unknown marker
\* (writeOutcome), and the request whose refusal it is (vendorRefusal), or 0.
Failure(code, unknown, refusal) == [code |-> code, unknown |-> unknown, refusal |-> refusal]

\* The failures a handler can end with: a failure of its own at any moment (a
\* parser, a validator, a network error as "unavailable", a timeout, a missing
\* credential), the mapped refusal of an answer (a provider may read its 4xx
\* as "unavailable"), the boundary's own refusal of a request that has not left,
\* or what renewal makes of a 401.
Failures(q) ==
    {Failure(code, FALSE, 0) : code \in {"other", "unavailable", "timeout", "auth"}}
    \cup {Failure(code, FALSE, r) : code \in {"other", "unavailable"}, r \in Having(q, {"refused"})}
    \cup {Failure("auth", FALSE, r) : r \in Unauthorized(q) \cup Having(q, {"open"})}
    \cup {Failure(code, TRUE, 0) : code \in
            IF Having(q, {"unauthorized", "renewed"}) = {} THEN {} ELSE {"other", "auth"}}

\* servedRefusal: a refusing status that the provider read as a refusal, and a
\* 401 only with the vendor's evidence.
ServedRefusal(q, e) ==
    /\ e.refusal \in Having(q, {"refused", "declined"})
    /\ e.code \notin {"unavailable", "timeout"}

\* Fault: a refusal speaks for its call whatever else the call sent.
BoundaryKnowsOne(q, e) ==
    \/ q.kind # "open" /\ Dispatched(q) = {}
    \/ q.kind # "open" /\ ~e.unknown /\ ServedRefusal(q, e)

\* writeFailure, finalized at the api() boundary over its ledger: known when
\* nothing left, or when the one request that left was refused. A network error
\* that no request of the ledger accounts for is not settled by it.
BoundaryKnows(q, e) ==
    LET empty == q.kind # "open" /\ Dispatched(q) = {}
        sole == q.kind # "open" /\ Dispatched(q) = {e.refusal}
        unaccounted == e.code = "unavailable" /\ q.requests = <<>>
    IN  \/ empty /\ ~unaccounted
        \/ ~e.unknown /\ sole /\ ServedRefusal(q, e)

\* answeredFailure and knownCallFailure: the mark holds for the logical call
\* only when the boundary that set it owned the call.
Answered(q, e) == q.kind # "wrapper" /\ BoundaryKnows(q, e)

\* settleWrite: a 401 leaves the call unknown, unless it is a known refusal,
\* covered by evidence, and the only request the call sent.
StandingRefusal(q, e) ==
    /\ \E r \in Having(q, {"declined"}) : Dispatched(q) = {r} /\ e.refusal = r
    /\ ~e.unknown /\ ServedRefusal(q, e)
Settled(q, e) == Unauthorized(q) = {} \/ (Answered(q, e) /\ StandingRefusal(q, e))

\* enrich(): a timeout is never settled by a known mark, nor is a missing
\* authorization by an empty ledger, unless the boundary that owns the call
\* refused the request itself before it was sent.
Withdrawn(q, e) ==
    \/ e.code = "timeout"
    \/ /\ e.code = "auth" /\ Dispatched(q) = {}
       /\ ~(Answered(q, e) /\ e.refusal \in Having(q, {"open"}))

\* The outcome of a call whose connector failed with e: classifyWriteOutcome of
\* what the invocation made of the failure.
FailureOutcome(q, e) ==
    IF Settled(q, e) /\ Answered(q, e) /\ ~Withdrawn(q, e) THEN "failed" ELSE "unknown"

\* settleWriteResult: a 401 without evidence blocks success, renewed or not.
ResultOutcome(q) == IF Having(q, {"unauthorized", "renewed"}) = {} THEN "ok" ELSE "unknown"

\* The outcome of a call its deadline or its caller cut off: failed only when
\* the connector was never entered.
CutOutcome(q) == IF q.dispatched THEN "unknown" ELSE "failed"

-------------------------------------------------------------------------------
(***************************************************************************)
(* One write call.                                                         *)
(***************************************************************************)

Put(c, q) == call' = [call EXCEPT ![c] = q] /\ UNCHANGED <<run, result, report>>
OnlyCall(c, q) == Put(c, q) /\ UNCHANGED writes

\* ProgramWrites is closed and dispatchController aborted.
Stopped == run # "running"

\* A call decided: its ledger is closed before its outcome is known, so a
\* request that has not left never will.
Decide(c, outcome) ==
    OnlyCall(c, [call[c] EXCEPT !.phase = "settling", !.open = FALSE, !.verdict = outcome])

\* A call that ends without being counted: begin() was not called for it.
Uncounted(c) == OnlyCall(c, [call[c] EXCEPT !.phase = "ended"])

\* The guest calls connecta.call(); the pipeline resolves the tool.
Invoke(c) ==
    /\ ~Stopped /\ call[c].phase = "idle"
    /\ OnlyCall(c, [call[c] EXCEPT !.phase = "catalog"])

\* beforeWrite lets the write through: it begins, and spends the budget unless
\* its tool is classified as a read.
Gate(c) ==
    /\ call[c].phase = "catalog" /\ ~Stopped
    /\ c \in Budgeted => writes < MaxWrites
    /\ writes' = IF c \in Budgeted THEN writes + 1 ELSE writes
    /\ Put(c, [call[c] EXCEPT !.phase = "admission"])

\* beforeWrite or a check before it refuses the write, resolution fails, or the
\* deadline passes first.
NotGated(c) == call[c].phase = "catalog" /\ Uncounted(c)

\* The final gate: nothing is awaited from its checks to the connector call.
Enter(c) ==
    /\ call[c].phase = "admission" /\ ~Stopped
    /\ OnlyCall(c, [call[c] EXCEPT !.phase = "running", !.dispatched = TRUE, !.open = TRUE])

\* Admission, credentials or the final gate refuse it, or the api() boundary it
\* enters does before its handler starts (an unknown tool, arguments that do not
\* fit): it never left.
NotEntered(c) == call[c].phase = "admission" /\ Decide(c, "failed")

\* The handler prepares a request, which then reads its credential.
Open(c) ==
    /\ call[c].open /\ Len(call[c].requests) < MaxRequests[c]
    /\ OnlyCall(c, [call[c] EXCEPT !.requests = Append(@, "open")])

\* Fault: a request prepared before the call ended still leaves.
SendLate(c, r) ==
    /\ call[c].requests[r] = "open"
    /\ OnlyCall(c, [call[c] EXCEPT !.requests[r] = "sent"])

\* dispatchProviderRequest, synchronous with the send that follows it.
Send(c, r) ==
    /\ call[c].requests[r] = "open" /\ call[c].open
    /\ OnlyCall(c, [call[c] EXCEPT !.requests[r] = "sent"])

\* The vendor answers, perhaps after the call is over, and it may have applied
\* the write unless its answer is a refusal; a vendor that authenticates before
\* it acts applied nothing it declined.
Reply(c, r, status, applies) ==
    /\ call[c].requests[r] = "sent"
    /\ status = "ok" => applies
    /\ status \in {"refused", "declined"} => ~applies
    /\ OnlyCall(c, [call[c] EXCEPT !.requests[r] = status, !.applied = @ \/ applies])

\* The answer never comes: the connection broke, before or after the vendor
\* received the request.
Lose(c, r, applies) ==
    /\ call[c].requests[r] = "sent"
    /\ OnlyCall(c, [call[c] EXCEPT !.requests[r] = "lost", !.applied = @ \/ applies])

\* renewedAfterUnauthorized: a fresh credential answers the request's own 401.
Renew(c, r) ==
    /\ call[c].requests[r] = "unauthorized" /\ call[c].phase = "running"
    /\ OnlyCall(c, [call[c] EXCEPT !.requests[r] = "renewed"])

\* A handler that can send around the ledger did, and the vendor applied it;
\* code that ignores its signal may do so after its call is over.
AroundLedger(c) ==
    /\ call[c].kind \in {"open", "wrapper"} /\ call[c].dispatched /\ ~call[c].applied
    /\ OnlyCall(c, [call[c] EXCEPT !.applied = TRUE])

\* The handler throws: its boundary closes the ledger and decides.
Throw(c, e) ==
    /\ call[c].phase = "running" /\ e \in Failures(call[c])
    /\ Decide(c, FailureOutcome(call[c], e))

\* The handler returns, whatever it made of its requests' failures.
Return(c) == call[c].phase = "running" /\ Decide(c, ResultOutcome(call[c]))

\* Fault: a write cut off after it entered its connector is left to itself.
CutSilent(c) == call[c].phase = "admission" /\ Decide(c, CutOutcome(call[c]))

\* The call's own deadline fires, or its caller cancels, before it is decided.
\* Its scope closes the lease, and so the ledger.
Cut(c) == call[c].phase \in {"admission", "running"} /\ Decide(c, CutOutcome(call[c]))

\* The outcome is recorded, once: after the authorization handoff is fetched,
\* or with the result before it is processed.
Record(c) ==
    /\ call[c].phase = "settling"
    /\ OnlyCall(c, [call[c] EXCEPT !.phase = "ended", !.outcome = call[c].verdict])

-------------------------------------------------------------------------------
(***************************************************************************)
(* The program.                                                            *)
(***************************************************************************)

\* The program returns, throws, runs out of its budget or its time, or is
\* cancelled: awaitExecutor settles, ProgramWrites closes and the dispatch
\* signal aborts.
ProgramSettles(kind, retryable) ==
    /\ run = "running"
    /\ kind = "value" => ~retryable
    /\ run' = "draining" /\ result' = [kind |-> kind, retryable |-> retryable]
    /\ UNCHANGED <<report, writes, call>>

\* begin() was called and the outcome is not recorded: in inFlight.
InFlight == {c \in Calls : call[c].phase \in {"admission", "running", "settling"}}
Recorded(state) == {c \in Calls : call[c].outcome = state}

\* Fault: withWrites keeps the failure's own verdict whatever landed.
FinishedAsIs ==
    IF Recorded("unknown") # {} THEN [kind |-> "unknown", retryable |-> FALSE] ELSE result

\* finish(): an unknown write replaces the result, and an error after a write
\* that landed is not retryable.
Finished ==
    IF Recorded("unknown") # {} THEN [kind |-> "unknown", retryable |-> FALSE]
    ELSE [result EXCEPT !.retryable = @ /\ Recorded("ok") = {}]

\* Fault: the answer leaves without draining.
ReportUndrained ==
    /\ run = "draining"
    /\ run' = "reported" /\ report' = Finished
    /\ UNCHANGED <<result, writes, call>>

\* Every write in flight is drained, and the answer leaves.
Report ==
    /\ run = "draining" /\ InFlight = {}
    /\ run' = "reported" /\ report' = Finished
    /\ UNCHANGED <<result, writes, call>>

\* What one call does, and what the vendor does with its requests.
CallStep(c) ==
    \/ Invoke(c) \/ Gate(c) \/ NotGated(c) \/ Enter(c) \/ NotEntered(c) \/ Open(c)
    \/ \E r \in DOMAIN call[c].requests :
         \/ Send(c, r) \/ Renew(c, r)
         \/ \E applies \in BOOLEAN :
              Lose(c, r, applies) \/ \E status \in Answers : Reply(c, r, status, applies)
    \/ AroundLedger(c) \/ (\E e \in Failures(call[c]) : Throw(c, e)) \/ Return(c) \/ Cut(c)
    \/ Record(c)

Next ==
    \/ \E c \in Calls : CallStep(c)
    \/ Report
    \/ \E kind \in {"value", "error"}, retryable \in BOOLEAN : ProgramSettles(kind, retryable)

Spec == Init /\ [][Next]_vars

\* Timers fire and finished work is scheduled: the watchdog ends a program, a
\* call's deadline ends the call, what is decided is recorded, and the answer
\* leaves. Nothing is assumed of the vendor, the handlers or the guest.
Fairness ==
    /\ WF_vars(\E kind \in {"value", "error"}, retryable \in BOOLEAN : ProgramSettles(kind, retryable))
    /\ WF_vars(Report)
    /\ \A c \in Calls : WF_vars(NotGated(c)) /\ WF_vars(Cut(c)) /\ WF_vars(Record(c))

FairSpec == Spec /\ Fairness

-------------------------------------------------------------------------------
\* A write counted as failed was not applied and never will be: "A failed write
\* is proven not applied" (withWrites), whichever requests its handler sent, in
\* its ledger or around it, and whenever the vendor gets to them.
FailedNeverApplied == \A c \in Calls : call[c].outcome = "failed" => ~call[c].applied

\* An answer that says it may be retried comes from a program none of whose
\* writes took effect, then or later (INV-9, withWrites).
RetrySafe == report.retryable => \A c \in Calls : ~call[c].applied

\* An answer that does not say unknown accounts for every effect: a write that
\* was applied, then or later, was counted as succeeded ("the result never
\* hides a write whose outcome is unknown").
EffectsAccounted ==
    report.kind \in {"value", "error"} =>
        \A c \in Calls : call[c].applied => call[c].outcome = "ok"

\* Once a write is decided, or the program's answer has left, no request of the
\* ledger leaves (closeProviderCall, assertProviderCallOpen).
NothingLeavesAfter ==
    [][\A c \in Calls :
         call[c].phase \in {"settling", "ended"} \/ run = "reported" =>
             Dispatched(call'[c]) \subseteq Dispatched(call[c])]_vars

\* A write that had not entered its connector when the program settled never
\* does, however far it was past the gate (ProgramWrites.close, the final gate).
SettledProgramSendsNothing ==
    [][run # "running" => \A c \in Calls : call'[c].open => call[c].open]_vars

\* Nothing of a program happens late: neither a request after its write's or its
\* program's end, nor a write after its program's.
NothingLate == NothingLeavesAfter /\ SettledProgramSendsNothing

\* Every program is answered: draining waits for each write, and each one ends.
ProgramAnswered == <>(run = "reported")
===============================================================================
