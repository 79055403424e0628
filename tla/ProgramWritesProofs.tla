--------------------------- MODULE ProgramWritesProofs ---------------------------
(***************************************************************************)
(* Proofs about ProgramWrites for any set of calls, any kinds of connector *)
(* and any bounds. The accounting is right because each call keeps, from   *)
(* its first step to its last, what its eventual verdict will need (Sound) *)
(* and because nothing is in flight any more when the answer is made.      *)
(***************************************************************************)
EXTENDS ProgramWrites, TLAPS

\* Answers, or their absence, that leave it open whether the vendor acted.
MayApply == {"ok", "unauthorized", "renewed", "error", "lost"}

\* What one call knows of itself: nothing happens before its connector is
\* entered; a boundary that sees every request sees the one that was applied;
\* and "failed" is decided only when nothing on the wire can still be applied.
Sound(q) ==
    /\ q.phase \in {"idle", "catalog", "admission"} => ~q.dispatched /\ q.verdict = None
    /\ q.phase = "running" => q.dispatched /\ q.verdict = None
    /\ q.phase = "ended" => q.outcome = q.verdict
    /\ q.phase # "ended" => q.outcome = None
    /\ q.phase = "ended" /\ q.verdict = None => ~q.dispatched
    /\ q.open => q.phase = "running"
    /\ ~q.dispatched => q.requests = <<>> /\ ~q.applied
    /\ q.kind = "tracked" /\ q.applied => Having(q, MayApply) # {}
    /\ q.verdict = "failed" /\ q.dispatched =>
          q.kind = "tracked" /\ ~q.applied /\ Having(q, {"sent"}) = {}

\* The answer that left was made from outcomes that no longer change.
AnswerFinal ==
    /\ run # "reported" => report = NoAnswer
    /\ run = "reported" => InFlight = {} /\ report = Finished

\* The inductive invariant.
IInv ==
    /\ TypeOK
    /\ \A c \in Calls : Sound(call[c])
    /\ AnswerFinal

\* A call as TypeOK has it.
WellFormed(c, q) ==
    /\ q \in Call
    /\ Len(q.requests) <= MaxRequests[c]
    /\ q.phase = "settling" => q.verdict # None

\* A step of one call keeps the invariant if it keeps the call sound and, once
\* the answer has left, neither revives the call nor changes its outcome.
LEMMA OneCall ==
    ASSUME IInv, NEW c \in Calls, NEW q, Put(c, q), WellFormed(c, q), Sound(q),
           writes' \in 0 .. MaxWrites,
           run = "reported" => q.phase \in {"idle", "catalog", "ended"} /\ q.outcome = call[c].outcome
    PROVE  IInv'
<1>1. call' = [call EXCEPT ![c] = q] /\ UNCHANGED <<run, result, report>>
    BY DEF Put
<1>2. \A d \in Calls : call'[d] = IF d = c THEN q ELSE call[d]
    BY <1>1 DEF IInv, TypeOK
<1>3. TypeOK'
    BY <1>1, <1>2 DEF IInv, TypeOK, WellFormed
<1>4. \A d \in Calls : Sound(call'[d])
    BY <1>2 DEF IInv
<1>5. AnswerFinal'
    <2>1. CASE run # "reported"
        BY <1>1, <2>1 DEF IInv, AnswerFinal
    <2>2. CASE run = "reported"
        <3>1. InFlight' = {}
            BY <1>2, <2>2 DEF IInv, AnswerFinal, InFlight
        <3>2. \A s : Recorded(s)' = Recorded(s)
            BY <1>2, <2>2 DEF Recorded
        <3>3. Finished' = Finished
            BY <1>1, <3>2 DEF Finished
        <3> QED BY <1>1, <2>2, <3>1, <3>3 DEF IInv, AnswerFinal
    <2> QED BY <2>1, <2>2
<1> QED BY <1>3, <1>4, <1>5 DEF IInv, Sound

\* What the invariant says of one call.
LEMMA CallFacts ==
    ASSUME IInv, NEW c \in Calls
    PROVE  /\ WellFormed(c, call[c])
           /\ Sound(call[c])
           /\ run = "reported" => call[c].phase \in {"idle", "catalog", "ended"}
<1>1. WellFormed(c, call[c]) /\ Sound(call[c])
    BY DEF IInv, TypeOK, WellFormed
<1>2. run = "reported" => call[c].phase \in {"idle", "catalog", "ended"}
    BY <1>1 DEF IInv, AnswerFinal, InFlight, WellFormed, Call
<1> QED BY <1>1, <1>2

LEMMA InitHolds == Init => IInv
<1> SUFFICES ASSUME Init PROVE IInv
    OBVIOUS
<1>1. TypeOK
    BY MaxWritesNatural, MaxRequestsNatural DEF Init, TypeOK, Call, Answer, NoAnswer, None
<1>2. \A c \in Calls : Sound(call[c])
    BY DEF Init, Sound, None
<1>3. AnswerFinal
    BY DEF Init, AnswerFinal
<1> QED BY <1>1, <1>2, <1>3 DEF IInv
\* Before its connector is entered a call has sent and decided nothing.
LEMMA EnteringKeeps ==
    ASSUME IInv, NEW c \in Calls,
           \/ Invoke(c) \/ Gate(c) \/ NotGated(c) \/ Enter(c) \/ NotEntered(c)
    PROVE  IInv'
<1> DEFINE Q == call[c]
<1>0. WellFormed(c, Q) /\ Sound(Q) /\ writes \in 0 .. MaxWrites
      /\ (run = "reported" => Q.phase \in {"idle", "catalog", "ended"})
    BY CallFacts DEF IInv, TypeOK
<1>1. CASE Invoke(c)
    <2> DEFINE q == [Q EXCEPT !.phase = "catalog"]
    <2>1. WellFormed(c, q) /\ Sound(q)
        BY <1>0, <1>1 DEF WellFormed, Sound, Call, Invoke, Having, None
    <2> QED BY <1>0, <1>1, <2>1, OneCall DEF Invoke, OnlyCall, Stopped
<1>2. CASE Gate(c)
    <2> DEFINE q == [Q EXCEPT !.phase = "admission"]
    <2>1. WellFormed(c, q) /\ Sound(q)
        BY <1>0, <1>2 DEF WellFormed, Sound, Call, Gate, Having, None
    <2>2. writes' \in 0 .. MaxWrites
        BY <1>0, <1>2, MaxWritesNatural DEF Gate
    <2> QED BY <1>0, <1>2, <2>1, <2>2, OneCall DEF Gate, Stopped
<1>3. CASE NotGated(c)
    <2> DEFINE q == [Q EXCEPT !.phase = "ended"]
    <2>1. WellFormed(c, q) /\ Sound(q) /\ q.outcome = Q.outcome /\ q.phase = "ended"
        BY <1>0, <1>3 DEF WellFormed, Sound, Call, NotGated, Having, None
    <2> QED BY <1>0, <1>3, <2>1, OneCall DEF NotGated, Uncounted, OnlyCall
<1>4. CASE Enter(c)
    <2> DEFINE q == [Q EXCEPT !.phase = "running", !.dispatched = TRUE, !.open = TRUE]
    <2>1. WellFormed(c, q) /\ Sound(q)
        BY <1>0, <1>4 DEF WellFormed, Sound, Call, Enter, Having, None
    <2> QED BY <1>0, <1>4, <2>1, OneCall DEF Enter, OnlyCall, Stopped
<1>5. CASE NotEntered(c)
    <2> DEFINE q == [Q EXCEPT !.phase = "settling", !.open = FALSE, !.verdict = "failed"]
    <2>1. WellFormed(c, q) /\ Sound(q)
        BY <1>0, <1>5 DEF WellFormed, Sound, Call, NotEntered, Having, None, States
    <2> QED BY <1>0, <1>5, <2>1, OneCall DEF NotEntered, Decide, OnlyCall
<1> QED BY <1>1, <1>2, <1>3, <1>4, <1>5

\* A request's status, alone, changes in a step of the wire.
LEMMA WireKeeps ==
    ASSUME IInv, NEW c \in Calls, NEW r \in DOMAIN call[c].requests, NEW status \in Request,
           NEW applies \in BOOLEAN,
           OnlyCall(c, [call[c] EXCEPT !.requests[r] = status, !.applied = @ \/ applies]),
           applies => call[c].requests[r] = "sent" /\ status \in MayApply,
           call[c].requests[r] \in MayApply => status \in MayApply,
           status = "sent" => call[c].open
    PROVE  IInv'
<1> DEFINE Q == call[c]
           q == [Q EXCEPT !.requests[r] = status, !.applied = @ \/ applies]
<1>0. WellFormed(c, Q) /\ Sound(Q) /\ writes \in 0 .. MaxWrites
      /\ (run = "reported" => Q.phase \in {"idle", "catalog", "ended"})
    BY CallFacts DEF IInv, TypeOK
<1>1. /\ Q.requests \in Seq(Request) /\ q.requests = [Q.requests EXCEPT ![r] = status]
      /\ q.requests \in Seq(Request) /\ Len(q.requests) = Len(Q.requests)
      /\ DOMAIN q.requests = DOMAIN Q.requests
    BY <1>0 DEF WellFormed, Call
<1>2. /\ q.phase = Q.phase /\ q.kind = Q.kind /\ q.dispatched = Q.dispatched /\ q.open = Q.open
      /\ q.verdict = Q.verdict /\ q.outcome = Q.outcome /\ q.applied = (Q.applied \/ applies)
    BY <1>0 DEF WellFormed, Call
<1>3. WellFormed(c, q)
    BY <1>0, <1>1, <1>2 DEF WellFormed, Call
<1>4. Q.dispatched
    BY <1>0, <1>1 DEF Sound
<1>5. q.kind = "tracked" /\ q.applied => Having(q, MayApply) # {}
    BY <1>0, <1>1, <1>2 DEF Sound, Having
<1>6. Q.verdict = "failed" => Having(q, {"sent"}) = {} /\ ~applies
    BY <1>0, <1>1, <1>2, <1>4 DEF Sound, Having, None
<1>7. Sound(q)
    BY <1>0, <1>2, <1>4, <1>5, <1>6 DEF Sound
<1> QED BY <1>0, <1>2, <1>3, <1>7, OneCall DEF OnlyCall

\* A connector that decides from its ledger says "failed" only when nothing it
\* sent can have been applied, or can still be.
LEMMA FailureProven ==
    ASSUME NEW q \in Call, Sound(q), NEW e, FailureOutcome(q, e) = "failed"
    PROVE  q.kind = "tracked" /\ ~q.applied /\ Having(q, {"sent"}) = {}
<1>1. q.kind # "wrapper" /\ BoundaryKnows(q, e)
    BY DEF FailureOutcome, Answered
<1>2. q.kind = "tracked"
    BY <1>1 DEF BoundaryKnows, Call, ConnectorKinds
<1>3. \/ Dispatched(q) = {}
      \/ Dispatched(q) = {e.refusal} /\ e.refusal \in Having(q, {"refused", "declined"})
    BY <1>1 DEF BoundaryKnows, ServedRefusal
<1>4. Having(q, MayApply \cup {"sent"}) = {}
    BY <1>3 DEF Dispatched, Having, MayApply
<1> QED BY <1>2, <1>4 DEF Sound, Having
\* Deciding closes the ledger; a verdict of "failed" must be proven.
LEMMA DecideKeeps ==
    ASSUME IInv, NEW c \in Calls, NEW outcome \in States, Decide(c, outcome),
           call[c].phase \in {"admission", "running"},
           outcome = "failed" /\ call[c].dispatched =>
               call[c].kind = "tracked" /\ ~call[c].applied /\ Having(call[c], {"sent"}) = {}
    PROVE  IInv'
<1> DEFINE Q == call[c]
           q == [Q EXCEPT !.phase = "settling", !.open = FALSE, !.verdict = outcome]
<1>0. WellFormed(c, Q) /\ Sound(Q) /\ writes \in 0 .. MaxWrites /\ run # "reported"
    BY CallFacts DEF IInv, TypeOK
<1>1. WellFormed(c, q) /\ Sound(q)
    BY <1>0 DEF WellFormed, Sound, Call, Having, None, States
<1> QED BY <1>0, <1>1, OneCall DEF Decide, OnlyCall

LEMMA DecidingKeeps ==
    ASSUME IInv, NEW c \in Calls,
           \/ \E e \in Failures(call[c]) : Throw(c, e)
           \/ Return(c) \/ Cut(c)
    PROVE  IInv'
<1>0. call[c] \in Call /\ Sound(call[c])
    BY CallFacts DEF WellFormed
<1>1. CASE \E e \in Failures(call[c]) : Throw(c, e)
    <2> PICK e \in Failures(call[c]) : Throw(c, e)
        BY <1>1
    <2>1. FailureOutcome(call[c], e) \in States
        BY DEF FailureOutcome, States
    <2> QED BY <1>0, <2>1, FailureProven, DecideKeeps DEF Throw
<1>2. CASE Return(c)
    BY <1>2, DecideKeeps DEF Return, ResultOutcome, States
<1>3. CASE Cut(c)
    BY <1>0, <1>3, DecideKeeps DEF Cut, CutOutcome, States
<1> QED BY <1>1, <1>2, <1>3

\* What a running call's handler and its vendor do between entry and verdict.
LEMMA RequestsKeep ==
    ASSUME IInv, NEW c \in Calls,
           \/ Open(c)
           \/ \E r \in DOMAIN call[c].requests :
                \/ Send(c, r) \/ Renew(c, r)
                \/ \E applies \in BOOLEAN :
                     Lose(c, r, applies) \/ \E status \in Answers : Reply(c, r, status, applies)
           \/ AroundLedger(c)
           \/ Record(c)
    PROVE  IInv'
<1> DEFINE Q == call[c]
<1>0. WellFormed(c, Q) /\ Sound(Q) /\ writes \in 0 .. MaxWrites
      /\ (run = "reported" => Q.phase \in {"idle", "catalog", "ended"})
    BY CallFacts DEF IInv, TypeOK
<1>1. CASE Open(c)
    <2> DEFINE q == [Q EXCEPT !.requests = Append(@, "open")]
    <2>1. /\ Q.requests \in Seq(Request) /\ q.requests = Append(Q.requests, "open")
          /\ q.requests \in Seq(Request) /\ Len(q.requests) = Len(Q.requests) + 1
          /\ \A i \in DOMAIN Q.requests : i \in DOMAIN q.requests /\ q.requests[i] = Q.requests[i]
        BY <1>0 DEF WellFormed, Call, Request
    <2>2. Having(Q, MayApply) # {} => Having(q, MayApply) # {}
        BY <2>1 DEF Having
    <2>3. WellFormed(c, q)
        <3>1. q.requests \in Seq(Request) /\ Len(q.requests) <= MaxRequests[c]
            BY <1>0, <1>1, <2>1, MaxRequestsNatural DEF WellFormed, Open
        <3> QED BY <1>0, <3>1 DEF WellFormed, Call
    <2>4. Sound(q)
        BY <1>0, <1>1, <2>2 DEF WellFormed, Call, Open, Sound, None
    <2> QED BY <1>0, <1>1, <2>3, <2>4, OneCall DEF Open, OnlyCall, Sound
<1>2. CASE \E r \in DOMAIN Q.requests :
             \/ Send(c, r) \/ Renew(c, r)
             \/ \E applies \in BOOLEAN :
                  Lose(c, r, applies) \/ \E status \in Answers : Reply(c, r, status, applies)
    <2> PICK r \in DOMAIN Q.requests :
             \/ Send(c, r) \/ Renew(c, r)
             \/ \E applies \in BOOLEAN :
                  Lose(c, r, applies) \/ \E status \in Answers : Reply(c, r, status, applies)
        BY <1>2
    <2>1. ASSUME NEW status \in Request, OnlyCall(c, [Q EXCEPT !.requests[r] = status])
          PROVE  OnlyCall(c, [Q EXCEPT !.requests[r] = status, !.applied = @ \/ FALSE])
        <3>1. [Q EXCEPT !.requests[r] = status]
                = [Q EXCEPT !.requests[r] = status, !.applied = @ \/ FALSE]
            BY <1>0 DEF WellFormed, Call
        <3> QED BY <2>1, <3>1, Zenon
    <2>2. CASE Send(c, r)
        <3>1. "sent" \in Request /\ FALSE \in BOOLEAN /\ Q.requests[r] \notin MayApply /\ Q.open
              /\ OnlyCall(c, [Q EXCEPT !.requests[r] = "sent"])
            BY <2>2 DEF Send, MayApply, Request
        <3>2. OnlyCall(c, [Q EXCEPT !.requests[r] = "sent", !.applied = @ \/ FALSE])
            BY <2>1, <3>1
        <3> QED BY <3>1, <3>2, WireKeeps, Zenon
    <2>3. CASE Renew(c, r)
        <3>1. "renewed" \in Request /\ FALSE \in BOOLEAN /\ "renewed" \in MayApply /\ "renewed" # "sent"
              /\ OnlyCall(c, [Q EXCEPT !.requests[r] = "renewed"])
            BY <2>3 DEF Renew, MayApply, Request
        <3>2. OnlyCall(c, [Q EXCEPT !.requests[r] = "renewed", !.applied = @ \/ FALSE])
            BY <2>1, <3>1
        <3> QED BY <3>1, <3>2, WireKeeps, Zenon
    <2>4. ASSUME NEW applies \in BOOLEAN, Lose(c, r, applies) PROVE IInv'
        <3>1. "lost" \in Request /\ "lost" \in MayApply /\ "lost" # "sent" /\ Q.requests[r] = "sent"
              /\ OnlyCall(c, [Q EXCEPT !.requests[r] = "lost", !.applied = @ \/ applies])
            BY <2>4 DEF Lose, MayApply, Request
        <3> QED BY <3>1, WireKeeps, Zenon
    <2>5. ASSUME NEW applies \in BOOLEAN, NEW status \in Answers, Reply(c, r, status, applies)
          PROVE  IInv'
        BY <2>5, WireKeeps DEF Reply, MayApply, Request, Answers
    <2> QED BY <2>2, <2>3, <2>4, <2>5
<1>3. CASE AroundLedger(c)
    <2> DEFINE q == [Q EXCEPT !.applied = TRUE]
    <2>1. WellFormed(c, q) /\ Sound(q)
        BY <1>0, <1>3 DEF WellFormed, Sound, Call, AroundLedger, Having, None
    <2> QED BY <1>0, <1>3, <2>1, OneCall DEF AroundLedger, OnlyCall, WellFormed, Call
<1>4. CASE Record(c)
    <2> DEFINE q == [Q EXCEPT !.phase = "ended", !.outcome = Q.verdict]
    <2>1. WellFormed(c, q) /\ Sound(q)
        BY <1>0, <1>4 DEF WellFormed, Sound, Call, Record, Having, None
    <2> QED BY <1>0, <1>4, <2>1, OneCall DEF Record, OnlyCall
<1> QED BY <1>1, <1>2, <1>3, <1>4

\* The program's own steps touch no call.
LEMMA ProgramKeeps ==
    ASSUME IInv,
           \/ Report
           \/ \E kind \in {"value", "error"}, retryable \in BOOLEAN : ProgramSettles(kind, retryable)
    PROVE  IInv'
<1>1. CASE Report
    <2>1. Finished \in Answer
        <3>1. result \in Answer
            BY DEF IInv, TypeOK
        <3> QED BY <3>1 DEF Finished, Answer
    <2>2. Finished' = Finished /\ InFlight' = InFlight
        BY <1>1 DEF Report, Finished, Recorded, InFlight
    <2>3. TypeOK'
        BY <1>1, <2>1 DEF IInv, TypeOK, Report
    <2> QED BY <1>1, <2>2, <2>3 DEF IInv, AnswerFinal, Report
<1>2. CASE \E kind \in {"value", "error"}, retryable \in BOOLEAN : ProgramSettles(kind, retryable)
    <2>1. TypeOK'
        BY <1>2 DEF IInv, TypeOK, ProgramSettles, Answer
    <2> QED BY <1>2, <2>1 DEF IInv, AnswerFinal, ProgramSettles
<1> QED BY <1>1, <1>2
LEMMA NextHolds == IInv /\ [Next]_vars => IInv'
<1> SUFFICES ASSUME IInv, [Next]_vars PROVE IInv'
    OBVIOUS
<1>1. ASSUME NEW c \in Calls, CallStep(c) PROVE IInv'
    BY <1>1, EnteringKeeps, RequestsKeep, DecidingKeeps DEF CallStep
<1>2. CASE Report \/ \E kind \in {"value", "error"}, retryable \in BOOLEAN : ProgramSettles(kind, retryable)
    BY <1>2, ProgramKeeps
<1>3. CASE UNCHANGED vars
    <2>1. Finished' = Finished /\ InFlight' = InFlight
        BY <1>3 DEF vars, Finished, Recorded, InFlight
    <2>2. TypeOK'
        BY <1>3 DEF vars, IInv, TypeOK
    <2> QED BY <1>3, <2>1, <2>2 DEF vars, IInv, AnswerFinal
<1> QED BY <1>1, <1>2, <1>3 DEF Next

LEMMA AlwaysIInv == Spec => []IInv
BY InitHolds, NextHolds, PTL DEF Spec

\* The ledgers, the gate's count and the answers keep their shape, and every
\* call being settled has a verdict.
THEOREM TypesHold == Spec => []TypeOK
<1>1. IInv => TypeOK
    BY DEF IInv
<1> QED BY AlwaysIInv, <1>1, PTL

\* A call that is over or never entered its connector, and was not decided
\* otherwise, changed nothing at the vendor.
LEMMA Unapplied ==
    ASSUME IInv, NEW c \in Calls,
           \/ call[c].verdict = "failed"
           \/ call[c].outcome = None /\ call[c].phase \in {"idle", "catalog", "ended"}
    PROVE  ~call[c].applied
BY CallFacts DEF Sound, None

\* A write settled as failed was not applied and never will be, for any ledger,
\* any mix of requests and answers and any order of late answers.
THEOREM FailedNeverAppliedHolds == Spec => []FailedNeverApplied
<1>1. ASSUME IInv, NEW c \in Calls, call[c].outcome = "failed" PROVE ~call[c].applied
    BY <1>1, CallFacts, Unapplied DEF Sound, None
<1>2. IInv => FailedNeverApplied
    BY <1>1 DEF FailedNeverApplied
<1> QED BY AlwaysIInv, <1>2, PTL

\* What an answer that left says of one call.
LEMMA Reported ==
    ASSUME IInv, NEW c \in Calls, report.kind \in {"value", "error"} \/ report.retryable
    PROVE  /\ call[c].phase \in {"idle", "catalog", "ended"}
           /\ call[c].outcome \in {"ok", "failed", None}
           /\ report.retryable => call[c].outcome # "ok"
<1>1. run = "reported"
    BY DEF IInv, AnswerFinal, NoAnswer, None
<1>2. report = Finished /\ call[c] \in Call /\ result \in Answer
    BY <1>1 DEF IInv, AnswerFinal, TypeOK
<1>3. Recorded("unknown") = {}
    BY <1>2 DEF Finished
<1>4. report.retryable => Recorded("ok") = {}
    BY <1>2, <1>3 DEF Finished, Answer
<1> QED BY <1>1, <1>2, <1>3, <1>4, CallFacts DEF Recorded, Call, States

\* An answer marked retryable is never followed by an effect of the program it
\* answers for.
THEOREM RetrySafeHolds == Spec => []RetrySafe
<1>1. ASSUME IInv, NEW c \in Calls, report.retryable PROVE ~call[c].applied
    <2>1. CASE call[c].outcome = None
        BY <1>1, <2>1, Reported, Unapplied
    <2>2. CASE call[c].outcome = "failed"
        BY <1>1, <2>2, CallFacts, Unapplied DEF Sound, None
    <2> QED BY <1>1, <2>1, <2>2, Reported
<1>2. IInv => RetrySafe
    BY <1>1 DEF RetrySafe
<1> QED BY AlwaysIInv, <1>2, PTL

\* An answer that claims to know accounts for every effect as a success.
THEOREM EffectsAccountedHolds == Spec => []EffectsAccounted
<1>1. ASSUME IInv, NEW c \in Calls, report.kind \in {"value", "error"}, call[c].applied
      PROVE  call[c].outcome = "ok"
    <2>1. call[c].outcome # None
        BY <1>1, Reported, Unapplied
    <2>2. call[c].outcome # "failed"
        BY <1>1, CallFacts, Unapplied DEF Sound, None
    <2> QED BY <1>1, <2>1, <2>2, Reported
<1>2. IInv => EffectsAccounted
    BY <1>1 DEF EffectsAccounted
<1> QED BY AlwaysIInv, <1>2, PTL
\* What a step of one call may do to its ledger: requests leave an open one
\* only, and one is opened only while the program runs.
Discipline(q, p) ==
    /\ Dispatched(p) \subseteq Dispatched(q) \/ q.open
    /\ p.open => q.open \/ run = "running"

\* A request's answer changes nothing about which requests have left.
LEMMA StatusDisciplined ==
    ASSUME NEW q \in Call, NEW r \in DOMAIN q.requests, NEW status, NEW applied,
           q.requests[r] # "open" \/ q.open
    PROVE  Discipline(q, [q EXCEPT !.requests[r] = status, !.applied = applied])
<1> DEFINE p == [q EXCEPT !.requests[r] = status, !.applied = applied]
<1>1. p.requests = [q.requests EXCEPT ![r] = status] /\ p.open = q.open
    BY DEF Call
<1>2. \A i \in DOMAIN q.requests : i # r => p.requests[i] = q.requests[i]
    BY <1>1
<1>3. DOMAIN p.requests = DOMAIN q.requests
    BY <1>1
<1>4. Dispatched(p) \subseteq Dispatched(q) \cup {r}
    BY <1>2, <1>3 DEF Dispatched
<1>5. r \in Dispatched(q) \/ q.open
    BY DEF Dispatched
<1>6. Discipline(q, p)
    <2> HIDE DEF p
    <2> QED BY <1>1, <1>4, <1>5 DEF Discipline
<1> QED BY <1>6

LEMMA StepDisciplined ==
    ASSUME IInv, NEW c \in Calls, CallStep(c)
    PROVE  /\ \A d \in Calls \ {c} : call'[d] = call[d]
           /\ Discipline(call[c], call'[c])
<1> DEFINE Q == call[c]
<1>0. Q \in Call /\ Sound(Q) /\ call \in [Calls -> Call]
    BY CallFacts DEF WellFormed, IInv, TypeOK
<1>1. ASSUME NEW q, call' = [call EXCEPT ![c] = q], Discipline(Q, q)
      PROVE  (\A d \in Calls \ {c} : call'[d] = call[d]) /\ Discipline(Q, call'[c])
    <2>1. call'[c] = q
        BY <1>0, <1>1
    <2> QED BY <1>0, <1>1, <2>1
<1>2. ASSUME NEW q, call' = [call EXCEPT ![c] = q], q.requests = Q.requests,
             q.open => Q.open \/ run = "running"
      PROVE  (\A d \in Calls \ {c} : call'[d] = call[d]) /\ Discipline(Q, call'[c])
    <2>1. Discipline(Q, q)
        BY <1>2 DEF Discipline, Dispatched
    <2> QED BY <1>1, <1>2, <2>1
<1>3. CASE Invoke(c) \/ Gate(c) \/ NotGated(c) \/ Record(c) \/ AroundLedger(c)
    BY <1>0, <1>2, <1>3 DEF Invoke, Gate, NotGated, Uncounted, Record, AroundLedger, OnlyCall, Put, Call
<1>4. CASE Enter(c)
    BY <1>0, <1>2, <1>4 DEF Enter, Stopped, OnlyCall, Put, Call
<1>5. ASSUME NEW outcome, Decide(c, outcome)
      PROVE  (\A d \in Calls \ {c} : call'[d] = call[d]) /\ Discipline(Q, call'[c])
    BY <1>0, <1>2, <1>5 DEF Decide, OnlyCall, Put, Call
<1>6. CASE NotEntered(c) \/ Return(c) \/ Cut(c) \/ \E e \in Failures(Q) : Throw(c, e)
    BY <1>5, <1>6 DEF NotEntered, Return, Cut, Throw
<1>7. CASE Open(c)
    <2> DEFINE q == [Q EXCEPT !.requests = Append(@, "open")]
    <2>1. q.open = Q.open /\ Q.open
        BY <1>0, <1>7 DEF Call, Open
    <2>2. Discipline(Q, q)
        BY <2>1 DEF Discipline
    <2> QED BY <1>1, <1>7, <2>2 DEF Open, OnlyCall, Put
<1>8. ASSUME NEW r \in DOMAIN Q.requests, NEW status, NEW applied,
             Q.requests[r] # "open" \/ Q.open,
             call' = [call EXCEPT ![c] = [Q EXCEPT !.requests[r] = status, !.applied = applied]]
      PROVE  (\A d \in Calls \ {c} : call'[d] = call[d]) /\ Discipline(Q, call'[c])
    BY <1>0, <1>1, <1>8, StatusDisciplined
<1>9. ASSUME NEW r \in DOMAIN Q.requests, NEW status
      PROVE  [Q EXCEPT !.requests[r] = status]
               = [Q EXCEPT !.requests[r] = status, !.applied = Q.applied]
    BY <1>0 DEF Call
<1>10. ASSUME NEW r \in DOMAIN Q.requests, Send(c, r) \/ Renew(c, r)
       PROVE  (\A d \in Calls \ {c} : call'[d] = call[d]) /\ Discipline(Q, call'[c])
    <2> DEFINE sent(status) == [Q EXCEPT !.requests[r] = status, !.applied = Q.applied]
    <2>1. CASE Send(c, r)
        <3>1. Q.open /\ call' = [call EXCEPT ![c] = sent("sent")]
            BY <1>9, <2>1 DEF Send, OnlyCall, Put
        <3> QED BY <1>8, <3>1, Zenon
    <2>2. CASE Renew(c, r)
        <3>1. Q.requests[r] # "open" /\ call' = [call EXCEPT ![c] = sent("renewed")]
            BY <1>9, <2>2 DEF Renew, OnlyCall, Put
        <3> QED BY <1>8, <3>1, Zenon
    <2> QED BY <1>10, <2>1, <2>2
<1>11. ASSUME NEW r \in DOMAIN Q.requests, NEW applies \in BOOLEAN, NEW status,
              Lose(c, r, applies) \/ Reply(c, r, status, applies)
       PROVE  (\A d \in Calls \ {c} : call'[d] = call[d]) /\ Discipline(Q, call'[c])
    <2> DEFINE got(s) == [Q EXCEPT !.requests[r] = s, !.applied = @ \/ applies]
    <2>1. PICK s : Q.requests[r] # "open" /\ call' = [call EXCEPT ![c] = got(s)]
        BY <1>11 DEF Lose, Reply, OnlyCall, Put
    <2>2. got(s) = [Q EXCEPT !.requests[r] = s, !.applied = Q.applied \/ applies]
        BY <1>0 DEF Call
    <2> QED BY <1>8, <2>1, <2>2, Zenon
<1> QED BY <1>3, <1>4, <1>6, <1>7, <1>10, <1>11 DEF CallStep

\* Every step of the program and its calls keeps the discipline.
LEMMA Disciplined ==
    ASSUME IInv, [Next]_vars, NEW d \in Calls
    PROVE  Discipline(call[d], call'[d])
<1>1. CASE \E c \in Calls : CallStep(c)
    <2> PICK c \in Calls : CallStep(c)
        BY <1>1
    <2>1. CASE d = c
        BY <2>1, StepDisciplined
    <2>2. CASE d # c
        BY <2>2, StepDisciplined DEF Discipline
    <2> QED BY <2>1, <2>2
<1>2. CASE UNCHANGED call
    BY <1>2 DEF Discipline
<1> QED BY <1>1, <1>2 DEF Next, vars, Report, ProgramSettles

\* Once a write is decided or its program answered, none of its requests leaves.
THEOREM NothingLeavesAfterHolds == Spec => NothingLeavesAfter
<1> DEFINE Over(c) == call[c].phase \in {"settling", "ended"} \/ run = "reported"
<1>1. ASSUME IInv, [Next]_vars, NEW c \in Calls, Over(c)
      PROVE  Dispatched(call'[c]) \subseteq Dispatched(call[c])
    BY <1>1, Disciplined, CallFacts DEF Discipline, Sound
<1>2. IInv /\ [Next]_vars =>
        [\A c \in Calls : Over(c) => Dispatched(call'[c]) \subseteq Dispatched(call[c])]_vars
    BY <1>1
<1> QED BY AlwaysIInv, <1>2, PTL DEF Spec, NothingLeavesAfter

\* Once the program has settled, no write enters its connector.
THEOREM SettledProgramSendsNothingHolds == Spec => SettledProgramSendsNothing
<1>1. IInv /\ [Next]_vars =>
        [run # "running" => \A c \in Calls : call'[c].open => call[c].open]_vars
    BY Disciplined DEF Discipline
<1> QED BY AlwaysIInv, <1>1, PTL DEF Spec, SettledProgramSendsNothing

\* Nothing of a program happens late, however far it had come.
THEOREM NothingLateHolds == Spec => NothingLate
BY NothingLeavesAfterHolds, SettledProgramSendsNothingHolds, PTL DEF NothingLate
=================================================================================
