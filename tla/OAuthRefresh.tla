----------------------------- MODULE OAuthRefresh -----------------------------
(***************************************************************************)
(* Redeeming one downstream OAuth refresh token across isolates,           *)
(* src/src/auth/downstream-oauth/refresh-records.ts and                    *)
(* refresh-coordinator.ts, with the grant writes of grant-store.ts.        *)
(*                                                                         *)
(* Isolates share only a key-value store with compareAndSet. Every storage *)
(* operation is a step of its own: other isolates, a crash, an operator's  *)
(* reset and a new consent may come between any two. A read-then-CAS loop  *)
(* takes effect at the CAS that succeeds, when the record is the one it    *)
(* read, so the loop is one step.                                          *)
(***************************************************************************)
EXTENDS Naturals, Sequences, FiniteSets

CONSTANTS
    Redeemers,      \* redeem() calls; each claims under a holder of its own
    Tokens,         \* refresh tokens, standing for their digests
    MaxEpoch,       \* bound on resets
    MaxGen,         \* bound on token responses
    MaxConsents,    \* bound on code exchanges
    Faults,         \* what may go wrong in this instance
    None

FaultKinds == {"crash", "lost", "refuse", "expire", "storage", "reset", "skew", "reissue"}

ASSUME BoundsNatural == MaxEpoch \in Nat \ {0} /\ MaxGen \in Nat \ {0} /\ MaxConsents \in Nat
ASSUME FaultsKnown == Faults \subseteq FaultKinds

VARIABLES
    grant,      \* GRANT: epoch, tokens and refreshConsent
    lease,      \* refresh lease per epoch and token
    spent,      \* spent record per token, the same in every epoch
    active,     \* holders whose liveness key is stored
    lapsed,     \* holders whose claim has expired
    pc,         \* where each redemption stands
    mem,        \* what each redemption holds in memory
    consent,    \* a code exchange under way
    consents,   \* code exchanges so far
    responses,  \* the token responses so far; an access token is its place here
    unanswered, \* history: tokens sent in a request that has no answer
    unstored    \* history: tokens not stored in the grant since their last send or answer

storage == <<grant, lease, spent, active, lapsed>>
history == <<responses, unanswered, unstored>>
consenting == <<consent, consents>>
vars == <<storage, pc, mem, consenting, history>>

Epochs == 1 .. MaxEpoch
Held == [refresh : Tokens, access : 1 .. MaxGen]

SpentRecord == [epoch : Epochs, holder : Redeemers, state : {"outstanding", "ambiguous", "resolved"}]

\* refreshConsent: the token and the exact spent record the consent observed.
Receipt == [token : Tokens, resolution : SpentRecord]

Grant == [epoch : Epochs, tokens : Held \cup {None}, consent : Receipt \cup {None}]

\* A stored "dispatched" record with `completed` or with a verdict is in a
\* state of its own here. digest stands for the tokens it is the digest of.
LeaseRecord ==
    [holder : Redeemers, state : {"claimed", "dispatched", "completed", "dead"},
     digest : Held \cup {None}, predecessor : Redeemers \cup {None}]

Cleanup == {"resolve", "settle", "forget", "discard"}

Verdict == [resolution : {"ambiguous", "resolved"}, digest : Held \cup {None}]

Memory ==
    [epoch : Epochs,                        \* of refresh()
     sendEpoch : Epochs,                    \* of dispatchRefresh()
     requested : Tokens \cup {None},
     basis : [epoch : Epochs, access : 0 .. MaxGen],     \* refreshBasis
     lease : LeaseRecord \cup {None},       \* as last read or written
     grant : Grant \cup {None},             \* as last polled
     spent : SpentRecord \cup {None},       \* spentExpected
     got : Held \cup {None},                \* the accepted answer
     todo : Seq(Cleanup),                   \* what is left of the cleanup
     verdict : Verdict]                     \* what the cleanup records

ASSUME NoneIsFresh ==
    None \notin Redeemers \cup Tokens \cup Held \cup SpentRecord \cup Receipt \cup Grant \cup LeaseRecord

Fresh ==
    [epoch |-> 1, sendEpoch |-> 1, requested |-> None, basis |-> [epoch |-> 1, access |-> 0],
     lease |-> None, grant |-> None, spent |-> None, got |-> None, todo |-> <<>>,
     verdict |-> [resolution |-> "ambiguous", digest |-> None]]

Over == {"done", "crashed"}
Steps == Over \cup
         {"idle", "epoch", "tokens", "pollLease", "pollGrant", "pollSpent", "liveness",
          "condemn", "ambiguous", "recheck", "orphan", "orphaned", "claim", "verify", "unclaim",
          "activate", "dispatch", "spend", "send", "sent", "store", "closing"}

\* The shape of every variable.
TypeOK ==
    /\ grant \in Grant
    /\ lease \in [Epochs -> [Tokens -> LeaseRecord \cup {None}]]
    /\ spent \in [Tokens -> SpentRecord \cup {None}]
    /\ active \subseteq Redeemers
    /\ lapsed \subseteq Redeemers
    /\ pc \in [Redeemers -> Steps]
    /\ mem \in [Redeemers -> Memory]
    /\ consent \in [epoch : Epochs, tokens : Held, receipt : Receipt \cup {None},
                    observed : BOOLEAN] \cup {None}
    /\ consents \in 0 .. MaxConsents
    /\ responses \in Seq([epoch : Epochs, refresh : Tokens]) /\ Len(responses) <= MaxGen
    /\ unanswered \subseteq Tokens
    /\ unstored \subseteq Tokens

Init ==
    /\ grant = [epoch |-> 1, tokens |-> None, consent |-> None]
    /\ lease = [e \in Epochs |-> [t \in Tokens |-> None]]
    /\ spent = [t \in Tokens |-> None]
    /\ active = {}
    /\ lapsed = {}
    /\ pc = [h \in Redeemers |-> "idle"]
    /\ mem = [h \in Redeemers |-> Fresh]
    /\ consent = None
    /\ consents = 0
    /\ responses = <<>>
    /\ unanswered = {}
    /\ unstored = {}

-----------------------------------------------------------------------------
(* Helpers. *)

LeaseOf(h) == lease[mem[h].epoch][mem[h].requested]
SetLease(h, record) == lease' = [lease EXCEPT ![mem[h].epoch][mem[h].requested] = record]
SetSpent(t, record) == spent' = [spent EXCEPT ![t] = record]
Goto(h, step) == pc' = [pc EXCEPT ![h] = step]

End(h, step) ==
    /\ Goto(h, step)
    /\ mem' = [mem EXCEPT ![h] = Fresh]

\* Begin the cleanup `steps`, which records the verdict.
CleanUp(h, steps, resolution, digest) ==
    /\ Goto(h, "closing")
    /\ mem' = [mem EXCEPT ![h].todo = steps,
                          ![h].verdict = [resolution |-> resolution, digest |-> digest]]

Discard(h) == CleanUp(h, <<"discard">>, "ambiguous", None)

\* refreshedSinceRead(): another response replaced the access token this flow read.
RefreshedSinceRead(h, tokens) ==
    mem[h].basis.epoch = mem[h].epoch /\ mem[h].basis.access # tokens.access

\* The stored tokens are still the ones this redemption is about.
Current(h, tokens) ==
    /\ tokens # None
    /\ tokens.refresh = mem[h].requested
    /\ ~RefreshedSinceRead(h, tokens)

\* The lease proves that exactly these tokens were committed.
Committed(record, tokens) ==
    /\ record # None
    /\ \/ record.state = "completed"
       \/ record.state = "claimed" /\ record.predecessor # None
    /\ record.digest = tokens

ProvenHolder(record) == IF record.state = "completed" THEN record.holder ELSE record.predecessor

\* A spent token may be sent again after its own commit, or when a later
\* consent observed the resolution that is still stored.
MaySpend(h, record, g, s) ==
    s # None =>
        /\ s.state = "resolved"
        /\ \/ /\ Committed(record, g.tokens)
              /\ s.epoch = mem[h].epoch
              /\ s.holder = ProvenHolder(record)
           \/ /\ s.epoch # mem[h].epoch
              /\ g.consent = [token |-> mem[h].requested, resolution |-> s]

-----------------------------------------------------------------------------
(* refresh(): read the tokens, then redeem them. *)

\* tokens(): the SDK reads the grant it will refresh.
ReadTokens(h) ==
    /\ pc[h] = "idle"
    /\ grant.tokens # None
    /\ mem' = [mem EXCEPT ![h].requested = grant.tokens.refresh,
                          ![h].basis = [epoch |-> grant.epoch, access |-> grant.tokens.access]]
    /\ Goto(h, "epoch")
    /\ UNCHANGED <<storage, consenting, history>>

FlowEpoch(h) ==
    /\ pc[h] = "epoch"
    /\ mem' = [mem EXCEPT ![h].epoch = grant.epoch]
    /\ Goto(h, "tokens")
    /\ UNCHANGED <<storage, consenting, history>>

\* Tokens replaced meanwhile are adopted, tokens that are gone end the refresh.
StoredTokens(h) ==
    /\ pc[h] = "tokens"
    /\ \/ Current(h, grant.tokens) /\ Goto(h, "pollLease") /\ UNCHANGED mem
       \/ ~Current(h, grant.tokens) /\ End(h, "done")
    /\ UNCHANGED <<storage, consenting, history>>

(* claimRefresh(): poll the lease, then the grant, then the spent record. *)

PollLease(h) ==
    /\ pc[h] = "pollLease"
    /\ mem' = [mem EXCEPT ![h].lease = LeaseOf(h)]
    /\ Goto(h, "pollGrant")
    /\ UNCHANGED <<storage, consenting, history>>

\* A flow bound to its epoch ends when the epoch is over.
PollGrant(h) ==
    /\ pc[h] = "pollGrant"
    /\ \/ /\ mem' = [mem EXCEPT ![h].grant = grant]
          /\ Goto(h, "pollSpent")
       \/ /\ grant.epoch # mem[h].epoch
          /\ End(h, "done")
    /\ UNCHANGED <<storage, consenting, history>>

\* The last read of the poll, and what the poll makes of all three.
PollSpent(h) ==
    LET record == mem[h].lease
        g == mem[h].grant
        s == spent[mem[h].requested]
        completed == Committed(record, g.tokens) /\ record.state = "completed"
        refused == record # None
                   /\ (record.state = "dead" \/ (record.state = "completed" /\ ~completed))
        sent == record # None /\ record.state = "dispatched"
        claimed == record # None /\ ~completed /\ record.holder \notin lapsed
    IN
    /\ pc[h] = "pollSpent"
    /\ \/ ~Current(h, g.tokens) /\ End(h, "done")
       \/ Current(h, g.tokens) /\ refused /\ Discard(h)
       \/ Current(h, g.tokens) /\ sent /\ Goto(h, "liveness") /\ UNCHANGED mem
       \/ /\ Current(h, g.tokens) /\ ~refused /\ ~sent
          /\ mem' = [mem EXCEPT ![h].spent = s]
          /\ \/ ~MaySpend(h, record, g, s) /\ Goto(h, "recheck")
             \/ MaySpend(h, record, g, s) /\ ~claimed /\ Goto(h, "claim")
             \/ MaySpend(h, record, g, s) /\ claimed /\ Goto(h, "pollLease")
    /\ UNCHANGED <<storage, consenting, history>>

\* Fault: a sent request is waited for whatever became of its holder.
ReadLivenessNever(h) ==
    /\ pc[h] = "liveness"
    /\ Goto(h, "pollLease")
    /\ UNCHANGED <<storage, mem, consenting, history>>

\* Another holder's request was sent: only the storage-owned key tells whether
\* that holder still lives.
ReadLiveness(h) ==
    /\ pc[h] = "liveness"
    /\ Goto(h, IF mem[h].lease.holder \in active THEN "pollLease" ELSE "condemn")
    /\ UNCHANGED <<storage, mem, consenting, history>>

\* The sent request of a vanished holder: refuse its lease, once.
Condemn(h) ==
    /\ pc[h] = "condemn"
    /\ \/ /\ LeaseOf(h) = mem[h].lease
          /\ SetLease(h, [mem[h].lease EXCEPT !.state = "dead"])
          /\ Goto(h, "ambiguous")
       \/ /\ LeaseOf(h) # mem[h].lease
          /\ Goto(h, "pollLease")
          /\ UNCHANGED lease
    /\ UNCHANGED <<grant, spent, active, lapsed, mem, consenting, history>>

\* resolveRefreshSpent(), for the vanished holder.
ResolveVanished(h) ==
    LET s == spent[mem[h].requested] IN
    /\ pc[h] = "ambiguous"
    /\ IF s # None /\ s.state = "outstanding" /\ s.holder = mem[h].lease.holder
       THEN SetSpent(mem[h].requested, [s EXCEPT !.state = "ambiguous"])
       ELSE UNCHANGED spent
    /\ Discard(h)
    /\ UNCHANGED <<grant, lease, active, lapsed, consenting, history>>

\* Fault: the poll's reads decide, although the lease may have moved on since.
RecheckNothing(h) ==
    /\ pc[h] = "recheck"
    /\ Discard(h)
    /\ UNCHANGED <<storage, consenting, history>>

\* A spent token that may not be sent: unless the lease moved on since the
\* poll, the grant is refused.
Recheck(h) ==
    /\ pc[h] = "recheck"
    /\ \/ LeaseOf(h) # mem[h].lease /\ Goto(h, "pollLease") /\ UNCHANGED mem
       \/ /\ LeaseOf(h) = mem[h].lease
          /\ \/ mem[h].spent.state = "outstanding" /\ Goto(h, "orphan") /\ UNCHANGED mem
             \/ mem[h].spent.state # "outstanding" /\ Discard(h)
    /\ UNCHANGED <<storage, consenting, history>>

\* An outstanding send whose lease is another epoch's or was swept: the read
\* of its holder's liveness key, and the CAS that a missing key allows.
ReadOrphan(h) ==
    /\ pc[h] = "orphan"
    /\ \/ mem[h].spent.holder \in active /\ Discard(h)
       \/ mem[h].spent.holder \notin active /\ Goto(h, "orphaned") /\ UNCHANGED mem
    /\ UNCHANGED <<storage, consenting, history>>

MarkOrphan(h) ==
    /\ pc[h] = "orphaned"
    /\ IF spent[mem[h].requested] = mem[h].spent
       THEN SetSpent(mem[h].requested, [mem[h].spent EXCEPT !.state = "ambiguous"])
       ELSE UNCHANGED spent
    /\ Discard(h)
    /\ UNCHANGED <<grant, lease, active, lapsed, consenting, history>>

\* The claim, which keeps the proof of the commit it follows.
ClaimOf(h) ==
    LET record == mem[h].lease
        follows == Committed(record, mem[h].grant.tokens)
    IN  [holder |-> h, state |-> "claimed",
         digest |-> IF follows THEN record.digest ELSE None,
         predecessor |-> IF follows THEN ProvenHolder(record) ELSE None]

Claim(h) ==
    /\ pc[h] = "claim"
    /\ \/ /\ LeaseOf(h) = mem[h].lease
          /\ SetLease(h, ClaimOf(h))
          /\ mem' = [mem EXCEPT ![h].lease = ClaimOf(h)]
          /\ Goto(h, "verify")
       \/ /\ LeaseOf(h) # mem[h].lease
          /\ Goto(h, "pollLease")
          /\ UNCHANGED <<lease, mem>>
    /\ UNCHANGED <<grant, spent, active, lapsed, consenting, history>>

\* Tokens replaced before the claim: give it back and adopt them. So does a
\* flow bound to an epoch that is over.
Verify(h) ==
    /\ pc[h] = "verify"
    /\ \/ Current(h, grant.tokens) /\ Goto(h, "activate")
       \/ ~Current(h, grant.tokens) /\ Goto(h, "unclaim")
       \/ grant.epoch # mem[h].epoch /\ Goto(h, "unclaim")
    /\ UNCHANGED <<storage, mem, consenting, history>>

\* releaseRefresh() of an unsent claim restores the proof it replaced.
Unclaim(h) ==
    LET mine == mem[h].lease IN
    /\ pc[h] = "unclaim"
    /\ IF LeaseOf(h) = mine
       THEN SetLease(h, IF mine.predecessor = None THEN None
                        ELSE [mine EXCEPT !.holder = mine.predecessor, !.state = "completed"])
       ELSE UNCHANGED lease
    /\ End(h, "done")
    /\ UNCHANGED <<grant, spent, active, lapsed, consenting, history>>

\* The preparation's deadline has passed, so that nothing is released, or the
\* CAS fails, which is swallowed: the claim stays until it expires.
UnclaimFails(h) ==
    /\ "storage" \in Faults
    /\ pc[h] = "unclaim"
    /\ End(h, "done")
    /\ UNCHANGED <<storage, consenting, history>>

-----------------------------------------------------------------------------
(* dispatchRefresh() *)

\* A flow that knows no epoch yet reads it again.
Activate(h) ==
    /\ pc[h] = "activate"
    /\ \E e \in {mem[h].epoch, grant.epoch} : mem' = [mem EXCEPT ![h].sendEpoch = e]
    /\ active' = active \cup {h}
    /\ Goto(h, "dispatch")
    /\ UNCHANGED <<grant, lease, spent, lapsed, consenting, history>>

\* The read of the grant, the liveness key or the dispatch CAS fails.
PrepareFails(h) ==
    /\ "storage" \in Faults
    /\ pc[h] \in {"verify", "activate", "dispatch"}
    /\ Goto(h, "unclaim")
    /\ UNCHANGED <<storage, mem, consenting, history>>

Sending(h) == [mem[h].lease EXCEPT !.state = "dispatched"]

Dispatch(h) ==
    /\ pc[h] = "dispatch"
    /\ \/ /\ LeaseOf(h) = mem[h].lease
          /\ SetLease(h, Sending(h))
          /\ mem' = [mem EXCEPT ![h].lease = Sending(h)]
          /\ Goto(h, "spend")
       \/ /\ LeaseOf(h) # mem[h].lease
          /\ Goto(h, "unclaim")
          /\ UNCHANGED <<lease, mem>>
    /\ UNCHANGED <<grant, spent, active, lapsed, consenting, history>>

\* The CAS was applied and its answer lost: the cleanup still has the claim.
DispatchAnswerLost(h) ==
    /\ "storage" \in Faults
    /\ pc[h] = "dispatch"
    /\ LeaseOf(h) = mem[h].lease
    /\ SetLease(h, Sending(h))
    /\ Goto(h, "unclaim")
    /\ UNCHANGED <<grant, spent, active, lapsed, mem, consenting, history>>

Outstanding(h) == [epoch |-> mem[h].sendEpoch, holder |-> h, state |-> "outstanding"]
Release == <<"resolve", "settle">>

\* Fault: the lease is taken for leave to send.
SpendUnchecked(h) ==
    /\ pc[h] = "spend"
    /\ SetSpent(mem[h].requested, Outstanding(h))
    /\ Goto(h, "send")
    /\ UNCHANGED <<grant, lease, active, lapsed, mem, consenting, history>>

\* One CAS owns the token across epochs and generations.
Spend(h) ==
    /\ pc[h] = "spend"
    /\ \/ /\ spent[mem[h].requested] = mem[h].spent
          /\ SetSpent(mem[h].requested, Outstanding(h))
          /\ Goto(h, "send")
          /\ UNCHANGED mem
       \/ /\ spent[mem[h].requested] # mem[h].spent
          /\ CleanUp(h, Append(Release, "discard"), "ambiguous", None)
          /\ UNCHANGED spent
    /\ UNCHANGED <<grant, lease, active, lapsed, consenting, history>>

\* The CAS was submitted and its answer lost: it may have been applied.
SpendAnswerLost(h) ==
    /\ "storage" \in Faults
    /\ pc[h] = "spend"
    /\ \/ /\ spent[mem[h].requested] = mem[h].spent
          /\ SetSpent(mem[h].requested, Outstanding(h))
       \/ UNCHANGED spent
    /\ CleanUp(h, Append(Release, "discard"), "ambiguous", None)
    /\ UNCHANGED <<grant, lease, active, lapsed, consenting, history>>

Send(h) ==
    /\ pc[h] = "send"
    /\ unanswered' = unanswered \cup {mem[h].requested}
    /\ unstored' = unstored \cup {mem[h].requested}
    /\ Goto(h, "sent")
    /\ UNCHANGED <<storage, mem, consenting, responses>>

-----------------------------------------------------------------------------
(* redeem(): the answer. *)

\* The authorization server answers with a token, the one `kept` or a new one;
\* with "reissue" perhaps one it has handed out before.
Issue(e, t, kept) ==
    /\ Len(responses) < MaxGen
    /\ t # kept /\ "reissue" \notin Faults => \A i \in DOMAIN responses : responses[i].refresh # t
    /\ responses' = Append(responses, [epoch |-> e, refresh |-> t])

Answered(h) ==
    /\ unanswered' = unanswered \ {mem[h].requested}
    /\ unstored' = unstored \cup {mem[h].requested}

\* Accepted, with another refresh token or the same one.
Accepted(h) ==
    /\ pc[h] = "sent"
    /\ \E t \in Tokens :
        /\ Issue(mem[h].epoch, t, mem[h].requested)
        /\ mem' = [mem EXCEPT ![h].got = [refresh |-> t, access |-> Len(responses) + 1]]
    /\ Answered(h)
    /\ Goto(h, "store")
    /\ UNCHANGED <<storage, consenting>>

\* Refused: the grant is dropped first, while the lease still stands.
RefusedByServer(h) ==
    /\ "refuse" \in Faults
    /\ pc[h] = "sent"
    /\ Answered(h)
    /\ CleanUp(h, <<"discard">> \o Release, "resolved", None)
    /\ UNCHANGED <<storage, consenting, responses>>

\* Fault: a request without an answer counts as failed.
NoAnswerResolved(h) ==
    /\ "lost" \in Faults
    /\ pc[h] = "sent"
    /\ CleanUp(h, Append(Release, "discard"), "resolved", None)
    /\ UNCHANGED <<storage, consenting, history>>

\* A timeout, or a connection that broke: nobody knows what the server did.
NoAnswer(h) ==
    /\ "lost" \in Faults
    /\ pc[h] = "sent"
    /\ CleanUp(h, Append(Release, "discard"), "ambiguous", None)
    /\ UNCHANGED <<storage, consenting, history>>

StoredAgain(tokens) == unstored' = unstored \ {tokens.refresh}

\* Fault: the answer is stored over the same refresh token in whatever epoch.
StoreUnfenced(h) ==
    /\ pc[h] = "store"
    /\ grant.tokens # None
    /\ grant.tokens.refresh = mem[h].requested
    /\ grant' = [grant EXCEPT !.tokens = mem[h].got]
    /\ StoredAgain(mem[h].got)
    /\ CleanUp(h, Release, "resolved", mem[h].got)
    /\ UNCHANGED <<lease, spent, active, lapsed, consenting, responses, unanswered>>

\* storeRefresh(): in the same epoch and over the same refresh token only.
Store(h) ==
    LET mine == grant.epoch = mem[h].epoch
        same == grant.tokens # None /\ grant.tokens.refresh = mem[h].requested
    IN
    /\ pc[h] = "store"
    /\ \/ /\ mine /\ same
          /\ grant' = [grant EXCEPT !.tokens = mem[h].got]
          /\ StoredAgain(mem[h].got)
          /\ CleanUp(h, Release, "resolved", mem[h].got)
       \/ /\ ~(mine /\ same)
          /\ CleanUp(h, Release, "resolved", IF mine THEN grant.tokens ELSE None)
          /\ UNCHANGED <<grant, unstored>>
    /\ UNCHANGED <<lease, spent, active, lapsed, consenting, responses, unanswered>>

\* Every attempt failed; the last one's write may have been applied.
StoreFails(h) ==
    /\ "storage" \in Faults
    /\ pc[h] = "store"
    /\ \/ /\ grant.epoch = mem[h].epoch
          /\ grant.tokens # None
          /\ grant.tokens.refresh = mem[h].requested
          /\ grant' = [grant EXCEPT !.tokens = mem[h].got]
          /\ StoredAgain(mem[h].got)
       \/ UNCHANGED <<grant, unstored>>
    /\ CleanUp(h, Append(Release, "discard"), "resolved", None)
    /\ UNCHANGED <<lease, spent, active, lapsed, consenting, responses, unanswered>>

-----------------------------------------------------------------------------
(* releaseRefresh() and discardRefusedGrant(), one write at a time. *)

Doing(h, step) == pc[h] = "closing" /\ Head(mem[h].todo) = step

ProceedWith(h, steps) ==
    \/ steps = <<>> /\ End(h, "done")
    \/ steps # <<>> /\ mem' = [mem EXCEPT ![h].todo = steps] /\ UNCHANGED pc

Proceed(h) == ProceedWith(h, Tail(mem[h].todo))

\* A cleanup write that storage refuses is swallowed; the next one follows.
Swallowed(h) ==
    /\ "storage" \in Faults
    /\ pc[h] = "closing"
    /\ Proceed(h)
    /\ UNCHANGED <<storage, consenting, history>>

\* Fault: the outcome is written without comparing what is stored.
ResolveSpentBlind(h) ==
    /\ Doing(h, "resolve")
    /\ SetSpent(mem[h].requested, [Outstanding(h) EXCEPT !.state = mem[h].verdict.resolution])
    /\ Proceed(h)
    /\ UNCHANGED <<grant, lease, active, lapsed, consenting, history>>

\* resolveRefreshSpent(): only this holder's outstanding send.
ResolveSpent(h) ==
    /\ Doing(h, "resolve")
    /\ IF spent[mem[h].requested] = Outstanding(h)
       THEN SetSpent(mem[h].requested, [Outstanding(h) EXCEPT !.state = mem[h].verdict.resolution])
       ELSE UNCHANGED spent
    /\ Proceed(h)
    /\ UNCHANGED <<grant, lease, active, lapsed, consenting, history>>

\* Tokens complete the lease, anything else is a verdict. Only a lease that
\* was settled gives up its liveness key; otherwise the key expires.
SettleLease(h) ==
    LET digest == mem[h].verdict.digest IN
    /\ Doing(h, "settle")
    /\ \/ /\ LeaseOf(h) = mem[h].lease
          /\ SetLease(h, [mem[h].lease EXCEPT !.state = IF digest = None THEN "dead" ELSE "completed",
                                              !.digest = digest])
          /\ ProceedWith(h, <<"forget">> \o Tail(mem[h].todo))
       \/ /\ LeaseOf(h) # mem[h].lease
          /\ UNCHANGED lease
          /\ Proceed(h)
    /\ UNCHANGED <<grant, spent, active, lapsed, consenting, history>>

ForgetActive(h) ==
    /\ Doing(h, "forget")
    /\ active' = active \ {h}
    /\ Proceed(h)
    /\ UNCHANGED <<grant, lease, spent, lapsed, consenting, history>>

DiscardRefusedGrant(h) ==
    /\ Doing(h, "discard")
    /\ grant' = IF grant.epoch = mem[h].epoch /\ grant.tokens # None
                    /\ grant.tokens.refresh = mem[h].requested
                THEN [grant EXCEPT !.tokens = None] ELSE grant
    /\ Proceed(h)
    /\ UNCHANGED <<lease, spent, active, lapsed, consenting, history>>

-----------------------------------------------------------------------------
(* The environment. *)

\* The isolate is lost, or a deadline interrupts it where no cleanup follows.
Crash(h) ==
    /\ "crash" \in Faults
    /\ pc[h] \notin Over \cup {"idle"}
    /\ End(h, "crashed")
    /\ UNCHANGED <<storage, consenting, history>>

\* The storage-owned TTL of a liveness key runs out. Its 120 s outlast the
\* deadlines of a holder that runs; with "expire" not even those hold.
ActiveExpires(h) ==
    /\ h \in active
    /\ pc[h] \in Over \/ "expire" \in Faults
    /\ active' = active \ {h}
    /\ UNCHANGED <<grant, lease, spent, lapsed, pc, mem, consenting, history>>

\* An unsent claim passes its expiry. Its 120 s outlast its holder's 35 s of
\* preparation unless the isolates' clocks disagree.
ClaimExpires(h) ==
    /\ h \notin lapsed
    /\ \E e \in Epochs, t \in Tokens :
        lease[e][t] # None /\ lease[e][t].holder = h /\ lease[e][t].state = "claimed"
    /\ pc[h] \in Over \/ "skew" \in Faults
    /\ lapsed' = lapsed \cup {h}
    /\ UNCHANGED <<grant, lease, spent, active, pc, mem, consenting, history>>

\* Restart or Disconnect: a new epoch without credentials.
PerformReset ==
    /\ "reset" \in Faults
    /\ grant.epoch < MaxEpoch
    /\ grant' = [epoch |-> grant.epoch + 1, tokens |-> None, consent |-> None]
    /\ UNCHANGED <<lease, spent, active, lapsed, pc, mem, consenting, history>>

\* The reset goes on to remove the leases of every other epoch.
SweepRefreshLeases ==
    /\ \E e \in Epochs, t \in Tokens :
        /\ e < grant.epoch
        /\ lease[e][t] # None
        /\ lease' = [lease EXCEPT ![e][t] = None]
    /\ UNCHANGED <<grant, spent, active, lapsed, pc, mem, consenting, history>>

\* A code exchange is answered, in the epoch it is bound to.
ExchangeAnswered ==
    /\ consent = None
    /\ consents < MaxConsents
    /\ consents' = consents + 1
    /\ \E t \in Tokens :
        /\ Issue(grant.epoch, t, None)
        /\ consent' = [epoch |-> grant.epoch, receipt |-> None, observed |-> FALSE,
                       tokens |-> [refresh |-> t, access |-> Len(responses) + 1]]
    /\ UNCHANGED <<storage, pc, mem, unanswered, unstored>>

\* recordCodeExchangeTokens(): the resolution that precedes this consent.
RecordCodeExchangeTokens ==
    LET t == consent.tokens.refresh IN
    /\ consent # None
    /\ ~consent.observed
    /\ \E receipt \in {None, [token |-> t, resolution |-> spent[t]]} :
        /\ receipt # None <=> spent[t] # None /\ spent[t].state = "resolved"
        /\ consent' = [consent EXCEPT !.observed = TRUE, !.receipt = receipt]
    /\ UNCHANGED <<storage, pc, mem, consents, history>>

\* saveTokens(): fenced on the epoch.
SaveTokens ==
    /\ consent # None
    /\ consent.observed
    /\ \/ /\ grant.epoch = consent.epoch
          /\ grant' = [grant EXCEPT !.tokens = consent.tokens, !.consent = consent.receipt]
          /\ StoredAgain(consent.tokens)
       \/ /\ grant.epoch # consent.epoch
          /\ UNCHANGED <<grant, unstored>>
    /\ consent' = None
    /\ UNCHANGED <<lease, spent, active, lapsed, pc, mem, consents, responses, unanswered>>

Works(h) ==
    \/ FlowEpoch(h) \/ StoredTokens(h)
    \/ PollLease(h) \/ PollGrant(h) \/ PollSpent(h)
    \/ ReadLiveness(h) \/ Condemn(h) \/ ResolveVanished(h)
    \/ Recheck(h) \/ ReadOrphan(h) \/ MarkOrphan(h)
    \/ Claim(h) \/ Verify(h) \/ Unclaim(h) \/ UnclaimFails(h)
    \/ Activate(h) \/ PrepareFails(h) \/ Dispatch(h) \/ DispatchAnswerLost(h)
    \/ Spend(h) \/ SpendAnswerLost(h) \/ Send(h)
    \/ Accepted(h) \/ RefusedByServer(h) \/ NoAnswer(h) \/ Store(h) \/ StoreFails(h)
    \/ Swallowed(h) \/ ResolveSpent(h) \/ SettleLease(h) \/ ForgetActive(h)
    \/ DiscardRefusedGrant(h)

Expires(h) == ActiveExpires(h) \/ ClaimExpires(h)

Next ==
    \/ \E h \in Redeemers : ReadTokens(h) \/ Works(h) \/ Crash(h) \/ Expires(h)
    \/ PerformReset \/ SweepRefreshLeases
    \/ ExchangeAnswered \/ RecordCodeExchangeTokens \/ SaveTokens

Spec == Init /\ [][Next]_vars

\* A coordinator that runs keeps running (its promise is handed to waitUntil),
\* and what has expired is seen to have.
FairSpec ==
    /\ Spec
    /\ \A h \in Redeemers :
        WF_vars(Works(h)) /\ WF_vars(ActiveExpires(h)) /\ WF_vars(ClaimExpires(h))

-----------------------------------------------------------------------------
(* Properties. *)

\* A refresh token is sent only when no earlier request that carried it is
\* without an answer, and only if the grant was given it after its last answer.
\* Whatever crashes, expires, gets lost, is reset or consented to in between,
\* dispatchRefresh() never sends a token the server may have consumed.
NoReplay ==
    [][\A h \in Redeemers : pc[h] = "send" /\ pc'[h] = "sent" =>
          mem[h].requested \notin unanswered \cup unstored]_vars

\* A token whose request has no answer is blocked in storage: its spent record
\* stays outstanding or ambiguous, so no claim in any epoch may spend it.
UnansweredBlocked ==
    \A t \in unanswered : spent[t] # None /\ spent[t].state \in {"outstanding", "ambiguous"}

\* A late answer never turns an ambiguous spent record into a resolved one, nor
\* does any claim replace it.
AmbiguousIsFinal ==
    [][\A t \in Tokens : spent[t] # None /\ spent[t].state = "ambiguous" => spent'[t] = spent[t]]_vars

\* Tokens asked for in one epoch are never the grant of another: a restart or
\* disconnect fences the answers still on their way to storeRefresh() and
\* saveTokens().
ResetFences == grant.tokens # None => responses[grant.tokens.access].epoch = grant.epoch

\* Where nothing fails, redeemers that race for one token lose no grant: none of
\* their stale reads makes claimRefresh() discard what another one committed.
GrantKept == [][grant.tokens # None => grant'.tokens # None]_vars

\* Every redemption ends, without its 35 s deadline: nobody polls for ever for a
\* lease whose holder has crashed, and no two wait for each other.
NobodyWaitsForEver == \A h \in Redeemers : pc[h] = "pollLease" ~> pc[h] \in Over
=============================================================================
