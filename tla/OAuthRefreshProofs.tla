-------------------------- MODULE OAuthRefreshProofs --------------------------
(***************************************************************************)
(* Proofs about OAuthRefresh for any number of isolates, tokens, epochs,   *)
(* responses and consents, and any faults: a token whose request has no    *)
(* answer stays blocked, an ambiguous verdict is final, no token is sent   *)
(* again unless the grant was given it since, and no answer enters the     *)
(* grant of another epoch. Where nothing fails but the clocks, no grant is *)
(* lost (GrantKept, which has an invariant of its own, KInv).              *)
(*                                                                         *)
(* A redemption decides on records it read some steps ago. The argument is *)
(* that whatever they prove is stable: a redemption past its send never    *)
(* sends again, and a token it stored is unstored again only by a sender   *)
(* whose spent record has replaced its own (Stored). So what was true of   *)
(* a lease, a receipt or a spent record when it was read is true when it   *)
(* is used (Remembers, StoredKept), and the CAS on the spent record makes  *)
(* the token the sender's until its end (SpentOwned, OwnsSend, Blocked).   *)
(***************************************************************************)
EXTENDS OAuthRefresh, TLAPS, SequenceTheorems

\* The cleanups that releaseRefresh() and discardRefusedGrant() may have left.
Todos ==
    {<<"discard">>, <<"resolve", "settle", "discard">>, <<"settle", "discard">>,
     <<"forget", "discard">>, <<"discard", "resolve", "settle">>, <<"resolve", "settle">>,
     <<"settle">>, <<"forget">>}

Claiming == {"claim", "verify", "activate", "dispatch", "spend"}

\* What a redemption has in memory at each of its steps.
PhaseAt(h, p, m) ==
    /\ p \in Over \cup {"idle"} => m = Fresh
    /\ p \notin Over \cup {"idle"} => m.requested # None
    /\ p \in {"pollSpent", "claim"} => m.grant # None
    /\ p = "claim" => m.grant.tokens # None /\ m.grant.tokens.refresh = m.requested
    /\ p \in {"liveness", "condemn", "ambiguous"} => m.lease # None
    /\ p \in {"verify", "activate", "dispatch", "unclaim"} =>
         m.lease # None /\ m.lease.holder = h /\ m.lease.state = "claimed"
    /\ p \in {"spend", "send", "sent", "store"} => m.lease # None /\ m.lease.holder = h
    /\ p = "closing" => /\ m.todo \in Todos
                        /\ m.todo # <<"discard">> => m.lease # None /\ m.lease.holder = h
    /\ p \in {"recheck", "orphan", "orphaned"} => m.spent # None
    /\ p \in {"orphan", "orphaned"} => m.spent.state = "outstanding"
    /\ p \in Claiming => m.spent = None \/ m.spent.state = "resolved"
    /\ p = "store" => m.got # None

Phase(h) == PhaseAt(h, pc[h], mem[h])

Typed == TypeOK /\ \A h \in Redeemers : Phase(h)

\* A redemption that will not send any more.
Past == Over \cup {"closing"}

\* Nothing of redemption q stands against sending the token again: q will not
\* send, and if the spent record is still its own, the token was stored since.
Stored(q, t) ==
    /\ pc[q] \in Past
    /\ spent[t] # None /\ spent[t].holder = q => t \notin unstored

\* A lease record that counts as proof of a commit.
Proves(record) ==
    \/ record.state = "completed"
    \/ record.state = "claimed" /\ record.predecessor # None

Proof(record, t) ==
    Proves(record) /\ record.digest # None /\ record.digest.refresh = t =>
        ProvenHolder(record) \in Redeemers /\ Stored(ProvenHolder(record), t)

\* A receipt is about a resolution that was final.
Received(receipt) ==
    /\ receipt.resolution.state = "resolved"
    /\ Stored(receipt.resolution.holder, receipt.token)

\* The tokens of a response are of its epoch.
Answers(tokens, e) ==
    /\ tokens.access \in 1 .. Len(responses)
    /\ responses[tokens.access].epoch = e

\* What a redemption has read stays true, however long ago it read it.
Remembers(h) ==
    LET p == pc[h]
        m == mem[h]
    IN
    /\ p \in Claiming /\ m.spent # None => Stored(m.spent.holder, m.requested)
    /\ m.lease # None => Proof(m.lease, m.requested)
    /\ m.grant # None /\ m.grant.consent # None => Received(m.grant.consent)
    /\ p = "closing" /\ m.verdict.digest # None /\ m.verdict.digest.refresh = m.requested =>
         Stored(h, m.requested)
    /\ p = "store" => Answers(m.got, m.epoch)

\* The spent record of a token about to be sent, or sent, is the sender's own.
OwnsSend(h) ==
    LET t == mem[h].requested IN
    pc[h] \in {"send", "sent"} =>
        /\ spent[t] # None /\ spent[t].holder = h /\ spent[t].state # "resolved"
        /\ pc[h] = "send" => t \notin unstored

\* The holder of a spent record has it for the token it redeems, and goes on to
\* its end while the record is not resolved.
SpentOwned ==
    \A t \in Tokens : spent[t] # None =>
        LET h == spent[t].holder IN
        /\ pc[h] \in Past \cup {"send", "sent", "store"}
        /\ pc[h] \notin Over => mem[h].requested = t
        /\ spent[t].state = "resolved" => pc[h] \in Past

\* A token without an answer has a spent record that nobody will resolve.
Blocked ==
    \A t \in unanswered :
        /\ spent[t] # None /\ spent[t].state # "resolved"
        /\ LET h == spent[t].holder IN
             \/ pc[h] \in Over \cup {"sent"}
             \/ pc[h] = "closing" /\ mem[h].verdict.resolution = "ambiguous"

UnstoredSpent == \A t \in unstored : spent[t] # None

LeasesProven == \A e \in Epochs, t \in Tokens : lease[e][t] # None => Proof(lease[e][t], t)

\* The receipt of the consent under way is final but for the answer it brings.
Receipts ==
    /\ grant.consent # None => Received(grant.consent)
    /\ consent # None =>
         /\ Answers(consent.tokens, consent.epoch)
         /\ consent.receipt # None =>
              /\ consent.receipt.token = consent.tokens.refresh
              /\ consent.receipt.resolution.state = "resolved"
              /\ pc[consent.receipt.resolution.holder] \in Past

Fenced == grant.tokens # None => Answers(grant.tokens, grant.epoch)

\* The inductive invariant.
IInv ==
    /\ Typed
    /\ \A h \in Redeemers : Remembers(h) /\ OwnsSend(h)
    /\ SpentOwned /\ Blocked /\ UnstoredSpent /\ LeasesProven /\ Receipts /\ Fenced

-----------------------------------------------------------------------------
(* Types. *)

LEMMA FreshTyped == Fresh \in Memory
<1>1. <<>> \in Seq(Cleanup)
    OBVIOUS
<1>2. 1 \in Epochs /\ 0 \in 0 .. MaxGen
    BY BoundsNatural DEF Epochs
<1> QED BY <1>1, <1>2 DEF Fresh, Memory, Verdict

LEMMA ConcatIs ==
      ASSUME NEW S, NEW a \in Seq(S), NEW b \in Seq(S), NEW c \in Seq(S), Len(c) = Len(a) + Len(b),
             \A i \in 1 .. Len(a) : c[i] = a[i], \A i \in 1 .. Len(b) : c[Len(a) + i] = b[i]
      PROVE  a \o b = c
<1>1. a \o b \in Seq(S) /\ Len(a \o b) = Len(c)
    BY ConcatProperties
<1>2. \A i \in 1 .. Len(c) : (a \o b)[i] = c[i]
    <2> SUFFICES ASSUME NEW i \in 1 .. Len(c) PROVE (a \o b)[i] = c[i]
      OBVIOUS
    <2>1. (a \o b)[i] = IF i <= Len(a) THEN a[i] ELSE b[i - Len(a)]
      BY ConcatProperties
    <2>2. CASE i <= Len(a)
      BY <2>1, <2>2
    <2>3. CASE i > Len(a)
      <3>1. i - Len(a) \in 1 .. Len(b) /\ Len(a) + (i - Len(a)) = i
        BY <2>3
      <3> QED BY <2>1, <2>3, <3>1
    <2> QED BY <2>2, <2>3
<1> QED BY <1>1, <1>2, SeqEqual

LEMMA ForgetThenDiscard == <<"forget">> \o <<"discard">> = <<"forget", "discard">>
<1> DEFINE a == <<"forget">>
<1> DEFINE b == <<"discard">>
<1> DEFINE c == <<"forget", "discard">>
<1>1. a \in Seq(Cleanup) /\ b \in Seq(Cleanup) /\ c \in Seq(Cleanup)
      BY DEF Cleanup
<1>2. Len(a) = 1 /\ Len(b) = 1 /\ Len(c) = 2 /\ c[1] = a[1] /\ c[2] = b[1]
      OBVIOUS
<1> HIDE DEF a, b, c
<1>3. \A i \in 1 .. Len(a) : c[i] = a[i]
      BY <1>2
<1>4. \A i \in 1 .. Len(b) : c[Len(a) + i] = b[i]
      BY <1>2
<1>5. a \o b = c
      <2>1. Len(c) = Len(a) + Len(b)
          BY <1>2
      <2> QED BY <1>1, <1>3, <1>4, <2>1, ConcatIs
<1> QED BY <1>5 DEF a, b, c

LEMMA DiscardThenRelease == <<"discard">> \o <<"resolve", "settle">> = <<"discard", "resolve", "settle">>
<1> DEFINE a == <<"discard">>
<1> DEFINE b == <<"resolve", "settle">>
<1> DEFINE c == <<"discard", "resolve", "settle">>
<1>1. a \in Seq(Cleanup) /\ b \in Seq(Cleanup) /\ c \in Seq(Cleanup)
      BY DEF Cleanup
<1>2. Len(a) = 1 /\ Len(b) = 2 /\ Len(c) = 3 /\ c[1] = a[1] /\ c[2] = b[1] /\ c[3] = b[2]
      OBVIOUS
<1> HIDE DEF a, b, c
<1>3. \A i \in 1 .. Len(a) : c[i] = a[i]
      BY <1>2
<1>4. \A i \in 1 .. Len(b) : c[Len(a) + i] = b[i]
      BY <1>2
<1>5. a \o b = c
      <2>1. Len(c) = Len(a) + Len(b)
          BY <1>2
      <2> QED BY <1>1, <1>3, <1>4, <2>1, ConcatIs
<1> QED BY <1>5 DEF a, b, c

LEMMA ReleaseThenDiscard == <<"resolve", "settle">> \o <<"discard">> = <<"resolve", "settle", "discard">>
<1> DEFINE a == <<"resolve", "settle">>
<1> DEFINE b == <<"discard">>
<1> DEFINE c == <<"resolve", "settle", "discard">>
<1>1. a \in Seq(Cleanup) /\ b \in Seq(Cleanup) /\ c \in Seq(Cleanup)
      BY DEF Cleanup
<1>2. Len(a) = 2 /\ Len(b) = 1 /\ Len(c) = 3 /\ c[1] = a[1] /\ c[2] = a[2] /\ c[3] = b[1]
      OBVIOUS
<1> HIDE DEF a, b, c
<1>3. \A i \in 1 .. Len(a) : c[i] = a[i]
      BY <1>2
<1>4. \A i \in 1 .. Len(b) : c[Len(a) + i] = b[i]
      BY <1>2
<1>5. a \o b = c
      <2>1. Len(c) = Len(a) + Len(b)
          BY <1>2
      <2> QED BY <1>1, <1>3, <1>4, <2>1, ConcatIs
<1> QED BY <1>5 DEF a, b, c

LEMMA TodoFacts ==
    /\ Todos \subseteq Seq(Cleanup)
    /\ \A s \in Todos : Tail(s) = <<>> \/ (Tail(s) \in Todos /\ s # <<"discard">>)
    /\ \A s \in Todos : Head(s) = "settle" => s # <<"discard">> /\ <<"forget">> \o Tail(s) \in Todos
    /\ \A s \in Todos : Head(s) \in {"resolve", "forget"} => s # <<"discard">>
    /\ <<"discard">> \in Todos /\ Release \in Todos /\ Append(Release, "discard") \in Todos
    /\ <<"discard">> \o Release \in Todos
<1>1. Todos \subseteq Seq(Cleanup)
    BY DEF Todos, Cleanup
<1>2. /\ Tail(<<"discard">>) = <<>> /\ Tail(<<"settle">>) = <<>> /\ Tail(<<"forget">>) = <<>>
      /\ Tail(<<"resolve", "settle", "discard">>) = <<"settle", "discard">>
      /\ Tail(<<"settle", "discard">>) = <<"discard">>
      /\ Tail(<<"forget", "discard">>) = <<"discard">>
      /\ Tail(<<"discard", "resolve", "settle">>) = <<"resolve", "settle">>
      /\ Tail(<<"resolve", "settle">>) = <<"settle">>
    OBVIOUS
<1>3. /\ Head(<<"discard">>) = "discard" /\ Head(<<"settle">>) = "settle" /\ Head(<<"forget">>) = "forget"
      /\ Head(<<"resolve", "settle", "discard">>) = "resolve"
      /\ Head(<<"settle", "discard">>) = "settle"
      /\ Head(<<"forget", "discard">>) = "forget"
      /\ Head(<<"discard", "resolve", "settle">>) = "discard"
      /\ Head(<<"resolve", "settle">>) = "resolve"
      /\ <<"forget">> \o <<>> = <<"forget">>
    OBVIOUS
<1>4. \A s \in Todos : Tail(s) = <<>> \/ (Tail(s) \in Todos /\ s # <<"discard">>)
    BY <1>2 DEF Todos
<1>5. \A s \in Todos : Head(s) \in {"settle", "resolve", "forget"} => s # <<"discard">>
    BY <1>3
<1>6. \A s \in Todos : Head(s) = "settle" => <<"forget">> \o Tail(s) \in Todos
    <2> SUFFICES ASSUME NEW s \in Todos, Head(s) = "settle" PROVE <<"forget">> \o Tail(s) \in Todos
        OBVIOUS
    <2>1. s = <<"settle">> \/ s = <<"settle", "discard">>
        BY <1>3 DEF Todos
    <2>2. Tail(s) = <<>> \/ Tail(s) = <<"discard">>
        BY <1>2, <2>1
    <2> QED BY <1>3, <2>2, ForgetThenDiscard DEF Todos
<1>7. Append(Release, "discard") = <<"resolve", "settle", "discard">>
    <2>1. Release \in Seq(Cleanup) /\ "discard" \in Cleanup
        BY DEF Release, Cleanup
    <2>2. Append(Release, "discard") = Release \o <<"discard">>
        BY <2>1, AppendIsConcat
    <2> QED BY <2>2, ReleaseThenDiscard DEF Release
<1>8. <<"discard">> \o Release \in Todos
    BY DiscardThenRelease DEF Todos, Release
<1> QED BY <1>1, <1>4, <1>5, <1>6, <1>7, <1>8 DEF Todos, Release

LEMMA InitTyped == Init => Typed
<1> SUFFICES ASSUME Init PROVE Typed
    OBVIOUS
<1>1. 1 \in Epochs /\ <<>> \in Seq([epoch : Epochs, refresh : Tokens]) /\ Len(<<>>) = 0 /\ 0 <= MaxGen
    BY BoundsNatural DEF Epochs
<1>2. TypeOK
    BY <1>1, FreshTyped, BoundsNatural DEF Init, TypeOK, Grant, Steps
<1>3. \A h \in Redeemers : Phase(h)
    BY DEF Init, Phase, PhaseAt, Over, Claiming
<1> QED BY <1>2, <1>3 DEF Typed

\* TypeOK but for the redemptions themselves.
SharedOK ==
    /\ grant \in Grant
    /\ lease \in [Epochs -> [Tokens -> LeaseRecord \cup {None}]]
    /\ spent \in [Tokens -> SpentRecord \cup {None}]
    /\ active \subseteq Redeemers
    /\ lapsed \subseteq Redeemers
    /\ consent \in [epoch : Epochs, tokens : Held, receipt : Receipt \cup {None},
                    observed : BOOLEAN] \cup {None}
    /\ consents \in 0 .. MaxConsents
    /\ responses \in Seq([epoch : Epochs, refresh : Tokens]) /\ Len(responses) <= MaxGen
    /\ unanswered \subseteq Tokens
    /\ unstored \subseteq Tokens

\* The redemption h goes to step p with m in memory.
Moves(h, p, m) ==
    /\ p \in Steps /\ m \in Memory /\ PhaseAt(h, p, m)
    /\ pc' = [pc EXCEPT ![h] = p]
    /\ mem' = [mem EXCEPT ![h] = m]

LEMMA MovesTyped ==
    ASSUME Typed, SharedOK', NEW h \in Redeemers, NEW p, NEW m, Moves(h, p, m)
    PROVE  Typed'
<1>1. TypeOK'
    BY DEF Typed, TypeOK, SharedOK, Moves
<1>2. \A k \in Redeemers : Phase(k)'
    <2> SUFFICES ASSUME NEW k \in Redeemers PROVE PhaseAt(k, pc'[k], mem'[k])
        BY DEF Phase
    <2>1. CASE k = h
        <3>1. pc'[k] = p /\ mem'[k] = m
            BY <2>1 DEF Moves, Typed, TypeOK
        <3> QED BY <2>1, <3>1 DEF Moves
    <2>2. CASE k # h
        <3>1. pc'[k] = pc[k] /\ mem'[k] = mem[k]
            BY <2>2 DEF Moves, Typed, TypeOK
        <3>2. PhaseAt(k, pc[k], mem[k])
            BY DEF Typed, Phase
        <3> QED BY <3>1, <3>2
    <2> QED BY <2>1, <2>2
<1> QED BY <1>1, <1>2 DEF Typed

LEMMA SharedKept == Typed /\ UNCHANGED <<storage, consenting, history>> => SharedOK'
BY DEF Typed, TypeOK, SharedOK, storage, consenting, history

LEMMA MemoryUpdates ==
    ASSUME NEW m \in Memory
    PROVE  /\ \A v \in LeaseRecord \cup {None} :
                [m EXCEPT !.lease = v] \in Memory /\ [m EXCEPT !.lease = v].lease = v
           /\ \A v \in Grant \cup {None} :
                [m EXCEPT !.grant = v] \in Memory /\ [m EXCEPT !.grant = v].grant = v
           /\ \A v \in SpentRecord \cup {None} :
                [m EXCEPT !.spent = v] \in Memory /\ [m EXCEPT !.spent = v].spent = v
           /\ \A v \in Held \cup {None} :
                [m EXCEPT !.got = v] \in Memory /\ [m EXCEPT !.got = v].got = v
           /\ \A v \in Epochs :
                [m EXCEPT !.epoch = v] \in Memory /\ [m EXCEPT !.sendEpoch = v] \in Memory
           /\ \A v \in Todos :
                [m EXCEPT !.todo = v] \in Memory /\ [m EXCEPT !.todo = v].todo = v
BY ZenonT(60), TodoFacts DEF Memory

LEMMA GotoTyped ==
    ASSUME Typed, SharedOK', NEW h \in Redeemers, NEW p \in Steps, Goto(h, p), UNCHANGED mem,
           PhaseAt(h, p, mem[h])
    PROVE  Typed'
<1>1. mem' = [mem EXCEPT ![h] = mem[h]] /\ mem[h] \in Memory
    BY DEF Typed, TypeOK
<1> QED BY <1>1, MovesTyped DEF Goto, Moves

LEMMA EndTyped ==
    ASSUME Typed, SharedOK', NEW h \in Redeemers, NEW p \in Over, End(h, p)
    PROVE  Typed'
<1>1. PhaseAt(h, p, Fresh) /\ p \in Steps
    BY DEF PhaseAt, Over, Claiming, Steps
<1> QED BY <1>1, FreshTyped, MovesTyped DEF End, Goto, Moves

LEMMA CleanUpTyped ==
    ASSUME Typed, SharedOK', NEW h \in Redeemers, NEW todo \in Todos,
           NEW r \in {"ambiguous", "resolved"}, NEW d \in Held \cup {None},
           CleanUp(h, todo, r, d), mem[h].requested # None,
           todo # <<"discard">> => mem[h].lease # None /\ mem[h].lease.holder = h
    PROVE  Typed'
<1> DEFINE v == [resolution |-> r, digest |-> d]
<1> DEFINE m == [mem[h] EXCEPT !.todo = todo, !.verdict = v]
<1>1. mem[h] \in Memory /\ v \in Verdict /\ todo \in Seq(Cleanup)
    BY TodoFacts DEF Typed, TypeOK, Verdict
<1> HIDE DEF v
<1>2. m \in Memory /\ m.todo = todo
    BY <1>1 DEF Memory
<1>3. m.requested = mem[h].requested /\ m.lease = mem[h].lease
    BY <1>1 DEF Memory
<1>4. PhaseAt(h, "closing", m)
    BY <1>2, <1>3 DEF PhaseAt, Over, Claiming
<1>5. mem' = [mem EXCEPT ![h] = m] /\ pc' = [pc EXCEPT ![h] = "closing"]
    BY DEF CleanUp, Goto, v
<1> QED BY <1>2, <1>4, <1>5, MovesTyped DEF Moves, Steps

LEMMA DiscardTyped ==
    ASSUME Typed, SharedOK', NEW h \in Redeemers, Discard(h), mem[h].requested # None
    PROVE  Typed'
BY CleanUpTyped, TodoFacts DEF Discard

LEMMA Standing ==
    ASSUME Typed, NEW h \in Redeemers
    PROVE  /\ mem[h] \in Memory /\ pc[h] \in Steps /\ PhaseAt(h, pc[h], mem[h])
           /\ grant \in Grant
           /\ pc[h] \notin Over \cup {"idle"} =>
                /\ mem[h].requested \in Tokens /\ mem[h].epoch \in Epochs
                /\ LeaseOf(h) \in LeaseRecord \cup {None}
                /\ spent[mem[h].requested] \in SpentRecord \cup {None}
<1>1. mem[h] \in Memory /\ pc[h] \in Steps /\ PhaseAt(h, pc[h], mem[h]) /\ grant \in Grant
    BY DEF Typed, TypeOK, Phase
<1>2. pc[h] \notin Over \cup {"idle"} => mem[h].requested \in Tokens /\ mem[h].epoch \in Epochs
    BY <1>1 DEF PhaseAt, Memory
<1> QED BY <1>1, <1>2 DEF Typed, TypeOK, LeaseOf

LEMMA ReadTokensTyped == ASSUME Typed, NEW h \in Redeemers, ReadTokens(h) PROVE Typed'
<1> DEFINE t == grant.tokens.refresh
<1> DEFINE b == [epoch |-> grant.epoch, access |-> grant.tokens.access]
<1> DEFINE m == [mem[h] EXCEPT !.requested = t, !.basis = b]
<1>1. mem[h] \in Memory /\ mem[h] = Fresh /\ grant \in Grant
    BY Standing DEF ReadTokens, PhaseAt
<1>2. t \in Tokens /\ b \in [epoch : Epochs, access : 0 .. MaxGen]
    BY <1>1, BoundsNatural DEF ReadTokens, Grant, Held
<1>3. mem' = [mem EXCEPT ![h] = m] /\ pc' = [pc EXCEPT ![h] = "epoch"]
    BY DEF ReadTokens, Goto
<1> HIDE DEF t, b
<1>4. m \in Memory /\ m.requested = t
    BY <1>1, <1>2 DEF Memory
<1>5. PhaseAt(h, "epoch", m)
    BY <1>2, <1>4, NoneIsFresh DEF PhaseAt, Over, Claiming
<1>6. SharedOK'
    BY SharedKept DEF ReadTokens
<1> QED BY <1>3, <1>4, <1>5, <1>6, MovesTyped DEF Moves, Steps

LEMMA FlowEpochTyped == ASSUME Typed, NEW h \in Redeemers, FlowEpoch(h) PROVE Typed'
<1> DEFINE e == grant.epoch
<1> DEFINE m == [mem[h] EXCEPT !.epoch = e]
<1>1. mem[h] \in Memory /\ mem[h].requested # None /\ e \in Epochs
    BY Standing DEF FlowEpoch, PhaseAt, Grant, Over
<1>2. mem' = [mem EXCEPT ![h] = m] /\ pc' = [pc EXCEPT ![h] = "tokens"]
    BY DEF FlowEpoch, Goto
<1> HIDE DEF e
<1>3. m \in Memory /\ m.requested = mem[h].requested
    BY <1>1 DEF Memory
<1>4. PhaseAt(h, "tokens", m)
    BY <1>1, <1>3 DEF PhaseAt, Over, Claiming
<1>5. SharedOK'
    BY SharedKept DEF FlowEpoch
<1> QED BY <1>2, <1>3, <1>4, <1>5, MovesTyped DEF Moves, Steps

LEMMA StoredTokensTyped == ASSUME Typed, NEW h \in Redeemers, StoredTokens(h) PROVE Typed'
<1>1. SharedOK'
    BY SharedKept DEF StoredTokens
<1>2. PhaseAt(h, "pollLease", mem[h])
    BY Standing DEF StoredTokens, PhaseAt, Over, Claiming
<1> QED BY <1>1, <1>2, GotoTyped, EndTyped DEF StoredTokens, Over, Steps

LEMMA PollLeaseTyped == ASSUME Typed, NEW h \in Redeemers, PollLease(h) PROVE Typed'
<1> DEFINE v == LeaseOf(h)
<1> DEFINE m == [mem[h] EXCEPT !.lease = v]
<1>1. mem[h] \in Memory /\ mem[h].requested # None /\ v \in LeaseRecord \cup {None}
    BY Standing DEF PollLease, PhaseAt, Over
<1>2. mem' = [mem EXCEPT ![h] = m] /\ pc' = [pc EXCEPT ![h] = "pollGrant"]
    BY DEF PollLease, Goto
<1> HIDE DEF v
<1>3. m \in Memory /\ m.requested = mem[h].requested
    BY <1>1 DEF Memory
<1>4. PhaseAt(h, "pollGrant", m)
    BY <1>1, <1>3 DEF PhaseAt, Over, Claiming
<1>5. SharedOK'
    BY SharedKept DEF PollLease
<1> QED BY <1>2, <1>3, <1>4, <1>5, MovesTyped DEF Moves, Steps

LEMMA PollGrantTyped == ASSUME Typed, NEW h \in Redeemers, PollGrant(h) PROVE Typed'
<1> DEFINE m == [mem[h] EXCEPT !.grant = grant]
<1>1. mem[h] \in Memory /\ mem[h].requested # None /\ grant \in Grant
    BY Standing DEF PollGrant, PhaseAt, Over
<1>2. SharedOK'
    BY SharedKept DEF PollGrant
<1>3. CASE mem' = [mem EXCEPT ![h].grant = grant] /\ Goto(h, "pollSpent")
    <2>1. mem' = [mem EXCEPT ![h] = m] /\ pc' = [pc EXCEPT ![h] = "pollSpent"]
        BY <1>3 DEF Goto
    <2>2. m \in Memory /\ m.requested = mem[h].requested /\ m.grant = grant /\ grant # None
        BY <1>1, NoneIsFresh DEF Memory
    <2>3. PhaseAt(h, "pollSpent", m)
        BY <1>1, <2>2 DEF PhaseAt, Over, Claiming
    <2> QED BY <1>2, <2>1, <2>2, <2>3, MovesTyped DEF Moves, Steps
<1>4. CASE End(h, "done")
    BY <1>2, <1>4, EndTyped DEF Over
<1> QED BY <1>3, <1>4 DEF PollGrant

LEMMA PollSpentTyped == ASSUME Typed, NEW h \in Redeemers, PollSpent(h) PROVE Typed'
<1> DEFINE s == spent[mem[h].requested]
<1> DEFINE m == [mem[h] EXCEPT !.spent = s]
<1> DEFINE record == mem[h].lease
<1> DEFINE g == mem[h].grant
<1>1. /\ pc[h] = "pollSpent" /\ mem[h] \in Memory /\ mem[h].requested # None
      /\ s \in SpentRecord \cup {None} /\ g \in Grant
    BY Standing DEF PollSpent, PhaseAt, Over, Memory
<1>2. SharedOK'
    BY SharedKept DEF PollSpent
<1>3. CASE End(h, "done")
    BY <1>2, <1>3, EndTyped DEF Over
<1>4. CASE Discard(h)
    BY <1>1, <1>2, <1>4, DiscardTyped
<1>5. CASE Current(h, g.tokens) /\ record # None /\ Goto(h, "liveness") /\ UNCHANGED mem
    <2>1. PhaseAt(h, "liveness", mem[h])
        BY <1>1, <1>5 DEF PhaseAt, Over, Claiming
    <2> QED BY <1>2, <1>5, <2>1, GotoTyped DEF Steps
<1>6. CASE /\ Current(h, g.tokens)
           /\ mem' = [mem EXCEPT ![h].spent = s]
           /\ \/ ~MaySpend(h, record, g, s) /\ Goto(h, "recheck")
              \/ MaySpend(h, record, g, s) /\ Goto(h, "claim")
              \/ MaySpend(h, record, g, s) /\ Goto(h, "pollLease")
    <2>1. PICK p \in {"recheck", "claim", "pollLease"} :
            /\ Goto(h, p)
            /\ p = "recheck" => ~MaySpend(h, record, g, s)
            /\ p = "claim" => MaySpend(h, record, g, s)
        BY <1>6
    <2>2. p = "recheck" => s # None
        BY <2>1 DEF MaySpend
    <2>3. p = "claim" => s = None \/ s.state = "resolved"
        BY <2>1 DEF MaySpend
    <2>4. g.tokens # None /\ g.tokens.refresh = mem[h].requested
        BY <1>6 DEF Current
    <2>5. mem' = [mem EXCEPT ![h] = m] /\ pc' = [pc EXCEPT ![h] = p]
        BY <1>6, <2>1 DEF Goto
    <2> HIDE DEF s, g
    <2>6. /\ m \in Memory /\ m.requested = mem[h].requested /\ m.spent = s
          /\ m.grant = mem[h].grant
        BY <1>1 DEF Memory
    <2>7. g # None
        BY <1>1, NoneIsFresh
    <2>8. PhaseAt(h, p, m)
        BY <1>1, <2>2, <2>3, <2>4, <2>6, <2>7 DEF PhaseAt, Over, Claiming, g
    <2> QED BY <1>2, <2>5, <2>6, <2>8, MovesTyped DEF Moves, Steps
<1>7. PollSpent(h) =>
        \/ End(h, "done") \/ Discard(h)
        \/ Current(h, g.tokens) /\ record # None /\ Goto(h, "liveness") /\ UNCHANGED mem
        \/ /\ Current(h, g.tokens)
           /\ mem' = [mem EXCEPT ![h].spent = s]
           /\ \/ ~MaySpend(h, record, g, s) /\ Goto(h, "recheck")
              \/ MaySpend(h, record, g, s) /\ Goto(h, "claim")
              \/ MaySpend(h, record, g, s) /\ Goto(h, "pollLease")
    BY Zenon DEF PollSpent
<1> QED BY <1>3, <1>4, <1>5, <1>6, <1>7

LEMMA ReadLivenessTyped == ASSUME Typed, NEW h \in Redeemers, ReadLiveness(h) PROVE Typed'
<1>1. SharedOK'
    BY SharedKept DEF ReadLiveness
<1>2. PhaseAt(h, "pollLease", mem[h]) /\ PhaseAt(h, "condemn", mem[h])
    BY Standing DEF ReadLiveness, PhaseAt, Over, Claiming
<1> QED BY <1>1, <1>2, GotoTyped DEF ReadLiveness, Steps

\* A write to the lease that redemption h works on.
LEMMA LeaseWritten ==
    ASSUME Typed, NEW h \in Redeemers, pc[h] \notin Over \cup {"idle"},
           NEW r \in LeaseRecord \cup {None}, SetLease(h, r),
           UNCHANGED <<grant, spent, active, lapsed, consenting, history>>
    PROVE  SharedOK'
<1>1. mem[h].requested \in Tokens /\ mem[h].epoch \in Epochs
    BY Standing
<1>2. lease' \in [Epochs -> [Tokens -> LeaseRecord \cup {None}]]
    BY <1>1 DEF Typed, TypeOK, SetLease
<1> QED BY <1>2 DEF Typed, TypeOK, SharedOK, consenting, history

LEMMA CondemnTyped == ASSUME Typed, NEW h \in Redeemers, Condemn(h) PROVE Typed'
<1>1. pc[h] = "condemn" /\ mem[h] \in Memory /\ mem[h].requested # None /\ mem[h].lease \in LeaseRecord
    BY Standing DEF Condemn, PhaseAt, Over, Memory
<1>2. PhaseAt(h, "pollLease", mem[h]) /\ PhaseAt(h, "ambiguous", mem[h])
    BY <1>1, Standing DEF PhaseAt, Over, Claiming
<1>3. CASE UNCHANGED lease
    <2>1. SharedOK'
        BY <1>3, SharedKept DEF Condemn, storage
    <2> QED BY <1>2, <2>1, GotoTyped DEF Condemn, Steps
<1>4. CASE SetLease(h, [mem[h].lease EXCEPT !.state = "dead"])
    <2>1. [mem[h].lease EXCEPT !.state = "dead"] \in LeaseRecord
        BY <1>1 DEF LeaseRecord
    <2>2. SharedOK'
        BY <1>1, <1>4, <2>1, LeaseWritten DEF Condemn, Over
    <2> QED BY <1>2, <2>2, GotoTyped DEF Condemn, Steps
<1> QED BY <1>3, <1>4 DEF Condemn

\* A write to the spent record of the token that redemption h works on.
LEMMA SpentWritten ==
    ASSUME Typed, NEW t \in Tokens, NEW r \in SpentRecord, SetSpent(t, r) \/ UNCHANGED spent,
           UNCHANGED <<grant, lease, active, lapsed, consenting, history>>
    PROVE  SharedOK'
BY DEF Typed, TypeOK, SharedOK, SetSpent, consenting, history

LEMMA ResolveVanishedTyped == ASSUME Typed, NEW h \in Redeemers, ResolveVanished(h) PROVE Typed'
<1> DEFINE s == spent[mem[h].requested]
<1>1. /\ mem[h].requested # None /\ mem[h].requested \in Tokens
      /\ s \in SpentRecord \cup {None}
    BY Standing, NoneIsFresh DEF ResolveVanished, Over
<1>2. CASE s # None
    <2>1. [s EXCEPT !.state = "ambiguous"] \in SpentRecord
        BY <1>1, <1>2 DEF SpentRecord
    <2>2. SharedOK'
        BY <1>1, <2>1, SpentWritten DEF ResolveVanished
    <2> QED BY <1>1, <2>2, DiscardTyped DEF ResolveVanished
<1>3. CASE s = None
    <2>1. SharedOK'
        BY <1>3, SharedKept DEF ResolveVanished, storage
    <2> QED BY <1>1, <2>1, DiscardTyped DEF ResolveVanished
<1> QED BY <1>2, <1>3

LEMMA RecheckTyped == ASSUME Typed, NEW h \in Redeemers, Recheck(h) PROVE Typed'
<1>1. /\ pc[h] = "recheck" /\ mem[h].requested # None /\ mem[h].spent # None
      /\ PhaseAt(h, "pollLease", mem[h])
    BY Standing DEF Recheck, PhaseAt, Over, Claiming
<1>2. SharedOK'
    BY SharedKept DEF Recheck
<1>3. CASE Goto(h, "pollLease") /\ UNCHANGED mem
    BY <1>1, <1>2, <1>3, GotoTyped DEF Steps
<1>4. CASE mem[h].spent.state = "outstanding" /\ Goto(h, "orphan") /\ UNCHANGED mem
    <2>1. PhaseAt(h, "orphan", mem[h])
        BY <1>1, <1>4 DEF PhaseAt, Over, Claiming
    <2> QED BY <1>2, <1>4, <2>1, GotoTyped DEF Steps
<1>5. CASE Discard(h)
    BY <1>1, <1>2, <1>5, DiscardTyped
<1> QED BY <1>3, <1>4, <1>5 DEF Recheck

LEMMA ReadOrphanTyped == ASSUME Typed, NEW h \in Redeemers, ReadOrphan(h) PROVE Typed'
<1>1. mem[h].requested # None /\ PhaseAt(h, "orphaned", mem[h])
    BY Standing DEF ReadOrphan, PhaseAt, Over, Claiming
<1>2. SharedOK'
    BY SharedKept DEF ReadOrphan
<1> QED BY <1>1, <1>2, GotoTyped, DiscardTyped DEF ReadOrphan, Steps

LEMMA MarkOrphanTyped == ASSUME Typed, NEW h \in Redeemers, MarkOrphan(h) PROVE Typed'
<1>1. /\ mem[h].requested # None /\ mem[h].requested \in Tokens
      /\ mem[h].spent \in SpentRecord
    BY Standing, NoneIsFresh DEF MarkOrphan, PhaseAt, Over, Memory
<1>2. [mem[h].spent EXCEPT !.state = "ambiguous"] \in SpentRecord
    BY <1>1 DEF SpentRecord
<1>3. SharedOK'
    BY <1>1, <1>2, SpentWritten DEF MarkOrphan
<1> QED BY <1>1, <1>3, DiscardTyped DEF MarkOrphan

LEMMA ClaimOfFacts ==
    ASSUME Typed, NEW h \in Redeemers
    PROVE  LET record == mem[h].lease
               c == ClaimOf(h)
           IN  /\ c \in LeaseRecord /\ c # None /\ c.holder = h /\ c.state = "claimed"
               /\ c.predecessor # None =>
                    /\ record \in LeaseRecord /\ Proves(record)
                    /\ c.digest = record.digest /\ c.predecessor = ProvenHolder(record)
<1> DEFINE record == mem[h].lease
<1> DEFINE follows == Committed(record, mem[h].grant.tokens)
<1> DEFINE d == IF follows THEN record.digest ELSE None
<1> DEFINE q == IF follows THEN ProvenHolder(record) ELSE None
<1>1. record \in LeaseRecord \cup {None}
    BY Standing DEF Memory
<1>2. follows => /\ record \in LeaseRecord /\ Proves(record)
                 /\ record.digest \in Held \cup {None} /\ ProvenHolder(record) \in Redeemers
    BY <1>1 DEF Committed, ProvenHolder, LeaseRecord, Proves
<1>3. d \in Held \cup {None} /\ q \in Redeemers \cup {None}
    BY <1>2
<1>4. q # None => record \in LeaseRecord /\ Proves(record) /\ d = record.digest /\ q = ProvenHolder(record)
    BY <1>2
<1>5. ClaimOf(h) = [holder |-> h, state |-> "claimed", digest |-> d, predecessor |-> q]
    BY DEF ClaimOf
<1> HIDE DEF d, q
<1>6. /\ ClaimOf(h) \in LeaseRecord /\ ClaimOf(h).holder = h /\ ClaimOf(h).state = "claimed"
      /\ ClaimOf(h).digest = d /\ ClaimOf(h).predecessor = q
    BY <1>3, <1>5 DEF LeaseRecord
<1> QED BY <1>4, <1>6, NoneIsFresh

LEMMA ClaimTyped == ASSUME Typed, NEW h \in Redeemers, Claim(h) PROVE Typed'
<1> DEFINE m == [mem[h] EXCEPT !.lease = ClaimOf(h)]
<1>1. pc[h] = "claim" /\ mem[h] \in Memory /\ mem[h].requested # None /\ PhaseAt(h, "claim", mem[h])
    BY Standing DEF Claim, PhaseAt, Over
<1>2. CASE UNCHANGED <<lease, mem>> /\ Goto(h, "pollLease")
    <2>1. SharedOK'
        BY <1>2, SharedKept DEF Claim, storage
    <2>2. PhaseAt(h, "pollLease", mem[h])
        BY <1>1 DEF PhaseAt, Over, Claiming
    <2> QED BY <1>2, <2>1, <2>2, GotoTyped DEF Steps
<1>3. CASE /\ SetLease(h, ClaimOf(h)) /\ Goto(h, "verify")
           /\ mem' = [mem EXCEPT ![h].lease = ClaimOf(h)]
    <2>1. /\ ClaimOf(h) \in LeaseRecord /\ ClaimOf(h) # None
          /\ ClaimOf(h).holder = h /\ ClaimOf(h).state = "claimed"
        BY ClaimOfFacts
    <2>2. SharedOK'
        BY <1>1, <1>3, <2>1, LeaseWritten DEF Claim, Over
    <2>3. mem' = [mem EXCEPT ![h] = m] /\ pc' = [pc EXCEPT ![h] = "verify"]
        BY <1>3 DEF Goto
    <2>4. /\ m \in Memory /\ m.requested = mem[h].requested /\ m.spent = mem[h].spent
          /\ m.lease = ClaimOf(h)
        BY <1>1, <2>1 DEF Memory
    <2>5. PhaseAt(h, "verify", m)
        BY <1>1, <2>1, <2>4 DEF PhaseAt, Over, Claiming
    <2> QED BY <2>2, <2>3, <2>4, <2>5, MovesTyped DEF Moves, Steps
<1> QED BY <1>2, <1>3 DEF Claim

LEMMA VerifyTyped == ASSUME Typed, NEW h \in Redeemers, Verify(h) PROVE Typed'
<1>1. SharedOK'
    BY SharedKept DEF Verify
<1>2. PhaseAt(h, "activate", mem[h]) /\ PhaseAt(h, "unclaim", mem[h])
    BY Standing DEF Verify, PhaseAt, Over, Claiming
<1> QED BY <1>1, <1>2, GotoTyped DEF Verify, Steps

LEMMA UnclaimTyped ==
    ASSUME Typed, NEW h \in Redeemers, Unclaim(h) \/ UnclaimFails(h) PROVE Typed'
<1> DEFINE mine == mem[h].lease
<1> DEFINE r == IF mine.predecessor = None THEN None
                ELSE [mine EXCEPT !.holder = mine.predecessor, !.state = "completed"]
<1>1. pc[h] = "unclaim" /\ mine \in LeaseRecord
    BY Standing DEF Unclaim, UnclaimFails, PhaseAt, Over, Memory
<1>2. End(h, "done")
    BY DEF Unclaim, UnclaimFails
<1>3. r \in LeaseRecord \cup {None}
    BY <1>1 DEF LeaseRecord
<1>4. CASE UNCHANGED lease
    <2>1. SharedOK'
        BY <1>4, SharedKept DEF Unclaim, UnclaimFails, storage
    <2> QED BY <1>2, <2>1, EndTyped DEF Over
<1>5. CASE Unclaim(h) /\ SetLease(h, r)
    <2>1. SharedOK'
        BY <1>1, <1>3, <1>5, LeaseWritten DEF Unclaim, Over
    <2> QED BY <1>2, <2>1, EndTyped DEF Over
<1> QED BY <1>4, <1>5 DEF Unclaim, UnclaimFails, storage

LEMMA ActivateTyped == ASSUME Typed, NEW h \in Redeemers, Activate(h) PROVE Typed'
<1>1. PICK e \in {mem[h].epoch, grant.epoch} : mem' = [mem EXCEPT ![h].sendEpoch = e]
    BY DEF Activate
<1> DEFINE m == [mem[h] EXCEPT !.sendEpoch = e]
<1>2. mem[h] \in Memory /\ PhaseAt(h, "dispatch", mem[h]) /\ e \in Epochs
    BY Standing DEF Activate, PhaseAt, Over, Claiming, Memory, Grant
<1>3. m \in Memory /\ m.requested = mem[h].requested /\ m.spent = mem[h].spent /\ m.lease = mem[h].lease
    BY <1>2 DEF Memory
<1>4. PhaseAt(h, "dispatch", m)
    BY <1>2, <1>3 DEF PhaseAt, Over, Claiming
<1>5. SharedOK'
    BY DEF Activate, Typed, TypeOK, SharedOK, consenting, history
<1>6. mem' = [mem EXCEPT ![h] = m] /\ pc' = [pc EXCEPT ![h] = "dispatch"]
    BY <1>1 DEF Activate, Goto
<1> QED BY <1>3, <1>4, <1>5, <1>6, MovesTyped DEF Moves, Steps

LEMMA PrepareFailsTyped == ASSUME Typed, NEW h \in Redeemers, PrepareFails(h) PROVE Typed'
<1>1. SharedOK'
    BY SharedKept DEF PrepareFails
<1>2. PhaseAt(h, "unclaim", mem[h])
    BY Standing DEF PrepareFails, PhaseAt, Over, Claiming
<1> QED BY <1>1, <1>2, GotoTyped DEF PrepareFails, Steps

LEMMA DispatchTyped ==
    ASSUME Typed, NEW h \in Redeemers, Dispatch(h) \/ DispatchAnswerLost(h) PROVE Typed'
<1> DEFINE m == [mem[h] EXCEPT !.lease = Sending(h)]
<1>1. /\ pc[h] = "dispatch" /\ mem[h] \in Memory /\ PhaseAt(h, "dispatch", mem[h])
      /\ PhaseAt(h, "unclaim", mem[h])
    BY Standing DEF Dispatch, DispatchAnswerLost, PhaseAt, Over, Claiming
<1>2. Sending(h) \in LeaseRecord /\ Sending(h).holder = h /\ Sending(h) # None
    <2>1. mem[h].lease \in LeaseRecord /\ mem[h].lease.holder = h
        BY <1>1 DEF PhaseAt, Memory
    <2> QED BY <2>1, NoneIsFresh DEF Sending, LeaseRecord
<1>3. CASE UNCHANGED <<lease, mem>> /\ Goto(h, "unclaim") /\ Dispatch(h)
    <2>1. SharedOK'
        BY <1>3, SharedKept DEF Dispatch, storage
    <2> QED BY <1>1, <1>3, <2>1, GotoTyped DEF Steps
<1>4. CASE DispatchAnswerLost(h)
    <2>1. SharedOK'
        BY <1>1, <1>2, <1>4, LeaseWritten DEF DispatchAnswerLost, Over
    <2> QED BY <1>1, <1>4, <2>1, GotoTyped DEF DispatchAnswerLost, Steps
<1>5. CASE /\ Dispatch(h) /\ SetLease(h, Sending(h)) /\ Goto(h, "spend")
           /\ mem' = [mem EXCEPT ![h].lease = Sending(h)]
    <2>1. SharedOK'
        BY <1>1, <1>2, <1>5, LeaseWritten DEF Dispatch, Over
    <2>2. /\ m \in Memory /\ m.requested = mem[h].requested /\ m.spent = mem[h].spent
          /\ m.lease = Sending(h)
        BY <1>1, <1>2 DEF Memory
    <2>3. PhaseAt(h, "spend", m)
        BY <1>1, <1>2, <2>2 DEF PhaseAt, Over, Claiming
    <2>4. mem' = [mem EXCEPT ![h] = m] /\ pc' = [pc EXCEPT ![h] = "spend"]
        BY <1>5 DEF Goto
    <2> QED BY <2>1, <2>2, <2>3, <2>4, MovesTyped DEF Moves, Steps
<1> QED BY <1>3, <1>4, <1>5 DEF Dispatch

LEMMA OutstandingFacts ==
    ASSUME Typed, NEW h \in Redeemers
    PROVE  /\ Outstanding(h) \in SpentRecord /\ Outstanding(h) # None
           /\ Outstanding(h).holder = h /\ Outstanding(h).state = "outstanding"
<1>1. mem[h].sendEpoch \in Epochs
    BY Standing DEF Memory
<1> QED BY <1>1, NoneIsFresh DEF Outstanding, SpentRecord

LEMMA SpendTyped ==
    ASSUME Typed, NEW h \in Redeemers, Spend(h) \/ SpendAnswerLost(h) PROVE Typed'
<1>1. /\ pc[h] = "spend" /\ mem[h].requested # None /\ mem[h].requested \in Tokens
      /\ mem[h].lease # None /\ mem[h].lease.holder = h /\ PhaseAt(h, "send", mem[h])
    BY Standing DEF Spend, SpendAnswerLost, PhaseAt, Over, Claiming
<1>2. SharedOK'
    BY <1>1, OutstandingFacts, SpentWritten DEF Spend, SpendAnswerLost
<1>3. CASE Goto(h, "send") /\ UNCHANGED mem
    BY <1>1, <1>2, <1>3, GotoTyped DEF Steps
<1>4. CASE CleanUp(h, Append(Release, "discard"), "ambiguous", None)
    BY <1>1, <1>2, <1>4, CleanUpTyped, TodoFacts
<1> QED BY <1>3, <1>4 DEF Spend, SpendAnswerLost

LEMMA SendTyped == ASSUME Typed, NEW h \in Redeemers, Send(h) PROVE Typed'
<1>1. mem[h].requested \in Tokens /\ PhaseAt(h, "sent", mem[h])
    BY Standing DEF Send, PhaseAt, Over, Claiming
<1>2. SharedOK'
    BY <1>1 DEF Send, Typed, TypeOK, SharedOK, storage, consenting
<1> QED BY <1>1, <1>2, GotoTyped DEF Send, Steps

LEMMA IssueFacts ==
    ASSUME Typed, NEW e \in Epochs, NEW t \in Tokens, NEW kept, Issue(e, t, kept)
    PROVE  /\ responses' \in Seq([epoch : Epochs, refresh : Tokens]) /\ Len(responses') <= MaxGen
           /\ Len(responses') = Len(responses) + 1
           /\ Len(responses) + 1 \in 1 .. MaxGen
           /\ \A i \in 1 .. Len(responses) : responses'[i] = responses[i]
           /\ responses'[Len(responses) + 1].epoch = e
<1> DEFINE r == [epoch |-> e, refresh |-> t]
<1>1. responses \in Seq([epoch : Epochs, refresh : Tokens]) /\ Len(responses) \in Nat
    BY DEF Typed, TypeOK
<1>2. r \in [epoch : Epochs, refresh : Tokens] /\ r.epoch = e
    OBVIOUS
<1>3. responses' = Append(responses, r) /\ Len(responses) < MaxGen
    BY DEF Issue
<1> HIDE DEF r
<1> QED BY <1>1, <1>2, <1>3, AppendProperties, BoundsNatural

LEMMA AcceptedTyped == ASSUME Typed, NEW h \in Redeemers, Accepted(h) PROVE Typed'
<1>1. PICK t \in Tokens :
        /\ Issue(mem[h].epoch, t, mem[h].requested)
        /\ mem' = [mem EXCEPT ![h].got = [refresh |-> t, access |-> Len(responses) + 1]]
    BY DEF Accepted
<1> DEFINE g == [refresh |-> t, access |-> Len(responses) + 1]
<1> DEFINE m == [mem[h] EXCEPT !.got = g]
<1>2. /\ mem[h] \in Memory /\ mem[h].requested \in Tokens /\ mem[h].epoch \in Epochs
      /\ PhaseAt(h, "sent", mem[h])
    BY Standing DEF Accepted, Over
<1>3. SharedOK'
    BY <1>1, <1>2, IssueFacts DEF Accepted, Answered, Typed, TypeOK, SharedOK, storage, consenting
<1>4. g \in Held /\ g # None
    BY <1>1, <1>2, IssueFacts, NoneIsFresh DEF Held
<1>5. mem' = [mem EXCEPT ![h] = m] /\ pc' = [pc EXCEPT ![h] = "store"]
    BY <1>1 DEF Accepted, Goto
<1> HIDE DEF g
<1>6. m \in Memory /\ m.requested = mem[h].requested /\ m.lease = mem[h].lease /\ m.got = g
    BY <1>2, <1>4 DEF Memory
<1>7. PhaseAt(h, "store", m)
    BY <1>2, <1>4, <1>6 DEF PhaseAt, Over, Claiming
<1> QED BY <1>3, <1>5, <1>6, <1>7, MovesTyped DEF Moves, Steps

LEMMA UnansweredTyped ==
    ASSUME Typed, NEW h \in Redeemers, RefusedByServer(h) \/ NoAnswer(h) PROVE Typed'
<1>1. /\ mem[h].requested # None /\ mem[h].requested \in Tokens
      /\ mem[h].lease # None /\ mem[h].lease.holder = h
    BY Standing DEF RefusedByServer, NoAnswer, PhaseAt, Over
<1>2. SharedOK'
    BY <1>1 DEF RefusedByServer, NoAnswer, Answered, Typed, TypeOK, SharedOK, storage, consenting, history
<1> QED BY <1>1, <1>2, CleanUpTyped, TodoFacts DEF RefusedByServer, NoAnswer

LEMMA StoreTyped == ASSUME Typed, NEW h \in Redeemers, Store(h) \/ StoreFails(h) PROVE Typed'
<1>1. /\ mem[h].requested # None /\ mem[h].lease # None /\ mem[h].lease.holder = h
      /\ mem[h].got \in Held /\ grant \in Grant
    BY Standing DEF Store, StoreFails, PhaseAt, Over, Memory
<1>2. [grant EXCEPT !.tokens = mem[h].got] \in Grant /\ grant.tokens \in Held \cup {None}
    BY <1>1 DEF Grant
<1>3. SharedOK'
    BY <1>1, <1>2 DEF Store, StoreFails, StoredAgain, Typed, TypeOK, SharedOK, consenting
<1>4. CASE \E d \in Held \cup {None} : CleanUp(h, Release, "resolved", d)
    BY <1>1, <1>3, <1>4, CleanUpTyped, TodoFacts
<1>5. CASE CleanUp(h, Append(Release, "discard"), "resolved", None)
    BY <1>1, <1>3, <1>5, CleanUpTyped, TodoFacts
<1>6. Store(h) => \E d \in Held \cup {None} : CleanUp(h, Release, "resolved", d)
    BY <1>1, <1>2 DEF Store
<1> QED BY <1>4, <1>5, <1>6 DEF StoreFails

LEMMA ProceedTyped ==
    ASSUME Typed, SharedOK', NEW h \in Redeemers, pc[h] = "closing",
           NEW todo, todo = <<>> \/ todo \in Todos,
           todo \in Todos /\ todo # <<"discard">> => mem[h].todo # <<"discard">>,
           ProceedWith(h, todo)
    PROVE  Typed'
<1>1. CASE End(h, "done")
    BY <1>1, EndTyped DEF Over
<1>2. CASE todo # <<>> /\ mem' = [mem EXCEPT ![h].todo = todo] /\ UNCHANGED pc
    <2> DEFINE m == [mem[h] EXCEPT !.todo = todo]
    <2>1. mem[h] \in Memory /\ PhaseAt(h, "closing", mem[h]) /\ todo \in Todos
        BY <1>2, Standing
    <2>2. m \in Memory /\ m.requested = mem[h].requested /\ m.lease = mem[h].lease /\ m.todo = todo
        BY <2>1, TodoFacts DEF Memory
    <2>3. PhaseAt(h, "closing", m)
        BY <2>1, <2>2 DEF PhaseAt, Over, Claiming
    <2>4. mem' = [mem EXCEPT ![h] = m] /\ pc' = [pc EXCEPT ![h] = "closing"]
        BY <1>2 DEF Typed, TypeOK
    <2> QED BY <2>2, <2>3, <2>4, MovesTyped DEF Moves, Steps
<1> QED BY <1>1, <1>2 DEF ProceedWith

\* What is left of a cleanup under way, and what the next write has at hand.
LEMMA ClosingFacts ==
    ASSUME Typed, NEW h \in Redeemers, pc[h] = "closing"
    PROVE  /\ mem[h].todo \in Todos /\ mem[h].requested \in Tokens /\ mem[h].epoch \in Epochs
           /\ mem[h].verdict \in Verdict
           /\ LET rest == Tail(mem[h].todo) IN
                /\ rest = <<>> \/ rest \in Todos
                /\ rest \in Todos /\ rest # <<"discard">> => mem[h].todo # <<"discard">>
           /\ mem[h].todo # <<"discard">> => mem[h].lease \in LeaseRecord /\ mem[h].lease.holder = h
<1>1. /\ mem[h] \in Memory /\ mem[h].todo \in Todos /\ mem[h].requested \in Tokens
      /\ mem[h].epoch \in Epochs
      /\ mem[h].todo # <<"discard">> => mem[h].lease # None /\ mem[h].lease.holder = h
    BY Standing DEF PhaseAt, Over
<1>2. Tail(mem[h].todo) = <<>> \/ (Tail(mem[h].todo) \in Todos /\ mem[h].todo # <<"discard">>)
    BY <1>1, TodoFacts
<1>3. <<>> \notin Todos
    BY DEF Todos
<1> QED BY <1>1, <1>2, <1>3 DEF Memory

LEMMA CleanupTyped ==
    ASSUME Typed, NEW h \in Redeemers,
           Swallowed(h) \/ ResolveSpent(h) \/ ForgetActive(h) \/ DiscardRefusedGrant(h)
    PROVE  Typed'
<1>1. pc[h] = "closing" /\ Proceed(h)
    BY DEF Swallowed, ResolveSpent, ForgetActive, DiscardRefusedGrant, Doing
<1>2. CASE Swallowed(h)
    <2>1. SharedOK'
        BY <1>2, SharedKept DEF Swallowed
    <2> QED BY <1>1, <2>1, ClosingFacts, ProceedTyped DEF Proceed
<1>3. CASE ResolveSpent(h)
    <2>1. [Outstanding(h) EXCEPT !.state = mem[h].verdict.resolution] \in SpentRecord
        BY <1>1, OutstandingFacts, ClosingFacts DEF SpentRecord, Verdict
    <2>2. SharedOK'
        BY <1>1, <1>3, <2>1, ClosingFacts, SpentWritten DEF ResolveSpent
    <2> QED BY <1>1, <2>2, ClosingFacts, ProceedTyped DEF Proceed
<1>4. CASE ForgetActive(h)
    <2>1. SharedOK'
        BY <1>4 DEF ForgetActive, Typed, TypeOK, SharedOK, consenting, history
    <2> QED BY <1>1, <2>1, ClosingFacts, ProceedTyped DEF Proceed
<1>5. CASE DiscardRefusedGrant(h)
    <2>1. [grant EXCEPT !.tokens = None] \in Grant
        BY Standing DEF Grant
    <2>2. SharedOK'
        BY <1>5, <2>1 DEF DiscardRefusedGrant, Typed, TypeOK, SharedOK, consenting, history
    <2> QED BY <1>1, <2>2, ClosingFacts, ProceedTyped DEF Proceed
<1> QED BY <1>2, <1>3, <1>4, <1>5

Settled(h) ==
    [mem[h].lease EXCEPT !.state = IF mem[h].verdict.digest = None THEN "dead" ELSE "completed",
                         !.digest = mem[h].verdict.digest]

LEMMA SettleLeaseTyped == ASSUME Typed, NEW h \in Redeemers, SettleLease(h) PROVE Typed'
<1>1. pc[h] = "closing" /\ Head(mem[h].todo) = "settle"
    BY DEF SettleLease, Doing
<1>2. /\ mem[h].todo # <<"discard">> /\ <<"forget">> \o Tail(mem[h].todo) \in Todos
      /\ mem[h].lease \in LeaseRecord /\ mem[h].verdict.digest \in Held \cup {None}
    BY <1>1, ClosingFacts, TodoFacts DEF Verdict
<1>3. CASE SetLease(h, Settled(h)) /\ ProceedWith(h, <<"forget">> \o Tail(mem[h].todo))
    <2>1. Settled(h) \in LeaseRecord
        BY <1>2 DEF Settled, LeaseRecord
    <2>2. SharedOK'
        BY <1>1, <1>3, <2>1, LeaseWritten DEF SettleLease, Over
    <2> QED BY <1>1, <1>2, <1>3, <2>2, ProceedTyped
<1>4. CASE UNCHANGED lease /\ Proceed(h)
    <2>1. SharedOK'
        BY <1>4, SharedKept DEF SettleLease, storage
    <2> QED BY <1>1, <1>4, <2>1, ClosingFacts, ProceedTyped DEF Proceed
<1> QED BY <1>3, <1>4 DEF SettleLease, Settled

LEMMA WorksTyped == ASSUME Typed, NEW h \in Redeemers, Works(h) PROVE Typed'
BY FlowEpochTyped, StoredTokensTyped, PollLeaseTyped, PollGrantTyped, PollSpentTyped,
   ReadLivenessTyped, CondemnTyped, ResolveVanishedTyped, RecheckTyped, ReadOrphanTyped,
   MarkOrphanTyped, ClaimTyped, VerifyTyped, UnclaimTyped, ActivateTyped, PrepareFailsTyped,
   DispatchTyped, SpendTyped, SendTyped, AcceptedTyped, UnansweredTyped, StoreTyped, CleanupTyped,
   SettleLeaseTyped
DEF Works

\* A step that leaves every redemption where it is.
LEMMA ElsewhereTyped == Typed /\ SharedOK' /\ UNCHANGED <<pc, mem>> => Typed'
BY DEF Typed, TypeOK, SharedOK, Phase

LEMMA EnvironmentTyped ==
    ASSUME Typed,
           \/ \E h \in Redeemers : Expires(h)
           \/ PerformReset \/ SweepRefreshLeases
           \/ ExchangeAnswered \/ RecordCodeExchangeTokens \/ SaveTokens
    PROVE  Typed'
<1>1. grant \in Grant
    BY DEF Typed, TypeOK
<1>2. CASE \E h \in Redeemers : Expires(h)
    BY <1>2, ElsewhereTyped
    DEF Expires, ActiveExpires, ClaimExpires, Typed, TypeOK, SharedOK, consenting, history
<1>3. CASE PerformReset
    <2>1. [epoch |-> grant.epoch + 1, tokens |-> None, consent |-> None] \in Grant
        BY <1>1, <1>3, BoundsNatural DEF PerformReset, Grant, Epochs
    <2> QED BY <1>3, <2>1, ElsewhereTyped
            DEF PerformReset, Typed, TypeOK, SharedOK, consenting, history
<1>4. CASE SweepRefreshLeases
    BY <1>4, ElsewhereTyped
    DEF SweepRefreshLeases, Typed, TypeOK, SharedOK, consenting, history
<1>5. CASE ExchangeAnswered
    <2>1. PICK t \in Tokens :
            /\ Issue(grant.epoch, t, None)
            /\ consent' = [epoch |-> grant.epoch, receipt |-> None, observed |-> FALSE,
                           tokens |-> [refresh |-> t, access |-> Len(responses) + 1]]
        BY <1>5 DEF ExchangeAnswered
    <2>2. grant.epoch \in Epochs
        BY <1>1 DEF Grant
    <2>3. /\ responses' \in Seq([epoch : Epochs, refresh : Tokens]) /\ Len(responses') <= MaxGen
          /\ Len(responses) + 1 \in 1 .. MaxGen
        BY <2>1, <2>2, IssueFacts
    <2>4. consent' \in [epoch : Epochs, tokens : Held, receipt : Receipt \cup {None},
                        observed : BOOLEAN]
        BY <2>1, <2>2, <2>3 DEF Held
    <2>5. consents' \in 0 .. MaxConsents
        BY <1>5, BoundsNatural DEF ExchangeAnswered, Typed, TypeOK
    <2> QED BY <1>5, <2>3, <2>4, <2>5, ElsewhereTyped
            DEF ExchangeAnswered, Typed, TypeOK, SharedOK, storage
<1>6. CASE RecordCodeExchangeTokens
    <2> DEFINE t == consent.tokens.refresh
    <2>1. consent \in [epoch : Epochs, tokens : Held, receipt : Receipt \cup {None},
                       observed : BOOLEAN]
        BY <1>6 DEF RecordCodeExchangeTokens, Typed, TypeOK
    <2>2. t \in Tokens /\ spent[t] \in SpentRecord \cup {None}
        BY <2>1 DEF Typed, TypeOK, Held
    <2>3. PICK receipt \in {None, [token |-> t, resolution |-> spent[t]]} :
            /\ receipt # None <=> spent[t] # None /\ spent[t].state = "resolved"
            /\ consent' = [consent EXCEPT !.observed = TRUE, !.receipt = receipt]
        BY <1>6 DEF RecordCodeExchangeTokens
    <2>4. receipt \in Receipt \cup {None}
        BY <2>2, <2>3 DEF Receipt
    <2>5. consent' \in [epoch : Epochs, tokens : Held, receipt : Receipt \cup {None},
                        observed : BOOLEAN]
        BY <2>1, <2>3, <2>4
    <2> QED BY <1>6, <2>5, ElsewhereTyped
            DEF RecordCodeExchangeTokens, Typed, TypeOK, SharedOK, storage, history
<1>7. CASE SaveTokens
    <2>1. consent.tokens \in Held /\ consent.receipt \in Receipt \cup {None}
        BY <1>7 DEF SaveTokens, Typed, TypeOK
    <2>2. [grant EXCEPT !.tokens = consent.tokens, !.consent = consent.receipt] \in Grant
        BY <1>1, <2>1 DEF Grant
    <2> QED BY <1>7, <2>2, ElsewhereTyped DEF SaveTokens, StoredAgain, Typed, TypeOK, SharedOK
<1> QED BY <1>2, <1>3, <1>4, <1>5, <1>6, <1>7

LEMMA NextTyped == Typed /\ [Next]_vars => Typed'
<1> SUFFICES ASSUME Typed, [Next]_vars PROVE Typed'
    OBVIOUS
<1>1. CASE UNCHANGED vars
    BY <1>1, SharedKept, ElsewhereTyped DEF vars
<1>2. ASSUME NEW h \in Redeemers, ReadTokens(h) \/ Works(h) \/ Crash(h) \/ Expires(h)
      PROVE  Typed'
    <2>1. CASE Crash(h)
        BY <2>1, SharedKept, EndTyped DEF Crash, Over
    <2> QED BY <1>2, <2>1, ReadTokensTyped, WorksTyped, EnvironmentTyped
<1> QED BY <1>1, <1>2, EnvironmentTyped DEF Next

\* Every variable keeps its shape: no redemption goes on without what its step
\* needs, whichever step of another it is interrupted by.
THEOREM TypesHold == Spec => []TypeOK
<1>1. Spec => []Typed
    BY InitTyped, NextTyped, PTL DEF Spec
<1>2. Typed => TypeOK
    BY DEF Typed
<1> QED BY <1>1, <1>2, PTL

-----------------------------------------------------------------------------
(* What stays true of the past. *)

StoredKept == \A q \in Redeemers, t \in Tokens : Stored(q, t) => Stored(q, t)'

\* Responses are only added.
ResponsesKept ==
    /\ Len(responses') \in Nat /\ Len(responses) \in Nat /\ Len(responses) <= Len(responses')
    /\ \A i \in 1 .. Len(responses) : responses'[i] = responses[i]

LEMMA SameResponses == ASSUME Typed, UNCHANGED responses PROVE ResponsesKept
<1>1. responses \in Seq([epoch : Epochs, refresh : Tokens])
    BY DEF Typed, TypeOK
<1>2. Len(responses) \in Nat /\ Len(responses') = Len(responses)
    BY <1>1
<1> QED BY <1>2 DEF ResponsesKept

\* A redemption that will not send stays so and owns no further spent record;
\* a token is marked unstored again only by a redemption that still sends.
LEMMA StoredStays ==
    ASSUME \A q \in Redeemers : pc[q] \in Past => pc'[q] \in Past,
           \A q \in Redeemers, t \in Tokens :
                pc[q] \in Past /\ spent'[t] # None /\ spent'[t].holder = q =>
                    /\ spent[t] # None /\ spent[t].holder = q
                    /\ t \in unstored' => t \in unstored
    PROVE  StoredKept
BY DEF StoredKept, Stored

LEMMA AnswersKept ==
    ASSUME ResponsesKept, NEW g, NEW e, Answers(g, e)
    PROVE  Answers(g, e)'
BY DEF Answers, ResponsesKept

LEMMA ProofKept ==
    ASSUME StoredKept, NEW r, NEW t \in Tokens, Proof(r, t)
    PROVE  Proof(r, t)'
BY DEF StoredKept, Proof

LEMMA ReceivedKept ==
    ASSUME StoredKept, NEW receipt \in Receipt, Received(receipt)
    PROVE  Received(receipt)'
<1>1. receipt.token \in Tokens /\ receipt.resolution.holder \in Redeemers
    BY DEF Receipt, SpentRecord
<1> QED BY <1>1 DEF StoredKept, Received

LEMMA RemembersKept ==
    ASSUME Typed, StoredKept, ResponsesKept, NEW h \in Redeemers, Remembers(h),
           pc'[h] = pc[h], mem'[h] = mem[h]
    PROVE  Remembers(h)'
<1>1. CASE pc[h] \in Over \cup {"idle"}
    <2>1. mem[h] = Fresh
        BY <1>1, Standing DEF PhaseAt
    <2> QED BY <1>1, <2>1 DEF Remembers, Fresh, Over, Claiming
<1>2. CASE pc[h] \notin Over \cup {"idle"}
    <2> DEFINE m == mem[h]
    <2>1. m.requested \in Tokens /\ m \in Memory
        BY <1>2, Standing
    <2>2. pc[h] \in Claiming /\ m.spent # None => Stored(m.spent.holder, m.requested)'
        <3>1. m.spent # None => m.spent.holder \in Redeemers
            BY <2>1 DEF Memory, SpentRecord
        <3> QED BY <2>1, <3>1 DEF Remembers, StoredKept
    <2>3. m.lease # None => Proof(m.lease, m.requested)'
        BY <2>1, ProofKept DEF Remembers
    <2>4. m.grant # None /\ m.grant.consent # None => Received(m.grant.consent)'
        <3>1. m.grant # None => m.grant.consent \in Receipt \cup {None}
            BY <2>1 DEF Memory, Grant
        <3> QED BY <3>1, ReceivedKept DEF Remembers
    <2>5. pc[h] = "closing" /\ m.verdict.digest # None /\ m.verdict.digest.refresh = m.requested =>
            Stored(h, m.requested)'
        BY <2>1 DEF Remembers, StoredKept
    <2>6. pc[h] = "store" => Answers(m.got, m.epoch)'
        BY AnswersKept DEF Remembers
    <2> QED BY <2>2, <2>3, <2>4, <2>5, <2>6 DEF Remembers
<1> QED BY <1>1, <1>2

LEMMA LeasesKept ==
    ASSUME Typed, StoredKept, LeasesProven, UNCHANGED lease
    PROVE  LeasesProven'
BY ProofKept DEF LeasesProven

LEMMA LeaseProven ==
    ASSUME Typed, StoredKept, LeasesProven, NEW h \in Redeemers, pc[h] \notin Over \cup {"idle"},
           NEW u, u = mem[h].requested, NEW r, SetLease(h, r), r # None => Proof(r, u)'
    PROVE  LeasesProven'
<1>1. mem[h].epoch \in Epochs /\ u \in Tokens
    BY Standing
<1>2. \A e \in Epochs, t \in Tokens :
        lease'[e][t] = IF e = mem[h].epoch /\ t = u THEN r ELSE lease[e][t]
    BY <1>1 DEF SetLease, Typed, TypeOK
<1>3. ASSUME NEW e \in Epochs, NEW t \in Tokens, NEW s, s = lease'[e][t], s # None
      PROVE  Proof(s, t)'
    <2>1. CASE e = mem[h].epoch /\ t = u
        BY <1>2, <1>3, <2>1
    <2>2. CASE ~(e = mem[h].epoch /\ t = u)
        <3>1. s = lease[e][t]
            BY <1>2, <1>3, <2>2
        <3>2. Proof(s, t)
            BY <1>3, <3>1 DEF LeasesProven
        <3> QED BY <3>2, ProofKept
    <2> QED BY <2>1, <2>2
<1> QED BY <1>3 DEF LeasesProven

LEMMA ReceiptsKept ==
    ASSUME Typed, StoredKept, ResponsesKept, Receipts,
           \A q \in Redeemers : pc[q] \in Past => pc'[q] \in Past,
           grant'.consent = grant.consent, UNCHANGED consent
    PROVE  Receipts'
<1>1. grant.consent # None => grant.consent \in Receipt
    BY DEF Typed, TypeOK, Grant
<1>2. consent # None /\ consent.receipt # None => consent.receipt.resolution.holder \in Redeemers
    BY DEF Typed, TypeOK, Receipt, SpentRecord
<1>3. (grant.consent # None => Received(grant.consent))'
    BY <1>1, ReceivedKept DEF Receipts
<1>4. consent # None => Answers(consent.tokens, consent.epoch)'
    BY AnswersKept DEF Receipts
<1> QED BY <1>2, <1>3, <1>4 DEF Receipts

LEMMA FencedKept ==
    ASSUME ResponsesKept, Fenced, grant'.epoch = grant.epoch, grant'.tokens \in {grant.tokens, None}
    PROVE  Fenced'
BY AnswersKept DEF Fenced

-----------------------------------------------------------------------------
(* The shape of most steps of a redemption: it does not begin to send, and it *)
(* leaves the spent records with their holders.                              *)

Alone(h) == \A k \in Redeemers \ {h} : pc'[k] = pc[k] /\ mem'[k] = mem[k]

\* A holder of a spent record goes on to its end, without a verdict on a
\* request that has no answer.
Ending(h) ==
    \/ pc'[h] \in Over
    \/ /\ pc'[h] = "closing" /\ mem'[h].requested = mem[h].requested
       /\ pc[h] = "closing" => mem'[h].verdict = mem[h].verdict
       /\ pc[h] = "sent" => mem'[h].verdict.resolution = "ambiguous"

\* A spent record gets another state, but is not resolved under its sender.
Relabelled(t) ==
    /\ spent[t] # None /\ spent'[t] # None /\ spent'[t].holder = spent[t].holder
    /\ spent'[t].state = "resolved" => pc[spent[t].holder] \in Past /\ t \notin unanswered

Quiet(h) ==
    /\ Alone(h)
    /\ pc[h] \notin Over
    /\ pc'[h] \notin {"send", "sent", "store"}
    /\ pc[h] \in Past \cup {"send", "sent", "store"} => Ending(h)
    /\ \A t \in Tokens : spent'[t] = spent[t] \/ Relabelled(t)
    /\ unstored' \subseteq unstored
    /\ UNCHANGED <<unanswered, responses>>

LEMMA QuietKeeps ==
    ASSUME IInv, NEW h \in Redeemers, Quiet(h)
    PROVE  StoredKept /\ ResponsesKept /\ \A q \in Redeemers : pc[q] \in Past => pc'[q] \in Past
<1>1. \A q \in Redeemers : pc[q] \in Past => pc'[q] \in Past
    BY DEF Quiet, Alone, Ending, Past
<1>2. \A q \in Redeemers, t \in Tokens :
        pc[q] \in Past /\ spent'[t] # None /\ spent'[t].holder = q =>
            spent[t] # None /\ spent[t].holder = q
    BY DEF Quiet, Relabelled
<1>3. \A t \in unstored' : t \in unstored
    BY DEF Quiet
<1>4. StoredKept
    BY <1>1, <1>2, <1>3, StoredStays
<1>5. ResponsesKept
    BY SameResponses DEF IInv, Quiet
<1> QED BY <1>1, <1>4, <1>5

LEMMA QuietStep ==
    ASSUME IInv, Typed', NEW h \in Redeemers, Quiet(h),
           Remembers(h)', LeasesProven', Receipts', Fenced'
    PROVE  IInv'
<1>1. StoredKept /\ ResponsesKept
    BY QuietKeeps
<1>2. \A t \in Tokens : spent[t] # None => spent[t].holder \in Redeemers
    BY DEF IInv, Typed, TypeOK, SpentRecord
<1>3. ASSUME NEW k \in Redeemers PROVE Remembers(k)'
    <2>1. CASE k = h
        BY <2>1
    <2>2. CASE k # h
        <3>1. pc'[k] = pc[k] /\ mem'[k] = mem[k]
            BY <2>2 DEF Quiet, Alone
        <3> QED BY <1>1, <3>1, RemembersKept DEF IInv
    <2> QED BY <2>1, <2>2
<1>4. ASSUME NEW k \in Redeemers PROVE OwnsSend(k)'
    <2>1. CASE k = h
        BY <2>1 DEF Quiet, OwnsSend
    <2>2. CASE k # h /\ pc[k] \in {"send", "sent"}
        <3>1. pc'[k] = pc[k] /\ mem'[k] = mem[k] /\ mem[k].requested \in Tokens
            BY <2>2, Standing DEF Quiet, Alone, IInv, Over
        <3> DEFINE t == mem[k].requested
        <3>2. /\ spent[t] # None /\ spent[t].holder = k /\ spent[t].state # "resolved"
              /\ pc[k] = "send" => t \notin unstored
            BY <2>2 DEF IInv, OwnsSend
        <3>3. pc[k] \notin Past
            BY <2>2 DEF Past, Over
        <3>4. spent'[t] = spent[t] \/ Relabelled(t)
            BY <3>1 DEF Quiet
        <3>5. spent'[t] # None /\ spent'[t].holder = k /\ spent'[t].state # "resolved"
            BY <3>2, <3>3, <3>4 DEF Relabelled
        <3>6. pc'[k] = "send" => t \notin unstored'
            BY <3>1, <3>2 DEF Quiet
        <3> QED BY <3>1, <3>5, <3>6 DEF OwnsSend
    <2>3. CASE k # h /\ pc[k] \notin {"send", "sent"}
        BY <2>3 DEF Quiet, Alone, OwnsSend
    <2> QED BY <2>1, <2>2, <2>3
<1>5. SpentOwned'
    <2> SUFFICES ASSUME NEW t \in Tokens, NEW k, spent'[t] # None, k = spent'[t].holder
                 PROVE  /\ pc'[k] \in Past \cup {"send", "sent", "store"}
                        /\ pc'[k] \notin Over => mem'[k].requested = t
                        /\ spent'[t].state = "resolved" => pc'[k] \in Past
        BY DEF SpentOwned
    <2>1. /\ spent[t] # None /\ k = spent[t].holder /\ k \in Redeemers
          /\ spent'[t].state = "resolved" => spent[t].state = "resolved" \/ pc[k] \in Past
        BY <1>2 DEF Quiet, Relabelled
    <2>2. /\ pc[k] \in Past \cup {"send", "sent", "store"}
          /\ pc[k] \notin Over => mem[k].requested = t
          /\ spent'[t].state = "resolved" => pc[k] \in Past
        BY <2>1 DEF IInv, SpentOwned
    <2>3. CASE k = h
        <3>1. Ending(h)
            BY <2>2, <2>3 DEF Quiet
        <3>2. pc[h] \notin Over
            BY DEF Quiet
        <3> QED BY <2>2, <2>3, <3>1, <3>2 DEF Ending, Past
    <2>4. CASE k # h
        BY <2>1, <2>2, <2>4 DEF Quiet, Alone
    <2> QED BY <2>3, <2>4
<1>6. Blocked'
    <2> SUFFICES ASSUME NEW t \in unanswered, NEW k, k = spent'[t].holder
                 PROVE  /\ spent'[t] # None /\ spent'[t].state # "resolved"
                        /\ \/ pc'[k] \in Over \cup {"sent"}
                           \/ pc'[k] = "closing" /\ mem'[k].verdict.resolution = "ambiguous"
        BY DEF Blocked, Quiet
    <2>1. t \in Tokens
        BY DEF IInv, Typed, TypeOK
    <2>2. /\ spent[t] # None /\ spent[t].state # "resolved" /\ k = spent[t].holder /\ k \in Redeemers
          /\ spent'[t] # None /\ spent'[t].state # "resolved"
        BY <1>2, <2>1 DEF IInv, Blocked, Quiet, Relabelled
    <2>3. \/ pc[k] \in Over \cup {"sent"}
          \/ pc[k] = "closing" /\ mem[k].verdict.resolution = "ambiguous"
        BY <2>2 DEF IInv, Blocked
    <2>4. CASE k = h
        BY <2>2, <2>3, <2>4 DEF Quiet, Ending, Past, Over
    <2>5. CASE k # h
        BY <2>2, <2>3, <2>5 DEF Quiet, Alone
    <2> QED BY <2>2, <2>4, <2>5
<1>7. UnstoredSpent'
    BY DEF IInv, Typed, TypeOK, UnstoredSpent, Quiet, Relabelled
<1> QED BY <1>3, <1>4, <1>5, <1>6, <1>7 DEF IInv

LEMMA RemembersMoved ==
    ASSUME Typed, StoredKept, NEW h \in Redeemers, Remembers(h), pc[h] \notin Over \cup {"idle"},
           mem'[h].requested = mem[h].requested, mem'[h].lease = mem[h].lease,
           mem'[h].grant = mem[h].grant, pc'[h] # "store",
           pc'[h] \in Claiming => pc[h] \in Claiming /\ mem'[h].spent = mem[h].spent,
           pc'[h] = "closing" => \/ mem'[h].verdict.digest = None
                                 \/ mem'[h].verdict.digest.refresh # mem[h].requested
                                 \/ Stored(h, mem[h].requested)'
                                 \/ pc[h] = "closing" /\ mem'[h].verdict = mem[h].verdict
    PROVE  Remembers(h)'
<1>1. mem[h].requested \in Tokens /\ mem[h] \in Memory
    BY Standing
<1>2. mem[h].lease # None => Proof(mem[h].lease, mem[h].requested)
    BY DEF Remembers
<1>3. \A r : r = mem[h].lease /\ r # None => Proof(r, mem[h].requested)'
    <2> SUFFICES ASSUME NEW r, r = mem[h].lease, r # None,
                        NEW t \in Tokens, t = mem[h].requested
                 PROVE  Proof(r, t)'
        BY <1>1
    <2>1. Proof(r, t)
        BY <1>2
    <2> QED BY <2>1, ProofKept
<1>4. \A r : r = mem[h].grant /\ r # None /\ r.consent # None => Received(r.consent)'
    <2> SUFFICES ASSUME NEW r, r = mem[h].grant, r # None, r.consent # None PROVE Received(r.consent)'
        OBVIOUS
    <2>1. r.consent \in Receipt /\ Received(r.consent)
        BY <1>1 DEF Memory, Grant, Remembers
    <2> QED BY <2>1, ReceivedKept
<1>5. pc'[h] \in Claiming /\ mem'[h].spent # None =>
        Stored(mem[h].spent.holder, mem[h].requested) /\ mem[h].spent.holder \in Redeemers
    BY <1>1 DEF Remembers, Memory, SpentRecord
<1>6. (pc[h] \in Claiming /\ mem[h].spent # None => Stored(mem[h].spent.holder, mem[h].requested))'
    BY <1>1, <1>5 DEF StoredKept
<1>7. (pc[h] = "closing" /\ mem[h].verdict.digest # None
         /\ mem[h].verdict.digest.refresh = mem[h].requested => Stored(h, mem[h].requested))'
    BY <1>1 DEF Remembers, StoredKept
<1> QED BY <1>3, <1>4, <1>6, <1>7 DEF Remembers

LEMMA RemembersNothing ==
    ASSUME NEW h \in Redeemers, pc'[h] \in Over, mem'[h] = Fresh PROVE Remembers(h)'
BY DEF Remembers, Fresh, Over, Claiming

LEMMA GotoMoves ==
    ASSUME Typed, NEW h \in Redeemers, NEW p, Goto(h, p), UNCHANGED mem
    PROVE  Alone(h) /\ pc'[h] = p /\ mem'[h] = mem[h]
BY DEF Typed, TypeOK, Goto, Alone

LEMMA EndMoves ==
    ASSUME Typed, NEW h \in Redeemers, NEW p, End(h, p)
    PROVE  Alone(h) /\ pc'[h] = p /\ mem'[h] = Fresh
BY DEF Typed, TypeOK, End, Goto, Alone

LEMMA CleanUpMoves ==
    ASSUME Typed, NEW h \in Redeemers, NEW todo, NEW r, NEW d, CleanUp(h, todo, r, d)
    PROVE  /\ Alone(h) /\ pc'[h] = "closing"
           /\ mem'[h].requested = mem[h].requested /\ mem'[h].lease = mem[h].lease
           /\ mem'[h].grant = mem[h].grant
           /\ mem'[h].verdict.resolution = r /\ mem'[h].verdict.digest = d
<1>1. mem[h] \in Memory /\ mem \in [Redeemers -> Memory] /\ pc \in [Redeemers -> Steps]
    BY DEF Typed, TypeOK
<1>2. /\ mem' = [mem EXCEPT ![h].todo = todo, ![h].verdict = [resolution |-> r, digest |-> d]]
      /\ pc' = [pc EXCEPT ![h] = "closing"]
    BY DEF CleanUp, Goto
<1>3. mem'[h] = [mem[h] EXCEPT !.todo = todo, !.verdict = [resolution |-> r, digest |-> d]]
    BY <1>1, <1>2
<1>4. mem'[h].verdict = [resolution |-> r, digest |-> d]
    BY <1>1, <1>3 DEF Memory
<1>5. /\ mem'[h].requested = mem[h].requested /\ mem'[h].lease = mem[h].lease
      /\ mem'[h].grant = mem[h].grant
    BY <1>1, <1>3 DEF Memory
<1>6. Alone(h) /\ pc'[h] = "closing"
    BY <1>1, <1>2 DEF Alone
<1> QED BY <1>4, <1>5, <1>6

\* A step before the send, which touches no spent record.
LEMMA EarlyStep ==
    ASSUME IInv, Typed', NEW h \in Redeemers, Alone(h),
           pc[h] \notin Past \cup {"send", "sent", "store"},
           pc'[h] \notin {"send", "sent", "store"},
           UNCHANGED <<grant, spent, consenting, history>>,
           StoredKept => LeasesProven', StoredKept => Remembers(h)'
    PROVE  IInv'
<1>1. Quiet(h)
    BY DEF Quiet, Past, history
<1>2. StoredKept /\ ResponsesKept /\ \A q \in Redeemers : pc[q] \in Past => pc'[q] \in Past
    BY <1>1, QuietKeeps
<1>3. Receipts' /\ Fenced'
    BY <1>2, ReceiptsKept, FencedKept DEF IInv, consenting
<1> QED BY <1>1, <1>2, <1>3, QuietStep

\* So does one that only goes elsewhere with what it has, or ends.
LEMMA EarlyGoto ==
    ASSUME IInv, Typed', NEW h \in Redeemers, NEW p, Goto(h, p), UNCHANGED mem,
           pc[h] \notin Past \cup {"send", "sent", "store", "idle"},
           p \notin {"send", "sent", "store", "closing"}, p \in Claiming => pc[h] \in Claiming,
           UNCHANGED <<grant, spent, consenting, history>>, StoredKept => LeasesProven'
    PROVE  IInv'
<1>1. Alone(h) /\ pc'[h] = p /\ mem'[h] = mem[h]
    BY GotoMoves DEF IInv
<1>2. StoredKept => Remembers(h)'
    BY <1>1, RemembersMoved DEF IInv, Past
<1> QED BY <1>1, <1>2, EarlyStep

LEMMA EarlyEnd ==
    ASSUME IInv, Typed', NEW h \in Redeemers, End(h, "done"),
           pc[h] \notin Past \cup {"send", "sent", "store"},
           UNCHANGED <<grant, spent, consenting, history>>, StoredKept => LeasesProven'
    PROVE  IInv'
<1>1. Alone(h) /\ pc'[h] = "done" /\ mem'[h] = Fresh
    BY EndMoves DEF IInv
<1>2. Remembers(h)'
    BY <1>1, RemembersNothing DEF Over
<1> QED BY <1>1, <1>2, EarlyStep

LEMMA EarlyDiscard ==
    ASSUME IInv, Typed', NEW h \in Redeemers, Discard(h),
           pc[h] \notin Past \cup {"send", "sent", "store", "idle"},
           UNCHANGED <<grant, lease, consenting, history>>,
           \A t \in Tokens : spent'[t] = spent[t] \/ Relabelled(t)
    PROVE  IInv'
<1>1. /\ Alone(h) /\ pc'[h] = "closing"
      /\ mem'[h].requested = mem[h].requested /\ mem'[h].lease = mem[h].lease
      /\ mem'[h].grant = mem[h].grant /\ mem'[h].verdict.digest = None
    BY CleanUpMoves DEF Discard, IInv
<1>2. Quiet(h)
    BY <1>1 DEF Quiet, Past, history
<1>3. StoredKept /\ ResponsesKept /\ \A q \in Redeemers : pc[q] \in Past => pc'[q] \in Past
    BY <1>2, QuietKeeps
<1>4. Receipts' /\ Fenced' /\ LeasesProven'
    BY <1>3, ReceiptsKept, FencedKept, LeasesKept DEF IInv, consenting
<1>5. Remembers(h)'
    BY <1>1, <1>3, RemembersMoved DEF IInv, Past, Claiming
<1> QED BY <1>2, <1>4, <1>5, QuietStep

-----------------------------------------------------------------------------
(* The invariant, action by action. *)

LEMMA ReadTokensHolds == ASSUME IInv, NEW h \in Redeemers, ReadTokens(h) PROVE IInv'
<1>1. Typed' /\ mem[h] = Fresh /\ pc[h] = "idle" /\ mem \in [Redeemers -> Memory] /\ pc \in [Redeemers -> Steps]
    BY ReadTokensTyped, Standing DEF IInv, ReadTokens, PhaseAt, Typed, TypeOK
<1>2. Alone(h) /\ pc'[h] = "epoch"
    BY <1>1 DEF ReadTokens, Goto, Alone
<1>3. mem'[h].lease = None /\ mem'[h].grant = None
    BY <1>1 DEF ReadTokens, Fresh
<1>4. Remembers(h)'
    BY <1>2, <1>3 DEF Remembers, Claiming
<1>5. StoredKept => LeasesProven'
    BY LeasesKept DEF IInv, ReadTokens, storage
<1> QED BY <1>1, <1>2, <1>4, <1>5, EarlyStep DEF ReadTokens, Past, Over, storage

LEMMA FlowEpochHolds == ASSUME IInv, NEW h \in Redeemers, FlowEpoch(h) PROVE IInv'
<1>1. Typed' /\ mem[h] \in Memory /\ pc[h] = "epoch" /\ mem \in [Redeemers -> Memory] /\ pc \in [Redeemers -> Steps]
    BY FlowEpochTyped, Standing DEF IInv, FlowEpoch, PhaseAt, Typed, TypeOK
<1>2. /\ Alone(h) /\ pc'[h] = "tokens"
      /\ mem'[h].requested = mem[h].requested /\ mem'[h].lease = mem[h].lease
      /\ mem'[h].grant = mem[h].grant
    BY <1>1 DEF FlowEpoch, Goto, Alone, Memory
<1>3. StoredKept => Remembers(h)'
    BY <1>1, <1>2, RemembersMoved DEF IInv, Over, Claiming
<1>4. StoredKept => LeasesProven'
    BY LeasesKept DEF IInv, FlowEpoch, storage
<1> QED BY <1>1, <1>2, <1>3, <1>4, EarlyStep DEF FlowEpoch, Past, Over, storage

LEMMA StoredTokensHolds == ASSUME IInv, NEW h \in Redeemers, StoredTokens(h) PROVE IInv'
<1>1. Typed' /\ pc[h] = "tokens"
    BY StoredTokensTyped DEF IInv, StoredTokens
<1>2. StoredKept => LeasesProven'
    BY LeasesKept DEF IInv, StoredTokens, storage
<1> QED BY <1>1, <1>2, EarlyGoto, EarlyEnd DEF StoredTokens, Past, Over, Claiming, storage

LEMMA PollLeaseHolds == ASSUME IInv, NEW h \in Redeemers, PollLease(h) PROVE IInv'
<1>1. /\ Typed' /\ Typed /\ mem[h] \in Memory /\ pc[h] = "pollLease"
      /\ mem \in [Redeemers -> Memory] /\ pc \in [Redeemers -> Steps]
      /\ mem[h].requested \in Tokens /\ mem[h].epoch \in Epochs
    BY PollLeaseTyped, Standing DEF IInv, PollLease, PhaseAt, Typed, TypeOK, Over
<1>2. /\ Alone(h) /\ pc'[h] = "pollGrant"
      /\ mem'[h].requested = mem[h].requested /\ mem'[h].lease = LeaseOf(h)
      /\ mem'[h].grant = mem[h].grant
    BY <1>1 DEF PollLease, Goto, Alone, Memory
<1>3. ASSUME StoredKept PROVE Remembers(h)'
    <2>1. \A r, t : r = LeaseOf(h) /\ r # None /\ t = mem[h].requested => Proof(r, t)'
        <3> SUFFICES ASSUME NEW r, NEW t, r = LeaseOf(h), r # None, t = mem[h].requested
                     PROVE  Proof(r, t)'
            OBVIOUS
        <3>1. Proof(r, t)
            BY <1>1 DEF IInv, LeasesProven, LeaseOf
        <3> QED BY <1>1, <1>3, <3>1, ProofKept
    <2>2. \A r : r = mem[h].grant /\ r # None /\ r.consent # None => Received(r.consent)'
        <3> SUFFICES ASSUME NEW r, r = mem[h].grant, r # None, r.consent # None PROVE Received(r.consent)'
            OBVIOUS
        <3>1. r.consent \in Receipt /\ Received(r.consent)
            BY <1>1 DEF Memory, Grant, Remembers, IInv
        <3> QED BY <1>3, <3>1, ReceivedKept
    <2> QED BY <1>2, <2>1, <2>2 DEF Remembers, Claiming
<1>4. StoredKept => LeasesProven'
    BY LeasesKept DEF IInv, PollLease, storage
<1> QED BY <1>1, <1>2, <1>3, <1>4, EarlyStep DEF PollLease, Past, Over, storage

LEMMA PollGrantHolds == ASSUME IInv, NEW h \in Redeemers, PollGrant(h) PROVE IInv'
<1>1. /\ Typed' /\ Typed /\ mem[h] \in Memory /\ pc[h] = "pollGrant" /\ mem[h].requested \in Tokens
      /\ mem \in [Redeemers -> Memory] /\ pc \in [Redeemers -> Steps]
    <2>1. Typed /\ pc[h] = "pollGrant"
        BY DEF IInv, PollGrant
    <2>2. Typed'
        BY <2>1, PollGrantTyped
    <2>3. mem[h] \in Memory /\ mem[h].requested \in Tokens
        BY <2>1, Standing DEF Over
    <2> QED BY <2>1, <2>2, <2>3 DEF Typed, TypeOK
<1>2. StoredKept => LeasesProven'
    BY LeasesKept DEF IInv, PollGrant, storage
<1>3. CASE mem' = [mem EXCEPT ![h].grant = grant] /\ Goto(h, "pollSpent")
    <2>1. /\ Alone(h) /\ pc'[h] = "pollSpent"
          /\ mem'[h].requested = mem[h].requested /\ mem'[h].lease = mem[h].lease
          /\ mem'[h].grant = grant
        BY <1>1, <1>3 DEF Goto, Alone, Memory
    <2>2. ASSUME StoredKept PROVE Remembers(h)'
        <3>1. \A r : r = mem[h].lease /\ r # None => Proof(r, mem[h].requested)
            BY DEF IInv, Remembers
        <3>2. \A r, t : r = mem[h].lease /\ r # None /\ t = mem[h].requested => Proof(r, t)'
            BY <1>1, <2>2, <3>1, ProofKept
        <3>3. \A r : r = grant /\ r.consent # None => Received(r.consent)'
            <4> SUFFICES ASSUME NEW r, r = grant, r.consent # None PROVE Received(r.consent)'
                OBVIOUS
            <4>1. r.consent \in Receipt /\ Received(r.consent)
                BY Standing DEF Grant, Receipts, IInv
            <4> QED BY <2>2, <4>1, ReceivedKept
        <3> QED BY <2>1, <3>2, <3>3 DEF Remembers, Claiming
    <2> QED BY <1>1, <1>2, <2>1, <2>2, EarlyStep DEF PollGrant, Past, Over, storage
<1>4. CASE End(h, "done")
    BY <1>1, <1>2, <1>4, EarlyEnd DEF PollGrant, Past, Over, storage
<1> QED BY <1>3, <1>4 DEF PollGrant

\* A spent token that may be sent again has no spent record or a final one.
LEMMA MaySpendStored ==
    ASSUME IInv, NEW h \in Redeemers, pc[h] = "pollSpent", NEW s \in SpentRecord,
           Current(h, mem[h].grant.tokens), MaySpend(h, mem[h].lease, mem[h].grant, s)
    PROVE  Stored(s.holder, mem[h].requested)
<1> DEFINE record == mem[h].lease
<1> DEFINE g == mem[h].grant
<1>1. /\ mem[h] \in Memory /\ mem[h].requested \in Tokens /\ g \in Grant /\ g # None
      /\ g.tokens # None /\ g.tokens.refresh = mem[h].requested /\ s # None
    BY Standing, NoneIsFresh DEF IInv, PhaseAt, Memory, Over, Current
<1>2. CASE Committed(record, g.tokens) /\ s.holder = ProvenHolder(record)
    <2>1. record # None /\ Proof(record, mem[h].requested)
        BY <1>2 DEF IInv, Remembers, Committed
    <2>2. Proves(record) /\ record.digest # None /\ record.digest.refresh = mem[h].requested
        BY <1>1, <1>2 DEF Committed, Proves
    <2> QED BY <1>2, <2>1, <2>2 DEF Proof
<1>3. CASE g.consent = [token |-> mem[h].requested, resolution |-> s]
    <2>1. g.consent # None
        <3>1. g.consent \in Receipt
            BY <1>1, <1>3 DEF Receipt
        <3> QED BY <3>1, NoneIsFresh
    <2>2. Received(g.consent) /\ g.consent.resolution = s /\ g.consent.token = mem[h].requested
        BY <1>1, <1>3, <2>1 DEF IInv, Remembers
    <2> QED BY <2>2 DEF Received
<1> QED BY <1>1, <1>2, <1>3 DEF MaySpend

LEMMA PollSpentHolds == ASSUME IInv, NEW h \in Redeemers, PollSpent(h) PROVE IInv'
<1> DEFINE s == spent[mem[h].requested]
<1> DEFINE record == mem[h].lease
<1> DEFINE g == mem[h].grant
<1>1. /\ Typed' /\ Typed /\ mem[h] \in Memory /\ pc[h] = "pollSpent" /\ mem[h].requested \in Tokens
      /\ mem \in [Redeemers -> Memory] /\ pc \in [Redeemers -> Steps] /\ s \in SpentRecord \cup {None}
    BY ZenonT(60), PollSpentTyped, Standing DEF IInv, PollSpent, PhaseAt, Typed, TypeOK, Over
<1>2. UNCHANGED <<grant, lease, spent, consenting, history>>
    BY DEF PollSpent, storage
<1>3. StoredKept => LeasesProven'
    BY <1>2, LeasesKept DEF IInv
<1>4. CASE End(h, "done")
    BY <1>1, <1>2, <1>3, <1>4, EarlyEnd DEF Past, Over
<1>5. CASE Discard(h)
    BY <1>1, <1>2, <1>5, EarlyDiscard DEF Past, Over
<1>6. CASE Goto(h, "liveness") /\ UNCHANGED mem
    BY <1>1, <1>2, <1>3, <1>6, EarlyGoto DEF Past, Over, Claiming
<1>7. CASE /\ Current(h, g.tokens)
           /\ mem' = [mem EXCEPT ![h].spent = s]
           /\ \/ Goto(h, "recheck")
              \/ MaySpend(h, record, g, s) /\ Goto(h, "claim")
              \/ Goto(h, "pollLease")
    <2>1. /\ Alone(h) /\ pc'[h] \in {"recheck", "claim", "pollLease"}
          /\ mem'[h].requested = mem[h].requested /\ mem'[h].lease = mem[h].lease
          /\ mem'[h].grant = mem[h].grant /\ mem'[h].spent = s
        BY <1>1, <1>7 DEF Goto, Alone, Memory
    <2>2. ASSUME StoredKept PROVE Remembers(h)'
        <3>1. CASE pc'[h] # "claim"
            BY <1>1, <2>1, <2>2, <3>1, RemembersMoved DEF IInv, Over, Claiming
        <3>2. CASE pc'[h] = "claim"
            <4>1. MaySpend(h, record, g, s)
                BY <1>1, <1>7, <3>2 DEF Goto
            <4>2. s # None => Stored(s.holder, mem[h].requested) /\ s.holder \in Redeemers
                BY <1>1, <1>7, <4>1, MaySpendStored DEF SpentRecord
            <4>3. \A r, t : r = s /\ r # None /\ t = mem[h].requested => Stored(r.holder, t)'
                BY <1>1, <2>2, <4>2 DEF StoredKept
            <4>4. \A r, t : r = mem[h].lease /\ r # None /\ t = mem[h].requested => Proof(r, t)'
                <5>1. \A r : r = mem[h].lease /\ r # None => Proof(r, mem[h].requested)
                    BY DEF IInv, Remembers
                <5> QED BY <1>1, <2>2, <5>1, ProofKept
            <4>5. \A r : r = mem[h].grant /\ r # None /\ r.consent # None => Received(r.consent)'
                <5> SUFFICES ASSUME NEW r, r = mem[h].grant, r # None, r.consent # None
                             PROVE  Received(r.consent)'
                    OBVIOUS
                <5>1. r.consent \in Receipt /\ Received(r.consent)
                    BY <1>1 DEF Memory, Grant, Remembers, IInv
                <5> QED BY <2>2, <5>1, ReceivedKept
            <4> HIDE DEF s
            <4> QED BY <2>1, <3>2, <4>3, <4>4, <4>5 DEF Remembers
        <3> QED BY <3>1, <3>2
    <2> QED BY <1>1, <1>2, <1>3, <2>1, <2>2, EarlyStep DEF Past, Over
<1>8. \/ End(h, "done")
      \/ Discard(h)
      \/ Goto(h, "liveness") /\ UNCHANGED mem
      \/ /\ Current(h, g.tokens)
         /\ mem' = [mem EXCEPT ![h].spent = s]
         /\ \/ Goto(h, "recheck")
            \/ MaySpend(h, record, g, s) /\ Goto(h, "claim")
            \/ Goto(h, "pollLease")
    BY Zenon DEF PollSpent
<1> QED BY <1>4, <1>5, <1>6, <1>7, <1>8

LEMMA ReadLivenessHolds == ASSUME IInv, NEW h \in Redeemers, ReadLiveness(h) PROVE IInv'
<1>1. StoredKept => LeasesProven'
    BY LeasesKept DEF IInv, ReadLiveness, storage
<1>2. Typed' /\ pc[h] = "liveness" /\ UNCHANGED <<grant, spent, mem, consenting, history>>
    BY ReadLivenessTyped DEF IInv, ReadLiveness, storage
<1>3. PICK p \in {"pollLease", "condemn"} : Goto(h, p)
    BY DEF ReadLiveness
<1> QED BY <1>1, <1>2, <1>3, EarlyGoto DEF Past, Over, Claiming

LEMMA CondemnHolds == ASSUME IInv, NEW h \in Redeemers, Condemn(h) PROVE IInv'
<1>1. /\ Typed' /\ Typed /\ pc[h] = "condemn" /\ mem[h].lease \in LeaseRecord
    BY CondemnTyped, Standing DEF IInv, Condemn, PhaseAt, Memory
<1>2. StoredKept => LeasesProven'
    <2> DEFINE r == [mem[h].lease EXCEPT !.state = "dead"]
    <2>1. \A q, t : q = r => Proof(q, t)'
        BY <1>1 DEF Proof, Proves, LeaseRecord
    <2>2. mem[h].requested \in Tokens
        BY <1>1, Standing DEF Over
    <2> HIDE DEF r
    <2>3. CASE SetLease(h, r)
        BY <1>1, <2>1, <2>2, <2>3, LeaseProven DEF IInv, Over
    <2>4. CASE UNCHANGED lease
        BY <2>4, LeasesKept DEF IInv
    <2> QED BY <2>3, <2>4 DEF Condemn, r
<1>3. PICK p \in {"ambiguous", "pollLease"} : Goto(h, p)
    BY DEF Condemn
<1> QED BY <1>1, <1>2, <1>3, EarlyGoto DEF Condemn, Past, Over, Claiming

LEMMA ResolveVanishedHolds == ASSUME IInv, NEW h \in Redeemers, ResolveVanished(h) PROVE IInv'
<1> DEFINE s == spent[mem[h].requested]
<1>1. Typed' /\ pc[h] = "ambiguous" /\ mem[h].requested \in Tokens /\ s \in SpentRecord \cup {None}
    BY ResolveVanishedTyped, Standing DEF IInv, ResolveVanished, Over
<1>2. \A t \in Tokens : spent'[t] = spent[t] \/ Relabelled(t)
    <2>1. CASE s # None /\ SetSpent(mem[h].requested, [s EXCEPT !.state = "ambiguous"])
        <3> DEFINE r == [s EXCEPT !.state = "ambiguous"]
        <3>1. r # None /\ r.holder = s.holder /\ r.state = "ambiguous"
            BY <1>1, <2>1, NoneIsFresh DEF SpentRecord
        <3>2. \A t \in Tokens : spent'[t] = IF t = mem[h].requested THEN r ELSE spent[t]
            BY <1>1, <2>1 DEF SetSpent, IInv, Typed, TypeOK
        <3> QED BY <2>1, <3>1, <3>2 DEF Relabelled
    <2>2. CASE UNCHANGED spent
        BY <2>2
    <2> QED BY <2>1, <2>2 DEF ResolveVanished
<1> QED BY <1>1, <1>2, EarlyDiscard DEF ResolveVanished, Past, Over

LEMMA RecheckHolds == ASSUME IInv, NEW h \in Redeemers, Recheck(h) PROVE IInv'
<1>1. Typed' /\ pc[h] = "recheck" /\ UNCHANGED <<grant, lease, spent, consenting, history>>
    BY RecheckTyped DEF IInv, Recheck, storage
<1>2. StoredKept => LeasesProven'
    BY <1>1, LeasesKept DEF IInv
<1>3. CASE Discard(h)
    BY <1>1, <1>3, EarlyDiscard DEF Past, Over
<1>4. CASE UNCHANGED mem /\ (Goto(h, "pollLease") \/ Goto(h, "orphan"))
    BY <1>1, <1>2, <1>4, EarlyGoto DEF Past, Over, Claiming
<1> QED BY <1>3, <1>4 DEF Recheck

LEMMA ReadOrphanHolds == ASSUME IInv, NEW h \in Redeemers, ReadOrphan(h) PROVE IInv'
<1>1. Typed' /\ pc[h] = "orphan" /\ UNCHANGED <<grant, lease, spent, consenting, history>>
    BY ReadOrphanTyped DEF IInv, ReadOrphan, storage
<1>2. StoredKept => LeasesProven'
    BY <1>1, LeasesKept DEF IInv
<1>3. CASE Discard(h)
    BY <1>1, <1>3, EarlyDiscard DEF Past, Over
<1>4. CASE UNCHANGED mem /\ Goto(h, "orphaned")
    BY <1>1, <1>2, <1>4, EarlyGoto DEF Past, Over, Claiming
<1> QED BY <1>3, <1>4 DEF ReadOrphan

LEMMA MarkOrphanHolds == ASSUME IInv, NEW h \in Redeemers, MarkOrphan(h) PROVE IInv'
<1>1. Typed' /\ pc[h] = "orphaned" /\ mem[h].requested \in Tokens /\ mem[h].spent \in SpentRecord
    BY MarkOrphanTyped, Standing DEF IInv, MarkOrphan, PhaseAt, Over, Memory
<1>2. \A t \in Tokens : spent'[t] = spent[t] \/ Relabelled(t)
    <2> DEFINE r == [mem[h].spent EXCEPT !.state = "ambiguous"]
    <2>1. CASE spent[mem[h].requested] = mem[h].spent /\ SetSpent(mem[h].requested, r)
        <3>1. r # None /\ r.holder = mem[h].spent.holder /\ r.state = "ambiguous" /\ mem[h].spent # None
            BY <1>1, NoneIsFresh DEF SpentRecord
        <3>2. \A t \in Tokens : spent'[t] = IF t = mem[h].requested THEN r ELSE spent[t]
            BY <1>1, <2>1 DEF SetSpent, IInv, Typed, TypeOK
        <3> QED BY <2>1, <3>1, <3>2 DEF Relabelled
    <2>2. CASE UNCHANGED spent
        BY <2>2
    <2> QED BY <2>1, <2>2 DEF MarkOrphan
<1> QED BY <1>1, <1>2, EarlyDiscard DEF MarkOrphan, Past, Over

LEMMA ClaimHolds == ASSUME IInv, NEW h \in Redeemers, Claim(h) PROVE IInv'
<1>1. /\ Typed' /\ Typed /\ mem[h] \in Memory /\ pc[h] = "claim" /\ mem[h].requested \in Tokens
      /\ mem \in [Redeemers -> Memory] /\ pc \in [Redeemers -> Steps]
      /\ UNCHANGED <<grant, spent, consenting, history>>
    BY ClaimTyped, Standing DEF IInv, Claim, Typed, TypeOK, Over
<1>2. CASE UNCHANGED <<lease, mem>> /\ Goto(h, "pollLease")
    <2>1. StoredKept => LeasesProven'
        BY <1>2, LeasesKept DEF IInv
    <2> QED BY <1>1, <1>2, <2>1, EarlyGoto DEF Past, Over, Claiming
<1>3. CASE /\ SetLease(h, ClaimOf(h)) /\ Goto(h, "verify")
           /\ mem' = [mem EXCEPT ![h].lease = ClaimOf(h)]
    <2>1. /\ Alone(h) /\ pc'[h] = "verify"
          /\ mem'[h].requested = mem[h].requested /\ mem'[h].lease = ClaimOf(h)
          /\ mem'[h].grant = mem[h].grant /\ mem'[h].spent = mem[h].spent
        BY <1>1, <1>3 DEF Goto, Alone, Memory
    <2>2. Proof(ClaimOf(h), mem[h].requested)
        <3> DEFINE c == ClaimOf(h)
        <3>1. c.state = "claimed" /\ (c.predecessor # None =>
                /\ mem[h].lease \in LeaseRecord /\ Proves(mem[h].lease)
                /\ c.digest = mem[h].lease.digest /\ c.predecessor = ProvenHolder(mem[h].lease))
            BY <1>1, ClaimOfFacts
        <3>2. ProvenHolder(c) = c.predecessor /\ (Proves(c) => c.predecessor # None)
            BY <3>1 DEF ProvenHolder, Proves
        <3>3. mem[h].lease \in LeaseRecord => Proof(mem[h].lease, mem[h].requested)
            BY NoneIsFresh DEF IInv, Remembers
        <3> QED BY <3>1, <3>2, <3>3 DEF Proof
    <2>3. ASSUME StoredKept
          PROVE  \A r, t : r = ClaimOf(h) /\ t = mem[h].requested => Proof(r, t)'
        BY <1>1, <2>2, <2>3, ProofKept
    <2>4. StoredKept => LeasesProven'
        BY <1>1, <1>3, <2>3, LeaseProven DEF IInv, Over
    <2>5. ASSUME StoredKept PROVE Remembers(h)'
        <3>1. \A r : r = mem[h].grant /\ r # None /\ r.consent # None => Received(r.consent)'
            <4> SUFFICES ASSUME NEW r, r = mem[h].grant, r # None, r.consent # None
                         PROVE  Received(r.consent)'
                OBVIOUS
            <4>1. r.consent \in Receipt /\ Received(r.consent)
                BY <1>1 DEF Memory, Grant, Remembers, IInv
            <4> QED BY <2>5, <4>1, ReceivedKept
        <3>2. mem[h].spent # None =>
                Stored(mem[h].spent.holder, mem[h].requested) /\ mem[h].spent.holder \in Redeemers
            BY <1>1 DEF IInv, Remembers, Claiming, Memory, SpentRecord
        <3>3. \A r, t : r = mem[h].spent /\ r # None /\ t = mem[h].requested => Stored(r.holder, t)'
            BY <1>1, <2>5, <3>2 DEF StoredKept
        <3> QED BY <2>1, <2>3, <2>5, <3>1, <3>3 DEF Remembers
    <2> QED BY <1>1, <2>1, <2>4, <2>5, EarlyStep DEF Past, Over
<1> QED BY <1>2, <1>3 DEF Claim

LEMMA VerifyHolds == ASSUME IInv, NEW h \in Redeemers, Verify(h) PROVE IInv'
<1>1. Typed' /\ pc[h] = "verify" /\ UNCHANGED <<grant, lease, spent, mem, consenting, history>>
    BY VerifyTyped DEF IInv, Verify, storage
<1>2. StoredKept => LeasesProven'
    BY <1>1, LeasesKept DEF IInv
<1>3. PICK p \in {"activate", "unclaim"} : Goto(h, p)
    BY DEF Verify
<1> QED BY <1>1, <1>2, <1>3, EarlyGoto DEF Past, Over, Claiming

LEMMA UnclaimHolds ==
    ASSUME IInv, NEW h \in Redeemers, Unclaim(h) \/ UnclaimFails(h) PROVE IInv'
<1> DEFINE mine == mem[h].lease
<1> DEFINE restored == [mine EXCEPT !.holder = mine.predecessor, !.state = "completed"]
<1>1. /\ Typed' /\ Typed /\ pc[h] = "unclaim" /\ End(h, "done")
      /\ UNCHANGED <<grant, spent, consenting, history>>
    BY UnclaimTyped DEF IInv, Unclaim, UnclaimFails, storage
<1>2. /\ mine \in LeaseRecord /\ mine # None /\ mine.state = "claimed"
      /\ mem[h].requested \in Tokens
    BY <1>1, Standing DEF PhaseAt, Memory, Over
<1>3. CASE UNCHANGED lease
    <2>1. StoredKept => LeasesProven'
        BY <1>3, LeasesKept DEF IInv
    <2> QED BY <1>1, <2>1, EarlyEnd DEF Past, Over
<1>4. CASE \E r : SetLease(h, r) /\ r = IF mine.predecessor = None THEN None ELSE restored
    <2>1. PICK r : SetLease(h, r) /\ r = IF mine.predecessor = None THEN None ELSE restored
        BY <1>4
    <2>2. r # None => Proof(r, mem[h].requested)
        <3> SUFFICES ASSUME r # None PROVE Proof(r, mem[h].requested)
            OBVIOUS
        <3>1. r = restored /\ mine.predecessor # None
            BY <2>1
        <3>2. r.digest = mine.digest /\ ProvenHolder(r) = ProvenHolder(mine) /\ Proves(mine)
            BY <1>2, <3>1 DEF LeaseRecord, ProvenHolder, Proves
        <3>3. Proof(mine, mem[h].requested)
            BY <1>2 DEF IInv, Remembers
        <3> QED BY <3>2, <3>3 DEF Proof
    <2>3. ASSUME StoredKept PROVE LeasesProven'
        <3>1. \A t : t = mem[h].requested /\ r # None => Proof(r, t)'
            BY <1>2, <2>2, <2>3, ProofKept
        <3> HIDE DEF restored
        <3> QED BY <1>1, <2>1, <2>3, <3>1, LeaseProven DEF IInv, Over
    <2> QED BY <1>1, <2>3, EarlyEnd DEF Past, Over
<1> QED BY <1>3, <1>4 DEF Unclaim, UnclaimFails, storage

LEMMA ActivateHolds == ASSUME IInv, NEW h \in Redeemers, Activate(h) PROVE IInv'
<1>1. /\ Typed' /\ Typed /\ mem[h] \in Memory /\ pc[h] = "activate"
      /\ mem \in [Redeemers -> Memory] /\ pc \in [Redeemers -> Steps]
      /\ UNCHANGED <<grant, lease, spent, consenting, history>>
    BY ActivateTyped, Standing DEF IInv, Activate, Typed, TypeOK
<1>2. /\ Alone(h) /\ pc'[h] = "dispatch"
      /\ mem'[h].requested = mem[h].requested /\ mem'[h].lease = mem[h].lease
      /\ mem'[h].grant = mem[h].grant /\ mem'[h].spent = mem[h].spent
    BY <1>1 DEF Activate, Goto, Alone, Memory
<1>3. StoredKept => Remembers(h)'
    BY <1>1, <1>2, RemembersMoved DEF IInv, Over, Claiming
<1>4. StoredKept => LeasesProven'
    BY <1>1, LeasesKept DEF IInv
<1> QED BY <1>1, <1>2, <1>3, <1>4, EarlyStep DEF Past, Over

LEMMA PrepareFailsHolds == ASSUME IInv, NEW h \in Redeemers, PrepareFails(h) PROVE IInv'
<1>1. /\ Typed' /\ pc[h] \in {"verify", "activate", "dispatch"} /\ Goto(h, "unclaim")
      /\ UNCHANGED <<grant, lease, spent, mem, consenting, history>>
    BY PrepareFailsTyped DEF IInv, PrepareFails, storage
<1>2. StoredKept => LeasesProven'
    BY <1>1, LeasesKept DEF IInv
<1> QED BY <1>1, <1>2, EarlyGoto DEF Past, Over, Claiming

LEMMA DispatchHolds ==
    ASSUME IInv, NEW h \in Redeemers, Dispatch(h) \/ DispatchAnswerLost(h) PROVE IInv'
<1>1. /\ Typed' /\ Typed /\ mem[h] \in Memory /\ pc[h] = "dispatch" /\ mem[h].requested \in Tokens
      /\ mem \in [Redeemers -> Memory] /\ pc \in [Redeemers -> Steps]
      /\ UNCHANGED <<grant, spent, consenting, history>>
    BY DispatchTyped, Standing DEF IInv, Dispatch, DispatchAnswerLost, Typed, TypeOK, Over
<1>2. \A r, t : r = Sending(h) => Proof(r, t)'
    <2>1. mem[h].lease \in LeaseRecord
        BY <1>1, Standing DEF PhaseAt, Memory
    <2> QED BY <2>1 DEF Sending, LeaseRecord, Proof, Proves
<1>3. CASE UNCHANGED <<lease, mem>> /\ Goto(h, "unclaim")
    <2>1. StoredKept => LeasesProven'
        BY <1>3, LeasesKept DEF IInv
    <2> QED BY <1>1, <1>3, <2>1, EarlyGoto DEF Past, Over, Claiming
<1>4. CASE SetLease(h, Sending(h))
    <2>1. StoredKept => LeasesProven'
        BY <1>1, <1>2, <1>4, LeaseProven DEF IInv, Over
    <2>2. CASE UNCHANGED mem /\ Goto(h, "unclaim")
        BY <1>1, <2>1, <2>2, EarlyGoto DEF Past, Over, Claiming
    <2>3. CASE mem' = [mem EXCEPT ![h].lease = Sending(h)] /\ Goto(h, "spend")
        <3>1. /\ Alone(h) /\ pc'[h] = "spend"
              /\ mem'[h].requested = mem[h].requested /\ mem'[h].lease = Sending(h)
              /\ mem'[h].grant = mem[h].grant /\ mem'[h].spent = mem[h].spent
            BY <1>1, <2>3 DEF Goto, Alone, Memory
        <3>2. ASSUME StoredKept PROVE Remembers(h)'
            <4>1. \A r : r = mem[h].grant /\ r # None /\ r.consent # None => Received(r.consent)'
                <5> SUFFICES ASSUME NEW r, r = mem[h].grant, r # None, r.consent # None
                             PROVE  Received(r.consent)'
                    OBVIOUS
                <5>1. r.consent \in Receipt /\ Received(r.consent)
                    BY <1>1 DEF Memory, Grant, Remembers, IInv
                <5> QED BY <3>2, <5>1, ReceivedKept
            <4>2. mem[h].spent # None =>
                    Stored(mem[h].spent.holder, mem[h].requested) /\ mem[h].spent.holder \in Redeemers
                BY <1>1 DEF IInv, Remembers, Claiming, Memory, SpentRecord
            <4>3. \A r, t : r = mem[h].spent /\ r # None /\ t = mem[h].requested => Stored(r.holder, t)'
                BY <1>1, <3>2, <4>2 DEF StoredKept
            <4> QED BY <1>2, <3>1, <4>1, <4>3 DEF Remembers
        <3> QED BY <1>1, <2>1, <3>1, <3>2, EarlyStep DEF Past, Over
    <2> QED BY <1>4, <2>2, <2>3 DEF Dispatch, DispatchAnswerLost
<1> QED BY <1>3, <1>4 DEF Dispatch, DispatchAnswerLost

\* The CAS that makes the token h's own. It was nobody's or a resolved holder's,
\* so the token was stored since and is not without an answer.
LEMMA SpendTakes ==
    ASSUME IInv, Typed', NEW h \in Redeemers, pc[h] = "spend", Alone(h),
           NEW t, t = mem[h].requested, spent[t] = mem[h].spent, SetSpent(t, Outstanding(h)),
           mem'[h].requested = t, pc'[h] \in {"send", "closing"},
           UNCHANGED <<grant, lease, consenting, history>>, StoredKept => Remembers(h)'
    PROVE  IInv'
<1>1. /\ t \in Tokens /\ Outstanding(h) # None /\ Outstanding(h).holder = h
      /\ Outstanding(h).state = "outstanding"
      /\ \A u \in Tokens : spent[u] # None => spent[u].holder \in Redeemers
    <2>1. t \in Tokens
        BY Standing DEF IInv, Over
    <2>2. \A u \in Tokens : spent[u] # None => spent[u].holder \in Redeemers
        BY DEF IInv, Typed, TypeOK, SpentRecord
    <2> QED BY <2>1, <2>2, OutstandingFacts DEF IInv
<1>2. \A u \in Tokens : spent'[u] = IF u = t THEN Outstanding(h) ELSE spent[u]
    BY <1>1 DEF SetSpent, IInv, Typed, TypeOK
<1>3. /\ spent[t] = None \/ spent[t].state = "resolved"
      /\ t \notin unstored /\ t \notin unanswered
    <2>1. spent[t] = None \/ spent[t].state = "resolved"
        BY Standing DEF IInv, PhaseAt, Claiming
    <2>2. spent[t] # None => Stored(spent[t].holder, t)
        BY DEF IInv, Remembers, Claiming
    <2> QED BY <2>1, <2>2 DEF IInv, UnstoredSpent, Blocked, Stored
<1>4. \A u \in Tokens : spent[u] # None => spent[u].holder # h
    BY DEF IInv, SpentOwned, Past, Over
<1>5. \A q \in Redeemers : pc[q] \in Past => pc'[q] \in Past /\ q # h
    BY DEF Alone, Past, Over
<1>6. \A q \in Redeemers, u \in Tokens :
        pc[q] \in Past /\ spent'[u] # None /\ spent'[u].holder = q =>
            spent[u] # None /\ spent[u].holder = q
    BY <1>1, <1>2, <1>5
<1>7. UNCHANGED <<responses, unanswered, unstored>>
    BY DEF history
<1>8. StoredKept
    BY <1>5, <1>6, <1>7, StoredStays
<1>9. ResponsesKept
    BY <1>7, SameResponses DEF IInv
<1>10. ASSUME NEW k \in Redeemers PROVE Remembers(k)' /\ OwnsSend(k)'
    <2>1. CASE k = h
        BY <1>1, <1>2, <1>3, <1>7, <1>8, <2>1 DEF OwnsSend
    <2>2. CASE k # h
        <3>1. pc'[k] = pc[k] /\ mem'[k] = mem[k]
            BY <2>2 DEF Alone
        <3>2. Remembers(k)'
            BY <1>8, <1>9, <3>1, RemembersKept DEF IInv
        <3>3. CASE pc[k] \in {"send", "sent"}
            <4> DEFINE u == mem[k].requested
            <4>1. /\ u \in Tokens /\ spent[u] # None /\ spent[u].holder = k /\ spent[u].state # "resolved"
                  /\ pc[k] = "send" => u \notin unstored
                BY <3>3, Standing DEF IInv, OwnsSend, Over
            <4>2. u # t
                BY <1>3, <4>1
            <4>3. spent'[u] = spent[u]
                BY <1>2, <4>1, <4>2
            <4> QED BY <1>7, <3>1, <3>2, <4>1, <4>3 DEF OwnsSend
        <3>4. CASE pc[k] \notin {"send", "sent"}
            BY <3>1, <3>2, <3>4 DEF OwnsSend
        <3> QED BY <3>3, <3>4
    <2> QED BY <2>1, <2>2
<1>11. SpentOwned'
    <2> SUFFICES ASSUME NEW u \in Tokens, NEW k, spent'[u] # None, k = spent'[u].holder
                 PROVE  /\ pc'[k] \in Past \cup {"send", "sent", "store"}
                        /\ pc'[k] \notin Over => mem'[k].requested = u
                        /\ spent'[u].state = "resolved" => pc'[k] \in Past
        BY DEF SpentOwned
    <2>1. CASE u = t
        BY <1>1, <1>2, <2>1 DEF Past
    <2>2. CASE u # t
        <3>1. spent[u] # None /\ k = spent[u].holder /\ k \in Redeemers /\ k # h /\ spent'[u] = spent[u]
            BY <1>1, <1>2, <1>4, <2>2
        <3> QED BY <3>1 DEF IInv, SpentOwned, Alone
    <2> QED BY <2>1, <2>2
<1>12. Blocked'
    <2> SUFFICES ASSUME NEW u \in unanswered, NEW k, k = spent'[u].holder
                 PROVE  /\ spent'[u] # None /\ spent'[u].state # "resolved"
                        /\ \/ pc'[k] \in Over \cup {"sent"}
                           \/ pc'[k] = "closing" /\ mem'[k].verdict.resolution = "ambiguous"
        BY <1>7 DEF Blocked
    <2>1. u \in Tokens /\ u # t
        BY <1>3 DEF IInv, Typed, TypeOK
    <2>2. spent'[u] = spent[u] /\ spent[u] # None /\ k \in Redeemers /\ k # h
        BY <1>1, <1>2, <1>4, <2>1 DEF IInv, Blocked
    <2> QED BY <2>2 DEF IInv, Blocked, Alone
<1>13. UnstoredSpent'
    BY <1>1, <1>2, <1>7 DEF IInv, UnstoredSpent, Typed, TypeOK
<1>14. LeasesProven' /\ Receipts' /\ Fenced'
    BY <1>5, <1>8, <1>9, LeasesKept, ReceiptsKept, FencedKept DEF IInv, consenting
<1> QED BY <1>10, <1>11, <1>12, <1>13, <1>14 DEF IInv

LEMMA SpendHolds ==
    ASSUME IInv, NEW h \in Redeemers, Spend(h) \/ SpendAnswerLost(h) PROVE IInv'
<1>1. /\ Typed' /\ Typed /\ pc[h] = "spend" /\ UNCHANGED <<grant, lease, consenting, history>>
    BY SpendTyped DEF IInv, Spend, SpendAnswerLost
<1>2. CASE Goto(h, "send") /\ UNCHANGED mem
    <2>1. Alone(h) /\ pc'[h] = "send" /\ mem'[h] = mem[h]
        BY <1>1, <1>2, GotoMoves
    <2>2. StoredKept => Remembers(h)'
        BY <1>1, <2>1, RemembersMoved DEF IInv, Over, Claiming
    <2>3. spent[mem[h].requested] = mem[h].spent /\ SetSpent(mem[h].requested, Outstanding(h))
        BY <1>2, <2>1 DEF Spend, SpendAnswerLost, CleanUp, Goto, IInv, Typed, TypeOK
    <2> QED BY <1>1, <2>1, <2>2, <2>3, SpendTakes
<1>3. CASE CleanUp(h, Append(Release, "discard"), "ambiguous", None)
    <2>1. /\ Alone(h) /\ pc'[h] = "closing"
          /\ mem'[h].requested = mem[h].requested /\ mem'[h].lease = mem[h].lease
          /\ mem'[h].grant = mem[h].grant /\ mem'[h].verdict.digest = None
        BY <1>1, <1>3, CleanUpMoves
    <2>2. StoredKept => Remembers(h)'
        BY <1>1, <2>1, RemembersMoved DEF IInv, Over, Claiming
    <2>3. CASE UNCHANGED spent
        <3>1. StoredKept => LeasesProven'
            BY <1>1, LeasesKept DEF IInv
        <3> QED BY <1>1, <2>1, <2>2, <2>3, <3>1, EarlyStep DEF Past, Over
    <2>4. CASE spent[mem[h].requested] = mem[h].spent /\ SetSpent(mem[h].requested, Outstanding(h))
        BY <1>1, <2>1, <2>2, <2>4, SpendTakes
    <2> QED BY <2>3, <2>4 DEF Spend, SpendAnswerLost
<1> QED BY <1>2, <1>3 DEF Spend, SpendAnswerLost

-----------------------------------------------------------------------------
(* The request and its answer. *)

\* The token is sent or answered: the sender's own spent record stands.
LEMMA SenderStep ==
    ASSUME IInv, Typed', NEW h \in Redeemers, pc[h] \in {"send", "sent"}, Alone(h),
           NEW t, t = mem[h].requested, mem'[h].requested = t,
           pc'[h] \in {"sent", "store", "closing"}, UNCHANGED <<storage, consenting>>,
           unanswered' = IF pc'[h] = "sent" THEN unanswered \cup {t} ELSE unanswered \ {t},
           unstored' = unstored \cup {t},
           ResponsesKept, StoredKept => Remembers(h)'
    PROVE  IInv'
<1>1. t \in Tokens /\ spent[t] # None /\ spent[t].holder = h /\ spent[t].state # "resolved"
    BY Standing DEF IInv, OwnsSend, Over
<1>2. \A u \in Tokens : spent[u] # None /\ spent[u].holder = h => u = t /\ spent[u].state # "resolved"
    BY DEF IInv, SpentOwned, Past, Over
<1>3. \A u \in Tokens : spent[u] # None => spent[u].holder \in Redeemers
    BY DEF IInv, Typed, TypeOK, SpentRecord
<1>4. UNCHANGED <<grant, lease, spent, consent>>
    BY DEF storage, consenting
<1>5. \A q \in Redeemers : pc[q] \in Past => pc'[q] \in Past /\ q # h
    BY DEF Alone, Past, Over
<1>6. \A q \in Redeemers, u \in Tokens :
        pc[q] \in Past /\ spent'[u] # None /\ spent'[u].holder = q =>
            /\ spent[u] # None /\ spent[u].holder = q
            /\ u \in unstored' => u \in unstored
    BY <1>1, <1>4, <1>5
<1>7. StoredKept
    BY <1>5, <1>6, StoredStays
<1>8. ASSUME NEW k \in Redeemers PROVE Remembers(k)' /\ OwnsSend(k)'
    <2>1. CASE k = h
        BY <1>1, <1>4, <1>7, <2>1 DEF OwnsSend
    <2>2. CASE k # h
        <3>1. pc'[k] = pc[k] /\ mem'[k] = mem[k]
            BY <2>2 DEF Alone
        <3>2. Remembers(k)'
            BY <1>7, <3>1, RemembersKept DEF IInv
        <3>3. OwnsSend(k)
            BY DEF IInv
        <3>4. pc[k] = "send" => mem[k].requested # t
            BY <1>1, <2>2, <3>3 DEF OwnsSend
        <3> QED BY <1>4, <3>1, <3>2, <3>3, <3>4 DEF OwnsSend
    <2> QED BY <2>1, <2>2
<1>9. SpentOwned'
    <2> SUFFICES ASSUME NEW u \in Tokens, NEW k, spent[u] # None, k = spent[u].holder
                 PROVE  /\ pc'[k] \in Past \cup {"send", "sent", "store"}
                        /\ pc'[k] \notin Over => mem'[k].requested = u
                        /\ spent[u].state = "resolved" => pc'[k] \in Past
        BY <1>4 DEF SpentOwned
    <2>1. CASE k = h
        BY <1>2, <2>1 DEF Past
    <2>2. CASE k # h
        BY <1>3, <2>2 DEF IInv, SpentOwned, Alone
    <2> QED BY <2>1, <2>2
<1>10. Blocked'
    <2> SUFFICES ASSUME NEW u \in unanswered', NEW k, k = spent[u].holder
                 PROVE  /\ spent[u] # None /\ spent[u].state # "resolved"
                        /\ \/ pc'[k] \in Over \cup {"sent"}
                           \/ pc'[k] = "closing" /\ mem'[k].verdict.resolution = "ambiguous"
        BY <1>4 DEF Blocked
    <2>1. CASE u = t
        BY <1>1, <2>1
    <2>2. CASE u # t
        <3>1. u \in unanswered /\ u \in Tokens
            BY <2>2 DEF IInv, Typed, TypeOK
        <3>2. spent[u] # None /\ k # h /\ k \in Redeemers
            BY <1>2, <1>3, <2>2, <3>1 DEF IInv, Blocked
        <3> QED BY <3>1, <3>2 DEF IInv, Blocked, Alone
    <2> QED BY <2>1, <2>2
<1>11. UnstoredSpent'
    BY <1>1, <1>4 DEF IInv, UnstoredSpent
<1>12. LeasesProven' /\ Receipts' /\ Fenced'
    BY <1>4, <1>5, <1>7, LeasesKept, ReceiptsKept, FencedKept DEF IInv
<1> QED BY <1>8, <1>9, <1>10, <1>11, <1>12 DEF IInv

LEMMA SendHolds == ASSUME IInv, NEW h \in Redeemers, Send(h) PROVE IInv'
<1>1. /\ Typed' /\ Typed /\ pc[h] = "send" /\ Goto(h, "sent") /\ UNCHANGED mem
      /\ UNCHANGED <<storage, consenting, responses>>
    BY SendTyped DEF IInv, Send
<1>2. Alone(h) /\ pc'[h] = "sent" /\ mem'[h] = mem[h]
    BY <1>1, GotoMoves
<1>3. StoredKept => Remembers(h)'
    BY <1>1, <1>2, RemembersMoved DEF IInv, Over, Claiming
<1> QED BY <1>1, <1>2, <1>3, SameResponses, SenderStep DEF Send

LEMMA AcceptedHolds == ASSUME IInv, NEW h \in Redeemers, Accepted(h) PROVE IInv'
<1>1. PICK t \in Tokens :
        /\ Issue(mem[h].epoch, t, mem[h].requested)
        /\ mem' = [mem EXCEPT ![h].got = [refresh |-> t, access |-> Len(responses) + 1]]
    BY DEF Accepted
<1> DEFINE g == [refresh |-> t, access |-> Len(responses) + 1]
<1>2. /\ Typed' /\ Typed /\ pc[h] = "sent" /\ mem[h] \in Memory /\ mem[h].requested \in Tokens
      /\ mem[h].epoch \in Epochs /\ mem \in [Redeemers -> Memory] /\ pc \in [Redeemers -> Steps]
    BY AcceptedTyped, Standing DEF IInv, Accepted, Typed, TypeOK, Over
<1>3. ResponsesKept /\ Len(responses') = Len(responses) + 1 /\ responses'[Len(responses) + 1].epoch = mem[h].epoch
    <2>1. responses \in Seq([epoch : Epochs, refresh : Tokens])
        BY <1>2 DEF Typed, TypeOK
    <2> QED BY <1>1, <1>2, <2>1, IssueFacts DEF ResponsesKept
<1>4. /\ Alone(h) /\ pc'[h] = "store"
      /\ mem'[h].requested = mem[h].requested /\ mem'[h].lease = mem[h].lease
      /\ mem'[h].grant = mem[h].grant /\ mem'[h].epoch = mem[h].epoch /\ mem'[h].got = g
    BY <1>1, <1>2 DEF Accepted, Goto, Alone, Memory
<1>5. Answers(mem[h].got, mem[h].epoch)'
    BY <1>3, <1>4 DEF Answers, ResponsesKept
<1>6. ASSUME StoredKept PROVE Remembers(h)'
    <2>1. \A r, u : r = mem[h].lease /\ r # None /\ u = mem[h].requested => Proof(r, u)'
        <3>1. \A r : r = mem[h].lease /\ r # None => Proof(r, mem[h].requested)
            BY DEF IInv, Remembers
        <3> QED BY <1>2, <1>6, <3>1, ProofKept
    <2>2. \A r : r = mem[h].grant /\ r # None /\ r.consent # None => Received(r.consent)'
        <3> SUFFICES ASSUME NEW r, r = mem[h].grant, r # None, r.consent # None
                     PROVE  Received(r.consent)'
            OBVIOUS
        <3>1. r.consent \in Receipt /\ Received(r.consent)
            BY <1>2 DEF Memory, Grant, Remembers, IInv
        <3> QED BY <1>6, <3>1, ReceivedKept
    <2> QED BY <1>4, <1>5, <2>1, <2>2 DEF Remembers, Claiming
<1> QED BY <1>2, <1>3, <1>4, <1>6, SenderStep DEF Accepted, Answered

LEMMA RefusedHolds == ASSUME IInv, NEW h \in Redeemers, RefusedByServer(h) PROVE IInv'
<1>1. /\ Typed' /\ Typed /\ pc[h] = "sent" /\ UNCHANGED <<storage, consenting, responses>>
      /\ CleanUp(h, <<"discard">> \o Release, "resolved", None)
    BY UnansweredTyped DEF IInv, RefusedByServer
<1>2. /\ Alone(h) /\ pc'[h] = "closing"
      /\ mem'[h].requested = mem[h].requested /\ mem'[h].lease = mem[h].lease
      /\ mem'[h].grant = mem[h].grant /\ mem'[h].verdict.digest = None
    BY <1>1, CleanUpMoves
<1>3. StoredKept => Remembers(h)'
    BY <1>1, <1>2, RemembersMoved DEF IInv, Over, Claiming
<1> QED BY <1>1, <1>2, <1>3, SameResponses, SenderStep DEF RefusedByServer, Answered

LEMMA NoAnswerHolds == ASSUME IInv, NEW h \in Redeemers, NoAnswer(h) PROVE IInv'
<1>1. /\ Typed' /\ Typed /\ pc[h] = "sent" /\ UNCHANGED <<grant, lease, spent, consenting, history>>
      /\ CleanUp(h, Append(Release, "discard"), "ambiguous", None)
    BY UnansweredTyped DEF IInv, NoAnswer, storage
<1>2. /\ Alone(h) /\ pc'[h] = "closing"
      /\ mem'[h].requested = mem[h].requested /\ mem'[h].lease = mem[h].lease
      /\ mem'[h].grant = mem[h].grant
      /\ mem'[h].verdict.resolution = "ambiguous" /\ mem'[h].verdict.digest = None
    BY <1>1, CleanUpMoves
<1>3. Quiet(h)
    BY <1>1, <1>2 DEF Quiet, Ending, Over, history
<1>4. StoredKept /\ ResponsesKept /\ \A q \in Redeemers : pc[q] \in Past => pc'[q] \in Past
    BY <1>3, QuietKeeps
<1>5. Receipts' /\ Fenced' /\ LeasesProven'
    BY <1>1, <1>4, ReceiptsKept, FencedKept, LeasesKept DEF IInv, consenting
<1>6. Remembers(h)'
    BY <1>1, <1>2, <1>4, RemembersMoved DEF IInv, Over, Claiming
<1> QED BY <1>1, <1>3, <1>5, <1>6, QuietStep

\* Storing the answer proves the commit to whoever follows, if the grant was
\* given the token again.
LEMMA StoreHolds == ASSUME IInv, NEW h \in Redeemers, Store(h) \/ StoreFails(h) PROVE IInv'
<1> DEFINE written == grant.epoch = mem[h].epoch /\ grant' = [grant EXCEPT !.tokens = mem[h].got]
                      /\ unstored' = unstored \ {mem[h].got.refresh}
<1>1. /\ Typed' /\ Typed /\ pc[h] = "store" /\ mem[h].requested \in Tokens /\ grant \in Grant
      /\ UNCHANGED <<lease, spent, consent, responses, unanswered>>
      /\ written \/ UNCHANGED <<grant, unstored>>
    BY StoreTyped, Standing DEF IInv, Store, StoreFails, StoredAgain, consenting, Over
<1>2. PICK todo, d : /\ CleanUp(h, todo, "resolved", d)
                     /\ \/ d = None
                        \/ d = mem[h].got /\ written
                        \/ d.refresh # mem[h].requested
    BY DEF Store, StoreFails, StoredAgain
<1>3. /\ Alone(h) /\ pc'[h] = "closing"
      /\ mem'[h].requested = mem[h].requested /\ mem'[h].lease = mem[h].lease
      /\ mem'[h].grant = mem[h].grant /\ mem'[h].verdict.digest = d
    BY <1>1, <1>2, CleanUpMoves
<1>4. Quiet(h)
    BY <1>1, <1>3 DEF Quiet, Ending, Over
<1>5. StoredKept /\ ResponsesKept /\ \A q \in Redeemers : pc[q] \in Past => pc'[q] \in Past
    BY <1>4, QuietKeeps
<1>6. grant'.epoch = grant.epoch /\ grant'.consent = grant.consent
    BY <1>1 DEF Grant
<1>7. Receipts' /\ LeasesProven'
    BY <1>1, <1>5, <1>6, ReceiptsKept, LeasesKept DEF IInv
<1>8. Fenced'
    <2>1. CASE written
        <3>1. Answers(mem[h].got, mem[h].epoch)
            BY <1>1 DEF IInv, Remembers
        <3>2. \A g, e : g = mem[h].got /\ e = mem[h].epoch => Answers(g, e)'
            BY <1>5, <3>1, AnswersKept
        <3>3. grant'.tokens = mem[h].got /\ grant'.epoch = mem[h].epoch
            BY <1>1, <2>1 DEF Grant
        <3> QED BY <3>2, <3>3 DEF Fenced
    <2>2. CASE UNCHANGED grant
        BY <1>5, <2>2, FencedKept DEF IInv
    <2> QED BY <1>1, <2>1, <2>2
<1>9. d = mem[h].got /\ written => d.refresh # mem[h].requested \/ Stored(h, mem[h].requested)'
    BY <1>3 DEF Stored, Past
<1>10. Remembers(h)'
    BY <1>1, <1>2, <1>3, <1>5, <1>9, RemembersMoved DEF IInv, Over, Claiming
<1> QED BY <1>1, <1>4, <1>7, <1>8, <1>10, QuietStep

-----------------------------------------------------------------------------
(* The cleanup. *)

LEMMA ProceedMoves ==
    ASSUME Typed, NEW h \in Redeemers, pc[h] = "closing", NEW todo, ProceedWith(h, todo)
    PROVE  /\ Alone(h)
           /\ \/ pc'[h] = "done" /\ mem'[h] = Fresh
              \/ /\ pc'[h] = "closing" /\ mem'[h].requested = mem[h].requested
                 /\ mem'[h].lease = mem[h].lease /\ mem'[h].grant = mem[h].grant
                 /\ mem'[h].verdict = mem[h].verdict
<1>1. CASE End(h, "done")
    BY <1>1, EndMoves
<1>2. CASE mem' = [mem EXCEPT ![h].todo = todo] /\ UNCHANGED pc
    <2>1. mem[h] \in Memory /\ mem \in [Redeemers -> Memory]
        BY DEF Typed, TypeOK
    <2>2. mem'[h] = [mem[h] EXCEPT !.todo = todo] /\ Alone(h)
        BY <1>2, <2>1 DEF Alone
    <2> QED BY <1>2, <2>1, <2>2 DEF Memory
<1> QED BY <1>1, <1>2 DEF ProceedWith

\* A write of the cleanup.
LEMMA ClosingStep ==
    ASSUME IInv, Typed', NEW h \in Redeemers, pc[h] = "closing", NEW todo, ProceedWith(h, todo),
           UNCHANGED <<consenting, history>>, StoredKept => LeasesProven',
           grant'.epoch = grant.epoch, grant'.consent = grant.consent,
           grant'.tokens \in {grant.tokens, None},
           \A t \in Tokens : spent'[t] = spent[t] \/ Relabelled(t)
    PROVE  IInv'
<1>1. /\ Alone(h)
      /\ \/ pc'[h] = "done" /\ mem'[h] = Fresh
         \/ /\ pc'[h] = "closing" /\ mem'[h].requested = mem[h].requested
            /\ mem'[h].lease = mem[h].lease /\ mem'[h].grant = mem[h].grant
            /\ mem'[h].verdict = mem[h].verdict
    BY ProceedMoves DEF IInv
<1>2. Quiet(h)
    BY <1>1 DEF Quiet, Ending, Over, history
<1>3. StoredKept /\ ResponsesKept /\ \A q \in Redeemers : pc[q] \in Past => pc'[q] \in Past
    BY <1>2, QuietKeeps
<1>4. Receipts' /\ Fenced' /\ LeasesProven'
    BY <1>3, ReceiptsKept, FencedKept DEF IInv, consenting
<1>5. Remembers(h)'
    <2>1. CASE pc'[h] = "done" /\ mem'[h] = Fresh
        BY <2>1, RemembersNothing DEF Over
    <2>2. CASE pc'[h] = "closing"
        BY <1>1, <1>3, <2>2, RemembersMoved DEF IInv, Over, Claiming
    <2> QED BY <1>1, <2>1, <2>2
<1> QED BY <1>2, <1>4, <1>5, QuietStep

LEMMA CleanupHolds ==
    ASSUME IInv, NEW h \in Redeemers,
           Swallowed(h) \/ ResolveSpent(h) \/ ForgetActive(h) \/ DiscardRefusedGrant(h)
    PROVE  IInv'
<1>1. /\ Typed' /\ Typed /\ pc[h] = "closing" /\ Proceed(h)
      /\ UNCHANGED <<lease, consenting, history>>
    BY CleanupTyped
    DEF IInv, Swallowed, ResolveSpent, ForgetActive, DiscardRefusedGrant, Doing, storage
<1>2. StoredKept => LeasesProven'
    BY <1>1, LeasesKept DEF IInv
<1>3. CASE Swallowed(h) \/ ForgetActive(h)
    <2>1. UNCHANGED <<grant, spent>>
        BY <1>3 DEF Swallowed, ForgetActive, storage
    <2> QED BY <1>1, <1>2, <2>1, ClosingStep DEF Proceed
<1>4. CASE ResolveSpent(h)
    <2> DEFINE t == mem[h].requested
    <2> DEFINE r == [Outstanding(h) EXCEPT !.state = mem[h].verdict.resolution]
    <2>1. \A u \in Tokens : spent'[u] = spent[u] \/ Relabelled(u)
        <3>1. CASE spent[t] = Outstanding(h) /\ SetSpent(t, r)
            <4>1. /\ t \in Tokens /\ r # None /\ r.holder = h
                  /\ r.state = mem[h].verdict.resolution
                  /\ spent[t] # None /\ spent[t].holder = h
                <5>1. Outstanding(h) \in SpentRecord /\ mem[h].verdict \in Verdict
                    BY <1>1, OutstandingFacts, ClosingFacts
                <5>2. r \in SpentRecord /\ r.holder = h /\ r.state = mem[h].verdict.resolution
                    BY <5>1, OutstandingFacts, <1>1 DEF SpentRecord, Verdict
                <5> HIDE DEF r
                <5> QED BY <1>1, <3>1, <5>2, OutstandingFacts, ClosingFacts, NoneIsFresh
            <4>2. r.state = "resolved" => t \notin unanswered
                BY <1>1, <4>1 DEF IInv, Blocked, Over
            <4>3. \A u \in Tokens : spent'[u] = IF u = t THEN r ELSE spent[u]
                BY <3>1, <4>1, <1>1 DEF SetSpent, Typed, TypeOK
            <4> HIDE DEF r
            <4> QED BY <1>1, <4>1, <4>2, <4>3 DEF Relabelled, Past
        <3>2. CASE UNCHANGED spent
            BY <3>2
        <3> QED BY <1>4, <3>1, <3>2 DEF ResolveSpent
    <2>2. UNCHANGED grant
        BY <1>4 DEF ResolveSpent
    <2> QED BY <1>1, <1>2, <2>1, <2>2, ClosingStep DEF Proceed
<1>5. CASE DiscardRefusedGrant(h)
    <2>1. /\ grant'.epoch = grant.epoch /\ grant'.consent = grant.consent
          /\ grant'.tokens \in {grant.tokens, None} /\ UNCHANGED spent
        BY <1>1, <1>5 DEF DiscardRefusedGrant, Typed, TypeOK, Grant
    <2> QED BY <1>1, <1>2, <2>1, ClosingStep DEF Proceed
<1> QED BY <1>3, <1>4, <1>5

LEMMA SettleLeaseHolds == ASSUME IInv, NEW h \in Redeemers, SettleLease(h) PROVE IInv'
<1>1. /\ Typed' /\ Typed /\ pc[h] = "closing" /\ mem[h].requested \in Tokens
      /\ UNCHANGED <<grant, spent, consenting, history>>
    BY SettleLeaseTyped, Standing DEF IInv, SettleLease, Doing, Over
<1>2. PICK todo : ProceedWith(h, todo)
    BY DEF SettleLease, Proceed
<1>3. ASSUME StoredKept PROVE LeasesProven'
    <2>1. CASE SetLease(h, Settled(h))
        <3>1. mem[h].lease \in LeaseRecord /\ mem[h].lease.holder = h
            BY <1>1, ClosingFacts, TodoFacts DEF SettleLease, Doing
        <3>2. /\ Settled(h).holder = h /\ Settled(h).digest = mem[h].verdict.digest
              /\ Settled(h).state = IF mem[h].verdict.digest = None THEN "dead" ELSE "completed"
            BY <3>1 DEF Settled, LeaseRecord
        <3>3. Proof(Settled(h), mem[h].requested)
            BY <1>1, <3>2 DEF Proof, Proves, ProvenHolder, IInv, Remembers
        <3>4. \A r, t : r = Settled(h) /\ t = mem[h].requested => Proof(r, t)'
            BY <1>1, <1>3, <3>3, ProofKept
        <3>5. PICK r : r = Settled(h)
            OBVIOUS
        <3> QED BY <1>1, <1>3, <2>1, <3>4, <3>5, LeaseProven DEF IInv, Over
    <2>2. CASE UNCHANGED lease
        BY <1>3, <2>2, LeasesKept DEF IInv
    <2> QED BY <2>1, <2>2 DEF SettleLease, Settled
<1> QED BY <1>1, <1>2, <1>3, ClosingStep

LEMMA CrashHolds == ASSUME IInv, NEW h \in Redeemers, Crash(h) PROVE IInv'
<1>1. /\ Typed' /\ pc[h] \notin Over /\ UNCHANGED <<grant, lease, spent, consenting, history>>
    BY NextTyped DEF IInv, Next, Crash, storage
<1>2. Alone(h) /\ pc'[h] = "crashed" /\ mem'[h] = Fresh
    BY EndMoves DEF IInv, Crash
<1>3. Quiet(h)
    BY <1>1, <1>2 DEF Quiet, Ending, Over, history
<1>4. StoredKept /\ ResponsesKept /\ \A q \in Redeemers : pc[q] \in Past => pc'[q] \in Past
    BY <1>3, QuietKeeps
<1>5. Receipts' /\ Fenced' /\ LeasesProven'
    BY <1>1, <1>4, ReceiptsKept, FencedKept, LeasesKept DEF IInv, consenting
<1>6. Remembers(h)'
    BY <1>2, RemembersNothing DEF Over
<1> QED BY <1>1, <1>3, <1>5, <1>6, QuietStep

-----------------------------------------------------------------------------
(* The environment. *)

\* A step that is no redemption's and touches no spent record.
LEMMA ElsewhereKeeps ==
    ASSUME IInv, UNCHANGED <<pc, mem, spent, unanswered>>, unstored' \subseteq unstored
    PROVE  StoredKept
<1>1. \A q \in Redeemers : pc[q] \in Past => pc'[q] \in Past
    OBVIOUS
<1>2. \A q \in Redeemers, t \in Tokens :
        pc[q] \in Past /\ spent'[t] # None /\ spent'[t].holder = q =>
            /\ spent[t] # None /\ spent[t].holder = q
            /\ t \in unstored' => t \in unstored
    OBVIOUS
<1> QED BY <1>1, <1>2, StoredStays

LEMMA ElsewhereStep ==
    ASSUME IInv, Typed', UNCHANGED <<pc, mem, spent, unanswered>>, unstored' \subseteq unstored,
           ResponsesKept, LeasesProven', Receipts', Fenced'
    PROVE  IInv'
<1>1. StoredKept
    BY ElsewhereKeeps
<1>2. ASSUME NEW k \in Redeemers PROVE Remembers(k)' /\ OwnsSend(k)'
    <2>1. Remembers(k)'
        BY <1>1, RemembersKept DEF IInv
    <2>2. OwnsSend(k)'
        BY DEF IInv, OwnsSend
    <2> QED BY <2>1, <2>2
<1>3. SpentOwned' /\ Blocked' /\ UnstoredSpent'
    BY DEF IInv, SpentOwned, Blocked, UnstoredSpent
<1> QED BY <1>2, <1>3 DEF IInv

LEMMA ExpiresHolds == ASSUME IInv, NEW h \in Redeemers, Expires(h) PROVE IInv'
<1>1. Typed' /\ UNCHANGED <<grant, lease, spent, pc, mem, consenting, history>>
    BY EnvironmentTyped DEF IInv, Expires, ActiveExpires, ClaimExpires
<1>2. UNCHANGED <<unanswered, unstored, responses, consent>>
    BY <1>1 DEF history, consenting
<1>3. StoredKept /\ ResponsesKept
    BY <1>1, <1>2, ElsewhereKeeps, SameResponses DEF IInv
<1>4. Receipts' /\ Fenced' /\ LeasesProven'
    BY <1>1, <1>2, <1>3, ReceiptsKept, FencedKept, LeasesKept DEF IInv
<1> QED BY <1>1, <1>2, <1>3, <1>4, ElsewhereStep

LEMMA ResetHolds == ASSUME IInv, PerformReset \/ SweepRefreshLeases PROVE IInv'
<1>1. /\ Typed' /\ Typed /\ UNCHANGED <<spent, pc, mem, unanswered, unstored, responses, consent>>
    BY EnvironmentTyped DEF IInv, PerformReset, SweepRefreshLeases, history, consenting
<1>2. StoredKept /\ ResponsesKept
    BY <1>1, ElsewhereKeeps, SameResponses
<1>3. CASE PerformReset
    <2>1. grant'.tokens = None /\ grant'.consent = None /\ UNCHANGED lease
        BY <1>3 DEF PerformReset
    <2>2. LeasesProven' /\ Fenced'
        BY <1>2, <2>1, LeasesKept DEF IInv, Fenced
    <2>3. Receipts'
        <3>1. consent # None => Answers(consent.tokens, consent.epoch)'
            BY <1>1, <1>2, AnswersKept DEF IInv, Receipts
        <3> QED BY <1>1, <2>1, <3>1 DEF IInv, Receipts
    <2> QED BY <1>1, <1>2, <2>2, <2>3, ElsewhereStep
<1>4. CASE SweepRefreshLeases
    <2>1. /\ UNCHANGED grant
          /\ \A e \in Epochs, t \in Tokens : lease'[e][t] \in {None, lease[e][t]}
        BY <1>1, <1>4 DEF SweepRefreshLeases, Typed, TypeOK
    <2>2. LeasesProven'
        <3> SUFFICES ASSUME NEW e \in Epochs, NEW t \in Tokens, NEW r, r = lease'[e][t], r # None
                     PROVE  Proof(r, t)'
            BY DEF LeasesProven
        <3>1. Proof(r, t)
            BY <2>1 DEF IInv, LeasesProven
        <3> QED BY <1>2, <3>1, ProofKept
    <2>3. Receipts' /\ Fenced'
        BY <1>1, <1>2, <2>1, ReceiptsKept, FencedKept DEF IInv
    <2> QED BY <1>1, <1>2, <2>2, <2>3, ElsewhereStep
<1> QED BY <1>3, <1>4

\* The receipt of a consent is about a resolution, and the token it is for comes
\* with the consent: once the grant has it, it may be sent again.
LEMMA ConsentHolds ==
    ASSUME IInv, ExchangeAnswered \/ RecordCodeExchangeTokens \/ SaveTokens PROVE IInv'
<1>1. /\ Typed' /\ Typed /\ UNCHANGED <<lease, spent, pc, mem, unanswered>>
      /\ unstored' \subseteq unstored /\ grant \in Grant
      /\ consent \in [epoch : Epochs, tokens : Held, receipt : Receipt \cup {None},
                      observed : BOOLEAN] \cup {None}
    BY EnvironmentTyped
    DEF IInv, ExchangeAnswered, RecordCodeExchangeTokens, SaveTokens, StoredAgain, history, storage,
        Typed, TypeOK
<1>2. StoredKept
    BY <1>1, ElsewhereKeeps
<1>3. LeasesProven'
    BY <1>1, <1>2, LeasesKept DEF IInv
<1>4. CASE ExchangeAnswered
    <2>1. PICK t \in Tokens :
            /\ Issue(grant.epoch, t, None)
            /\ consent' = [epoch |-> grant.epoch, receipt |-> None, observed |-> FALSE,
                           tokens |-> [refresh |-> t, access |-> Len(responses) + 1]]
        BY <1>4 DEF ExchangeAnswered
    <2>2. /\ ResponsesKept /\ Len(responses') = Len(responses) + 1
          /\ responses'[Len(responses) + 1].epoch = grant.epoch
        <3>1. responses \in Seq([epoch : Epochs, refresh : Tokens]) /\ grant.epoch \in Epochs
            BY <1>1 DEF Typed, TypeOK, Grant
        <3> QED BY <1>1, <2>1, <3>1, IssueFacts DEF ResponsesKept
    <2>3. UNCHANGED grant
        BY <1>4 DEF ExchangeAnswered, storage
    <2>4. Receipts'
        <3>1. (grant.consent # None => Received(grant.consent))'
            BY <1>1, <1>2, <2>3, ReceivedKept DEF IInv, Receipts, Grant
        <3>2. /\ consent'.tokens.access = Len(responses) + 1 /\ consent'.epoch = grant.epoch
              /\ consent'.receipt = None
            BY <2>1
        <3>3. Answers(consent.tokens, consent.epoch)'
            BY <2>2, <3>2 DEF Answers, ResponsesKept
        <3> QED BY <3>1, <3>2, <3>3 DEF Receipts
    <2>5. Fenced'
        BY <2>2, <2>3, FencedKept DEF IInv
    <2> QED BY <1>1, <1>3, <2>2, <2>4, <2>5, ElsewhereStep
<1>5. CASE RecordCodeExchangeTokens
    <2>1. UNCHANGED <<grant, responses>> /\ consent # None
        BY <1>5 DEF RecordCodeExchangeTokens, storage, history
    <2>2. ResponsesKept
        BY <1>1, <2>1, SameResponses
    <2>3. PICK r \in {None, [token |-> consent.tokens.refresh, resolution |-> spent[consent.tokens.refresh]]} :
            /\ r # None <=> spent[consent.tokens.refresh] # None /\ spent[consent.tokens.refresh].state = "resolved"
            /\ consent' = [consent EXCEPT !.observed = TRUE, !.receipt = r]
        BY <1>5 DEF RecordCodeExchangeTokens
    <2>4. /\ consent'.tokens = consent.tokens /\ consent'.epoch = consent.epoch
          /\ consent'.receipt = r /\ consent.tokens.refresh \in Tokens
        BY <1>1, <2>1, <2>3 DEF Held
    <2>5. Receipts'
        <3>1. (grant.consent # None => Received(grant.consent))'
            BY <1>1, <1>2, <2>1, ReceivedKept DEF IInv, Receipts, Grant
        <3>2. Answers(consent.tokens, consent.epoch)
            BY <2>1 DEF IInv, Receipts
        <3>3. Answers(consent.tokens, consent.epoch)'
            BY <2>1, <2>4, <3>2 DEF Answers
        <3>4. r # None => /\ r.token = consent.tokens.refresh /\ r.resolution.state = "resolved"
                          /\ pc[r.resolution.holder] \in Past
            BY <2>3, <2>4 DEF IInv, SpentOwned
        <3> QED BY <1>1, <2>4, <3>1, <3>3, <3>4 DEF Receipts
    <2>6. Fenced'
        BY <2>1, <2>2, FencedKept DEF IInv
    <2> QED BY <1>1, <1>3, <2>2, <2>5, <2>6, ElsewhereStep
<1>6. CASE SaveTokens
    <2>1. UNCHANGED responses /\ consent # None /\ consent' = None
        BY <1>6 DEF SaveTokens
    <2>2. ResponsesKept
        BY <1>1, <2>1, SameResponses
    <2>3. CASE UNCHANGED grant
        <3>1. Receipts'
            BY <1>1, <1>2, <2>1, <2>3, ReceivedKept DEF IInv, Receipts, Grant
        <3>2. Fenced'
            BY <2>2, <2>3, FencedKept DEF IInv
        <3> QED BY <1>1, <1>3, <2>2, <3>1, <3>2, ElsewhereStep
    <2>4. CASE /\ grant.epoch = consent.epoch
               /\ grant' = [grant EXCEPT !.tokens = consent.tokens, !.consent = consent.receipt]
               /\ StoredAgain(consent.tokens)
        <3>1. grant'.epoch = consent.epoch /\ grant'.tokens = consent.tokens /\ grant'.consent = consent.receipt
            BY <1>1, <2>4 DEF Grant
        <3>2. \A g, e : g = consent.tokens /\ e = consent.epoch => Answers(g, e)'
            BY <2>1, <2>2, AnswersKept DEF IInv, Receipts
        <3>3. Fenced'
            BY <3>1, <3>2 DEF Fenced
        <3>4. consent.receipt # None =>
                /\ consent.receipt.resolution.state = "resolved"
                /\ pc'[consent.receipt.resolution.holder] \in Past
                /\ consent.receipt.token \notin unstored'
            BY <1>1, <2>1, <2>4 DEF IInv, Receipts, StoredAgain
        <3>5. Receipts'
            BY <2>1, <3>1, <3>4 DEF Receipts, Received, Stored
        <3> QED BY <1>1, <1>3, <2>2, <3>3, <3>5, ElsewhereStep
    <2> QED BY <1>6, <2>3, <2>4 DEF SaveTokens
<1> QED BY <1>4, <1>5, <1>6

-----------------------------------------------------------------------------
(* The invariant of the specification. *)

LEMMA InitHolds == Init => IInv
<1> SUFFICES ASSUME Init PROVE IInv
    OBVIOUS
<1>1. Typed
    BY InitTyped
<1>2. ASSUME NEW h \in Redeemers PROVE Remembers(h) /\ OwnsSend(h)
    <2>1. pc[h] = "idle" /\ mem[h] = Fresh
        BY DEF Init
    <2> QED BY <2>1 DEF Remembers, OwnsSend, Fresh, Claiming
<1>3. SpentOwned /\ Blocked /\ UnstoredSpent /\ LeasesProven /\ Receipts /\ Fenced
    BY DEF Init, SpentOwned, Blocked, UnstoredSpent, LeasesProven, Receipts, Fenced
<1> QED BY <1>1, <1>2, <1>3 DEF IInv

LEMMA WorksHolds == ASSUME IInv, NEW h \in Redeemers, Works(h) PROVE IInv'
BY FlowEpochHolds, StoredTokensHolds, PollLeaseHolds, PollGrantHolds, PollSpentHolds,
   ReadLivenessHolds, CondemnHolds, ResolveVanishedHolds, RecheckHolds, ReadOrphanHolds,
   MarkOrphanHolds, ClaimHolds, VerifyHolds, UnclaimHolds, ActivateHolds, PrepareFailsHolds,
   DispatchHolds, SpendHolds, SendHolds, AcceptedHolds, RefusedHolds, NoAnswerHolds, StoreHolds,
   CleanupHolds, SettleLeaseHolds
DEF Works

LEMMA NextHolds == IInv /\ [Next]_vars => IInv'
<1> SUFFICES ASSUME IInv, [Next]_vars PROVE IInv'
    OBVIOUS
<1>1. CASE UNCHANGED vars
    <2>1. Typed' /\ UNCHANGED <<grant, lease, spent, pc, mem, consent, responses, unanswered, unstored>>
        BY <1>1, NextTyped DEF IInv, vars, storage, consenting, history
    <2>2. StoredKept /\ ResponsesKept
        BY <2>1, ElsewhereKeeps, SameResponses DEF IInv
    <2>3. Receipts' /\ Fenced' /\ LeasesProven'
        BY <2>1, <2>2, ReceiptsKept, FencedKept, LeasesKept DEF IInv
    <2> QED BY <2>1, <2>2, <2>3, ElsewhereStep
<1>2. ASSUME NEW h \in Redeemers, ReadTokens(h) \/ Works(h) \/ Crash(h) \/ Expires(h)
      PROVE  IInv'
    BY <1>2, ReadTokensHolds, WorksHolds, CrashHolds, ExpiresHolds
<1> QED BY <1>1, <1>2, ResetHolds, ConsentHolds DEF Next

LEMMA Invariant == Spec => []IInv
BY InitHolds, NextHolds, PTL DEF Spec

\* A token whose request was never answered keeps a spent record that is
\* outstanding or ambiguous, which MaySpend() refuses to every later claim:
\* releaseRefresh(), the recovery of a vanished holder and resolveRefreshSpent()
\* may each come at any moment, and none of them lifts the block.
THEOREM UnansweredBlockedHolds == Spec => []UnansweredBlocked
<1>1. IInv => UnansweredBlocked
    BY DEF IInv, Blocked, UnansweredBlocked, Typed, TypeOK, SpentRecord
<1> QED BY <1>1, Invariant, PTL

\* storeRefresh() and saveTokens() write no tokens that were asked for in
\* another epoch than the grant's, however often it is reset in between.
THEOREM ResetFencesHolds == Spec => []ResetFences
<1>1. IInv => ResetFences
    BY DEF IInv, Fenced, Answers, ResetFences
<1> QED BY <1>1, Invariant, PTL

\* dispatchRefresh() sends a token only if every request that carried it was
\* answered and the grant was given it since: the spent record, the proof in
\* the lease and the receipt of a consent, each read some steps earlier, were
\* all final when they were read.
THEOREM NoReplayHolds == Spec => NoReplay
<1>1. ASSUME IInv, NEW h \in Redeemers, pc[h] = "send"
      PROVE  mem[h].requested \notin unanswered \cup unstored
    <2>1. /\ spent[mem[h].requested].holder = h
          /\ mem[h].requested \notin unstored
        BY <1>1 DEF IInv, OwnsSend
    <2>2. mem[h].requested \notin unanswered
        BY <1>1, <2>1 DEF IInv, Blocked, Over
    <2> QED BY <2>1, <2>2
<1>2. IInv /\ [Next]_vars =>
        [\A h \in Redeemers : pc[h] = "send" /\ pc'[h] = "sent" =>
            mem[h].requested \notin unanswered \cup unstored]_vars
    BY <1>1
<1> QED BY <1>2, Invariant, PTL DEF Spec, NoReplay

\* Every write of a spent record: it may replace what was resolved, or settle
\* what was outstanding.
LEMMA SpentWrites ==
    ASSUME Typed, [Next]_vars
    PROVE  \/ UNCHANGED spent
           \/ \E t \in Tokens : \E r :
                /\ SetSpent(t, r)
                /\ spent[t] = None \/ spent[t].state # "ambiguous"
<1>1. CASE UNCHANGED vars
    BY <1>1 DEF vars, storage
<1>2. ASSUME NEW h \in Redeemers, ResolveVanished(h)
      PROVE  UNCHANGED spent \/ \E t \in Tokens : \E r : SetSpent(t, r) /\ spent[t].state = "outstanding"
    BY <1>2, Standing DEF ResolveVanished, Over
<1>3. ASSUME NEW h \in Redeemers, MarkOrphan(h)
      PROVE  UNCHANGED spent \/ \E t \in Tokens : \E r : SetSpent(t, r) /\ spent[t].state = "outstanding"
    BY <1>3, Standing DEF MarkOrphan, PhaseAt, Over
<1>4. ASSUME NEW h \in Redeemers, Spend(h) \/ SpendAnswerLost(h)
      PROVE  \/ UNCHANGED spent
             \/ \E t \in Tokens : \E r :
                  SetSpent(t, r) /\ (spent[t] = None \/ spent[t].state = "resolved")
    BY <1>4, Standing DEF Spend, SpendAnswerLost, PhaseAt, Claiming, Over
<1>5. ASSUME NEW h \in Redeemers, ResolveSpent(h)
      PROVE  UNCHANGED spent \/ \E t \in Tokens : \E r : SetSpent(t, r) /\ spent[t].state = "outstanding"
    BY <1>5, Standing, OutstandingFacts DEF ResolveSpent, Doing, Over
<1>6. ASSUME NEW h \in Redeemers, ReadTokens(h) \/ Crash(h) \/ Expires(h)
      PROVE  UNCHANGED spent
    BY <1>6 DEF ReadTokens, Crash, Expires, ActiveExpires, ClaimExpires, storage
<1>7. ASSUME NEW h \in Redeemers,
             \/ FlowEpoch(h) \/ StoredTokens(h) \/ PollLease(h) \/ PollGrant(h) \/ PollSpent(h)
             \/ ReadLiveness(h) \/ Condemn(h) \/ Recheck(h) \/ ReadOrphan(h) \/ Claim(h)
             \/ Verify(h) \/ Unclaim(h) \/ UnclaimFails(h) \/ Activate(h) \/ PrepareFails(h)
             \/ Dispatch(h) \/ DispatchAnswerLost(h)
      PROVE  UNCHANGED spent
    BY <1>7
    DEF FlowEpoch, StoredTokens, PollLease, PollGrant, PollSpent, ReadLiveness, Condemn, Recheck,
        ReadOrphan, Claim, Verify, Unclaim, UnclaimFails, Activate, PrepareFails, Dispatch,
        DispatchAnswerLost, storage
<1>8. ASSUME NEW h \in Redeemers,
             \/ Send(h) \/ Accepted(h) \/ RefusedByServer(h) \/ NoAnswer(h) \/ Store(h)
             \/ StoreFails(h) \/ Swallowed(h) \/ SettleLease(h) \/ ForgetActive(h)
             \/ DiscardRefusedGrant(h)
      PROVE  UNCHANGED spent
    BY <1>8
    DEF Send, Accepted, RefusedByServer, NoAnswer, Store, StoreFails, Swallowed, SettleLease,
        ForgetActive, DiscardRefusedGrant, storage
<1>9. CASE \/ PerformReset \/ SweepRefreshLeases
           \/ ExchangeAnswered \/ RecordCodeExchangeTokens \/ SaveTokens
    BY <1>9
    DEF PerformReset, SweepRefreshLeases, ExchangeAnswered, RecordCodeExchangeTokens, SaveTokens,
        storage
<1>10. ASSUME NEW h \in Redeemers, Works(h)
       PROVE  \/ UNCHANGED spent
              \/ \E t \in Tokens : \E r :
                   /\ SetSpent(t, r)
                   /\ spent[t] = None \/ spent[t].state # "ambiguous"
    BY <1>2, <1>3, <1>4, <1>5, <1>7, <1>8, <1>10 DEF Works
<1> QED BY <1>1, <1>6, <1>9, <1>10 DEF Next

\* No late answer, cleanup or claim rewrites an ambiguous spent record:
\* resolveRefreshSpent() compares the whole record with an outstanding one, and
\* a claim replaces only what MaySpend() accepted.
THEOREM AmbiguousIsFinalHolds == Spec => AmbiguousIsFinal
<1>1. Spec => []Typed
    BY InitTyped, NextTyped, PTL DEF Spec
<1>2. ASSUME Typed, [Next]_vars, NEW t \in Tokens, spent[t] # None, spent[t].state = "ambiguous"
      PROVE  spent'[t] = spent[t]
    BY <1>2, SpentWrites DEF SetSpent, Typed, TypeOK
<1>3. Typed /\ [Next]_vars =>
        [\A t \in Tokens : spent[t] # None /\ spent[t].state = "ambiguous" => spent'[t] = spent[t]]_vars
    BY <1>2
<1> QED BY <1>1, <1>3, PTL DEF Spec, AmbiguousIsFinal
-----------------------------------------------------------------------------
(* Where nothing fails but the clocks, no grant is lost (GrantKept). The     *)
(* argument is about what stays of a reading while others go on. A token     *)
(* that was replaced in the grant does not come back (Pristine), so that a   *)
(* decision to discard need only be right at the moment it is taken. A lease *)
(* stands on a commit, its base, which a claim and its return leave alone,   *)
(* and whoever dispatches it comes back with a base of its own, which nobody *)
(* can have read before (Based). So a lease that has the base of the one a   *)
(* poll read says that nothing was sent since: what the poll read then is    *)
(* current (SnapshotAt), and a current reading never condemns (AtRest).      *)

Calm == Faults \subseteq {"skew"}

OneEpoch ==
    /\ grant.epoch = 1
    /\ \A h \in Redeemers : mem[h].epoch = 1 /\ mem[h].sendEpoch = 1 /\ mem[h].basis.epoch = 1

\* The grant has this refresh token.
At(t) == grant.tokens # None /\ grant.tokens.refresh = t

Begun(h) == pc[h] \notin Over \cup {"idle"}
Token(h) == mem[h].requested
Lease(t) == lease[1][t]

Handed(refresh, access) ==
    access \in 1 .. Len(responses) /\ responses[access].refresh = refresh

\* A token that no redemption has anything to do with yet.
Untouched(t) == Lease(t) = None /\ spent[t] = None
Pristine(t) ==
    /\ ~At(t) /\ Untouched(t)
    /\ \A h \in Redeemers : Begun(h) => Token(h) # t

\* An answer that is still to be stored is unlike any other, and so is its
\* token unless it is the one that was sent.
Pending(h) ==
    pc[h] = "store" =>
        LET got == mem[h].got IN
        /\ Handed(got.refresh, got.access)
        /\ grant.tokens # None => got.access # grant.tokens.access
        /\ consent # None => got.access # consent.tokens.access
        /\ \A k \in Redeemers : Begun(k) => got.access # mem[k].basis.access
        /\ \A k \in Redeemers \ {h} : pc[k] = "store" => got.access # mem[k].got.access
        /\ got.refresh # Token(h) =>
            /\ Pristine(got.refresh)
            /\ consent # None => got.refresh # consent.tokens.refresh
            /\ \A k \in Redeemers \ {h} : pc[k] = "store" => got.refresh # mem[k].got.refresh

Ledger ==
    /\ grant.tokens # None => Handed(grant.tokens.refresh, grant.tokens.access)
    /\ consent # None => /\ Handed(consent.tokens.refresh, consent.tokens.access)
                         /\ Pristine(consent.tokens.refresh)
    /\ \A h \in Redeemers : Begun(h) => Handed(Token(h), mem[h].basis.access)
    /\ \A t \in Tokens : Untouched(t) \/ \E i \in 1 .. Len(responses) : responses[i].refresh = t
    /\ \A h \in Redeemers : Pending(h)

Settling ==
    {<<"resolve", "settle", "discard">>, <<"settle", "discard">>, <<"resolve", "settle">>, <<"settle">>}
Discarding ==
    {<<"resolve", "settle", "discard">>, <<"settle", "discard">>, <<"forget", "discard">>, <<"discard">>}

\* A redemption owns its lease from the dispatch until it has settled it.
OwnsAt(p, m) ==
    p \in {"spend", "send", "sent", "store"} \/ (p = "closing" /\ m.todo \in Settling)
FinishedAt(p, m) == p \in Over \/ (p = "closing" /\ m.todo \notin Settling)
Owns(h) == OwnsAt(pc[h], mem[h])
Finished(h) == FinishedAt(pc[h], mem[h])

\* A lease that nobody has dispatched, and the redemption whose commit it keeps.
Resting(r) == r # None => r.state \in {"claimed", "completed"}
Base(r) == IF r = None THEN None ELSE ProvenHolder(r)
Match(a, b) == Resting(a) /\ Resting(b) /\ Base(a) = Base(b)

Based(r) ==
    /\ Resting(r) /\ Base(r) # None => Finished(Base(r))
    /\ r # None /\ r.state = "dispatched" => Owns(r.holder) \/ Finished(r.holder)

Sent(h) == [epoch |-> 1, holder |-> h, state |-> "outstanding"]
Resolved(h) == [epoch |-> 1, holder |-> h, state |-> "resolved"]

\* The records of a token in the grant allow to send it.
AtRest(t) ==
    At(t) =>
        /\ Lease(t) # None => Lease(t).state # "dead"
        /\ Resting(Lease(t)) =>
            /\ Base(Lease(t)) # None => Lease(t).digest = grant.tokens
            /\ \/ spent[t] = None
               \/ Base(Lease(t)) # None /\ spent[t] = Resolved(Base(Lease(t)))

Dispatched(t) ==
    Lease(t) # None /\ Lease(t).state = "dispatched" =>
        Owns(Lease(t).holder) /\ Token(Lease(t).holder) = t

TokenSound(t) == AtRest(t) /\ Dispatched(t) /\ Based(Lease(t))

\* Of a redemption that owns its lease, or is about to.
OwnerAt(h, p, m) ==
    LET t == m.requested IN
    /\ p = "dispatch" => h \in active
    /\ OwnsAt(p, m) =>
        /\ m.lease # None /\ m.lease.holder = h /\ m.lease.state = "dispatched"
        /\ Lease(t) = m.lease
        /\ h \in active
        /\ At(t) =>
            /\ p = "spend" => spent[t] = m.spent
            /\ p \in {"send", "sent", "store"} => spent[t] = Sent(h)
            /\ p = "closing" =>
                /\ m.verdict = [resolution |-> "resolved", digest |-> grant.tokens]
                /\ m.todo = Release => spent[t] = Sent(h)
                /\ m.todo = <<"settle">> => spent[t] = Resolved(h)

\* What a redemption has read, if no other has sent the token since.
SnapshotAt(p, m) ==
    LET t == m.requested IN
    At(t) /\ Match(Lease(t), m.lease) =>
        /\ p \in {"pollSpent", "recheck", "claim"} => m.grant.tokens = grant.tokens
        /\ p \in {"recheck", "claim", "verify", "activate", "dispatch"} => m.spent = spent[t]

About(m, tokens) ==
    tokens # None /\ tokens.refresh = m.requested /\ tokens.access = m.basis.access
Sendable(m) ==
    \/ m.spent = None
    \/ Committed(m.lease, m.grant.tokens) /\ m.spent = Resolved(ProvenHolder(m.lease))

\* What it can decide.
DecidesAt(p, m) ==
    LET t == m.requested IN
    /\ p = "pollGrant" /\ At(t) /\ grant.tokens.access = m.basis.access
            /\ m.lease # None /\ m.lease.state = "completed" => m.lease.digest = grant.tokens
    /\ p = "pollSpent" /\ About(m, m.grant.tokens)
            /\ m.lease # None /\ m.lease.state = "completed" => m.lease.digest = m.grant.tokens
    /\ p \in {"pollGrant", "pollSpent"} /\ m.lease # None /\ m.lease.state = "dead" => ~At(t)
    /\ p \in {"recheck", "claim"} => Resting(m.lease)
    /\ p = "recheck" => ~Sendable(m)
    /\ p \in {"liveness", "condemn"} => m.lease.state = "dispatched"
    /\ p = "condemn" => Finished(m.lease.holder)
    /\ p # "ambiguous"
    /\ p \in {"orphan", "orphaned"} => ~At(t)
    /\ p = "closing" => m.todo # <<"discard", "resolve", "settle">>
    /\ p = "closing" /\ m.todo \in Discarding => ~At(t)

SoundAt(h, p, m) ==
    OwnerAt(h, p, m) /\ SnapshotAt(p, m) /\ DecidesAt(p, m) /\ Based(m.lease)
Sound(h) == SoundAt(h, pc[h], mem[h])

KInv ==
    /\ Typed /\ OneEpoch /\ Ledger
    /\ \A t \in Tokens : TokenSound(t)
    /\ \A h \in Redeemers : Sound(h)

\* What a redemption goes on with: what it is about, and in which epoch.
SameTask(h) ==
    /\ mem'[h].requested = mem[h].requested
    /\ mem'[h].basis = mem[h].basis
    /\ mem'[h].epoch = mem[h].epoch
    /\ mem'[h].sendEpoch = mem[h].sendEpoch

LEMMA LeaseSet ==
    ASSUME Typed, NEW h \in Redeemers, NEW v, mem' = [mem EXCEPT ![h].lease = v]
    PROVE  /\ mem'[h].lease = v /\ SameTask(h) /\ \A k \in Redeemers \ {h} : mem'[k] = mem[k]
           /\ mem'[h].grant = mem[h].grant /\ mem'[h].spent = mem[h].spent
           /\ mem'[h].todo = mem[h].todo /\ mem'[h].verdict = mem[h].verdict
<1>1. mem[h] \in Memory /\ mem \in [Redeemers -> Memory]
    BY DEF Typed, TypeOK
<1>2. mem'[h] = [mem[h] EXCEPT !.lease = v]
    BY <1>1
<1> QED BY <1>1, <1>2 DEF Memory, SameTask

LEMMA GrantSet ==
    ASSUME Typed, NEW h \in Redeemers, NEW v, mem' = [mem EXCEPT ![h].grant = v]
    PROVE  /\ mem'[h].grant = v /\ SameTask(h) /\ \A k \in Redeemers \ {h} : mem'[k] = mem[k]
           /\ mem'[h].lease = mem[h].lease /\ mem'[h].spent = mem[h].spent
           /\ mem'[h].todo = mem[h].todo /\ mem'[h].verdict = mem[h].verdict
<1>1. mem[h] \in Memory /\ mem \in [Redeemers -> Memory]
    BY DEF Typed, TypeOK
<1>2. mem'[h] = [mem[h] EXCEPT !.grant = v]
    BY <1>1
<1> QED BY <1>1, <1>2 DEF Memory, SameTask

LEMMA SpentSet ==
    ASSUME Typed, NEW h \in Redeemers, NEW v, mem' = [mem EXCEPT ![h].spent = v]
    PROVE  /\ mem'[h].spent = v /\ SameTask(h) /\ \A k \in Redeemers \ {h} : mem'[k] = mem[k]
           /\ mem'[h].lease = mem[h].lease /\ mem'[h].grant = mem[h].grant
           /\ mem'[h].todo = mem[h].todo /\ mem'[h].verdict = mem[h].verdict
<1>1. mem[h] \in Memory /\ mem \in [Redeemers -> Memory]
    BY DEF Typed, TypeOK
<1>2. mem'[h] = [mem[h] EXCEPT !.spent = v]
    BY <1>1
<1> QED BY <1>1, <1>2 DEF Memory, SameTask

LEMMA GotSet ==
    ASSUME Typed, NEW h \in Redeemers, NEW v, mem' = [mem EXCEPT ![h].got = v]
    PROVE  /\ mem'[h].got = v /\ SameTask(h) /\ \A k \in Redeemers \ {h} : mem'[k] = mem[k]
           /\ mem'[h].lease = mem[h].lease
           /\ mem'[h].todo = mem[h].todo /\ mem'[h].verdict = mem[h].verdict
<1>1. mem[h] \in Memory /\ mem \in [Redeemers -> Memory]
    BY DEF Typed, TypeOK
<1>2. mem'[h] = [mem[h] EXCEPT !.got = v]
    BY <1>1
<1> QED BY <1>1, <1>2 DEF Memory, SameTask

LEMMA TodoSet ==
    ASSUME Typed, NEW h \in Redeemers, NEW v, mem' = [mem EXCEPT ![h].todo = v]
    PROVE  /\ mem'[h].todo = v /\ SameTask(h) /\ \A k \in Redeemers \ {h} : mem'[k] = mem[k]
           /\ mem'[h].lease = mem[h].lease /\ mem'[h].verdict = mem[h].verdict
<1>1. mem[h] \in Memory /\ mem \in [Redeemers -> Memory]
    BY DEF Typed, TypeOK
<1>2. mem'[h] = [mem[h] EXCEPT !.todo = v]
    BY <1>1
<1> QED BY <1>1, <1>2 DEF Memory, SameTask

LEMMA CleanUpSet ==
    ASSUME Typed, NEW h \in Redeemers, NEW todo, NEW r, NEW d, CleanUp(h, todo, r, d)
    PROVE  /\ Alone(h) /\ pc'[h] = "closing" /\ SameTask(h)
           /\ mem'[h].todo = todo /\ mem'[h].verdict = [resolution |-> r, digest |-> d]
           /\ mem'[h].lease = mem[h].lease
<1> DEFINE v == [resolution |-> r, digest |-> d]
<1>1. mem[h] \in Memory /\ mem \in [Redeemers -> Memory] /\ pc \in [Redeemers -> Steps]
    BY DEF Typed, TypeOK
<1>2. mem' = [mem EXCEPT ![h].todo = todo, ![h].verdict = v] /\ pc' = [pc EXCEPT ![h] = "closing"]
    BY DEF CleanUp, Goto
<1> HIDE DEF v
<1>3. mem'[h] = [mem[h] EXCEPT !.todo = todo, !.verdict = v]
    BY <1>1, <1>2
<1>4. mem'[h].todo = todo /\ mem'[h].verdict = v /\ mem'[h].lease = mem[h].lease /\ SameTask(h)
    BY <1>1, <1>3 DEF Memory, SameTask
<1>5. Alone(h) /\ pc'[h] = "closing"
    BY <1>1, <1>2 DEF Alone
<1> QED BY <1>4, <1>5 DEF v

\* A write of the cleanup, and the end that follows the last one.
LEMMA ProceedSet ==
    ASSUME Typed, NEW h \in Redeemers, pc[h] = "closing", NEW todo, ProceedWith(h, todo)
    PROVE  /\ Alone(h)
           /\ \/ pc'[h] = "done" /\ mem'[h] = Fresh /\ todo = <<>>
              \/ /\ pc'[h] = "closing" /\ SameTask(h) /\ mem'[h].todo = todo
                 /\ mem'[h].lease = mem[h].lease /\ mem'[h].verdict = mem[h].verdict
                 /\ todo # <<>>
<1>1. CASE todo = <<>> /\ End(h, "done")
    BY <1>1, EndMoves
<1>2. CASE todo # <<>> /\ mem' = [mem EXCEPT ![h].todo = todo] /\ UNCHANGED pc
    BY <1>2, TodoSet DEF Alone
<1> QED BY <1>1, <1>2 DEF ProceedWith

LEMMA PcSet ==
    ASSUME Typed, NEW h \in Redeemers, NEW p, Goto(h, p), \A k \in Redeemers \ {h} : mem'[k] = mem[k]
    PROVE  Alone(h) /\ pc'[h] = p
BY DEF Typed, TypeOK, Goto, Alone

\* What a redemption may do where nothing fails.
Proceeds(h) ==
    \/ FlowEpoch(h) \/ StoredTokens(h)
    \/ PollLease(h) \/ PollGrant(h) \/ PollSpent(h)
    \/ ReadLiveness(h) \/ Condemn(h) \/ ResolveVanished(h)
    \/ Recheck(h) \/ ReadOrphan(h) \/ MarkOrphan(h)
    \/ Claim(h) \/ Verify(h) \/ Unclaim(h) \/ Activate(h) \/ Dispatch(h)
    \/ Spend(h) \/ Send(h) \/ Accepted(h) \/ Store(h)
    \/ ResolveSpent(h) \/ SettleLease(h) \/ ForgetActive(h) \/ DiscardRefusedGrant(h)

LEMMA CalmWorks == ASSUME Calm, NEW h \in Redeemers, Works(h) PROVE Proceeds(h)
BY DEF Calm, Works, Proceeds, UnclaimFails, PrepareFails, DispatchAnswerLost, SpendAnswerLost,
       RefusedByServer, NoAnswer, StoreFails, Swallowed

\* A redemption that goes on is about what it was about.
Continues(h) ==
    /\ Alone(h) /\ Begun(h)
    /\ \/ pc'[h] = "done" /\ mem'[h] = Fresh
       \/ /\ pc'[h] \notin Over \cup {"idle"}
          /\ mem'[h].requested = mem[h].requested /\ mem'[h].basis = mem[h].basis
          /\ {mem'[h].epoch, mem'[h].sendEpoch} \subseteq {mem[h].epoch, mem[h].sendEpoch, grant.epoch}

LEMMA KeepsTask ==
    ASSUME NEW h \in Redeemers, Alone(h), Begun(h), SameTask(h), pc'[h] \notin Over \cup {"idle"}
    PROVE  Continues(h)
BY DEF SameTask, Continues

LEMMA GoesOn ==
    ASSUME Typed, NEW h \in Redeemers, NEW p, Goto(h, p), UNCHANGED mem, Begun(h), p \notin Over \cup {"idle"}
    PROVE  Continues(h) /\ pc'[h] = p /\ mem'[h] = mem[h]
<1>1. Alone(h) /\ pc'[h] = p /\ mem'[h] = mem[h]
    BY GotoMoves
<1> QED BY <1>1, KeepsTask DEF SameTask

LEMMA EndsTask ==
    ASSUME Typed, NEW h \in Redeemers, End(h, "done"), Begun(h)
    PROVE  Continues(h) /\ pc'[h] = "done" /\ mem'[h] = Fresh
BY EndMoves DEF Continues

LEMMA CleansUp ==
    ASSUME Typed, NEW h \in Redeemers, NEW todo, NEW r, NEW d, CleanUp(h, todo, r, d), Begun(h)
    PROVE  Continues(h) /\ pc'[h] = "closing"
<1>1. Alone(h) /\ pc'[h] = "closing" /\ SameTask(h)
    BY CleanUpSet
<1> QED BY <1>1, KeepsTask DEF Over

LEMMA Closes ==
    ASSUME Typed, NEW h \in Redeemers, pc[h] = "closing", NEW todo, ProceedWith(h, todo)
    PROVE  Continues(h) /\ pc'[h] # "store"
<1>1. Begun(h)
    BY DEF Begun, Over
<1> QED BY <1>1, ProceedSet, KeepsTask DEF Continues, Over

LEMMA PollingContinues ==
    ASSUME Typed, NEW h \in Redeemers,
           \/ FlowEpoch(h) \/ StoredTokens(h) \/ PollLease(h) \/ PollGrant(h) \/ PollSpent(h)
    PROVE  Continues(h) /\ pc'[h] # "store"
<1>1. Begun(h)
    BY DEF FlowEpoch, StoredTokens, PollLease, PollGrant, PollSpent, Begun, Over
<1>2. CASE FlowEpoch(h)
    <2>1. mem[h] \in Memory /\ mem \in [Redeemers -> Memory]
        BY DEF Typed, TypeOK
    <2>2. mem'[h] = [mem[h] EXCEPT !.epoch = grant.epoch] /\ \A k \in Redeemers \ {h} : mem'[k] = mem[k]
        BY <1>2, <2>1 DEF FlowEpoch
    <2>3. /\ mem'[h].requested = mem[h].requested /\ mem'[h].basis = mem[h].basis
          /\ mem'[h].epoch = grant.epoch /\ mem'[h].sendEpoch = mem[h].sendEpoch
        BY <2>1, <2>2 DEF Memory
    <2>4. Alone(h) /\ pc'[h] = "tokens"
        BY <1>2, <2>2, PcSet DEF FlowEpoch
    <2> QED BY <1>1, <2>3, <2>4 DEF Continues, Over
<1>3. CASE StoredTokens(h)
    BY <1>1, <1>3, GoesOn, EndsTask DEF StoredTokens, Over
<1>4. CASE PollLease(h)
    <2>1. SameTask(h) /\ \A k \in Redeemers \ {h} : mem'[k] = mem[k]
        BY <1>4, LeaseSet DEF PollLease
    <2>2. Alone(h) /\ pc'[h] = "pollGrant"
        BY <1>4, <2>1, PcSet DEF PollLease
    <2> QED BY <1>1, <2>1, <2>2, KeepsTask DEF Over
<1>5. CASE mem' = [mem EXCEPT ![h].grant = grant] /\ Goto(h, "pollSpent")
    <2>1. SameTask(h) /\ \A k \in Redeemers \ {h} : mem'[k] = mem[k]
        BY <1>5, GrantSet
    <2>2. Alone(h) /\ pc'[h] = "pollSpent"
        BY <1>5, <2>1, PcSet
    <2> QED BY <1>1, <2>1, <2>2, KeepsTask DEF Over
<1>6. ASSUME NEW p \in {"recheck", "claim", "pollLease"},
             mem' = [mem EXCEPT ![h].spent = spent[mem[h].requested]], Goto(h, p)
      PROVE  Continues(h) /\ pc'[h] # "store"
    <2>1. SameTask(h) /\ \A k \in Redeemers \ {h} : mem'[k] = mem[k]
        BY <1>6, SpentSet
    <2>2. Alone(h) /\ pc'[h] = p
        BY <1>6, <2>1, PcSet
    <2> QED BY <1>1, <2>1, <2>2, KeepsTask DEF Over
<1>7. CASE PollGrant(h)
    BY <1>1, <1>5, <1>7, EndsTask DEF PollGrant
<1>8. CASE PollSpent(h)
    <2>1. CASE End(h, "done") \/ Discard(h)
        BY <1>1, <2>1, EndsTask, CleansUp DEF Discard
    <2>2. CASE Goto(h, "liveness") /\ UNCHANGED mem
        BY <1>1, <2>2, GoesOn DEF Over
    <2> QED BY <1>6, <1>8, <2>1, <2>2 DEF PollSpent
<1> QED BY <1>2, <1>3, <1>4, <1>7, <1>8

LEMMA DecidingContinues ==
    ASSUME Typed, NEW h \in Redeemers,
           \/ ReadLiveness(h) \/ Condemn(h) \/ ResolveVanished(h)
           \/ Recheck(h) \/ ReadOrphan(h) \/ MarkOrphan(h)
           \/ Verify(h) \/ Unclaim(h) \/ Send(h)
    PROVE  Continues(h) /\ pc'[h] # "store"
<1>1. Begun(h)
    BY DEF ReadLiveness, Condemn, ResolveVanished, Recheck, ReadOrphan, MarkOrphan, Verify, Unclaim,
           Send, Begun, Over
<1>2. CASE Discard(h)
    BY <1>1, <1>2, CleansUp DEF Discard
<1>3. ASSUME NEW p \in {"pollLease", "condemn", "ambiguous", "orphan", "orphaned", "activate", "unclaim", "sent"},
             Goto(h, p), UNCHANGED mem
      PROVE  Continues(h) /\ pc'[h] # "store"
    BY <1>1, <1>3, GoesOn DEF Over
<1>4. CASE End(h, "done")
    BY <1>1, <1>4, EndsTask
<1> QED BY <1>2, <1>3, <1>4
        DEF ReadLiveness, Condemn, ResolveVanished, Recheck, ReadOrphan, MarkOrphan, Verify, Unclaim, Send

LEMMA SendingContinues ==
    ASSUME Typed, NEW h \in Redeemers,
           \/ Claim(h) \/ Activate(h) \/ Dispatch(h) \/ Spend(h) \/ Accepted(h) \/ Store(h)
    PROVE  Continues(h) /\ (pc'[h] # "store" \/ Accepted(h))
<1>1. Begun(h)
    BY DEF Claim, Activate, Dispatch, Spend, Accepted, Store, Begun, Over
<1>2. ASSUME NEW p \in {"verify", "spend"}, NEW v, mem' = [mem EXCEPT ![h].lease = v], Goto(h, p)
      PROVE  Continues(h) /\ pc'[h] # "store"
    <2>1. SameTask(h) /\ \A k \in Redeemers \ {h} : mem'[k] = mem[k]
        BY <1>2, LeaseSet
    <2>2. Alone(h) /\ pc'[h] = p
        BY <1>2, <2>1, PcSet
    <2> QED BY <1>1, <2>1, <2>2, KeepsTask DEF Over
<1>3. ASSUME NEW p \in {"pollLease", "unclaim", "send"}, Goto(h, p), UNCHANGED mem
      PROVE  Continues(h) /\ pc'[h] # "store"
    BY <1>1, <1>3, GoesOn DEF Over
<1>4. ASSUME NEW todo, NEW d, NEW r, CleanUp(h, todo, r, d)
      PROVE  Continues(h) /\ pc'[h] # "store"
    BY <1>1, <1>4, CleansUp
<1>5. CASE Claim(h) \/ Dispatch(h)
    BY <1>2, <1>3, <1>5 DEF Claim, Dispatch
<1>6. CASE Spend(h) \/ Store(h)
    BY <1>3, <1>4, <1>6 DEF Spend, Store
<1>7. CASE Activate(h)
    <2>1. mem[h] \in Memory /\ mem \in [Redeemers -> Memory]
        BY DEF Typed, TypeOK
    <2>2. PICK e \in {mem[h].epoch, grant.epoch} : mem' = [mem EXCEPT ![h].sendEpoch = e]
        BY <1>7 DEF Activate
    <2>3. mem'[h] = [mem[h] EXCEPT !.sendEpoch = e] /\ \A k \in Redeemers \ {h} : mem'[k] = mem[k]
        BY <2>1, <2>2
    <2>4. /\ mem'[h].requested = mem[h].requested /\ mem'[h].basis = mem[h].basis
          /\ mem'[h].epoch = mem[h].epoch /\ mem'[h].sendEpoch = e
        BY <2>1, <2>3 DEF Memory
    <2>5. Alone(h) /\ pc'[h] = "dispatch"
        BY <1>7, <2>3, PcSet DEF Activate
    <2> QED BY <1>1, <2>4, <2>5 DEF Continues, Over
<1>8. CASE Accepted(h)
    <2>1. PICK v : mem' = [mem EXCEPT ![h].got = v]
        BY <1>8 DEF Accepted
    <2>2. SameTask(h) /\ \A k \in Redeemers \ {h} : mem'[k] = mem[k]
        BY <2>1, GotSet
    <2>3. Alone(h) /\ pc'[h] = "store"
        BY <1>8, <2>2, PcSet DEF Accepted
    <2> QED BY <1>1, <1>8, <2>2, <2>3, KeepsTask DEF Over
<1> QED BY <1>5, <1>6, <1>7, <1>8

LEMMA ProceedsContinues ==
    ASSUME Typed, NEW h \in Redeemers, Proceeds(h)
    PROVE  Continues(h) /\ (pc'[h] # "store" \/ Accepted(h))
<1>1. CASE ResolveSpent(h) \/ SettleLease(h) \/ ForgetActive(h) \/ DiscardRefusedGrant(h)
    BY <1>1, Closes DEF ResolveSpent, SettleLease, ForgetActive, DiscardRefusedGrant, Doing, Proceed
<1> QED BY <1>1, PollingContinues, DecidingContinues, SendingContinues DEF Proceeds

\* What a step does to the records when it neither brings an answer nor stores
\* one: only a token in use is touched, and only a discard changes the grant.
Touches(h) ==
    /\ \A t \in Tokens : t # Token(h) => Lease(t)' = Lease(t) /\ spent'[t] = spent[t]
    /\ grant' = grant \/ grant' = [grant EXCEPT !.tokens = None]
    /\ UNCHANGED <<consent, responses>>

LEMMA SpentElsewhere ==
    ASSUME Typed, NEW u, NEW r, UNCHANGED spent \/ SetSpent(u, r)
    PROVE  \A t \in Tokens : t # u => spent'[t] = spent[t]
BY DEF SetSpent, Typed, TypeOK

LEMMA LeaseElsewhere ==
    ASSUME Typed, NEW h \in Redeemers, NEW r, UNCHANGED lease \/ SetLease(h, r)
    PROVE  \A t \in Tokens : t # Token(h) => Lease(t)' = Lease(t)
<1>1. 1 \in Epochs /\ lease \in [Epochs -> [Tokens -> LeaseRecord \cup {None}]]
    BY BoundsNatural DEF Typed, TypeOK, Epochs
<1> QED BY <1>1 DEF SetLease, Lease, Token

LEMMA ProceedsTouches ==
    ASSUME Typed, NEW h \in Redeemers, Proceeds(h), ~Accepted(h), ~Store(h)
    PROVE  Touches(h)
<1>1. CASE \/ FlowEpoch(h) \/ StoredTokens(h) \/ PollLease(h) \/ PollGrant(h) \/ PollSpent(h)
           \/ ReadLiveness(h) \/ Recheck(h) \/ ReadOrphan(h) \/ Verify(h) \/ Activate(h)
           \/ Send(h) \/ ForgetActive(h)
    <2>1. UNCHANGED <<grant, lease, spent, consent, responses>>
        BY <1>1 DEF FlowEpoch, StoredTokens, PollLease, PollGrant, PollSpent, ReadLiveness, Recheck,
                    ReadOrphan, Verify, Activate, Send, ForgetActive, storage, consenting, history
    <2> QED BY <2>1 DEF Touches, Lease
<1>2. CASE Condemn(h) \/ Claim(h) \/ Unclaim(h) \/ Dispatch(h) \/ SettleLease(h)
    <2>1. UNCHANGED <<grant, spent, consent, responses>>
        BY <1>2 DEF Condemn, Claim, Unclaim, Dispatch, SettleLease, consenting, history
    <2>2. \E r : UNCHANGED lease \/ SetLease(h, r)
        BY <1>2 DEF Condemn, Claim, Unclaim, Dispatch, SettleLease
    <2> QED BY <2>1, <2>2, LeaseElsewhere DEF Touches
<1>3. CASE ResolveVanished(h) \/ MarkOrphan(h) \/ Spend(h) \/ ResolveSpent(h)
    <2>1. UNCHANGED <<grant, lease, consent, responses>>
        BY <1>3 DEF ResolveVanished, MarkOrphan, Spend, ResolveSpent, consenting, history
    <2>2. \E r : UNCHANGED spent \/ SetSpent(Token(h), r)
        BY <1>3 DEF ResolveVanished, MarkOrphan, Spend, ResolveSpent, Token
    <2> QED BY <2>1, <2>2, SpentElsewhere DEF Touches, Lease
<1>4. CASE DiscardRefusedGrant(h)
    BY <1>4 DEF DiscardRefusedGrant, Touches, Lease, consenting, history
<1> QED BY <1>1, <1>2, <1>3, <1>4 DEF Proceeds

LEMMA ProceedsOneEpoch ==
    ASSUME Typed, OneEpoch, NEW h \in Redeemers, Continues(h), grant'.epoch = grant.epoch
    PROVE  OneEpoch'
<1>1. Fresh.epoch = 1 /\ Fresh.sendEpoch = 1 /\ Fresh.basis.epoch = 1
    BY DEF Fresh
<1>2. mem'[h].epoch = 1 /\ mem'[h].sendEpoch = 1 /\ mem'[h].basis.epoch = 1
    BY <1>1 DEF OneEpoch, Continues
<1>3. \A k \in Redeemers \ {h} : mem'[k] = mem[k]
    BY DEF Continues, Alone
<1> QED BY <1>2, <1>3 DEF OneEpoch

\* A step that hands out no token and takes up none.
Plain ==
    /\ \A k \in Redeemers : pc'[k] \notin Over \cup {"idle"} =>
            Begun(k) /\ mem'[k].requested = mem[k].requested /\ mem'[k].basis = mem[k].basis
    /\ \A k \in Redeemers : pc'[k] = "store" => pc[k] = "store" /\ mem'[k].got = mem[k].got
    /\ \A t \in Tokens : \/ Lease(t)' = Lease(t) /\ spent'[t] = spent[t]
                         \/ \E k \in Redeemers : Begun(k) /\ Token(k) = t
    /\ grant'.tokens \in {grant.tokens, None}
    /\ consent' # None => consent # None /\ consent'.tokens = consent.tokens
    /\ UNCHANGED responses

LEMMA TokensTyped ==
    ASSUME Typed
    PROVE  /\ grant \in Grant /\ grant.tokens \in Held \cup {None}
           /\ consent # None => consent.tokens \in Held
           /\ responses \in Seq([epoch : Epochs, refresh : Tokens])
           /\ \A h \in Redeemers : Begun(h) => Token(h) \in Tokens
           /\ \A h \in Redeemers : pc[h] = "store" => mem[h].got \in Held
<1>1. \A h \in Redeemers : Begun(h) => Token(h) \in Tokens
    BY Standing DEF Begun, Token
<1>2. \A h \in Redeemers : pc[h] = "store" => mem[h].got \in Held
    BY Standing DEF PhaseAt, Memory
<1> QED BY <1>1, <1>2 DEF Typed, TypeOK, Grant

LEMMA PristineStays ==
    ASSUME Typed, Plain, NEW t \in Tokens, Pristine(t)
    PROVE  Pristine(t)'
<1>1. ~At(t)'
    BY DEF Pristine, At, Plain
<1>2. Lease(t)' = None /\ spent'[t] = None
    BY DEF Pristine, Untouched, Plain
<1>3. \A h \in Redeemers : pc'[h] \notin Over \cup {"idle"} => mem'[h].requested # t
    BY DEF Pristine, Plain, Token
<1> QED BY <1>1, <1>2, <1>3 DEF Pristine, Untouched, Begun, Token

LEMMA PlainKeeps == ASSUME Typed, Ledger, Plain PROVE Ledger'
<1>0. Typed /\ UNCHANGED responses
    BY DEF Plain
<1>1. \A refresh, access : Handed(refresh, access)' <=> Handed(refresh, access)
    BY DEF Plain, Handed
<1>2. (grant.tokens # None => Handed(grant.tokens.refresh, grant.tokens.access))'
    BY <1>1 DEF Ledger, Plain, Handed
<1>3. (consent # None => /\ Handed(consent.tokens.refresh, consent.tokens.access)
                         /\ Pristine(consent.tokens.refresh))'
    <2> SUFFICES ASSUME consent' # None
                 PROVE  (/\ Handed(consent.tokens.refresh, consent.tokens.access)
                         /\ Pristine(consent.tokens.refresh))'
        OBVIOUS
    <2>1. consent # None /\ consent'.tokens = consent.tokens
        BY DEF Plain
    <2>2. consent.tokens.refresh \in Tokens /\ Pristine(consent.tokens.refresh)
        BY <2>1, TokensTyped DEF Held, Ledger
    <2>3. PICK t \in Tokens : t = consent.tokens.refresh
        BY <2>2
    <2>4. Pristine(t)'
        BY <2>2, <2>3, PristineStays
    <2>5. Handed(consent.tokens.refresh, consent.tokens.access)'
        BY <2>1 DEF Ledger, Plain, Handed
    <2> QED BY <2>1, <2>3, <2>4, <2>5 DEF Pristine, At
<1>4. ASSUME NEW h \in Redeemers PROVE (Begun(h) => Handed(Token(h), mem[h].basis.access))'
    BY DEF Ledger, Plain, Handed, Begun, Token
<1>5. ASSUME NEW t \in Tokens
      PROVE  (Untouched(t) \/ \E i \in 1 .. Len(responses) : responses[i].refresh = t)'
    <2>1. Untouched(t) \/ \E i \in 1 .. Len(responses) : responses[i].refresh = t
        BY DEF Ledger
    <2>2. CASE Lease(t)' = Lease(t) /\ spent'[t] = spent[t]
        BY <2>1, <2>2 DEF Untouched, Plain
    <2>3. CASE \E k \in Redeemers : Begun(k) /\ Token(k) = t
        BY <2>3 DEF Ledger, Handed, Plain
    <2> QED BY <2>2, <2>3 DEF Plain
<1>6. ASSUME NEW h \in Redeemers PROVE Pending(h)'
    <2> SUFFICES ASSUME pc'[h] = "store" PROVE Pending(h)'
        BY DEF Pending
    <2> DEFINE got == mem[h].got
    <2>1. pc[h] = "store" /\ mem'[h].got = got /\ mem'[h].requested = mem[h].requested /\ got \in Held
        BY TokensTyped DEF Plain, Over
    <2>2. Pending(h)
        BY DEF Ledger
    <2>3. /\ Handed(got.refresh, got.access)
          /\ grant'.tokens # None => got.access # grant'.tokens.access
          /\ consent' # None => got.access # consent'.tokens.access
          /\ \A k \in Redeemers : pc'[k] \notin Over \cup {"idle"} => got.access # mem'[k].basis.access
          /\ \A k \in Redeemers \ {h} : pc'[k] = "store" => got.access # mem'[k].got.access
        BY <2>1, <2>2 DEF Pending, Plain
    <2>4. got.refresh # mem[h].requested =>
            /\ Pristine(got.refresh)'
            /\ consent' # None => got.refresh # consent'.tokens.refresh
            /\ \A k \in Redeemers \ {h} : pc'[k] = "store" => got.refresh # mem'[k].got.refresh
        <3> SUFFICES ASSUME got.refresh # mem[h].requested, NEW t \in Tokens, t = got.refresh
                     PROVE  /\ Pristine(t)'
                            /\ consent' # None => t # consent'.tokens.refresh
                            /\ \A k \in Redeemers \ {h} : pc'[k] = "store" => t # mem'[k].got.refresh
            BY <2>1 DEF Held, Pristine, At
        <3>1. /\ Pristine(t)
              /\ consent # None => t # consent.tokens.refresh
              /\ \A k \in Redeemers \ {h} : pc[k] = "store" => t # mem[k].got.refresh
            BY <2>1, <2>2 DEF Pending, Token
        <3>2. Pristine(t)'
            BY <3>1, PristineStays
        <3> QED BY <3>1, <3>2 DEF Plain
    <2>5. Handed(got.refresh, got.access)'
        BY <2>1, <2>3 DEF Handed, Plain
    <2> QED BY <2>1, <2>3, <2>4, <2>5 DEF Pending, Begun, Token, Pristine, At
<1> QED BY <1>2, <1>3, <1>4, <1>5, <1>6 DEF Ledger

\* A new answer is unlike every earlier one, and so is a new token.
LEMMA Issued ==
    ASSUME Calm, Typed, Ledger, NEW e \in Epochs, NEW t \in Tokens, NEW kept, Issue(e, t, kept)
    PROVE  /\ \A refresh, access :
                Handed(refresh, access) => Handed(refresh, access)' /\ access # Len(responses) + 1
           /\ \A n : n = Len(responses) + 1 => Handed(t, n)'
           /\ \A i \in 1 .. Len(responses) :
                i \in 1 .. Len(responses') /\ responses'[i] = responses[i]
           /\ t # kept => Pristine(t) /\ \A access : ~Handed(t, access)
<1> DEFINE r == [epoch |-> e, refresh |-> t]
<1>1. responses \in Seq([epoch : Epochs, refresh : Tokens]) /\ Len(responses) \in Nat
    BY DEF Typed, TypeOK
<1>2. r \in [epoch : Epochs, refresh : Tokens] /\ r.refresh = t
    OBVIOUS
<1>3. responses' = Append(responses, r)
    BY DEF Issue
<1> HIDE DEF r
<1>4. /\ Len(responses') = Len(responses) + 1
      /\ \A i \in 1 .. Len(responses) : responses'[i] = responses[i]
      /\ responses'[Len(responses) + 1] = r
    BY <1>1, <1>2, <1>3, AppendProperties
<1>5. \A n : n = Len(responses) + 1 => Handed(t, n)'
    BY <1>1, <1>2, <1>4 DEF Handed
<1>6. \A refresh, access :
        Handed(refresh, access) => Handed(refresh, access)' /\ access # Len(responses) + 1
    BY <1>1, <1>4 DEF Handed
<1>7. ASSUME t # kept PROVE Pristine(t) /\ \A access : ~Handed(t, access)
    <2>1. \A i \in 1 .. Len(responses) : responses[i].refresh # t
        BY <1>1, <1>7 DEF Issue, Calm
    <2>2. \A access : ~Handed(t, access)
        BY <2>1 DEF Handed
    <2> QED BY <2>1, <2>2 DEF Ledger, Pristine, At
<1> QED BY <1>1, <1>4, <1>5, <1>6, <1>7

LEMMA ReadTokensLedger ==
    ASSUME Typed, Ledger, NEW h \in Redeemers, ReadTokens(h)
    PROVE  /\ Ledger' /\ Alone(h) /\ pc'[h] = "epoch"
           /\ mem'[h].requested = grant.tokens.refresh /\ mem'[h].basis.access = grant.tokens.access
           /\ mem'[h].lease = None /\ (OneEpoch => OneEpoch')
           /\ UNCHANGED <<grant, lease, spent, active, responses>>
<1>1. /\ pc[h] = "idle" /\ mem[h] = Fresh /\ mem \in [Redeemers -> Memory] /\ pc \in [Redeemers -> Steps]
      /\ grant.tokens \in Held
    BY Standing, TokensTyped DEF ReadTokens, PhaseAt, Typed, TypeOK
<1>2. Alone(h) /\ pc'[h] = "epoch"
    BY <1>1 DEF ReadTokens, Goto, Alone
<1>3. /\ mem'[h].requested = grant.tokens.refresh /\ mem'[h].basis.access = grant.tokens.access
      /\ mem'[h].lease = None /\ mem'[h].epoch = 1 /\ mem'[h].sendEpoch = 1
      /\ mem'[h].basis.epoch = grant.epoch
    BY <1>1 DEF ReadTokens, Fresh
<1>4. UNCHANGED <<grant, lease, spent, active, consent, responses>>
    BY DEF ReadTokens, storage, consenting, history
<1>5. \A t \in Tokens : Pristine(t) => Pristine(t)'
    BY <1>2, <1>3, <1>4 DEF ReadTokens, Pristine, At, Untouched, Lease, Begun, Token, Alone
<1>6. \A refresh, access : Handed(refresh, access) => Handed(refresh, access)'
    BY <1>4 DEF Handed
<1>7. (consent # None => /\ Handed(consent.tokens.refresh, consent.tokens.access)
                         /\ Pristine(consent.tokens.refresh))'
    <2> SUFFICES ASSUME consent # None
                 PROVE  (/\ Handed(consent.tokens.refresh, consent.tokens.access)
                         /\ Pristine(consent.tokens.refresh))'
        BY <1>4
    <2>1. PICK t \in Tokens : t = consent.tokens.refresh
        BY TokensTyped DEF Held
    <2>2. Pristine(t)' /\ Handed(consent.tokens.refresh, consent.tokens.access)'
        BY <1>4, <1>5, <1>6, <2>1 DEF Ledger, Handed
    <2> QED BY <1>4, <2>1, <2>2 DEF Pristine, At
<1>8. ASSUME NEW k \in Redeemers PROVE Pending(k)'
    <2> SUFFICES ASSUME pc'[k] = "store" PROVE Pending(k)'
        BY DEF Pending
    <2>1. k # h /\ pc'[k] = pc[k] /\ mem'[k] = mem[k] /\ mem[k].got \in Held /\ Pending(k)
        BY <1>2, TokensTyped DEF Alone, Ledger
    <2> DEFINE got == mem[k].got
    <2>2. Handed(got.refresh, got.access)'
        BY <1>4, <2>1 DEF Pending, Handed
    <2>3. \A q \in Redeemers : pc'[q] \notin Over \cup {"idle"} => got.access # mem'[q].basis.access
        BY <1>1, <1>2, <1>3, <2>1 DEF Pending, Begun, Alone, ReadTokens
    <2>4. got.refresh # Token(k) => Pristine(got.refresh)'
        <3> SUFFICES ASSUME got.refresh # Token(k), NEW t \in Tokens, t = got.refresh PROVE Pristine(t)'
            BY <2>1 DEF Held, Pristine, At
        <3> QED BY <1>5, <2>1 DEF Pending
    <2> QED BY <1>2, <1>4, <2>1, <2>2, <2>3, <2>4 DEF Pending, Begun, Token, Alone, Pristine, At
<1>9. Ledger'
    <2>1. \A k \in Redeemers : (Begun(k) => Handed(Token(k), mem[k].basis.access))'
        BY <1>1, <1>2, <1>3, <1>4, <1>6 DEF ReadTokens, Ledger, Begun, Token, Alone, Handed
    <2>2. \A t \in Tokens : (Untouched(t) \/ \E i \in 1 .. Len(responses) : responses[i].refresh = t)'
        BY <1>4 DEF Ledger, Untouched, Lease
    <2>3. (grant.tokens # None => Handed(grant.tokens.refresh, grant.tokens.access))'
        BY <1>4 DEF Ledger, Handed
    <2> QED BY <1>7, <1>8, <2>1, <2>2, <2>3 DEF Ledger
<1>10. OneEpoch => OneEpoch'
    BY <1>2, <1>3, <1>4 DEF OneEpoch, Alone
<1> QED BY <1>2, <1>3, <1>4, <1>9, <1>10

LEMMA AcceptedLedger ==
    ASSUME Calm, Typed, Ledger, NEW h \in Redeemers, Accepted(h)
    PROVE  Ledger' /\ UNCHANGED <<grant, lease, spent, active, consent>>
<1>0. PICK n : n = Len(responses) + 1
    OBVIOUS
<1>1. PICK t \in Tokens :
        /\ Issue(mem[h].epoch, t, mem[h].requested)
        /\ mem' = [mem EXCEPT ![h].got = [refresh |-> t, access |-> n]]
    BY <1>0 DEF Accepted
<1>2. mem[h].epoch \in Epochs /\ pc[h] = "sent" /\ Begun(h) /\ Token(h) \in Tokens
    BY Standing DEF Accepted, Over, Begun, Token
<1>3. /\ Alone(h) /\ pc'[h] = "store" /\ SameTask(h)
      /\ mem'[h].got = [refresh |-> t, access |-> n]
    <2>1. mem'[h].got = [refresh |-> t, access |-> n] /\ SameTask(h) /\ \A k \in Redeemers \ {h} : mem'[k] = mem[k]
        BY <1>1, GotSet
    <2>2. Alone(h) /\ pc'[h] = "store"
        BY <2>1, PcSet DEF Accepted
    <2> QED BY <2>1, <2>2
<1>4. /\ \A refresh, access :
            Handed(refresh, access) => Handed(refresh, access)' /\ access # n
      /\ Handed(t, n)'
      /\ \A i \in 1 .. Len(responses) :
            i \in 1 .. Len(responses') /\ responses'[i] = responses[i]
      /\ t # Token(h) => Pristine(t) /\ \A access : ~Handed(t, access)
    BY <1>0, <1>1, <1>2, Issued DEF Token
<1>5. UNCHANGED <<grant, lease, spent, active, consent>>
    BY DEF Accepted, storage, consenting
<1>6. /\ \A k \in Redeemers : (Begun(k))' <=> Begun(k)
      /\ \A k \in Redeemers : Token(k)' = Token(k) /\ mem'[k].basis = mem[k].basis
    BY <1>2, <1>3 DEF Begun, Token, Alone, SameTask, Over
<1>7. \A u \in Tokens : Pristine(u) => Pristine(u)'
    BY <1>5, <1>6 DEF Pristine, At, Untouched, Lease
<1>8. (consent # None => /\ Handed(consent.tokens.refresh, consent.tokens.access)
                         /\ Pristine(consent.tokens.refresh))'
    <2> SUFFICES ASSUME consent # None
                 PROVE  (/\ Handed(consent.tokens.refresh, consent.tokens.access)
                         /\ Pristine(consent.tokens.refresh))'
        BY <1>5
    <2>1. PICK u \in Tokens : u = consent.tokens.refresh
        BY TokensTyped DEF Held
    <2>2. PICK a : a = consent.tokens.access
        OBVIOUS
    <2>3. Pristine(u) /\ Handed(u, a)
        BY <2>1, <2>2 DEF Ledger
    <2>4. Pristine(u)' /\ Handed(u, a)'
        BY <1>4, <1>7, <2>3
    <2> QED BY <1>5, <2>1, <2>2, <2>4 DEF Pristine, At, Handed
<1>9. (grant.tokens # None => Handed(grant.tokens.refresh, grant.tokens.access))'
    <2> SUFFICES ASSUME grant.tokens # None, NEW u, NEW a, u = grant.tokens.refresh, a = grant.tokens.access
                 PROVE  Handed(u, a)'
        BY <1>5 DEF Handed
    <2> QED BY <1>4 DEF Ledger
<1>10. ASSUME NEW k \in Redeemers PROVE (Begun(k) => Handed(Token(k), mem[k].basis.access))'
    <2> SUFFICES ASSUME Begun(k), NEW u, NEW a, u = Token(k), a = mem[k].basis.access
                 PROVE  Handed(u, a)'
        BY <1>6 DEF Handed
    <2> QED BY <1>4 DEF Ledger
<1>11. ASSUME NEW u \in Tokens
       PROVE  (Untouched(u) \/ \E i \in 1 .. Len(responses) : responses[i].refresh = u)'
    <2>1. CASE Untouched(u)
        BY <1>5, <2>1 DEF Untouched, Lease
    <2>2. CASE \E i \in 1 .. Len(responses) : responses[i].refresh = u
        BY <1>4, <2>2
    <2> QED BY <2>1, <2>2 DEF Ledger
<1>12. Pending(h)'
    <2>1. \A k \in Redeemers \ {h} : pc'[k] = "store" =>
            n # mem'[k].got.access /\ (t # Token(h) => t # mem'[k].got.refresh)
        BY <1>3, <1>4 DEF Alone, Ledger, Pending
    <2>2. \A k \in Redeemers : Begun(k)' => n # mem'[k].basis.access
        BY <1>4, <1>6 DEF Ledger
    <2>3. grant'.tokens # None => n # grant'.tokens.access
        BY <1>4, <1>5 DEF Ledger
    <2>4. consent' # None => n # consent'.tokens.access /\ (t # Token(h) => t # consent'.tokens.refresh)
        BY <1>4, <1>5 DEF Ledger
    <2>5. t # Token(h) => Pristine(t)'
        BY <1>4, <1>7
    <2>6. mem'[h].got.refresh = t /\ mem'[h].got.access = n
        BY <1>3
    <2>7. Handed(mem[h].got.refresh, mem[h].got.access)'
        BY <1>4, <2>6 DEF Handed
    <2>8. mem'[h].got.refresh # Token(h)' => Pristine(mem[h].got.refresh)'
        BY <1>6, <2>5, <2>6 DEF Pristine, At, Untouched, Lease
    <2> QED BY <1>6, <2>1, <2>2, <2>3, <2>4, <2>6, <2>7, <2>8 DEF Pending
<1>13. ASSUME NEW k \in Redeemers \ {h} PROVE Pending(k)'
    <2> SUFFICES ASSUME pc'[k] = "store" PROVE Pending(k)'
        BY DEF Pending
    <2>1. pc[k] = "store" /\ mem'[k] = mem[k] /\ mem[k].got \in Held /\ Pending(k)
        BY <1>3, TokensTyped DEF Alone, Ledger
    <2>2. PICK u \in Tokens : u = mem[k].got.refresh
        BY <2>1 DEF Held
    <2>3. PICK a : a = mem[k].got.access
        OBVIOUS
    <2>4. Handed(u, a) /\ Handed(u, a)' /\ a # n
        BY <1>4, <2>1, <2>2, <2>3 DEF Pending
    <2>5. u # Token(k) => Pristine(u)' /\ u # t
        BY <1>2, <1>4, <1>7, <2>1, <2>2, <2>4 DEF Pending, Pristine
    <2>6. mem'[h].got.refresh = t /\ mem'[h].got.access = n
        BY <1>3
    <2>7. \A q \in Redeemers : Begun(q)' => a # mem'[q].basis.access
        BY <1>6, <2>1, <2>3 DEF Pending
    <2>8. \A q \in Redeemers \ {k} : pc'[q] = "store" =>
            a # mem'[q].got.access /\ (u # Token(k) => u # mem'[q].got.refresh)
        BY <1>3, <2>1, <2>2, <2>3, <2>4, <2>5, <2>6 DEF Pending, Alone
    <2>9. /\ grant'.tokens # None => a # grant'.tokens.access
          /\ consent' # None => a # consent'.tokens.access /\ (u # Token(k) => u # consent'.tokens.refresh)
        BY <1>5, <2>1, <2>2, <2>3 DEF Pending
    <2>10. (pc[k] = "store" => mem[k].got.refresh = u /\ mem[k].got.access = a /\ Token(k) = mem[k].requested)'
        BY <2>1, <2>2, <2>3 DEF Token
    <2>11. Token(k)' = Token(k)
        BY <1>6
    <2> QED BY <2>4, <2>5, <2>7, <2>8, <2>9, <2>10, <2>11 DEF Pending, Pristine, At, Handed
<1> QED BY <1>5, <1>8, <1>9, <1>10, <1>11, <1>12, <1>13 DEF Ledger

LEMMA StoreEffect ==
    ASSUME Typed, OneEpoch, NEW h \in Redeemers, Store(h)
    PROVE  /\ Alone(h) /\ pc[h] = "store" /\ pc'[h] = "closing" /\ SameTask(h)
           /\ mem'[h].todo = Release /\ mem'[h].lease = mem[h].lease
           /\ UNCHANGED <<lease, spent, active, consent, responses>>
           /\ mem[h].got \in Held /\ Token(h) \in Tokens
           /\ \/ /\ At(Token(h)) /\ grant' = [grant EXCEPT !.tokens = mem[h].got]
                 /\ mem'[h].verdict = [resolution |-> "resolved", digest |-> mem[h].got]
              \/ ~At(Token(h)) /\ UNCHANGED grant
<1>1. pc[h] = "store" /\ UNCHANGED <<lease, spent, active, consent, responses>>
    BY DEF Store, consenting
<1>2. mem[h].got \in Held /\ Token(h) \in Tokens
    BY <1>1, TokensTyped DEF Begun, Over
<1>3. grant.epoch = mem[h].epoch
    BY DEF OneEpoch
<1>4. PICK d : CleanUp(h, Release, "resolved", d)
    BY DEF Store
<1>5. /\ Alone(h) /\ pc'[h] = "closing" /\ SameTask(h)
      /\ mem'[h].todo = Release /\ mem'[h].lease = mem[h].lease
    BY <1>4, CleanUpSet
<1>6. CASE /\ grant.tokens # None /\ grant.tokens.refresh = mem[h].requested
           /\ grant' = [grant EXCEPT !.tokens = mem[h].got]
           /\ CleanUp(h, Release, "resolved", mem[h].got)
    BY <1>1, <1>2, <1>5, <1>6, CleanUpSet DEF At, Token
<1>7. CASE ~(grant.tokens # None /\ grant.tokens.refresh = mem[h].requested) /\ UNCHANGED grant
    BY <1>1, <1>2, <1>5, <1>7 DEF At, Token
<1> QED BY <1>3, <1>6, <1>7 DEF Store

\* The tokens of an answer come into the grant, and no other redemption or
\* consent has anything of them.
LEMMA Granted ==
    ASSUME Typed, Ledger, NEW got \in Held, grant'.tokens = got,
           Handed(got.refresh, got.access), UNCHANGED <<lease, spent, responses>>,
           \A k \in Redeemers : (Begun(k))' => Begun(k) /\ Token(k)' = Token(k) /\ mem'[k].basis = mem[k].basis,
           consent' # None => UNCHANGED consent /\ consent.tokens.refresh # got.refresh,
           \A k \in Redeemers : pc'[k] = "store" =>
                /\ pc[k] = "store" /\ mem'[k].got = mem[k].got
                /\ got.access # mem[k].got.access
                /\ mem[k].got.refresh # Token(k) => mem[k].got.refresh # got.refresh
    PROVE  Ledger'
<1>1. \A refresh, access : Handed(refresh, access) => Handed(refresh, access)'
    BY DEF Handed
<1>2. \A u \in Tokens : Pristine(u) /\ u # got.refresh => Pristine(u)'
    BY DEF Pristine, At, Untouched, Lease
<1>3. (grant.tokens # None => Handed(grant.tokens.refresh, grant.tokens.access))'
    <2>1. PICK u : u = got.refresh
        OBVIOUS
    <2>2. PICK a : a = got.access
        OBVIOUS
    <2>3. Handed(u, a)'
        BY <1>1, <2>1, <2>2
    <2> QED BY <2>1, <2>2, <2>3 DEF Handed
<1>4. (consent # None => /\ Handed(consent.tokens.refresh, consent.tokens.access)
                         /\ Pristine(consent.tokens.refresh))'
    <2> SUFFICES ASSUME consent' # None
                 PROVE  (/\ Handed(consent.tokens.refresh, consent.tokens.access)
                         /\ Pristine(consent.tokens.refresh))'
        OBVIOUS
    <2>1. consent # None /\ consent' = consent /\ consent.tokens.refresh # got.refresh
        OBVIOUS
    <2>2. PICK u \in Tokens : u = consent.tokens.refresh
        BY <2>1, TokensTyped DEF Held
    <2>3. PICK a : a = consent.tokens.access
        OBVIOUS
    <2>4. Pristine(u) /\ Handed(u, a)
        BY <2>1, <2>2, <2>3 DEF Ledger
    <2>5. Pristine(u)' /\ Handed(u, a)'
        BY <1>1, <1>2, <2>1, <2>2, <2>4
    <2> QED BY <2>1, <2>2, <2>3, <2>5 DEF Pristine, At, Handed
<1>5. ASSUME NEW k \in Redeemers PROVE (Begun(k) => Handed(Token(k), mem[k].basis.access))'
    <2> SUFFICES ASSUME Begun(k)', NEW u, NEW a, u = Token(k), a = mem[k].basis.access
                 PROVE  Handed(u, a)'
        BY DEF Handed
    <2> QED BY <1>1 DEF Ledger
<1>6. ASSUME NEW u \in Tokens
      PROVE  (Untouched(u) \/ \E i \in 1 .. Len(responses) : responses[i].refresh = u)'
    BY DEF Ledger, Untouched, Lease
<1>7. ASSUME NEW k \in Redeemers PROVE Pending(k)'
    <2> SUFFICES ASSUME pc'[k] = "store" PROVE Pending(k)'
        BY DEF Pending
    <2>1. /\ pc[k] = "store" /\ mem'[k].got = mem[k].got /\ mem[k].got \in Held /\ Pending(k)
          /\ Token(k)' = Token(k)
        BY TokensTyped DEF Ledger, Begun, Over
    <2>2. PICK u \in Tokens : u = mem[k].got.refresh
        BY <2>1 DEF Held
    <2>3. PICK a : a = mem[k].got.access
        OBVIOUS
    <2>4. Handed(u, a)'
        BY <1>1, <2>1, <2>2, <2>3 DEF Pending
    <2>5. grant'.tokens.access # a /\ (u # Token(k) => Pristine(u)')
        BY <1>2, <2>1, <2>2, <2>3 DEF Pending
    <2>6. /\ consent' # None => a # consent'.tokens.access /\ (u # Token(k) => u # consent'.tokens.refresh)
          /\ \A q \in Redeemers : (Begun(q))' => a # mem'[q].basis.access
          /\ \A q \in Redeemers \ {k} : pc'[q] = "store" =>
                a # mem'[q].got.access /\ (u # Token(k) => u # mem'[q].got.refresh)
        BY <2>1, <2>2, <2>3 DEF Pending
    <2>7. Handed(mem[k].got.refresh, mem[k].got.access)'
        BY <2>1, <2>2, <2>3, <2>4 DEF Handed
    <2>8. mem'[k].got.refresh # Token(k)' => Pristine(mem[k].got.refresh)'
        BY <2>1, <2>2, <2>5 DEF Pristine, At, Untouched, Lease
    <2> QED BY <2>1, <2>2, <2>3, <2>5, <2>6, <2>7, <2>8 DEF Pending
<1> QED BY <1>3, <1>4, <1>5, <1>6, <1>7 DEF Ledger

LEMMA StoreLedger == ASSUME Typed, OneEpoch, Ledger, NEW h \in Redeemers, Store(h) PROVE Ledger'
<1>1. /\ Alone(h) /\ pc[h] = "store" /\ pc'[h] = "closing" /\ SameTask(h)
      /\ UNCHANGED <<lease, spent, consent, responses>>
      /\ mem[h].got \in Held /\ Token(h) \in Tokens /\ Begun(h)
    BY StoreEffect DEF Begun, Over
<1>2. \A k \in Redeemers :
        /\ (Begun(k))' <=> Begun(k)
        /\ Token(k)' = Token(k) /\ mem'[k].requested = mem[k].requested /\ mem'[k].basis = mem[k].basis
        /\ pc'[k] = "store" => k # h /\ pc[k] = "store" /\ mem'[k].got = mem[k].got
    BY <1>1 DEF Begun, Token, Alone, SameTask, Over
<1>3. CASE UNCHANGED grant
    <2>1. Plain
        BY <1>1, <1>2, <1>3 DEF Plain, Lease, Begun
    <2> QED BY <2>1, PlainKeeps
<1>4. CASE grant' = [grant EXCEPT !.tokens = mem[h].got]
    <2>1. grant'.tokens = mem[h].got
        BY <1>4, TokensTyped DEF Grant
    <2>2. Pending(h)
        BY DEF Ledger
    <2>3. Handed(mem[h].got.refresh, mem[h].got.access)
        BY <1>1, <2>2 DEF Pending
    <2>4. consent' # None => UNCHANGED consent /\ consent.tokens.refresh # mem[h].got.refresh
        <3> SUFFICES ASSUME consent # None PROVE consent.tokens.refresh # mem[h].got.refresh
            BY <1>1
        <3>1. Token(h) # consent.tokens.refresh
            BY <1>1 DEF Ledger, Pristine
        <3> QED BY <1>1, <2>2, <3>1 DEF Pending
    <2>5. \A k \in Redeemers : pc'[k] = "store" =>
            /\ pc[k] = "store" /\ mem'[k].got = mem[k].got
            /\ mem[h].got.access # mem[k].got.access
            /\ mem[k].got.refresh # Token(k) => mem[k].got.refresh # mem[h].got.refresh
        BY <1>1, <1>2 DEF Ledger, Pending
    <2> QED BY <1>1, <1>2, <2>1, <2>3, <2>4, <2>5, Granted
<1> QED BY <1>3, <1>4, StoreEffect

LEMMA SaveLedger ==
    ASSUME Typed, OneEpoch, Ledger, SaveTokens
    PROVE  /\ Ledger' /\ UNCHANGED <<lease, spent, active, pc, mem>>
           /\ grant'.epoch = grant.epoch
           /\ consent # None
           /\ grant'.tokens # grant.tokens => grant'.tokens = consent.tokens
<1>1. UNCHANGED <<lease, spent, active, pc, mem, responses>> /\ consent # None /\ consent' = None
    BY DEF SaveTokens
<1>2. CASE UNCHANGED grant
    <2>1. Plain
        BY <1>1, <1>2 DEF Plain, Lease, Begun
    <2> QED BY <1>1, <1>2, <2>1, PlainKeeps
<1>3. CASE grant' = [grant EXCEPT !.tokens = consent.tokens, !.consent = consent.receipt]
    <2>1. grant'.tokens = consent.tokens /\ grant'.epoch = grant.epoch /\ consent.tokens \in Held
        BY <1>1, <1>3, TokensTyped DEF Grant
    <2>2. \A k \in Redeemers :
            /\ (Begun(k))' <=> Begun(k)
            /\ Token(k)' = Token(k)
        BY <1>1 DEF Begun, Token
    <2>3. Handed(consent.tokens.refresh, consent.tokens.access)
        BY <1>1 DEF Ledger
    <2>4. \A k \in Redeemers : pc'[k] = "store" =>
            /\ pc[k] = "store" /\ mem'[k].got = mem[k].got
            /\ consent.tokens.access # mem[k].got.access
            /\ mem[k].got.refresh # Token(k) => mem[k].got.refresh # consent.tokens.refresh
        BY <1>1 DEF Ledger, Pending
    <2> QED BY <1>1, <2>1, <2>2, <2>3, <2>4, Granted
<1> QED BY <1>1, <1>2, <1>3 DEF SaveTokens

LEMMA ExchangeLedger ==
    ASSUME Calm, Typed, Ledger, ExchangeAnswered
    PROVE  Ledger' /\ UNCHANGED <<grant, lease, spent, active, pc, mem>>
<1>0. PICK n : n = Len(responses) + 1
    OBVIOUS
<1>1. PICK t \in Tokens :
        /\ Issue(grant.epoch, t, None)
        /\ consent' = [epoch |-> grant.epoch, receipt |-> None, observed |-> FALSE,
                       tokens |-> [refresh |-> t, access |-> n]]
    BY <1>0 DEF ExchangeAnswered
<1>2. grant.epoch \in Epochs /\ t # None
    BY TokensTyped, NoneIsFresh DEF Grant
<1>3. /\ \A refresh, access :
            Handed(refresh, access) => Handed(refresh, access)' /\ access # n
      /\ Handed(t, n)'
      /\ \A i \in 1 .. Len(responses) :
            i \in 1 .. Len(responses') /\ responses'[i] = responses[i]
      /\ Pristine(t) /\ \A access : ~Handed(t, access)
    BY <1>0, <1>1, <1>2, Issued
<1>4. UNCHANGED <<grant, lease, spent, active, pc, mem>> /\ consent = None
    BY DEF ExchangeAnswered, storage
<1>5. \A u \in Tokens : Pristine(u) => Pristine(u)'
    BY <1>4 DEF Pristine, At, Untouched, Lease, Begun, Token
<1>6. consent'.tokens.refresh = t /\ consent'.tokens.access = n
    BY <1>1
<1>7. (consent # None => /\ Handed(consent.tokens.refresh, consent.tokens.access)
                         /\ Pristine(consent.tokens.refresh))'
    <2>1. Pristine(t)' /\ Handed(t, n)'
        BY <1>3, <1>5
    <2> QED BY <1>6, <2>1 DEF Handed, Pristine, At
<1>8. (grant.tokens # None => Handed(grant.tokens.refresh, grant.tokens.access))'
    <2> SUFFICES ASSUME grant.tokens # None, NEW u, NEW a, u = grant.tokens.refresh, a = grant.tokens.access
                 PROVE  Handed(u, a)'
        BY <1>4 DEF Handed
    <2> QED BY <1>3 DEF Ledger
<1>9. ASSUME NEW k \in Redeemers PROVE (Begun(k) => Handed(Token(k), mem[k].basis.access))'
    <2> SUFFICES ASSUME Begun(k), NEW u, NEW a, u = Token(k), a = mem[k].basis.access
                 PROVE  Handed(u, a)'
        BY <1>4 DEF Handed, Begun, Token
    <2> QED BY <1>3 DEF Ledger
<1>10. ASSUME NEW u \in Tokens
       PROVE  (Untouched(u) \/ \E i \in 1 .. Len(responses) : responses[i].refresh = u)'
    <2>1. CASE Untouched(u)
        BY <1>4, <2>1 DEF Untouched, Lease
    <2>2. CASE \E i \in 1 .. Len(responses) : responses[i].refresh = u
        BY <1>3, <2>2
    <2> QED BY <2>1, <2>2 DEF Ledger
<1>11. ASSUME NEW k \in Redeemers PROVE Pending(k)'
    <2> SUFFICES ASSUME pc[k] = "store" PROVE Pending(k)'
        BY <1>4 DEF Pending
    <2>1. mem[k].got \in Held /\ Pending(k)
        BY TokensTyped DEF Ledger
    <2>2. PICK u \in Tokens : u = mem[k].got.refresh
        BY <2>1 DEF Held
    <2>3. PICK a : a = mem[k].got.access
        OBVIOUS
    <2>4. Handed(u, a) /\ Handed(u, a)' /\ a # n /\ u # t
        BY <1>3, <2>1, <2>2, <2>3 DEF Pending
    <2>5. u # Token(k) => Pristine(u)'
        BY <1>5, <2>1, <2>2 DEF Pending
    <2>6. consent' # None => a # consent'.tokens.access /\ u # consent'.tokens.refresh
        BY <1>6, <2>4
    <2>7. Handed(mem[k].got.refresh, mem[k].got.access)'
        BY <1>4, <2>2, <2>3, <2>4 DEF Handed
    <2>8. mem[k].got.refresh # Token(k) => Pristine(mem[k].got.refresh)'
        BY <1>4, <2>2, <2>5 DEF Pristine, At, Untouched, Lease
    <2> QED BY <1>4, <2>1, <2>2, <2>3, <2>6, <2>7, <2>8 DEF Pending, Begun, Token
<1> QED BY <1>4, <1>7, <1>8, <1>9, <1>10, <1>11 DEF Ledger

LEMMA ProceedsLedger ==
    ASSUME Calm, Typed, OneEpoch, Ledger, NEW h \in Redeemers, Proceeds(h)
    PROVE  Ledger' /\ OneEpoch'
<1>1. Continues(h) /\ (pc'[h] # "store" \/ Accepted(h))
    BY ProceedsContinues
<1>2. CASE Accepted(h)
    <2>1. Ledger' /\ UNCHANGED grant
        BY <1>2, AcceptedLedger
    <2> QED BY <1>1, <2>1, ProceedsOneEpoch
<1>3. CASE Store(h)
    <2>1. Ledger' /\ grant'.epoch = grant.epoch
        BY <1>3, StoreLedger, StoreEffect, TokensTyped DEF Grant
    <2> QED BY <1>1, <2>1, ProceedsOneEpoch
<1>4. CASE ~Accepted(h) /\ ~Store(h)
    <2>1. Touches(h)
        BY <1>4, ProceedsTouches
    <2>2. grant'.epoch = grant.epoch /\ grant'.tokens \in {grant.tokens, None}
        BY <2>1, TokensTyped DEF Touches, Grant
    <2>3. Plain
        <3>1. \A k \in Redeemers : pc'[k] \notin Over \cup {"idle"} =>
                Begun(k) /\ mem'[k].requested = mem[k].requested /\ mem'[k].basis = mem[k].basis
            BY <1>1 DEF Continues, Alone, Begun, Over
        <3>2. \A k \in Redeemers : pc'[k] = "store" => pc[k] = "store" /\ mem'[k].got = mem[k].got
            BY <1>1, <1>4 DEF Continues, Alone
        <3>3. Begun(h)
            BY <1>1 DEF Continues
        <3> QED BY <2>1, <2>2, <3>1, <3>2, <3>3 DEF Plain, Touches
    <2> QED BY <1>1, <2>2, <2>3, PlainKeeps, ProceedsOneEpoch
<1> QED BY <1>2, <1>3, <1>4

\* What a lease stands on goes on to its end.
Steady ==
    \A q \in Redeemers : /\ Finished(q) => Finished(q)'
                         /\ Owns(q) => Owns(q)' \/ Finished(q)'

LEMMA BaseTyped ==
    ASSUME NEW r \in LeaseRecord \cup {None}
    PROVE  /\ Base(r) \in Redeemers \cup {None}
           /\ r # None => r.holder \in Redeemers
BY DEF Base, ProvenHolder, LeaseRecord

LEMMA BasedStays ==
    ASSUME Steady, NEW r \in LeaseRecord \cup {None}, Based(r)
    PROVE  Based(r)'
<1>1. Resting(r) /\ Base(r) # None => (Finished(Base(r)))'
    <2> SUFFICES ASSUME Resting(r), NEW q \in Redeemers, q = Base(r) PROVE Finished(q)'
        BY BaseTyped
    <2> QED BY NoneIsFresh DEF Based, Steady
<1>2. r # None /\ r.state = "dispatched" => (Owns(r.holder) \/ Finished(r.holder))'
    <2> SUFFICES ASSUME r # None, r.state = "dispatched", NEW q \in Redeemers, q = r.holder
                 PROVE  Owns(q)' \/ Finished(q)'
        BY BaseTyped
    <2> QED BY DEF Based, Steady
<1> QED BY <1>1, <1>2 DEF Based

\* What others may do to the token of a redemption: take it out of the grant,
\* or replace the tokens it comes with while its lease is dispatched.
Undisturbed(k) ==
    Begun(k) => \A t \in Tokens : t = Token(k) =>
        /\ k \in active => k \in active'
        /\ At(t)' => /\ At(t)
                     /\ \/ grant'.tokens = grant.tokens
                        \/ grant'.tokens.access # mem[k].basis.access
        /\ At(t)' /\ Match(Lease(t)', mem[k].lease) =>
            /\ Match(Lease(t), mem[k].lease)
            /\ grant'.tokens = grant.tokens /\ spent'[t] = spent[t]
        /\ Owns(k) =>
            /\ Lease(t)' = Lease(t)
            /\ At(t)' => grant'.tokens = grant.tokens /\ spent'[t] = spent[t]

LEMMA SoundStays ==
    ASSUME Typed, NEW k \in Redeemers, Sound(k), Steady, Undisturbed(k),
           pc'[k] = pc[k], mem'[k] = mem[k]
    PROVE  Sound(k)'
<1>1. mem[k] \in Memory /\ PhaseAt(k, pc[k], mem[k])
    BY Standing
<1>2. PICK p : p = pc[k]
    OBVIOUS
<1>3. PICK m \in Memory : m = mem[k]
    BY <1>1
<1>4. OwnerAt(k, p, m) /\ SnapshotAt(p, m) /\ DecidesAt(p, m) /\ Based(m.lease)
    BY <1>2, <1>3 DEF Sound, SoundAt
<1>5. Based(m.lease)'
    BY <1>4, BasedStays DEF Memory
<1>6. CASE ~Begun(k)
    <2>1. p \in Over \cup {"idle"}
        BY <1>2, <1>6 DEF Begun
    <2>2. OwnerAt(k, p, m)' /\ SnapshotAt(p, m)' /\ DecidesAt(p, m)'
        BY <2>1 DEF OwnerAt, SnapshotAt, DecidesAt, OwnsAt, Over
    <2> QED BY <1>2, <1>3, <1>5, <2>2 DEF Sound, SoundAt
<1>7. CASE Begun(k)
    <2>1. PICK t \in Tokens : t = m.requested
        BY <1>3, <1>7, TokensTyped DEF Token
    <2>2. /\ k \in active => k \in active'
          /\ At(t)' => /\ At(t)
                       /\ grant'.tokens = grant.tokens \/ grant'.tokens.access # m.basis.access
          /\ At(t)' /\ Match(Lease(t)', m.lease) =>
                /\ Match(Lease(t), m.lease)
                /\ grant'.tokens = grant.tokens /\ spent'[t] = spent[t]
          /\ OwnsAt(p, m) =>
                /\ Lease(t)' = Lease(t)
                /\ At(t)' => grant'.tokens = grant.tokens /\ spent'[t] = spent[t]
        BY <1>2, <1>3, <1>7, <2>1 DEF Undisturbed, Token, Owns
    <2>3. OwnerAt(k, p, m)'
        BY <1>4, <2>1, <2>2 DEF OwnerAt
    <2>4. SnapshotAt(p, m)'
        BY <1>4, <2>1, <2>2 DEF SnapshotAt
    <2>5. DecidesAt(p, m)'
        <3>1. p = "condemn" => Finished(m.lease.holder)'
            <4> SUFFICES ASSUME p = "condemn", NEW q \in Redeemers, q = m.lease.holder PROVE Finished(q)'
                BY <1>1, <1>2, <1>3 DEF PhaseAt, Memory, LeaseRecord
            <4> QED BY <1>4 DEF DecidesAt, Steady
        <3> QED BY <1>4, <2>1, <2>2, <3>1 DEF DecidesAt
    <2> QED BY <1>2, <1>3, <1>5, <2>3, <2>4, <2>5 DEF Sound, SoundAt
<1> QED BY <1>6, <1>7

LEMMA TokenStays ==
    ASSUME Typed, Steady, NEW t \in Tokens, TokenSound(t),
           Lease(t)' = Lease(t), At(t)' => At(t) /\ grant'.tokens = grant.tokens /\ spent'[t] = spent[t],
           \A q \in Redeemers : Owns(q) /\ Lease(t) # None /\ Lease(t).holder = q
                                    /\ Lease(t).state = "dispatched" =>
                Owns(q)' /\ Token(q)' = Token(q)
    PROVE  TokenSound(t)'
<1>1. PICK r \in LeaseRecord \cup {None} : r = Lease(t)
    <2>1. 1 \in Epochs
        BY BoundsNatural DEF Epochs
    <2> QED BY <2>1 DEF Typed, TypeOK, Lease
<1>2. Based(Lease(t))'
    <2>1. Based(r)'
        BY <1>1, BasedStays DEF TokenSound
    <2> QED BY <1>1, <2>1 DEF Based
<1>3. AtRest(t)'
    BY DEF TokenSound, AtRest
<1>4. Dispatched(t)'
    <2> SUFFICES ASSUME r # None, r.state = "dispatched", NEW q \in Redeemers, q = r.holder
                 PROVE  Owns(q)' /\ Token(q)' = t
        BY <1>1, BaseTyped DEF Dispatched
    <2> QED BY <1>1 DEF TokenSound, Dispatched
<1> QED BY <1>2, <1>3, <1>4 DEF TokenSound

LEMMA KeepsAll ==
    ASSUME KInv, Typed', OneEpoch', Ledger', NEW h \in Redeemers, Alone(h), Steady,
           \A k \in Redeemers \ {h} : Undisturbed(k),
           \A t \in Tokens : TokenSound(t)', Sound(h)'
    PROVE  KInv'
<1>1. \A k \in Redeemers \ {h} : Sound(k)'
    BY SoundStays DEF KInv, Alone
<1> QED BY <1>1 DEF KInv

\* A step that only reads.
LEMMA ReadStep ==
    ASSUME KInv, Typed', OneEpoch', Ledger', NEW h \in Redeemers, Alone(h),
           UNCHANGED <<grant, lease, spent>>, active \ {h} \subseteq active',
           Finished(h) => Finished(h)', Owns(h) => Owns(h)' /\ Token(h)' = Token(h), Sound(h)'
    PROVE  KInv'
<1>1. \A q \in Redeemers : /\ Owns(q) => Owns(q)' /\ Token(q)' = Token(q)
                           /\ Finished(q) => Finished(q)'
    BY DEF Alone, Owns, Finished, Token
<1>2. Steady
    BY <1>1 DEF Steady
<1>3. ASSUME NEW k \in Redeemers \ {h} PROVE Undisturbed(k)
    BY DEF Undisturbed, At, Lease
<1>4. ASSUME NEW t \in Tokens PROVE TokenSound(t)'
    <2>1. TokenSound(t) /\ Lease(t)' = Lease(t) /\ (At(t)' => At(t))
        BY DEF KInv, Lease, At
    <2> QED BY <1>1, <1>2, <2>1, TokenStays DEF KInv
<1> QED BY <1>2, <1>3, <1>4, KeepsAll

\* What every step of a redemption starts from.
LEMMA Start ==
    ASSUME KInv, NEW h \in Redeemers
    PROVE  /\ Typed /\ OneEpoch /\ Ledger /\ Sound(h)
           /\ mem[h] \in Memory /\ PhaseAt(h, pc[h], mem[h])
           /\ mem[h].epoch = 1 /\ mem[h].sendEpoch = 1
           /\ Outstanding(h) = Sent(h)
           /\ LeaseOf(h) = Lease(Token(h))
           /\ \A tokens : Current(h, tokens) <=> About(mem[h], tokens)
           /\ Begun(h) => /\ Token(h) \in Tokens /\ TokenSound(Token(h))
                          /\ Lease(Token(h)) \in LeaseRecord \cup {None}
<1>1. /\ Typed /\ OneEpoch /\ Ledger /\ Sound(h)
      /\ mem[h] \in Memory /\ PhaseAt(h, pc[h], mem[h])
      /\ mem[h].epoch = 1 /\ mem[h].sendEpoch = 1 /\ mem[h].basis.epoch = 1
    BY Standing DEF KInv, OneEpoch
<1>2. LeaseOf(h) = Lease(Token(h)) /\ Outstanding(h) = Sent(h)
    BY <1>1 DEF LeaseOf, Lease, Token, Outstanding, Sent
<1>3. \A tokens : Current(h, tokens) <=> About(mem[h], tokens)
    BY <1>1 DEF Current, RefreshedSinceRead, About
<1>4. Begun(h) => /\ Token(h) \in Tokens /\ TokenSound(Token(h))
                  /\ Lease(Token(h)) \in LeaseRecord \cup {None}
    BY <1>1, <1>2, TokensTyped, Standing DEF KInv, Begun
<1> QED BY <1>1, <1>2, <1>3, <1>4

LEMMA After ==
    ASSUME Calm, KInv, NEW h \in Redeemers, Proceeds(h)
    PROVE  Typed' /\ OneEpoch' /\ Ledger' /\ Alone(h)
<1>1. Typed'
    BY NextTyped DEF KInv, Next, Works, Proceeds
<1> QED BY <1>1, ProceedsLedger, ProceedsContinues DEF KInv, Continues

\* At most steps there is nothing to remember but the lease.
LEMMA Careless ==
    ASSUME NEW h, NEW p \in Over \cup {"idle", "epoch", "tokens", "pollLease", "unclaim"}, NEW m, Based(m.lease)
    PROVE  SoundAt(h, p, m)
BY DEF SoundAt, OwnerAt, OwnsAt, SnapshotAt, DecidesAt, Over

LEMMA CarelessNext ==
    ASSUME NEW h \in Redeemers, pc'[h] \in Over \cup {"idle", "epoch", "tokens", "pollLease", "unclaim"},
           Based(mem[h].lease)'
    PROVE  Sound(h)'
BY DEF Sound, SoundAt, OwnerAt, OwnsAt, SnapshotAt, DecidesAt, Over

\* The lease in memory stands on what it stood on.
LEMMA LeaseRemembered ==
    ASSUME KInv, NEW h \in Redeemers, Steady, mem'[h].lease \in {mem[h].lease, None}
    PROVE  Based(mem[h].lease)'
<1>1. mem[h] \in Memory /\ Based(mem[h].lease)
    BY Start DEF Sound, SoundAt
<1>2. PICK r \in LeaseRecord \cup {None} : r = mem'[h].lease
    BY <1>1 DEF Memory
<1>3. Based(None)
    BY DEF Based, Base, Resting
<1>4. Based(r)
    BY <1>1, <1>2, <1>3
<1>5. Based(r)'
    BY <1>4, BasedStays
<1> QED BY <1>2, <1>5 DEF Based

\* Only the step that settles its lease takes a redemption out of it.
LEMMA SteadyBut ==
    ASSUME NEW h \in Redeemers, Alone(h),
           Finished(h) => Finished(h)', Owns(h) => Owns(h)' \/ Finished(h)'
    PROVE  Steady
BY DEF Steady, Alone, Owns, Finished

LEMMA FreshLease == Fresh.lease = None
BY DEF Fresh

\* A step to nowhere in particular.
LEMMA CarelessStep ==
    ASSUME KInv, Typed', OneEpoch', Ledger', NEW h \in Redeemers, Alone(h),
           UNCHANGED <<grant, lease, spent, active>>, ~Finished(h), ~Owns(h),
           mem'[h].lease \in {mem[h].lease, None},
           pc'[h] \in Over \cup {"idle", "epoch", "tokens", "pollLease", "unclaim"}
    PROVE  KInv'
<1>1. Steady
    BY SteadyBut
<1>2. Sound(h)'
    BY <1>1, LeaseRemembered, CarelessNext
<1> QED BY <1>2, ReadStep

LEMMA DiscardStep ==
    ASSUME KInv, Typed', OneEpoch', Ledger', NEW h \in Redeemers, Discard(h),
           UNCHANGED <<grant, lease, spent, active>>, ~Finished(h), ~Owns(h),
           Token(h) \in Tokens, ~At(Token(h))
    PROVE  KInv'
<1>1. /\ Alone(h) /\ pc'[h] = "closing" /\ SameTask(h)
      /\ mem'[h].todo = <<"discard">> /\ mem'[h].lease = mem[h].lease
    BY CleanUpSet, Start DEF Discard
<1>2. Steady
    BY <1>1, SteadyBut
<1>3. Based(mem[h].lease)'
    BY <1>1, <1>2, LeaseRemembered
<1>4. ~Owns(h)'
    BY <1>1 DEF Owns, OwnsAt, Settling
<1>5. DecidesAt(pc[h], mem[h])'
    BY <1>1 DEF DecidesAt, SameTask, At, Token
<1>6. SnapshotAt(pc[h], mem[h])'
    BY <1>1 DEF SnapshotAt
<1>7. Sound(h)'
    BY <1>1, <1>3, <1>4, <1>5, <1>6 DEF Sound, SoundAt, OwnerAt, Owns
<1> QED BY <1>1, <1>7, ReadStep

LEMMA ReadTokensKept == ASSUME Calm, KInv, NEW h \in Redeemers, ReadTokens(h) PROVE KInv'
<1>1. Typed'
    BY NextTyped DEF KInv, Next
<1>2. /\ Ledger' /\ OneEpoch' /\ Alone(h) /\ pc'[h] = "epoch" /\ mem'[h].lease = None
      /\ UNCHANGED <<grant, lease, spent, active>>
    BY ReadTokensLedger DEF KInv
<1>3. ~Finished(h) /\ ~Owns(h)
    BY DEF ReadTokens, Finished, FinishedAt, Owns, OwnsAt, Over
<1> QED BY <1>1, <1>2, <1>3, CarelessStep

LEMMA FlowEpochKept ==
    ASSUME Calm, KInv, NEW h \in Redeemers, FlowEpoch(h) \/ StoredTokens(h) PROVE KInv'
<1>1. Typed' /\ OneEpoch' /\ Ledger' /\ Alone(h)
    BY After DEF Proceeds
<1>2. UNCHANGED <<grant, lease, spent, active>> /\ ~Finished(h) /\ ~Owns(h)
    BY DEF FlowEpoch, StoredTokens, storage, Finished, FinishedAt, Owns, OwnsAt, Over
<1>3. CASE FlowEpoch(h)
    <2>1. mem[h] \in Memory /\ mem \in [Redeemers -> Memory] /\ pc \in [Redeemers -> Steps]
        BY DEF KInv, Typed, TypeOK
    <2>2. mem'[h] = [mem[h] EXCEPT !.epoch = grant.epoch] /\ pc'[h] = "tokens"
        BY <1>3, <2>1 DEF FlowEpoch, Goto
    <2>3. mem'[h].lease = mem[h].lease
        BY <2>1, <2>2 DEF Memory
    <2> QED BY <1>1, <1>2, <2>2, <2>3, CarelessStep
<1>4. CASE StoredTokens(h)
    <2>1. mem'[h].lease \in {mem[h].lease, None} /\ pc'[h] \in {"pollLease", "done"}
        BY <1>4, GotoMoves, EndMoves, FreshLease DEF StoredTokens, KInv
    <2> QED BY <1>1, <1>2, <2>1, CarelessStep DEF Over
<1> QED BY <1>3, <1>4

LEMMA PollLeaseKept == ASSUME Calm, KInv, NEW h \in Redeemers, PollLease(h) PROVE KInv'
<1>1. Typed' /\ OneEpoch' /\ Ledger' /\ Alone(h)
    BY After DEF Proceeds
<1>2. /\ UNCHANGED <<grant, lease, spent, active>> /\ ~Finished(h) /\ ~Owns(h) /\ Begun(h)
    BY DEF PollLease, storage, Finished, FinishedAt, Owns, OwnsAt, Over, Begun
<1>3. mem'[h].lease = Lease(Token(h)) /\ SameTask(h) /\ pc'[h] = "pollGrant"
    <2>1. mem'[h].lease = LeaseOf(h) /\ SameTask(h) /\ \A k \in Redeemers \ {h} : mem'[k] = mem[k]
        BY LeaseSet, Start DEF PollLease
    <2>2. pc'[h] = "pollGrant"
        BY <2>1, PcSet, Start DEF PollLease
    <2> QED BY <2>1, <2>2, Start
<1>4. PICK t \in Tokens : t = Token(h)
    BY <1>2, Start
<1>5. PICK r \in LeaseRecord \cup {None} : r = Lease(t)
    BY <1>2, <1>4, Start
<1>6. Steady
    BY <1>1, <1>2, SteadyBut
<1>7. Based(mem[h].lease)'
    <2>1. Based(r)
        BY <1>4, <1>5 DEF KInv, TokenSound
    <2>2. Based(r)'
        BY <1>6, <2>1, BasedStays
    <2> QED BY <1>3, <1>4, <1>5, <2>2 DEF Based
<1>8. DecidesAt(pc[h], mem[h])'
    <2>1. AtRest(t)
        BY <1>4 DEF KInv, TokenSound
    <2>2. r # None /\ r.state = "completed" => Resting(r) /\ Base(r) # None
        BY NoneIsFresh DEF Resting, Base, ProvenHolder, LeaseRecord
    <2>3. /\ At(t) /\ r # None /\ r.state = "completed" => r.digest = grant.tokens
          /\ r # None /\ r.state = "dead" => ~At(t)
        BY <1>5, <2>1, <2>2 DEF AtRest
    <2>4. mem'[h].requested = t /\ mem'[h].lease = r
        BY <1>3, <1>4, <1>5 DEF SameTask, Token
    <2>5. At(t)' <=> At(t)
        BY <1>2 DEF At
    <2> QED BY <1>2, <1>3, <2>3, <2>4, <2>5 DEF DecidesAt, At
<1>9. OwnerAt(h, pc[h], mem[h])' /\ SnapshotAt(pc[h], mem[h])'
    BY <1>3 DEF OwnerAt, OwnsAt, SnapshotAt
<1>10. Sound(h)'
    BY <1>7, <1>8, <1>9 DEF Sound, SoundAt
<1> QED BY <1>1, <1>2, <1>10, ReadStep

LEMMA PollGrantKept == ASSUME Calm, KInv, NEW h \in Redeemers, PollGrant(h) PROVE KInv'
<1>1. Typed' /\ OneEpoch' /\ Ledger' /\ Alone(h)
    BY After DEF Proceeds
<1>2. /\ UNCHANGED <<grant, lease, spent, active>> /\ ~Finished(h) /\ ~Owns(h) /\ Begun(h)
      /\ pc[h] = "pollGrant"
    BY DEF PollGrant, storage, Finished, FinishedAt, Owns, OwnsAt, Over, Begun
<1>3. CASE End(h, "done")
    BY <1>1, <1>2, <1>3, EndMoves, FreshLease, CarelessStep DEF KInv, Over
<1>4. CASE mem' = [mem EXCEPT ![h].grant = grant] /\ Goto(h, "pollSpent")
    <2>1. /\ mem'[h].grant = grant /\ SameTask(h) /\ mem'[h].lease = mem[h].lease
          /\ \A k \in Redeemers \ {h} : mem'[k] = mem[k]
        BY <1>4, GrantSet, Start
    <2>2. pc'[h] = "pollSpent"
        BY <1>4, <2>1, PcSet, Start
    <2>3. Steady
        BY <1>1, <1>2, SteadyBut
    <2>4. Based(mem[h].lease)'
        BY <2>1, <2>3, LeaseRemembered
    <2>5. DecidesAt(pc[h], mem[h])'
        <3>1. DecidesAt("pollGrant", mem[h])
            BY <1>2, Start DEF Sound, SoundAt
        <3>2. PICK m : m = mem[h]
            OBVIOUS
        <3>3. PICK n : n = mem'[h]
            OBVIOUS
        <3>4. /\ n.requested = m.requested /\ n.basis = m.basis /\ n.lease = m.lease /\ n.grant = grant
            BY <2>1, <3>2, <3>3 DEF SameTask
        <3>5. DecidesAt("pollSpent", n)'
            BY <1>2, <3>1, <3>2, <3>4 DEF DecidesAt, About, At
        <3> QED BY <2>2, <3>3, <3>5 DEF DecidesAt, About
    <2>6. OwnerAt(h, pc[h], mem[h])' /\ SnapshotAt(pc[h], mem[h])'
        BY <1>2, <2>1, <2>2 DEF OwnerAt, OwnsAt, SnapshotAt
    <2>7. Sound(h)'
        BY <2>4, <2>5, <2>6 DEF Sound, SoundAt
    <2> QED BY <1>1, <1>2, <2>7, ReadStep
<1> QED BY <1>3, <1>4 DEF PollGrant

LEMMA PollSpentKept == ASSUME Calm, KInv, NEW h \in Redeemers, PollSpent(h) PROVE KInv'
<1> DEFINE m == mem[h]
<1> DEFINE g == m.grant
<1> DEFINE r == m.lease
<1> DEFINE s == spent[m.requested]
<1>1. Typed' /\ OneEpoch' /\ Ledger' /\ Alone(h)
    BY After DEF Proceeds
<1>2. /\ UNCHANGED <<grant, lease, spent, active>> /\ ~Finished(h) /\ ~Owns(h) /\ Begun(h)
      /\ pc[h] = "pollSpent"
    BY DEF PollSpent, storage, Finished, FinishedAt, Owns, OwnsAt, Over, Begun
<1>3. /\ OwnerAt(h, "pollSpent", m) /\ SnapshotAt("pollSpent", m) /\ DecidesAt("pollSpent", m)
      /\ m \in Memory /\ m.epoch = 1 /\ \A tokens : Current(h, tokens) <=> About(m, tokens)
      /\ Token(h) \in Tokens
    BY <1>2, Start DEF Sound, SoundAt
<1>4. CASE End(h, "done")
    BY <1>1, <1>2, <1>4, EndMoves, FreshLease, CarelessStep DEF KInv, Over
<1>5. ASSUME Current(h, g.tokens), r # None,
             r.state = "dead" \/ (r.state = "completed" /\ ~(Committed(r, g.tokens) /\ r.state = "completed")),
             Discard(h)
      PROVE  KInv'
    <2>1. r.state # "completed"
        BY <1>3, <1>5 DEF DecidesAt, Committed
    <2>2. ~At(Token(h))
        BY <1>3, <1>5, <2>1 DEF DecidesAt, Token
    <2> QED BY <1>1, <1>2, <1>3, <1>5, <2>2, DiscardStep
<1>6. ASSUME r # None, r.state = "dispatched", Goto(h, "liveness"), UNCHANGED mem
      PROVE  KInv'
    <2>1. pc'[h] = "liveness" /\ mem'[h] = m
        BY <1>6, GotoMoves, Start
    <2>2. Steady
        BY <1>1, <1>2, SteadyBut
    <2>3. Based(mem[h].lease)'
        BY <2>1, <2>2, LeaseRemembered
    <2>4. DecidesAt(pc[h], mem[h])' /\ OwnerAt(h, pc[h], mem[h])' /\ SnapshotAt(pc[h], mem[h])'
        BY <1>6, <2>1 DEF OwnerAt, OwnsAt, SnapshotAt, DecidesAt
    <2>5. Sound(h)'
        BY <2>3, <2>4 DEF Sound, SoundAt
    <2> QED BY <1>1, <1>2, <2>5, ReadStep
<1>7. ASSUME mem' = [mem EXCEPT ![h].spent = s],
             r # None => r.state # "dead" /\ r.state # "dispatched",
             \/ ~MaySpend(h, r, g, s) /\ Goto(h, "recheck")
             \/ Goto(h, "claim")
             \/ Goto(h, "pollLease")
      PROVE  KInv'
    <2>1. /\ mem'[h].spent = s /\ SameTask(h) /\ \A k \in Redeemers \ {h} : mem'[k] = mem[k]
          /\ mem'[h].lease = r /\ mem'[h].grant = g
        BY <1>7, SpentSet, Start
    <2>2. Steady
        BY <1>1, <1>2, SteadyBut
    <2>3. Based(mem[h].lease)'
        BY <2>1, <2>2, LeaseRemembered
    <2>4. CASE Goto(h, "pollLease")
        <3>1. pc'[h] = "pollLease"
            BY <2>1, <2>4, PcSet, Start
        <3> QED BY <1>1, <1>2, <2>1, <3>1, CarelessStep
    <2>5. ASSUME NEW p \in {"recheck", "claim"}, Goto(h, p), p = "recheck" => ~MaySpend(h, r, g, s)
          PROVE  KInv'
        <3>1. pc'[h] = p
            BY <2>1, <2>5, PcSet, Start
        <3>2. PICK n : n = mem'[h]
            OBVIOUS
        <3>3. /\ n.spent = spent[m.requested] /\ n.requested = m.requested /\ n.basis = m.basis
              /\ n.lease = m.lease /\ n.grant = m.grant
            BY <2>1, <3>2 DEF SameTask
        <3>4. Resting(n.lease)
            BY <1>3, <1>7, <3>3 DEF Resting, Memory, LeaseRecord
        <3>5. p = "recheck" => ~Sendable(n)
            BY <1>3, <2>5, <3>3 DEF Sendable, MaySpend, Resolved
        <3>6. SnapshotAt(p, n)'
            BY <1>2, <1>3, <3>3 DEF SnapshotAt, At, Lease
        <3>7. DecidesAt(p, n)'
            BY <3>4, <3>5 DEF DecidesAt
        <3>8. ~OwnsAt(p, n)
            BY DEF OwnsAt
        <3>9. Sound(h)'
            BY <2>3, <3>1, <3>2, <3>6, <3>7, <3>8 DEF Sound, SoundAt, OwnerAt
        <3> QED BY <1>1, <1>2, <3>9, ReadStep
    <2> QED BY <1>7, <2>4, <2>5
<1> QED BY <1>4, <1>5, <1>6, <1>7 DEF PollSpent

LEMMA LivenessKept ==
    ASSUME Calm, KInv, NEW h \in Redeemers, ReadLiveness(h) \/ Condemn(h) PROVE KInv'
<1>1. Typed' /\ OneEpoch' /\ Ledger' /\ Alone(h)
    BY After DEF Proceeds
<1>2. UNCHANGED <<grant, spent, active, mem>> /\ ~Finished(h) /\ ~Owns(h) /\ Begun(h)
    BY DEF ReadLiveness, Condemn, storage, Finished, FinishedAt, Owns, OwnsAt, Over, Begun
<1>3. ASSUME Goto(h, "pollLease"), UNCHANGED lease PROVE KInv'
    BY <1>1, <1>2, <1>3, GotoMoves, CarelessStep, Start
<1>4. /\ mem[h].lease \in LeaseRecord /\ mem[h].lease.state = "dispatched"
      /\ DecidesAt(pc[h], mem[h]) /\ Based(mem[h].lease)
    BY Start DEF ReadLiveness, Condemn, PhaseAt, Memory, Sound, SoundAt, DecidesAt
<1>5. PICK q \in Redeemers : q = mem[h].lease.holder
    BY <1>4 DEF LeaseRecord
<1>6. CASE ReadLiveness(h)
    <2>1. CASE q \notin active
        <3>1. ~Owns(q)
            BY <2>1 DEF KInv, Sound, SoundAt, OwnerAt, Owns
        <3>2. Finished(q)
            BY <1>4, <1>5, <3>1, NoneIsFresh DEF Based
        <3>3. pc'[h] = "condemn" /\ mem'[h] = mem[h]
            BY <1>5, <1>6, <2>1, GotoMoves, Start DEF ReadLiveness
        <3>4. Steady
            BY <1>1, <1>2, SteadyBut
        <3>5. Based(mem[h].lease)'
            BY <3>3, <3>4, LeaseRemembered
        <3>6. DecidesAt(pc[h], mem[h])'
            <4>1. Finished(q)'
                BY <3>2, <3>4 DEF Steady
            <4> QED BY <1>4, <1>5, <3>3, <4>1 DEF DecidesAt, Finished
        <3>7. OwnerAt(h, pc[h], mem[h])' /\ SnapshotAt(pc[h], mem[h])'
            BY <3>3 DEF OwnerAt, OwnsAt, SnapshotAt
        <3>8. Sound(h)'
            BY <3>5, <3>6, <3>7 DEF Sound, SoundAt
        <3>9. UNCHANGED lease
            BY <1>6 DEF ReadLiveness, storage
        <3> QED BY <1>1, <1>2, <3>8, <3>9, ReadStep
    <2>2. CASE q \in active
        BY <1>3, <1>5, <1>6, <2>2 DEF ReadLiveness, storage
    <2> QED BY <2>1, <2>2
<1>7. CASE Condemn(h)
    <2>1. Finished(q)
        BY <1>4, <1>5, <1>7 DEF Condemn, DecidesAt
    <2>2. LeaseOf(h) # mem[h].lease
        <3> SUFFICES ASSUME LeaseOf(h) = mem[h].lease PROVE FALSE
            OBVIOUS
        <3>1. Dispatched(Token(h)) /\ LeaseOf(h) = Lease(Token(h))
            BY <1>2, Start DEF TokenSound
        <3>2. Owns(q)
            BY <1>4, <1>5, <3>1, NoneIsFresh DEF Dispatched
        <3> QED BY <2>1, <3>2 DEF Owns, OwnsAt, Finished, FinishedAt, Over
    <2> QED BY <1>3, <1>7, <2>2 DEF Condemn
<1> QED BY <1>6, <1>7

LEMMA VanishedKept == ASSUME Calm, KInv, NEW h \in Redeemers, ResolveVanished(h) PROVE KInv'
BY Start DEF ResolveVanished, Sound, SoundAt, DecidesAt

\* A lease that is as it was read, over a spent record that forbids to send,
\* belongs to a token that is no longer the grant's.
LEMMA Forbidden ==
    ASSUME KInv, NEW h \in Redeemers, pc[h] = "recheck", LeaseOf(h) = mem[h].lease
    PROVE  ~At(Token(h))
<1> SUFFICES ASSUME At(Token(h)) PROVE FALSE
    OBVIOUS
<1>1. Begun(h)
    BY DEF Begun, Over
<1>2. PICK m \in Memory : m = mem[h]
    BY Start
<1>3. PICK t \in Tokens : t = m.requested
    BY <1>1, <1>2, Start DEF Token
<1>4. SnapshotAt("recheck", m) /\ DecidesAt("recheck", m) /\ AtRest(t) /\ At(t) /\ Lease(t) = m.lease
    BY <1>1, <1>2, <1>3, Start DEF Sound, SoundAt, TokenSound, Token
<1>5. Resting(m.lease) /\ ~Sendable(m) /\ Match(Lease(t), m.lease)
    BY <1>4 DEF DecidesAt, Match
<1>6. m.grant.tokens = grant.tokens /\ m.spent = spent[t]
    BY <1>3, <1>4, <1>5 DEF SnapshotAt
<1>7. /\ Base(m.lease) # None /\ m.lease.digest = m.grant.tokens
      /\ m.spent = Resolved(Base(m.lease))
    BY <1>4, <1>5, <1>6 DEF AtRest, Sendable
<1>8. Committed(m.lease, m.grant.tokens) /\ Base(m.lease) = ProvenHolder(m.lease)
    BY <1>5, <1>7 DEF Committed, Base, ProvenHolder, Resting
<1> QED BY <1>5, <1>7, <1>8 DEF Sendable

LEMMA RecheckKept ==
    ASSUME Calm, KInv, NEW h \in Redeemers, Recheck(h) \/ ReadOrphan(h) PROVE KInv'
<1>1. Typed' /\ OneEpoch' /\ Ledger' /\ Alone(h)
    BY After DEF Proceeds
<1>2. /\ UNCHANGED <<grant, lease, spent, active>> /\ ~Finished(h) /\ ~Owns(h) /\ Begun(h)
      /\ Token(h) \in Tokens
    BY Start DEF Recheck, ReadOrphan, storage, Finished, FinishedAt, Owns, OwnsAt, Over, Begun
<1>3. CASE Goto(h, "pollLease") /\ UNCHANGED mem
    BY <1>1, <1>2, <1>3, GotoMoves, CarelessStep, Start
<1>4. CASE ~At(Token(h)) /\ Discard(h)
    BY <1>1, <1>2, <1>4, DiscardStep
<1>5. ASSUME NEW p \in {"orphan", "orphaned"}, ~At(Token(h)), Goto(h, p), UNCHANGED mem PROVE KInv'
    <2>1. pc'[h] = p /\ mem'[h] = mem[h]
        BY <1>5, GotoMoves, Start
    <2>2. Steady
        BY <1>1, <1>2, SteadyBut
    <2>3. Based(mem[h].lease)'
        BY <2>1, <2>2, LeaseRemembered
    <2>4. DecidesAt(pc[h], mem[h])' /\ OwnerAt(h, pc[h], mem[h])' /\ SnapshotAt(pc[h], mem[h])'
        BY <1>2, <1>5, <2>1 DEF OwnerAt, OwnsAt, SnapshotAt, DecidesAt, At, Token
    <2>5. Sound(h)'
        BY <2>3, <2>4 DEF Sound, SoundAt
    <2> QED BY <1>1, <1>2, <2>5, ReadStep
<1>6. CASE Recheck(h)
    BY <1>3, <1>4, <1>5, <1>6, Forbidden DEF Recheck
<1>7. CASE ReadOrphan(h)
    <2>1. ~At(Token(h))
        BY <1>7, Start DEF ReadOrphan, Sound, SoundAt, DecidesAt, Token
    <2> QED BY <1>4, <1>5, <1>7, <2>1 DEF ReadOrphan
<1> QED BY <1>6, <1>7

LEMMA VerifyKept == ASSUME Calm, KInv, NEW h \in Redeemers, Verify(h) PROVE KInv'
<1>1. Typed' /\ OneEpoch' /\ Ledger' /\ Alone(h)
    BY After DEF Proceeds
<1>2. /\ UNCHANGED <<grant, lease, spent, active>> /\ ~Finished(h) /\ ~Owns(h) /\ pc[h] = "verify"
    BY DEF Verify, storage, Finished, FinishedAt, Owns, OwnsAt, Over
<1>3. CASE Goto(h, "unclaim") /\ UNCHANGED mem
    BY <1>1, <1>2, <1>3, GotoMoves, CarelessStep, Start
<1>4. CASE Goto(h, "activate") /\ UNCHANGED mem
    <2>1. pc'[h] = "activate" /\ mem'[h] = mem[h]
        BY <1>4, GotoMoves, Start
    <2>2. Steady
        BY <1>1, <1>2, SteadyBut
    <2>3. Based(mem[h].lease)'
        BY <2>1, <2>2, LeaseRemembered
    <2>4. SnapshotAt("verify", mem[h])
        BY <1>2, Start DEF Sound, SoundAt
    <2>5. DecidesAt(pc[h], mem[h])' /\ OwnerAt(h, pc[h], mem[h])' /\ SnapshotAt(pc[h], mem[h])'
        BY <1>2, <2>1, <2>4 DEF OwnerAt, OwnsAt, SnapshotAt, DecidesAt, At, Lease
    <2>6. Sound(h)'
        BY <2>3, <2>5 DEF Sound, SoundAt
    <2> QED BY <1>1, <1>2, <2>6, ReadStep
<1> QED BY <1>3, <1>4 DEF Verify

LEMMA ActivateKept == ASSUME Calm, KInv, NEW h \in Redeemers, Activate(h) PROVE KInv'
<1>1. Typed' /\ OneEpoch' /\ Ledger' /\ Alone(h)
    BY After DEF Proceeds
<1>2. /\ UNCHANGED <<grant, lease, spent>> /\ active \subseteq active' /\ h \in active'
      /\ ~Finished(h) /\ ~Owns(h) /\ pc[h] = "activate"
    BY DEF Activate, Finished, FinishedAt, Owns, OwnsAt, Over
<1>3. PICK m \in Memory : m = mem[h]
    BY Start
<1>4. PICK n : n = mem'[h]
    OBVIOUS
<1>5. /\ n.requested = m.requested /\ n.basis = m.basis /\ n.lease = m.lease
      /\ n.grant = m.grant /\ n.spent = m.spent
    <2>1. PICK e : mem' = [mem EXCEPT ![h].sendEpoch = e]
        BY DEF Activate
    <2>2. n = [m EXCEPT !.sendEpoch = e]
        BY <1>3, <1>4, <2>1 DEF KInv, Typed, TypeOK
    <2> QED BY <1>3, <2>2 DEF Memory
<1>6. pc'[h] = "dispatch"
    BY DEF Activate, Goto, KInv, Typed, TypeOK
<1>7. Steady
    BY <1>1, <1>2, SteadyBut
<1>8. Based(mem[h].lease)'
    BY <1>3, <1>4, <1>5, <1>7, LeaseRemembered
<1>9. SnapshotAt("activate", m)
    BY <1>2, <1>3, Start DEF Sound, SoundAt
<1>10. SnapshotAt("dispatch", n)' /\ DecidesAt("dispatch", n)' /\ ~OwnsAt("dispatch", n)
    BY <1>2, <1>5, <1>9 DEF OwnsAt, SnapshotAt, DecidesAt, At, Lease
<1>11. Sound(h)'
    BY <1>2, <1>4, <1>6, <1>8, <1>10 DEF Sound, SoundAt, OwnerAt
<1> QED BY <1>1, <1>2, <1>11, ReadStep

LEMMA SendKept == ASSUME Calm, KInv, NEW h \in Redeemers, Send(h) \/ Accepted(h) PROVE KInv'
<1>1. Typed' /\ OneEpoch' /\ Ledger' /\ Alone(h)
    BY After DEF Proceeds
<1>2. /\ UNCHANGED <<grant, lease, spent, active>> /\ ~Finished(h) /\ Owns(h)
      /\ pc[h] \in {"send", "sent"}
    BY DEF Send, Accepted, storage, Finished, FinishedAt, Owns, OwnsAt, Over
<1>3. PICK m : m = mem[h]
    OBVIOUS
<1>4. PICK n : n = mem'[h]
    OBVIOUS
<1>5. /\ n.requested = m.requested /\ n.lease = m.lease /\ pc'[h] \in {"sent", "store"}
    <2>1. CASE Send(h)
        BY <1>3, <1>4, <2>1, GotoMoves, Start DEF Send
    <2>2. CASE Accepted(h)
        <3>1. PICK v : mem' = [mem EXCEPT ![h].got = v]
            BY <2>2 DEF Accepted
        <3>2. SameTask(h) /\ mem'[h].lease = mem[h].lease /\ \A k \in Redeemers \ {h} : mem'[k] = mem[k]
            BY <3>1, GotSet, Start
        <3>3. pc'[h] = "store"
            BY <2>2, <3>2, PcSet, Start DEF Accepted
        <3> QED BY <1>3, <1>4, <3>2, <3>3 DEF SameTask
    <2> QED BY <2>1, <2>2
<1>6. Owns(h)' /\ Token(h)' = Token(h)
    BY <1>3, <1>4, <1>5 DEF Owns, OwnsAt, Token
<1>7. Steady
    BY <1>1, <1>2, <1>6, SteadyBut
<1>8. Based(mem[h].lease)'
    BY <1>3, <1>4, <1>5, <1>7, LeaseRemembered
<1>9. PICK p \in {"sent", "store"} : p = pc'[h]
    BY <1>5
<1>10. OwnerAt(h, pc[h], m)
    BY <1>3, Start DEF Sound, SoundAt
<1>11. OwnerAt(h, p, n)' /\ SnapshotAt(p, n)' /\ DecidesAt(p, n)'
    BY <1>2, <1>5, <1>10 DEF OwnerAt, OwnsAt, SnapshotAt, DecidesAt, At, Lease
<1>12. Sound(h)'
    BY <1>4, <1>8, <1>9, <1>11 DEF Sound, SoundAt
<1> QED BY <1>1, <1>2, <1>6, <1>12, ReadStep

\* In which order a cleanup goes, and where it stands between two writes.
LEMMA CleanupOrder ==
    ASSUME NEW s \in Todos
    PROVE  /\ Head(s) = "resolve" =>
                \/ s = Release /\ Tail(s) = <<"settle">>
                \/ s = <<"resolve", "settle", "discard">> /\ Tail(s) = <<"settle", "discard">>
           /\ Head(s) = "settle" =>
                \/ s = <<"settle">> /\ <<"forget">> \o Tail(s) = <<"forget">>
                \/ s = <<"settle", "discard">> /\ <<"forget">> \o Tail(s) = <<"forget", "discard">>
           /\ Head(s) = "forget" =>
                \/ s = <<"forget">> /\ Tail(s) = <<>>
                \/ s = <<"forget", "discard">> /\ Tail(s) = <<"discard">>
           /\ Head(s) = "discard" =>
                s = <<"discard", "resolve", "settle">> \/ (s = <<"discard">> /\ Tail(s) = <<>>)
<1>1. /\ Tail(<<"discard">>) = <<>> /\ Tail(<<"settle">>) = <<>> /\ Tail(<<"forget">>) = <<>>
      /\ Tail(<<"resolve", "settle", "discard">>) = <<"settle", "discard">>
      /\ Tail(<<"settle", "discard">>) = <<"discard">>
      /\ Tail(<<"forget", "discard">>) = <<"discard">>
      /\ Tail(<<"resolve", "settle">>) = <<"settle">>
    OBVIOUS
<1>2. /\ Head(<<"discard">>) = "discard" /\ Head(<<"settle">>) = "settle" /\ Head(<<"forget">>) = "forget"
      /\ Head(<<"resolve", "settle", "discard">>) = "resolve"
      /\ Head(<<"settle", "discard">>) = "settle"
      /\ Head(<<"forget", "discard">>) = "forget"
      /\ Head(<<"discard", "resolve", "settle">>) = "discard"
      /\ Head(<<"resolve", "settle">>) = "resolve"
    OBVIOUS
<1>3. <<"forget">> \o <<>> = <<"forget">>
    OBVIOUS
<1>4. Head(s) = "resolve" => s = Release \/ s = <<"resolve", "settle", "discard">>
    BY <1>2 DEF Todos, Release
<1>5. Head(s) = "settle" => s = <<"settle">> \/ s = <<"settle", "discard">>
    BY <1>2 DEF Todos
<1>6. Head(s) = "forget" => s = <<"forget">> \/ s = <<"forget", "discard">>
    BY <1>2 DEF Todos
<1>7. Head(s) = "discard" => s = <<"discard", "resolve", "settle">> \/ s = <<"discard">>
    BY <1>2 DEF Todos
<1>8. Head(s) = "settle" =>
        \/ s = <<"settle">> /\ <<"forget">> \o Tail(s) = <<"forget">>
        \/ s = <<"settle", "discard">> /\ <<"forget">> \o Tail(s) = <<"forget", "discard">>
    BY <1>1, <1>3, <1>5, ForgetThenDiscard
<1> QED BY <1>1, <1>4, <1>6, <1>7, <1>8 DEF Release

LEMMA CleanupApart ==
    /\ \A s \in {Release, <<"settle">>, <<"forget">>} : s \notin Discarding
    /\ \A s \in {<<"discard">>, <<"forget">>, <<"forget", "discard">>} : s \notin Settling
    /\ <<"settle">> # Release /\ <<"settle", "discard">> \notin {Release, <<"settle">>}
    /\ <<"discard", "resolve", "settle">> \notin
            {Release, <<"settle">>, <<"forget">>, <<"discard">>, <<"settle", "discard">>,
             <<"forget", "discard">>}
<1>1. /\ Len(<<"discard">>) = 1 /\ Len(<<"settle">>) = 1 /\ Len(<<"forget">>) = 1 /\ Len(Release) = 2
      /\ Len(<<"settle", "discard">>) = 2 /\ Len(<<"forget", "discard">>) = 2
      /\ Len(<<"resolve", "settle", "discard">>) = 3 /\ Len(<<"discard", "resolve", "settle">>) = 3
    BY DEF Release
<1>2. /\ Head(<<"discard">>) = "discard" /\ Head(<<"settle">>) = "settle" /\ Head(<<"forget">>) = "forget"
      /\ Head(<<"settle", "discard">>) = "settle"
      /\ Head(<<"forget", "discard">>) = "forget"
      /\ Head(Release) = "resolve"
    BY DEF Release
<1>3. Release # <<"settle", "discard">> /\ Release # <<"forget", "discard">>
    BY <1>2
<1>4. \A s \in {Release, <<"settle">>, <<"forget">>} : s \notin Discarding
    BY <1>1, <1>2, <1>3 DEF Discarding
<1>5. \A s \in {<<"discard">>, <<"forget">>, <<"forget", "discard">>} : s \notin Settling
    BY <1>1, <1>2, <1>3 DEF Settling, Release
<1> QED BY <1>1, <1>3, <1>4, <1>5

\* The cleanup of a redemption that owns its lease no longer.
LEMMA EndingStep ==
    ASSUME KInv, NEW h \in Redeemers, pc[h] = "closing", Steady, Alone(h),
           \/ pc'[h] = "done" /\ mem'[h] = Fresh
           \/ /\ pc'[h] = "closing" /\ SameTask(h) /\ mem'[h].lease = mem[h].lease
              /\ mem'[h].todo \in {<<"discard">>, <<"forget">>, <<"forget", "discard">>}
              /\ At(Token(h))' => mem'[h].todo = <<"forget">>
    PROVE  Sound(h)' /\ Finished(h)'
<1>1. mem'[h].lease \in {mem[h].lease, None}
    BY FreshLease
<1>2. Based(mem[h].lease)'
    BY <1>1, LeaseRemembered
<1>3. CASE pc'[h] = "done"
    BY <1>2, <1>3, CarelessNext DEF Finished, FinishedAt, Over
<1>4. CASE /\ pc'[h] = "closing" /\ SameTask(h)
           /\ mem'[h].todo \in {<<"discard">>, <<"forget">>, <<"forget", "discard">>}
           /\ At(Token(h))' => mem'[h].todo = <<"forget">>
    <2>1. mem'[h].todo \notin Settling /\ mem'[h].todo # <<"discard", "resolve", "settle">>
        BY <1>4, CleanupApart
    <2>2. ~Owns(h)' /\ Finished(h)'
        BY <1>4, <2>1 DEF Owns, OwnsAt, Finished, FinishedAt, Over
    <2>3. mem'[h].todo \in Discarding => ~At(Token(h))'
        BY <1>4, CleanupApart
    <2>4. DecidesAt(pc[h], mem[h])'
        BY <1>4, <2>1, <2>3 DEF DecidesAt, At, Token
    <2>5. SnapshotAt(pc[h], mem[h])' /\ OwnerAt(h, pc[h], mem[h])'
        BY <1>4, <2>2 DEF SnapshotAt, OwnerAt, Owns
    <2> QED BY <1>2, <2>2, <2>4, <2>5 DEF Sound, SoundAt
<1> QED BY <1>3, <1>4

\* The end of a cleanup forgets the liveness key and drops the refused grant.
LEMMA EndingKept ==
    ASSUME Calm, KInv, NEW h \in Redeemers, ForgetActive(h) \/ DiscardRefusedGrant(h)
    PROVE  KInv' /\ UNCHANGED grant
<1>1. Typed' /\ OneEpoch' /\ Ledger' /\ Alone(h)
    BY After DEF Proceeds
<1>2. PICK s \in Todos : s = mem[h].todo
    BY Start DEF ForgetActive, DiscardRefusedGrant, Doing, PhaseAt
<1>3. /\ pc[h] = "closing" /\ Begun(h) /\ Proceed(h)
      /\ DecidesAt("closing", mem[h]) /\ Head(s) \in {"forget", "discard"}
    BY <1>2, Start DEF ForgetActive, DiscardRefusedGrant, Doing, Sound, SoundAt, Begun, Over
<1>4. \/ s = <<"forget">> /\ Tail(s) = <<>>
      \/ s = <<"forget", "discard">> /\ Tail(s) = <<"discard">>
      \/ s = <<"discard">> /\ Tail(s) = <<>>
    BY <1>2, <1>3, CleanupOrder DEF DecidesAt
<1>5. Finished(h) /\ ~Owns(h)
    BY <1>2, <1>3, <1>4, CleanupApart DEF Finished, FinishedAt, Owns, OwnsAt, Over
<1>6. s \in {<<"discard">>, <<"forget", "discard">>} => ~At(Token(h))
    BY <1>2, <1>3 DEF DecidesAt, Discarding, Token
<1>7. UNCHANGED grant
    <2>1. CASE DiscardRefusedGrant(h)
        <3>1. Head(<<"forget">>) = "forget" /\ Head(<<"forget", "discard">>) = "forget"
            OBVIOUS
        <3>2. Head(s) = "discard"
            BY <1>2, <2>1 DEF DiscardRefusedGrant, Doing
        <3>3. ~At(Token(h))
            BY <1>4, <1>6, <3>1, <3>2
        <3> QED BY <2>1, <3>3 DEF DiscardRefusedGrant, At, Token
    <2> QED BY <2>1 DEF ForgetActive
<1>8. UNCHANGED <<lease, spent>> /\ active \ {h} \subseteq active'
    BY DEF ForgetActive, DiscardRefusedGrant
<1>9. \/ pc'[h] = "done" /\ mem'[h] = Fresh
      \/ /\ pc'[h] = "closing" /\ SameTask(h) /\ mem'[h].lease = mem[h].lease
         /\ mem'[h].todo = <<"discard">> /\ s = <<"forget", "discard">>
    <2>1. ProceedWith(h, Tail(s))
        BY <1>2, <1>3 DEF Proceed
    <2>2. \/ pc'[h] = "done" /\ mem'[h] = Fresh
          \/ /\ pc'[h] = "closing" /\ SameTask(h) /\ mem'[h].todo = Tail(s)
             /\ mem'[h].lease = mem[h].lease /\ Tail(s) # <<>>
        BY <1>3, <2>1, ProceedSet, Start
    <2> QED BY <1>4, <2>2
<1>10. SameTask(h) => (At(Token(h))' <=> At(Token(h)))
    BY <1>7 DEF At, Token, SameTask
<1>11. pc'[h] = "done" \/ (pc'[h] = "closing" /\ mem'[h].todo \notin Settling)
    <2>1. <<"discard">> \notin Settling
        BY CleanupApart
    <2> QED BY <1>9, <2>1
<1>12. Steady
    BY <1>1, <1>5, <1>11, SteadyBut DEF Finished, FinishedAt, Over
<1>13. Sound(h)' /\ Finished(h)'
    BY <1>1, <1>3, <1>6, <1>9, <1>10, <1>12, EndingStep
<1>14. KInv'
    BY <1>1, <1>5, <1>7, <1>8, <1>13, ReadStep
<1> QED BY <1>7, <1>14

LEMMA ReleaseDiscarding == Append(Release, "discard") = <<"resolve", "settle", "discard">>
<1>1. Release \in Seq(Cleanup) /\ "discard" \in Cleanup
    BY DEF Release, Cleanup
<1>2. Append(Release, "discard") = Release \o <<"discard">>
    BY <1>1, AppendIsConcat
<1> QED BY <1>2, ReleaseThenDiscard DEF Release

\* The CAS that marks an orphaned send: its token is no longer the grant's.
LEMMA OrphanKept == ASSUME Calm, KInv, NEW h \in Redeemers, MarkOrphan(h) PROVE KInv'
<1>1. Typed' /\ OneEpoch' /\ Ledger' /\ Alone(h)
    BY After DEF Proceeds
<1>2. /\ UNCHANGED <<grant, lease, active>> /\ ~Finished(h) /\ ~Owns(h) /\ Begun(h)
      /\ pc[h] = "orphaned" /\ Discard(h)
    BY DEF MarkOrphan, Finished, FinishedAt, Owns, OwnsAt, Over, Begun
<1>3. PICK u \in Tokens : u = Token(h)
    BY <1>2, Start
<1>4. ~At(u)
    BY <1>2, <1>3, Start DEF Sound, SoundAt, DecidesAt, Token
<1>5. \A t \in Tokens : t # u => spent'[t] = spent[t]
    BY <1>3, SpentElsewhere, Start DEF MarkOrphan, Token
<1>6. /\ pc'[h] = "closing" /\ SameTask(h)
      /\ mem'[h].todo = <<"discard">> /\ mem'[h].lease = mem[h].lease
    BY <1>2, CleanUpSet, Start DEF Discard
<1>7. Finished(h)'
    BY <1>6, CleanupApart DEF Finished, FinishedAt
<1>8. Steady
    BY <1>1, <1>2, SteadyBut
<1>9. Based(mem[h].lease)'
    BY <1>6, <1>8, LeaseRemembered
<1>10. Sound(h)'
    <2>1. ~Owns(h)'
        BY <1>6, CleanupApart DEF Owns, OwnsAt
    <2>2. DecidesAt(pc[h], mem[h])'
        <3>1. <<"discard">> # <<"discard", "resolve", "settle">>
            BY CleanupApart
        <3> QED BY <1>2, <1>3, <1>4, <1>6, <3>1 DEF DecidesAt, SameTask, At, Token
    <2> QED BY <1>6, <1>9, <2>1, <2>2 DEF Sound, SoundAt, SnapshotAt, OwnerAt, Owns
<1>11. ASSUME NEW k \in Redeemers \ {h} PROVE Undisturbed(k)
    BY <1>2, <1>4, <1>5 DEF Undisturbed, At, Lease
<1>12. ASSUME NEW t \in Tokens PROVE TokenSound(t)'
    <2>1. TokenSound(t) /\ Lease(t)' = Lease(t) /\ (At(t)' => At(t) /\ spent'[t] = spent[t])
        BY <1>2, <1>4, <1>5 DEF KInv, Lease, At
    <2>2. \A q \in Redeemers : Owns(q) => Owns(q)' /\ Token(q)' = Token(q)
        BY <1>1, <1>2 DEF Alone, Owns, Token
    <2> QED BY <1>2, <1>8, <2>1, <2>2, TokenStays DEF KInv
<1> QED BY <1>1, <1>8, <1>10, <1>11, <1>12, KeepsAll

\* A redemption that owns its lease writes the records of its token: nobody
\* else owns them, and nobody has read a lease that stands on its commit.
LEMMA OwnerWrites ==
    ASSUME KInv, Typed', OneEpoch', Ledger', NEW h \in Redeemers, Alone(h), Owns(h),
           NEW u \in Tokens, u = Token(h), UNCHANGED <<grant, active>>,
           \A t \in Tokens : t # u => Lease(t)' = Lease(t) /\ spent'[t] = spent[t],
           Owns(h)' \/ Finished(h)',
           Resting(Lease(u)') => Base(Lease(u)') = h,
           TokenSound(u)', Sound(h)'
    PROVE  KInv'
<1>1. Begun(h) /\ ~Finished(h)
    BY DEF Owns, OwnsAt, Begun, Finished, FinishedAt, Over
<1>2. /\ Lease(u).holder = h
      /\ \A k \in Redeemers : Owns(k) /\ Token(k) = u => Lease(u).holder = k
    BY Start DEF Sound, SoundAt, OwnerAt, Owns, Token
<1>3. Steady
    BY <1>1, SteadyBut
<1>4. PICK r : r = Lease(u)'
    OBVIOUS
<1>5. Resting(r) => Base(r) = h
    BY <1>4
<1>6. ASSUME NEW k \in Redeemers \ {h} PROVE Undisturbed(k)
    <2> SUFFICES ASSUME Begun(k), NEW t \in Tokens, t = Token(k)
                 PROVE  /\ Lease(t)' = Lease(t) \/ ~Match(Lease(t)', mem[k].lease)
                        /\ spent'[t] = spent[t] \/ ~Match(Lease(t)', mem[k].lease)
                        /\ Owns(k) => Lease(t)' = Lease(t) /\ spent'[t] = spent[t]
        BY DEF Undisturbed, At
    <2>1. CASE t # u
        BY <2>1
    <2>2. CASE t = u
        <3>1. ~Owns(k)
            BY <1>2, <2>2
        <3>2. Based(mem[k].lease)
            BY Start DEF Sound, SoundAt
        <3>3. ~Match(r, mem[k].lease)
            BY <1>1, <1>5, <3>2, NoneIsFresh DEF Match, Based
        <3> QED BY <1>4, <2>2, <3>1, <3>3
    <2> QED BY <2>1, <2>2
<1>7. ASSUME NEW t \in Tokens, t # u PROVE TokenSound(t)'
    <2>1. /\ TokenSound(t) /\ Lease(t)' = Lease(t)
          /\ (At(t)' => At(t) /\ grant'.tokens = grant.tokens /\ spent'[t] = spent[t])
        BY <1>7 DEF KInv, At
    <2>2. \A q \in Redeemers : Owns(q) /\ Lease(t) # None /\ Lease(t).holder = q
                                   /\ Lease(t).state = "dispatched" =>
                Owns(q)' /\ Token(q)' = Token(q)
        BY <1>7, <2>1 DEF Alone, Owns, Token, TokenSound, Dispatched
    <2> QED BY <1>3, <2>1, <2>2, TokenStays DEF KInv
<1> QED BY <1>3, <1>6, <1>7, KeepsAll

\* Of these, the ones that leave the lease alone.
LEMMA SpentStep ==
    ASSUME KInv, Typed', OneEpoch', Ledger', NEW h \in Redeemers, Alone(h), Owns(h), Owns(h)',
           Token(h)' = Token(h), mem'[h].lease = mem[h].lease,
           UNCHANGED <<grant, lease, active>>,
           \A t \in Tokens : t # Token(h) => spent'[t] = spent[t],
           OwnerAt(h, pc[h], mem[h])', DecidesAt(pc[h], mem[h])'
    PROVE  KInv'
<1>1. Begun(h) /\ ~Finished(h)
    BY DEF Owns, OwnsAt, Begun, Finished, FinishedAt, Over
<1>2. PICK u \in Tokens : u = Token(h)
    BY <1>1, Start
<1>3. Lease(u) # None /\ Lease(u).holder = h /\ Lease(u).state = "dispatched"
    BY <1>2, Start DEF Sound, SoundAt, OwnerAt, Owns, Token
<1>4. \A t \in Tokens : Lease(t)' = Lease(t)
    BY DEF Lease
<1>5. Steady
    BY <1>1, SteadyBut
<1>6. Based(mem[h].lease)'
    BY <1>5, LeaseRemembered
<1>7. SnapshotAt(pc[h], mem[h])'
    BY DEF Owns, OwnsAt, SnapshotAt
<1>8. Sound(h)'
    BY <1>6, <1>7 DEF Sound, SoundAt
<1>9. ~Resting(Lease(u)')
    BY <1>2, <1>3, <1>4 DEF Resting
<1>10. TokenSound(u)'
    <2>1. AtRest(u)'
        BY <1>3, <1>4 DEF AtRest, Resting
    <2>2. Dispatched(u)' /\ Based(Lease(u))'
        BY <1>2, <1>3, <1>4 DEF Dispatched, Based, Resting, Owns, Token
    <2> QED BY <2>1, <2>2 DEF TokenSound
<1> QED BY <1>2, <1>4, <1>8, <1>9, <1>10, OwnerWrites

\* The CAS that takes the spent record. It fails only for a token that is no
\* longer the grant's.
LEMMA SpendKept == ASSUME Calm, KInv, NEW h \in Redeemers, Spend(h) PROVE KInv'
<1>1. Typed' /\ OneEpoch' /\ Ledger' /\ Alone(h)
    BY After DEF Proceeds
<1>2. /\ pc[h] = "spend" /\ Owns(h) /\ Begun(h) /\ UNCHANGED <<grant, lease, active>>
    BY DEF Spend, Owns, OwnsAt, Begun, Over
<1>3. PICK u \in Tokens : u = Token(h)
    BY <1>2, Start
<1>4. PICK m : m = mem[h]
    OBVIOUS
<1>5. OwnerAt(h, "spend", m) /\ m.requested = u
    BY <1>2, <1>3, <1>4, Start DEF Sound, SoundAt, Token
<1>6. \A t \in Tokens : t # u => spent'[t] = spent[t]
    BY <1>3, SpentElsewhere, Start DEF Spend, Token
<1>7. CASE SetSpent(mem[h].requested, Outstanding(h)) /\ Goto(h, "send") /\ UNCHANGED mem
    <2>1. pc'[h] = "send" /\ mem'[h] = m
        BY <1>4, <1>7, GotoMoves, Start
    <2>2. spent'[u] = Sent(h)
        BY <1>4, <1>5, <1>7, Start DEF SetSpent, Typed, TypeOK
    <2>3. OwnerAt(h, "send", m)'
        BY <1>2, <1>5, <2>2 DEF OwnerAt, OwnsAt, Lease, At, Sent
    <2>4. Owns(h)' /\ Token(h)' = Token(h) /\ mem'[h].lease = mem[h].lease
        BY <1>4, <2>1 DEF Owns, OwnsAt, Token
    <2>5. OwnerAt(h, pc[h], mem[h])' /\ DecidesAt(pc[h], mem[h])'
        BY <2>1, <2>3 DEF DecidesAt, OwnerAt
    <2> QED BY <1>1, <1>2, <1>3, <1>6, <2>4, <2>5, SpentStep
<1>8. CASE /\ spent[mem[h].requested] # mem[h].spent
           /\ CleanUp(h, Append(Release, "discard"), "ambiguous", None)
    <2>1. Append(Release, "discard") = <<"resolve", "settle", "discard">>
        BY ReleaseDiscarding
    <2>2. /\ pc'[h] = "closing" /\ SameTask(h) /\ mem'[h].lease = mem[h].lease
          /\ mem'[h].todo = <<"resolve", "settle", "discard">>
        BY <1>8, <2>1, CleanUpSet, Start
    <2>3. ~At(u)
        BY <1>4, <1>5, <1>8 DEF OwnerAt, OwnsAt
    <2>4. <<"resolve", "settle", "discard">> \in Settling
        BY DEF Settling
    <2>5. Owns(h)' /\ Token(h)' = Token(h)
        BY <2>2, <2>4 DEF Owns, OwnsAt, SameTask, Token
    <2>6. PICK n : n = mem'[h]
        OBVIOUS
    <2>7. n.requested = u /\ n.lease = m.lease /\ n.todo = <<"resolve", "settle", "discard">>
        BY <1>4, <1>5, <2>2, <2>6 DEF SameTask
    <2>8. OwnerAt(h, "closing", n)'
        BY <1>2, <1>5, <2>3, <2>7 DEF OwnerAt, OwnsAt, Lease, At
    <2>9. <<"resolve", "settle", "discard">> # <<"discard", "resolve", "settle">>
        OBVIOUS
    <2>10. DecidesAt("closing", n)'
        BY <1>2, <2>3, <2>7, <2>9 DEF DecidesAt, At
    <2>11. OwnerAt(h, pc[h], mem[h])' /\ DecidesAt(pc[h], mem[h])'
        BY <2>2, <2>6, <2>8, <2>10 DEF OwnerAt, DecidesAt
    <2> QED BY <1>1, <1>2, <1>3, <1>6, <2>2, <2>5, <2>11, SpentStep
<1> QED BY <1>7, <1>8 DEF Spend

\* What the cleanup of a redemption that owns its lease starts from.
LEMMA Releasing ==
    ASSUME KInv, NEW h \in Redeemers, pc[h] = "closing", mem[h].todo \in Settling
    PROVE  /\ Owns(h) /\ Begun(h) /\ Token(h) \in Tokens
           /\ LeaseOf(h) = mem[h].lease /\ mem[h].lease \in LeaseRecord
           /\ mem[h].lease.holder = h
           /\ At(Token(h)) =>
                /\ mem[h].todo \notin Discarding
                /\ mem[h].verdict = [resolution |-> "resolved", digest |-> grant.tokens]
                /\ mem[h].todo = Release => spent[Token(h)] = Sent(h)
                /\ mem[h].todo = <<"settle">> => spent[Token(h)] = Resolved(h)
<1>1. Owns(h) /\ Begun(h)
    BY DEF Owns, OwnsAt, Begun, Over
<1>2. /\ OwnerAt(h, "closing", mem[h]) /\ DecidesAt("closing", mem[h]) /\ OwnsAt("closing", mem[h])
    BY Start DEF Sound, SoundAt, OwnsAt
<1>3. Token(h) \in Tokens /\ LeaseOf(h) = Lease(Token(h)) /\ mem[h] \in Memory
    BY <1>1, Start
<1> QED BY <1>1, <1>2, <1>3 DEF OwnerAt, DecidesAt, Token, Memory

\* What is left of a cleanup that goes on.
LEMMA ProceedsTo ==
    ASSUME KInv, NEW h \in Redeemers, pc[h] = "closing", NEW todo \in Todos, ProceedWith(h, todo)
    PROVE  /\ Alone(h) /\ pc'[h] = "closing" /\ SameTask(h) /\ mem'[h].todo = todo
           /\ mem'[h].lease = mem[h].lease /\ mem'[h].verdict = mem[h].verdict
<1>1. todo # <<>>
    BY DEF Todos
<1> QED BY <1>1, ProceedSet, Start

\* The spent record is resolved while the lease still stands.
LEMMA ResolveKept == ASSUME Calm, KInv, NEW h \in Redeemers, ResolveSpent(h) PROVE KInv'
<1>1. Typed' /\ OneEpoch' /\ Ledger' /\ Alone(h)
    BY After DEF Proceeds
<1>2. PICK s \in Todos : s = mem[h].todo
    BY Start DEF ResolveSpent, Doing, PhaseAt
<1>3. /\ pc[h] = "closing" /\ Proceed(h) /\ Head(s) = "resolve" /\ UNCHANGED <<grant, lease, active>>
    BY <1>2 DEF ResolveSpent, Doing
<1>4. \/ s = Release /\ Tail(s) = <<"settle">>
      \/ s = <<"resolve", "settle", "discard">> /\ Tail(s) = <<"settle", "discard">>
    BY <1>3, CleanupOrder
<1>5. s \in Settling /\ Tail(s) \in Todos /\ Tail(s) \in Settling
    BY <1>4 DEF Settling, Release, Todos
<1>6. PICK m : m = mem[h]
    OBVIOUS
<1>7. PICK n : n = mem'[h]
    OBVIOUS
<1>8. /\ Owns(h) /\ Token(h) \in Tokens /\ LeaseOf(h) = mem[h].lease
      /\ OwnerAt(h, "closing", m) /\ OwnsAt("closing", m)
    BY <1>2, <1>3, <1>5, <1>6, Releasing, Start DEF Sound, SoundAt, OwnsAt
<1>9. PICK u \in Tokens : u = Token(h)
    BY <1>8
<1>10. ProceedWith(h, Tail(s))
    BY <1>2, <1>3 DEF Proceed
<1>11. /\ pc'[h] = "closing" /\ SameTask(h) /\ n.todo = Tail(s)
       /\ n.lease = m.lease /\ n.verdict = m.verdict /\ n.requested = u /\ m.requested = u
    BY <1>3, <1>5, <1>6, <1>7, <1>9, <1>10, ProceedsTo DEF SameTask, Token
<1>12. \A t \in Tokens : t # u => spent'[t] = spent[t]
    BY <1>9, SpentElsewhere, Start DEF ResolveSpent, Token
<1>13. At(u) => spent'[u] = Resolved(h) /\ s = Release
       /\ m.verdict = [resolution |-> "resolved", digest |-> grant.tokens]
    <2> SUFFICES ASSUME At(u)
                 PROVE  spent'[u] = Resolved(h) /\ s = Release
                        /\ m.verdict = [resolution |-> "resolved", digest |-> grant.tokens]
        OBVIOUS
    <2>1. /\ s \notin Discarding /\ (s = Release => spent[u] = Sent(h))
          /\ m.verdict = [resolution |-> "resolved", digest |-> grant.tokens]
        BY <1>2, <1>3, <1>5, <1>6, <1>9, Releasing
    <2>2. s = Release /\ spent[u] = Outstanding(h)
        BY <1>4, <2>1, Start DEF Discarding
    <2>3. SetSpent(u, [Outstanding(h) EXCEPT !.state = "resolved"])
        BY <1>6, <1>9, <2>1, <2>2 DEF ResolveSpent, Token
    <2>4. spent'[u] = Resolved(h)
        BY <2>3, Start DEF SetSpent, Typed, TypeOK, Sent, Resolved
    <2> QED BY <2>1, <2>2, <2>4
<1>14. OwnerAt(h, "closing", n)'
    <2>1. Tail(s) # Release
        BY <1>4, CleanupApart DEF Release
    <2> QED BY <1>3, <1>8, <1>11, <1>13, <2>1 DEF OwnerAt, OwnsAt, Lease, At
<1>15. DecidesAt("closing", n)'
    <2>1. Tail(s) # <<"discard", "resolve", "settle">> /\ (At(u) => Tail(s) \notin Discarding)
        <3>1. <<"resolve", "settle", "discard">> \in Discarding
            BY DEF Discarding
        <3>2. At(u) => Tail(s) = <<"settle">>
            BY <1>4, <1>13, <3>1, CleanupApart
        <3> QED BY <1>4, <3>2, CleanupApart
    <2> QED BY <1>3, <1>11, <2>1 DEF DecidesAt, At
<1>16. OwnerAt(h, pc[h], mem[h])' /\ DecidesAt(pc[h], mem[h])' /\ Owns(h)' /\ Token(h)' = Token(h)
       /\ mem'[h].lease = mem[h].lease
    BY <1>5, <1>6, <1>7, <1>9, <1>11, <1>14, <1>15 DEF OwnerAt, DecidesAt, Owns, OwnsAt, Token
<1> QED BY <1>1, <1>3, <1>8, <1>9, <1>12, <1>16, SpentStep

\* The lease is settled: completed by the tokens the answer brought, or dead.
LEMMA SettleKept == ASSUME Calm, KInv, NEW h \in Redeemers, SettleLease(h) PROVE KInv'
<1>1. Typed' /\ OneEpoch' /\ Ledger' /\ Alone(h)
    BY After DEF Proceeds
<1>2. PICK s \in Todos : s = mem[h].todo
    BY Start DEF SettleLease, Doing, PhaseAt
<1>3. /\ pc[h] = "closing" /\ Head(s) = "settle" /\ UNCHANGED <<grant, spent, active>>
    BY <1>2 DEF SettleLease, Doing
<1>4. \/ s = <<"settle">> /\ <<"forget">> \o Tail(s) = <<"forget">>
      \/ s = <<"settle", "discard">> /\ <<"forget">> \o Tail(s) = <<"forget", "discard">>
    BY <1>3, CleanupOrder
<1>5. s \in Settling /\ <<"forget">> \o Tail(s) \in Todos
    BY <1>4 DEF Settling, Todos
<1>6. PICK m \in Memory : m = mem[h]
    BY Start
<1>7. /\ Owns(h) /\ Token(h) \in Tokens /\ LeaseOf(h) = m.lease /\ m.lease \in LeaseRecord
      /\ m.lease.holder = h /\ m.todo = s
    BY <1>2, <1>3, <1>5, <1>6, Releasing
<1>8. PICK u \in Tokens : u = Token(h)
    BY <1>7
<1>9. PICK r : r = [m.lease EXCEPT !.state = IF m.verdict.digest = None THEN "dead" ELSE "completed",
                                   !.digest = m.verdict.digest]
    OBVIOUS
<1>10. SetLease(h, r) /\ ProceedWith(h, <<"forget">> \o Tail(s))
    BY <1>2, <1>6, <1>7, <1>9 DEF SettleLease
<1>11. /\ pc'[h] = "closing" /\ SameTask(h) /\ mem'[h].todo = <<"forget">> \o Tail(s)
       /\ mem'[h].lease = mem[h].lease
    BY <1>3, <1>5, <1>10, ProceedsTo
<1>12. Finished(h)'
    BY <1>4, <1>11, CleanupApart DEF Finished, FinishedAt
<1>13. /\ \A t \in Tokens : t # u => Lease(t)' = Lease(t)
       /\ Lease(u)' = r
    <2>1. 1 \in Epochs /\ lease \in [Epochs -> [Tokens -> LeaseRecord \cup {None}]] /\ mem[h].epoch = 1
        BY BoundsNatural, Start DEF Typed, TypeOK, Epochs
    <2> QED BY <1>8, <1>10, <2>1, LeaseElsewhere DEF SetLease, Lease, Token
<1>14. /\ r # None /\ r.holder = h /\ r.digest = m.verdict.digest
       /\ r.state = IF m.verdict.digest = None THEN "dead" ELSE "completed"
    <2>1. m.verdict.digest \in Held \cup {None}
        BY <1>6 DEF Memory, Verdict
    <2>2. r \in LeaseRecord
        BY <1>7, <1>9, <2>1 DEF LeaseRecord
    <2> QED BY <1>7, <1>9, <2>2, NoneIsFresh DEF LeaseRecord
<1>15. At(u) => m.verdict.digest = grant.tokens /\ s = <<"settle">> /\ spent[u] = Resolved(h)
    <2> SUFFICES ASSUME At(u) PROVE m.verdict.digest = grant.tokens /\ s = <<"settle">> /\ spent[u] = Resolved(h)
        OBVIOUS
    <2>1. /\ s \notin Discarding /\ m.verdict = [resolution |-> "resolved", digest |-> grant.tokens]
          /\ s = <<"settle">> => spent[u] = Resolved(h)
        BY <1>2, <1>3, <1>5, <1>6, <1>8, Releasing
    <2>2. s = <<"settle">>
        BY <1>4, <2>1 DEF Discarding
    <2> QED BY <2>1, <2>2
<1>16. Resting(r) => Base(r) = h
    BY <1>14 DEF Resting, Base, ProvenHolder
<1>17. TokenSound(u)'
    <2>1. AtRest(u)'
        BY <1>3, <1>13, <1>14, <1>15, <1>16, NoneIsFresh DEF AtRest, At
    <2>2. Dispatched(u)'
        BY <1>13, <1>14 DEF Dispatched
    <2>3. Based(Lease(u))'
        BY <1>12, <1>13, <1>14, <1>16 DEF Based
    <2> QED BY <2>1, <2>2, <2>3 DEF TokenSound
<1>18. Sound(h)'
    <2>1. At(Token(h))' => mem'[h].todo = <<"forget">>
        BY <1>3, <1>4, <1>8, <1>11, <1>15 DEF At, Token, SameTask
    <2>2. Steady
        BY <1>1, <1>7, <1>12, SteadyBut DEF Owns, OwnsAt, Finished, FinishedAt
    <2>3. mem'[h].todo \in {<<"discard">>, <<"forget">>, <<"forget", "discard">>}
        BY <1>4, <1>11
    <2> QED BY <1>1, <1>3, <1>11, <2>1, <2>2, <2>3, EndingStep
<1> QED BY <1>1, <1>3, <1>7, <1>8, <1>12, <1>13, <1>16, <1>17, <1>18, OwnerWrites

\* A redemption that has not sent moves a lease that nobody has dispatched: a
\* claim, its return and its dispatch leave the commit it stands on alone.
LEMMA RestingWrites ==
    ASSUME KInv, Typed', OneEpoch', Ledger', NEW h \in Redeemers, Alone(h), ~Owns(h), ~Finished(h),
           NEW u \in Tokens, UNCHANGED <<grant, spent, active>>,
           \A t \in Tokens : t # u => Lease(t)' = Lease(t),
           Resting(Lease(u)),
           At(u) /\ Resting(Lease(u)') => Base(Lease(u)') = Base(Lease(u)),
           TokenSound(u)', Sound(h)'
    PROVE  KInv'
<1>1. Steady
    BY SteadyBut
<1>2. PICK r : r = Lease(u)'
    OBVIOUS
<1>3. At(u) /\ Resting(r) => Base(r) = Base(Lease(u))
    BY <1>2
<1>4. ASSUME NEW k \in Redeemers, Owns(k), Token(k) = u PROVE FALSE
    <2>1. Lease(u) # None /\ Lease(u).state = "dispatched"
        BY <1>4, Start DEF Sound, SoundAt, OwnerAt, Owns, Token
    <2> QED BY <2>1 DEF Resting
<1>5. ASSUME NEW k \in Redeemers \ {h} PROVE Undisturbed(k)
    <2> SUFFICES ASSUME Begun(k), NEW t \in Tokens, t = Token(k)
                 PROVE  /\ At(t) /\ Match(Lease(t)', mem[k].lease) => Match(Lease(t), mem[k].lease)
                        /\ Owns(k) => Lease(t)' = Lease(t)
        BY DEF Undisturbed, At
    <2>1. CASE t # u
        BY <2>1
    <2>2. CASE t = u
        BY <1>2, <1>3, <1>4, <2>2 DEF Match
    <2> QED BY <2>1, <2>2
<1>6. ASSUME NEW t \in Tokens, t # u PROVE TokenSound(t)'
    <2>1. /\ TokenSound(t) /\ Lease(t)' = Lease(t)
          /\ (At(t)' => At(t) /\ grant'.tokens = grant.tokens /\ spent'[t] = spent[t])
        BY <1>6 DEF KInv, At
    <2>2. \A q \in Redeemers : Owns(q) => Owns(q)' /\ Token(q)' = Token(q)
        BY DEF Alone, Owns, Token
    <2> QED BY <1>1, <2>1, <2>2, TokenStays DEF KInv
<1> QED BY <1>1, <1>5, <1>6, KeepsAll

\* Its write at the place of its own token.
LEMMA LeaseAt ==
    ASSUME KInv, NEW h \in Redeemers, NEW u \in Tokens, u = Token(h), NEW r, SetLease(h, r)
    PROVE  /\ \A t \in Tokens : t # u => Lease(t)' = Lease(t)
           /\ Lease(u)' = r
<1>1. 1 \in Epochs /\ lease \in [Epochs -> [Tokens -> LeaseRecord \cup {None}]] /\ mem[h].epoch = 1
    BY BoundsNatural, Start DEF Typed, TypeOK, Epochs
<1> QED BY <1>1, LeaseElsewhere, Start DEF SetLease, Lease, Token

\* A resting lease is replaced by one that stands on the same commit.
LEMMA SameBase ==
    ASSUME KInv, Steady, NEW u \in Tokens, NEW r, NEW n, r = Lease(u), Resting(r),
           Lease(u)' = n, UNCHANGED <<grant, spent>>,
           n # None => n.state \in {"claimed", "completed"},
           Base(n) # None => Base(n) = Base(r),
           At(u) => Base(n) = Base(r) /\ (Base(r) # None => n.digest = r.digest)
    PROVE  TokenSound(u)' /\ Based(n)'
<1>1. TokenSound(u) /\ Resting(n)
    BY DEF KInv, Resting
<1>2. Based(n)'
    <2>1. r \in LeaseRecord \cup {None}
        BY BoundsNatural DEF KInv, Typed, TypeOK, Epochs, Lease
    <2>2. Base(n) # None => Base(n) \in Redeemers /\ Finished(Base(n))
        BY <1>1, <2>1, BaseTyped DEF TokenSound, Based
    <2>3. Base(n) # None => (Finished(Base(n)))'
        <3> SUFFICES ASSUME NEW q \in Redeemers, q = Base(n), Finished(q) PROVE Finished(q)'
            BY <2>2
        <3> QED BY DEF Steady
    <2> QED BY <1>1, <2>3 DEF Based, Resting
<1>3. AtRest(u)'
    BY <1>1, <1>2 DEF TokenSound, AtRest, At, Resting
<1>4. Dispatched(u)'
    BY DEF Dispatched
<1> QED BY <1>2, <1>3, <1>4 DEF TokenSound, Based

LEMMA ClaimKept == ASSUME Calm, KInv, NEW h \in Redeemers, Claim(h) PROVE KInv'
<1>1. Typed' /\ OneEpoch' /\ Ledger' /\ Alone(h)
    BY After DEF Proceeds
<1>2. /\ pc[h] = "claim" /\ ~Owns(h) /\ ~Finished(h) /\ Begun(h) /\ UNCHANGED <<grant, spent, active>>
    BY DEF Claim, Owns, OwnsAt, Finished, FinishedAt, Begun, Over
<1>3. PICK u \in Tokens : u = Token(h)
    BY <1>2, Start
<1>4. PICK m \in Memory : m = mem[h]
    BY Start
<1>5. CASE LeaseOf(h) # mem[h].lease /\ Goto(h, "pollLease") /\ UNCHANGED <<lease, mem>>
    BY <1>1, <1>2, <1>5, GotoMoves, CarelessStep, Start
<1>6. CASE /\ LeaseOf(h) = mem[h].lease /\ SetLease(h, ClaimOf(h))
           /\ mem' = [mem EXCEPT ![h].lease = ClaimOf(h)] /\ Goto(h, "verify")
    <2>1. PICK n : n = ClaimOf(h)
        OBVIOUS
    <2>2. PICK r : r = m.lease
        OBVIOUS
    <2>3. /\ SnapshotAt("claim", m) /\ DecidesAt("claim", m) /\ m.requested = u
          /\ r = Lease(u) /\ AtRest(u)
        BY <1>2, <1>3, <1>4, <1>6, <2>2, Start DEF Sound, SoundAt, TokenSound, Token
    <2>4. Resting(r)
        BY <2>2, <2>3 DEF DecidesAt
    <2>5. /\ n # None /\ n.state = "claimed"
          /\ Committed(r, m.grant.tokens) => n.digest = r.digest /\ n.predecessor = ProvenHolder(r)
          /\ ~Committed(r, m.grant.tokens) => n.predecessor = None
        <3>1. n \in LeaseRecord
            BY <1>2, <2>1, ClaimOfFacts, Start
        <3> QED BY <1>4, <2>1, <2>2, <3>1, NoneIsFresh DEF ClaimOf
    <2>6. Base(n) = IF Committed(r, m.grant.tokens) THEN Base(r) ELSE None
        BY <2>5 DEF Base, ProvenHolder, Committed
    <2>7. At(u) => m.grant.tokens = grant.tokens /\ m.spent = spent[u]
        BY <2>2, <2>3, <2>4 DEF SnapshotAt, Match
    <2>8. At(u) /\ Base(r) # None => Committed(r, m.grant.tokens)
        <3>1. At(u) /\ Base(r) # None => r # None /\ r.digest = m.grant.tokens
            BY <2>3, <2>4, <2>7 DEF AtRest, Base
        <3> QED BY <2>4, <3>1 DEF Committed, Base, ProvenHolder, Resting
    <2>9. At(u) => Base(n) = Base(r) /\ (Base(r) # None => n.digest = r.digest)
        BY <2>5, <2>6, <2>8
    <2>10. (\A t \in Tokens : t # u => Lease(t)' = Lease(t)) /\ Lease(u)' = n
        BY <1>3, <1>6, <2>1, LeaseAt
    <2>11. Steady
        BY <1>1, <1>2, SteadyBut
    <2>12. TokenSound(u)' /\ Based(n)'
        BY <1>2, <2>3, <2>4, <2>5, <2>6, <2>9, <2>10, <2>11, SameBase
    <2>13. PICK v : v = mem'[h]
        OBVIOUS
    <2>14. v.lease = n /\ v.requested = u /\ v.spent = m.spent /\ pc'[h] = "verify"
        <3>1. /\ v.lease = n /\ SameTask(h) /\ v.spent = m.spent
              /\ \A k \in Redeemers \ {h} : mem'[k] = mem[k]
            BY <1>4, <1>6, <2>1, <2>13, LeaseSet, Start
        <3>2. pc'[h] = "verify"
            BY <1>6, <3>1, PcSet, Start
        <3> QED BY <1>3, <2>13, <3>1, <3>2 DEF SameTask, Token
    <2>15. SnapshotAt("verify", v)'
        BY <1>2, <2>7, <2>14 DEF SnapshotAt, At
    <2>16. Sound(h)'
        <3>1. OwnerAt(h, "verify", v)' /\ DecidesAt("verify", v)' /\ Based(v.lease)'
            BY <2>12, <2>14 DEF OwnerAt, OwnsAt, DecidesAt, Based
        <3> QED BY <2>13, <2>14, <2>15, <3>1 DEF Sound, SoundAt
    <2> QED BY <1>1, <1>2, <2>3, <2>4, <2>9, <2>10, <2>12, <2>16, RestingWrites
<1> QED BY <1>5, <1>6 DEF Claim

\* A claim that is given back leaves the proof it replaced.
LEMMA UnclaimKept == ASSUME Calm, KInv, NEW h \in Redeemers, Unclaim(h) PROVE KInv'
<1>1. Typed' /\ OneEpoch' /\ Ledger' /\ Alone(h)
    BY After DEF Proceeds
<1>2. /\ pc[h] = "unclaim" /\ ~Owns(h) /\ ~Finished(h) /\ Begun(h) /\ UNCHANGED <<grant, spent, active>>
      /\ End(h, "done")
    BY DEF Unclaim, Owns, OwnsAt, Finished, FinishedAt, Begun, Over
<1>3. PICK u \in Tokens : u = Token(h)
    BY <1>2, Start
<1>4. PICK r \in LeaseRecord : r = mem[h].lease
    BY <1>2, Start DEF PhaseAt, Memory
<1>5. pc'[h] = "done" /\ mem'[h] = Fresh
    BY <1>2, EndMoves, Start
<1>6. CASE UNCHANGED lease
    BY <1>1, <1>2, <1>5, <1>6, FreshLease, CarelessStep DEF Over
<1>7. CASE LeaseOf(h) = r /\ ~UNCHANGED lease
    <2>1. r = Lease(u) /\ r # None /\ r.state = "claimed"
        BY <1>2, <1>3, <1>4, <1>7, NoneIsFresh, Start DEF PhaseAt
    <2>2. PICK n : n = IF r.predecessor = None THEN None
                       ELSE [r EXCEPT !.holder = r.predecessor, !.state = "completed"]
        OBVIOUS
    <2>3. SetLease(h, n)
        BY <1>4, <1>7, <2>2 DEF Unclaim
    <2>4. /\ r.predecessor = None => n = None
          /\ r.predecessor # None => /\ n.holder = r.predecessor /\ n.state = "completed"
                                     /\ n.digest = r.digest /\ n # None
        <3>1. r.predecessor # None => n \in LeaseRecord
            BY <2>2 DEF LeaseRecord
        <3> QED BY <2>2, <3>1, NoneIsFresh DEF LeaseRecord
    <2>5. Resting(r) /\ Base(n) = Base(r) /\ (Base(r) # None => n.digest = r.digest)
        BY <2>1, <2>4 DEF Resting, Base, ProvenHolder
    <2>6. (\A t \in Tokens : t # u => Lease(t)' = Lease(t)) /\ Lease(u)' = n
        BY <1>3, <2>3, LeaseAt
    <2>7. Steady
        BY <1>1, <1>2, SteadyBut
    <2>8. n # None => n.state \in {"claimed", "completed"}
        BY <2>4
    <2>9. TokenSound(u)' /\ Based(n)'
        BY <1>2, <2>1, <2>5, <2>6, <2>7, <2>8, SameBase
    <2>10. Sound(h)'
        <3>1. Based(mem[h].lease)'
            BY <1>5, <2>7, FreshLease, LeaseRemembered
        <3> QED BY <1>5, <3>1, CarelessNext DEF Over
    <2> QED BY <1>1, <1>2, <2>1, <2>5, <2>6, <2>9, <2>10, RestingWrites
<1> QED BY <1>4, <1>6, <1>7 DEF Unclaim

\* The dispatch, on a spent record that was read of the commit it stands on.
LEMMA DispatchKept == ASSUME Calm, KInv, NEW h \in Redeemers, Dispatch(h) PROVE KInv'
<1>1. Typed' /\ OneEpoch' /\ Ledger' /\ Alone(h)
    BY After DEF Proceeds
<1>2. /\ pc[h] = "dispatch" /\ ~Owns(h) /\ ~Finished(h) /\ Begun(h) /\ UNCHANGED <<grant, spent, active>>
    BY DEF Dispatch, Owns, OwnsAt, Finished, FinishedAt, Begun, Over
<1>3. PICK u \in Tokens : u = Token(h)
    BY <1>2, Start
<1>4. PICK m \in Memory : m = mem[h]
    BY Start
<1>5. CASE LeaseOf(h) # mem[h].lease /\ Goto(h, "unclaim") /\ UNCHANGED <<lease, mem>>
    BY <1>1, <1>2, <1>5, GotoMoves, CarelessStep, Start
<1>6. CASE /\ LeaseOf(h) = mem[h].lease /\ SetLease(h, Sending(h))
           /\ mem' = [mem EXCEPT ![h].lease = Sending(h)] /\ Goto(h, "spend")
    <2>1. PICK n : n = Sending(h)
        OBVIOUS
    <2>2. PICK r \in LeaseRecord : r = m.lease
        BY <1>2, <1>4, Start DEF PhaseAt, Memory
    <2>3. /\ SnapshotAt("dispatch", m) /\ m.requested = u /\ h \in active
          /\ r = Lease(u) /\ r # None /\ r.state = "claimed" /\ r.holder = h
        BY <1>2, <1>3, <1>4, <1>6, <2>2, NoneIsFresh, Start DEF Sound, SoundAt, OwnerAt, PhaseAt, Token
    <2>4. n # None /\ n.holder = h /\ n.state = "dispatched"
        <3>1. n \in LeaseRecord
            BY <1>4, <2>1, <2>2 DEF Sending, LeaseRecord
        <3> QED BY <1>4, <2>1, <2>2, <2>3, <3>1, NoneIsFresh DEF Sending, LeaseRecord
    <2>5. Resting(r) /\ ~Resting(n)
        BY <2>3, <2>4 DEF Resting
    <2>6. At(u) => m.spent = spent[u]
        BY <2>2, <2>3, <2>5 DEF SnapshotAt, Match
    <2>7. (\A t \in Tokens : t # u => Lease(t)' = Lease(t)) /\ Lease(u)' = n
        BY <1>3, <1>6, <2>1, LeaseAt
    <2>8. PICK v : v = mem'[h]
        OBVIOUS
    <2>9. v.lease = n /\ v.requested = u /\ v.spent = m.spent /\ pc'[h] = "spend"
        <3>1. /\ v.lease = n /\ SameTask(h) /\ v.spent = m.spent
              /\ \A k \in Redeemers \ {h} : mem'[k] = mem[k]
            BY <1>4, <1>6, <2>1, <2>8, LeaseSet, Start
        <3>2. pc'[h] = "spend"
            BY <1>6, <3>1, PcSet, Start
        <3> QED BY <1>3, <2>8, <3>1, <3>2 DEF SameTask, Token
    <2>10. Owns(h)' /\ Token(h)' = u
        BY <2>8, <2>9 DEF Owns, OwnsAt, Token
    <2>11. Based(n)'
        BY <2>4, <2>5, <2>10 DEF Based, Resting
    <2>12. TokenSound(u)'
        BY <2>4, <2>5, <2>7, <2>10, <2>11 DEF TokenSound, AtRest, Dispatched, Based, Resting
    <2>13. Sound(h)'
        <3>1. OwnerAt(h, "spend", v)'
            BY <1>2, <2>3, <2>4, <2>6, <2>7, <2>9 DEF OwnerAt, OwnsAt, At
        <3>2. SnapshotAt("spend", v)' /\ DecidesAt("spend", v)' /\ Based(v.lease)'
            BY <2>9, <2>11 DEF SnapshotAt, DecidesAt, Based
        <3> QED BY <2>8, <2>9, <3>1, <3>2 DEF Sound, SoundAt
    <2> QED BY <1>1, <1>2, <2>3, <2>5, <2>7, <2>12, <2>13, RestingWrites
<1> QED BY <1>5, <1>6 DEF Dispatch

\* A token that no redemption has anything to do with comes into the grant.
LEMMA PristineSound ==
    ASSUME NEW t \in Tokens, Lease(t)' = None, spent'[t] = None
    PROVE  TokenSound(t)'
BY DEF TokenSound, AtRest, Dispatched, Based, Resting, Base

\* The answer is stored over the token it was sent with: whoever else redeems
\* this token has read an older one, and nobody redeems the new one yet.
LEMMA StoreKept == ASSUME Calm, KInv, NEW h \in Redeemers, Store(h) PROVE KInv'
<1>1. Typed' /\ OneEpoch' /\ Ledger' /\ Alone(h)
    BY After DEF Proceeds
<1>2. /\ pc[h] = "store" /\ pc'[h] = "closing" /\ SameTask(h)
      /\ mem'[h].todo = Release /\ mem'[h].lease = mem[h].lease
      /\ UNCHANGED <<lease, spent, active, consent, responses>>
      /\ mem[h].got \in Held /\ Token(h) \in Tokens
      /\ \/ /\ At(Token(h)) /\ grant' = [grant EXCEPT !.tokens = mem[h].got]
            /\ mem'[h].verdict = [resolution |-> "resolved", digest |-> mem[h].got]
         \/ ~At(Token(h)) /\ UNCHANGED grant
    BY StoreEffect, Start
<1>3. PICK u \in Tokens : u = Token(h)
    BY <1>2
<1>4. PICK m : m = mem[h]
    OBVIOUS
<1>5. PICK n : n = mem'[h]
    OBVIOUS
<1>6. /\ n.requested = u /\ m.requested = u /\ n.lease = m.lease /\ n.todo = Release
    BY <1>2, <1>3, <1>4, <1>5 DEF SameTask, Token
<1>7. Owns(h) /\ Begun(h) /\ ~Finished(h) /\ OwnerAt(h, "store", m) /\ Pending(h)
    BY <1>2, <1>4, Start DEF Owns, OwnsAt, Begun, Finished, FinishedAt, Over, Sound, SoundAt, Ledger
<1>8. OwnsAt("closing", n) /\ Owns(h)' /\ Token(h)' = Token(h)
    <2>1. Release \in Settling
        BY DEF Release, Settling
    <2> QED BY <1>2, <1>3, <1>5, <1>6, <2>1 DEF Owns, OwnsAt, Token
<1>9. Steady
    BY <1>1, <1>7, <1>8, SteadyBut
<1>10. Based(mem[h].lease)'
    BY <1>2, <1>9, LeaseRemembered
<1>11. SnapshotAt("closing", n)' /\ DecidesAt("closing", n)'
    <2>1. Release # <<"discard", "resolve", "settle">> /\ Release \notin Discarding
        BY CleanupApart
    <2> QED BY <1>6, <2>1 DEF SnapshotAt, DecidesAt
<1>12. ASSUME OwnerAt(h, "closing", n)' PROVE Sound(h)'
    BY <1>2, <1>5, <1>10, <1>11, <1>12 DEF Sound, SoundAt, Based
<1>13. CASE ~At(u) /\ UNCHANGED grant
    <2>1. OwnerAt(h, "closing", n)'
        BY <1>2, <1>6, <1>7, <1>13 DEF OwnerAt, OwnsAt, Lease, At
    <2> QED BY <1>1, <1>2, <1>7, <1>8, <1>12, <1>13, <2>1, ReadStep
<1>14. CASE /\ At(u) /\ grant' = [grant EXCEPT !.tokens = m.got]
            /\ n.verdict = [resolution |-> "resolved", digest |-> m.got]
    <2>1. grant'.tokens = m.got /\ m.got # None
        BY <1>2, <1>4, <1>14, NoneIsFresh, TokensTyped, Start DEF Grant
    <2>2. PICK g \in Tokens : g = m.got.refresh
        BY <1>2, <1>4 DEF Held
    <2>3. \A t : At(t)' <=> t = g
        BY <2>1, <2>2 DEF At
    <2>4. Lease(u) # None /\ Lease(u).holder = h /\ Lease(u).state = "dispatched"
        BY <1>6, <1>7 DEF OwnerAt, OwnsAt
    <2>5. g # u => Pristine(g)
        BY <1>2, <1>3, <1>4, <1>7, <2>2 DEF Pending, Pristine, At
    <2>6. \A k \in Redeemers : Begun(k) => m.got.access # mem[k].basis.access
        BY <1>2, <1>4, <1>7 DEF Pending
    <2>7. \A t \in Tokens : Lease(t)' = Lease(t) /\ spent'[t] = spent[t]
        BY <1>2 DEF Lease
    <2>8. ASSUME NEW k \in Redeemers \ {h} PROVE Undisturbed(k)
        <3> SUFFICES ASSUME Begun(k), NEW t \in Tokens, t = Token(k)
                     PROVE  /\ At(t)' => At(t) /\ grant'.tokens.access # mem[k].basis.access
                                         /\ ~Match(Lease(t)', mem[k].lease) /\ ~Owns(k)
            BY <1>2, <2>7 DEF Undisturbed
        <3> SUFFICES ASSUME t = g
                     PROVE  At(t) /\ grant'.tokens.access # mem[k].basis.access
                            /\ ~Match(Lease(t)', mem[k].lease) /\ ~Owns(k)
            BY <2>3
        <3>1. t = u
            BY <2>5 DEF Pristine
        <3>2. ~Owns(k)
            <4>1. Owns(k) => Lease(Token(k)).holder = k
                BY Start DEF Sound, SoundAt, OwnerAt, Owns, Token
            <4> QED BY <2>4, <3>1, <4>1
        <3>3. ~Match(Lease(t)', mem[k].lease)
            BY <2>4, <2>7, <3>1 DEF Match, Resting
        <3> QED BY <1>14, <2>1, <2>6, <3>1, <3>2, <3>3
    <2>9. ASSUME NEW t \in Tokens PROVE TokenSound(t)'
        <3>1. CASE t = u
            <4>1. AtRest(u)'
                BY <2>4, <2>7 DEF AtRest, Resting
            <4>2. Dispatched(u)' /\ Based(Lease(u))'
                BY <1>3, <1>8, <2>4, <2>7 DEF Dispatched, Based, Resting, Owns, Token
            <4> QED BY <3>1, <4>1, <4>2 DEF TokenSound
        <3>2. CASE t # u /\ t = g
            BY <2>5, <2>7, <3>2, PristineSound DEF Pristine, Untouched
        <3>3. CASE t # u /\ t # g
            <4>1. \A q \in Redeemers : Owns(q) => Owns(q)' /\ Token(q)' = Token(q)
                BY <1>1, <1>8 DEF Alone, Owns, Token
            <4>2. TokenSound(t)
                BY DEF KInv
            <4>3. ~At(t)'
                BY <2>3, <3>3
            <4> QED BY <1>9, <2>7, <4>1, <4>2, <4>3, TokenStays, Start
        <3> QED BY <3>1, <3>2, <3>3
    <2>10. OwnerAt(h, "closing", n)'
        <3>1. spent[u] = Sent(h)
            BY <1>6, <1>7, <1>14 DEF OwnerAt, OwnsAt
        <3>2. Release # <<"settle">>
            BY CleanupApart
        <3> QED BY <1>2, <1>6, <1>7, <1>14, <2>1, <2>7, <3>1, <3>2 DEF OwnerAt, OwnsAt, Sent
    <2> QED BY <1>1, <1>9, <1>12, <2>8, <2>9, <2>10, KeepsAll
<1> QED BY <1>2, <1>3, <1>4, <1>5, <1>13, <1>14

-----------------------------------------------------------------------------
(* Steps of no redemption. *)

LEMMA KeepsElsewhere ==
    ASSUME KInv, Typed', OneEpoch', Ledger', UNCHANGED <<pc, mem>>,
           \A k \in Redeemers : Undisturbed(k), \A t \in Tokens : TokenSound(t)'
    PROVE  KInv'
<1>1. Steady
    BY DEF Steady, Owns, Finished
<1>2. \A k \in Redeemers : Sound(k)'
    BY <1>1, SoundStays DEF KInv
<1> QED BY <1>2 DEF KInv

\* The clocks: only the liveness key of a redemption that is over runs out.
LEMMA ClocksKept ==
    ASSUME KInv, Typed', Ledger', UNCHANGED <<grant, lease, spent, pc, mem>>,
           \A k \in Redeemers : Begun(k) /\ k \in active => k \in active'
    PROVE  KInv'
<1>1. OneEpoch'
    BY DEF KInv, OneEpoch
<1>2. ASSUME NEW k \in Redeemers PROVE Undisturbed(k)
    BY DEF Undisturbed, At, Lease
<1>3. ASSUME NEW t \in Tokens PROVE TokenSound(t)'
    <2>1. TokenSound(t)
        BY DEF KInv
    <2>2. \A q \in Redeemers : (Owns(q) <=> Owns(q)') /\ (Finished(q) <=> Finished(q)') /\ Token(q)' = Token(q)
        BY DEF Owns, Finished, Token
    <2>3. Steady
        BY <2>2 DEF Steady
    <2>4. Lease(t)' = Lease(t) /\ (At(t)' => At(t))
        BY DEF Lease, At
    <2> QED BY <2>1, <2>2, <2>3, <2>4, TokenStays DEF KInv
<1> QED BY <1>1, <1>2, <1>3, KeepsElsewhere

\* The tokens of a consent are new to every redemption.
LEMMA SaveKept == ASSUME Calm, KInv, SaveTokens PROVE KInv'
<1>1. Typed'
    BY NextTyped DEF KInv, Next
<1>2. /\ Ledger' /\ UNCHANGED <<lease, spent, active, pc, mem>>
      /\ grant'.epoch = grant.epoch /\ consent # None
      /\ grant'.tokens # grant.tokens => grant'.tokens = consent.tokens
    BY SaveLedger DEF KInv
<1>3. CASE UNCHANGED grant
    BY <1>1, <1>2, <1>3, ClocksKept
<1>4. CASE grant'.tokens = consent.tokens
    <2>1. OneEpoch'
        BY <1>2 DEF KInv, OneEpoch
    <2>2. consent.tokens \in Held /\ Pristine(consent.tokens.refresh)
        BY <1>2, TokensTyped DEF KInv, Ledger
    <2>3. PICK g \in Tokens : g = consent.tokens.refresh
        BY <2>2 DEF Held
    <2>4. Pristine(g) /\ \A t : At(t)' => t = g
        BY <1>4, <2>2, <2>3 DEF At
    <2>5. \A t \in Tokens : Lease(t)' = Lease(t) /\ spent'[t] = spent[t]
        BY <1>2 DEF Lease
    <2>6. ASSUME NEW k \in Redeemers PROVE Undisturbed(k)
        BY <1>2, <2>4, <2>5 DEF Undisturbed, Pristine
    <2>7. ASSUME NEW t \in Tokens PROVE TokenSound(t)'
        <3>1. CASE t = g
            BY <2>4, <2>5, <3>1, PristineSound DEF Pristine, Untouched
        <3>2. CASE t # g
            <4>1. \A q \in Redeemers : (Owns(q) <=> Owns(q)') /\ (Finished(q) <=> Finished(q)') /\ Token(q)' = Token(q)
                BY <1>2 DEF Owns, Finished, Token
            <4>2. Steady
                BY <4>1 DEF Steady
            <4>3. TokenSound(t) /\ ~At(t)'
                BY <2>4, <3>2 DEF KInv
            <4> QED BY <2>5, <4>1, <4>2, <4>3, TokenStays DEF KInv
        <3> QED BY <3>1, <3>2
    <2> QED BY <1>1, <1>2, <2>1, <2>6, <2>7, KeepsElsewhere
<1>5. CASE grant' = [grant EXCEPT !.tokens = consent.tokens, !.consent = consent.receipt]
    <2>1. grant'.tokens = consent.tokens
        BY <1>5, TokensTyped DEF KInv, Grant
    <2> QED BY <1>4, <2>1
<1> QED BY <1>3, <1>5 DEF SaveTokens

LEMMA ElsewhereKept ==
    ASSUME Calm, KInv,
           \/ \E h \in Redeemers : Crash(h) \/ Expires(h)
           \/ PerformReset \/ SweepRefreshLeases \/ ExchangeAnswered \/ RecordCodeExchangeTokens
           \/ UNCHANGED vars
    PROVE  KInv'
<1>1. Typed'
    BY NextTyped DEF KInv, Next
<1>2. ASSUME UNCHANGED <<grant, lease, spent, pc, mem, responses>>,
             consent' # None => consent # None /\ consent'.tokens = consent.tokens,
             \A k \in Redeemers : Begun(k) /\ k \in active => k \in active'
      PROVE  KInv'
    <2>1. Plain
        BY <1>2 DEF Plain, Lease, Begun
    <2>2. Ledger'
        BY <2>1, PlainKeeps DEF KInv
    <2> QED BY <1>1, <1>2, <2>2, ClocksKept
<1>3. CASE \E h \in Redeemers : Expires(h)
    <2>1. PICK h \in Redeemers : Expires(h)
        BY <1>3
    <2>2. \A k \in Redeemers : Begun(k) /\ k \in active => k \in active'
        BY <2>1 DEF Expires, ActiveExpires, ClaimExpires, Begun, Calm
    <2>3. UNCHANGED <<grant, lease, spent, pc, mem, responses, consent>>
        BY <2>1 DEF Expires, ActiveExpires, ClaimExpires, consenting, history
    <2> QED BY <1>2, <2>2, <2>3
<1>4. CASE ExchangeAnswered
    <2>1. Ledger' /\ UNCHANGED <<grant, lease, spent, active, pc, mem>>
        BY <1>4, ExchangeLedger DEF KInv
    <2> QED BY <1>1, <2>1, ClocksKept
<1>5. CASE RecordCodeExchangeTokens
    <2>1. PICK receipt : consent' = [consent EXCEPT !.observed = TRUE, !.receipt = receipt]
        BY <1>5 DEF RecordCodeExchangeTokens
    <2>2. consent # None
        BY <1>5 DEF RecordCodeExchangeTokens
    <2>3. consent'.tokens = consent.tokens
        BY <2>1, <2>2 DEF KInv, Typed, TypeOK
    <2>4. UNCHANGED <<grant, lease, spent, active, pc, mem, responses>>
        BY <1>5 DEF RecordCodeExchangeTokens, storage, history
    <2> QED BY <1>2, <2>2, <2>3, <2>4
<1>6. CASE UNCHANGED vars
    BY <1>2, <1>6 DEF vars, storage, consenting, history
<1>7. ~SweepRefreshLeases
    BY BoundsNatural DEF SweepRefreshLeases, KInv, OneEpoch, Epochs
<1>8. ~PerformReset /\ \A h \in Redeemers : ~Crash(h)
    BY DEF Calm, PerformReset, Crash
<1> QED BY <1>3, <1>4, <1>5, <1>6, <1>7, <1>8

-----------------------------------------------------------------------------
(* The invariant, and what follows from it. *)

LEMMA InitKept == Init => KInv
<1> SUFFICES ASSUME Init PROVE KInv
    OBVIOUS
<1>1. Typed
    BY InitTyped
<1>2. /\ Fresh.epoch = 1 /\ Fresh.sendEpoch = 1 /\ Fresh.basis.epoch = 1 /\ Fresh.lease = None
    BY DEF Fresh
<1>3. OneEpoch
    BY <1>2 DEF Init, OneEpoch
<1>4. \A t \in Tokens : Lease(t) = None /\ spent[t] = None
    BY BoundsNatural DEF Init, Lease, Epochs
<1>5. grant.tokens = None /\ consent = None
    BY DEF Init
<1>6. \A h \in Redeemers : pc[h] = "idle" /\ mem[h].lease = None
    BY <1>2 DEF Init
<1>7. Ledger
    BY <1>4, <1>5, <1>6 DEF Ledger, Untouched, Begun, Pending
<1>8. \A t \in Tokens : TokenSound(t)
    BY <1>4, <1>5 DEF TokenSound, AtRest, At, Dispatched, Based, Resting, Base
<1>9. ASSUME NEW h \in Redeemers PROVE Sound(h)
    <2>1. Based(None)
        BY DEF Based, Base, Resting
    <2> QED BY <1>6, <2>1, Careless DEF Sound
<1> QED BY <1>1, <1>3, <1>7, <1>8, <1>9 DEF KInv

LEMMA NextKept ==
    ASSUME Calm, KInv, [Next]_vars
    PROVE  KInv' /\ (grant.tokens # None => grant'.tokens # None)
<1>1. ASSUME NEW h \in Redeemers, Proceeds(h)
      PROVE  KInv' /\ (grant.tokens # None => grant'.tokens # None)
    <2>1. KInv'
        BY <1>1, FlowEpochKept, PollLeaseKept, PollGrantKept, PollSpentKept, LivenessKept, VanishedKept,
           RecheckKept, OrphanKept, ClaimKept, VerifyKept, UnclaimKept, ActivateKept, DispatchKept,
           SpendKept, SendKept, StoreKept, ResolveKept, SettleKept, EndingKept DEF Proceeds
    <2>2. CASE DiscardRefusedGrant(h)
        BY <2>1, <2>2, EndingKept
    <2>3. CASE Store(h)
        <3>1. grant' = grant \/ (grant' = [grant EXCEPT !.tokens = mem[h].got] /\ mem[h].got \in Held)
            BY <2>3, StoreEffect, Start
        <3>2. grant \in Grant
            BY TokensTyped, Start
        <3>3. grant' = grant \/ grant'.tokens # None
            BY <3>1, <3>2, NoneIsFresh DEF Grant
        <3> QED BY <2>1, <3>3
    <2>4. CASE ~DiscardRefusedGrant(h) /\ ~Store(h)
        <3>1. UNCHANGED grant
            BY <1>1, <2>4 DEF Proceeds, FlowEpoch, StoredTokens, PollLease, PollGrant, PollSpent,
               ReadLiveness, Condemn, ResolveVanished, Recheck, ReadOrphan, MarkOrphan, Claim, Verify,
               Unclaim, Activate, Dispatch, Spend, Send, Accepted, ResolveSpent, SettleLease,
               ForgetActive, storage
        <3> QED BY <2>1, <3>1
    <2> QED BY <2>2, <2>3, <2>4
<1>2. ASSUME NEW h \in Redeemers, ReadTokens(h)
      PROVE  KInv' /\ (grant.tokens # None => grant'.tokens # None)
    <2>1. KInv' /\ UNCHANGED grant
        BY <1>2, ReadTokensKept DEF ReadTokens, storage
    <2> QED BY <2>1
<1>3. CASE SaveTokens
    <2>1. KInv'
        BY <1>3, SaveKept
    <2>2. consent # None /\ (grant'.tokens # grant.tokens => grant'.tokens = consent.tokens)
        BY <1>3, SaveLedger DEF KInv
    <2>3. consent.tokens # None
        BY <2>2, TokensTyped, NoneIsFresh DEF KInv
    <2> QED BY <2>1, <2>2, <2>3
<1>4. CASE \/ \E h \in Redeemers : Crash(h) \/ Expires(h)
           \/ PerformReset \/ SweepRefreshLeases \/ ExchangeAnswered \/ RecordCodeExchangeTokens
           \/ UNCHANGED vars
    <2>1. KInv'
        BY <1>4, ElsewhereKept
    <2>2. UNCHANGED grant
        BY <1>4 DEF Calm, Crash, Expires, ActiveExpires, ClaimExpires, PerformReset, SweepRefreshLeases,
                    ExchangeAnswered, RecordCodeExchangeTokens, vars, storage
    <2> QED BY <2>1, <2>2
<1> QED BY <1>1, <1>2, <1>3, <1>4, CalmWorks DEF Next

\* Where nothing fails but the clocks, however many isolates race for however
\* many tokens and consents, claimRefresh() discards no grant that another
\* redemption or saveTokens() committed.
THEOREM GrantKeptHolds == ASSUME Calm PROVE Spec => GrantKept
<1>1. Init => KInv
    BY InitKept
<1>2. KInv /\ [Next]_vars => KInv'
    BY NextKept
<1>3. KInv /\ [Next]_vars => [grant.tokens # None => grant'.tokens # None]_vars
    BY NextKept
<1> QED BY <1>1, <1>2, <1>3, PTL DEF Spec, GrantKept
=============================================================================
