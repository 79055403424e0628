------------------------- MODULE RemoteConnectionProofs -------------------------
(***************************************************************************)
(* Proofs about RemoteConnection for any finite set of calls, either kind  *)
(* of connector and any number of replacements: every session the server   *)
(* issued is somebody's to end, one attempt holds the one open lease, the  *)
(* cached client can be used, and no call is handed a client of a past     *)
(* credential or epoch.                                                    *)
(*                                                                         *)
(* Lemmas about the functions of ConnectionState, with the connection as a *)
(* parameter, say that they keep it Sound and what they leave alone of the *)
(* attempts (Keeps, Advances); the calls depend on that only.              *)
(***************************************************************************)
EXTENDS RemoteConnection, FiniteSetTheorems, TLAPS

Runs(s, a) == s.att[a].pc \notin {"unused", "ready", "failed"}

\* The lease, the client and the published attempt of a connection agree. A
\* client without a lease is left only by a verdict that could not be stored.
Sound(s) ==
    /\ s \in Connection
    /\ \A a \in Attempts : s.att[a].lease = "open" <=> s.lease = a
    /\ s.connecting # None => s.lease = s.connecting /\ Runs(s, s.connecting)
    /\ s.lease # None =>
         \/ s.lease = s.connecting
         \/ s.lease = s.client /\ s.att[s.lease].pc = "ready"
    /\ s.client # None =>
         /\ s.att[s.client].pc \in {"store", "ready", "failed"}
         /\ s.lease = s.client \/ (s.lease = None /\ s.att[s.client].pc = "failed")
    /\ s.connecting # None /\ s.att[s.connecting].pc = "store" => s.client = s.connecting
    /\ s.closed => s.lease = None /\ s.client = None
    /\ \A a \in Attempts : s.att[a].session = "open" => s.lease = a \/ Runs(s, a)

\* What the connection says it is bound to is what its attempt is bound to.
BoundTo(s) ==
    /\ s.client # None => s.generation = s.att[s.client].bound
    /\ mode = "credential" /\ Connected(s) # None => s.digest = s.att[Connected(s)].bound
    /\ \A a \in Attempts : s.att[a].pc = "begin" => mode = "oauth"
    /\ \A a \in Attempts : s.att[a].bound <= live

\* What a call has read or joined is no older than the call.
CallSound(s, k) ==
    /\ k.joined # None => s.att[k.joined].pc # "unused"
    /\ k.pc = "waiting" =>
         /\ k.joined # None
         /\ \/ mode = "oauth" /\ k.shared
            \/ s.att[k.joined].pc \in {"begin", "failed"}
            \/ k.since <= s.att[k.joined].bound
    /\ k.pc \in {"idle", "holding", "over"} => k.joined = None
    /\ k.since <= live /\ k.seen <= live
    /\ k.pc \in {"epochSeen", "digest", "reread"} => k.since <= k.seen
    /\ k.pc \in {"epoch", "epochSeen"} => mode = "oauth"
    /\ k.pc \in {"credential", "digest", "reread"} => mode = "credential"
    /\ k.pc = "holding" => ~k.stale \/ (mode = "oauth" /\ k.shared)

Used(s) == {a \in Attempts : s.att[a].pc # "unused"}
JoinedTo(p, a) == {c \in Callers : p[c].joined = a}

\* Calls that have done all they may do to start an attempt.
Placed(p) == {c \in Callers : p[c].pc \in {"waiting", "holding", "over"}}

\* The waiters of an attempt are counted, and an attempt is left for every call
\* that may start one.
CallsSound(s, p) ==
    /\ p \in [Callers -> Call]
    /\ \A a \in Attempts : s.waiters[a] = Cardinality(JoinedTo(p, a))
    /\ Cardinality(Used(s)) <= Cardinality(Placed(p))
    /\ \A c \in Callers : CallSound(s, p[c])

\* The inductive invariant.
IInv == TypeOK /\ Sound(conn) /\ BoundTo(conn) /\ CallsSound(conn, call)

-----------------------------------------------------------------------------
(* What a step may do to the attempts that calls have joined. *)

Keeps(s, t) ==
    /\ t.closed = s.closed
    /\ \A a \in Attempts : t.att[a].pc = s.att[a].pc /\ t.att[a].bound = s.att[a].bound

\* An attempt in use stays so, binds itself to what is stored at that moment
\* and once failed remains so.
Advances(s, t) ==
    \A a \in Attempts : s.att[a].pc # "unused" =>
        /\ t.att[a].pc # "unused"
        /\ t.att[a].bound = s.att[a].bound \/ t.att[a].bound = live
        /\ s.att[a].pc = "failed" => t.att[a].pc = "failed"
        /\ s.att[a].pc = "begin" => t.att[a].pc \in {"begin", "failed"} \/ t.att[a].bound = live

LEMMA NumbersFresh == None \notin Attempts /\ None \notin Versions /\ Cardinality(Callers) \in Nat
BY NoneIsFresh, CallersFinite, FS_CardinalityType DEF Attempts, Versions

LEMMA KeepsAdvances ==
    ASSUME NEW s, NEW t, Keeps(s, t) PROVE Advances(s, t) /\ Used(t) = Used(s)
BY DEF Keeps, Advances, Used

LEMMA AdvancesOn ==
    ASSUME NEW s, NEW t, NEW u, Advances(s, t), Advances(t, u) PROVE Advances(s, u)
BY DEF Advances

LEMMA CallKept ==
    ASSUME NEW s \in Connection, NEW t, NEW k \in Call, Advances(s, t), CallSound(s, k)
    PROVE  CallSound(t, k)
<1>1. k.joined \in Attempts \cup {None}
    BY DEF Call
<1>2. k.joined # None => s.att[k.joined].pc # "unused" /\ t.att[k.joined].pc # "unused"
    BY <1>1 DEF CallSound, Advances
<1>3. ASSUME k.pc = "waiting", ~(mode = "oauth" /\ k.shared)
      PROVE  t.att[k.joined].pc \in {"begin", "failed"} \/ k.since <= t.att[k.joined].bound
    <2>1. /\ k.joined \in Attempts /\ s.att[k.joined].pc # "unused" /\ k.since <= live
          /\ s.att[k.joined].pc \in {"begin", "failed"} \/ k.since <= s.att[k.joined].bound
        BY <1>1, <1>2, <1>3 DEF CallSound
    <2> QED BY <2>1 DEF Advances
<1> QED BY <1>2, <1>3 DEF CallSound

-----------------------------------------------------------------------------
(* The functions of ConnectionState. *)

\* The end of a session or of a lease touches nothing else.
LEMMA EndSessionFacts ==
    ASSUME NEW s \in Connection, NEW a \in Attempts, NEW t, t = EndSession(s, a)
    PROVE  /\ t \in Connection /\ Keeps(s, t)
           /\ t.lease = s.lease /\ t.client = s.client /\ t.connecting = s.connecting
           /\ t.generation = s.generation /\ t.digest = s.digest /\ t.waiters = s.waiters
           /\ \A b \in Attempts :
                /\ t.att[b].lease = s.att[b].lease
                /\ t.att[b].session = "open" <=> s.att[b].session = "open" /\ b # a
<1> DEFINE r == [s.att[a] EXCEPT !.session = IF @ = "open" THEN "ended" ELSE @]
<1>1. s.att \in [Attempts -> Attempt]
    BY DEF Connection
<1>2. r \in Attempt /\ r.session # "open" /\ r.pc = s.att[a].pc /\ r.bound = s.att[a].bound /\ r.lease = s.att[a].lease
    BY <1>1 DEF Attempt
<1>3. t = [s EXCEPT !.att = [s.att EXCEPT ![a] = r]]
    BY DEF EndSession
<1> HIDE DEF r
<1>4. [s.att EXCEPT ![a] = r] \in [Attempts -> Attempt]
    BY <1>1, <1>2
<1>5. /\ t \in Connection /\ t.att = [s.att EXCEPT ![a] = r]
      /\ t.lease = s.lease /\ t.client = s.client /\ t.connecting = s.connecting
      /\ t.generation = s.generation /\ t.digest = s.digest /\ t.waiters = s.waiters /\ t.closed = s.closed
    BY <1>3, <1>4 DEF Connection
<1>6. \A b \in Attempts : t.att[b] = IF b = a THEN r ELSE s.att[b]
    BY <1>1, <1>5
<1> QED BY <1>2, <1>5, <1>6 DEF Keeps

LEMMA CloseLeaseFacts ==
    ASSUME NEW s \in Connection, NEW a \in Attempts, NEW t, t = CloseLease(s, a)
    PROVE  /\ t \in Connection /\ Keeps(s, t)
           /\ t.lease = s.lease /\ t.client = s.client /\ t.connecting = s.connecting
           /\ t.generation = s.generation /\ t.digest = s.digest /\ t.waiters = s.waiters
           /\ \A b \in Attempts :
                /\ t.att[b].lease = "open" <=> s.att[b].lease = "open" /\ b # a
                /\ t.att[b].session = "open" <=>
                     s.att[b].session = "open" /\ ~(b = a /\ s.att[a].lease = "open")
<1>1. CASE s.att[a].lease # "open"
    BY <1>1 DEF CloseLease, Keeps
<1>2. CASE s.att[a].lease = "open"
    <2> DEFINE r == [s.att[a] EXCEPT !.lease = "closed"]
    <2>0. PICK u : u = [s EXCEPT !.att = [s.att EXCEPT ![a] = r]]
        OBVIOUS
    <2>1. s.att \in [Attempts -> Attempt]
        BY DEF Connection
    <2>2. /\ r \in Attempt /\ r.lease = "closed" /\ r.pc = s.att[a].pc /\ r.bound = s.att[a].bound
          /\ r.session = s.att[a].session
        BY <2>1 DEF Attempt
    <2>3. t = EndSession(u, a)
        <3>1. u = [s EXCEPT !.att[a].lease = "closed"]
            BY <2>0
        <3> QED BY <1>2, <3>1 DEF CloseLease
    <2> HIDE DEF r
    <2>4. [s.att EXCEPT ![a] = r] \in [Attempts -> Attempt]
        BY <2>1, <2>2
    <2>5. /\ u \in Connection /\ u.att = [s.att EXCEPT ![a] = r]
          /\ u.lease = s.lease /\ u.client = s.client /\ u.connecting = s.connecting
          /\ u.generation = s.generation /\ u.digest = s.digest /\ u.waiters = s.waiters /\ u.closed = s.closed
        BY <2>0, <2>4 DEF Connection
    <2>6. \A b \in Attempts : u.att[b] = IF b = a THEN r ELSE s.att[b]
        BY <2>1, <2>5
    <2>7. /\ t \in Connection /\ Keeps(u, t)
          /\ t.lease = u.lease /\ t.client = u.client /\ t.connecting = u.connecting
          /\ t.generation = u.generation /\ t.digest = u.digest /\ t.waiters = u.waiters
          /\ \A b \in Attempts :
               /\ t.att[b].lease = u.att[b].lease
               /\ t.att[b].session = "open" <=> u.att[b].session = "open" /\ b # a
        <3>1. u \in Connection /\ t = EndSession(u, a)
            BY <2>3, <2>5
        <3> QED BY <3>1, EndSessionFacts
    <2> QED BY <1>2, <2>2, <2>5, <2>6, <2>7 DEF Keeps
<1> QED BY <1>1, <1>2

LEMMA ResetFacts ==
    ASSUME NEW s \in Connection, NEW t, t = Reset(s)
    PROVE  /\ t \in Connection /\ t.att = s.att /\ t.waiters = s.waiters /\ t.closed = s.closed
           /\ t.lease = None /\ t.client = None /\ t.connecting = None
           /\ t.generation = None /\ t.digest = None
BY DEF Reset, Connection

\* A connection that holds nothing any more.
LEMMA EmptySound ==
    ASSUME NEW s, NEW t \in Connection, Sound(s), BoundTo(s),
           t.lease = None, t.client = None, t.connecting = None,
           \A a \in Attempts : t.att[a].pc = s.att[a].pc /\ t.att[a].bound = s.att[a].bound,
           \A a \in Attempts : t.att[a].lease # "open",
           \A a \in Attempts : t.att[a].session = "open" =>
               s.att[a].session = "open" /\ s.lease # a
    PROVE  Sound(t) /\ BoundTo(t)
<1>1. Sound(t)
    BY NumbersFresh DEF Sound, Runs
<1>2. BoundTo(t)
    BY DEF BoundTo, Connected
<1> QED BY <1>1, <1>2

LEMMA CloseHalfSound ==
    ASSUME NEW s, Sound(s), BoundTo(s), NEW t, t = CloseHalf(s)
    PROVE  /\ Sound(t) /\ BoundTo(t) /\ Keeps(s, t) /\ t.waiters = s.waiters
           /\ t.client = None /\ t.connecting = None
<1> DEFINE u == Reset(s)
<1>1. /\ u \in Connection /\ u.att = s.att /\ u.waiters = s.waiters /\ u.closed = s.closed
      /\ u.lease = None /\ u.client = None /\ u.connecting = None
    BY ResetFacts DEF Sound
<1>2. s.lease \in Attempts \cup {None} /\ \A a \in Attempts : s.att[a].lease = "open" <=> s.lease = a
    BY DEF Sound, Connection
<1> HIDE DEF u
<1>3. /\ t \in Connection /\ Keeps(u, t) /\ t.waiters = u.waiters
      /\ t.lease = None /\ t.client = None /\ t.connecting = None
      /\ \A a \in Attempts : t.att[a].lease # "open"
      /\ \A a \in Attempts : t.att[a].session = "open" => s.att[a].session = "open" /\ s.lease # a
    <2>1. CASE s.lease = None
        <3>1. t = u
            BY <2>1 DEF CloseHalf, u
        <3> QED BY <1>1, <1>2, <2>1, <3>1, NumbersFresh DEF Keeps
    <2>2. CASE s.lease # None
        <3>1. t = CloseLease(u, s.lease)
            BY <2>2 DEF CloseHalf, u
        <3> QED BY SMTT(30), <1>1, <1>2, <2>2, <3>1, CloseLeaseFacts
    <2> QED BY <2>1, <2>2
<1>4. Keeps(s, t)
    BY <1>1, <1>3 DEF Keeps
<1> QED BY <1>1, <1>3, <1>4, EmptySound DEF Keeps

LEMMA ExitFacts ==
    ASSUME NEW s \in Connection, NEW a \in Attempts, NEW outcome, outcome \in {"ready", "failed"},
           NEW t, t = Exit(s, a, outcome)
    PROVE  /\ t \in Connection /\ t.closed = s.closed /\ t.lease = s.lease /\ t.client = s.client
           /\ t.connecting = (IF s.connecting = a THEN None ELSE s.connecting)
           /\ t.generation = s.generation /\ t.digest = s.digest /\ t.waiters = s.waiters
           /\ \A b \in Attempts :
                /\ t.att[b].pc = IF b = a THEN outcome ELSE s.att[b].pc
                /\ t.att[b].bound = s.att[b].bound
                /\ t.att[b].lease = s.att[b].lease /\ t.att[b].session = s.att[b].session
<1> DEFINE r == Ended(s.att[a], outcome)
<1>1. s.att \in [Attempts -> Attempt]
    BY DEF Connection
<1>2. /\ r \in Attempt /\ r.pc = outcome /\ r.bound = s.att[a].bound
      /\ r.lease = s.att[a].lease /\ r.session = s.att[a].session
    <2>1. s.att[a] \in Attempt /\ 0 \in Versions
        BY <1>1, MaxVersionNatural DEF Versions
    <2>2. r = [s.att[a] EXCEPT !.pc = outcome, !.seen = 0]
        BY DEF Ended
    <2> QED BY <2>1, <2>2 DEF Attempt
<1>0. PICK n : n = IF s.connecting = a THEN None ELSE s.connecting
    OBVIOUS
<1>3. t = [s EXCEPT !.connecting = n, !.att = [s.att EXCEPT ![a] = r]]
    BY <1>0 DEF Exit
<1> HIDE DEF r
<1>4. [s.att EXCEPT ![a] = r] \in [Attempts -> Attempt] /\ n \in Attempts \cup {None}
    BY <1>0, <1>1, <1>2 DEF Connection
<1>5. /\ t \in Connection /\ t.closed = s.closed /\ t.lease = s.lease /\ t.client = s.client
      /\ t.connecting = n
      /\ t.generation = s.generation /\ t.digest = s.digest /\ t.waiters = s.waiters
      /\ t.att = [s.att EXCEPT ![a] = r]
    BY <1>3, <1>4 DEF Connection
<1>6. \A b \in Attempts : t.att[b] = IF b = a THEN r ELSE s.att[b]
    BY <1>1, <1>5
<1> QED BY <1>0, <1>2, <1>5, <1>6

\* The end of an attempt with an error. What it holds is closed, and the
\* session it may have acquired after its lease was closed is ended.
LEMMA FailSound ==
    ASSUME NEW s, Sound(s), BoundTo(s), NEW a \in Attempts, Runs(s, a), NEW auth \in BOOLEAN,
           NEW t, t = Fail(s, a, auth)
    PROVE  Sound(t) /\ BoundTo(t) /\ Advances(s, t) /\ Used(t) = Used(s) /\ t.waiters = s.waiters
<1>0. s \in Connection /\ \A b \in Attempts : s.att[b].lease = "open" <=> s.lease = b
    BY DEF Sound
<1>1. PICK u \in Connection :
        /\ t = Exit(u, a, "failed") /\ Keeps(s, u)
        /\ u.client = s.client /\ u.connecting = s.connecting
        /\ u.generation = s.generation /\ u.digest = s.digest /\ u.waiters = s.waiters
        /\ u.lease = IF s.connecting = a THEN None ELSE s.lease
        /\ \A b \in Attempts :
             /\ u.att[b].lease = "open" <=> s.att[b].lease = "open" /\ ~(b = a /\ s.connecting = a)
             /\ u.att[b].session = "open" <=> s.att[b].session = "open" /\ b # a
    <2>1. CASE Owned(s, a)
        <3>1. PICK v : v = [s EXCEPT !.lease = None, !.authRequired = s.authRequired \/ auth]
            OBVIOUS
        <3>2. /\ v \in Connection /\ v.client = s.client /\ v.connecting = s.connecting
              /\ v.generation = s.generation /\ v.digest = s.digest /\ v.waiters = s.waiters
              /\ v.lease = None /\ v.att = s.att /\ v.closed = s.closed
            BY <1>0, <3>1 DEF Connection
        <3>3. PICK u : u = CloseLease(v, a)
            OBVIOUS
        <3>4. t = Exit(u, a, "failed")
            BY <2>1, <3>1, <3>3 DEF Fail
        <3>5. s.connecting = a /\ s.att[a].lease = "open"
            BY <2>1, NumbersFresh DEF Owned, Sound
        <3>6. /\ u \in Connection /\ Keeps(v, u)
              /\ u.lease = v.lease /\ u.client = v.client /\ u.connecting = v.connecting
              /\ u.generation = v.generation /\ u.digest = v.digest /\ u.waiters = v.waiters
              /\ \A b \in Attempts :
                   /\ u.att[b].lease = "open" <=> v.att[b].lease = "open" /\ b # a
                   /\ u.att[b].session = "open" <=>
                        v.att[b].session = "open" /\ ~(b = a /\ v.att[a].lease = "open")
            <4>1. v \in Connection /\ u = CloseLease(v, a)
                BY <3>2, <3>3
            <4> QED BY <4>1, CloseLeaseFacts
        <3> QED BY <3>2, <3>4, <3>5, <3>6 DEF Keeps
    <2>2. CASE ~Owned(s, a)
        <3>1. PICK u : u = EndSession(s, a)
            OBVIOUS
        <3>2. t = Exit(u, a, "failed")
            BY <2>2, <3>1 DEF Fail
        <3>3. s.connecting # a
            BY <2>2, NumbersFresh DEF Owned, Sound
        <3>4. /\ u \in Connection /\ Keeps(s, u)
              /\ u.lease = s.lease /\ u.client = s.client /\ u.connecting = s.connecting
              /\ u.generation = s.generation /\ u.digest = s.digest /\ u.waiters = s.waiters
              /\ \A b \in Attempts :
                   /\ u.att[b].lease = s.att[b].lease
                   /\ u.att[b].session = "open" <=> s.att[b].session = "open" /\ b # a
            BY <1>0, <3>1, EndSessionFacts
        <3> QED BY <3>2, <3>3, <3>4
    <2> QED BY <2>1, <2>2
<1>2. /\ t \in Connection /\ t.closed = u.closed /\ t.lease = u.lease /\ t.client = u.client
      /\ t.connecting = (IF u.connecting = a THEN None ELSE u.connecting)
      /\ t.generation = u.generation /\ t.digest = u.digest /\ t.waiters = u.waiters
      /\ \A b \in Attempts :
           /\ t.att[b].pc = IF b = a THEN "failed" ELSE u.att[b].pc
           /\ t.att[b].bound = u.att[b].bound
           /\ t.att[b].lease = u.att[b].lease /\ t.att[b].session = u.att[b].session
    <2>1. u \in Connection /\ a \in Attempts /\ "failed" \in {"ready", "failed"} /\ t = Exit(u, a, "failed")
        BY <1>1
    <2> QED BY <2>1, ExitFacts
<1>3. /\ t.closed = s.closed /\ t.client = s.client
      /\ t.lease = (IF s.connecting = a THEN None ELSE s.lease)
      /\ t.connecting = (IF s.connecting = a THEN None ELSE s.connecting)
      /\ t.generation = s.generation /\ t.digest = s.digest /\ t.waiters = s.waiters
      /\ \A b \in Attempts :
           /\ t.att[b].pc = IF b = a THEN "failed" ELSE s.att[b].pc
           /\ t.att[b].bound = s.att[b].bound
           /\ t.att[b].lease = "open" <=> s.att[b].lease = "open" /\ ~(b = a /\ s.connecting = a)
           /\ t.att[b].session = "open" <=> s.att[b].session = "open" /\ b # a
    BY <1>1, <1>2 DEF Keeps
<1>4. Sound(t)
    BY <1>2, <1>3, NumbersFresh DEF Sound, Runs, Connection
<1>5. BoundTo(t)
    BY <1>3, <1>0, NumbersFresh DEF Sound, BoundTo, Connected, Connection
<1>6. Advances(s, t) /\ Used(t) = Used(s)
    BY <1>3 DEF Advances, Used, Runs
<1> QED BY <1>3, <1>4, <1>5, <1>6

\* A step of an attempt before it publishes its client.
LEMMA EarlyMoveSound ==
    ASSUME NEW s, Sound(s), BoundTo(s), NEW a \in Attempts,
           s.att[a].pc \in {"begin", "prepare", "handshake", "recheck"},
           NEW r \in Attempt, r.pc \in {"begin", "prepare", "handshake", "recheck", "checked"},
           r.pc = "begin" => s.att[a].pc = "begin",
           r.lease = s.att[a].lease,
           r.bound = s.att[a].bound \/ (s.att[a].pc = "begin" /\ r.bound = live),
           s.att[a].pc = "begin" => r.bound = live,
           live \in Versions,
           NEW t, t = [s EXCEPT !.att = [s.att EXCEPT ![a] = r]]
    PROVE  Sound(t) /\ BoundTo(t) /\ Advances(s, t) /\ Used(t) = Used(s) /\ t.waiters = s.waiters
<1>1. s \in Connection /\ s.att \in [Attempts -> Attempt]
    BY DEF Sound, Connection
<1>2. [s.att EXCEPT ![a] = r] \in [Attempts -> Attempt]
    BY <1>1
<1>3. /\ t \in Connection /\ t.closed = s.closed /\ t.lease = s.lease /\ t.client = s.client
      /\ t.connecting = s.connecting /\ t.generation = s.generation /\ t.digest = s.digest
      /\ t.waiters = s.waiters /\ t.att = [s.att EXCEPT ![a] = r]
    <2>1. PICK f : f = [s.att EXCEPT ![a] = r]
        OBVIOUS
    <2>2. t = [s EXCEPT !.att = f] /\ f \in [Attempts -> Attempt]
        BY <1>2, <2>1
    <2>3. /\ t \in Connection /\ t.closed = s.closed /\ t.lease = s.lease /\ t.client = s.client
          /\ t.connecting = s.connecting /\ t.generation = s.generation /\ t.digest = s.digest
          /\ t.waiters = s.waiters /\ t.att = f
        BY <1>1, <2>2 DEF Connection
    <2> QED BY <2>1, <2>3
<1>4. \A b \in Attempts : t.att[b] = IF b = a THEN r ELSE s.att[b]
    BY <1>1, <1>3
<1>5. s.client # a
    BY NumbersFresh DEF Sound
<1>6. Sound(t)
    BY SMTT(30), <1>3, <1>4, <1>5, NumbersFresh DEF Sound, Runs, Connection
<1>7. BoundTo(t)
    BY <1>1, <1>3, <1>4, <1>5, MaxVersionNatural DEF BoundTo, Connected, Connection, Versions
<1>8. Advances(s, t) /\ Used(t) = Used(s)
    BY <1>4 DEF Advances, Used
<1> QED BY <1>3, <1>6, <1>7, <1>8

\* The published attempt hands its client over.
LEMMA PublishSound ==
    ASSUME NEW s, Sound(s), BoundTo(s), NEW a \in Attempts, Owned(s, a),
           s.att[a].pc \in {"handshake", "checked"}, NEW t \in Publish(s, a)
    PROVE  Sound(t) /\ BoundTo(t) /\ Advances(s, t) /\ Used(t) = Used(s) /\ t.waiters = s.waiters
<1>1. /\ s \in Connection /\ s.att \in [Attempts -> Attempt] /\ s.connecting = a /\ s.lease = a
      /\ s.att[a].bound \in Versions /\ ~s.closed
    BY NumbersFresh DEF Owned, Sound, Connection, Attempt
<1>2. PICK u : u = [s EXCEPT !.client = a, !.generation = s.att[a].bound, !.authRequired = FALSE]
    OBVIOUS
<1>3. /\ u \in Connection /\ u.closed = s.closed /\ u.lease = s.lease /\ u.client = a
      /\ u.connecting = a /\ u.generation = s.att[a].bound /\ u.digest = s.digest
      /\ u.waiters = s.waiters /\ u.att = s.att
    BY <1>1, <1>2 DEF Connection
<1>4. t = Exit(u, a, "ready") \/ t = [u EXCEPT !.att[a].pc = "store", !.att[a].seen = 0]
    BY <1>2 DEF Publish
<1>5. \E p \in {"ready", "store"} :
        /\ t \in Connection /\ t.closed = s.closed /\ t.lease = a /\ t.client = a
        /\ t.connecting = (IF p = "ready" THEN None ELSE a)
        /\ t.generation = s.att[a].bound /\ t.digest = s.digest /\ t.waiters = s.waiters
        /\ \A b \in Attempts :
             /\ t.att[b].pc = IF b = a THEN p ELSE s.att[b].pc
             /\ t.att[b].bound = s.att[b].bound
             /\ t.att[b].lease = s.att[b].lease /\ t.att[b].session = s.att[b].session
    <2>1. CASE t = Exit(u, a, "ready")
        <3>1. /\ t \in Connection /\ t.closed = u.closed /\ t.lease = u.lease /\ t.client = u.client
              /\ t.connecting = (IF u.connecting = a THEN None ELSE u.connecting)
              /\ t.generation = u.generation /\ t.digest = u.digest /\ t.waiters = u.waiters
              /\ \A b \in Attempts :
                   /\ t.att[b].pc = IF b = a THEN "ready" ELSE u.att[b].pc
                   /\ t.att[b].bound = u.att[b].bound
                   /\ t.att[b].lease = u.att[b].lease /\ t.att[b].session = u.att[b].session
            <4>1. u \in Connection /\ a \in Attempts /\ "ready" \in {"ready", "failed"} /\ t = Exit(u, a, "ready")
                BY <1>3, <2>1
            <4> QED BY <4>1, ExitFacts
        <3> QED BY <1>1, <1>3, <3>1
    <2>2. CASE t = [u EXCEPT !.att[a].pc = "store", !.att[a].seen = 0]
        <3> DEFINE r == [s.att[a] EXCEPT !.pc = "store", !.seen = 0]
        <3>1. /\ r \in Attempt /\ r.pc = "store" /\ r.bound = s.att[a].bound
              /\ r.lease = s.att[a].lease /\ r.session = s.att[a].session
            <4>1. s.att[a] \in Attempt /\ 0 \in Versions
                BY <1>1, MaxVersionNatural DEF Versions
            <4> QED BY <4>1 DEF Attempt
        <3>2. t = [u EXCEPT !.att = [s.att EXCEPT ![a] = r]]
            BY <1>1, <1>3, <2>2 DEF Connection
        <3> HIDE DEF r
        <3>3. [s.att EXCEPT ![a] = r] \in [Attempts -> Attempt]
            BY <1>1, <3>1
        <3>4. /\ t \in Connection /\ t.closed = s.closed /\ t.lease = a /\ t.client = a
              /\ t.connecting = a /\ t.generation = s.att[a].bound /\ t.digest = s.digest
              /\ t.waiters = s.waiters /\ t.att = [s.att EXCEPT ![a] = r]
            BY <1>1, <1>3, <3>2, <3>3 DEF Connection
        <3>5. \A b \in Attempts : t.att[b] = IF b = a THEN r ELSE s.att[b]
            BY <1>1, <3>4
        <3> QED BY <3>1, <3>4, <3>5
    <2> QED BY <1>4, <2>1, <2>2
<1>6. Sound(t)
    BY <1>1, <1>5, NumbersFresh DEF Sound, Runs, Connection
<1>7. BoundTo(t)
    BY <1>1, <1>5, NumbersFresh DEF BoundTo, Connected, Sound, Connection
<1>8. Advances(s, t) /\ Used(t) = Used(s)
    BY <1>5 DEF Advances, Used
<1> QED BY <1>5, <1>6, <1>7, <1>8

\* A connection that holds nothing takes a fresh attempt under its lease.
LEMMA StartSound ==
    ASSUME NEW s, Sound(s), BoundTo(s), s.client = None, s.connecting = None, ~s.closed,
           NEW a \in Attempts, s.att[a].pc = "unused", NEW version \in Versions, version <= live,
           NEW t, t = StartConnect(s, a, version)
    PROVE  /\ Sound(t) /\ BoundTo(t) /\ Advances(s, t) /\ Used(t) = Used(s) \cup {a}
           /\ t.waiters = s.waiters /\ t.connecting = a /\ ~t.closed
           /\ t.att[a].pc = (IF mode = "oauth" THEN "begin" ELSE "prepare")
           /\ t.att[a].bound = version
<1>1. s \in Connection /\ s.att \in [Attempts -> Attempt] /\ s.lease = None
    BY DEF Sound, Connection
<1>2. PICK r : r = [Unused EXCEPT !.pc = IF mode = "oauth" THEN "begin" ELSE "prepare",
                                  !.bound = version, !.lease = "open"]
    OBVIOUS
<1>3. /\ r \in Attempt /\ r.pc = (IF mode = "oauth" THEN "begin" ELSE "prepare")
      /\ r.bound = version /\ r.lease = "open" /\ r.session = "none"
    <2>1. 0 \in Versions
        BY MaxVersionNatural DEF Versions
    <2>2. r = [pc |-> IF mode = "oauth" THEN "begin" ELSE "prepare", bound |-> version, seen |-> 0,
               lease |-> "open", session |-> "none", dropped |-> FALSE]
        BY <1>2 DEF Unused
    <2> QED BY <2>1, <2>2 DEF Attempt
<1>4. PICK f : f = [s.att EXCEPT ![a] = r]
    OBVIOUS
<1>5. f \in [Attempts -> Attempt] /\ \A b \in Attempts : f[b] = IF b = a THEN r ELSE s.att[b]
    BY <1>1, <1>3, <1>4
<1>6. PICK d : d = IF mode = "credential" THEN version ELSE None
    OBVIOUS
<1>7. t = [s EXCEPT !.connecting = a, !.digest = d, !.lease = a, !.att = f]
    BY <1>2, <1>4, <1>6 DEF StartConnect
<1>8. d \in Versions \cup {None}
    BY <1>6
<1>9. /\ t \in Connection /\ t.connecting = a /\ t.digest = d /\ t.lease = a /\ t.att = f
      /\ t.client = None /\ ~t.closed /\ t.waiters = s.waiters
    BY <1>1, <1>5, <1>7, <1>8 DEF Connection
<1>10. Sound(t)
    <2>1. \A b \in Attempts : t.att[b].lease = "open" <=> t.lease = b
        BY <1>1, <1>3, <1>5, <1>9, NumbersFresh DEF Sound
    <2>2. \A b \in Attempts : t.att[b].session = "open" => Runs(t, b)
        BY <1>1, <1>3, <1>5, <1>9, NumbersFresh DEF Sound, Runs
    <2>3. Runs(t, a) /\ t.att[a].pc # "store"
        BY <1>3, <1>5, <1>9 DEF Runs
    <2> QED BY <1>9, <2>1, <2>2, <2>3, NumbersFresh DEF Sound
<1>11. BoundTo(t)
    BY <1>3, <1>5, <1>6, <1>9 DEF BoundTo, Connected
<1>12. Advances(s, t) /\ Used(t) = Used(s) \cup {a}
    BY <1>3, <1>5, <1>9 DEF Advances, Used
<1> QED BY <1>3, <1>5, <1>9, <1>10, <1>11, <1>12

-----------------------------------------------------------------------------
(* The waiters of an attempt. *)

\* What a call counts for among the waiters of an attempt.
Share(k, a) == IF k.joined = a THEN 1 ELSE 0

LEMMA WaitersSound ==
    ASSUME NEW s, Sound(s), BoundTo(s), NEW w \in [Attempts -> 0 .. Cardinality(Callers)],
           NEW t, t = [s EXCEPT !.waiters = w]
    PROVE  /\ Sound(t) /\ BoundTo(t) /\ Keeps(s, t)
           /\ t.lease = s.lease /\ t.client = s.client /\ t.connecting = s.connecting
           /\ t.waiters = w
<1>1. s \in Connection
    BY DEF Sound
<1>2. /\ t \in Connection /\ t.closed = s.closed /\ t.lease = s.lease /\ t.client = s.client
      /\ t.connecting = s.connecting /\ t.generation = s.generation /\ t.digest = s.digest
      /\ t.att = s.att /\ t.waiters = w
    BY <1>1 DEF Connection
<1>3. Sound(t)
    BY <1>2 DEF Sound, Runs
<1>4. BoundTo(t)
    BY <1>2 DEF BoundTo, Connected
<1> QED BY <1>2, <1>3, <1>4 DEF Keeps

\* A call that leaves an attempt is one waiter less.
LEMMA LeaveSound ==
    ASSUME NEW s, Sound(s), BoundTo(s), NEW k, k.joined \in Attempts \cup {None},
           k.joined # None => s.waiters[k.joined] > 0,
           NEW t, t = Leave(s, k, TRUE) \/ t = Leave(s, k, FALSE)
    PROVE  /\ Sound(t) /\ BoundTo(t) /\ Keeps(s, t)
           /\ \A a \in Attempts :
                t.waiters[a] = s.waiters[a] - Share(k, a)
<1>0. PICK aborted \in BOOLEAN : t = Leave(s, k, aborted)
    OBVIOUS
<1>1. s \in Connection /\ s.waiters \in [Attempts -> 0 .. Cardinality(Callers)]
    BY DEF Sound, Connection
<1>2. CASE k.joined = None
    <2>1. t = s
        BY <1>0, <1>2 DEF Leave
    <2> QED BY <1>1, <1>2, <2>1, NumbersFresh DEF Keeps, Share
<1>3. CASE k.joined # None
    <2>1. PICK b \in Attempts : b = k.joined
        BY <1>3
    <2>2. PICK w : w = [s.waiters EXCEPT ![b] = s.waiters[b] - 1]
        OBVIOUS
    <2>3. PICK u : u = [s EXCEPT !.waiters = w]
        OBVIOUS
    <2>4. /\ w \in [Attempts -> 0 .. Cardinality(Callers)]
          /\ \A a \in Attempts : w[a] = s.waiters[a] - (IF b = a THEN 1 ELSE 0)
        <3>1. s.waiters[b] - 1 \in 0 .. Cardinality(Callers)
            BY <1>1, <1>3, <2>1, NumbersFresh
        <3> QED BY <1>1, <2>2, <3>1, NumbersFresh
    <2>5. /\ Sound(u) /\ BoundTo(u) /\ Keeps(s, u) /\ u.client = s.client
          /\ u.connecting = s.connecting /\ u.waiters = w
        BY <2>3, <2>4, WaitersSound
    <2>6. t = IF u.waiters[b] = 0 /\ aborted /\ s.connecting = b THEN CloseHalf(u) ELSE u
        BY <1>0, <1>3, <2>1, <2>2, <2>3 DEF Leave
    <2>7. t = u \/ (aborted /\ t = CloseHalf(u))
        BY <2>6
    <2>8. CASE t = u
        BY <2>1, <2>4, <2>5, <2>8 DEF Share
    <2>9. CASE aborted /\ t = CloseHalf(u)
        <3>1. Sound(t) /\ BoundTo(t) /\ Keeps(u, t) /\ t.waiters = u.waiters
            BY <2>5, <2>9, CloseHalfSound
        <3> QED BY <2>1, <2>4, <2>5, <2>9, <3>1 DEF Keeps, Share
    <2> QED BY <2>7, <2>8, <2>9
<1> QED BY <1>2, <1>3

LEMMA JoinSound ==
    ASSUME NEW s, Sound(s), BoundTo(s), NEW b \in Attempts, s.waiters[b] < Cardinality(Callers),
           NEW t, t = Join(s, b)
    PROVE  /\ Sound(t) /\ BoundTo(t) /\ Keeps(s, t)
           /\ \A a \in Attempts :
                t.waiters[a] = s.waiters[a] + (IF b = a THEN 1 ELSE 0)
           /\ t.client = s.client /\ t.connecting = s.connecting
<1>1. s \in Connection /\ s.waiters \in [Attempts -> 0 .. Cardinality(Callers)]
    BY DEF Sound, Connection
<1>2. PICK w : w = [s.waiters EXCEPT ![b] = s.waiters[b] + 1]
    OBVIOUS
<1>3. /\ w \in [Attempts -> 0 .. Cardinality(Callers)]
      /\ \A a \in Attempts : w[a] = s.waiters[a] + (IF b = a THEN 1 ELSE 0)
    <2>1. s.waiters[b] + 1 \in 0 .. Cardinality(Callers)
        BY <1>1, NumbersFresh
    <2> QED BY <1>1, <1>2, <2>1, NumbersFresh
<1>4. t = [s EXCEPT !.waiters = w]
    BY <1>2 DEF Join
<1>5. /\ Sound(t) /\ BoundTo(t) /\ Keeps(s, t) /\ t.client = s.client
      /\ t.connecting = s.connecting /\ t.waiters = w
    BY <1>3, <1>4, WaitersSound
<1> QED BY <1>3, <1>5

\* Between two connections, one waiter moved from the attempt k had joined to
\* the one r has.
Moved(s, t, k, r) ==
    \A a \in Attempts :
        t.waiters[a] + Share(k, a) = s.waiters[a] + Share(r, a)

LEMMA JoinedCounted ==
    ASSUME NEW p \in [Callers -> Call], NEW c \in Callers, NEW r \in Call, NEW a \in Attempts,
           NEW q, q = [p EXCEPT ![c] = r]
    PROVE  /\ Cardinality(JoinedTo(p, a)) \in Nat
           /\ p[c].joined = a => Cardinality(JoinedTo(p, a)) > 0
           /\ p[c].joined # a => Cardinality(JoinedTo(p, a)) < Cardinality(Callers)
           /\ Cardinality(JoinedTo(q, a)) \in Nat
           /\ Cardinality(JoinedTo(q, a)) + Share(p[c], a)
                = Cardinality(JoinedTo(p, a)) + Share(r, a)
<1> DEFINE J == JoinedTo(p, a)
           K == JoinedTo(q, a)
           O == J \ {c}
<1>1. /\ J \subseteq Callers /\ O \subseteq Callers \ {c}
      /\ c \in J <=> p[c].joined = a
      /\ c \in K <=> r.joined = a
      /\ K \ {c} = O
    BY DEF JoinedTo
<1>2. IsFiniteSet(Callers) /\ IsFiniteSet(O) /\ IsFiniteSet(Callers \ {c}) /\ IsFiniteSet(J)
    BY <1>1, CallersFinite, FS_Subset
<1>3. J = (IF p[c].joined = a THEN O \cup {c} ELSE O) /\ K = (IF r.joined = a THEN O \cup {c} ELSE O)
    BY <1>1
<1> HIDE DEF J, K, O
<1>4. /\ Cardinality(O) \in Nat /\ Cardinality(Callers) \in Nat /\ Cardinality(O \cup {c}) = Cardinality(O) + 1
      /\ Cardinality(O) <= Cardinality(Callers \ {c}) /\ Cardinality(Callers \ {c}) = Cardinality(Callers) - 1
    BY <1>1, <1>2, FS_CardinalityType, FS_AddElement, FS_RemoveElement, FS_Subset
<1>5. /\ Cardinality(J) = Cardinality(O) + Share(p[c], a)
      /\ Cardinality(K) = Cardinality(O) + Share(r, a)
    BY <1>3, <1>4 DEF Share
<1> QED BY <1>4, <1>5 DEF J, K, Share

-----------------------------------------------------------------------------
(* One call moves. *)

IsPlaced(k) == k.pc \in {"waiting", "holding", "over"}

LEMMA PlacedCounted ==
    ASSUME NEW p \in [Callers -> Call], NEW c \in Callers, NEW r \in Call
    PROVE  /\ Cardinality(Placed(p)) \in Nat
           /\ ~IsPlaced(p[c]) => Cardinality(Placed(p)) < Cardinality(Callers)
           /\ (IsPlaced(p[c]) => IsPlaced(r))
              => Cardinality(Placed(p)) <= Cardinality(Placed([p EXCEPT ![c] = r]))
           /\ ~IsPlaced(p[c]) /\ IsPlaced(r)
              => Cardinality(Placed([p EXCEPT ![c] = r])) = Cardinality(Placed(p)) + 1
<1> DEFINE P == Placed(p)
           Q == Placed([p EXCEPT ![c] = r])
<1>1. /\ P \subseteq Callers /\ Q \subseteq Callers
      /\ c \in P <=> IsPlaced(p[c])
      /\ IsPlaced(r) => Q = P \cup {c}
      /\ ~IsPlaced(p[c]) => P \subseteq Q /\ P \subseteq Callers \ {c}
    BY DEF Placed, IsPlaced
<1> HIDE DEF P, Q
<1>2. /\ IsFiniteSet(Callers) /\ IsFiniteSet(P) /\ IsFiniteSet(Q) /\ IsFiniteSet(Callers \ {c})
      /\ Cardinality(P) \in Nat /\ Cardinality(Q) \in Nat /\ Cardinality(Callers) \in Nat
      /\ Cardinality(Callers \ {c}) = Cardinality(Callers) - 1
    BY <1>1, CallersFinite, FS_Subset, FS_CardinalityType, FS_RemoveElement
<1>3. ~IsPlaced(p[c]) => Cardinality(P) <= Cardinality(Callers \ {c})
    BY <1>1, <1>2, FS_Subset
<1>4. ~IsPlaced(p[c]) => Cardinality(P) <= Cardinality(Q)
    BY <1>1, <1>2, FS_Subset
<1>5. ~IsPlaced(p[c]) /\ IsPlaced(r) => Cardinality(Q) = Cardinality(P) + 1
    BY <1>1, <1>2, FS_AddElement
<1>6. IsPlaced(p[c]) /\ IsPlaced(r) => Q = P
    BY <1>1
<1> QED BY <1>2, <1>3, <1>4, <1>5, <1>6 DEF P, Q

\* A call that is not placed yet finds an attempt nobody made.
LEMMA AttemptLeft ==
    ASSUME IInv, NEW c \in Callers, ~IsPlaced(call[c])
    PROVE  NextAttempt \in Attempts /\ conn.att[NextAttempt].pc = "unused"
<1>1. /\ Cardinality(Used(conn)) < Cardinality(Callers)
      /\ Cardinality(Used(conn)) \in Nat /\ Used(conn) \subseteq Attempts
    <2>1. IsFiniteSet(Attempts)
        BY NumbersFresh, FS_Interval DEF Attempts
    <2>2. Used(conn) \subseteq Attempts
        BY DEF Used
    <2>3. Cardinality(Used(conn)) \in Nat
        BY <2>1, <2>2, FS_Subset, FS_CardinalityType
    <2>4. call \in [Callers -> Call] /\ Cardinality(Used(conn)) <= Cardinality(Placed(call))
        BY DEF IInv, CallsSound
    <2>5. call[c] \in Call
        BY <2>4
    <2>6. Cardinality(Placed(call)) \in Nat /\ Cardinality(Placed(call)) < Cardinality(Callers)
        BY <2>4, <2>5, PlacedCounted
    <2> QED BY <2>2, <2>3, <2>4, <2>6, NumbersFresh
<1>2. Cardinality(Attempts) = Cardinality(Callers)
    BY NumbersFresh, FS_Interval DEF Attempts
<1>3. Used(conn) # Attempts
    BY <1>1, <1>2, NumbersFresh
<1>4. \E a \in Attempts : conn.att[a].pc = "unused"
    BY <1>1, <1>3 DEF Used
<1> QED BY <1>4 DEF NextAttempt

\* What a step of a call has to show.
LEMMA CallMoves ==
    ASSUME IInv, NEW c \in Callers, NEW r \in Call, NEW t, Sound(t), BoundTo(t), Advances(conn, t),
           CallSound(t, r), Moved(conn, t, call[c], r),
           \/ Used(t) = Used(conn) /\ (IsPlaced(call[c]) => IsPlaced(r))
           \/ /\ \E a \in Attempts : Used(t) = Used(conn) \cup {a}
              /\ ~IsPlaced(call[c]) /\ IsPlaced(r),
           conn' = t, call' = [call EXCEPT ![c] = r], UNCHANGED <<mode, live, cut>>
    PROVE  IInv'
<1> DEFINE q == [call EXCEPT ![c] = r]
<1>1. call \in [Callers -> Call] /\ q \in [Callers -> Call] /\ \A d \in Callers : q[d] = IF d = c THEN r ELSE call[d]
    BY DEF IInv, TypeOK
<1>2. conn \in Connection /\ t \in Connection
    BY DEF IInv, TypeOK, Sound
<1>3. \A a \in Attempts : t.waiters[a] = Cardinality(JoinedTo(q, a))
    <2> SUFFICES ASSUME NEW a \in Attempts PROVE t.waiters[a] = Cardinality(JoinedTo(q, a))
        OBVIOUS
    <2>1. /\ Cardinality(JoinedTo(call, a)) \in Nat
          /\ Cardinality(JoinedTo(q, a)) + Share(call[c], a)
               = Cardinality(JoinedTo(call, a)) + Share(r, a)
          /\ Cardinality(JoinedTo(q, a)) \in Nat
        <3>1. call \in [Callers -> Call] /\ q = [call EXCEPT ![c] = r]
            BY <1>1
        <3> HIDE DEF q
        <3> QED BY ZenonT(60), <3>1, JoinedCounted
    <2>2. conn.waiters[a] = Cardinality(JoinedTo(call, a))
        BY DEF IInv, CallsSound
    <2>3. t.waiters[a] \in 0 .. Cardinality(Callers)
        BY <1>2 DEF Connection
    <2>4. t.waiters[a] + Share(call[c], a) = conn.waiters[a] + Share(r, a)
        BY DEF Moved
    <2> HIDE DEF q
    <2> QED BY <2>1, <2>2, <2>3, <2>4, NumbersFresh DEF Share
<1>4. Cardinality(Used(t)) <= Cardinality(Placed(q))
    <2>1. IsFiniteSet(Used(conn))
        <3>1. IsFiniteSet(Attempts) /\ Used(conn) \subseteq Attempts
            BY NumbersFresh, FS_Interval DEF Attempts, Used
        <3> QED BY <3>1, FS_Subset
    <2>2. /\ Cardinality(Used(conn)) \in Nat
          /\ \A a \in Attempts : Cardinality(Used(conn) \cup {a}) <= Cardinality(Used(conn)) + 1
        <3>1. Cardinality(Used(conn)) \in Nat
            BY <2>1, FS_CardinalityType
        <3>2. ASSUME NEW a \in Attempts
              PROVE  Cardinality(Used(conn) \cup {a}) = Cardinality(Used(conn)) \/ Cardinality(Used(conn) \cup {a}) = Cardinality(Used(conn)) + 1
            <4>1. CASE a \in Used(conn)
                <5>1. Used(conn) \cup {a} = Used(conn)
                    BY <4>1
                <5> QED BY <5>1
            <4>2. CASE a \notin Used(conn)
                BY <2>1, <4>2, FS_AddElement
            <4> QED BY <4>1, <4>2
        <3> QED BY <3>1, <3>2
    <2>3. Cardinality(Used(conn)) <= Cardinality(Placed(call))
        BY DEF IInv, CallsSound
    <2>4. /\ Cardinality(Placed(call)) \in Nat /\ Cardinality(Placed(q)) \in Nat
          /\ (IsPlaced(call[c]) => IsPlaced(r)) => Cardinality(Placed(call)) <= Cardinality(Placed(q))
          /\ ~IsPlaced(call[c]) /\ IsPlaced(r) => Cardinality(Placed(q)) = Cardinality(Placed(call)) + 1
        <3>1. call \in [Callers -> Call] /\ c \in Callers /\ r \in Call
            BY <1>1
        <3>2. IsFiniteSet(Placed(q))
            BY CallersFinite, FS_Subset DEF Placed
        <3>3. Cardinality(Placed(q)) \in Nat
            BY <3>2, FS_CardinalityType
        <3> QED BY <3>1, <3>3, PlacedCounted
    <2>5. CASE Used(t) = Used(conn) /\ (IsPlaced(call[c]) => IsPlaced(r))
        BY <2>2, <2>3, <2>4, <2>5
    <2>6. CASE (\E a \in Attempts : Used(t) = Used(conn) \cup {a}) /\ ~IsPlaced(call[c]) /\ IsPlaced(r)
        <3>1. PICK a \in Attempts : Used(t) = Used(conn) \cup {a}
            BY <2>6
        <3>2. Cardinality(Used(t)) <= Cardinality(Used(conn)) + 1 /\ Cardinality(Used(t)) \in Nat
            <4>1. Cardinality(Used(conn) \cup {a}) \in Nat
                BY <2>1, FS_AddElement, FS_CardinalityType
            <4> QED BY <2>2, <3>1, <4>1
        <3>3. Cardinality(Placed(q)) = Cardinality(Placed(call)) + 1
            BY <2>4, <2>6
        <3> QED BY <2>2, <2>3, <2>4, <3>2, <3>3
    <2> QED BY <2>5, <2>6
<1>5. \A d \in Callers : CallSound(t, q[d])
    <2> SUFFICES ASSUME NEW d \in Callers, d # c PROVE CallSound(t, call[d])
        BY <1>1
    <2>1. CallSound(conn, call[d]) /\ call[d] \in Call
        BY <1>1 DEF IInv, CallsSound
    <2> QED BY <1>2, <2>1, CallKept
<1>6. CallsSound(t, q)
    BY <1>1, <1>3, <1>4, <1>5 DEF CallsSound
<1> HIDE DEF q
<1>7. TypeOK'
    BY <1>1, <1>2 DEF IInv, TypeOK, q
<1>8. CallsSound(conn, call)'
    BY <1>6 DEF CallsSound, CallSound, JoinedTo, Placed, Used, q
<1>9. Sound(conn)' /\ BoundTo(conn)'
    BY DEF Sound, BoundTo, Runs, Connected
<1> QED BY <1>7, <1>8, <1>9 DEF IInv

\* An attempt counts the call among its waiters, and has room for it otherwise.
LEMMA CallerCounted ==
    ASSUME IInv, NEW c \in Callers
    PROVE  /\ call[c] \in Call /\ CallSound(conn, call[c])
           /\ call[c].joined \in Attempts \cup {None}
           /\ call[c].joined # None => conn.waiters[call[c].joined] > 0
           /\ \A a \in Attempts : call[c].joined # a => conn.waiters[a] < Cardinality(Callers)
<1>1. call \in [Callers -> Call] /\ call[c] \in Call /\ CallSound(conn, call[c])
    BY DEF IInv, TypeOK, CallsSound
<1>2. call[c].joined \in Attempts \cup {None}
    BY <1>1 DEF Call
<1>3. ASSUME NEW a \in Attempts
      PROVE  /\ call[c].joined = a => conn.waiters[a] > 0
             /\ call[c].joined # a => conn.waiters[a] < Cardinality(Callers)
    <2>1. conn.waiters[a] = Cardinality(JoinedTo(call, a))
        BY DEF IInv, CallsSound
    <2>2. PICK q : q = [call EXCEPT ![c] = call[c]]
        OBVIOUS
    <2> QED BY <1>1, <2>1, <2>2, JoinedCounted
<1> QED BY <1>1, <1>2, <1>3

LEMMA OverSound ==
    ASSUME NEW t, live \in Versions
    PROVE  Over \in Call /\ Over.joined = None /\ IsPlaced(Over) /\ CallSound(t, Over)
<1>1. 0 \in Versions /\ 0 <= live
    BY MaxVersionNatural DEF Versions
<1>2. Idle \in Call
    BY <1>1 DEF Idle, Call
<1>3. Over \in Call
    BY <1>2 DEF Over, Call
<1>4. /\ Over.joined = None /\ Over.pc = "over" /\ Over.since = 0 /\ Over.seen = 0
    BY DEF Over, Idle
<1> QED BY <1>1, <1>3, <1>4 DEF IsPlaced, CallSound

LEMMA ThrowHolds ==
    ASSUME IInv, NEW c \in Callers, NEW s, Sound(s), BoundTo(s), Advances(conn, s), Used(s) = Used(conn),
           s.waiters = conn.waiters, Throw(c, s, TRUE) \/ Throw(c, s, FALSE),
           UNCHANGED <<mode, live, cut>>
    PROVE  IInv'
<1>0. PICK k : k = call[c]
    OBVIOUS
<1>1. /\ k \in Call /\ k.joined \in Attempts \cup {None}
      /\ k.joined # None => s.waiters[k.joined] > 0
    BY <1>0, CallerCounted
<1>2. PICK t : /\ t = Leave(s, k, TRUE) \/ t = Leave(s, k, FALSE)
               /\ conn' = t
    BY <1>0 DEF Throw
<1>3. /\ Sound(t) /\ BoundTo(t) /\ Keeps(s, t)
      /\ \A a \in Attempts : t.waiters[a] = s.waiters[a] - Share(k, a)
    <2>1. CASE t = Leave(s, k, TRUE)
        BY ZenonT(60), <1>1, <2>1, LeaveSound
    <2>2. CASE t = Leave(s, k, FALSE)
        BY ZenonT(60), <1>1, <2>2, LeaveSound
    <2> QED BY <1>2, <2>1, <2>2
<1>4. conn' = t /\ call' = [call EXCEPT ![c] = Over]
    BY <1>2 DEF Throw
<1>5. live \in Versions /\ conn \in Connection
    BY DEF IInv, TypeOK
<1>6. Over \in Call /\ Over.joined = None /\ IsPlaced(Over) /\ CallSound(t, Over)
    BY <1>5, OverSound
<1>7. Advances(conn, t) /\ Used(t) = Used(conn)
    <2>1. Keeps(s, t)
        BY <1>3
    <2>2. Advances(s, t) /\ Used(t) = Used(s)
        BY <2>1, KeepsAdvances
    <2> QED BY <2>2, AdvancesOn
<1>8. Moved(conn, t, call[c], Over)
    <2>1. \A a \in Attempts : conn.waiters[a] \in Nat
        BY <1>5, NumbersFresh DEF Connection
    <2> QED BY <1>0, <1>3, <1>6, <2>1, NumbersFresh DEF Moved, Share
<1> QED BY <1>3, <1>4, <1>6, <1>7, <1>8, CallMoves

LEMMA HandHolds ==
    ASSUME IInv, NEW c \in Callers, NEW s, Sound(s), BoundTo(s), Advances(conn, s), Used(s) = Used(conn),
           s.waiters = conn.waiters, NEW k \in Call, k.joined = call[c].joined, k.since <= live,
           NEW a \in Attempts, (mode = "oauth" /\ k.shared) \/ k.since <= s.att[a].bound,
           Hand(c, s, k, a), UNCHANGED <<mode, live, cut>>
    PROVE  IInv'
<1>1. /\ k.joined \in Attempts \cup {None}
      /\ k.joined # None => s.waiters[k.joined] > 0
    BY CallerCounted
<1>2. PICK t : t = Leave(s, k, FALSE)
    OBVIOUS
<1>3. /\ Sound(t) /\ BoundTo(t) /\ Keeps(s, t)
      /\ \A b \in Attempts : t.waiters[b] = s.waiters[b] - Share(k, b)
    BY ZenonT(60), <1>1, <1>2, LeaveSound
<1>4. PICK r : r = [Idle EXCEPT !.pc = "holding", !.handed = a, !.shared = k.shared,
                                !.stale = s.att[a].bound < k.since]
    OBVIOUS
<1>5. conn' = t /\ call' = [call EXCEPT ![c] = r]
    BY <1>2, <1>4 DEF Hand
<1>6. live \in Versions /\ conn \in Connection /\ 0 \in Versions /\ 0 <= live
    BY MaxVersionNatural DEF IInv, TypeOK, Versions
<1>7. r \in Call /\ r.joined = None /\ IsPlaced(r) /\ CallSound(t, r)
    <2>1. r = [pc |-> "holding", joined |-> None, seen |-> 0, observed |-> None, shared |-> k.shared,
               since |-> 0, handed |-> a, stale |-> s.att[a].bound < k.since]
        BY <1>4 DEF Idle
    <2>2. k.shared \in BOOLEAN /\ k.since \in Nat
        BY DEF Call, Versions
    <2>3. s.att[a].bound \in Nat
        BY DEF Sound, Connection, Attempt, Versions
    <2>4. (s.att[a].bound < k.since) \in BOOLEAN
        BY <2>2, <2>3
    <2>5. k.since <= s.att[a].bound => ~(s.att[a].bound < k.since)
        BY <2>2, <2>3
    <2>6. r \in Call
        BY <1>6, <2>1, <2>2, <2>4 DEF Call
    <2>7. /\ r.joined = None /\ r.pc = "holding" /\ r.since = 0 /\ r.seen = 0 /\ r.shared = k.shared
          /\ r.stale = (s.att[a].bound < k.since)
        BY <2>1
    <2>8. ~r.stale \/ (mode = "oauth" /\ r.shared)
        BY <2>5, <2>7
    <2> QED BY <1>6, <2>6, <2>7, <2>8 DEF IsPlaced, CallSound
<1>8. Advances(conn, t) /\ Used(t) = Used(conn)
    <2>1. Keeps(s, t)
        BY <1>3
    <2>2. Advances(s, t) /\ Used(t) = Used(s)
        BY <2>1, KeepsAdvances
    <2> QED BY <2>2, AdvancesOn
<1>9. Moved(conn, t, call[c], r)
    <2>1. \A b \in Attempts : conn.waiters[b] \in Nat
        BY <1>6, NumbersFresh DEF Connection
    <2> QED BY <1>3, <1>7, <2>1, NumbersFresh DEF Moved, Share
<1> QED BY <1>3, <1>5, <1>7, <1>8, <1>9, CallMoves

\* A call goes on from its last read: the client it finds, or the attempt it
\* joins, is bound to no less than it has read, or it starts an attempt of its
\* own bound to that.
LEMMA ProceedHolds ==
    ASSUME IInv, NEW c \in Callers, ~IsPlaced(call[c]),
           NEW s, Sound(s), BoundTo(s), Advances(conn, s), Used(s) = Used(conn), s.waiters = conn.waiters,
           NEW k \in Call, k.joined = call[c].joined, k.since <= live, k.seen <= live,
           s.client # None => k.since <= s.att[s.client].bound,
           mode = "oauth" \/ k.since <= k.seen,
           s.connecting # None => mode = "oauth" \/ k.since <= s.att[s.connecting].bound,
           Proceed(c, s, k), UNCHANGED <<mode, live, cut>>
    PROVE  IInv'
<1>1. PICK t : t = IF s.eraRefused THEN CloseHalf(s) ELSE s
    OBVIOUS
<1>2. PICK a : a = IF t.connecting # None THEN t.connecting ELSE NextAttempt
    OBVIOUS
<1>3. PICK u : u = IF t.connecting # None THEN t ELSE StartConnect(t, a, k.seen)
    OBVIOUS
<1>4. /\ Sound(t) /\ BoundTo(t) /\ Keeps(s, t) /\ t.waiters = conn.waiters
      /\ t.client # None => k.since <= t.att[t.client].bound
      /\ t.connecting # None => mode = "oauth" \/ k.since <= t.att[t.connecting].bound
    <2>1. CASE ~s.eraRefused
        <3>1. t = s
            BY <1>1, <2>1
        <3> QED BY <3>1 DEF Keeps
    <2>2. CASE s.eraRefused
        <3>1. t = CloseHalf(s)
            BY <1>1, <2>2
        <3>2. /\ Sound(t) /\ BoundTo(t) /\ Keeps(s, t) /\ t.waiters = s.waiters
              /\ t.client = None /\ t.connecting = None
            BY <3>1, CloseHalfSound
        <3> QED BY <3>2
    <2> QED BY <2>1, <2>2
<1>5. Advances(conn, t) /\ Used(t) = Used(conn) /\ t.closed = s.closed
    <2>1. Advances(s, t) /\ Used(t) = Used(s)
        BY <1>4, KeepsAdvances
    <2> QED BY <1>4, <2>1, AdvancesOn DEF Keeps
<1>6. CASE Throw(c, s, TRUE) \/ Throw(c, s, FALSE)
    BY <1>6, ThrowHolds
<1>7. CASE t.client # None /\ Hand(c, t, k, t.client)
    <2>1. t.client \in Attempts
        BY <1>4, <1>7 DEF Sound, Connection
    <2>2. k.since <= t.att[t.client].bound
        BY <1>4, <1>7
    <2> QED BY <1>4, <1>5, <1>7, <2>1, <2>2, HandHolds
<1>8. CASE /\ ~s.closed /\ t.client = None
           /\ conn' = IF k.joined = a THEN u ELSE Join(Leave(u, k, FALSE), a)
           /\ call' = [call EXCEPT ![c] = [Idle EXCEPT !.pc = "waiting", !.joined = a, !.since = k.since,
                                                       !.shared = (t.connecting # None)]]
    <2>1. /\ a \in Attempts
          /\ t.connecting = None => t.att[a].pc = "unused" /\ conn.att[a].pc = "unused"
        <3>1. CASE t.connecting # None
            BY <1>2, <1>4, <3>1 DEF Sound, Connection
        <3>2. CASE t.connecting = None
            <4>1. a \in Attempts /\ conn.att[a].pc = "unused"
                BY <1>2, <3>2, AttemptLeft
            <4> QED BY <1>5, <4>1 DEF Used
        <3> QED BY <3>1, <3>2
    <2>2. /\ Sound(u) /\ BoundTo(u) /\ Advances(t, u) /\ u.waiters = conn.waiters
          /\ Used(u) = Used(t) \/ Used(u) = Used(t) \cup {a}
          /\ u.att[a].pc # "unused"
          /\ \/ mode = "oauth" /\ t.connecting # None
             \/ u.att[a].pc = "begin"
             \/ k.since <= u.att[a].bound
        <3>1. CASE t.connecting # None
            <4>1. u = t /\ a = t.connecting
                BY <1>2, <1>3, <3>1
            <4>2. u.att[a].pc # "unused"
                BY <1>4, <3>1, <4>1 DEF Sound, Runs
            <4>3. Advances(t, u)
                BY <4>1 DEF Advances
            <4> QED BY <1>4, <3>1, <4>1, <4>2, <4>3
        <3>2. CASE t.connecting = None
            <4>1. u = StartConnect(t, a, k.seen)
                BY <1>3, <3>2
            <4>2. k.seen \in Versions
                BY DEF Call
            <4>3. ~t.closed /\ t.client = None
                BY <1>5, <1>8
            <4>4. /\ Sound(u) /\ BoundTo(u) /\ Advances(t, u) /\ Used(u) = Used(t) \cup {a}
                  /\ u.waiters = t.waiters
                  /\ u.att[a].pc = (IF mode = "oauth" THEN "begin" ELSE "prepare")
                  /\ u.att[a].bound = k.seen
                BY <1>4, <2>1, <3>2, <4>1, <4>2, <4>3, StartSound
            <4> QED BY <1>4, <4>4
        <3> QED BY <3>1, <3>2
    <2>3. PICK v : v = IF k.joined = a THEN u ELSE Join(Leave(u, k, FALSE), a)
        OBVIOUS
    <2>4. PICK r : r = [Idle EXCEPT !.pc = "waiting", !.joined = a, !.since = k.since,
                                    !.shared = (t.connecting # None)]
        OBVIOUS
    <2>5. conn' = v /\ call' = [call EXCEPT ![c] = r]
        BY <1>8, <2>3, <2>4
    <2>6. \A b \in Attempts : conn.waiters[b] \in Nat
        BY NumbersFresh DEF IInv, TypeOK, Connection
    <2>7. /\ r \in Call /\ r.pc = "waiting" /\ r.joined = a /\ r.since = k.since /\ r.seen = 0
          /\ r.shared = (t.connecting # None)
        <3>1. 0 \in Versions /\ k.since \in Versions
            BY MaxVersionNatural DEF Call, Versions
        <3>2. Idle \in Call
            BY <3>1 DEF Idle, Call
        <3>3. r \in Call
            BY <2>1, <2>4, <3>1, <3>2 DEF Call
        <3>4. r.seen = 0
            BY <2>4 DEF Idle
        <3>5. /\ r.pc = "waiting" /\ r.joined = a /\ r.since = k.since
              /\ r.shared = (t.connecting # None)
            BY <2>4 DEF Idle
        <3> QED BY <3>3, <3>4, <3>5
    <2>8. /\ Sound(v) /\ BoundTo(v) /\ Keeps(u, v) /\ Moved(conn, v, k, r)
        <3>1. CASE k.joined = a
            <4>1. v = u
                BY <2>3, <3>1
            <4> QED BY <2>2, <2>6, <2>7, <3>1, <4>1 DEF Keeps, Moved, Share
        <3>2. CASE k.joined # a
            <4>1. PICK w : w = Leave(u, k, FALSE)
                OBVIOUS
            <4>2. v = Join(w, a)
                BY <2>3, <3>2, <4>1
            <4>3. /\ k.joined \in Attempts \cup {None}
                  /\ k.joined # None => u.waiters[k.joined] > 0
                  /\ conn.waiters[a] < Cardinality(Callers)
                BY <2>1, <2>2, <3>2, CallerCounted
            <4>4. /\ Sound(w) /\ BoundTo(w) /\ Keeps(u, w)
                  /\ \A b \in Attempts :
                       w.waiters[b] = u.waiters[b] - Share(k, b)
                <5>1. w = Leave(u, k, FALSE)
                    BY <4>1
                <5>2. Sound(u) /\ BoundTo(u)
                    BY <2>2
                <5>3. /\ k.joined \in Attempts \cup {None}
                      /\ k.joined # None => u.waiters[k.joined] > 0
                    BY <4>3
                <5> QED BY <5>1, <5>2, <5>3, LeaveSound
            <4>5. w.waiters[a] < Cardinality(Callers)
                BY <2>1, <2>2, <2>6, <3>2, <4>3, <4>4 DEF Share
            <4>6. /\ Sound(v) /\ BoundTo(v) /\ Keeps(w, v)
                  /\ \A b \in Attempts :
                       v.waiters[b] = w.waiters[b] + (IF a = b THEN 1 ELSE 0)
                BY <2>1, <4>2, <4>4, <4>5, JoinSound
            <4>7. Keeps(u, v)
                BY <4>4, <4>6 DEF Keeps
            <4>8. Moved(conn, v, k, r)
                BY <2>2, <2>6, <2>7, <4>4, <4>6 DEF Moved, Share
            <4> QED BY <4>6, <4>7, <4>8
        <3> QED BY <3>1, <3>2
    <2>9. Advances(u, v) /\ Used(v) = Used(u)
        BY <2>8, KeepsAdvances
    <2>10. Advances(conn, v)
        BY <1>5, <2>2, <2>9, AdvancesOn
    <2>11. CallSound(v, r)
        <3>1. 0 <= live
            BY DEF IInv, TypeOK, Versions
        <3>2. v.att[a].pc = u.att[a].pc /\ v.att[a].bound = u.att[a].bound
            BY <2>1, <2>8 DEF Keeps
        <3> QED BY <2>1, <2>2, <2>7, <3>1, <3>2, NumbersFresh DEF CallSound
    <2>12. Moved(conn, v, call[c], r)
        BY <2>8 DEF Moved, Share
    <2>13. /\ \/ Used(v) = Used(conn)
              \/ \E b \in Attempts : Used(v) = Used(conn) \cup {b}
           /\ IsPlaced(r)
        BY <1>5, <2>1, <2>2, <2>7, <2>9 DEF IsPlaced
    <2> QED BY <2>5, <2>7, <2>8, <2>10, <2>11, <2>12, <2>13, CallMoves
<1> QED BY <1>1, <1>2, <1>3, <1>6, <1>7, <1>8 DEF Proceed

-----------------------------------------------------------------------------
(* ensureConnected(), step by step. *)

LEMMA ConnFacts ==
    ASSUME IInv
    PROVE  /\ conn \in Connection /\ live \in Versions /\ mode \in {"oauth", "credential"}
           /\ Sound(conn) /\ BoundTo(conn) /\ Advances(conn, conn)
           /\ conn.client \in Attempts \cup {None} /\ conn.connecting \in Attempts \cup {None}
           /\ Connected(conn) # None =>
                /\ conn.digest = conn.att[Connected(conn)].bound \/ mode = "oauth"
                /\ conn.att[Connected(conn)].bound \in Versions
           /\ Connected(conn) = None => conn.client = None /\ conn.connecting = None
<1>1. conn \in Connection /\ live \in Versions /\ mode \in {"oauth", "credential"} /\ Sound(conn) /\ BoundTo(conn)
    BY ModesKnown DEF IInv, TypeOK
<1>2. Advances(conn, conn)
    BY DEF Advances
<1>3. conn.client \in Attempts \cup {None} /\ conn.connecting \in Attempts \cup {None}
    BY <1>1 DEF Connection
<1>4. conn.att \in [Attempts -> Attempt]
    BY <1>1 DEF Connection
<1>5. Connected(conn) \in Attempts \cup {None}
    BY <1>3 DEF Connected
<1>6. Connected(conn) # None => conn.att[Connected(conn)] \in Attempt
    BY <1>4, <1>5
<1>7. Connected(conn) # None => conn.att[Connected(conn)].bound \in Versions
    BY <1>6 DEF Attempt
<1>8. Connected(conn) # None => conn.digest = conn.att[Connected(conn)].bound \/ mode = "oauth"
    BY <1>1 DEF BoundTo
<1>9. Connected(conn) = None => conn.client = None /\ conn.connecting = None
    BY DEF Connected
<1> QED BY <1>1, <1>2, <1>3, <1>7, <1>8, <1>9

\* The connection closed for a reset, a rotation or a change of era.
LEMMA ClosedFacts ==
    ASSUME IInv, NEW s, s = CloseHalf(conn)
    PROVE  /\ Sound(s) /\ BoundTo(s) /\ Advances(conn, s) /\ Used(s) = Used(conn)
           /\ s.waiters = conn.waiters /\ s.client = None /\ s.connecting = None
<1>1. Sound(conn) /\ BoundTo(conn)
    BY ConnFacts
<1>2. /\ Sound(s) /\ BoundTo(s) /\ Keeps(conn, s) /\ s.waiters = conn.waiters
      /\ s.client = None /\ s.connecting = None
    BY <1>1, CloseHalfSound
<1>3. Advances(conn, s) /\ Used(s) = Used(conn)
    BY <1>2, KeepsAdvances
<1> QED BY <1>2, <1>3

\* A call that only reads.
LEMMA CallReads ==
    ASSUME IInv, NEW c \in Callers, NEW r \in Call, r.joined = call[c].joined, CallSound(conn, r),
           ~IsPlaced(call[c]), UNCHANGED <<mode, live, cut, conn>>, call' = [call EXCEPT ![c] = r]
    PROVE  IInv'
<1>1. Sound(conn) /\ BoundTo(conn) /\ Advances(conn, conn)
    BY ConnFacts
<1>2. Moved(conn, conn, call[c], r)
    BY DEF Moved, Share
<1>3. Used(conn) = Used(conn) /\ (IsPlaced(call[c]) => IsPlaced(r))
    OBVIOUS
<1> QED BY <1>1, <1>2, <1>3, CallMoves

LEMMA ReadLiveHolds ==
    ASSUME IInv, NEW c \in Callers, ReadLive(c) PROVE IInv'
<1>1. PICK k : k = call[c]
    OBVIOUS
<1>2. PICK r : r = [k EXCEPT !.seen = live, !.pc = IF @ = "epoch" THEN "epochSeen" ELSE "digest"]
    OBVIOUS
<1>3. k \in Call /\ CallSound(conn, k) /\ k.pc \in {"epoch", "credential"} /\ live \in Versions
    BY <1>1, CallerCounted, ConnFacts DEF ReadLive
<1>4. /\ r \in Call /\ r.joined = k.joined /\ r.since = k.since /\ r.seen = live
      /\ r.pc = (IF k.pc = "epoch" THEN "epochSeen" ELSE "digest")
    BY <1>2, <1>3 DEF Call
<1>5. call' = [call EXCEPT ![c] = r]
    <2>1. call \in [Callers -> Call]
        BY DEF IInv, TypeOK
    <2> QED BY <1>1, <1>2, <2>1 DEF ReadLive
<1>6. CallSound(conn, r)
    <2>1. live <= live
        BY <1>3 DEF Versions
    <2> QED BY <1>3, <1>4, <2>1 DEF CallSound
<1>7. ~IsPlaced(call[c]) /\ UNCHANGED <<mode, live, cut, conn>>
    BY <1>1, <1>3 DEF IsPlaced, ReadLive
<1> QED BY <1>1, <1>4, <1>5, <1>6, <1>7, CallReads

LEMMA ReadFailsHolds ==
    ASSUME IInv, NEW c \in Callers, ReadFails(c) PROVE IInv'
BY ConnFacts, ThrowHolds DEF ReadFails

LEMMA CancelHolds ==
    ASSUME IInv, NEW c \in Callers, Cancel(c) PROVE IInv'
BY ConnFacts, ThrowHolds DEF Cancel

\* A client of another epoch was closed, so one that is left is bound to the
\* epoch just read.
LEMMA EpochSeenHolds ==
    ASSUME IInv, NEW c \in Callers, EpochSeen(c) PROVE IInv'
<1>1. PICK k \in Call : k = call[c] /\ CallSound(conn, k)
    BY CallerCounted
<1>2. k.pc = "epochSeen" /\ mode = "oauth" /\ k.since <= k.seen /\ k.since <= live /\ k.seen <= live /\ ~IsPlaced(k)
      /\ UNCHANGED <<mode, live, cut>>
    BY <1>1 DEF EpochSeen, CallSound, IsPlaced
<1>3. PICK z : z = CloseHalf(conn)
    OBVIOUS
<1>4. PICK s : s = IF (conn.client # None /\ k.seen # conn.generation) /\ ~conn.closed THEN z ELSE conn
    OBVIOUS
<1>5. Throw(c, z, FALSE) \/ Proceed(c, s, k)
    BY <1>1, <1>3, <1>4 DEF EpochSeen
<1>6. /\ Sound(z) /\ BoundTo(z) /\ Advances(conn, z) /\ Used(z) = Used(conn)
      /\ z.waiters = conn.waiters /\ z.client = None /\ z.connecting = None
    BY <1>3, ClosedFacts
<1>7. CASE Throw(c, z, FALSE)
    BY <1>2, <1>6, <1>7, ThrowHolds
<1>8. CASE Proceed(c, s, k)
    <2>1. /\ Sound(s) /\ BoundTo(s) /\ Advances(conn, s) /\ Used(s) = Used(conn)
          /\ s.waiters = conn.waiters
          /\ s.client # None => k.since <= s.att[s.client].bound
        <3>1. CASE s = z
            BY <1>6, <3>1
        <3>2. CASE s = conn /\ (conn.client = None \/ k.seen = conn.generation \/ conn.closed)
            <4>1. Sound(conn) /\ BoundTo(conn) /\ Advances(conn, conn)
                BY ConnFacts
            <4>2. conn.client # None => k.seen = conn.att[conn.client].bound
                BY <3>2, <4>1 DEF Sound, BoundTo
            <4> QED BY <1>2, <3>2, <4>1, <4>2
        <3> QED BY <1>4, <3>1, <3>2
    <2> QED BY <1>1, <1>2, <1>8, <2>1, ProceedHolds
<1> QED BY <1>5, <1>7, <1>8

\* A call that goes on finds the connection bound to the value it has read.
LEMMA DigestSeenHolds ==
    ASSUME IInv, NEW c \in Callers, DigestSeen(c) PROVE IInv'
<1>1. PICK k \in Call : k = call[c] /\ CallSound(conn, k)
    BY CallerCounted
<1>2. k.pc = "digest" /\ mode = "credential" /\ k.since <= k.seen /\ k.since <= live /\ k.seen <= live /\ ~IsPlaced(k)
      /\ UNCHANGED <<mode, live, cut>>
    BY <1>1 DEF DigestSeen, CallSound, IsPlaced
<1>3. /\ Sound(conn) /\ BoundTo(conn) /\ Advances(conn, conn)
      /\ Connected(conn) # None =>
           conn.digest = conn.att[Connected(conn)].bound /\ conn.att[Connected(conn)].bound \in Versions
    BY <1>2, ConnFacts
<1>4. CASE call' = [call EXCEPT ![c].pc = "reread", ![c].observed = Connected(conn)] /\ conn' = conn
    <2>1. PICK r : r = [k EXCEPT !.pc = "reread", !.observed = Connected(conn)]
        OBVIOUS
    <2>2. Connected(conn) \in Attempts \cup {None}
        BY ConnFacts DEF Connected
    <2>3. /\ r \in Call /\ r.joined = k.joined /\ r.since = k.since /\ r.seen = k.seen
          /\ r.pc = "reread"
        BY <2>1, <2>2 DEF Call
    <2>4. call' = [call EXCEPT ![c] = r]
        <3>1. call \in [Callers -> Call]
            BY DEF IInv, TypeOK
        <3> QED BY <1>1, <1>4, <2>1, <3>1
    <2>5. CallSound(conn, r)
        BY <1>1, <1>2, <2>3 DEF CallSound
    <2> QED BY <1>1, <1>2, <1>4, <2>3, <2>4, <2>5, CallReads
<1>5. CASE Proceed(c, conn, k) /\ ~(Connected(conn) # None /\ conn.digest # None /\ conn.digest # k.seen)
    <2>1. Connected(conn) # None => conn.att[Connected(conn)].bound = k.seen
        BY <1>3, <1>5, NumbersFresh
    <2>2. /\ conn.client # None => k.since <= conn.att[conn.client].bound
          /\ conn.client = None /\ conn.connecting # None => k.since <= conn.att[conn.connecting].bound
        BY <1>2, <2>1 DEF Connected
    <2>3. conn.client # None /\ conn.connecting # None => conn.client = conn.connecting
        BY <1>3 DEF Sound, Runs
    <2>4. conn.connecting # None => k.since <= conn.att[conn.connecting].bound
        BY <2>2, <2>3
    <2> QED BY <1>1, <1>2, <1>3, <1>5, <2>2, <2>4, ProceedHolds
<1>6. \/ call' = [call EXCEPT ![c].pc = "reread", ![c].observed = Connected(conn)] /\ conn' = conn
      \/ Proceed(c, conn, k) /\ ~(Connected(conn) # None /\ conn.digest # None /\ conn.digest # k.seen)
    BY <1>1 DEF DigestSeen
<1> QED BY <1>4, <1>5, <1>6

LEMMA RereadHolds ==
    ASSUME IInv, NEW c \in Callers, Reread(c) PROVE IInv'
<1>1. PICK k \in Call : k = call[c] /\ CallSound(conn, k)
    BY CallerCounted
<1>2. k.pc = "reread" /\ k.since <= k.seen /\ k.since <= live /\ k.seen <= live /\ ~IsPlaced(k)
      /\ UNCHANGED <<mode, live, cut>>
    BY <1>1 DEF Reread, CallSound, IsPlaced
<1>3. PICK s : s = CloseHalf(conn)
    OBVIOUS
<1>4. Throw(c, conn, FALSE) \/ Proceed(c, s, k)
    BY <1>1, <1>3 DEF Reread
<1>5. CASE Throw(c, conn, FALSE)
    BY <1>2, <1>5, ConnFacts, ThrowHolds
<1>6. CASE Proceed(c, s, k)
    <2>1. /\ Sound(s) /\ BoundTo(s) /\ Advances(conn, s) /\ Used(s) = Used(conn)
          /\ s.waiters = conn.waiters /\ s.client = None /\ s.connecting = None
        BY <1>3, ClosedFacts
    <2> QED BY <1>1, <1>2, <1>6, <2>1, ProceedHolds
<1> QED BY <1>4, <1>5, <1>6

\* The attempt is ready: neither failed nor before the read that binds it.
LEMMA WakeHolds ==
    ASSUME IInv, NEW c \in Callers, Wake(c) PROVE IInv'
<1>1. PICK k \in Call : k = call[c] /\ CallSound(conn, k)
    BY CallerCounted
<1>2. k.pc = "waiting" /\ k.joined # None /\ k.since <= live /\ UNCHANGED <<mode, live, cut>>
    BY <1>1 DEF Wake, CallSound
<1>3. \/ conn.att[k.joined].pc = "ready" /\ Hand(c, conn, k, k.joined)
      \/ Throw(c, conn, FALSE)
    BY <1>1 DEF Wake
<1>4. CASE Throw(c, conn, FALSE)
    BY <1>2, <1>4, ConnFacts, ThrowHolds
<1>5. CASE conn.att[k.joined].pc = "ready" /\ Hand(c, conn, k, k.joined)
    <2>1. k.joined \in Attempts
        BY <1>2 DEF Call
    <2>2. (mode = "oauth" /\ k.shared) \/ k.since <= conn.att[k.joined].bound
        BY <1>1, <1>2, <1>5 DEF CallSound
    <2>3. Sound(conn) /\ BoundTo(conn) /\ Advances(conn, conn)
        BY ConnFacts
    <2> QED BY <1>1, <1>2, <1>5, <2>1, <2>2, <2>3, HandHolds
<1> QED BY <1>3, <1>4, <1>5

LEMMA FinishHolds ==
    ASSUME IInv, NEW c \in Callers, Finish(c) PROVE IInv'
<1>1. PICK k \in Call : k = call[c] /\ CallSound(conn, k)
    BY CallerCounted
<1>2. k.pc = "holding" /\ k.joined = None /\ UNCHANGED <<mode, live, cut>> /\ call' = [call EXCEPT ![c] = Over]
    BY <1>1 DEF Finish, CallSound
<1>3. PICK t : conn' = t /\ (t = conn \/ t = [conn EXCEPT !.authRequired = TRUE])
    BY DEF Finish
<1>4. Sound(conn) /\ BoundTo(conn) /\ conn \in Connection /\ live \in Versions
    BY ConnFacts
<1>5. /\ t \in Connection /\ t.closed = conn.closed /\ t.lease = conn.lease /\ t.client = conn.client
      /\ t.connecting = conn.connecting /\ t.generation = conn.generation /\ t.digest = conn.digest
      /\ t.att = conn.att /\ t.waiters = conn.waiters
    BY <1>3, <1>4 DEF Connection
<1>6. Sound(t)
    BY <1>4, <1>5 DEF Sound, Runs
<1>7. BoundTo(t)
    BY <1>4, <1>5 DEF BoundTo, Connected
<1>8. Advances(conn, t) /\ Used(t) = Used(conn)
    BY <1>5 DEF Advances, Used
<1>9. Over \in Call /\ Over.joined = None /\ IsPlaced(Over) /\ CallSound(t, Over)
    BY <1>4, OverSound
<1>10. Moved(conn, t, call[c], Over)
    BY <1>1, <1>2, <1>5, <1>9 DEF Moved, Share
<1> QED BY <1>2, <1>3, <1>6, <1>7, <1>8, <1>9, <1>10, CallMoves

\* A call that finds an attempt in flight counts among its waiters from here.
LEMMA ArriveHolds ==
    ASSUME IInv, NEW c \in Callers, Arrive(c) PROVE IInv'
<1>1. PICK i \in Call : i = call[c] /\ CallSound(conn, i)
    BY CallerCounted
<1>2. i.joined = None /\ ~IsPlaced(call[c]) /\ UNCHANGED <<mode, live, cut>>
    BY <1>1 DEF Arrive, CallSound, IsPlaced
<1>3. PICK k : k = [Idle EXCEPT !.joined = conn.connecting, !.since = live]
    OBVIOUS
<1>4. PICK s : s = IF conn.connecting = None THEN conn ELSE Join(conn, conn.connecting)
    OBVIOUS
<1>5. /\ conn \in Connection /\ live \in Versions /\ mode \in {"oauth", "credential"}
      /\ Sound(conn) /\ BoundTo(conn) /\ Advances(conn, conn)
      /\ conn.connecting \in Attempts \cup {None}
      /\ Connected(conn) = None => conn.client = None /\ conn.connecting = None
    BY ConnFacts
<1>6. 0 \in Versions /\ 0 <= live /\ live <= live
    BY <1>5, MaxVersionNatural DEF Versions
<1>7. /\ k \in Call /\ k.joined = conn.connecting /\ k.seen = 0 /\ k.since = live
    <2>1. Idle \in Call /\ Idle.seen = 0
        BY <1>6 DEF Idle, Call
    <2> QED BY <1>3, <1>5, <2>1 DEF Call
<1>8. CASE call' = [call EXCEPT ![c] = Over] /\ conn' = conn
    <2>1. Over \in Call /\ Over.joined = None /\ IsPlaced(Over) /\ CallSound(conn, Over)
        BY <1>5, OverSound
    <2>2. Moved(conn, conn, call[c], Over)
        BY <1>1, <1>2, <2>1 DEF Moved, Share
    <2> QED BY <1>2, <1>5, <1>8, <2>1, <2>2, CallMoves
<1>9. CASE mode = "oauth" /\ Connected(conn) = None /\ Proceed(c, s, k)
    <2>1. s = conn /\ conn.client = None /\ conn.connecting = None
        BY <1>4, <1>5, <1>9
    <2> QED BY <1>1, <1>2, <1>5, <1>6, <1>7, <1>9, <2>1, ProceedHolds
<1>10. CASE /\ conn' = s
            /\ call' = [call EXCEPT ![c] = [k EXCEPT !.pc = IF mode = "oauth" THEN "epoch" ELSE "credential"]]
    <2>1. PICK r : r = [k EXCEPT !.pc = IF mode = "oauth" THEN "epoch" ELSE "credential"]
        OBVIOUS
    <2>2. /\ r \in Call /\ r.joined = conn.connecting /\ r.seen = 0 /\ r.since = live
          /\ r.pc = (IF mode = "oauth" THEN "epoch" ELSE "credential")
        BY <1>7, <2>1 DEF Call
    <2>3. /\ Sound(s) /\ BoundTo(s) /\ Keeps(conn, s)
          /\ \A a \in Attempts :
               s.waiters[a] = conn.waiters[a] + (IF conn.connecting = a THEN 1 ELSE 0)
        <3>1. \A a \in Attempts : conn.waiters[a] \in Nat
            BY <1>5, NumbersFresh DEF Connection
        <3>2. CASE conn.connecting = None
            BY <1>4, <1>5, <3>1, <3>2, NumbersFresh DEF Keeps
        <3>3. CASE conn.connecting # None
            <4>1. PICK a \in Attempts : a = conn.connecting
                BY <1>5, <3>3
            <4>2. conn.waiters[a] < Cardinality(Callers)
                BY <1>1, <1>2, <4>1, CallerCounted, NumbersFresh
            <4>3. s = Join(conn, a)
                BY <1>4, <3>3, <4>1
            <4>4. /\ Sound(s) /\ BoundTo(s) /\ Keeps(conn, s)
                  /\ \A b \in Attempts :
                       s.waiters[b] = conn.waiters[b] + (IF a = b THEN 1 ELSE 0)
                BY <1>5, <4>2, <4>3, JoinSound
            <4> QED BY <4>1, <4>4
        <3> QED BY <3>2, <3>3
    <2>4. Advances(conn, s) /\ Used(s) = Used(conn)
        BY <2>3, KeepsAdvances
    <2>5. r.joined # None => s.att[r.joined].pc # "unused"
        BY <1>5, <2>2, <2>3 DEF Sound, Runs, Keeps
    <2>6. CallSound(s, r)
        BY <1>5, <1>6, <2>2, <2>5 DEF CallSound
    <2>7. Moved(conn, s, call[c], r)
        <3>1. \A a \in Attempts : conn.waiters[a] \in Nat
            BY <1>5, NumbersFresh DEF Connection
        <3> QED BY <1>1, <1>2, <2>2, <2>3, <3>1, NumbersFresh DEF Moved, Share
    <2>8. conn' = s /\ call' = [call EXCEPT ![c] = r]
        BY <1>10, <2>1
    <2> QED BY <1>2, <2>2, <2>3, <2>4, <2>6, <2>7, <2>8, CallMoves
<1> QED BY <1>3, <1>4, <1>8, <1>9, <1>10 DEF Arrive

-----------------------------------------------------------------------------
(* connect(), step by step, and what else happens to the connection. *)

\* What a step that moves no call has to show.
LEMMA ConnMoves ==
    ASSUME IInv, NEW t, Sound(t), BoundTo(t), Advances(conn, t), Used(t) = Used(conn),
           t.waiters = conn.waiters, conn' = t, UNCHANGED <<mode, live, cut, call>>
    PROVE  IInv'
<1>1. conn \in Connection /\ call \in [Callers -> Call] /\ CallsSound(conn, call)
    BY DEF IInv, TypeOK
<1>2. \A d \in Callers : CallSound(t, call[d])
    BY <1>1, CallKept DEF CallsSound
<1>3. CallsSound(t, call)
    BY <1>1, <1>2 DEF CallsSound
<1>4. TypeOK'
    BY DEF IInv, TypeOK, Sound
<1>5. CallsSound(conn, call)'
    BY <1>3 DEF CallsSound, CallSound, JoinedTo, Placed, Used
<1>6. Sound(conn)' /\ BoundTo(conn)'
    BY DEF Sound, BoundTo, Runs, Connected
<1> QED BY <1>4, <1>5, <1>6 DEF IInv

LEMMA AttemptFacts ==
    ASSUME IInv, NEW a \in Attempts PROVE conn.att[a] \in Attempt /\ conn.att \in [Attempts -> Attempt]
BY ConnFacts DEF Connection

LEMMA FailHolds ==
    ASSUME IInv, NEW a \in Attempts, Runs(conn, a), NEW auth \in BOOLEAN, conn' = Fail(conn, a, auth),
           UNCHANGED <<mode, live, cut, call>>
    PROVE  IInv'
<1>1. PICK t : t = Fail(conn, a, auth)
    OBVIOUS
<1>2. Sound(conn) /\ BoundTo(conn)
    BY ConnFacts
<1>3. Sound(t) /\ BoundTo(t) /\ Advances(conn, t) /\ Used(t) = Used(conn) /\ t.waiters = conn.waiters
    BY <1>1, <1>2, FailSound
<1> QED BY <1>1, <1>3, ConnMoves

LEMMA EarlyMoveHolds ==
    ASSUME IInv, NEW a \in Attempts, conn.att[a].pc \in {"prepare", "handshake", "recheck"},
           NEW r \in Attempt, r.pc \in {"handshake", "recheck", "checked"},
           r.lease = conn.att[a].lease, r.bound = conn.att[a].bound,
           conn' = [conn EXCEPT !.att = [conn.att EXCEPT ![a] = r]], UNCHANGED <<mode, live, cut, call>>
    PROVE  IInv'
<1>1. PICK t : t = [conn EXCEPT !.att = [conn.att EXCEPT ![a] = r]]
    OBVIOUS
<1>2. Sound(conn) /\ BoundTo(conn) /\ live \in Versions
    BY ConnFacts
<1>3. Sound(t) /\ BoundTo(t) /\ Advances(conn, t) /\ Used(t) = Used(conn) /\ t.waiters = conn.waiters
    BY <1>1, <1>2, EarlyMoveSound
<1> QED BY <1>1, <1>3, ConnMoves

LEMMA BeginFlowHolds ==
    ASSUME IInv, NEW a \in Attempts, BeginFlow(a) PROVE IInv'
<1>1. /\ conn.att[a] \in Attempt /\ conn.att \in [Attempts -> Attempt] /\ conn.att[a].pc = "begin"
      /\ Sound(conn) /\ BoundTo(conn) /\ live \in Versions /\ UNCHANGED <<mode, live, cut, call>>
    BY AttemptFacts, ConnFacts DEF BeginFlow, Same
<1>2. PICK r \in Attempt : r = [conn.att[a] EXCEPT !.bound = live]
    BY <1>1 DEF Attempt
<1>3. PICK s : s = [conn EXCEPT !.att = [conn.att EXCEPT ![a] = r]]
    OBVIOUS
<1>4. /\ r.pc = "begin" /\ r.lease = conn.att[a].lease /\ r.bound = live
    BY <1>1, <1>2 DEF Attempt
<1>5. Sound(s) /\ BoundTo(s) /\ Advances(conn, s) /\ Used(s) = Used(conn) /\ s.waiters = conn.waiters
    BY <1>1, <1>3, <1>4, EarlyMoveSound
<1>6. \/ conn' = Fail(s, a, FALSE)
      \/ conn' = Fail(s, a, TRUE)
      \/ conn' = [s EXCEPT !.att[a].pc = "prepare"]
    <2>1. s = [conn EXCEPT !.att[a].bound = live]
        BY <1>2, <1>3
    <2> QED BY <2>1 DEF BeginFlow
<1>7. s.att[a].pc = "begin" /\ s \in Connection /\ s.att \in [Attempts -> Attempt]
    BY <1>1, <1>3, <1>4, <1>5 DEF Sound, Connection
<1>8. ASSUME NEW auth \in BOOLEAN, conn' = Fail(s, a, auth) PROVE IInv'
    <2>1. PICK t : t = Fail(s, a, auth)
        OBVIOUS
    <2>2. Runs(s, a)
        BY <1>7 DEF Runs
    <2>3. Sound(t) /\ BoundTo(t) /\ Advances(s, t) /\ Used(t) = Used(s) /\ t.waiters = s.waiters
        BY <1>5, <2>1, <2>2, FailSound
    <2>4. Advances(conn, t)
        BY <1>5, <2>3, AdvancesOn
    <2> QED BY <1>1, <1>5, <1>8, <2>1, <2>3, <2>4, ConnMoves
<1>9. CASE conn' = [s EXCEPT !.att[a].pc = "prepare"]
    <2>1. PICK q \in Attempt : q = [r EXCEPT !.pc = "prepare"]
        BY DEF Attempt
    <2>2. PICK t : t = [conn EXCEPT !.att = [conn.att EXCEPT ![a] = q]]
        OBVIOUS
    <2>3. conn' = t
        BY <1>1, <1>3, <1>9, <2>1, <2>2, ConnFacts DEF Connection
    <2>4. q.pc = "prepare" /\ q.lease = conn.att[a].lease /\ q.bound = live
        BY <1>4, <2>1 DEF Attempt
    <2>5. Sound(t) /\ BoundTo(t) /\ Advances(conn, t) /\ Used(t) = Used(conn) /\ t.waiters = conn.waiters
        BY <1>1, <2>2, <2>4, EarlyMoveSound
    <2> QED BY <1>1, <2>3, <2>5, ConnMoves
<1>10. CASE conn' = Fail(s, a, FALSE)
    BY <1>8, <1>10
<1>11. CASE conn' = Fail(s, a, TRUE)
    BY <1>8, <1>11
<1> QED BY <1>6, <1>9, <1>10, <1>11

LEMMA PrepareHolds ==
    ASSUME IInv, NEW a \in Attempts, Prepare(a) PROVE IInv'
<1>1. conn.att[a] \in Attempt /\ conn.att[a].pc = "prepare" /\ UNCHANGED <<mode, live, cut, call>>
    BY AttemptFacts DEF Prepare, Same
<1>2. CASE conn' = Fail(conn, a, FALSE)
    BY <1>1, <1>2, FailHolds DEF Runs
<1>3. CASE conn' = [conn EXCEPT !.att[a].pc = "handshake"]
    <2>1. PICK r \in Attempt : r = [conn.att[a] EXCEPT !.pc = "handshake"]
        BY <1>1 DEF Attempt
    <2>2. r.pc = "handshake" /\ r.lease = conn.att[a].lease /\ r.bound = conn.att[a].bound
        BY <1>1, <2>1 DEF Attempt
    <2>3. conn' = [conn EXCEPT !.att = [conn.att EXCEPT ![a] = r]]
        BY <1>3, <2>1
    <2> QED BY <1>1, <2>2, <2>3, EarlyMoveHolds
<1> QED BY <1>2, <1>3 DEF Prepare

LEMMA SessionIssuedHolds ==
    ASSUME IInv, NEW a \in Attempts, SessionIssued(a) PROVE IInv'
<1>1. conn.att[a] \in Attempt /\ conn.att[a].pc = "handshake" /\ UNCHANGED <<mode, live, cut, call>>
    BY AttemptFacts DEF SessionIssued, Same
<1>2. PICK r \in Attempt : r = [conn.att[a] EXCEPT !.session = "open"]
    BY <1>1 DEF Attempt
<1>3. r.pc = "handshake" /\ r.lease = conn.att[a].lease /\ r.bound = conn.att[a].bound
    BY <1>1, <1>2 DEF Attempt
<1>4. conn' = [conn EXCEPT !.att = [conn.att EXCEPT ![a] = r]]
    BY <1>2 DEF SessionIssued
<1> QED BY <1>1, <1>3, <1>4, EarlyMoveHolds

LEMMA RenegotiateHolds ==
    ASSUME IInv, NEW a \in Attempts, Renegotiate(a) PROVE IInv'
<1>1. conn.att[a] \in Attempt /\ conn.att[a].pc = "handshake" /\ UNCHANGED <<mode, live, cut, call>>
    BY AttemptFacts DEF Renegotiate, Same
<1>2. PICK r \in Attempt : r = [conn.att[a] EXCEPT !.session = "none", !.dropped = TRUE]
    BY <1>1 DEF Attempt
<1>3. r.pc = "handshake" /\ r.lease = conn.att[a].lease /\ r.bound = conn.att[a].bound
    BY <1>1, <1>2 DEF Attempt
<1>4. conn' = [conn EXCEPT !.att = [conn.att EXCEPT ![a] = r]]
    BY ZenonT(60), <1>1, <1>2, AttemptFacts, ConnFacts DEF Renegotiate, Connection, Attempt
<1> QED BY <1>1, <1>3, <1>4, EarlyMoveHolds

LEMMA RecheckHolds ==
    ASSUME IInv, NEW a \in Attempts, Recheck(a) PROVE IInv'
<1>1. /\ conn.att[a] \in Attempt /\ conn.att[a].pc = "recheck" /\ live \in Versions
      /\ UNCHANGED <<mode, live, cut, call>>
    BY AttemptFacts, ConnFacts DEF Recheck, Same
<1>2. PICK r \in Attempt : r = [conn.att[a] EXCEPT !.pc = "checked", !.seen = live]
    BY <1>1 DEF Attempt
<1>3. r.pc = "checked" /\ r.lease = conn.att[a].lease /\ r.bound = conn.att[a].bound
    BY <1>1, <1>2 DEF Attempt
<1>4. conn' = [conn EXCEPT !.att = [conn.att EXCEPT ![a] = r]]
    BY ZenonT(60), <1>1, <1>2, AttemptFacts, ConnFacts DEF Recheck, Connection, Attempt
<1> QED BY <1>1, <1>3, <1>4, EarlyMoveHolds

LEMMA PublishHolds ==
    ASSUME IInv, NEW a \in Attempts, Owned(conn, a), conn.att[a].pc \in {"handshake", "checked"},
           conn' \in Publish(conn, a), UNCHANGED <<mode, live, cut, call>>
    PROVE  IInv'
<1>1. PICK t \in Publish(conn, a) : conn' = t
    OBVIOUS
<1>2. Sound(conn) /\ BoundTo(conn)
    BY ConnFacts
<1>3. Sound(t) /\ BoundTo(t) /\ Advances(conn, t) /\ Used(t) = Used(conn) /\ t.waiters = conn.waiters
    BY <1>2, PublishSound
<1> QED BY <1>1, <1>3, ConnMoves

LEMMA HandshakeDoneHolds ==
    ASSUME IInv, NEW a \in Attempts, HandshakeDone(a) PROVE IInv'
<1>1. conn.att[a] \in Attempt /\ conn.att[a].pc = "handshake" /\ UNCHANGED <<mode, live, cut, call>>
    BY AttemptFacts DEF HandshakeDone, Same
<1>2. CASE conn' = Fail(conn, a, FALSE)
    BY <1>1, <1>2, FailHolds DEF Runs
<1>3. CASE conn' = [conn EXCEPT !.att[a].pc = "recheck"]
    <2>1. PICK r \in Attempt : r = [conn.att[a] EXCEPT !.pc = "recheck"]
        BY <1>1 DEF Attempt
    <2>2. r.pc = "recheck" /\ r.lease = conn.att[a].lease /\ r.bound = conn.att[a].bound
        BY <1>1, <2>1 DEF Attempt
    <2>3. conn' = [conn EXCEPT !.att = [conn.att EXCEPT ![a] = r]]
        BY <1>3, <2>1
    <2> QED BY <1>1, <2>2, <2>3, EarlyMoveHolds
<1>4. CASE Owned(conn, a) /\ conn' \in Publish(conn, a)
    BY <1>1, <1>4, PublishHolds
<1> QED BY <1>2, <1>3, <1>4 DEF HandshakeDone

LEMMA CheckedHolds ==
    ASSUME IInv, NEW a \in Attempts, Checked(a) PROVE IInv'
<1>1. conn.att[a].pc = "checked" /\ UNCHANGED <<mode, live, cut, call>>
    BY DEF Checked, Same
<1>2. CASE conn' = Fail(conn, a, FALSE)
    BY <1>1, <1>2, FailHolds DEF Runs
<1>3. CASE conn' = Fail(conn, a, TRUE)
    BY <1>1, <1>3, FailHolds DEF Runs
<1>4. CASE Owned(conn, a) /\ conn' \in Publish(conn, a)
    BY <1>1, <1>4, PublishHolds
<1> QED BY <1>2, <1>3, <1>4 DEF Checked

\* The attempt that stored the verdict is the one whose client is cached.
LEMMA StoredHolds ==
    ASSUME IInv, NEW a \in Attempts, Stored(a) PROVE IInv'
<1>1. conn.att[a].pc = "store" /\ UNCHANGED <<mode, live, cut, call>>
    BY DEF Stored, Same
<1>2. CASE conn' = Fail(conn, a, FALSE)
    BY <1>1, <1>2, FailHolds DEF Runs
<1>3. CASE Owned(conn, a) /\ conn' = Exit(conn, a, "ready")
    <2>1. PICK t : t = Exit(conn, a, "ready")
        OBVIOUS
    <2>2. conn \in Connection /\ Sound(conn) /\ BoundTo(conn)
        BY ConnFacts
    <2>3. conn.connecting = a /\ conn.lease = a /\ conn.client = a
        BY <1>1, <1>3, <2>2, NumbersFresh DEF Owned, Sound
    <2>4. /\ t \in Connection /\ t.closed = conn.closed /\ t.lease = conn.lease /\ t.client = conn.client
          /\ t.connecting = (IF conn.connecting = a THEN None ELSE conn.connecting)
          /\ t.generation = conn.generation /\ t.digest = conn.digest /\ t.waiters = conn.waiters
          /\ \A b \in Attempts :
               /\ t.att[b].pc = IF b = a THEN "ready" ELSE conn.att[b].pc
               /\ t.att[b].bound = conn.att[b].bound
               /\ t.att[b].lease = conn.att[b].lease /\ t.att[b].session = conn.att[b].session
        <3>1. conn \in Connection /\ a \in Attempts /\ "ready" \in {"ready", "failed"} /\ t = Exit(conn, a, "ready")
            BY <2>1, <2>2
        <3> QED BY <3>1, ExitFacts
    <2>5. t.connecting = None
        BY <2>3, <2>4
    <2>6. Sound(t)
        BY <2>2, <2>3, <2>4, <2>5, NumbersFresh DEF Sound, Runs
    <2>7. BoundTo(t)
        BY <2>2, <2>3, <2>4, <2>5, NumbersFresh DEF BoundTo, Connected
    <2>8. Advances(conn, t) /\ Used(t) = Used(conn)
        BY <1>1, <2>4 DEF Advances, Used
    <2> QED BY <1>1, <1>3, <2>1, <2>4, <2>6, <2>7, <2>8, ConnMoves
<1> QED BY <1>2, <1>3 DEF Stored

LEMMA ConnectFailsHolds ==
    ASSUME IInv, NEW a \in Attempts, ConnectFails(a) PROVE IInv'
BY FailHolds DEF ConnectFails, Same, Runs

LEMMA EraRefusedHolds == ASSUME IInv, EraRefused PROVE IInv'
<1>1. PICK t : conn' = t /\ t = [conn EXCEPT !.eraRefused = TRUE]
    BY DEF EraRefused
<1>2. Sound(conn) /\ BoundTo(conn) /\ conn \in Connection /\ UNCHANGED <<mode, live, cut, call>>
    BY ConnFacts DEF EraRefused, Same
<1>3. /\ t \in Connection /\ t.closed = conn.closed /\ t.lease = conn.lease /\ t.client = conn.client
      /\ t.connecting = conn.connecting /\ t.generation = conn.generation /\ t.digest = conn.digest
      /\ t.att = conn.att /\ t.waiters = conn.waiters
    BY <1>1, <1>2 DEF Connection
<1>4. Sound(t)
    BY <1>2, <1>3 DEF Sound, Runs
<1>5. BoundTo(t)
    BY <1>2, <1>3 DEF BoundTo, Connected
<1>6. Advances(conn, t) /\ Used(t) = Used(conn)
    BY <1>3 DEF Advances, Used
<1> QED BY <1>1, <1>2, <1>3, <1>4, <1>5, <1>6, ConnMoves

LEMMA ReplaceHolds == ASSUME IInv, Replace PROVE IInv'
<1>1. /\ live \in Nat /\ live' = live + 1 /\ live' \in Versions /\ UNCHANGED <<mode, conn, call>>
      /\ cut' \subseteq Versions
    <2>1. live \in Nat /\ live' = live + 1 /\ live' \in Versions /\ UNCHANGED <<mode, conn, call>>
        BY MaxVersionNatural DEF IInv, TypeOK, Replace, Versions
    <2>2. cut \subseteq Versions /\ (cut' = cut \/ cut' = cut \cup {live'})
        BY DEF IInv, TypeOK, Replace
    <2> QED BY <2>1, <2>2
<1>2. TypeOK' /\ Sound(conn)'
    BY <1>1 DEF IInv, TypeOK, Sound, Runs
<1>3. BoundTo(conn)'
    <2>1. \A a \in Attempts : conn.att[a].bound \in Nat
        BY DEF IInv, TypeOK, Connection, Attempt, Versions
    <2> QED BY <1>1, <2>1 DEF IInv, BoundTo, Connected
<1>4. CallsSound(conn, call)'
    <2>1. \A c \in Callers : call[c].since \in Nat /\ call[c].seen \in Nat
        BY DEF IInv, TypeOK, Call, Versions
    <2>2. \A c \in Callers : CallSound(conn, call[c])'
        BY <1>1, <2>1 DEF IInv, CallsSound, CallSound
    <2> QED BY <1>1, <2>2 DEF IInv, CallsSound, JoinedTo, Placed, Used
<1> QED BY <1>2, <1>3, <1>4 DEF IInv

LEMMA ResetHereHolds == ASSUME IInv, ResetHere PROVE IInv'
<1>1. PICK t : conn' = t /\ t = CloseHalf(conn)
    BY DEF ResetHere
<1>2. UNCHANGED <<mode, live, cut, call>>
    BY DEF ResetHere, Same
<1> QED BY <1>1, <1>2, ClosedFacts, ConnMoves

\* Every lease is closed with the scope.
LEMMA CloseScopeHolds == ASSUME IInv, CloseScope PROVE IInv'
<1>1. conn \in Connection /\ Sound(conn) /\ BoundTo(conn)
    BY ConnFacts
<1>2. PICK u : u = Reset(conn)
    OBVIOUS
<1>3. PICK f : f = [a \in Attempts |-> CloseLease(conn, a).att[a]]
    OBVIOUS
<1>4. PICK t : conn' = t /\ t = [u EXCEPT !.closed = TRUE, !.att = f] /\ UNCHANGED <<mode, live, cut, call>>
    BY <1>2, <1>3 DEF CloseScope, Same
<1>5. /\ u \in Connection /\ u.waiters = conn.waiters
      /\ u.lease = None /\ u.client = None /\ u.connecting = None
    BY <1>1, <1>2, ResetFacts
<1>6. ASSUME NEW a \in Attempts
      PROVE  /\ f[a] \in Attempt /\ f[a].pc = conn.att[a].pc /\ f[a].bound = conn.att[a].bound
             /\ f[a].lease # "open"
             /\ f[a].session = "open" => conn.att[a].session = "open" /\ conn.att[a].lease # "open"
    <2>1. PICK v : v = CloseLease(conn, a)
        OBVIOUS
    <2>2. /\ v \in Connection /\ Keeps(conn, v)
          /\ \A b \in Attempts :
               /\ v.att[b].lease = "open" <=> conn.att[b].lease = "open" /\ b # a
               /\ v.att[b].session = "open" <=>
                    conn.att[b].session = "open" /\ ~(b = a /\ conn.att[a].lease = "open")
        BY <1>1, <2>1, CloseLeaseFacts
    <2>3. f[a] = v.att[a]
        BY <1>3, <2>1
    <2> QED BY <2>2, <2>3 DEF Connection, Keeps
<1>7. f \in [Attempts -> Attempt]
    BY <1>3, <1>6
<1>8. /\ t \in Connection /\ t.att = f /\ t.waiters = conn.waiters
      /\ t.lease = None /\ t.client = None /\ t.connecting = None
    BY <1>4, <1>5, <1>7 DEF Connection
<1>9. Sound(t) /\ BoundTo(t)
    <2>1. \A a \in Attempts : t.att[a].pc = conn.att[a].pc /\ t.att[a].bound = conn.att[a].bound
        BY <1>6, <1>8
    <2>2. \A a \in Attempts : t.att[a].lease # "open"
        BY <1>6, <1>8
    <2>3. \A a \in Attempts : t.att[a].session = "open" => conn.att[a].session = "open" /\ conn.lease # a
        BY <1>1, <1>6, <1>8 DEF Sound
    <2> QED BY <1>1, <1>8, <2>1, <2>2, <2>3, EmptySound
<1>10. Advances(conn, t) /\ Used(t) = Used(conn)
    BY <1>6, <1>8 DEF Advances, Used
<1> QED BY <1>4, <1>8, <1>9, <1>10, ConnMoves

-----------------------------------------------------------------------------

LEMMA InitHolds == Init => IInv
<1> SUFFICES ASSUME Init PROVE IInv
    OBVIOUS
<1>1. 0 \in Versions /\ live = 0
    BY MaxVersionNatural DEF Init, Versions
<1>2. Unused \in Attempt /\ Idle \in Call
    BY <1>1 DEF Unused, Attempt, Idle, Call
<1>3. [a \in Attempts |-> 0] \in [Attempts -> 0 .. Cardinality(Callers)]
    BY NumbersFresh
<1>4. conn \in Connection /\ call \in [Callers -> Call]
    BY <1>2, <1>3 DEF Init, Connection
<1>5. /\ conn.lease = None /\ conn.client = None /\ conn.connecting = None /\ ~conn.closed
      /\ \A a \in Attempts : conn.att[a] = Unused /\ conn.waiters[a] = 0
    BY DEF Init
<1>6. Sound(conn) /\ BoundTo(conn)
    BY <1>1, <1>4, <1>5, NumbersFresh DEF Sound, BoundTo, Runs, Connected, Unused
<1>7. \A c \in Callers : call[c].joined = None /\ call[c].pc = "idle" /\ CallSound(conn, call[c])
    BY <1>1 DEF Init, Idle, CallSound
<1>8. \A a \in Attempts : conn.waiters[a] = Cardinality(JoinedTo(call, a))
    <2>1. \A a \in Attempts : JoinedTo(call, a) = {}
        BY <1>7, NumbersFresh DEF JoinedTo
    <2> QED BY <1>5, <2>1, FS_EmptySet
<1>9. Cardinality(Used(conn)) <= Cardinality(Placed(call))
    <2>1. Used(conn) = {} /\ Placed(call) = {}
        BY <1>5, <1>7 DEF Used, Placed, Unused
    <2> QED BY <2>1, FS_EmptySet
<1> QED BY <1>1, <1>4, <1>6, <1>7, <1>8, <1>9 DEF IInv, TypeOK, CallsSound, Init

LEMMA StepHolds == IInv /\ [Next]_vars => IInv'
<1> SUFFICES ASSUME IInv, [Next]_vars PROVE IInv'
    OBVIOUS
<1>1. ASSUME NEW c \in Callers, CallStep(c) \/ Arrive(c) \/ ReadFails(c) \/ Cancel(c) \/ Finish(c) PROVE IInv'
    BY <1>1, ReadLiveHolds, EpochSeenHolds, DigestSeenHolds, RereadHolds, WakeHolds, ArriveHolds,
       ReadFailsHolds, CancelHolds, FinishHolds DEF CallStep
<1>2. ASSUME NEW a \in Attempts, AttemptStep(a) \/ SessionIssued(a) \/ Renegotiate(a) PROVE IInv'
    BY <1>2, BeginFlowHolds, PrepareHolds, HandshakeDoneHolds, RecheckHolds, CheckedHolds, StoredHolds,
       ConnectFailsHolds, SessionIssuedHolds, RenegotiateHolds DEF AttemptStep
<1>3. CASE UNCHANGED vars
    BY <1>3 DEF vars, IInv, TypeOK, Sound, BoundTo, Runs, Connected, CallsSound, CallSound, JoinedTo, Placed, Used
<1>4. CASE Next
    BY <1>1, <1>2, <1>4, EraRefusedHolds, ReplaceHolds, ResetHereHolds, CloseScopeHolds DEF Next
<1> QED BY <1>3, <1>4

LEMMA InvariantHolds == Spec => []IInv
BY InitHolds, StepHolds, PTL DEF Spec

\* Every variable keeps its shape: an attempt is left for every call that
\* starts one (startConnect), and a call leaves an attempt it has joined.
THEOREM TypesHold == Spec => []TypeOK
<1>1. IInv => TypeOK
    BY DEF IInv
<1> QED BY <1>1, InvariantHolds, PTL

\* No session issued to the scope is forgotten: closeHalf, the abort of the
\* last waiter, the catch of connect and closeConnectionScope leave each to a
\* lease that is open or to an attempt that ends it when it ends.
THEOREM SessionOwnedHolds == Spec => []SessionOwned
<1>1. IInv => SessionOwned
    BY NumbersFresh DEF IInv, Sound, SessionOwned, Running, Runs
<1> QED BY <1>1, InvariantHolds, PTL

\* However calls, resets and rotations interleave, one lease at most is open,
\* an attempt running under it is the published one, and a closed scope holds
\* nothing (startConnect, connect's ownership checks, closeConnectionScope).
THEOREM OneAttemptHolds == Spec => []OneAttempt
<1>1. IInv => OneAttempt
    BY NumbersFresh DEF IInv, Sound, OneAttempt, Running, Runs
<1> QED BY <1>1, InvariantHolds, PTL

\* What ensureConnected() finds cached is a client whose lease is open, or one
\* whose verdict could not be stored.
THEOREM CachedUsableHolds == Spec => []CachedUsable
<1>1. IInv => CachedUsable
    BY DEF IInv, Sound, CachedUsable, Connection
<1> QED BY <1>1, InvariantHolds, PTL

\* A call is never handed a client of a credential or an epoch replaced before
\* it arrived, but for the OAuth attempt it joined in flight (the epoch and
\* digest checks of ensureConnected, the rotation check, connect's recheck).
THEOREM NotStaleHolds == Spec => []NotStale
<1>1. IInv => NotStale
    BY DEF IInv, CallsSound, CallSound, NotStale
<1> QED BY <1>1, InvariantHolds, PTL
=============================================================================
