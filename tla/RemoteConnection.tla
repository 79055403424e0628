--------------------------- MODULE RemoteConnection ---------------------------
(***************************************************************************)
(* The connection one request scope keeps to a remote MCP server,          *)
(* src/src/connectors/remote-mcp/connection.ts: calls of the request share *)
(* one client, join the connect attempt in flight or start one, and check  *)
(* before reuse that the credential or the OAuth epoch is still the one    *)
(* the client is bound to.                                                 *)
(*                                                                         *)
(* What is stored, the operator's credential or the OAuth epoch, is the    *)
(* number of times it was replaced. An attempt, its lease, its client and  *)
(* its transport are one number: an attempt makes one of each. A step ends *)
(* where the code awaits.                                                  *)
(***************************************************************************)
EXTENDS Naturals, FiniteSets

CONSTANTS
    Callers,        \* the calls of this request, each made once
    Modes,          \* connectors: "oauth", "credential"
    MaxVersion,     \* bound on the replacements of what is stored
    None

ASSUME ModesKnown == Modes \subseteq {"oauth", "credential"}
ASSUME MaxVersionNatural == MaxVersion \in Nat
ASSUME CallersFinite == IsFiniteSet(Callers)
ASSUME NoneIsFresh == None \notin Nat

VARIABLES
    mode,       \* the connector's auth: "oauth" or "credential"
    live,       \* the version stored now: the epoch, or the credential
    cut,        \* the epochs that begin with an operator's disconnect
    conn,       \* ConnectionState, with the attempts made so far
    call        \* each call's ensureConnected() and the call itself

vars == <<mode, live, cut, conn, call>>

\* Every call starts at most one attempt.
Attempts == 1 .. Cardinality(Callers)
Versions == 0 .. MaxVersion

\* An attempt: what it is bound to, the epoch it saw when it rechecked, its
\* lease, and the session the server issued to it. An ended session has its
\* DELETE under way, which is bounded; a dropped one never has.
Attempt ==
    [pc : {"unused", "begin", "prepare", "handshake", "recheck", "checked", "store", "ready", "failed"},
     bound : Versions, seen : Versions, lease : {"none", "open", "closed"},
     session : {"none", "open", "ended"}, dropped : BOOLEAN]

Connection ==
    [closed : BOOLEAN, lease : Attempts \cup {None}, client : Attempts \cup {None},
     connecting : Attempts \cup {None}, authRequired : BOOLEAN, eraRefused : BOOLEAN,
     generation : Versions \cup {None}, digest : Versions \cup {None},
     att : [Attempts -> Attempt], waiters : [Attempts -> 0 .. Cardinality(Callers)]]

\* since and stale are history: the version stored when the call arrived, and
\* whether it was handed a client bound to an older one.
Call ==
    [pc : {"idle", "epoch", "epochSeen", "credential", "digest", "reread", "waiting", "holding", "over"},
     joined : Attempts \cup {None}, seen : Versions, observed : Attempts \cup {None},
     shared : BOOLEAN, since : Versions,
     handed : Attempts \cup {None}, stale : BOOLEAN]

\* The shape of every variable.
TypeOK ==
    /\ mode \in Modes
    /\ live \in Versions
    /\ cut \subseteq Versions
    /\ conn \in Connection
    /\ call \in [Callers -> Call]

Unused ==
    [pc |-> "unused", bound |-> 0, seen |-> 0, lease |-> "none", session |-> "none",
     dropped |-> FALSE]

Idle ==
    [pc |-> "idle", joined |-> None, seen |-> 0, observed |-> None,
     shared |-> FALSE, since |-> 0, handed |-> None, stale |-> FALSE]

Init ==
    /\ mode \in Modes
    /\ live = 0
    /\ cut = {}
    /\ conn = [closed |-> FALSE, lease |-> None, client |-> None, connecting |-> None,
               authRequired |-> FALSE, eraRefused |-> FALSE, generation |-> None, digest |-> None,
               att |-> [a \in Attempts |-> Unused], waiters |-> [a \in Attempts |-> 0]]
    /\ call = [c \in Callers |-> Idle]

-----------------------------------------------------------------------------
\* The state a connection is in after each of the functions it is made of.

Running(a) == conn.att[a].pc \notin {"unused", "ready", "failed"}

\* closeConnection(): the session, if the transport holds one by now and no
\* close has taken it, is ended.
EndSession(s, a) ==
    [s EXCEPT !.att[a].session = IF @ = "open" THEN "ended" ELSE @]

\* Scope.closeUnsafe(lease): its finalizer runs once.
CloseLease(s, a) ==
    IF s.att[a].lease = "open" THEN EndSession([s EXCEPT !.att[a].lease = "closed"], a) ELSE s

\* Fault: a reset leaves the client cached.
ResetKeepsClient(s) ==
    [s EXCEPT !.lease = None, !.connecting = None, !.authRequired = FALSE,
              !.eraRefused = FALSE, !.generation = None, !.digest = None]

Reset(s) ==
    [s EXCEPT !.lease = None, !.client = None, !.connecting = None,
              !.authRequired = FALSE, !.eraRefused = FALSE, !.generation = None, !.digest = None]

CloseHalf(s) == IF s.lease = None THEN Reset(s) ELSE CloseLease(Reset(s), s.lease)

\* leave(): the last waiter to go abandons the attempt if its own signal is
\* aborted.
Leave(s, k, aborted) ==
    IF k.joined = None
    THEN s
    ELSE LET left == [s EXCEPT !.waiters[k.joined] = @ - 1]
         IN IF left.waiters[k.joined] = 0 /\ aborted /\ s.connecting = k.joined
            THEN CloseHalf(left)
            ELSE left

Join(s, a) == [s EXCEPT !.waiters[a] = @ + 1]

\* startConnect() and the first steps of connect(): published, leased, and
\* in an OAuth connector waiting for the epoch its flow begins in.
StartConnect(s, a, version) ==
    [s EXCEPT !.connecting = a,
              !.digest = IF mode = "credential" THEN version ELSE None,
              !.lease = a,
              !.att[a] = [Unused EXCEPT !.pc = IF mode = "oauth" THEN "begin" ELSE "prepare",
                                        !.bound = version, !.lease = "open"]]

Connected(s) == IF s.client # None THEN s.client ELSE s.connecting

Owned(s, a) == s.connecting = a /\ ~s.closed

\* What is left of an attempt that is over.
Ended(att, outcome) ==
    [att EXCEPT !.pc = outcome, !.seen = 0]

\* Fault: a completed attempt clears whatever attempt is published.
ExitUnconditional(s, a, outcome) ==
    [s EXCEPT !.connecting = None, !.att[a] = Ended(@, outcome)]

\* The end of an attempt, with the client or with an error: its Deferred
\* is completed last.
Exit(s, a, outcome) ==
    [s EXCEPT !.connecting = IF @ = a THEN None ELSE @, !.att[a] = Ended(@, outcome)]

\* Fault: an abandoned attempt ends without closing what it acquired late.
FailLeavesSession(s, a, auth) ==
    Exit(IF Owned(s, a)
         THEN CloseLease([s EXCEPT !.lease = None, !.authRequired = @ \/ auth], a)
         ELSE s,
         a, "failed")

\* The catch of connect(). An attempt that is still the published one closes
\* its lease; one that was abandoned closes the session it may have acquired
\* after its lease was closed for it.
Fail(s, a, auth) ==
    Exit(IF Owned(s, a)
         THEN CloseLease([s EXCEPT !.lease = None, !.authRequired = @ \/ auth], a)
         ELSE EndSession(s, a),
         a, "failed")

-----------------------------------------------------------------------------
\* ensureConnected()

\* What is left of a call that is over.
Over == [Idle EXCEPT !.pc = "over"]

\* The call ends with an error: finally leave().
Throw(c, s, aborted) ==
    /\ conn' = Leave(s, call[c], aborted)
    /\ call' = [call EXCEPT ![c] = Over]

Hand(c, s, k, a) ==
    /\ conn' = Leave(s, k, FALSE)
    /\ call' = [call EXCEPT ![c] = [Idle EXCEPT !.pc = "holding", !.handed = a, !.shared = k.shared,
                                                !.stale = s.att[a].bound < k.since]]

NextAttempt == CHOOSE a \in Attempts : conn.att[a].pc = "unused"

\* From the last read to the wait: a call that is aborted or whose scope has
\* closed ends; otherwise a client is returned, an attempt joined or started.
\* k is the call as it stands and s the connection.
Proceed(c, s, k) ==
    LET t == IF s.eraRefused THEN CloseHalf(s) ELSE s
        a == IF t.connecting # None THEN t.connecting ELSE NextAttempt
        started == IF t.connecting # None THEN t ELSE StartConnect(t, a, k.seen)
    IN \/ k.pc # "idle" /\ Throw(c, s, TRUE)
       \/ s.closed /\ Throw(c, s, FALSE)
       \/ ~s.closed /\ t.client # None /\ Hand(c, t, k, t.client)
       \/ /\ ~s.closed /\ t.client = None
          /\ conn' = IF k.joined = a THEN started ELSE Join(Leave(started, k, FALSE), a)
          /\ call' = [call EXCEPT ![c] = [Idle EXCEPT !.pc = "waiting", !.joined = a, !.since = k.since,
                                                      !.shared = (t.connecting # None)]]

\* The call arrives: it counts as a waiter of the attempt in flight from here.
Arrive(c) ==
    /\ call[c].pc = "idle"
    /\ LET k == [Idle EXCEPT !.joined = conn.connecting, !.since = live]
           s == IF conn.connecting = None THEN conn ELSE Join(conn, conn.connecting)
       IN \/ /\ conn.closed \/ conn.authRequired
             /\ call' = [call EXCEPT ![c] = Over]
             /\ UNCHANGED conn
          \/ /\ ~conn.closed /\ ~conn.authRequired
             /\ mode = "oauth" /\ Connected(conn) = None
             /\ Proceed(c, s, k)
          \/ /\ ~conn.closed /\ ~conn.authRequired
             /\ mode = "credential" \/ Connected(conn) # None
             /\ conn' = s
             /\ call' = [call EXCEPT ![c] = [k EXCEPT !.pc = IF mode = "oauth" THEN "epoch" ELSE "credential"]]
    /\ UNCHANGED <<mode, live, cut>>

\* The store answers the read of the grant's epoch, or of the credential.
ReadLive(c) ==
    /\ call[c].pc \in {"epoch", "credential"}
    /\ call' = [call EXCEPT ![c].seen = live,
                            ![c].pc = IF @ = "epoch" THEN "epochSeen" ELSE "digest"]
    /\ UNCHANGED <<mode, live, cut, conn>>

\* Fault: a client is reused whatever epoch it is bound to.
EpochSeenUnchecked(c) ==
    /\ call[c].pc = "epochSeen"
    /\ IF call[c].seen \in cut THEN Throw(c, CloseHalf(conn), FALSE) ELSE Proceed(c, conn, call[c])
    /\ UNCHANGED <<mode, live, cut>>

\* liveEpoch() returned: a disconnect, or an epoch other than the client's,
\* closes the connection.
EpochSeen(c) ==
    /\ call[c].pc = "epochSeen"
    /\ LET k == call[c]
           stale == conn.client # None /\ k.seen # conn.generation
       IN IF k.seen \in cut
          THEN Throw(c, CloseHalf(conn), FALSE)
          ELSE Proceed(c, IF stale /\ ~conn.closed THEN CloseHalf(conn) ELSE conn, k)
    /\ UNCHANGED <<mode, live, cut>>

\* The credential's digest is known: a connection bound to another one is
\* settled by a second read.
DigestSeen(c) ==
    /\ call[c].pc = "digest"
    /\ IF Connected(conn) # None /\ conn.digest # None /\ conn.digest # call[c].seen
       THEN /\ call' = [call EXCEPT ![c].pc = "reread", ![c].observed = Connected(conn)]
            /\ UNCHANGED conn
       ELSE Proceed(c, conn, call[c])
    /\ UNCHANGED <<mode, live, cut>>

\* The second read: the call retires the connection only if its own value is
\* still the stored one and nobody replaced the connection meanwhile.
Reread(c) ==
    /\ call[c].pc = "reread"
    /\ LET k == call[c]
       IN IF conn.closed \/ live # k.seen \/ Connected(conn) # k.observed
          THEN Throw(c, conn, FALSE)
          ELSE Proceed(c, CloseHalf(conn), k)
    /\ UNCHANGED <<mode, live, cut>>

\* A read fails: the store, the vault or the resolver.
ReadFails(c) ==
    /\ call[c].pc \in {"epoch", "credential", "digest", "reread"}
    /\ Throw(c, conn, FALSE)
    /\ UNCHANGED <<mode, live, cut>>

\* The attempt is over: its client is returned unless the scope closed.
Wake(c) ==
    /\ call[c].pc = "waiting"
    /\ LET k == call[c]
       IN \/ conn.att[k.joined].pc = "ready" /\ ~conn.closed /\ Hand(c, conn, k, k.joined)
          \/ /\ conn.att[k.joined].pc = "failed" \/ (conn.att[k.joined].pc = "ready" /\ conn.closed)
             /\ Throw(c, conn, FALSE)
    /\ UNCHANGED <<mode, live, cut>>

\* The call's deadline passes, or its caller cancels: it does not wait for
\* what it awaits.
Cancel(c) ==
    /\ call[c].pc \in {"epoch", "epochSeen", "credential", "digest", "reread", "waiting"}
    /\ Throw(c, conn, TRUE)
    /\ UNCHANGED <<mode, live, cut>>

\* The tool call ends; a 401 latches the connection it was made on.
Finish(c) ==
    /\ call[c].pc = "holding"
    /\ call' = [call EXCEPT ![c] = Over]
    /\ \/ UNCHANGED conn
       \/ conn.client = call[c].handed /\ conn' = [conn EXCEPT !.authRequired = TRUE]
    /\ UNCHANGED <<mode, live, cut>>

-----------------------------------------------------------------------------
\* connect()

Same == UNCHANGED <<mode, live, cut, call>>

\* beginFlow() returned the epoch the attempt is bound to.
BeginFlow(a) ==
    /\ conn.att[a].pc = "begin"
    /\ LET s == [conn EXCEPT !.att[a].bound = live]
       IN conn' = IF ~Owned(s, a) THEN Fail(s, a, FALSE)
                  ELSE IF live \in cut THEN Fail(s, a, TRUE)
                  ELSE [s EXCEPT !.att[a].pc = "prepare"]
    /\ Same

\* The stored verdict, the catalog's options and the listing's binding are
\* read, then the transport is built.
Prepare(a) ==
    /\ conn.att[a].pc = "prepare"
    /\ conn' = IF ~Owned(conn, a) THEN Fail(conn, a, FALSE)
               ELSE [conn EXCEPT !.att[a].pc = "handshake"]
    /\ Same

\* The server's answer names a session; the transport holds it from here,
\* whether or not its lease has been closed meanwhile.
SessionIssued(a) ==
    /\ conn.att[a].pc = "handshake" /\ conn.att[a].session = "none"
    /\ conn' = [conn EXCEPT !.att[a].session = "open"]
    /\ Same

\* The server contradicts the stored verdict after it has issued a session:
\* the handshake is made once more over a new transport, and the session of
\* the first is forgotten. Refused before that, the handshake is still one.
Renegotiate(a) ==
    /\ conn.att[a].pc = "handshake" /\ conn.att[a].session = "open" /\ ~conn.att[a].dropped
    /\ Owned(conn, a)
    /\ conn' = [conn EXCEPT !.att[a].session = "none", !.att[a].dropped = TRUE]
    /\ Same

\* Publishing the client: from here later calls find it. A connection made
\* without a stored verdict first stores one.
Publish(s, a) ==
    LET t == [s EXCEPT !.client = a, !.generation = s.att[a].bound, !.authRequired = FALSE]
    IN {Exit(t, a, "ready"), [t EXCEPT !.att[a].pc = "store", !.att[a].seen = 0]}

\* The handshake succeeded.
HandshakeDone(a) ==
    /\ conn.att[a].pc = "handshake"
    /\ conn' \in IF ~Owned(conn, a) THEN {Fail(conn, a, FALSE)}
                 ELSE IF mode = "oauth" THEN {[conn EXCEPT !.att[a].pc = "recheck"]}
                 ELSE Publish(conn, a)
    /\ Same

\* The store answers the second read of the epoch.
Recheck(a) ==
    /\ conn.att[a].pc = "recheck"
    /\ conn' = [conn EXCEPT !.att[a].pc = "checked", !.att[a].seen = live]
    /\ Same

\* Fault: an abandoned attempt returns without completing its Deferred.
CheckedSilent(a) ==
    /\ conn.att[a].pc = "checked" /\ Owned(conn, a)
    /\ conn' \in IF conn.att[a].seen # conn.att[a].bound THEN {Fail(conn, a, TRUE)}
                 ELSE Publish(conn, a)
    /\ Same

\* The second read returned: an attempt that outlived its epoch is discarded.
Checked(a) ==
    /\ conn.att[a].pc = "checked"
    /\ conn' \in IF ~Owned(conn, a) THEN {Fail(conn, a, FALSE)}
                 ELSE IF conn.att[a].seen # conn.att[a].bound THEN {Fail(conn, a, TRUE)}
                 ELSE Publish(conn, a)
    /\ Same

\* The verdict is stored, and a failure of the store is only logged. What may
\* throw is the inspection before the write (assertDownstreamOutputSafe and the
\* redaction): then the attempt fails with its client still cached.
Stored(a) ==
    /\ conn.att[a].pc = "store"
    /\ conn' \in {IF Owned(conn, a) THEN Exit(conn, a, "ready") ELSE Fail(conn, a, FALSE),
                  Fail(conn, a, FALSE)}
    /\ Same

\* Any wait of the attempt fails: the store, the network, a timeout, the
\* abort its closed lease sent it, or a 401.
ConnectFails(a) ==
    /\ conn.att[a].pc \in {"begin", "prepare", "handshake", "recheck"}
    /\ \E auth \in BOOLEAN : conn' = Fail(conn, a, auth)
    /\ Same

-----------------------------------------------------------------------------
\* What else happens to the connection.

\* A connected server answers a call as one of the other era does.
EraRefused ==
    /\ conn.client # None /\ ~conn.eraRefused
    /\ conn' = [conn EXCEPT !.eraRefused = TRUE]
    /\ Same

\* The stored credential is replaced, or the grant's epoch by a reset in this
\* or another isolate.
Replace ==
    /\ live < MaxVersion
    /\ live' = live + 1
    /\ \/ UNCHANGED cut
       \/ mode = "oauth" /\ cut' = cut \cup {live'}
    /\ UNCHANGED <<mode, conn, call>>

\* An authorization started, reset or finished through this scope retires
\* its connection.
ResetHere ==
    /\ mode = "oauth" /\ ~conn.closed
    /\ conn' = CloseHalf(conn)
    /\ Same

\* Fault: closing the scope forgets its connection and closes no lease.
CloseScopeLeaks ==
    /\ ~conn.closed
    /\ conn' = [Reset(conn) EXCEPT !.closed = TRUE]
    /\ Same

\* closeConnectionScope() and reset(): the scope closes every lease it has.
CloseScope ==
    /\ ~conn.closed
    /\ conn' = [Reset(conn) EXCEPT
                   !.closed = TRUE,
                   !.att = [a \in Attempts |-> CloseLease(conn, a).att[a]]]
    /\ Same

CallStep(c) ==
    \/ ReadLive(c) \/ EpochSeen(c) \/ DigestSeen(c) \/ Reread(c) \/ Wake(c)

AttemptStep(a) ==
    \/ BeginFlow(a) \/ Prepare(a) \/ HandshakeDone(a) \/ Recheck(a) \/ Checked(a)
    \/ Stored(a) \/ ConnectFails(a)

Next ==
    \/ \E c \in Callers : CallStep(c) \/ Arrive(c) \/ ReadFails(c) \/ Cancel(c) \/ Finish(c)
    \/ \E a \in Attempts : AttemptStep(a) \/ SessionIssued(a) \/ Renegotiate(a)
    \/ EraRefused
    \/ Replace
    \/ ResetHere
    \/ CloseScope

Spec == Init /\ [][Next]_vars

\* Reads of the store and handshakes are answered or time out, a resumed call
\* or attempt runs. Nothing obliges a call to arrive,
\* to be aborted or to end, a value to be replaced or the scope to close.
FairSpec ==
    /\ Spec
    /\ \A c \in Callers : WF_vars(CallStep(c))
    /\ \A a \in Attempts : WF_vars(AttemptStep(a))

-----------------------------------------------------------------------------
\* Every session the server has issued is somebody's to end: the open scope's
\* lease holds it, or an attempt that has yet to end does. No reset, rotation,
\* abort or close in between leaves one behind (retainCleanup, closeHalf and
\* the catch of connect).
SessionOwned ==
    \A a \in Attempts : conn.att[a].session = "open" =>
        \/ conn.lease = a /\ conn.att[a].lease = "open" /\ ~conn.closed
        \/ Running(a)

\* At most one lease is open, the one the state holds, and the attempt that
\* runs under it is the published one: no earlier attempt's end unpublishes a
\* later one, which a third would then overtake. A closed scope holds nothing,
\* and nothing is cached into it afterwards (ConnectionState.scope: "Closed is
\* terminal").
OneAttempt ==
    /\ \A a \in Attempts : conn.att[a].lease = "open" =>
          conn.lease = a /\ (Running(a) => conn.connecting = a)
    /\ conn.closed => conn.lease = None /\ conn.client = None /\ conn.connecting = None

\* The cached client can be used: its lease is open, unless the
\* inspection of the verdict threw after it was cached.
CachedUsable ==
    conn.client # None =>
        conn.att[conn.client].lease = "open" \/ conn.att[conn.client].pc = "failed"

\* A call uses a client bound to a version that was stored at some moment
\* since the call arrived: never a credential or an epoch replaced before it.
\* A call that joined an OAuth attempt in flight has only that attempt's check.
NotStale ==
    \A c \in Callers : call[c].pc = "holding" =>
        ~call[c].stale \/ (mode = "oauth" /\ call[c].shared)

\* No call's end cuts the connection another call is using while that
\* connection is current.
SiblingsKept ==
    [][\A c, d \in Callers :
          /\ c # d /\ call[c].pc # "over" /\ call'[c].pc = "over"
          /\ call[d].pc = "holding" /\ conn.att[call[d].handed].lease = "open"
          /\ conn.att[call[d].handed].bound = live
          => conn'.att[call[d].handed].lease = "open"]_vars

\* Every call that arrives is given a client or an error.
CallAnswered ==
    \A c \in Callers : call[c].pc \notin {"idle", "holding", "over"} ~> call[c].pc \in {"holding", "over"}

\* Once the scope is closed, every session issued to it is ended: also one
\* that a connect in flight acquired after the close.
SessionsEnd == conn.closed ~> \A a \in Attempts : conn.att[a].session # "open"

=============================================================================
