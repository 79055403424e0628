----------------------------- MODULE RequestReads -----------------------------
(***************************************************************************)
(* The memos of storage reads that the open requests of one isolate keep,  *)
(* src/src/runtime/request-reads.ts, over the SQL and the in-memory store. *)
(*                                                                         *)
(* A value is the version of its key: the number of writes applied to it.  *)
(* A read starts, is answered by the store and returns in three steps; a   *)
(* write begins, is applied and settles. Anything may come between. A hit  *)
(* returns values[m][k] and changes nothing, so it needs no step: what is  *)
(* said of values is said of every hit.                                    *)
(***************************************************************************)
EXTENDS Naturals

CONSTANTS
    Keys,           \* physical keys of one store
    Memos,          \* the requests of this isolate, one memo each
    Reads,          \* reads and prefetches, each made once
    Writes,         \* writes through this isolate's store, each made once
    Linkable,       \* keys a linked prefetch locates through the generation
    Drivers,        \* kinds of store: "sql", "memory"
    Faults,         \* what else may happen: "external", "abandon"
    MaxExternal,    \* bound on the writes of other isolates
    None

ASSUME DriversKnown == Drivers \subseteq {"sql", "memory"}
ASSUME FaultsKnown == Faults \subseteq {"external", "abandon"}
ASSUME ExternalNatural == MaxExternal \in Nat
ASSUME LinkableKeys == Linkable \subseteq Keys
ASSUME NoneIsFresh == None \notin Memos /\ None \notin Nat

VARIABLES
    driver,     \* the kind of store this deployment has
    store,      \* the version of each key
    external,   \* the writes other isolates have made
    status,     \* of each memo: "new", "open" (registered with the store), "closed"
    values,     \* StoreEntries.values
    versions,   \* StoreEntries.versions
    started,    \* StoreEntries.started
    read,       \* each read
    write,      \* each write
    settled,    \* history: each key's version when a write of it last settled
    recorded    \* history: the newest version each memo ever held

storage == <<driver, store, external>>
memo == <<status, values, versions, started>>
history == <<settled, recorded>>
vars == <<storage, memo, read, write, history>>

\* A read or a prefetch: the keys it missed, each with the version and the
\* turn lookup() closed over, and the located keys it has yet to look up.
Read ==
    [phase : {"idle", "loading", "answered", "over"}, memo : Memos \cup {None},
     misses : SUBSET Keys, linked : SUBSET Linkable, fresh : BOOLEAN,
     before : [Keys -> Nat], turn : [Keys -> Nat], got : [Keys -> Nat]]

Write == [phase : {"idle", "submitted", "applied", "abandoned", "over"}, keys : SUBSET Keys]

Zero == [k \in Keys |-> 0]
Unused(phase) ==
    [phase |-> phase, memo |-> None, misses |-> {}, linked |-> {}, fresh |-> FALSE,
     before |-> Zero, turn |-> Zero, got |-> Zero]

\* The shape of every variable. Only a registered memo holds entries.
TypeOK ==
    /\ driver \in Drivers
    /\ store \in [Keys -> Nat]
    /\ external \in 0 .. MaxExternal
    /\ status \in [Memos -> {"new", "open", "closed"}]
    /\ values \in [Memos -> [Keys -> Nat \cup {None}]]
    /\ versions \in [Memos -> [Keys -> Nat]]
    /\ started \in [Memos -> [Keys -> Nat]]
    /\ read \in [Reads -> Read]
    /\ write \in [Writes -> Write]
    /\ settled \in [Keys -> Nat]
    /\ recorded \in [Memos -> [Keys -> Nat]]
    /\ \A m \in Memos : status[m] # "open" => values[m] = [k \in Keys |-> None]

Init ==
    /\ driver \in Drivers
    /\ store = Zero
    /\ external = 0
    /\ status = [m \in Memos |-> "new"]
    /\ values = [m \in Memos |-> [k \in Keys |-> None]]
    /\ versions = [m \in Memos |-> Zero]
    /\ started = [m \in Memos |-> Zero]
    /\ read = [r \in Reads |-> Unused("idle")]
    /\ write = [w \in Writes |-> [phase |-> "idle", keys |-> {}]]
    /\ settled = Zero
    /\ recorded = [m \in Memos |-> Zero]

-----------------------------------------------------------------------------
(* Notices. *)

\* changed() of every registered memo, for every key of a write.
Changed(K) ==
    /\ values' = [m \in Memos |-> [k \in Keys |->
                    IF status[m] = "open" /\ k \in K THEN None ELSE values[m][k]]]
    /\ versions' = [m \in Memos |-> [k \in Keys |->
                    IF status[m] = "open" /\ k \in K THEN versions[m][k] + 1 ELSE versions[m][k]]]
    /\ UNCHANGED <<status, started>>

Bump(K) == store' = [k \in Keys |-> IF k \in K THEN store[k] + 1 ELSE store[k]]

-----------------------------------------------------------------------------
(* Reads. *)

\* lookup() of the missed keys: register the memo, note each key's version and
\* take the next turn at it.
StartRead(r, m, misses, linked, fresh) ==
    /\ read[r].phase = "idle"
    /\ status[m] # "closed"
    /\ status' = [status EXCEPT ![m] = "open"]
    /\ started' = [started EXCEPT ![m] =
                     [k \in Keys |-> IF k \in misses THEN @[k] + 1 ELSE @[k]]]
    /\ read' = [read EXCEPT ![r] =
                  [phase |-> "loading", memo |-> m, misses |-> misses, linked |-> linked,
                   fresh |-> fresh, got |-> Zero,
                   before |-> [k \in Keys |-> IF k \in misses THEN versions[m][k] ELSE 0],
                   turn |-> [k \in Keys |-> IF k \in misses THEN started[m][k] + 1 ELSE 0]]]
    /\ UNCHANGED <<storage, values, versions, write, history>>

\* read() and readPromise() of a key that is not memoized, or afresh.
BeginRead(r, m, k, fresh) ==
    /\ fresh \/ values[m][k] = None
    /\ StartRead(r, m, {k}, {}, fresh)

\* prefetch(): one load for every key of K that is not memoized. A linked one
\* also answers keys it locates only while it runs.
Prefetch(r, m, K, linked) ==
    LET misses == {k \in K : values[m][k] = None} IN
    /\ misses # {}
    /\ StartRead(r, m, misses, linked \ K, FALSE)

\* The store answers: one statement, so one moment for all keys.
Answer(r) ==
    /\ read[r].phase = "loading"
    /\ read' = [read EXCEPT ![r].phase = "answered",
                            ![r].got = [k \in Keys |-> IF k \in read[r].misses \cup read[r].linked
                                                        THEN store[k] ELSE 0]]
    /\ UNCHANGED <<storage, memo, write, history>>

\* Fault: a read that a later one overtook still records.
RecordsOvertaken(r, k) ==
    /\ k \in read[r].misses
    /\ status[read[r].memo] # "closed"
    /\ versions[read[r].memo][k] = read[r].before[k]

\* record() takes the value only in the last turn at its key, and with no
\* notice since.
Records(r, k) ==
    LET m == read[r].memo IN
    /\ k \in read[r].misses
    /\ status[m] # "closed"
    /\ started[m][k] = read[r].turn[k]
    /\ versions[m][k] = read[r].before[k]

\* A located key is looked up, and recorded, when the answer is already here.
RecordsLinked(r, k) ==
    LET m == read[r].memo IN
    /\ k \in read[r].linked
    /\ status[m] # "closed"
    /\ values[m][k] = None

\* The read returns.
Return(r) ==
    LET m == read[r].memo
        got == read[r].got
        Taken(k) == Records(r, k) \/ RecordsLinked(r, k)
    IN
    /\ read[r].phase = "answered"
    /\ values' = [values EXCEPT ![m] = [k \in Keys |-> IF Taken(k) THEN got[k] ELSE @[k]]]
    /\ started' = [started EXCEPT ![m] =
                     [k \in Keys |-> IF RecordsLinked(r, k) THEN @[k] + 1 ELSE @[k]]]
    /\ recorded' = [recorded EXCEPT ![m] =
                      [k \in Keys |-> IF Taken(k) /\ got[k] > @[k] THEN got[k] ELSE @[k]]]
    /\ read' = [read EXCEPT ![r] = Unused("over")]
    /\ UNCHANGED <<storage, status, versions, write, settled>>

\* The load fails, or prefetch() finds that it cannot batch after its lookups.
FailRead(r) ==
    /\ read[r].phase \in {"loading", "answered"}
    /\ read' = [read EXCEPT ![r] = Unused("over")]
    /\ UNCHANGED <<storage, memo, write, history>>

\* close(): the request ends. Nothing registers the memo again.
Close(m) ==
    /\ status[m] # "closed"
    /\ status' = [status EXCEPT ![m] = "closed"]
    /\ values' = [values EXCEPT ![m] = [k \in Keys |-> None]]
    /\ versions' = [versions EXCEPT ![m] = Zero]
    /\ started' = [started EXCEPT ![m] = Zero]
    /\ UNCHANGED <<storage, read, write, history>>

-----------------------------------------------------------------------------
(* Writes. *)

\* observedWrite(): the notice, then the statement is submitted.
BeginWrite(w, K) ==
    /\ driver = "sql"
    /\ write[w].phase = "idle"
    /\ K # {}
    /\ Changed(K)
    /\ write' = [write EXCEPT ![w] = [phase |-> "submitted", keys |-> K]]
    /\ UNCHANGED <<storage, read, history>>

\* The store applies the statement.
Apply(w) ==
    /\ write[w].phase = "submitted"
    /\ Bump(write[w].keys)
    /\ write' = [write EXCEPT ![w].phase = "applied"]
    /\ UNCHANGED <<driver, external, memo, read, history>>

\* Fault: only the first notice is given.
SettleUnnoticed(w) ==
    /\ write[w].phase \in {"submitted", "applied"}
    /\ write' = [write EXCEPT ![w] = [phase |-> "over", keys |-> {}]]
    /\ settled' = [k \in Keys |-> IF k \in write[w].keys THEN store[k] ELSE settled[k]]
    /\ UNCHANGED <<storage, memo, read, recorded>>

\* The write ends, applied or not, and the second notice is given.
SettleWrite(w) ==
    /\ write[w].phase \in {"submitted", "applied"}
    /\ Changed(write[w].keys)
    /\ write' = [write EXCEPT ![w] = [phase |-> "over", keys |-> {}]]
    /\ settled' = [k \in Keys |-> IF k \in write[w].keys THEN store[k] ELSE settled[k]]
    /\ UNCHANGED <<storage, read, recorded>>

\* The fiber is interrupted: Effect.ensuring gives the second notice while the
\* driver's promise, which nothing cancels, still runs.
AbandonWrite(w) ==
    /\ "abandon" \in Faults
    /\ write[w].phase = "submitted"
    /\ Changed(write[w].keys)
    /\ write' = [write EXCEPT ![w].phase = "abandoned"]
    /\ UNCHANGED <<storage, read, history>>

ApplyLate(w) ==
    /\ write[w].phase = "abandoned"
    /\ Bump(write[w].keys)
    /\ write' = [write EXCEPT ![w] = [phase |-> "over", keys |-> {}]]
    /\ UNCHANGED <<driver, external, memo, read, history>>

\* memoryStorage(): one notice, and in the same turn the map is changed, or a
\* compareAndSet finds another value and leaves it.
WriteInMemory(w, k) ==
    /\ driver = "memory"
    /\ write[w].phase = "idle"
    /\ Changed({k})
    /\ \/ Bump({k}) /\ settled' = [settled EXCEPT ![k] = store[k] + 1]
       \/ UNCHANGED <<store, settled>>
    /\ write' = [write EXCEPT ![w].phase = "over"]
    /\ UNCHANGED <<driver, external, read, recorded>>

\* Another isolate or process writes: no notice here.
WriteElsewhere(k) ==
    /\ "external" \in Faults
    /\ external < MaxExternal
    /\ external' = external + 1
    /\ Bump({k})
    /\ UNCHANGED <<driver, memo, read, write, history>>

Next ==
    \/ \E r \in Reads, m \in Memos : \/ \E k \in Keys, fresh \in BOOLEAN : BeginRead(r, m, k, fresh)
                                     \/ \E K \in SUBSET Keys, linked \in SUBSET Linkable :
                                            Prefetch(r, m, K, linked)
    \/ \E r \in Reads : Answer(r) \/ Return(r) \/ FailRead(r)
    \/ \E m \in Memos : Close(m)
    \/ \E w \in Writes : \/ \E K \in SUBSET Keys : BeginWrite(w, K)
                         \/ Apply(w) \/ SettleWrite(w) \/ AbandonWrite(w) \/ ApplyLate(w)
                         \/ \E k \in Keys : WriteInMemory(w, k)
    \/ \E k \in Keys : WriteElsewhere(k)

Spec == Init /\ [][Next]_vars

-----------------------------------------------------------------------------
(* Properties. *)

\* No memo answers a key with a value from before a write of that key that
\* this isolate made and that has settled, whichever request made it. record()
\* and the two notices of observedWrite() see to it, for every key that no
\* linked prefetch locates.
NoHiddenWrite ==
    \A m \in Memos, k \in Keys \ Linkable :
        values[m][k] # None => values[m][k] >= settled[k]

\* Within one request a key never goes back to an older value, even across
\* writes of other isolates that no notice tells of, and even when the memo
\* dropped the newer value in between: only the last read started records.
NeverGoesBack ==
    \A m \in Memos, k \in Keys \ Linkable :
        values[m][k] # None => values[m][k] = recorded[m][k]

\* What the head of request-reads.ts says: "a write by this request, or by any
\* other request in this isolate, is never hidden by a memoized value".
NeverHidden ==
    \A m \in Memos, k \in Keys :
        values[m][k] # None => values[m][k] >= settled[k]

-----------------------------------------------------------------------------
(* What the proof needs besides: the shape of a read in flight, that no two  *)
(* reads share a turn, and that an answer record() would still take is as    *)
(* new as every settled write and every earlier record.                      *)

InFlight(r) == read[r].phase \in {"loading", "answered"}

FlightsRegistered ==
    \A r \in Reads : InFlight(r) =>
        /\ read[r].memo \in Memos
        /\ status[read[r].memo] # "new"
        /\ \A k \in read[r].misses : status[read[r].memo] = "open" =>
               /\ read[r].before[k] <= versions[read[r].memo][k]
               /\ read[r].turn[k] <= started[read[r].memo][k]

TurnsDistinct ==
    \A r, s \in Reads : \A k \in read[r].misses \cap read[s].misses :
        /\ InFlight(r) /\ InFlight(s) /\ r # s
        /\ read[r].memo = read[s].memo
        /\ status[read[r].memo] = "open"
        => read[r].turn[k] # read[s].turn[k]

AnswersCurrent ==
    \A r \in Reads : \A k \in read[r].misses \ Linkable :
        read[r].phase = "answered" /\ Records(r, k) =>
            /\ read[r].got[k] >= settled[k]
            /\ read[r].got[k] >= recorded[read[r].memo][k]

BehindStore ==
    \A k \in Keys \ Linkable :
        /\ settled[k] <= store[k]
        /\ \A m \in Memos : recorded[m][k] <= store[k]

\* An answer is never ahead of the store.
AnswersBehind ==
    \A r \in Reads : \A k \in read[r].misses \ Linkable : read[r].got[k] <= store[k]

Inductive ==
    /\ TypeOK
    /\ BehindStore
    /\ AnswersBehind
    /\ FlightsRegistered
    /\ TurnsDistinct
    /\ AnswersCurrent
    /\ NoHiddenWrite
    /\ NeverGoesBack
=============================================================================
