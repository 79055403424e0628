--------------------------- MODULE QuickJsPoolProofs ---------------------------
(***************************************************************************)
(* Proofs about QuickJsPool for any number of requests, slots and children *)
(* and any faults: a run stays within its own lease, with its slot's child *)
(* under it, and no forked process is ever off its slot before the pool    *)
(* lets it go. What carries them is who may touch a slot: one lease holds  *)
(* it (Exclusive), the child on it belongs to it (OnSlot), and a run that  *)
(* still waits for its child (Waiting) waits for no other than that one.   *)
(* A child reports errors of its own runs only (Reports), so no run is     *)
(* rejected for another's failure.                                         *)
(***************************************************************************)
EXTENDS QuickJsPool, TLAPS, FiniteSetTheorems, SequenceTheorems

\* A slot is free once or leased once; a host call came from a slot.
Exclusive ==
    /\ \A r \in Requests : req[r].lease = "held" \/ req[r].call = "open" => req[r].slot \in Slots
    /\ \A q, r \in Requests :
        q # r /\ req[q].lease = "held" /\ req[r].lease = "held" => req[q].slot # req[r].slot
    /\ \A r \in Requests : req[r].lease = "held" =>
        \A i \in 1 .. Len(available) : available[i] # req[r].slot
    /\ \A i, j \in 1 .. Len(available) : available[i] = available[j] => i = j

\* A run goes on only within its lease.
Leased == \A r \in Requests : req[r].run \in Underway => req[r].lease = "held"

\* Only forked children exist, each for one slot.
Forked ==
    /\ \A c \in Children : c <= spawned => child[c].slot \in Slots
    /\ \A c \in Children : c > spawned => child[c] = Unborn

\* The child on a slot was forked for it and not let go.
OnSlot ==
    \A s \in Slots : slot[s].child # None =>
        LET c == slot[s].child IN
        c \in Children /\ c <= spawned /\ child[c].slot = s /\ ~child[c].retired

\* The slot of a run that waits out the backoff is empty; that of a run which
\* waits for a child's readiness has that child, or none any more.
Waiting ==
    \A r \in Requests :
        /\ req[r].run = "restarting" => slot[req[r].slot].child = None
        /\ req[r].run = "starting" =>
            LET c == req[r].child IN
            /\ c \in Children /\ c <= spawned
            /\ slot[req[r].slot].child \in {c, None}

\* The active run of a slot, as RunWithinLease has it.
ActiveOwned ==
    \A s \in Slots : slot[s].active # None =>
        LET r == slot[s].active IN
        /\ req[r].slot = s /\ req[r].run = "running"
        /\ slot[s].child = req[r].child /\ slot[s].child # None
        /\ child[slot[s].child].ready = "ok"

\* The inductive invariant.
IInv == TypeOK /\ Exclusive /\ Leased /\ Forked /\ OnSlot /\ Waiting /\ ActiveOwned /\ NoOrphan

-----------------------------------------------------------------------------
(* What the helpers return. *)

LEMMA RetiredFacts ==
    ASSUME NEW c \in Child
    PROVE  /\ Retired(c) \in Child
           /\ Retired(c).retired /\ Retired(c).slot = c.slot
           /\ c.ready = "ok" => Retired(c).ready = "ok"
BY DEF Retired, Child

LEMMA QuietlyRetiredFacts ==
    ASSUME NEW c \in Child
    PROVE  LET d == [Retired(c) EXCEPT !.ready = c.ready] IN
           d \in Child /\ d.retired /\ d.slot = c.slot /\ d.ready = c.ready
<1>1. Retired(c) \in Child /\ Retired(c).retired /\ Retired(c).slot = c.slot
    BY RetiredFacts
<1>2. c.ready \in {"pending", "ok", "failed"}
    BY DEF Child
<1> QED BY <1>1, <1>2 DEF Child

LEMMA EndedFacts ==
    ASSUME NEW q \in Request, NEW a \in {"result", "failed"}
    PROVE  /\ Ended(q, a) \in Request
           /\ Ended(q, a).run = "ended" /\ Ended(q, a).lease = q.lease /\ Ended(q, a).slot = q.slot
           /\ Ended(q, a).call = "open" => q.call = "open"
           /\ Ended(q, a).answer = a
<1>1. 0 \in 0 .. MaxChunks /\ 0 \in Nat
    BY BoundsNatural
<1>2. PICK d \in Children \cup {None}, k \in {"open", "done"}, m \in 0 .. MaxChunks, n \in Nat :
        Ended(q, a) = [q EXCEPT !.run = "ended", !.answer = a, !.aborted = FALSE,
                                !.child = d, !.call = k, !.parts = m, !.got = n]
    <2>1. /\ (IF q.call = "open" THEN q.child ELSE None) \in Children \cup {None}
          /\ (IF q.call = "open" THEN q.call ELSE "done") \in {"open", "done"}
          /\ (IF a = "result" THEN q.parts ELSE 0) \in 0 .. MaxChunks
          /\ (IF a = "result" THEN q.got ELSE 0) \in Nat
        BY <1>1 DEF Request
    <2> QED BY <2>1 DEF Ended
<1>3. Ended(q, a).call = "open" => q.call = "open"
    <2>1. Ended(q, a).call = IF q.call = "open" THEN q.call ELSE "done"
        BY DEF Ended, Request
    <2> QED BY <2>1
<1> QED BY ZenonT(60), <1>2, <1>3 DEF Request

LEMMA SentFacts ==
    ASSUME NEW c \in Child, NEW m \in Envelope, m.job \in Requests
    PROVE  /\ Sent(c, m) \in Child
           /\ Sent(c, m).slot = c.slot /\ Sent(c, m).retired = c.retired /\ Sent(c, m).ready = c.ready
<1>1. CASE c.state = "dead"
    <2>1. Sent(c, m) = [c EXCEPT !.errors = c.errors \cup {m.job}]
        BY <1>1 DEF Sent
    <2>2. c.errors \cup {m.job} \in SUBSET Requests
        BY DEF Child
    <2> QED BY <2>1, <2>2 DEF Child
<1>2. CASE c.state # "dead"
    <2>1. Sent(c, m) = [c EXCEPT !.inbox = Append(c.inbox, m)]
        BY <1>2 DEF Sent
    <2>2. Append(c.inbox, m) \in Seq(Envelope)
        BY DEF Child
    <2> QED BY <2>1, <2>2 DEF Child
<1> QED BY <1>1, <1>2

LEMMA VacantFacts ==
    ASSUME NEW sl \in ChildSlot
    PROVE  /\ Vacant(sl) \in ChildSlot /\ Vacant(sl).child = None /\ Vacant(sl).active = None
           /\ OneMoreCrash(sl) \in ChildSlot
           /\ OneMoreCrash(sl).child = sl.child /\ OneMoreCrash(sl).active = sl.active
<1>1. sl.crashes + 1 \in Nat
    BY DEF ChildSlot
<1>2. OneMoreCrash(sl) = [sl EXCEPT !.crashes = sl.crashes + 1]
    BY DEF OneMoreCrash
<1>3. Vacant(sl) \in ChildSlot /\ Vacant(sl).child = None /\ Vacant(sl).active = None
    BY DEF Vacant, ChildSlot
<1> QED BY <1>1, <1>2, <1>3 DEF ChildSlot

LEMMA NoneFacts == None \notin Requests /\ None \notin Slots /\ None \notin Children
BY NoneApart, BoundsNatural DEF Children

LEMMA UnbornType == Unborn \in Child
BY DEF Unborn, Child

LEMMA MsgType ==
    ASSUME NEW t \in {"ready", "host-call", "result-chunk", "result", "run", "host-result"},
           NEW j \in Requests \cup {None}, NEW k \in {"good", "garbled", "dirty"}
    PROVE  Msg(t, j, k) \in Envelope /\ Msg(t, j, k).job = j /\ Msg(t, j, k).type = t
BY DEF Msg, Envelope

-----------------------------------------------------------------------------
(* The beginning *)

LEMMA InitHolds == Init => IInv
<1> SUFFICES ASSUME Init PROVE IInv
    OBVIOUS
<1>1. Cardinality(Slots) \in Nat
    BY SlotsFinite, FS_CardinalityType
<1>2. /\ available \in [1 .. Cardinality(Slots) -> Slots] /\ available \in Seq(Slots)
      /\ Len(available) = Cardinality(Slots)
      /\ \A i, j \in 1 .. Len(available) : available[i] = available[j] => i = j
    BY <1>1 DEF Init
<1>3. NewRequest \in Request
    BY BoundsNatural DEF NewRequest, Request
<1>4. FreeSlot \in ChildSlot
    BY DEF FreeSlot, ChildSlot
<1>5. TypeOK
    BY <1>2, <1>3, <1>4, UnbornType, BoundsNatural DEF Init, TypeOK
<1>6. /\ \A r \in Requests : req[r].lease = "none" /\ req[r].run = "none" /\ req[r].call = "none"
      /\ \A s \in Slots : slot[s].child = None /\ slot[s].active = None
      /\ \A c \in Children : child[c] = Unborn
    BY DEF Init, NewRequest, FreeSlot
<1>7. Exclusive
    BY <1>2, <1>6 DEF Exclusive
<1>8. Leased /\ Waiting /\ OnSlot /\ ActiveOwned
    BY <1>6 DEF Leased, Waiting, OnSlot, ActiveOwned, Underway
<1>9. Forked /\ NoOrphan
    BY <1>6, BoundsNatural DEF Init, Forked, NoOrphan, Children
<1> QED BY <1>5, <1>7, <1>8, <1>9 DEF IInv

-----------------------------------------------------------------------------
(* Two shapes of a step that the invariant survives, but for the types and the *)
(* leases, which each action shows by itself. *)

\* Children may be let go and slots vacated, as long as a slot keeps its child
\* exactly while that was not let go, and its active run while it keeps its
\* child; a run that goes on does so unchanged.
LEMMA LettingGo ==
    ASSUME IInv, TypeOK', Exclusive', spawned' = spawned,
           \A c \in Children : /\ child'[c].slot = child[c].slot
                               /\ child[c].retired => child'[c].retired
                               /\ child[c].ready = "ok" => child'[c].ready = "ok"
                               /\ c > spawned => child'[c] = child[c]
                               /\ c <= spawned /\ ~child'[c].retired =>
                                    slot'[child[c].slot].child = slot[child[c].slot].child,
           \A s \in Slots : /\ slot'[s].child \in {slot[s].child, None}
                            /\ slot'[s].active \in {slot[s].active, None}
                            /\ slot'[s].child # None => ~child'[slot[s].child].retired
                            /\ slot'[s].active # None =>
                                 slot'[s].child # None /\ req'[slot[s].active].run = "running",
           \A r \in Requests : req'[r].run \in Underway =>
                /\ req'[r].run = req[r].run /\ req'[r].lease = req[r].lease
                /\ req'[r].slot = req[r].slot /\ req'[r].child = req[r].child
    PROVE  IInv'
<1>1. Leased'
    BY DEF IInv, Leased
<1>2. Forked'
    BY DEF IInv, Forked
<1>3. OnSlot'
    BY DEF IInv, OnSlot
<1>4. Waiting'
    <2> SUFFICES ASSUME NEW r \in Requests, req'[r].run \in {"restarting", "starting"}
                 PROVE  /\ req'[r].run = "restarting" => slot'[req'[r].slot].child = None
                        /\ req'[r].run = "starting" =>
                             LET c == req'[r].child IN
                             /\ c \in Children /\ c <= spawned'
                             /\ slot'[req'[r].slot].child \in {c, None}
        BY DEF Waiting
    <2>1. /\ req'[r].run = req[r].run /\ req'[r].lease = req[r].lease
          /\ req'[r].slot = req[r].slot /\ req'[r].child = req[r].child
        BY DEF Underway
    <2>2. req[r].slot \in Slots
        BY <2>1 DEF IInv, Leased, Exclusive, Underway
    <2> QED BY <2>1, <2>2 DEF IInv, Waiting
<1>5. ActiveOwned'
    <2> SUFFICES ASSUME NEW s \in Slots, slot'[s].active # None
                 PROVE  LET r == slot'[s].active IN
                        /\ req'[r].slot = s /\ req'[r].run = "running"
                        /\ slot'[s].child = req'[r].child /\ slot'[s].child # None
                        /\ child'[slot'[s].child].ready = "ok"
        BY DEF ActiveOwned
    <2>1. /\ slot'[s].active = slot[s].active /\ slot[s].active # None
          /\ slot'[s].child = slot[s].child /\ slot'[s].child # None
        OBVIOUS
    <2>2. slot[s].active \in Requests
        BY <2>1 DEF IInv, TypeOK, ChildSlot
    <2>3. slot[s].child \in Children
        BY <2>1 DEF IInv, OnSlot
    <2> QED BY <2>1, <2>2, <2>3 DEF IInv, ActiveOwned, Underway
<1>6. NoOrphan'
    <2> SUFFICES ASSUME NEW c \in 1 .. spawned, ~child'[c].retired
                 PROVE  slot'[child'[c].slot].child = c
        BY DEF NoOrphan
    <2>1. c \in Children /\ c <= spawned
        BY BoundsNatural DEF IInv, TypeOK, Children
    <2> QED BY <2>1 DEF IInv, NoOrphan
<1> QED BY <1>1, <1>2, <1>3, <1>4, <1>5, <1>6 DEF IInv

\* No child is let go and no slot changes hands.
LEMMA Quiet ==
    ASSUME IInv, TypeOK', Exclusive', spawned' = spawned,
           \A c \in Children : /\ child'[c].slot = child[c].slot
                               /\ child'[c].retired = child[c].retired
                               /\ child[c].ready = "ok" => child'[c].ready = "ok"
                               /\ c > spawned => child'[c] = child[c],
           \A s \in Slots : slot'[s].child = slot[s].child /\ slot'[s].active = slot[s].active,
           \A r \in Requests :
                /\ req'[r].run = req[r].run
                /\ req[r].run \in Underway => /\ req'[r].lease = req[r].lease
                                              /\ req'[r].slot = req[r].slot
                                              /\ req'[r].child = req[r].child
    PROVE  IInv'
<1>1. \A s \in Slots : /\ slot[s].child # None => slot[s].child \in Children /\ ~child[slot[s].child].retired
                       /\ slot[s].active # None => /\ slot[s].active \in Requests
                                                   /\ slot[s].child # None
                                                   /\ req[slot[s].active].run = "running"
    BY DEF IInv, OnSlot, ActiveOwned, TypeOK, ChildSlot
<1>2. \A c \in Children : c <= spawned => child[c].slot \in Slots
    BY DEF IInv, Forked
<1> QED BY <1>1, <1>2, LettingGo

\* Who holds which slot is the same.
LEMMA SameLeases ==
    ASSUME IInv, UNCHANGED available,
           \A r \in Requests :
                /\ req'[r].lease = req[r].lease /\ req'[r].slot = req[r].slot
                /\ req'[r].call = "open" => req[r].call = "open" \/ req[r].slot \in Slots
    PROVE  Exclusive'
BY DEF IInv, Exclusive

\* The slot of a lease is its own: no other run is under way on it, and while its
\* own run is not active, no run is.
LEMMA OwnSlot ==
    ASSUME IInv, NEW r \in Requests, req[r].lease = "held"
    PROVE  /\ req[r].slot \in Slots
           /\ \A q \in Requests : q # r /\ req[q].run \in Underway => req[q].slot # req[r].slot
           /\ req[r].run # "running" => slot[req[r].slot].active = None
           /\ slot[req[r].slot].active \in {r, None}
<1>1. req[r].slot \in Slots
    BY DEF IInv, Exclusive
<1>2. \A q \in Requests : q # r /\ req[q].run \in Underway => req[q].slot # req[r].slot
    BY DEF IInv, Exclusive, Leased
<1>3. slot[req[r].slot].active \in Requests \cup {None}
    BY <1>1 DEF IInv, TypeOK, ChildSlot
<1>4. slot[req[r].slot].active \in {r, None}
    BY <1>1, <1>2, <1>3 DEF IInv, ActiveOwned, Underway
<1>5. req[r].run # "running" => slot[req[r].slot].active = None
    BY <1>1, <1>4, NoneFacts DEF IInv, ActiveOwned
<1> QED BY <1>1, <1>2, <1>4, <1>5

\* The slot's child is let go, with the active run that has it.
LEMMA RecycledFacts ==
    ASSUME IInv, NEW s \in Slots
    PROVE  /\ Recycled(s) \in [Children -> Child]
           /\ \A c \in Children :
                /\ Recycled(s)[c].slot = child[c].slot
                /\ child[c].retired => Recycled(s)[c].retired
                /\ child[c].ready = "ok" => Recycled(s)[c].ready = "ok"
                /\ c = slot[s].child => Recycled(s)[c].retired
                /\ c # slot[s].child => Recycled(s)[c] = child[c]
<1>1. \A c \in Children : child[c] \in Child
    BY DEF IInv, TypeOK
<1>2. \A c \in Children : Recycled(s)[c] = IF c = slot[s].child THEN Retired(child[c]) ELSE child[c]
    BY DEF Recycled
<1>3. \A c \in Children : Recycled(s)[c] \in Child
    BY <1>1, <1>2, RetiredFacts
<1>4. Recycled(s) \in [Children -> Child]
    BY <1>3 DEF Recycled
<1> QED BY <1>1, <1>2, <1>4, RetiredFacts

\* A slot loses its child, with the active run that had it.
LEMMA Vacates ==
    ASSUME IInv, TypeOK', Exclusive', spawned' = spawned, NEW s \in Slots,
           slot'[s].child = None, slot'[s].active = None,
           \A t \in Slots : t # s => slot'[t] = slot[t],
           \A c \in Children : /\ child'[c].slot = child[c].slot
                               /\ child[c].ready = "ok" => child'[c].ready = "ok"
                               /\ c > spawned => child'[c] = child[c]
                               /\ c = slot[s].child => child'[c].retired
                               /\ c # slot[s].child => child'[c].retired = child[c].retired,
           \A r \in Requests :
                /\ req'[r].run \in Underway => /\ req'[r].run = req[r].run
                                               /\ req'[r].lease = req[r].lease
                                               /\ req'[r].slot = req[r].slot
                                               /\ req'[r].child = req[r].child
                /\ \A t \in Slots : t # s /\ slot[t].active = r => req'[r].run = req[r].run
    PROVE  IInv'
<1>1. \A t \in Slots : slot[t] \in ChildSlot
    BY DEF IInv, TypeOK
<1>2. \A c \in Children : c <= spawned /\ ~child'[c].retired =>
                              slot'[child[c].slot].child = slot[child[c].slot].child
    <2> SUFFICES ASSUME NEW c \in Children, c <= spawned, ~child'[c].retired
                 PROVE  slot'[child[c].slot].child = slot[child[c].slot].child
        OBVIOUS
    <2>1. c # slot[s].child /\ ~child[c].retired
        OBVIOUS
    <2>2. child[c].slot \in Slots /\ slot[child[c].slot].child = c
        BY <2>1 DEF IInv, Forked, NoOrphan, Children
    <2> QED BY <2>1, <2>2
<1>3. \A t \in Slots : /\ slot'[t].child \in {slot[t].child, None}
                       /\ slot'[t].active \in {slot[t].active, None}
                       /\ slot'[t].child # None => ~child'[slot[t].child].retired
                       /\ slot'[t].active # None =>
                            slot'[t].child # None /\ req'[slot[t].active].run = "running"
    <2> SUFFICES ASSUME NEW t \in Slots, t # s
                 PROVE  /\ slot[t].child # None => ~child'[slot[t].child].retired
                        /\ slot[t].active # None =>
                             slot[t].child # None /\ req'[slot[t].active].run = "running"
        OBVIOUS
    <2>1. slot[t].child # None => /\ slot[t].child \in Children /\ child[slot[t].child].slot = t
                                  /\ ~child[slot[t].child].retired
        BY DEF IInv, OnSlot
    <2>2. slot[t].child # None => slot[t].child # slot[s].child
        BY <2>1 DEF IInv, OnSlot
    <2>3. slot[t].active # None => /\ slot[t].active \in Requests /\ slot[t].child # None
                                   /\ req[slot[t].active].run = "running"
        BY <1>1 DEF IInv, ActiveOwned, ChildSlot
    <2> QED BY <2>1, <2>2, <2>3
<1>4. \A c \in Children : child[c].retired => child'[c].retired
    <2> SUFFICES ASSUME NEW c \in Children, child[c].retired PROVE child'[c].retired
        OBVIOUS
    <2> QED OBVIOUS
<1> QED BY <1>2, <1>3, <1>4, LettingGo

\* One child's step that no slot notices.
LEMMA ChildStep ==
    ASSUME IInv, NEW c \in Children, NEW d \in Child, child[c] # Unborn,
           d.slot = child[c].slot, d.retired = child[c].retired,
           child[c].ready = "ok" => d.ready = "ok",
           child' = [child EXCEPT ![c] = d],
           req' \in [Requests -> Request],
           \A r \in Requests :
                /\ req'[r].run = req[r].run
                /\ req'[r].lease = req[r].lease /\ req'[r].slot = req[r].slot
                /\ req'[r].call = "open" => req[r].call = "open" \/ req[r].slot \in Slots
                /\ req[r].run \in Underway => req'[r].child = req[r].child,
           UNCHANGED <<slot, available, spawned, pool, awaited>>
    PROVE  IInv'
<1>1. /\ child' \in [Children -> Child] /\ child'[c] = d
      /\ \A b \in Children : b # c => child'[b] = child[b]
    BY DEF IInv, TypeOK
<1>2. TypeOK'
    BY <1>1 DEF IInv, TypeOK
<1>3. Exclusive'
    BY SameLeases
<1>4. ~(c > spawned)
    BY DEF IInv, Forked
<1> QED BY <1>1, <1>2, <1>3, <1>4, Quiet

\* A run ends, with its slot's child if it is active there.
LEMMA EndsOne ==
    ASSUME IInv, NEW r \in Requests, NEW s \in Slots, req[r].slot = s, NEW q \in Request,
           q.run \notin Underway, q.slot = s, req' = [req EXCEPT ![r] = q],
           IF slot[s].active = r THEN child' = Recycled(s) /\ slot' = [slot EXCEPT ![s] = Vacant(@)]
                                 ELSE UNCHANGED <<child, slot>>,
           Exclusive', available' \in Seq(Slots), UNCHANGED <<spawned, pool, awaited>>
    PROVE  IInv'
<1>1. \A t \in Slots : slot[t] \in ChildSlot
    BY DEF IInv, TypeOK
<1>2. req' \in [Requests -> Request] /\ req'[r] = q /\ \A p \in Requests : p # r => req'[p] = req[p]
    BY DEF IInv, TypeOK
<1>3. \A t \in Slots : t # s => slot[t].active # r
    BY NoneFacts DEF IInv, ActiveOwned
<1>4. \A p \in Requests :
        /\ req'[p].run \in Underway => /\ req'[p].run = req[p].run /\ req'[p].lease = req[p].lease
                                       /\ req'[p].slot = req[p].slot /\ req'[p].child = req[p].child
        /\ \A t \in Slots : t # s /\ slot[t].active = p => req'[p].run = req[p].run
    BY <1>2, <1>3
<1>5. CASE slot[s].active = r
    <2>1. child' = Recycled(s) /\ slot' = [slot EXCEPT ![s] = Vacant(slot[s])]
        BY <1>5
    <2>2. /\ slot' \in [Slots -> ChildSlot]
          /\ slot'[s].child = None /\ slot'[s].active = None
          /\ \A t \in Slots : t # s => slot'[t] = slot[t]
        BY <1>1, <2>1, VacantFacts DEF IInv, TypeOK
    <2>3. TypeOK'
        BY <1>2, <2>2, <2>1, RecycledFacts DEF IInv, TypeOK
    <2>4. \A c \in Children : c > spawned => c # slot[s].child
        BY NoneFacts DEF IInv, OnSlot, TypeOK, Children
    <2>5. \A c \in Children : /\ child'[c].slot = child[c].slot
                              /\ child[c].ready = "ok" => child'[c].ready = "ok"
                              /\ c > spawned => child'[c] = child[c]
                              /\ c = slot[s].child => child'[c].retired
                              /\ c # slot[s].child => child'[c].retired = child[c].retired
        BY <2>1, <2>4, RecycledFacts
    <2> QED BY <1>4, <2>2, <2>3, <2>5, Vacates
<1>6. CASE slot[s].active # r
    <2>1. TypeOK' /\ UNCHANGED <<child, slot>>
        BY <1>2, <1>6 DEF IInv, TypeOK
    <2>2. \A t \in Slots : /\ slot[t].child # None => ~child[slot[t].child].retired
                           /\ slot[t].active # None =>
                                slot[t].child # None /\ req'[slot[t].active].run = "running"
        BY <1>1, <1>2, <1>3, <1>6 DEF IInv, OnSlot, ActiveOwned, ChildSlot
    <2> QED BY <1>4, <2>1, <2>2, LettingGo
<1> QED BY <1>5, <1>6

\* A run begins to wait, for the backoff or for a child.
LEMMA Begins ==
    ASSUME IInv, TypeOK', Exclusive', Forked', OnSlot', NoOrphan', NEW r \in Requests,
           req[r].lease = "held", req[r].run # "running",
           req'[r].run \in {"restarting", "starting"}, req'[r].lease = req[r].lease,
           req'[r].slot = req[r].slot,
           req'[r].run = "restarting" => slot'[req[r].slot].child = None,
           req'[r].run = "starting" => /\ req'[r].child \in Children /\ req'[r].child <= spawned'
                                       /\ slot'[req[r].slot].child \in {req'[r].child, None},
           spawned <= spawned',
           \A p \in Requests : p # r => req'[p] = req[p],
           slot'[req[r].slot].active = slot[req[r].slot].active,
           \A t \in Slots : t # req[r].slot => slot'[t] = slot[t],
           \A c \in Children : child[c].ready = "ok" => child'[c].ready = "ok"
    PROVE  IInv'
<1> DEFINE s == req[r].slot
<1>1. /\ s \in Slots
      /\ slot[s].active = None
      /\ \A p \in Requests : p # r /\ req[p].run \in Underway => req[p].slot # s
    BY OwnSlot
<1>2. Leased'
    BY DEF IInv, Leased
<1>3. Waiting'
    <2> SUFFICES ASSUME NEW p \in Requests, p # r
                 PROVE  /\ req[p].run = "restarting" => slot'[req[p].slot].child = None
                        /\ req[p].run = "starting" =>
                             /\ req[p].child \in Children /\ req[p].child <= spawned'
                             /\ slot'[req[p].slot].child \in {req[p].child, None}
        BY DEF Waiting
    <2>1. req[p].run \in {"restarting", "starting"} => req[p].slot \in Slots /\ req[p].slot # s
        BY <1>1 DEF IInv, Leased, Exclusive, Underway
    <2>2. \A c \in Children : c <= spawned => c <= spawned'
        BY DEF IInv, TypeOK, Children
    <2> QED BY <2>1, <2>2 DEF IInv, Waiting
<1>4. ActiveOwned'
    <2> SUFFICES ASSUME NEW t \in Slots, slot'[t].active # None
                 PROVE  LET p == slot'[t].active IN
                        /\ req'[p].slot = t /\ req'[p].run = "running"
                        /\ slot'[t].child = req'[p].child /\ slot'[t].child # None
                        /\ child'[slot'[t].child].ready = "ok"
        BY DEF ActiveOwned
    <2>1. t # s /\ slot'[t] = slot[t]
        BY <1>1
    <2>2. slot[t].active \in Requests /\ slot[t].active # r
        BY <2>1 DEF IInv, TypeOK, ChildSlot, ActiveOwned
    <2>3. slot[t].child # None /\ slot[t].child \in Children
        BY <2>1 DEF IInv, OnSlot, ActiveOwned
    <2> QED BY <2>1, <2>2, <2>3 DEF IInv, ActiveOwned
<1> QED BY <1>2, <1>3, <1>4 DEF IInv

\* A child is forked on the empty slot of a lease, or on one whose child was let
\* go just now.
LEMMA Forks ==
    ASSUME IInv, NEW r \in Requests, req[r].lease = "held", req[r].run # "running",
           NEW children \in [Children -> Child], NEW sl \in ChildSlot,
           sl.child = None, sl.active = slot[req[r].slot].active,
           \A c \in Children : /\ children[c].slot = child[c].slot
                               /\ child[c].ready = "ok" => children[c].ready = "ok"
                               /\ c = slot[req[r].slot].child => children[c].retired
                               /\ c # slot[req[r].slot].child => children[c] = child[c],
           Fork(r, req[r].slot, children, sl), UNCHANGED <<available, pool, awaited>>
    PROVE  IInv'
<1> DEFINE s == req[r].slot
           n == spawned + 1
           new == [Unborn EXCEPT !.slot = s, !.connected = TRUE, !.state = "loading"]
<1>1. s \in Slots
    BY OwnSlot
<1>2. spawned \in 0 .. MaxChildren /\ n \in Children /\ spawned' = n /\ n \in Nat
    BY BoundsNatural DEF IInv, TypeOK, Fork, Children
<1>3. new \in Child /\ new.slot = s /\ ~new.retired
    <2>1. ~Unborn.retired
        BY DEF Unborn
    <2> QED BY <1>1, <2>1, UnbornType DEF Child
<1>4. /\ child' \in [Children -> Child] /\ child'[n] = new
      /\ \A c \in Children : c # n => child'[c] = children[c]
    BY <1>2, <1>3 DEF Fork
<1> HIDE DEF new
<1>5. [sl EXCEPT !.child = n] \in ChildSlot
    BY <1>2 DEF ChildSlot
<1>6. /\ slot' \in [Slots -> ChildSlot] /\ slot'[s].child = n /\ slot'[s].active = sl.active
      /\ \A t \in Slots : t # s => slot'[t] = slot[t]
    <2>1. slot' = [slot EXCEPT ![s] = [sl EXCEPT !.child = n]]
        BY DEF Fork
    <2>2. [sl EXCEPT !.child = n].child = n /\ [sl EXCEPT !.child = n].active = sl.active
        BY DEF ChildSlot
    <2> QED BY <1>1, <1>5, <2>1, <2>2 DEF IInv, TypeOK
<1>7. req' \in [Requests -> Request]
    <2>1. req[r] \in Request
        BY DEF IInv, TypeOK
    <2>2. [req[r] EXCEPT !.run = "starting", !.child = n] \in Request
        BY <1>2, <2>1 DEF Request
    <2>3. req' = [req EXCEPT ![r] = [req[r] EXCEPT !.run = "starting", !.child = n]]
        BY <1>2 DEF Fork
    <2> QED BY <2>2, <2>3 DEF IInv, TypeOK
<1>8. /\ req'[r].run = "starting" /\ req'[r].child = n /\ req'[r].lease = req[r].lease
      /\ req'[r].slot = s /\ req'[r].call = req[r].call
      /\ \A p \in Requests : p # r => req'[p] = req[p]
    <2>1. req[r] \in Request /\ req \in [Requests -> Request]
        BY DEF IInv, TypeOK
    <2>2. req' = [req EXCEPT ![r] = [req[r] EXCEPT !.run = "starting", !.child = n]]
        BY <1>2 DEF Fork
    <2> QED BY <2>1, <2>2 DEF Request
<1>9. TypeOK'
    <2>1. spawned' \in 0 .. MaxChildren
        BY <1>2, BoundsNatural DEF Children
    <2> QED BY <1>4, <1>6, <1>7, <2>1 DEF IInv, TypeOK
<1>10. Exclusive'
    <2>1. \A p \in Requests : /\ req'[p].lease = req[p].lease /\ req'[p].slot = req[p].slot
                              /\ req'[p].call = req[p].call
        BY <1>8
    <2> QED BY <2>1, SameLeases
<1>11. child[n] = Unborn /\ n # slot[s].child
    BY <1>1, <1>2, NoneFacts DEF IInv, Forked, OnSlot
<1>12. \A c \in Children : c # n => (c <= n <=> c <= spawned)
    BY <1>2 DEF Children
<1>13. Forked'
    <2> SUFFICES ASSUME NEW c \in Children
                 PROVE  /\ c <= n => child'[c].slot \in Slots
                        /\ c > n => child'[c] = Unborn
        BY <1>2 DEF Forked
    <2>1. c > n => c > spawned /\ c # n /\ c # slot[s].child
        <3>1. c > n => c > spawned /\ c # n
            BY <1>2 DEF Children
        <3>2. c > spawned => ~(c <= spawned)
            BY <1>2 DEF Children
        <3> QED BY <1>1, <3>1, <3>2, NoneFacts DEF IInv, OnSlot
    <2> QED BY <1>1, <1>2, <1>3, <1>4, <1>12, <2>1 DEF IInv, Forked
<1>14. OnSlot'
    <2> SUFFICES ASSUME NEW t \in Slots, slot'[t].child # None
                 PROVE  LET c == slot'[t].child IN
                        c \in Children /\ c <= n /\ child'[c].slot = t /\ ~child'[c].retired
        BY <1>2 DEF OnSlot
    <2>1. CASE t = s
        BY <1>2, <1>3, <1>4, <1>6, <2>1
    <2>2. CASE t # s
        <3>1. /\ slot[t].child \in Children /\ slot[t].child <= spawned
              /\ child[slot[t].child].slot = t /\ ~child[slot[t].child].retired
              /\ slot'[t].child = slot[t].child
            BY <1>6, <2>2 DEF IInv, OnSlot
        <3>2. slot[t].child # n /\ slot[t].child # slot[s].child
            BY <1>1, <1>2, <2>2, <3>1, NoneFacts DEF IInv, OnSlot, Children
        <3> QED BY <1>4, <1>12, <3>1, <3>2
    <2> QED BY <2>1, <2>2
<1>15. NoOrphan'
    <2> SUFFICES ASSUME NEW c \in 1 .. n, ~child'[c].retired
                 PROVE  slot'[child'[c].slot].child = c
        BY <1>2 DEF NoOrphan
    <2>1. CASE c = n
        BY <1>3, <1>4, <1>6, <2>1
    <2>2. CASE c # n
        <3>1. c \in Children /\ c \in 1 .. spawned
            <4>1. spawned \in Nat /\ n <= MaxChildren /\ MaxChildren \in Nat
                BY <1>2, BoundsNatural DEF Children
            <4> QED BY <2>2, <4>1 DEF Children
        <3>2. child'[c] = children[c] /\ c # slot[s].child /\ children[c] = child[c]
            BY <1>4, <2>2, <3>1
        <3>3. slot[child[c].slot].child = c
            BY <3>1, <3>2 DEF IInv, NoOrphan
        <3>4. child[c].slot \in Slots
            BY <3>1 DEF IInv, Forked
        <3> QED BY <1>6, <3>2, <3>3, <3>4
    <2> QED BY <2>1, <2>2
<1>16. \A c \in Children : child[c].ready = "ok" => child'[c].ready = "ok"
    BY <1>4, <1>11 DEF Unborn
<1>17. spawned <= spawned'
    BY <1>2
<1> QED BY <1>2, <1>6, <1>8, <1>9, <1>10, <1>13, <1>14, <1>15, <1>16, <1>17, Begins

-----------------------------------------------------------------------------
(* The actions, one by one *)

LEMMA GrantHolds == ASSUME IInv, NEW r \in Requests, Grant(r) PROVE IInv'
<1>1. req[r] \in Request /\ req \in [Requests -> Request]
    BY DEF IInv, TypeOK
<1>2. req' \in [Requests -> Request] /\ req'[r] = [req[r] EXCEPT !.lease = "granted"]
      /\ \A p \in Requests : p # r => req'[p] = req[p]
    BY <1>1 DEF Grant, Request
<1>3. TypeOK'
    BY <1>2 DEF IInv, TypeOK, Grant
<1>4. /\ req'[r].lease = "granted" /\ req'[r].slot = req[r].slot /\ req'[r].call = req[r].call
      /\ req'[r].run = req[r].run /\ req[r].lease = "none"
    BY <1>1, <1>2 DEF Request, Grant
<1>5. Exclusive'
    BY <1>2, <1>4 DEF IInv, Exclusive, Grant
<1>6. req[r].run \notin Underway
    BY <1>4 DEF IInv, Leased
<1> QED BY <1>2, <1>3, <1>4, <1>5, <1>6, Quiet DEF Grant

LEMMA LeaseHolds == ASSUME IInv, NEW r \in Requests, Lease(r) PROVE IInv'
<1>1. req[r] \in Request /\ req \in [Requests -> Request] /\ available \in Seq(Slots)
    BY DEF IInv, TypeOK
<1>2. req[r].lease = "granted" /\ req[r].run \notin Underway
    BY DEF Lease, IInv, Leased
<1>3. CASE available # <<>>
    <2>1. /\ Head(available) \in Slots /\ Head(available) = available[1] /\ Len(available) \in Nat \ {0}
          /\ Tail(available) \in Seq(Slots) /\ Len(Tail(available)) = Len(available) - 1
          /\ \A i \in 1 .. Len(Tail(available)) : Tail(available)[i] = available[i + 1]
        BY <1>1, <1>3, HeadTailProperties, EmptySeq
    <2>2. req' = [req EXCEPT ![r] = [req[r] EXCEPT !.lease = "held", !.slot = Head(available)]]
        BY <1>3 DEF Lease
    <2>3. [req[r] EXCEPT !.lease = "held", !.slot = Head(available)] \in Request
        BY <1>1, <2>1 DEF Request
    <2>4. /\ req' \in [Requests -> Request] /\ \A p \in Requests : p # r => req'[p] = req[p]
          /\ req'[r].lease = "held" /\ req'[r].slot = available[1]
          /\ req'[r].run = req[r].run /\ req'[r].call = req[r].call
        BY <1>1, <2>1, <2>2, <2>3 DEF Request
    <2>5. TypeOK'
        BY <1>3, <2>1, <2>4 DEF IInv, TypeOK, Lease
    <2>6. /\ \A p \in Requests : req[p].lease = "held" => available[1] # req[p].slot
          /\ \A i \in 1 .. Len(Tail(available)) : Tail(available)[i] # available[1]
          /\ \A p \in Requests : req[p].lease = "held" =>
               \A i \in 1 .. Len(Tail(available)) : Tail(available)[i] # req[p].slot
          /\ \A i, j \in 1 .. Len(Tail(available)) : Tail(available)[i] = Tail(available)[j] => i = j
        <3>1. \A i \in 1 .. Len(Tail(available)) : i + 1 \in 1 .. Len(available) /\ i + 1 # 1
            BY <2>1
        <3>2. 1 \in 1 .. Len(available)
            BY <2>1
        <3>3. \A p \in Requests : req[p].lease = "held" =>
                \A i \in 1 .. Len(available) : available[i] # req[p].slot
            BY DEF IInv, Exclusive
        <3>4. \A i, j \in 1 .. Len(available) : available[i] = available[j] => i = j
            BY DEF IInv, Exclusive
        <3>5. \A i, j \in 1 .. Len(Tail(available)) : i + 1 = j + 1 => i = j
            OBVIOUS
        <3> QED BY <2>1, <3>1, <3>2, <3>3, <3>4, <3>5
    <2>7. available' = Tail(available)
        BY <1>3 DEF Lease
    <2>8. Exclusive'
        <3>1. \A p \in Requests : req'[p].lease = "held" \/ req'[p].call = "open" => req'[p].slot \in Slots
            BY <2>1, <2>4 DEF IInv, Exclusive
        <3>2. \A q, p \in Requests :
                q # p /\ req'[q].lease = "held" /\ req'[p].lease = "held" => req'[q].slot # req'[p].slot
            BY <2>4, <2>6 DEF IInv, Exclusive
        <3>3. \A p \in Requests : req'[p].lease = "held" =>
                \A i \in 1 .. Len(available') : available'[i] # req'[p].slot
            BY <2>4, <2>6, <2>7
        <3> QED BY <2>6, <2>7, <3>1, <3>2, <3>3 DEF Exclusive
    <2> QED BY <1>2, <2>4, <2>5, <2>8, Quiet DEF Lease
<1>4. CASE available = <<>>
    <2>1. req' = [req EXCEPT ![r] = [req[r] EXCEPT !.lease = "released", !.answer = "noSlot"]]
        BY <1>4 DEF Lease
    <2>2. [req[r] EXCEPT !.lease = "released", !.answer = "noSlot"] \in Request
        BY <1>1 DEF Request
    <2>3. /\ req' \in [Requests -> Request] /\ \A p \in Requests : p # r => req'[p] = req[p]
          /\ req'[r].lease = "released" /\ req'[r].slot = req[r].slot
          /\ req'[r].run = req[r].run /\ req'[r].call = req[r].call
        BY <1>1, <2>1, <2>2 DEF Request
    <2>4. available' = available
        BY <1>4 DEF Lease
    <2>5. TypeOK'
        BY <2>3, <2>4 DEF IInv, TypeOK, Lease
    <2>6. Exclusive'
        BY <2>3, <2>4 DEF IInv, Exclusive
    <2> QED BY <1>2, <2>3, <2>5, <2>6, Quiet DEF Lease
<1> QED BY <1>3, <1>4

LEMMA ReleaseHolds == ASSUME IInv, NEW r \in Requests, Release(r) PROVE IInv'
<1> DEFINE s == req[r].slot
           q == Released(req[r])
<1>1. req[r] \in Request /\ req \in [Requests -> Request] /\ available \in Seq(Slots)
    BY DEF IInv, TypeOK
<1>2. /\ req[r].lease = "held" /\ s \in Slots /\ slot[s].active \in {r, None}
      /\ req[r].run # "running" => slot[s].active = None
    BY OwnSlot DEF Release
<1>3. /\ q \in Request /\ q.lease = "released" /\ q.slot = s /\ q.run \notin Underway
      /\ q.call = "open" => req[r].call = "open"
    <2>1. CASE req[r].run \in Underway
        <3>1. q = [Ended(req[r], "failed") EXCEPT !.lease = "released"]
            BY <2>1 DEF Released
        <3>2. /\ Ended(req[r], "failed") \in Request /\ Ended(req[r], "failed").run = "ended"
              /\ Ended(req[r], "failed").slot = s
              /\ Ended(req[r], "failed").call = "open" => req[r].call = "open"
            BY <1>1, EndedFacts
        <3> HIDE DEF q
        <3> QED BY <3>1, <3>2 DEF Request, Underway
    <2>2. CASE req[r].run \notin Underway
        <3>1. q = [req[r] EXCEPT !.lease = "released"]
            BY <2>2 DEF Released
        <3> QED BY <1>1, <2>2, <3>1 DEF Request
    <2> QED BY <2>1, <2>2
<1> HIDE DEF q
<1>4. req' = [req EXCEPT ![r] = q] /\ available' = Append(available, s)
    BY DEF Release, q
<1>5. /\ available' \in Seq(Slots) /\ Len(available') = Len(available) + 1
      /\ \A i \in 1 .. Len(available) : available'[i] = available[i]
      /\ available'[Len(available) + 1] = s /\ Len(available) \in Nat
    BY <1>1, <1>2, <1>4, AppendProperties
<1>6. Exclusive'
    <2>1. /\ req'[r] = q /\ \A p \in Requests : p # r => req'[p] = req[p]
        BY <1>1, <1>4
    <2>2. \A p \in Requests : req'[p].lease = "held" =>
            p # r /\ req'[p] = req[p] /\ req[p].slot # s
        BY <1>2, <1>3, <2>1 DEF IInv, Exclusive
    <2>3. \A i \in 1 .. Len(available') : i \in 1 .. Len(available) \/ i = Len(available) + 1
        BY <1>5
    <2>4. \A i \in 1 .. Len(available) : available[i] # s
        BY <1>2 DEF IInv, Exclusive
    <2>5. \A p \in Requests : req'[p].lease = "held" \/ req'[p].call = "open" => req'[p].slot \in Slots
        BY <1>2, <1>3, <2>1 DEF IInv, Exclusive
    <2>6. \A p \in Requests : req'[p].lease = "held" =>
            \A i \in 1 .. Len(available') : available'[i] # req'[p].slot
        BY <1>5, <2>2, <2>3 DEF IInv, Exclusive
    <2>7. \A i, j \in 1 .. Len(available') : available'[i] = available'[j] => i = j
        BY <1>5, <2>3, <2>4 DEF IInv, Exclusive
    <2>8. \A p, t \in Requests :
            p # t /\ req'[p].lease = "held" /\ req'[t].lease = "held" => req'[p].slot # req'[t].slot
        BY <2>2 DEF IInv, Exclusive
    <2> QED BY <2>5, <2>6, <2>7, <2>8 DEF Exclusive
<1>7. IF slot[s].active = r THEN child' = Recycled(s) /\ slot' = [slot EXCEPT ![s] = Vacant(@)]
                            ELSE UNCHANGED <<child, slot>>
    BY <1>2, NoneFacts DEF Release
<1> QED BY <1>2, <1>3, <1>4, <1>5, <1>6, <1>7, EndsOne DEF Release

\* A run that ends by itself, its lease kept.
LEMMA Ending ==
    ASSUME IInv, NEW r \in Requests, req[r].run \in Underway \/ req[r].lease = "held",
           req' = [req EXCEPT ![r] = Ended(req[r], "failed")],
           IF slot[req[r].slot].active = r
             THEN child' = Recycled(req[r].slot) /\ slot' = [slot EXCEPT ![req[r].slot] = Vacant(@)]
             ELSE UNCHANGED <<child, slot>>,
           UNCHANGED <<available, spawned, pool, awaited>>
    PROVE  IInv'
<1>1. req[r] \in Request /\ req \in [Requests -> Request] /\ available' \in Seq(Slots)
    BY DEF IInv, TypeOK
<1>2. req[r].lease = "held" /\ req[r].slot \in Slots
    BY DEF IInv, Leased, Exclusive
<1>3. /\ Ended(req[r], "failed") \in Request /\ Ended(req[r], "failed").run \notin Underway
      /\ Ended(req[r], "failed").slot = req[r].slot /\ Ended(req[r], "failed").lease = req[r].lease
      /\ Ended(req[r], "failed").call = "open" => req[r].call = "open"
    BY <1>1, EndedFacts DEF Underway
<1>4. Exclusive'
    BY <1>1, <1>3, SameLeases
<1> QED BY <1>1, <1>2, <1>3, <1>4, EndsOne

LEMMA EndRunHolds == ASSUME IInv, NEW r \in Requests, req[r].run \in Underway, EndRun(r) PROVE IInv'
<1>1. req[r].slot \in Slots
    BY DEF IInv, Leased, Exclusive
<1>2. slot[req[r].slot].active = r => req[r].run = "running"
    BY <1>1, NoneFacts DEF IInv, ActiveOwned
<1> QED BY <1>2, Ending DEF EndRun, StillActive

\* A run that still waits ends, or never begins.
LEMMA EndsWaiting ==
    ASSUME IInv, NEW r \in Requests, req[r].lease = "held", req[r].run # "running",
           req' = [req EXCEPT ![r] = Ended(req[r], "failed")],
           UNCHANGED <<slot, child, available, spawned, pool, awaited>>
    PROVE  IInv'
<1>1. slot[req[r].slot].active # r
    BY OwnSlot, NoneFacts
<1> QED BY <1>1, Ending

LEMMA ExecuteHolds == ASSUME IInv, NEW r \in Requests, Execute(r) PROVE IInv'
<1> DEFINE s == req[r].slot
           c == slot[s].child
<1>1. req[r] \in Request /\ req \in [Requests -> Request] /\ child \in [Children -> Child]
    BY DEF IInv, TypeOK
<1>2. /\ req[r].lease = "held" /\ req[r].run = "none"
      /\ UNCHANGED <<available, pool, awaited>>
    BY DEF Execute
<1>3. s \in Slots /\ slot[s].active = None /\ slot[s] \in ChildSlot
    BY <1>2, OwnSlot DEF IInv, TypeOK
<1>4. CASE Refused(r)
    BY <1>2, <1>4, EndsWaiting DEF Refused
<1>5. CASE UseWarmChild(r, s)
    <2>1. c \in Children /\ c <= spawned
        BY <1>3, <1>5 DEF UseWarmChild, IInv, OnSlot
    <2>2. req' = [req EXCEPT ![r] = [req[r] EXCEPT !.run = "starting", !.child = c]]
        BY <1>5 DEF UseWarmChild
    <2>3. [req[r] EXCEPT !.run = "starting", !.child = c] \in Request
        BY <1>1, <2>1 DEF Request
    <2> HIDE DEF c
    <2>4. /\ req' \in [Requests -> Request] /\ \A p \in Requests : p # r => req'[p] = req[p]
          /\ req'[r].run = "starting" /\ req'[r].child = c /\ req'[r].lease = req[r].lease
          /\ req'[r].slot = s /\ req'[r].call = req[r].call
        BY <1>1, <2>2, <2>3 DEF Request
    <2>5. UNCHANGED <<slot, child, spawned>>
        BY <1>5 DEF UseWarmChild
    <2>6. TypeOK'
        BY <1>2, <2>4, <2>5 DEF IInv, TypeOK
    <2>7. \A p \in Requests : /\ req'[p].lease = req[p].lease /\ req'[p].slot = req[p].slot
                              /\ req'[p].call = req[p].call
        BY <2>4
    <2>8. Exclusive'
        BY <1>2, <2>7, SameLeases
    <2>9. Forked' /\ OnSlot' /\ NoOrphan'
        BY <2>5 DEF IInv, Forked, OnSlot, NoOrphan
    <2>10. spawned <= spawned'
        BY <2>5 DEF IInv, TypeOK
    <2>11. slot'[s].child = c
        BY <2>5 DEF c
    <2> QED BY <1>2, <2>1, <2>4, <2>5, <2>6, <2>8, <2>9, <2>10, <2>11, Begins
<1>6. CASE ReplaceChild(r, s)
    <2> DEFINE children == IF c = None THEN child
                           ELSE [child EXCEPT ![c] = [Retired(@) EXCEPT !.ready = child[c].ready]]
    <2>1. c # None => c \in Children /\ c <= spawned /\ child[c].slot = s
        BY <1>3 DEF IInv, OnSlot
    <2>2. /\ children \in [Children -> Child]
          /\ \A d \in Children : /\ children[d].slot = child[d].slot
                                 /\ child[d].ready = "ok" => children[d].ready = "ok"
                                 /\ d = c => children[d].retired
                                 /\ d # c => children[d] = child[d]
        <3>1. CASE c = None
            BY <1>1, <3>1, NoneFacts
        <3>2. CASE c # None
            <4>1. child[c] \in Child
                BY <1>1, <2>1, <3>2
            <4>2. children = [child EXCEPT ![c] = [Retired(child[c]) EXCEPT !.ready = child[c].ready]]
                BY <3>2
            <4> HIDE DEF c, children
            <4> QED BY <1>1, <2>1, <3>2, <4>1, <4>2, QuietlyRetiredFacts
        <3> QED BY <3>1, <3>2
    <2>3. PICK later \in BOOLEAN :
            LET sl == [slot[s] EXCEPT !.child = None, !.crashes = 0, !.holding = later] IN
            \/ ~later /\ Fork(r, s, children, sl)
            \/ /\ later
               /\ child' = children
               /\ slot' = [slot EXCEPT ![s] = sl]
               /\ req' = [req EXCEPT ![r].run = "restarting"]
               /\ UNCHANGED spawned
        BY <1>6 DEF ReplaceChild
    <2> DEFINE sl == [slot[s] EXCEPT !.child = None, !.crashes = 0, !.holding = later]
    <2>4. sl \in ChildSlot /\ sl.child = None /\ sl.active = slot[s].active
        BY <1>3 DEF ChildSlot
    <2> HIDE DEF sl, children
    <2>5. CASE Fork(r, s, children, sl)
        BY <1>2, <2>2, <2>4, <2>5, Forks
    <2>6. CASE /\ child' = children
               /\ slot' = [slot EXCEPT ![s] = sl]
               /\ req' = [req EXCEPT ![r].run = "restarting"]
               /\ UNCHANGED spawned
        <3>1. /\ req' \in [Requests -> Request] /\ \A p \in Requests : p # r => req'[p] = req[p]
              /\ req'[r].run = "restarting" /\ req'[r].lease = req[r].lease
              /\ req'[r].slot = s /\ req'[r].call = req[r].call
            <4>1. [req[r] EXCEPT !.run = "restarting"] \in Request
                BY <1>1 DEF Request
            <4>2. req' = [req EXCEPT ![r] = [req[r] EXCEPT !.run = "restarting"]]
                BY <2>6
            <4> QED BY <1>1, <4>1, <4>2 DEF Request
        <3>2. /\ slot' \in [Slots -> ChildSlot] /\ slot'[s] = sl
              /\ \A t \in Slots : t # s => slot'[t] = slot[t]
            BY <1>3, <2>4, <2>6 DEF IInv, TypeOK
        <3>3. TypeOK'
            BY <1>2, <2>2, <2>6, <3>1, <3>2 DEF IInv, TypeOK
        <3>4. \A p \in Requests : /\ req'[p].lease = req[p].lease /\ req'[p].slot = req[p].slot
                                  /\ req'[p].call = req[p].call
            BY <3>1
        <3>5. Exclusive'
            BY <1>2, <3>4, SameLeases
        <3>6. Forked'
            <4>1. \A d \in Children : d > spawned => d # c
                BY <2>1, NoneFacts DEF IInv, TypeOK, Children
            <4> QED BY <2>2, <2>6, <4>1 DEF IInv, Forked
        <3>7. OnSlot'
            <4> SUFFICES ASSUME NEW t \in Slots, t # s, slot[t].child # None
                         PROVE  /\ slot[t].child \in Children /\ slot[t].child <= spawned
                                /\ children[slot[t].child].slot = t /\ ~children[slot[t].child].retired
                BY <2>4, <2>6, <3>2 DEF OnSlot
            <4>1. /\ slot[t].child \in Children /\ slot[t].child <= spawned
                  /\ child[slot[t].child].slot = t /\ ~child[slot[t].child].retired
                BY DEF IInv, OnSlot
            <4>2. slot[t].child # c
                BY <2>1, <4>1
            <4> QED BY <2>2, <4>1, <4>2
        <3>8. NoOrphan'
            <4> SUFFICES ASSUME NEW d \in 1 .. spawned, ~children[d].retired
                         PROVE  slot'[children[d].slot].child = d
                BY <2>6 DEF NoOrphan
            <4>1. d \in Children /\ d <= spawned
                BY BoundsNatural DEF IInv, TypeOK, Children
            <4>2. d # c /\ children[d] = child[d]
                BY <2>2, <4>1
            <4>3. slot[child[d].slot].child = d /\ child[d].slot \in Slots
                BY <4>1, <4>2 DEF IInv, NoOrphan, Forked
            <4>4. child[d].slot # s
                BY <4>2, <4>3
            <4> QED BY <3>2, <4>2, <4>3, <4>4
        <3>9. /\ slot'[s].child = None /\ slot'[s].active = slot[s].active
              /\ spawned <= spawned' /\ \A d \in Children : child[d].ready = "ok" => child'[d].ready = "ok"
            BY <2>2, <2>4, <2>6, <3>2 DEF IInv, TypeOK
        <3> QED BY <1>2, <3>1, <3>2, <3>3, <3>5, <3>6, <3>7, <3>8, <3>9, Begins
    <2> QED BY <2>3, <2>5, <2>6 DEF sl
<1> QED BY <1>4, <1>5, <1>6 DEF Execute

LEMMA RestartHolds == ASSUME IInv, NEW r \in Requests, Restart(r) PROVE IInv'
<1> DEFINE s == req[r].slot
<1>1. req[r].run = "restarting" /\ req[r].lease = "held" /\ UNCHANGED <<available, pool, awaited>>
    BY DEF Restart, IInv, Leased, Underway
<1>2. s \in Slots /\ slot[s].child = None /\ slot[s] \in ChildSlot
    BY <1>1, OwnSlot DEF IInv, Waiting, TypeOK
<1>3. CASE Refused(r)
    BY <1>1, <1>3, EndsWaiting DEF Refused
<1>4. CASE Fork(r, s, child, slot[s])
    <2>1. child \in [Children -> Child]
        BY DEF IInv, TypeOK
    <2> QED BY <1>1, <1>2, <1>4, <2>1, NoneFacts, Forks
<1> QED BY <1>3, <1>4 DEF Restart

LEMMA StartFailsHolds == ASSUME IInv, NEW r \in Requests, StartFails(r) PROVE IInv'
<1>1. req[r].run = "starting" /\ req[r].lease = "held"
    BY DEF StartFails, IInv, Leased, Underway
<1> QED BY <1>1, EndsWaiting DEF StartFails

LEMMA DispatchHolds == ASSUME IInv, NEW r \in Requests, Dispatch(r) PROVE IInv'
<1> DEFINE s == req[r].slot
           c == slot[s].child
<1>1. req[r] \in Request /\ req \in [Requests -> Request] /\ child \in [Children -> Child]
    BY DEF IInv, TypeOK
<1>2. /\ req[r].run = "starting" /\ req[r].lease = "held" /\ child[req[r].child].ready = "ok"
      /\ UNCHANGED <<available, spawned, pool, awaited>>
    BY DEF Dispatch, IInv, Leased, Underway
<1>3. /\ s \in Slots /\ slot[s].active = None /\ slot[s] \in ChildSlot
      /\ c \in {req[r].child, None} /\ req[r].child \in Children
      /\ \A p \in Requests : p # r /\ req[p].run \in Underway => req[p].slot # s
    BY <1>2, OwnSlot DEF IInv, Waiting, TypeOK
<1>4. CASE req' = [req EXCEPT ![r] = Ended(@, "failed")] /\ UNCHANGED <<slot, child>>
    BY <1>2, <1>4, EndsWaiting
<1>5. CASE /\ c # None
           /\ req' = [req EXCEPT ![r].run = "running", ![r].child = c]
           /\ slot' = [slot EXCEPT ![s].active = r]
           /\ child' = [child EXCEPT ![c] = Sent(@, Msg("run", r, "good"))]
    <2>1. c \in Children /\ c = req[r].child /\ child[c].ready = "ok" /\ child[c] \in Child
        BY <1>1, <1>2, <1>3, <1>5
    <2>2. /\ Sent(child[c], Msg("run", r, "good")) \in Child
          /\ Sent(child[c], Msg("run", r, "good")).slot = child[c].slot
          /\ Sent(child[c], Msg("run", r, "good")).retired = child[c].retired
          /\ Sent(child[c], Msg("run", r, "good")).ready = child[c].ready
        <3>1. Msg("run", r, "good") \in Envelope /\ Msg("run", r, "good").job \in Requests
            BY MsgType
        <3> HIDE DEF c
        <3> QED BY <2>1, <3>1, SentFacts
    <2>3. child' \in [Children -> Child]
        BY <1>1, <1>5, <2>1, <2>2
    <2>4. \A d \in Children : /\ child'[d].slot = child[d].slot /\ child'[d].retired = child[d].retired
                              /\ child'[d].ready = child[d].ready
                              /\ d # c => child'[d] = child[d]
        BY <1>1, <1>5, <2>1, <2>2
    <2>5. /\ slot' \in [Slots -> ChildSlot] /\ slot'[s].active = r /\ slot'[s].child = c
          /\ \A t \in Slots : t # s => slot'[t] = slot[t]
        <3>1. [slot[s] EXCEPT !.active = r] \in ChildSlot
            BY <1>3 DEF ChildSlot
        <3>2. slot' = [slot EXCEPT ![s] = [slot[s] EXCEPT !.active = r]]
            BY <1>5
        <3> QED BY <1>3, <3>1, <3>2 DEF IInv, TypeOK, ChildSlot
    <2>6. /\ req' \in [Requests -> Request] /\ \A p \in Requests : p # r => req'[p] = req[p]
          /\ req'[r].run = "running" /\ req'[r].child = c /\ req'[r].lease = "held"
          /\ req'[r].slot = s /\ req'[r].call = req[r].call
        <3> HIDE DEF c
        <3>1. [req[r] EXCEPT !.run = "running", !.child = c] \in Request
            BY <1>1, <2>1 DEF Request
        <3>2. req' = [req EXCEPT ![r] = [req[r] EXCEPT !.run = "running", !.child = c]]
            BY <1>5
        <3> QED BY <1>1, <1>2, <3>1, <3>2 DEF Request
    <2>7. TypeOK'
        BY <1>2, <2>3, <2>5, <2>6 DEF IInv, TypeOK
    <2>8. \A p \in Requests : /\ req'[p].lease = req[p].lease /\ req'[p].slot = req[p].slot
                              /\ req'[p].call = req[p].call
        BY <1>2, <2>6
    <2>9. Exclusive'
        BY <1>2, <2>8, SameLeases
    <2> HIDE DEF c
    <2>10. Leased'
        BY <2>6 DEF IInv, Leased
    <2>11. c <= spawned
        BY <1>2, <1>3, <1>5 DEF IInv, Waiting, c
    <2>12. Forked'
        <3>1. \A d \in Children : d > spawned => d # c
            BY <2>11 DEF IInv, TypeOK, Children
        <3> QED BY <1>2, <2>4, <3>1 DEF IInv, Forked
    <2>13. \A t \in Slots : slot'[t].child = slot[t].child
        BY <2>5 DEF c
    <2>14. OnSlot'
        BY <1>2, <2>4, <2>13 DEF IInv, OnSlot
    <2>15. \A p \in Requests : req'[p].run \in {"restarting", "starting"} =>
                                  p # r /\ req'[p] = req[p] /\ req[p].slot \in Slots
        BY <2>6 DEF IInv, Leased, Exclusive, Underway
    <2>16. Waiting'
        BY <1>2, <2>13, <2>15 DEF IInv, Waiting
    <2>17. ActiveOwned'
        <3> SUFFICES ASSUME NEW t \in Slots, slot'[t].active # None
                     PROVE  LET p == slot'[t].active IN
                            /\ req'[p].slot = t /\ req'[p].run = "running"
                            /\ slot'[t].child = req'[p].child /\ slot'[t].child # None
                            /\ child'[slot'[t].child].ready = "ok"
            BY DEF ActiveOwned
        <3>1. CASE t = s
            BY <1>5, <2>1, <2>4, <2>5, <2>6, <3>1
        <3>2. CASE t # s
            <4>1. slot'[t] = slot[t] /\ slot[t].active \in Requests /\ slot[t].active # r
                BY <1>2, <2>5, <3>2 DEF IInv, TypeOK, ChildSlot, ActiveOwned
            <4>2. slot[t].child # None /\ slot[t].child \in Children
                BY <4>1 DEF IInv, OnSlot, ActiveOwned
            <4> QED BY <2>4, <2>6, <4>1, <4>2 DEF IInv, ActiveOwned
        <3> QED BY <3>1, <3>2
    <2>18. NoOrphan'
        <3> SUFFICES ASSUME NEW d \in 1 .. spawned, ~child'[d].retired
                     PROVE  slot'[child'[d].slot].child = d
            BY <1>2 DEF NoOrphan
        <3>1. d \in Children /\ d <= spawned
            BY BoundsNatural DEF IInv, TypeOK, Children
        <3>2. child[d].slot \in Slots
            BY <3>1 DEF IInv, Forked
        <3> QED BY <2>4, <2>13, <3>1, <3>2 DEF IInv, NoOrphan
    <2> QED BY <2>7, <2>9, <2>10, <2>12, <2>14, <2>16, <2>17, <2>18 DEF IInv
<1> QED BY <1>4, <1>5 DEF Dispatch

LEMMA AbortHolds == ASSUME IInv, NEW r \in Requests, Abort(r) PROVE IInv'
<1>1. CASE req[r].run \in Underway /\ EndRun(r)
    BY <1>1, EndRunHolds
<1>2. CASE /\ req[r].run = "none"
           /\ req' = [req EXCEPT ![r].aborted = TRUE]
           /\ UNCHANGED <<slot, child, available, spawned, pool, awaited>>
    <2>1. req[r] \in Request /\ req \in [Requests -> Request]
        BY DEF IInv, TypeOK
    <2>2. /\ req' \in [Requests -> Request]
          /\ \A p \in Requests : /\ req'[p].run = req[p].run /\ req'[p].lease = req[p].lease
                                 /\ req'[p].slot = req[p].slot /\ req'[p].call = req[p].call
                                 /\ req'[p].child = req[p].child
        <3>1. [req[r] EXCEPT !.aborted = TRUE] \in Request
            BY <2>1 DEF Request
        <3>2. req' = [req EXCEPT ![r] = [req[r] EXCEPT !.aborted = TRUE]]
            BY <1>2
        <3> QED BY <2>1, <3>1, <3>2 DEF Request
    <2>3. TypeOK'
        BY <1>2, <2>2 DEF IInv, TypeOK
    <2>4. Exclusive'
        BY <1>2, <2>2, SameLeases
    <2> QED BY <1>2, <2>2, <2>3, <2>4, Quiet
<1> QED BY <1>1, <1>2 DEF Abort

LEMMA BackoffPassesHolds == ASSUME IInv, NEW s \in Slots, BackoffPasses(s) PROVE IInv'
<1>1. slot[s] \in ChildSlot /\ slot \in [Slots -> ChildSlot]
    BY DEF IInv, TypeOK
<1>2. /\ slot' \in [Slots -> ChildSlot]
      /\ \A t \in Slots : slot'[t].child = slot[t].child /\ slot'[t].active = slot[t].active
    <2>1. [slot[s] EXCEPT !.holding = FALSE] \in ChildSlot
        BY <1>1 DEF ChildSlot
    <2>2. slot' = [slot EXCEPT ![s] = [slot[s] EXCEPT !.holding = FALSE]]
        BY DEF BackoffPasses
    <2> QED BY <1>1, <2>1, <2>2 DEF ChildSlot
<1>3. TypeOK' /\ Exclusive'
    BY <1>2 DEF IInv, TypeOK, Exclusive, BackoffPasses
<1> QED BY <1>2, <1>3, Quiet DEF BackoffPasses

\* A child that is anything but unborn was forked, and what it may become.
LEMMA ChildFacts ==
    ASSUME IInv, NEW c \in Children
    PROVE  /\ child[c] \in Child /\ child \in [Children -> Child]
           /\ child[c].inbox \in Seq(Envelope) /\ child[c].outbox \in Seq(Envelope)
           /\ Unborn.state = "unborn" /\ Unborn.job = None /\ Unborn.outbox = <<>>
           /\ Unborn.errors = {} /\ Unborn.slot = None /\ ~Unborn.retired
           /\ child[c] # Unborn => c <= spawned /\ child[c].slot \in Slots
<1>1. child[c] \in Child /\ child \in [Children -> Child]
    BY DEF IInv, TypeOK
<1>2. child[c] # Unborn => c <= spawned /\ child[c].slot \in Slots
    BY DEF IInv, Forked, TypeOK, Children
<1> QED BY <1>1, <1>2 DEF Child, Unborn

\* A step of one child that leaves the requests alone.
LEMMA ChildAlone ==
    ASSUME IInv, NEW c \in Children, NEW d \in Child, child[c] # Unborn,
           d.slot = child[c].slot, d.retired = child[c].retired,
           child[c].ready = "ok" => d.ready = "ok",
           child' = [child EXCEPT ![c] = d],
           UNCHANGED <<req, slot, available, spawned, pool, awaited>>
    PROVE  IInv'
<1>1. req' \in [Requests -> Request]
    BY DEF IInv, TypeOK
<1> QED BY <1>1, ChildStep

LEMMA ChildReadyHolds == ASSUME IInv, NEW c \in Children, ChildReady(c) PROVE IInv'
<1>0. child[c] \in Child
    BY ChildFacts
<1> DEFINE m == Msg("ready", None, "good")
           d == [child[c] EXCEPT !.state = "up", !.outbox = Append(child[c].outbox, m)]
<1>1. m \in Envelope
    BY MsgType
<1>2. Append(child[c].outbox, m) \in Seq(Envelope)
    BY <1>1, ChildFacts
<1>3. d \in Child /\ d.slot = child[c].slot /\ d.retired = child[c].retired /\ d.ready = child[c].ready
    BY <1>0, <1>2 DEF Child
<1>4. child' = [child EXCEPT ![c] = d] /\ child[c] # Unborn
    BY ChildFacts DEF ChildReady
<1> HIDE DEF d
<1> QED BY <1>3, <1>4, ChildAlone DEF ChildReady

LEMMA ChildReceivesHolds == ASSUME IInv, NEW c \in Children, ChildReceives(c) PROVE IInv'
<1>0. child[c] \in Child
    BY ChildFacts
<1> DEFINE m == Head(child[c].inbox)
           overlap == m.type = "run" /\ child[c].job # None
           j == IF m.type # "run" THEN child[c].job ELSE IF overlap THEN None ELSE m.job
           o == IF overlap THEN Append(child[c].outbox, Msg("result", m.job, "good"))
                ELSE child[c].outbox
           v == child[c].overlapped \/ overlap
           i == Tail(child[c].inbox)
           d == [child[c] EXCEPT !.inbox = i, !.job = j, !.outbox = o, !.overlapped = v]
<1>1. m \in Envelope /\ i \in Seq(Envelope)
    BY ChildFacts, HeadTailProperties DEF ChildReceives
<1>2. m.job \in Requests \cup {None}
    BY <1>1 DEF Envelope
<1>3. j \in Requests \cup {None}
    BY <1>0, <1>2 DEF Child
<1>4. o \in Seq(Envelope)
    <2>1. Msg("result", m.job, "good") \in Envelope
        BY <1>2, MsgType
    <2> QED BY <2>1, ChildFacts
<1>5. v \in BOOLEAN
    BY ChildFacts DEF Child
<1>6. child' = [child EXCEPT ![c] = d] /\ child[c] # Unborn
    BY ChildFacts DEF ChildReceives
<1> HIDE DEF i, j, o, v
<1>7. d \in Child /\ d.slot = child[c].slot /\ d.retired = child[c].retired /\ d.ready = child[c].ready
    BY <1>0, <1>1, <1>3, <1>4, <1>5 DEF Child
<1> HIDE DEF d
<1> QED BY ZenonT(60), <1>6, <1>7, ChildAlone DEF ChildReceives

LEMMA ChildCallsHolds == ASSUME IInv, NEW c \in Children, ChildCalls(c) PROVE IInv'
<1>0. child[c] \in Child
    BY ChildFacts
<1> DEFINE r == child[c].job
           o == Append(child[c].outbox, Msg("host-call", r, "good"))
           d == [child[c] EXCEPT !.outbox = o]
<1>1. r \in Requests /\ child[c] # Unborn
    BY ChildFacts DEF ChildCalls, Child
<1>2. Msg("host-call", r, "good") \in Envelope
    BY <1>1, MsgType
<1>3. o \in Seq(Envelope)
    BY <1>2, ChildFacts
<1>4. child' = [child EXCEPT ![c] = d]
    BY DEF ChildCalls
<1> HIDE DEF o
<1>5. d \in Child /\ d.slot = child[c].slot /\ d.retired = child[c].retired /\ d.ready = child[c].ready
    BY <1>0, <1>3 DEF Child
<1>6. req[r] \in Request /\ req \in [Requests -> Request]
    BY <1>1 DEF IInv, TypeOK
<1>7. [req[r] EXCEPT !.call = "sent"] \in Request
    BY <1>6 DEF Request
<1>8. req' = [req EXCEPT ![r] = [req[r] EXCEPT !.call = "sent"]]
    BY DEF ChildCalls
<1> HIDE DEF r
<1>9. /\ req' \in [Requests -> Request]
      /\ \A p \in Requests :
           /\ req'[p].run = req[p].run /\ req'[p].lease = req[p].lease
           /\ req'[p].slot = req[p].slot /\ req'[p].child = req[p].child
           /\ req'[p].call = "open" => req[p].call = "open"
    BY <1>1, <1>6, <1>7, <1>8 DEF Request
<1> HIDE DEF d
<1>10. UNCHANGED <<slot, available, spawned, pool, awaited>>
    BY DEF ChildCalls
<1>11. \A p \in Requests :
        /\ req'[p].run = req[p].run
        /\ req'[p].lease = req[p].lease /\ req'[p].slot = req[p].slot
        /\ req'[p].call = "open" => req[p].call = "open" \/ req[p].slot \in Slots
        /\ req[p].run \in Underway => req'[p].child = req[p].child
    BY <1>9
<1> QED BY <1>1, <1>4, <1>5, <1>9, <1>10, <1>11, ChildStep

LEMMA ChildAnswersHolds == ASSUME IInv, NEW c \in Children, ChildAnswers(c) PROVE IInv'
<1>0. child[c] \in Child
    BY ChildFacts
<1> DEFINE r == child[c].job
<1>1. r \in Requests /\ child[c] # Unborn
    BY ChildFacts DEF ChildAnswers, Child
<1>2. PICK n \in 0 .. MaxChunks, mark \in {"good"} \cup (Faults \cap {"garbled", "dirty"}) :
        /\ req' = [req EXCEPT ![r].parts = n]
        /\ child' = [child EXCEPT
            ![c].outbox = @ \o [i \in 1 .. n |-> Msg("result-chunk", r, "good")]
                            \o <<Msg("result", r, mark)>>,
            ![c].soiled = mark = "dirty",
            ![c].job = None]
    BY DEF ChildAnswers
<1> DEFINE chunks == [i \in 1 .. n |-> Msg("result-chunk", r, "good")]
           o == child[c].outbox \o chunks \o <<Msg("result", r, mark)>>
           w == mark = "dirty"
           d == [child[c] EXCEPT !.outbox = o, !.soiled = w, !.job = None]
<1>3. o \in Seq(Envelope)
    <2>1. Msg("result-chunk", r, "good") \in Envelope /\ Msg("result", r, mark) \in Envelope
        BY <1>1, MsgType
    <2>2. n \in Nat
        BY BoundsNatural
    <2>3. chunks \in Seq(Envelope)
        BY <2>1, <2>2
    <2>4. <<Msg("result", r, mark)>> \in Seq(Envelope)
        BY <2>1
    <2>5. child[c].outbox \o chunks \in Seq(Envelope)
        BY <2>3, ChildFacts, ConcatProperties
    <2> QED BY <2>4, <2>5, ConcatProperties
<1>4. child' = [child EXCEPT ![c] = d]
    BY <1>2
<1> HIDE DEF o, w
<1>5. d \in Child /\ d.slot = child[c].slot /\ d.retired = child[c].retired /\ d.ready = child[c].ready
    <2>1. w \in BOOLEAN
        BY DEF w
    <2> QED BY <1>0, <1>3, <2>1 DEF Child
<1>6. req[r] \in Request /\ req \in [Requests -> Request]
    BY <1>1 DEF IInv, TypeOK
<1>7. [req[r] EXCEPT !.parts = n] \in Request
    BY <1>6 DEF Request
<1>8. req' = [req EXCEPT ![r] = [req[r] EXCEPT !.parts = n]]
    BY <1>2
<1> HIDE DEF r
<1>9. /\ req' \in [Requests -> Request]
      /\ \A p \in Requests :
           /\ req'[p].run = req[p].run /\ req'[p].lease = req[p].lease
           /\ req'[p].slot = req[p].slot /\ req'[p].child = req[p].child
           /\ req'[p].call = req[p].call
    BY <1>1, <1>6, <1>7, <1>8 DEF Request
<1> HIDE DEF d
<1> QED BY ZenonT(60), <1>1, <1>4, <1>5, <1>9, ChildStep DEF ChildAnswers

LEMMA DieHolds == ASSUME IInv, NEW c \in Children, Die(c) PROVE IInv'
<1>0. child[c] \in Child
    BY ChildFacts
<1>1. PICK kept \in 0 .. Len(child[c].outbox) :
        child' = [child EXCEPT ![c].state = "dead", ![c].job = None, ![c].inbox = <<>>,
                               ![c].outbox = IF child[c].retired THEN <<>> ELSE SubSeq(@, 1, kept)]
    BY DEF Die
<1> DEFINE o == IF child[c].retired THEN <<>> ELSE SubSeq(child[c].outbox, 1, kept)
           d == [child[c] EXCEPT !.state = "dead", !.job = None, !.inbox = <<>>, !.outbox = o]
<1>2. o \in Seq(Envelope)
    <2>1. child[c].outbox \in Seq(Envelope)
        BY ChildFacts
    <2>2. \A i \in 1 .. kept : child[c].outbox[i] \in Envelope
        BY <2>1
    <2>3. SubSeq(child[c].outbox, 1, kept) \in Seq(Envelope)
        BY <2>1, <2>2, SubSeqProperties
    <2> QED BY <2>3
<1>3. child' = [child EXCEPT ![c] = d] /\ child[c] # Unborn
    BY <1>1, ChildFacts DEF Die
<1> HIDE DEF o
<1>4. d \in Child /\ d.slot = child[c].slot /\ d.retired = child[c].retired /\ d.ready = child[c].ready
    <2>1. <<>> \in Seq(Envelope)
        OBVIOUS
    <2> QED BY <1>0, <1>2, <2>1 DEF Child
<1> HIDE DEF d
<1> QED BY <1>3, <1>4, ChildAlone DEF Die

LEMMA DisconnectHolds == ASSUME IInv, NEW c \in Children, Disconnect(c) PROVE IInv'
<1> DEFINE d == [child[c] EXCEPT !.connected = FALSE]
<1>1. d \in Child /\ d.slot = child[c].slot /\ d.retired = child[c].retired /\ d.ready = child[c].ready
    <2>1. child[c] \in Child
        BY ChildFacts
    <2> QED BY <2>1 DEF Child
<1>2. child' = [child EXCEPT ![c] = d] /\ child[c] # Unborn
    BY ChildFacts DEF Disconnect
<1> HIDE DEF d
<1>3. UNCHANGED <<req, slot, available, spawned, pool, awaited>>
    BY DEF Disconnect
<1> QED BY <1>1, <1>2, <1>3, ChildAlone

LEMMA ExitSeenHolds == ASSUME IInv, NEW c \in Children, ExitSeen(c) PROVE IInv'
<1> DEFINE d == [child[c] EXCEPT !.exited = TRUE]
<1>1. d \in Child /\ d.slot = child[c].slot /\ d.retired = child[c].retired /\ d.ready = child[c].ready
    <2>1. child[c] \in Child
        BY ChildFacts
    <2> QED BY <2>1 DEF Child
<1>2. child' = [child EXCEPT ![c] = d] /\ child[c] # Unborn
    BY ChildFacts DEF ExitSeen
<1> HIDE DEF d
<1>3. UNCHANGED <<req, slot, available, spawned, pool, awaited>>
    BY DEF ExitSeen
<1> QED BY <1>1, <1>2, <1>3, ChildAlone

LEMMA TerminatedHolds == ASSUME IInv, NEW c \in Children, Terminated(c) PROVE IInv'
<1> DEFINE k == IF child[c].exited THEN child[c].killed ELSE "SIGKILL"
           d == [child[c] EXCEPT !.finished = TRUE, !.killed = k]
<1>1. child[c] \in Child /\ k \in {"no", "SIGTERM", "SIGKILL"}
    BY ChildFacts DEF Child
<1>2. child' = [child EXCEPT ![c] = d] /\ child[c] # Unborn
    BY ChildFacts DEF Terminated
<1> HIDE DEF k
<1>3. d \in Child /\ d.slot = child[c].slot /\ d.retired = child[c].retired /\ d.ready = child[c].ready
    BY <1>1 DEF Child
<1> HIDE DEF d
<1> QED BY <1>2, <1>3, ChildAlone DEF Terminated

LEMMA CloseReturnsHolds == ASSUME IInv, CloseReturns PROVE IInv'
<1>1. TypeOK' /\ Exclusive'
    BY DEF IInv, TypeOK, Exclusive, CloseReturns
<1> QED BY <1>1, Quiet DEF CloseReturns

\* Who is heard: the slot's child, about the slot's active run.
LEMMA HeardFacts ==
    ASSUME IInv, NEW c \in Children, NEW m, child[c] # Unborn, Heard(c, m)
    PROVE  /\ child[c].slot \in Slots /\ slot[child[c].slot].child = c
           /\ m.job \in Requests /\ slot[child[c].slot].active = m.job
           /\ req[m.job].run = "running" /\ req[m.job].slot = child[c].slot
           /\ child[c].ready = "ok" /\ ~child[c].retired
<1>1. child[c].slot \in Slots
    BY ChildFacts
<1>2. slot[child[c].slot] \in ChildSlot
    BY <1>1 DEF IInv, TypeOK
<1> QED BY <1>1, <1>2 DEF Heard, IInv, ActiveOwned, OnSlot, ChildSlot

LEMMA ResultArrivesHolds ==
    ASSUME IInv, NEW c \in Children, NEW m \in Envelope, child[c] # Unborn, Heard(c, m),
           Tail(child[c].outbox) \in Seq(Envelope), ResultArrives(c, m),
           UNCHANGED <<available, spawned, pool, awaited>>
    PROVE  IInv'
<1> DEFINE s == child[c].slot
           r == m.job
           keep == m.mark = "good"
           a == IF m.mark = "garbled" THEN "failed" ELSE "result"
           q == Ended(req[r], a)
           b == [child[c] EXCEPT !.outbox = Tail(child[c].outbox)]
           d == IF keep THEN b ELSE Retired(b)
           sl == [child |-> IF keep THEN c ELSE None, active |-> None,
                  crashes |-> IF m.mark = "garbled" THEN slot[s].crashes ELSE 0,
                  holding |-> m.mark = "garbled" /\ slot[s].holding]
<1>1. /\ s \in Slots /\ slot[s].child = c /\ r \in Requests /\ slot[s].active = r
      /\ req[r].run = "running" /\ req[r].slot = s /\ ~child[c].retired
      /\ c <= spawned
    BY HeardFacts, ChildFacts
<1>2. /\ child[c] \in Child /\ child \in [Children -> Child] /\ slot[s] \in ChildSlot
      /\ req[r] \in Request /\ req \in [Requests -> Request]
    BY <1>1, ChildFacts DEF IInv, TypeOK
<1>3. /\ q \in Request /\ q.run = "ended" /\ q.lease = req[r].lease /\ q.slot = req[r].slot
      /\ q.call = "open" => req[r].call = "open"
    <2>1. a \in {"result", "failed"}
        OBVIOUS
    <2> HIDE DEF a
    <2> QED BY <1>2, <2>1, EndedFacts
<1>4. /\ d \in Child /\ d.slot = s /\ (keep => ~d.retired) /\ (~keep => d.retired)
      /\ child[c].ready = "ok" => d.ready = "ok"
    <2>1. b \in Child /\ b.slot = s /\ ~b.retired /\ b.ready = child[c].ready
        BY <1>1, <1>2 DEF Child
    <2>2. keep => d = b
        OBVIOUS
    <2>3. ~keep => d = Retired(b)
        OBVIOUS
    <2> HIDE DEF b, d, keep
    <2> QED BY <2>1, <2>2, <2>3, RetiredFacts
<1>5. sl \in ChildSlot /\ sl.active = None /\ sl.child = IF keep THEN c ELSE None
    BY <1>2 DEF ChildSlot
<1>6. req' = [req EXCEPT ![r] = q]
    BY DEF ResultArrives
<1>7. child' = [child EXCEPT ![c] = d]
    BY <1>2 DEF ResultArrives
<1>8. slot' = [slot EXCEPT ![s] = sl]
    BY DEF ResultArrives
<1> HIDE DEF q, d, sl, keep
<1>9. /\ req' \in [Requests -> Request] /\ req'[r] = q
      /\ \A p \in Requests : p # r => req'[p] = req[p]
    BY <1>1, <1>2, <1>3, <1>6
<1>10. /\ child' \in [Children -> Child] /\ child'[c] = d
       /\ \A e \in Children : e # c => child'[e] = child[e]
    BY <1>2, <1>4, <1>7
<1>11. /\ slot' \in [Slots -> ChildSlot] /\ slot'[s] = sl
       /\ \A t \in Slots : t # s => slot'[t] = slot[t]
    BY <1>1, <1>5, <1>8 DEF IInv, TypeOK
<1>12. TypeOK'
    BY <1>9, <1>10, <1>11 DEF IInv, TypeOK
<1>13. Exclusive'
    BY <1>3, <1>9, SameLeases
<1>14. \A p \in Requests :
        /\ req'[p].run \in Underway => p # r /\ req'[p] = req[p]
        /\ \A t \in Slots : t # s /\ slot[t].active = p => req'[p] = req[p]
    <2>1. \A t \in Slots : t # s => slot[t].active # r
        BY <1>1, NoneFacts DEF IInv, ActiveOwned
    <2> QED BY <1>3, <1>9, <2>1 DEF Underway
<1>15. \A e \in Children : /\ child'[e].slot = child[e].slot
                           /\ child[e].ready = "ok" => child'[e].ready = "ok"
                           /\ e > spawned => child'[e] = child[e]
    BY <1>1, <1>4, <1>10 DEF IInv, TypeOK, Children
<1>16. CASE ~keep
    BY <1>1, <1>4, <1>5, <1>10, <1>11, <1>12, <1>13, <1>14, <1>15, <1>16, Vacates
<1>17. CASE keep
    <2>1. \A e \in Children : child'[e].retired <=> child[e].retired
        BY <1>1, <1>4, <1>10, <1>17
    <2>2. \A t \in Slots : slot'[t].child = slot[t].child
        BY <1>1, <1>5, <1>11, <1>17
    <2>3. \A t \in Slots : /\ slot'[t].active \in {slot[t].active, None}
                           /\ slot'[t].active # None => t # s /\ slot[t].active = slot'[t].active
        BY <1>5, <1>11
    <2>4. \A t \in Slots : /\ slot[t].child # None => slot[t].child \in Children
                                                      /\ ~child[slot[t].child].retired
                           /\ slot[t].active # None => /\ slot[t].active \in Requests
                                                       /\ slot[t].child # None
                                                       /\ req[slot[t].active].run = "running"
        BY DEF IInv, OnSlot, ActiveOwned, TypeOK, ChildSlot
    <2>5. \A e \in Children : e <= spawned => child[e].slot \in Slots
        BY DEF IInv, Forked
    <2>6. \A t \in Slots : /\ slot'[t].child # None => ~child'[slot[t].child].retired
                           /\ slot'[t].active # None =>
                                slot'[t].child # None /\ req'[slot[t].active].run = "running"
        BY <1>14, <2>1, <2>2, <2>3, <2>4
    <2> QED BY <1>12, <1>13, <1>14, <1>15, <2>1, <2>2, <2>3, <2>5, <2>6, LettingGo
<1> QED BY <1>16, <1>17

LEMMA MessageHolds == ASSUME IInv, NEW c \in Children, Message(c) PROVE IInv'
<1> DEFINE m == Head(child[c].outbox)
           o == Tail(child[c].outbox)
<1>1. /\ child[c] # Unborn /\ child[c] \in Child /\ m \in Envelope /\ o \in Seq(Envelope)
      /\ UNCHANGED <<available, spawned, pool, awaited>>
    BY ChildFacts, HeadTailProperties DEF Message
<1>2. ASSUME NEW out \in Seq(Envelope), NEW ready \in {"pending", "ok", "failed"},
             child[c].ready = "ok" => ready = "ok",
             child' = [child EXCEPT ![c] = [child[c] EXCEPT !.outbox = out, !.ready = ready]],
             req' \in [Requests -> Request],
             \A r \in Requests :
                /\ req'[r].run = req[r].run
                /\ req'[r].lease = req[r].lease /\ req'[r].slot = req[r].slot
                /\ req'[r].call = "open" => req[r].call = "open" \/ req[r].slot \in Slots
                /\ req[r].run \in Underway => req'[r].child = req[r].child,
             UNCHANGED slot
      PROVE  IInv'
    <2> DEFINE d == [child[c] EXCEPT !.outbox = out, !.ready = ready]
    <2>1. /\ d \in Child /\ d.slot = child[c].slot /\ d.retired = child[c].retired
          /\ d.ready = ready
        BY <1>1, <1>2 DEF Child
    <2>2. child' = [child EXCEPT ![c] = d]
        BY <1>2
    <2> HIDE DEF d
    <2>3. req' \in [Requests -> Request] /\ UNCHANGED <<slot, available, spawned, pool, awaited>>
        BY <1>1, <1>2
    <2>4. \A r \in Requests :
            /\ req'[r].run = req[r].run
            /\ req'[r].lease = req[r].lease /\ req'[r].slot = req[r].slot
            /\ req'[r].call = "open" => req[r].call = "open" \/ req[r].slot \in Slots
            /\ req[r].run \in Underway => req'[r].child = req[r].child
        BY <1>2
    <2>5. child[c].ready = "ok" => d.ready = "ok"
        BY <1>2, <2>1
    <2> HIDE DEF m, o
    <2> QED BY <1>1, <2>1, <2>2, <2>3, <2>4, <2>5, ChildStep
<1>3. child[c].ready \in {"pending", "ok", "failed"} /\ req \in [Requests -> Request]
    BY <1>1 DEF Child, IInv, TypeOK
<1>4. CASE ReadyArrives(c)
    <2> DEFINE y == IF slot[child[c].slot].child = c /\ child[c].ready = "pending" THEN "ok"
                    ELSE child[c].ready
    <2>1. y \in {"pending", "ok", "failed"} /\ (child[c].ready = "ok" => y = "ok")
        BY <1>3
    <2>2. /\ child' = [child EXCEPT ![c] = [child[c] EXCEPT !.outbox = o, !.ready = y]]
          /\ UNCHANGED <<req, slot>>
        BY <1>4 DEF ReadyArrives
    <2> HIDE DEF y, o
    <2> QED BY <1>1, <1>2, <1>3, <2>1, <2>2
<1>5. CASE /\ child' = [child EXCEPT ![c].outbox = IF child[c].retired THEN <<>> ELSE Tail(@)]
           /\ UNCHANGED <<req, slot>>
    <2> DEFINE out == IF child[c].retired THEN <<>> ELSE o
               y == child[c].ready
    <2>1. out \in Seq(Envelope)
        BY <1>1
    <2>2. child' = [child EXCEPT ![c] = [child[c] EXCEPT !.outbox = out, !.ready = y]]
        BY <1>1, <1>5 DEF Child
    <2> HIDE DEF out
    <2> QED BY <1>2, <1>3, <1>5, <2>1, <2>2
<1>6. CASE m.type = "host-call" /\ Heard(c, m) /\ HostCallArrives(c, m.job)
    <2> DEFINE r == m.job
               y == child[c].ready
    <2>1. r \in Requests /\ req[r].slot \in Slots /\ req[r] \in Request
        BY <1>1, <1>6, HeardFacts DEF IInv, TypeOK
    <2>2. child' = [child EXCEPT ![c] = [child[c] EXCEPT !.outbox = o, !.ready = y]]
        BY <1>1, <1>6 DEF Child, HostCallArrives
    <2>3. req' = [req EXCEPT ![r] = [req[r] EXCEPT !.call = "open"]] /\ UNCHANGED slot
        BY <1>6 DEF HostCallArrives
    <2>4. [req[r] EXCEPT !.call = "open"] \in Request
        BY <2>1 DEF Request
    <2> HIDE DEF r, o, m
    <2>5. /\ req' \in [Requests -> Request]
          /\ \A p \in Requests :
                /\ req'[p].run = req[p].run
                /\ req'[p].lease = req[p].lease /\ req'[p].slot = req[p].slot
                /\ req'[p].call = "open" => req[p].call = "open" \/ req[p].slot \in Slots
                /\ req'[p].child = req[p].child
        BY <1>3, <2>1, <2>3, <2>4 DEF Request
    <2> QED BY <1>1, <1>2, <1>3, <2>2, <2>3, <2>5
<1>7. CASE m.type = "result-chunk" /\ Heard(c, m) /\ ChunkArrives(c, m.job)
    <2> DEFINE r == m.job
               y == child[c].ready
               g == req[r].got + 1
    <2>1. r \in Requests /\ req[r] \in Request
        BY <1>1, <1>7, HeardFacts DEF IInv, TypeOK
    <2>2. child' = [child EXCEPT ![c] = [child[c] EXCEPT !.outbox = o, !.ready = y]]
        BY <1>1, <1>7 DEF Child, ChunkArrives
    <2>3. req' = [req EXCEPT ![r] = [req[r] EXCEPT !.got = g]] /\ UNCHANGED slot
        BY <1>7 DEF ChunkArrives
    <2>4. g \in Nat
        BY <2>1 DEF Request
    <2> HIDE DEF g
    <2>5. [req[r] EXCEPT !.got = g] \in Request
        BY <2>1, <2>4 DEF Request
    <2> HIDE DEF r, o, m
    <2>6. /\ req' \in [Requests -> Request]
          /\ \A p \in Requests :
                /\ req'[p].run = req[p].run
                /\ req'[p].lease = req[p].lease /\ req'[p].slot = req[p].slot
                /\ req'[p].call = req[p].call
                /\ req'[p].child = req[p].child
        BY <1>3, <2>1, <2>3, <2>5 DEF Request
    <2> QED BY <1>1, <1>2, <1>3, <2>2, <2>3, <2>6
<1>8. CASE Heard(c, m) /\ ResultArrives(c, m)
    BY <1>1, <1>8, ResultArrivesHolds
<1> QED BY <1>4, <1>5, <1>6, <1>7, <1>8 DEF Message

LEMMA HostReturnsHolds == ASSUME IInv, NEW r \in Requests, HostReturns(r) PROVE IInv'
<1> DEFINE k == IF req[r].run = "ended" THEN None ELSE req[r].child
           q == [req[r] EXCEPT !.call = "done", !.child = k]
           c == req[r].child
           d == Sent(child[c], Msg("host-result", r, "good"))
<1>1. req[r] \in Request /\ req \in [Requests -> Request] /\ req[r].call = "open"
    BY DEF IInv, TypeOK, HostReturns
<1>2. k \in Children \cup {None} /\ (req[r].run \in Underway => k = req[r].child)
    BY <1>1 DEF Request, Underway
<1>3. req' = [req EXCEPT ![r] = q]
    BY DEF HostReturns
<1> HIDE DEF k
<1>4. q \in Request /\ q.run = req[r].run /\ q.lease = req[r].lease /\ q.slot = req[r].slot
      /\ q.call = "done" /\ q.child = k
    BY <1>1, <1>2 DEF Request
<1> HIDE DEF q
<1>5. req' \in [Requests -> Request] /\ req'[r] = q /\ \A p \in Requests : p # r => req'[p] = req[p]
    BY <1>1, <1>3, <1>4
<1>6. \A p \in Requests :
        /\ req'[p].run = req[p].run
        /\ req'[p].lease = req[p].lease /\ req'[p].slot = req[p].slot
        /\ req'[p].call = "open" => req[p].call = "open" \/ req[p].slot \in Slots
        /\ req[p].run \in Underway => req'[p].child = req[p].child
    BY <1>2, <1>4, <1>5
<1>7. UNCHANGED <<slot, available, spawned, pool, awaited>>
    BY DEF HostReturns
<1>8. CASE ~MayAnswer(r)
    <2>1. UNCHANGED child
        BY <1>8 DEF HostReturns
    <2>2. TypeOK'
        BY <1>5, <1>7, <2>1 DEF IInv, TypeOK
    <2>3. Exclusive'
        BY <1>6, <1>7, SameLeases
    <2> QED BY <1>6, <1>7, <2>1, <2>2, <2>3, Quiet
<1>9. CASE MayAnswer(r)
    <2>1. req[r].slot \in Slots
        BY <1>1 DEF IInv, Exclusive
    <2>2. c \in Children /\ c <= spawned /\ child[c].slot = req[r].slot
        BY <1>9, <2>1, NoneFacts DEF MayAnswer, StillActive, IInv, ActiveOwned, OnSlot
    <2>3. child' = [child EXCEPT ![c] = d]
        BY <1>9 DEF HostReturns
    <2>4. child[c] # Unborn
        BY <2>1, <2>2, ChildFacts, NoneFacts
    <2>5. d \in Child /\ d.slot = child[c].slot /\ d.retired = child[c].retired /\ d.ready = child[c].ready
        <3>1. Msg("host-result", r, "good") \in Envelope /\ Msg("host-result", r, "good").job \in Requests
            BY MsgType
        <3>2. child[c] \in Child
            BY <2>2, ChildFacts
        <3> HIDE DEF c
        <3> QED BY <3>1, <3>2, SentFacts
    <2> HIDE DEF c, d
    <2> QED BY <1>5, <1>6, <1>7, <2>2, <2>3, <2>4, <2>5, ChildStep
<1> QED BY <1>8, <1>9

\* A slot loses its child, and its active run is rejected.
LEMMA Rejects ==
    ASSUME IInv, NEW s \in Slots,
           slot' \in [Slots -> ChildSlot], slot'[s].child = None, slot'[s].active = None,
           \A t \in Slots : t # s => slot'[t] = slot[t],
           child' \in [Children -> Child],
           \A c \in Children : /\ child'[c].slot = child[c].slot
                               /\ child[c].ready = "ok" => child'[c].ready = "ok"
                               /\ c > spawned => child'[c] = child[c]
                               /\ c = slot[s].child => child'[c].retired
                               /\ c # slot[s].child => child'[c].retired = child[c].retired,
           req' = [r \in Requests |-> IF r = slot[s].active THEN Ended(req[r], "failed") ELSE req[r]],
           UNCHANGED <<available, spawned, pool, awaited>>
    PROVE  IInv'
<1>1. \A r \in Requests : req[r] \in Request
    BY DEF IInv, TypeOK
<1>2. \A r \in Requests : r # slot[s].active => req'[r] = req[r]
    OBVIOUS
<1>3. \A r \in Requests : r = slot[s].active => req'[r] = Ended(req[r], "failed")
    OBVIOUS
<1>4. \A r \in Requests : r = slot[s].active =>
        /\ req'[r] \in Request /\ req'[r].run = "ended"
        /\ req'[r].lease = req[r].lease /\ req'[r].slot = req[r].slot
        /\ req'[r].call = "open" => req[r].call = "open"
    BY <1>1, <1>3, EndedFacts
<1>5. req' \in [Requests -> Request]
    <2>1. \A r \in Requests : req'[r] \in Request
        BY <1>1, <1>2, <1>4
    <2>2. req' = [r \in Requests |-> req'[r]]
        OBVIOUS
    <2> QED BY <2>1, <2>2
<1>6. TypeOK'
    BY <1>5 DEF IInv, TypeOK
<1>7. Exclusive'
    BY <1>2, <1>4, SameLeases
<1>8. \A r \in Requests :
        /\ req'[r].run \in Underway => req'[r] = req[r]
        /\ \A t \in Slots : t # s /\ slot[t].active = r => req'[r].run = req[r].run
    <2>1. \A t \in Slots : t # s /\ slot[t].active # None => slot[t].active # slot[s].active
        BY DEF IInv, ActiveOwned
    <2> QED BY <1>2, <1>4, <2>1, NoneFacts DEF Underway
<1> QED BY <1>6, <1>7, <1>8, Vacates

LEMMA SendFailsHolds == ASSUME IInv, NEW c \in Children, NEW r \in Requests, SendFails(c, r) PROVE IInv'
<1> DEFINE s == child[c].slot
           reported == [child EXCEPT ![c].errors = @ \ {r}]
           d == [child[c] EXCEPT !.errors = child[c].errors \ {r}]
<1>1. child[c] # Unborn /\ s \in Slots /\ UNCHANGED <<available, spawned, pool, awaited>>
    BY ChildFacts DEF SendFails
<1>2. child[c] \in Child /\ child \in [Children -> Child]
    BY ChildFacts
<1>3. d \in Child /\ d.slot = child[c].slot /\ d.retired = child[c].retired /\ d.ready = child[c].ready
    <2>1. child[c].errors \ {r} \in SUBSET Requests
        BY <1>2 DEF Child
    <2> QED BY <1>2, <2>1 DEF Child
<1>4. reported = [child EXCEPT ![c] = d]
    OBVIOUS
<1>5. CASE ~StillActive(s, r)
    <2>1. child' = [child EXCEPT ![c] = d] /\ UNCHANGED <<req, slot>>
        BY <1>4, <1>5 DEF SendFails
    <2> HIDE DEF d
    <2> QED BY <1>1, <1>3, <2>1, ChildAlone
<1>6. CASE StillActive(s, r)
    <2>1. /\ req' = [q \in Requests |-> IF q = slot[s].active THEN Ended(req[q], "failed") ELSE req[q]]
          /\ child' = [e \in Children |-> IF e = slot[s].child THEN Retired(reported[e]) ELSE reported[e]]
          /\ slot' = [slot EXCEPT ![s] = Vacant(slot[s])]
        BY <1>6 DEF SendFails
    <2>2. slot[s] \in ChildSlot /\ slot \in [Slots -> ChildSlot]
        BY <1>1 DEF IInv, TypeOK
    <2>3. /\ slot' \in [Slots -> ChildSlot] /\ slot'[s].child = None /\ slot'[s].active = None
          /\ \A t \in Slots : t # s => slot'[t] = slot[t]
        BY <1>1, <2>1, <2>2, VacantFacts
    <2> HIDE DEF d
    <2>4. \A e \in Children : /\ reported[e] \in Child /\ reported[e].slot = child[e].slot
                              /\ reported[e].retired = child[e].retired
                              /\ reported[e].ready = child[e].ready
                              /\ e # c => reported[e] = child[e]
        BY <1>2, <1>3, <1>4
    <2> HIDE DEF reported
    <2>5. \A e \in Children :
            /\ e = slot[s].child => child'[e] = Retired(reported[e])
            /\ e # slot[s].child => child'[e] = reported[e]
        BY <2>1
    <2>6. \A e \in Children : /\ child'[e] \in Child
                              /\ child'[e].slot = child[e].slot
                              /\ child[e].ready = "ok" => child'[e].ready = "ok"
                              /\ e = slot[s].child => child'[e].retired
                              /\ e # slot[s].child => child'[e].retired = child[e].retired
        BY <2>4, <2>5, RetiredFacts
    <2>7. child' \in [Children -> Child]
        <3>1. child' = [e \in Children |-> child'[e]]
            BY <2>1
        <3> QED BY <2>6, <3>1
    <2>8. \A e \in Children : e > spawned => e # c /\ e # slot[s].child
        <3>1. \A e \in Children : e > spawned => ~(e <= spawned)
            BY DEF IInv, TypeOK, Children
        <3>2. c <= spawned
            BY <1>1, ChildFacts
        <3>3. slot[s].child # None => slot[s].child <= spawned
            BY <1>1 DEF IInv, OnSlot
        <3> QED BY <3>1, <3>2, <3>3, NoneFacts
    <2>9. \A e \in Children : e > spawned => child'[e] = child[e]
        BY <2>4, <2>5, <2>8
    <2> QED BY <1>1, <2>1, <2>3, <2>6, <2>7, <2>9, Rejects
<1> QED BY <1>5, <1>6

\* One child is let go and its slot loses it: the shape of a crash, of a startup
\* that failed and of an error.
LEMMA Loses ==
    ASSUME IInv, NEW c \in Children, child[c].slot \in Slots, slot[child[c].slot].child = c,
           NEW d \in Child, d.slot = child[c].slot, child[c].ready = "ok" => d.ready = "ok", d.retired,
           child' = [child EXCEPT ![c] = d],
           NEW sl \in ChildSlot, sl.child = None, sl.active = None,
           slot' = [slot EXCEPT ![child[c].slot] = sl],
           req' = [r \in Requests |-> IF r = slot[child[c].slot].active THEN Ended(req[r], "failed")
                                      ELSE req[r]],
           UNCHANGED <<available, spawned, pool, awaited>>
    PROVE  IInv'
<1>1. /\ slot' \in [Slots -> ChildSlot] /\ slot'[child[c].slot] = sl
      /\ \A t \in Slots : t # child[c].slot => slot'[t] = slot[t]
    BY DEF IInv, TypeOK
<1>2. /\ child' \in [Children -> Child] /\ child'[c] = d
      /\ \A e \in Children : e # c => child'[e] = child[e]
    BY DEF IInv, TypeOK
<1>3. c # None /\ c <= spawned
    BY NoneFacts DEF IInv, OnSlot
<1>4. \A e \in Children : e > spawned => e # c
    BY <1>3 DEF IInv, TypeOK, Children
<1> QED BY <1>1, <1>2, <1>4, Rejects

LEMMA CloseSeenHolds == ASSUME IInv, NEW c \in Children, CloseSeen(c) PROVE IInv'
<1> DEFINE s == child[c].slot
           b == [child[c] EXCEPT !.exited = TRUE]
           d == Retired(b)
           sl == OneMoreCrash(Vacant(slot[s]))
<1>1. /\ child[c] # Unborn /\ s \in Slots /\ child[c] \in Child /\ slot[s] \in ChildSlot
      /\ c <= spawned
    BY ChildFacts DEF CloseSeen, IInv, TypeOK
<1>2. slot[s].child = c
    <2>1. c \in 1 .. spawned
        BY <1>1 DEF IInv, TypeOK, Children
    <2> QED BY <2>1 DEF IInv, NoOrphan, CloseSeen
<1>3. b \in Child /\ b.slot = s /\ b.ready = child[c].ready
    BY <1>1 DEF Child
<1>4. /\ child' = [child EXCEPT ![c] = d] /\ slot' = [slot EXCEPT ![s] = sl]
      /\ req' = [r \in Requests |-> IF r = slot[s].active THEN Ended(req[r], "failed") ELSE req[r]]
      /\ UNCHANGED <<available, spawned, pool, awaited>>
    BY DEF CloseSeen
<1> HIDE DEF b
<1>5. d \in Child /\ d.slot = s /\ d.retired /\ (child[c].ready = "ok" => d.ready = "ok")
    BY <1>3, RetiredFacts
<1>6. sl \in ChildSlot /\ sl.child = None /\ sl.active = None
    BY <1>1, VacantFacts
<1> HIDE DEF d, sl
<1> QED BY <1>1, <1>2, <1>4, <1>5, <1>6, Loses

LEMMA FailStartupHolds ==
    ASSUME IInv, NEW c \in Children, child[c] # Unborn, FailStartup(c),
           UNCHANGED <<available, spawned, pool, awaited>>
    PROVE  IInv'
<1> DEFINE s == child[c].slot
           d == Retired(child[c])
           sl == OneMoreCrash([slot[s] EXCEPT !.child = None])
<1>1. /\ s \in Slots /\ child[c] \in Child /\ slot[s] \in ChildSlot
      /\ slot[s].child = c /\ child[c].ready = "pending"
    BY ChildFacts DEF FailStartup, IInv, TypeOK
<1>2. slot[s].active = None
    BY <1>1 DEF IInv, ActiveOwned
<1>3. /\ child' = [child EXCEPT ![c] = d] /\ slot' = [slot EXCEPT ![s] = sl] /\ req' = req
    BY DEF FailStartup
<1>4. d \in Child /\ d.slot = s /\ d.retired
    BY <1>1, RetiredFacts
<1>5. sl \in ChildSlot /\ sl.child = None /\ sl.active = None
    <2>1. [slot[s] EXCEPT !.child = None] \in ChildSlot /\ [slot[s] EXCEPT !.child = None].child = None
          /\ [slot[s] EXCEPT !.child = None].active = None
        BY <1>1, <1>2 DEF ChildSlot
    <2> QED BY <2>1, VacantFacts
<1>6. req' = [r \in Requests |-> IF r = slot[s].active THEN Ended(req[r], "failed") ELSE req[r]]
    BY <1>2, <1>3, NoneFacts DEF IInv, TypeOK
<1> HIDE DEF d, sl
<1> QED BY <1>1, <1>3, <1>4, <1>5, <1>6, Loses

LEMMA WatchdogHolds == ASSUME IInv, NEW c \in Children, Watchdog(c) PROVE IInv'
BY ChildFacts, FailStartupHolds DEF Watchdog

LEMMA ErrorSeenHolds == ASSUME IInv, NEW c \in Children, ErrorSeen(c) PROVE IInv'
<1>1. child[c] # Unborn /\ UNCHANGED <<available, spawned, pool, awaited>>
    BY ChildFacts DEF ErrorSeen
<1>2. CASE FailStartup(c)
    BY <1>1, <1>2, FailStartupHolds
<1>3. CASE RejectAndRecycle(child[c].slot)
    <2> DEFINE s == child[c].slot
    <2>1. s \in Slots /\ slot[s] \in ChildSlot /\ slot[s].child = c
        BY <1>1, ChildFacts DEF ErrorSeen, IInv, TypeOK
    <2>2. /\ req' = [r \in Requests |-> IF r = slot[s].active THEN Ended(req[r], "failed") ELSE req[r]]
          /\ child' = Recycled(s) /\ slot' = [slot EXCEPT ![s] = Vacant(slot[s])]
        BY <1>3 DEF RejectAndRecycle
    <2>3. /\ slot' \in [Slots -> ChildSlot] /\ slot'[s].child = None /\ slot'[s].active = None
          /\ \A t \in Slots : t # s => slot'[t] = slot[t]
        BY <2>1, <2>2, VacantFacts DEF IInv, TypeOK
    <2>4. \A e \in Children : e > spawned => e # slot[s].child
        BY <2>1, NoneFacts DEF IInv, OnSlot, TypeOK, Children
    <2>5. \A e \in Children : /\ child'[e].slot = child[e].slot
                              /\ child[e].ready = "ok" => child'[e].ready = "ok"
                              /\ e > spawned => child'[e] = child[e]
                              /\ e = slot[s].child => child'[e].retired
                              /\ e # slot[s].child => child'[e].retired = child[e].retired
        BY <2>1, <2>2, <2>4, RecycledFacts
    <2>6. child' \in [Children -> Child]
        BY <2>1, <2>2, RecycledFacts
    <2> HIDE DEF s
    <2> QED BY <1>1, <2>1, <2>2, <2>3, <2>5, <2>6, Rejects
<1> QED BY <1>2, <1>3 DEF ErrorSeen

LEMMA CloseHolds == ASSUME IInv, Close PROVE IInv'
<1> DEFINE on == {slot[s].child : s \in Slots}
<1>1. \A c \in Children : child[c] \in Child
    BY DEF IInv, TypeOK
<1>2. \A s \in Slots : slot[s] \in ChildSlot
    BY DEF IInv, TypeOK
<1>3. \A c \in Children : /\ c \in on => child'[c] = Retired(child[c])
                          /\ c \notin on => child'[c] = child[c]
    BY DEF Close
<1>4. \A c \in Children : /\ child'[c] \in Child
                          /\ child'[c].slot = child[c].slot
                          /\ child[c].ready = "ok" => child'[c].ready = "ok"
                          /\ child[c].retired => child'[c].retired
                          /\ c \in on => child'[c].retired
    BY <1>1, <1>3, RetiredFacts
<1>5. child' \in [Children -> Child]
    <2>1. child' = [c \in Children |-> child'[c]]
        BY DEF Close
    <2> QED BY <1>4, <2>1
<1>6. \A s \in Slots : /\ slot[s].child # None => slot'[s] = Vacant(slot[s])
                       /\ slot[s].child = None => slot'[s] = slot[s]
    BY DEF Close
<1>7. \A s \in Slots : slot[s].child = None => slot[s].active = None
    BY DEF IInv, ActiveOwned
<1>8. \A s \in Slots : slot'[s] \in ChildSlot /\ slot'[s].child = None /\ slot'[s].active = None
    BY <1>2, <1>6, <1>7, VacantFacts
<1>9. slot' \in [Slots -> ChildSlot]
    <2>1. slot' = [s \in Slots |-> slot'[s]]
        BY DEF Close
    <2> QED BY <1>8, <2>1
<1>10. \A r \in Requests : req[r] \in Request
    BY DEF IInv, TypeOK
<1>11. \A r \in Requests : \/ req'[r] = req[r]
                           \/ req'[r] = Ended(req[r], "failed")
    BY DEF Close
<1>12. \A r \in Requests : /\ req'[r] \in Request
                           /\ req'[r].run = "ended" \/ req'[r] = req[r]
                           /\ req'[r].lease = req[r].lease /\ req'[r].slot = req[r].slot
                           /\ req'[r].call = "open" => req[r].call = "open"
    BY <1>10, <1>11, EndedFacts
<1>13. req' \in [Requests -> Request]
    <2>1. req' = [r \in Requests |-> req'[r]]
        BY DEF Close
    <2> QED BY <1>12, <2>1
<1>14. /\ available' = available /\ spawned' = spawned /\ pool' = "closing"
       /\ awaited' \subseteq Children
    BY DEF Close
<1>15. TypeOK'
    BY <1>5, <1>9, <1>13, <1>14 DEF IInv, TypeOK
<1>16. Exclusive'
    BY <1>12, <1>14, SameLeases
<1>17. \A c \in Children : c > spawned => child'[c] = child[c]
    <2> SUFFICES ASSUME NEW c \in Children, c > spawned PROVE c \notin on
        BY <1>3
    <2>1. ~(c <= spawned)
        BY DEF IInv, TypeOK, Children
    <2> QED BY <2>1, NoneFacts DEF IInv, OnSlot
<1>18. \A c \in Children : c <= spawned => child'[c].retired
    <2> SUFFICES ASSUME NEW c \in Children, c <= spawned, ~child[c].retired PROVE c \in on
        BY <1>4
    <2>1. c \in 1 .. spawned
        BY DEF IInv, TypeOK, Children
    <2>2. child[c].slot \in Slots /\ slot[child[c].slot].child = c
        BY <2>1 DEF IInv, Forked, NoOrphan
    <2> QED BY <2>2
<1> HIDE DEF on
<1> QED BY <1>4, <1>8, <1>12, <1>14, <1>15, <1>16, <1>17, <1>18, LettingGo DEF Underway

-----------------------------------------------------------------------------
(* The theorems *)

LEMMA Preserved == IInv /\ [Next]_vars => IInv'
<1> SUFFICES ASSUME IInv, [Next]_vars PROVE IInv'
    OBVIOUS
<1>1. ASSUME NEW r \in Requests,
             \/ Grant(r) \/ Lease(r) \/ Execute(r) \/ Release(r)
             \/ Restart(r) \/ Dispatch(r) \/ StartFails(r)
             \/ Abort(r) \/ Interrupt(r) \/ Deadline(r)
             \/ HostReturns(r)
      PROVE  IInv'
    <2>1. CASE Interrupt(r)
        BY <2>1, EndRunHolds DEF Interrupt
    <2>2. CASE Deadline(r)
        BY <2>2, EndRunHolds DEF Deadline, Underway
    <2> QED BY <1>1, <2>1, <2>2, GrantHolds, LeaseHolds, ExecuteHolds, ReleaseHolds, RestartHolds,
               DispatchHolds, StartFailsHolds, AbortHolds, HostReturnsHolds
<1>2. ASSUME NEW c \in Children,
             \/ ChildReady(c) \/ ChildReceives(c) \/ ChildCalls(c) \/ ChildAnswers(c) \/ Die(c)
             \/ Message(c) \/ Disconnect(c) \/ ExitSeen(c) \/ CloseSeen(c)
             \/ Watchdog(c) \/ ErrorSeen(c) \/ Terminated(c)
             \/ \E r \in Requests : SendFails(c, r)
      PROVE  IInv'
    BY <1>2, ChildReadyHolds, ChildReceivesHolds, ChildCallsHolds, ChildAnswersHolds, DieHolds,
       MessageHolds, DisconnectHolds, ExitSeenHolds, CloseSeenHolds, WatchdogHolds, ErrorSeenHolds,
       TerminatedHolds, SendFailsHolds
<1>3. CASE UNCHANGED vars
    <2>1. TypeOK' /\ Exclusive'
        BY <1>3 DEF vars, IInv, TypeOK, Exclusive
    <2> QED BY <1>3, <2>1, Quiet DEF vars
<1> QED BY <1>1, <1>2, <1>3, BackoffPassesHolds, CloseHolds, CloseReturnsHolds DEF Next

\* Every step of the pool keeps the invariant.
THEOREM IInvHolds == Spec => []IInv
BY InitHolds, Preserved, PTL DEF Spec

\* The variables hold what they are declared to hold.
THEOREM TypesHold == Spec => []TypeOK
<1>1. IInv => TypeOK
    BY DEF IInv
<1> QED BY <1>1, IInvHolds, PTL

\* A run goes on only within its own lease, and an active run has its slot's
\* child under it, ready and not let go: nothing of a released lease spawns or
\* dispatches on the slot's next owner.
THEOREM RunWithinLeaseHolds == Spec => []RunWithinLease
<1>1. IInv => RunWithinLease
    <2> SUFFICES ASSUME IInv PROVE RunWithinLease
        OBVIOUS
    <2>1. \A s \in Slots : slot[s].active # None =>
            /\ req[slot[s].active].slot = s /\ req[slot[s].active].run = "running"
            /\ slot[s].child = req[slot[s].active].child
            /\ child[slot[s].child].ready = "ok" /\ ~child[slot[s].child].retired
        BY DEF IInv, ActiveOwned, OnSlot
    <2> QED BY <2>1 DEF IInv, Leased, RunWithinLease
<1> QED BY <1>1, IInvHolds, PTL

\* A forked process stays on its slot until it is let go: none is left that
\* nobody kills.
THEOREM NoOrphanHolds == Spec => []NoOrphan
<1>1. IInv => NoOrphan
    BY DEF IInv
<1> QED BY <1>1, IInvHolds, PTL

-----------------------------------------------------------------------------
(* There is always a slot for an admitted request: permits are no more than  *)
(* slots, and a slot that no lease holds is available.                       *)

Admitted == {r \in Requests : req[r].lease \in {"granted", "held"}}

SlotLeft ==
    /\ Cardinality(Admitted) <= Cardinality(Slots)
    /\ \A s \in Slots : \/ \E i \in 1 .. Len(available) : available[i] = s
                        \/ \E r \in Requests : req[r].lease = "held" /\ req[r].slot = s
    /\ \A r \in Requests : req[r].answer # "noSlot"

LEMMA AdmittedFinite == IsFiniteSet(Admitted) /\ Cardinality(Admitted) \in Nat
                        /\ Cardinality(Slots) \in Nat
<1>1. Admitted \in SUBSET Requests
    BY DEF Admitted
<1> QED BY <1>1, RequestsFinite, SlotsFinite, FS_Subset, FS_CardinalityType

LEMMA InitSlotLeft == Init => SlotLeft
<1> SUFFICES ASSUME Init PROVE SlotLeft
    OBVIOUS
<1> DEFINE n == Cardinality(Slots)
<1>1. n \in Nat
    BY SlotsFinite, FS_CardinalityType
<1>2. /\ available \in [1 .. n -> Slots] /\ Len(available) = n
      /\ \A i, j \in 1 .. n : available[i] = available[j] => i = j
    BY <1>1 DEF Init
<1>3. ASSUME NEW s \in Slots, \A i \in 1 .. n : available[i] # s
      PROVE  FALSE
    <2>1. /\ IsFiniteSet(Slots \ {s}) /\ Cardinality(Slots \ {s}) = n - 1
        BY SlotsFinite, FS_RemoveElement
    <2>2. IsFiniteSet(1 .. n) /\ Cardinality(1 .. n) = n
        BY <1>1, FS_Interval
    <2>3. available \in [1 .. n -> Slots \ {s}]
        BY <1>2, <1>3
    <2>4. n - 1 < n
        BY <1>1
    <2> HIDE DEF n
    <2>5. \E x, y \in 1 .. n : x # y /\ available[x] = available[y]
        BY <2>1, <2>2, <2>3, <2>4, FS_PigeonHole
    <2> QED BY <1>2, <2>5
<1>4. Admitted = {}
    BY DEF Init, NewRequest, Admitted
<1>5. Cardinality(Admitted) <= Cardinality(Slots)
    BY <1>1, <1>4, FS_EmptySet
<1> QED BY <1>2, <1>3, <1>5 DEF SlotLeft, Init, NewRequest

\* A step that changes no lease, and ends no run for want of a slot.
LeasesKept ==
    /\ available' = available
    /\ \A r \in Requests : /\ req'[r].lease = req[r].lease /\ req'[r].slot = req[r].slot
                           /\ req'[r].answer # "noSlot" \/ req'[r].answer = req[r].answer

LEMMA KeptSlotLeft == ASSUME SlotLeft, LeasesKept PROVE SlotLeft'
<1>1. Admitted' = Admitted
    BY DEF Admitted, LeasesKept
<1> QED BY <1>1 DEF SlotLeft, LeasesKept

LEMMA GrantSlotLeft == ASSUME IInv, SlotLeft, NEW r \in Requests, Grant(r) PROVE SlotLeft'
<1>1. req[r] \in Request /\ req \in [Requests -> Request]
    BY DEF IInv, TypeOK
<1>2. /\ req'[r].lease = "granted" /\ req'[r].answer = req[r].answer
      /\ \A p \in Requests : p # r => req'[p] = req[p]
      /\ req[r].lease = "none" /\ available' = available
    BY <1>1 DEF Grant, Request
<1>3. Admitted' = Admitted \cup {r} /\ r \notin Admitted
    BY <1>2 DEF Admitted
<1>4. Cardinality(Admitted) < Cardinality(Slots)
    BY DEF Grant, Admitted
<1>5. Cardinality(Admitted') <= Cardinality(Slots)
    <2>1. Cardinality(Admitted \cup {r}) = Cardinality(Admitted) + 1
        BY <1>3, AdmittedFinite, FS_AddElement
    <2>2. Cardinality(Admitted) + 1 <= Cardinality(Slots)
        BY <1>4, AdmittedFinite
    <2> QED BY <1>3, <2>1, <2>2
<1> QED BY <1>2, <1>5 DEF SlotLeft

LEMMA LeaseSlotLeft == ASSUME IInv, SlotLeft, NEW r \in Requests, Lease(r) PROVE SlotLeft'
<1>1. req[r] \in Request /\ req \in [Requests -> Request] /\ available \in Seq(Slots)
    BY DEF IInv, TypeOK
<1>2. req[r].lease = "granted" /\ r \in Admitted
    BY DEF Lease, Admitted
<1>3. available # <<>>
    <2> SUFFICES ASSUME available = <<>> PROVE FALSE
        OBVIOUS
    <2> DEFINE f == [s \in Slots |-> CHOOSE q \in Requests : req[q].lease = "held" /\ req[q].slot = s]
    <2>1. \A s \in Slots : f[s] \in Requests /\ req[f[s]].lease = "held" /\ req[f[s]].slot = s
        BY DEF SlotLeft
    <2>2. f \in [Slots -> Admitted \ {r}]
        BY <1>2, <2>1 DEF Admitted
    <2>3. /\ IsFiniteSet(Admitted \ {r})
          /\ Cardinality(Admitted \ {r}) = Cardinality(Admitted) - 1
        BY <1>2, AdmittedFinite, FS_RemoveElement
    <2>4. Cardinality(Admitted \ {r}) < Cardinality(Slots)
        BY <2>3, AdmittedFinite DEF SlotLeft
    <2> HIDE DEF f
    <2>5. \E x, y \in Slots : x # y /\ f[x] = f[y]
        BY <2>2, <2>3, <2>4, SlotsFinite, FS_PigeonHole
    <2> QED BY <2>1, <2>5
<1>4. /\ available' = Tail(available)
      /\ req' = [req EXCEPT ![r] = [req[r] EXCEPT !.lease = "held", !.slot = Head(available)]]
    BY <1>3 DEF Lease
<1>5. /\ req'[r].lease = "held" /\ req'[r].slot = available[1] /\ req'[r].answer = req[r].answer
      /\ \A p \in Requests : p # r => req'[p] = req[p]
    <2>1. Head(available) = available[1]
        BY <1>1, <1>3, HeadTailProperties
    <2> QED BY <1>1, <1>4, <2>1 DEF Request
<1>6. Admitted' = Admitted
    BY <1>2, <1>5 DEF Admitted
<1>7. \A s \in Slots : \/ \E i \in 1 .. Len(available') : available'[i] = s
                       \/ \E p \in Requests : req'[p].lease = "held" /\ req'[p].slot = s
    <2> SUFFICES ASSUME NEW s \in Slots, \A p \in Requests : ~(req'[p].lease = "held" /\ req'[p].slot = s)
                 PROVE  \E i \in 1 .. Len(available') : available'[i] = s
        OBVIOUS
    <2>1. \A p \in Requests : ~(req[p].lease = "held" /\ req[p].slot = s)
        BY <1>2, <1>5
    <2>2. PICK i \in 1 .. Len(available) : available[i] = s
        BY <2>1 DEF SlotLeft
    <2>3. i # 1
        BY <1>5, <2>2
    <2>4. /\ Len(available') = Len(available) - 1 /\ Len(available) \in Nat
          /\ \A j \in 1 .. Len(available') : available'[j] = available[j + 1]
        BY <1>1, <1>3, <1>4, HeadTailProperties
    <2>5. i - 1 \in 1 .. Len(available') /\ (i - 1) + 1 = i
        BY <2>3, <2>4
    <2> QED BY <2>2, <2>4, <2>5
<1> QED BY <1>5, <1>6, <1>7 DEF SlotLeft

LEMMA ReleaseSlotLeft == ASSUME IInv, SlotLeft, NEW r \in Requests, Release(r) PROVE SlotLeft'
<1>1. req[r] \in Request /\ req \in [Requests -> Request] /\ available \in Seq(Slots)
    BY DEF IInv, TypeOK
<1>2. req[r].lease = "held" /\ req[r].slot \in Slots
    BY OwnSlot DEF Release
<1>3. Released(req[r]).lease = "released" /\ Released(req[r]).answer # "noSlot"
    <2>1. Ended(req[r], "failed") \in Request /\ Ended(req[r], "failed").answer = "failed"
        BY <1>1, EndedFacts
    <2>2. req[r].answer # "noSlot"
        BY DEF SlotLeft
    <2>3. CASE req[r].run \in Underway
        BY <2>1, <2>3 DEF Released, Request
    <2>4. CASE req[r].run \notin Underway
        BY <1>1, <2>2, <2>4 DEF Released, Request
    <2> QED BY <2>3, <2>4
<1>4. /\ req'[r] = Released(req[r]) /\ \A p \in Requests : p # r => req'[p] = req[p]
      /\ available' = Append(available, req[r].slot)
    BY <1>1 DEF Release
<1>5. /\ Len(available') = Len(available) + 1 /\ Len(available) \in Nat
      /\ \A i \in 1 .. Len(available) : available'[i] = available[i]
      /\ available'[Len(available) + 1] = req[r].slot
    BY <1>1, <1>2, <1>4, AppendProperties
<1>6. Cardinality(Admitted') <= Cardinality(Slots)
    <2>1. Admitted' \in SUBSET Admitted
        BY <1>2, <1>3, <1>4 DEF Admitted
    <2>2. Cardinality(Admitted') \in Nat /\ Cardinality(Admitted') <= Cardinality(Admitted)
        BY <2>1, AdmittedFinite, FS_Subset, FS_CardinalityType
    <2> QED BY <2>2, AdmittedFinite DEF SlotLeft
<1>7. ASSUME NEW s \in Slots
      PROVE  \/ \E i \in 1 .. Len(available') : available'[i] = s
             \/ \E p \in Requests : req'[p].lease = "held" /\ req'[p].slot = s
    <2>1. CASE s = req[r].slot
        <3>1. Len(available) + 1 \in 1 .. Len(available')
            BY <1>5
        <3> QED BY <1>5, <2>1, <3>1
    <2>2. CASE \E i \in 1 .. Len(available) : available[i] = s
        <3>1. \A i \in 1 .. Len(available) : i \in 1 .. Len(available')
            BY <1>5
        <3> QED BY <1>5, <2>2, <3>1
    <2>3. CASE s # req[r].slot /\ \E p \in Requests : req[p].lease = "held" /\ req[p].slot = s
        BY <1>4, <2>3
    <2> QED BY <2>1, <2>2, <2>3 DEF SlotLeft
<1> QED BY <1>3, <1>4, <1>6, <1>7 DEF SlotLeft

\* A run that ends keeps its lease, and one that goes on has it.
LEMMA EndedKeeps ==
    ASSUME IInv, UNCHANGED available,
           \A r \in Requests : \/ req'[r] = Ended(req[r], "failed")
                               \/ req'[r] = Ended(req[r], "result")
                               \/ /\ req'[r].lease = req[r].lease /\ req'[r].slot = req[r].slot
                                  /\ req'[r].answer = req[r].answer
    PROVE  LeasesKept
<1>1. \A r \in Requests : req[r] \in Request
    BY DEF IInv, TypeOK
<1> QED BY <1>1, EndedFacts DEF LeasesKept

LEMMA RunsKeep ==
    ASSUME IInv, NEW r \in Requests,
           \/ Execute(r) \/ Restart(r) \/ Dispatch(r) \/ StartFails(r)
           \/ Abort(r) \/ Interrupt(r) \/ Deadline(r) \/ HostReturns(r)
    PROVE  LeasesKept
<1>1. req[r] \in Request /\ req \in [Requests -> Request]
    BY DEF IInv, TypeOK
<1>2. CASE req' = [req EXCEPT ![r] = Ended(@, "failed")] /\ UNCHANGED available
    BY <1>1, <1>2, EndedKeeps
<1>3. ASSUME UNCHANGED available,
             \E run, c, aborted, call :
                req' = [req EXCEPT ![r] = [req[r] EXCEPT !.run = run, !.child = c,
                                                         !.aborted = aborted, !.call = call]]
      PROVE  LeasesKept
    <2>1. /\ req'[r].lease = req[r].lease /\ req'[r].slot = req[r].slot
          /\ req'[r].answer = req[r].answer
          /\ \A p \in Requests : p # r => req'[p] = req[p]
        BY <1>1, <1>3 DEF Request
    <2> QED BY <1>3, <2>1 DEF LeasesKept
<1>4. ASSUME NEW c, req' = [req EXCEPT ![r].run = "starting", ![r].child = c], UNCHANGED available
      PROVE  LeasesKept
    <2>1. req' = [req EXCEPT ![r] = [req[r] EXCEPT !.run = "starting", !.child = c,
                                        !.aborted = req[r].aborted, !.call = req[r].call]]
        BY <1>1, <1>4 DEF Request
    <2>2. \E run, d, aborted, call :
            req' = [req EXCEPT ![r] = [req[r] EXCEPT !.run = run, !.child = d,
                                                     !.aborted = aborted, !.call = call]]
        BY <2>1
    <2> QED BY <1>3, <1>4, <2>2
<1>5. CASE Execute(r)
    <2>1. CASE Refused(r)
        BY <1>2, <1>5, <2>1 DEF Execute, Refused
    <2>2. CASE UseWarmChild(r, req[r].slot)
        BY <1>4, <1>5, <2>2 DEF Execute, UseWarmChild
    <2>3. CASE ReplaceChild(r, req[r].slot)
        <3>1. \/ \E c : req' = [req EXCEPT ![r].run = "starting", ![r].child = c]
              \/ req' = [req EXCEPT ![r].run = "restarting"]
            BY <2>3 DEF ReplaceChild, Fork
        <3>2. CASE req' = [req EXCEPT ![r].run = "restarting"]
            <4>1. req' = [req EXCEPT ![r] = [req[r] EXCEPT !.run = "restarting", !.child = req[r].child,
                                                !.aborted = req[r].aborted, !.call = req[r].call]]
                BY <1>1, <3>2 DEF Request
            <4> QED BY <1>3, <1>5, <4>1 DEF Execute
        <3> QED BY <1>4, <1>5, <3>1, <3>2 DEF Execute
    <2> QED BY <1>5, <2>1, <2>2, <2>3 DEF Execute
<1>6. CASE Restart(r)
    <2>1. \/ req' = [req EXCEPT ![r] = Ended(@, "failed")]
          \/ \E c : req' = [req EXCEPT ![r].run = "starting", ![r].child = c]
        BY <1>6 DEF Restart, Refused, Fork
    <2> QED BY <1>2, <1>4, <1>6, <2>1 DEF Restart
<1>7. CASE Dispatch(r)
    <2> DEFINE c == slot[req[r].slot].child
    <2>1. CASE req' = [req EXCEPT ![r].run = "running", ![r].child = c]
        <3> HIDE DEF c
        <3>1. req' = [req EXCEPT ![r] = [req[r] EXCEPT !.run = "running", !.child = c,
                                            !.aborted = req[r].aborted, !.call = req[r].call]]
            BY <1>1, <2>1 DEF Request
        <3> QED BY <1>3, <1>7, <3>1 DEF Dispatch
    <2> QED BY <1>2, <1>7, <2>1 DEF Dispatch
<1>8. CASE StartFails(r) \/ Interrupt(r) \/ Deadline(r)
    BY <1>2, <1>8 DEF StartFails, Interrupt, Deadline, EndRun
<1>9. CASE Abort(r)
    <2>1. CASE req' = [req EXCEPT ![r].aborted = TRUE]
        <3>1. req' = [req EXCEPT ![r] = [req[r] EXCEPT !.run = req[r].run, !.child = req[r].child,
                                            !.aborted = TRUE, !.call = req[r].call]]
            BY <1>1, <2>1 DEF Request
        <3>2. UNCHANGED available
            BY <1>9 DEF Abort, EndRun
        <3> QED BY <1>3, <3>1, <3>2
    <2> QED BY <1>2, <1>9, <2>1 DEF Abort, EndRun
<1>10. CASE HostReturns(r)
    <2> DEFINE k == IF req[r].run = "ended" THEN None ELSE req[r].child
    <2>1. req' = [req EXCEPT ![r] = [req[r] EXCEPT !.call = "done", !.child = k]]
        BY <1>10 DEF HostReturns
    <2> HIDE DEF k
    <2>2. req' = [req EXCEPT ![r] = [req[r] EXCEPT !.run = req[r].run, !.child = k,
                                        !.aborted = req[r].aborted, !.call = "done"]]
        BY <1>1, <2>1 DEF Request
    <2>3. \E run, d, aborted, call :
            req' = [req EXCEPT ![r] = [req[r] EXCEPT !.run = run, !.child = d,
                                                     !.aborted = aborted, !.call = call]]
        BY <2>2
    <2>4. UNCHANGED available
        BY <1>10 DEF HostReturns
    <2> QED BY <1>3, <2>3, <2>4
<1> QED BY <1>5, <1>6, <1>7, <1>8, <1>9, <1>10

LEMMA ChildrenKeep ==
    ASSUME IInv, NEW c \in Children,
           \/ ChildReady(c) \/ ChildReceives(c) \/ ChildCalls(c) \/ ChildAnswers(c) \/ Die(c)
           \/ Message(c) \/ Disconnect(c) \/ ExitSeen(c) \/ CloseSeen(c)
           \/ Watchdog(c) \/ ErrorSeen(c) \/ Terminated(c)
           \/ \E r \in Requests : SendFails(c, r)
    PROVE  LeasesKept
<1>1. req \in [Requests -> Request] /\ \A r \in Requests : req[r] \in Request
    BY DEF IInv, TypeOK
<1>2. CASE UNCHANGED <<req, available>>
    BY <1>2 DEF LeasesKept
<1>3. ASSUME NEW s, UNCHANGED available,
             req' = [r \in Requests |-> IF r = slot[s].active THEN Ended(req[r], "failed") ELSE req[r]]
      PROVE  LeasesKept
    BY <1>3, EndedKeeps
<1>4. ASSUME NEW r, UNCHANGED available,
             \/ \E call : req' = [req EXCEPT ![r].call = call]
             \/ \E n : req' = [req EXCEPT ![r].parts = n]
             \/ \E n : req' = [req EXCEPT ![r].got = n]
      PROVE  LeasesKept
    <2>1. \A p \in Requests : /\ req'[p].lease = req[p].lease /\ req'[p].slot = req[p].slot
                              /\ req'[p].answer = req[p].answer
        BY <1>1, <1>4 DEF Request
    <2> QED BY <1>4, <2>1 DEF LeasesKept
<1>5. CASE ChildReady(c) \/ ChildReceives(c) \/ Die(c) \/ Disconnect(c) \/ ExitSeen(c) \/ Terminated(c)
    BY <1>2, <1>5 DEF ChildReady, ChildReceives, Die, Disconnect, ExitSeen, Terminated
<1>6. CASE ChildCalls(c)
    BY <1>4, <1>6 DEF ChildCalls
<1>7. CASE ChildAnswers(c)
    BY <1>4, <1>7 DEF ChildAnswers
<1>8. CASE CloseSeen(c)
    BY <1>3, <1>8 DEF CloseSeen
<1>9. CASE Watchdog(c) \/ ErrorSeen(c)
    BY <1>2, <1>3, <1>9 DEF Watchdog, ErrorSeen, FailStartup, RejectAndRecycle
<1>10. CASE \E r \in Requests : SendFails(c, r)
    BY <1>2, <1>3, <1>10 DEF SendFails
<1>11. CASE Message(c)
    <2> DEFINE m == Head(child[c].outbox)
    <2>1. UNCHANGED available
        BY <1>11 DEF Message
    <2>2. CASE UNCHANGED req
        BY <1>2, <2>1, <2>2
    <2>3. CASE HostCallArrives(c, m.job)
        BY <1>4, <2>1, <2>3 DEF HostCallArrives
    <2>4. CASE ChunkArrives(c, m.job)
        BY <1>4, <2>1, <2>4 DEF ChunkArrives
    <2>5. CASE ResultArrives(c, m)
        <3> HIDE DEF m
        <3>1. \E a \in {"failed", "result"} : req' = [req EXCEPT ![m.job] = Ended(@, a)]
            BY <2>5 DEF ResultArrives
        <3>2. PICK a \in {"failed", "result"} : req' = [req EXCEPT ![m.job] = Ended(@, a)]
            BY <3>1
        <3>3. \A r \in Requests : req'[r] = Ended(req[r], a) \/ req'[r] = req[r]
            BY <1>1, <3>2
        <3> QED BY <2>1, <3>3, EndedKeeps
    <2> QED BY <1>11, <2>2, <2>3, <2>4, <2>5 DEF Message, ReadyArrives
<1> QED BY <1>5, <1>6, <1>7, <1>8, <1>9, <1>10, <1>11

LEMMA NextSlotLeft == ASSUME IInv, SlotLeft, [Next]_vars PROVE SlotLeft'
<1>1. CASE UNCHANGED <<req, available>>
    BY <1>1, KeptSlotLeft DEF LeasesKept
<1>2. CASE Close
    <2>1. /\ UNCHANGED available
          /\ \A r \in Requests : req'[r] = Ended(req[r], "failed") \/ req'[r] = req[r]
        BY <1>2 DEF Close
    <2> QED BY <2>1, EndedKeeps, KeptSlotLeft
<1>3. CASE \E r \in Requests : Grant(r) \/ Lease(r) \/ Release(r)
    BY <1>3, GrantSlotLeft, LeaseSlotLeft, ReleaseSlotLeft
<1>4. CASE \E r \in Requests : \/ Execute(r) \/ Restart(r) \/ Dispatch(r) \/ StartFails(r)
                               \/ Abort(r) \/ Interrupt(r) \/ Deadline(r) \/ HostReturns(r)
    BY <1>4, RunsKeep, KeptSlotLeft
<1>5. CASE \E c \in Children :
             \/ ChildReady(c) \/ ChildReceives(c) \/ ChildCalls(c) \/ ChildAnswers(c) \/ Die(c)
             \/ Message(c) \/ Disconnect(c) \/ ExitSeen(c) \/ CloseSeen(c)
             \/ Watchdog(c) \/ ErrorSeen(c) \/ Terminated(c)
             \/ \E r \in Requests : SendFails(c, r)
    BY <1>5, ChildrenKeep, KeptSlotLeft
<1> QED BY <1>1, <1>2, <1>3, <1>4, <1>5 DEF Next, BackoffPasses, CloseReturns, vars

\* An admitted request always finds a slot, and never the slot of another:
\* "no child slot" is not reachable, for any number of slots.
THEOREM AlwaysASlotHolds == Spec => []AlwaysASlot
<1>1. IInv /\ SlotLeft /\ [Next]_vars => SlotLeft'
    BY NextSlotLeft
<1>2. IInv /\ SlotLeft => AlwaysASlot
    BY DEF IInv, Exclusive, SlotLeft, AlwaysASlot
<1> QED BY <1>1, <1>2, InitSlotLeft, IInvHolds, PTL DEF Spec
-----------------------------------------------------------------------------
(* Who ends a run (RejectedForCause). The error of a send is reported to a   *)
(* run of that very child, or to one that is over (Reports): however late it *)
(* is, it names no successor.                                                *)

Reports ==
    \A c \in Children : \A r \in child[c].errors :
        req[r].run = "ended" \/ (req[r].run = "running" /\ req[r].child = c)

\* A run that was sent to its child goes on there, or ends.
Stays(q, p) ==
    /\ q.run = "ended" => p.run = "ended"
    /\ q.run = "running" => p.run = "ended" \/ (p.run = "running" /\ p.child = q.child)

\* RejectedForCause of one request and one step.
Cause(r) ==
    \/ Abort(r) \/ Interrupt(r) \/ Deadline(r) \/ Release(r) \/ Close
    \/ LET c == req[r].child IN
       \/ child[c].state = "dead" \/ r \in child[c].errors \/ ErrorSeen(c)
       \/ /\ child[c].outbox # <<>> /\ Message(c)
          /\ Head(child[c].outbox) = Msg("result", r, "garbled")

Rejected(r) == req[r].run = "running" /\ req'[r].run = "ended" /\ req'[r].answer = "failed"

Lawful == \A r \in Requests : Stays(req[r], req'[r]) /\ (Rejected(r) => Cause(r))

\* No send fails in this step.
Silent == \A c \in Children : child'[c].errors \subseteq child[c].errors

LEMMA SilentReports ==
    ASSUME IInv, Reports, Lawful, Silent
    PROVE  Reports'
<1> SUFFICES ASSUME NEW c \in Children, NEW r \in child'[c].errors
             PROVE  req'[r].run = "ended" \/ (req'[r].run = "running" /\ req'[r].child = c)
    BY DEF Reports
<1>1. child[c] \in Child
    BY DEF IInv, TypeOK
<1>2. r \in child[c].errors
    BY DEF Silent
<1>3. r \in Requests
    BY <1>1, <1>2 DEF Child
<1>4. Stays(req[r], req'[r])
    BY <1>3 DEF Lawful
<1> QED BY <1>2, <1>4 DEF Reports, Stays

\* What a step does to one request, or to none.
LEMMA OneLawful ==
    ASSUME IInv, NEW r \in Requests, NEW p, req' = [req EXCEPT ![r] = p],
           Stays(req[r], p), req[r].run = "running" /\ p.run = "ended" /\ p.answer = "failed" => Cause(r)
    PROVE  Lawful
<1>1. req'[r] = p /\ \A q \in Requests : q # r => req'[q] = req[q]
    BY DEF IInv, TypeOK
<1>2. ASSUME NEW q \in Requests, q # r PROVE Stays(req[q], req'[q]) /\ ~Rejected(q)
    <2>1. req'[q] = req[q]
        BY <1>1, <1>2
    <2> QED BY <2>1 DEF Stays, Rejected
<1> QED BY <1>1, <1>2 DEF Lawful, Rejected

LEMMA NoneLawful == UNCHANGED req => Lawful
BY DEF Lawful, Stays, Rejected

LEMMA EarlyLawful ==
    ASSUME IInv, NEW r \in Requests, NEW p, req' = [req EXCEPT ![r] = p],
           req[r].run \notin {"running", "ended"}
    PROVE  Lawful
<1>1. Stays(req[r], p)
    BY DEF Stays
<1> QED BY <1>1, OneLawful

LEMMA SameRunLawful ==
    ASSUME IInv, NEW r \in Requests, NEW p, req' = [req EXCEPT ![r] = p],
           p.run = req[r].run, p.run = "running" => p.child = req[r].child
    PROVE  Lawful
<1>1. Stays(req[r], p)
    BY DEF Stays
<1> QED BY <1>1, OneLawful

LEMMA EndsLawful ==
    ASSUME IInv, NEW r \in Requests, NEW a \in {"failed", "result"}, req' = [req EXCEPT ![r] = Ended(@, a)],
           a = "failed" => Cause(r)
    PROVE  Lawful
<1>1. req[r] \in Request
    BY DEF IInv, TypeOK
<1>2. PICK p : p = Ended(req[r], a)
    OBVIOUS
<1>3. p.run = "ended" /\ p.answer = a
    BY <1>1, <1>2, EndedFacts
<1>4. Stays(req[r], p) /\ req' = [req EXCEPT ![r] = p]
    BY <1>2, <1>3 DEF Stays
<1> QED BY <1>3, <1>4, OneLawful

\* The active run of a slot is rejected.
LEMMA ActiveLawful ==
    ASSUME IInv, NEW s \in Slots, \A r \in Requests : slot[s].active = r => Cause(r),
           req' = [r \in Requests |-> IF r = slot[s].active THEN Ended(req[r], "failed") ELSE req[r]]
    PROVE  Lawful
<1> SUFFICES ASSUME NEW r \in Requests PROVE Stays(req[r], req'[r]) /\ (Rejected(r) => Cause(r))
    BY DEF Lawful
<1>1. CASE r = slot[s].active
    <2>1. req[r] \in Request
        BY DEF IInv, TypeOK
    <2>2. req'[r].run = "ended"
        BY <1>1, <2>1, EndedFacts
    <2> QED BY <1>1, <2>2 DEF Stays
<1>2. CASE r # slot[s].active
    <2>1. req'[r] = req[r]
        BY <1>2
    <2> QED BY <2>1 DEF Stays, Rejected
<1> QED BY <1>1, <1>2

LEMMA RequestLawful ==
    ASSUME IInv, NEW r \in Requests,
           \/ Grant(r) \/ Lease(r) \/ Execute(r) \/ Release(r)
           \/ Restart(r) \/ Dispatch(r) \/ StartFails(r)
           \/ Abort(r) \/ Interrupt(r) \/ Deadline(r)
           \/ HostReturns(r)
    PROVE  Lawful
<1>1. req[r] \in Request /\ req \in [Requests -> Request]
    BY DEF IInv, TypeOK
<1>2. CASE Grant(r) \/ Lease(r)
    <2>1. PICK l, s, a : req' = [req EXCEPT ![r] = [req[r] EXCEPT !.lease = l, !.slot = s, !.answer = a]]
        <3>1. CASE Grant(r)
            <4>1. req' = [req EXCEPT ![r] = [req[r] EXCEPT !.lease = "granted", !.slot = req[r].slot,
                                                           !.answer = req[r].answer]]
                BY <1>1, <3>1 DEF Grant, Request
            <4> QED BY <4>1
        <3>2. CASE req' = [req EXCEPT ![r].lease = "held", ![r].slot = Head(available)]
            <4>1. req' = [req EXCEPT ![r] = [req[r] EXCEPT !.lease = "held", !.slot = Head(available),
                                                           !.answer = req[r].answer]]
                BY <1>1, <3>2 DEF Request
            <4> QED BY <4>1
        <3>3. CASE req' = [req EXCEPT ![r].lease = "released", ![r].answer = "noSlot"]
            <4>1. req' = [req EXCEPT ![r] = [req[r] EXCEPT !.lease = "released", !.slot = req[r].slot,
                                                           !.answer = "noSlot"]]
                BY <1>1, <3>3 DEF Request
            <4> QED BY <4>1
        <3> QED BY <1>2, <3>1, <3>2, <3>3 DEF Lease
    <2>2. PICK p : p = [req[r] EXCEPT !.lease = l, !.slot = s, !.answer = a]
        OBVIOUS
    <2>3. p.run = req[r].run /\ p.child = req[r].child
        BY <1>1, <2>2 DEF Request
    <2> QED BY <2>1, <2>2, <2>3, SameRunLawful
<1>3. CASE req[r].run \notin {"running", "ended"} /\ \E p : req' = [req EXCEPT ![r] = p]
    BY <1>3, EarlyLawful
<1>4. CASE Execute(r)
    <2>1. req[r].run \notin {"running", "ended"}
        BY <1>4 DEF Execute
    <2>2. \E p : req' = [req EXCEPT ![r] = p]
        BY <1>4 DEF Execute, Refused, UseWarmChild, ReplaceChild, Fork
    <2> QED BY <1>3, <2>1, <2>2
<1>5. CASE Restart(r) \/ Dispatch(r) \/ StartFails(r)
    <2>1. req[r].run \notin {"running", "ended"}
        BY <1>5 DEF Restart, Dispatch, StartFails
    <2>2. \E p : req' = [req EXCEPT ![r] = p]
        BY <1>5 DEF Restart, Dispatch, StartFails, Refused, Fork
    <2> QED BY <1>3, <2>1, <2>2
<1>6. CASE Interrupt(r) \/ Deadline(r) \/ (Abort(r) /\ EndRun(r))
    <2>1. req' = [req EXCEPT ![r] = Ended(@, "failed")]
        BY <1>6 DEF Interrupt, Deadline, EndRun
    <2>2. Cause(r)
        BY <1>6 DEF Cause
    <2> QED BY <2>1, <2>2, EndsLawful
<1>7. CASE Abort(r) /\ ~EndRun(r)
    <2>1. req[r].run \notin {"running", "ended"}
        BY <1>7 DEF Abort
    <2>2. \E p : req' = [req EXCEPT ![r] = p]
        BY <1>7 DEF Abort
    <2> QED BY <1>3, <2>1, <2>2
<1>8. CASE Release(r)
    <2>1. PICK p : p = Released(req[r])
        OBVIOUS
    <2>2. req' = [req EXCEPT ![r] = p]
        BY <1>8, <2>1 DEF Release
    <2>3. CASE req[r].run \in Underway
        <3>1. Ended(req[r], "failed") \in Request /\ Ended(req[r], "failed").run = "ended"
            BY <1>1, EndedFacts
        <3>2. p = [Ended(req[r], "failed") EXCEPT !.lease = "released"]
            BY <2>1, <2>3 DEF Released
        <3>3. p.run = "ended"
            BY <3>1, <3>2 DEF Request
        <3>4. Stays(req[r], p) /\ Cause(r)
            BY <1>8, <3>3 DEF Stays, Cause
        <3> QED BY <2>2, <3>4, OneLawful
    <2>4. CASE req[r].run \notin Underway
        <3>1. p = [req[r] EXCEPT !.lease = "released"]
            BY <2>1, <2>4 DEF Released
        <3>2. p.run = req[r].run /\ p.child = req[r].child
            BY <1>1, <3>1 DEF Request
        <3> QED BY <2>2, <3>2, SameRunLawful
    <2> QED BY <2>3, <2>4
<1>9. CASE HostReturns(r)
    <2>1. PICK p : p = [req[r] EXCEPT !.call = "done", !.child = IF req[r].run = "ended" THEN None
                                                                ELSE req[r].child]
        OBVIOUS
    <2>2. p.run = req[r].run /\ (p.run = "running" => p.child = req[r].child)
        BY <1>1, <2>1 DEF Request
    <2>3. req' = [req EXCEPT ![r] = p]
        BY <1>9, <2>1 DEF HostReturns
    <2> QED BY <2>2, <2>3, SameRunLawful
<1> QED BY <1>2, <1>4, <1>5, <1>6, <1>7, <1>8, <1>9
\* The active run of a slot is the run of the slot's child.
LEMMA ActiveCause ==
    ASSUME IInv, NEW c \in Children, child[c].slot \in Slots, slot[child[c].slot].child = c,
           child[c].state = "dead" \/ ErrorSeen(c)
    PROVE  \A r \in Requests : slot[child[c].slot].active = r => Cause(r)
<1> SUFFICES ASSUME NEW r \in Requests, slot[child[c].slot].active = r PROVE Cause(r)
    OBVIOUS
<1>1. req[r].child = c
    BY NoneFacts DEF IInv, ActiveOwned
<1> QED BY <1>1 DEF Cause

LEMMA MessageLawful == ASSUME IInv, NEW c \in Children, Message(c) PROVE Lawful
<1>1. PICK m : m = Head(child[c].outbox)
    OBVIOUS
<1>2. child[c] # Unborn /\ child[c].outbox # <<>> /\ m \in Envelope
    <2>1. child[c].outbox # <<>> /\ child[c].outbox \in Seq(Envelope)
        BY ChildFacts DEF Message
    <2>2. child[c] # Unborn
        BY <2>1, ChildFacts
    <2>3. m \in Envelope
        BY <1>1, <2>1
    <2> QED BY <2>1, <2>2, <2>3
<1>3. CASE UNCHANGED req
    BY <1>3, NoneLawful
<1>4. CASE Heard(c, m) /\ (HostCallArrives(c, m.job) \/ ChunkArrives(c, m.job))
    <2>1. PICK r \in Requests : r = m.job
        BY <1>2, <1>4, HeardFacts
    <2>2. req[r] \in Request
        BY <2>1 DEF IInv, TypeOK
    <2>3. PICK p : /\ req' = [req EXCEPT ![r] = p]
                   /\ \/ p = [req[r] EXCEPT !.call = "open"]
                      \/ p = [req[r] EXCEPT !.got = req[r].got + 1]
        BY <1>4, <2>1 DEF HostCallArrives, ChunkArrives
    <2>4. p.run = req[r].run /\ p.child = req[r].child
        BY <2>2, <2>3 DEF Request
    <2> QED BY <2>3, <2>4, SameRunLawful
<1>5. CASE m.type = "result" /\ Heard(c, m) /\ ResultArrives(c, m)
    <2>1. PICK r \in Requests : r = m.job
        BY <1>2, <1>5, HeardFacts
    <2>2. child[c].slot \in Slots /\ slot[child[c].slot].child = c /\ slot[child[c].slot].active = r
        BY <1>2, <1>5, <2>1, HeardFacts
    <2>3. req[r].child = c
        BY <2>1, <2>2, NoneFacts DEF IInv, ActiveOwned
    <2>4. PICK a \in {"failed", "result"} : a = IF m.mark = "garbled" THEN "failed" ELSE "result"
        OBVIOUS
    <2>5. req' = [req EXCEPT ![r] = Ended(@, a)]
        BY <1>5, <2>1, <2>4 DEF ResultArrives
    <2>6. ASSUME a = "failed" PROVE Cause(r)
        <3>1. m.mark = "garbled"
            BY <2>4, <2>6
        <3>2. m = Msg("result", r, "garbled")
            BY <1>2, <1>5, <2>1, <3>1 DEF Msg, Envelope
        <3> QED BY <1>1, <1>2, <2>3, <3>2 DEF Cause
    <2> QED BY <2>5, <2>6, EndsLawful
<1> QED BY <1>1, <1>3, <1>4, <1>5 DEF Message, ReadyArrives

LEMMA ChildLawful ==
    ASSUME IInv, Reports, NEW c \in Children,
           \/ ChildReady(c) \/ ChildReceives(c) \/ ChildCalls(c) \/ ChildAnswers(c) \/ Die(c)
           \/ Message(c) \/ Disconnect(c) \/ ExitSeen(c) \/ CloseSeen(c)
           \/ Watchdog(c) \/ ErrorSeen(c) \/ Terminated(c)
           \/ \E r \in Requests : SendFails(c, r)
    PROVE  Lawful
<1> DEFINE s == child[c].slot
<1>1. CASE ChildReady(c) \/ ChildReceives(c) \/ Die(c) \/ Disconnect(c) \/ ExitSeen(c) \/ Terminated(c)
           \/ Watchdog(c)
    <2>1. UNCHANGED req
        BY <1>1 DEF ChildReady, ChildReceives, Die, Disconnect, ExitSeen, Terminated, Watchdog, FailStartup
    <2> QED BY <2>1, NoneLawful
<1>2. CASE ChildCalls(c) \/ ChildAnswers(c)
    <2>1. child[c] \in Child /\ child[c].job # None
        BY <1>2, ChildFacts DEF ChildCalls, ChildAnswers
    <2>2. PICK r \in Requests : r = child[c].job
        BY <2>1 DEF Child
    <2>3. req[r] \in Request
        BY DEF IInv, TypeOK
    <2>4. PICK p : /\ req' = [req EXCEPT ![r] = p]
                   /\ \/ p = [req[r] EXCEPT !.call = "sent"]
                      \/ \E n : p = [req[r] EXCEPT !.parts = n]
        BY <1>2, <2>2 DEF ChildCalls, ChildAnswers
    <2>5. p.run = req[r].run /\ p.child = req[r].child
        BY <2>3, <2>4 DEF Request
    <2> QED BY <2>4, <2>5, SameRunLawful
<1>3. CASE CloseSeen(c)
    <2>1. child[c] # Unborn /\ s \in Slots /\ c <= spawned /\ child[c].state = "dead" /\ ~child[c].retired
        BY <1>3, ChildFacts DEF CloseSeen
    <2>2. slot[s].child = c
        BY <2>1, BoundsNatural DEF IInv, NoOrphan, TypeOK, Children
    <2>3. req' = [r \in Requests |-> IF r = slot[s].active THEN Ended(req[r], "failed") ELSE req[r]]
        BY <1>3 DEF CloseSeen
    <2>4. \A r \in Requests : slot[s].active = r => Cause(r)
        BY <2>1, <2>2, ActiveCause
    <2> HIDE DEF s
    <2> QED BY <2>1, <2>3, <2>4, ActiveLawful
<1>4. CASE ErrorSeen(c)
    <2>1. child[c] # Unborn /\ s \in Slots /\ slot[s].child = c
        BY <1>4, ChildFacts DEF ErrorSeen
    <2>2. CASE UNCHANGED req
        BY <2>2, NoneLawful
    <2>3. CASE RejectAndRecycle(s)
        <3>1. req' = [r \in Requests |-> IF r = slot[s].active THEN Ended(req[r], "failed") ELSE req[r]]
            BY <2>3 DEF RejectAndRecycle
        <3>2. \A r \in Requests : slot[s].active = r => Cause(r)
            BY <1>4, <2>1, ActiveCause
        <3> HIDE DEF s
        <3> QED BY <2>1, <3>1, <3>2, ActiveLawful
    <2> QED BY <1>4, <2>2, <2>3 DEF ErrorSeen, FailStartup
<1>5. ASSUME NEW q \in Requests, SendFails(c, q) PROVE Lawful
    <2>1. child[c] # Unborn /\ s \in Slots /\ q \in child[c].errors
        BY <1>5, ChildFacts DEF SendFails
    <2>2. CASE UNCHANGED req
        BY <2>2, NoneLawful
    <2>3. CASE StillActive(s, q)
        <3>1. slot[s].active = q
            BY <2>3 DEF StillActive
        <3>2. req[q].run = "running"
            BY <2>1, <3>1, NoneFacts DEF IInv, ActiveOwned
        <3>3. req[q].child = c
            BY <2>1, <3>2 DEF Reports
        <3>4. \A r \in Requests : slot[s].active = r => Cause(r)
            BY <2>1, <3>1, <3>3 DEF Cause
        <3>5. req' = [r \in Requests |-> IF r = slot[s].active THEN Ended(req[r], "failed") ELSE req[r]]
            BY <1>5, <2>3 DEF SendFails
        <3> HIDE DEF s
        <3> QED BY <2>1, <3>4, <3>5, ActiveLawful
    <2> QED BY <1>5, <2>2, <2>3 DEF SendFails
<1> QED BY <1>1, <1>2, <1>3, <1>4, <1>5, MessageLawful

LEMMA NextLawful == ASSUME IInv, Reports, [Next]_vars PROVE Lawful
<1>1. CASE Close
    <2> SUFFICES ASSUME NEW r \in Requests PROVE Stays(req[r], req'[r]) /\ (Rejected(r) => Cause(r))
        BY DEF Lawful
    <2>1. req[r] \in Request
        BY DEF IInv, TypeOK
    <2>2. req'[r] = req[r] \/ req'[r] = Ended(req[r], "failed")
        BY <1>1 DEF Close
    <2>3. Stays(req[r], req'[r])
        BY <2>1, <2>2, EndedFacts DEF Stays
    <2> QED BY <1>1, <2>3 DEF Cause
<1>2. CASE UNCHANGED req
    BY <1>2, NoneLawful
<1>3. CASE CloseReturns \/ UNCHANGED vars \/ \E s \in Slots : BackoffPasses(s)
    BY <1>2, <1>3 DEF CloseReturns, BackoffPasses, vars
<1> QED BY <1>1, <1>3, RequestLawful, ChildLawful DEF Next
\* What reports no error.
LEMMA OneSilent ==
    ASSUME IInv, NEW c \in Children, NEW d, child' = [child EXCEPT ![c] = d],
           d.errors \subseteq child[c].errors
    PROVE  Silent
<1>1. child'[c] = d /\ \A e \in Children : e # c => child'[e] = child[e]
    BY DEF IInv, TypeOK
<1> QED BY <1>1 DEF Silent

LEMMA RetiredErrors ==
    ASSUME NEW c \in Child
    PROVE  Retired(c).errors = c.errors /\ [Retired(c) EXCEPT !.ready = c.ready].errors = c.errors
BY DEF Retired, Child

LEMMA RecycledSilent ==
    ASSUME IInv, \A c \in Children : child'[c] = child[c] \/ child'[c] = Retired(child[c])
    PROVE  Silent
<1>1. \A c \in Children : Retired(child[c]).errors = child[c].errors
    BY RetiredErrors DEF IInv, TypeOK
<1> QED BY <1>1 DEF Silent

LEMMA NoneSilent == UNCHANGED child => Silent
BY DEF Silent

LEMMA ForkSilent ==
    ASSUME IInv, NEW r \in Requests, NEW s, NEW children, NEW sl, Fork(r, s, children, sl),
           children \in [Children -> Child],
           \A c \in Children : children[c].errors = child[c].errors
    PROVE  Silent
<1>1. spawned + 1 \in Children
    BY BoundsNatural DEF Fork, IInv, TypeOK, Children
<1>2. PICK d : d = [Unborn EXCEPT !.slot = s, !.connected = TRUE, !.state = "loading"]
    OBVIOUS
<1>3. d.errors = {}
    BY <1>2 DEF Unborn
<1>4. child' = [children EXCEPT ![spawned + 1] = d]
    BY <1>2 DEF Fork
<1> QED BY <1>1, <1>3, <1>4 DEF Silent

LEMMA ReplaceSilent ==
    ASSUME IInv, NEW r \in Requests, NEW s \in Slots, ReplaceChild(r, s)
    PROVE  Silent
<1> DEFINE c == slot[s].child
           children == IF c = None THEN child
                       ELSE [child EXCEPT ![c] = [Retired(@) EXCEPT !.ready = child[c].ready]]
<1>1. child \in [Children -> Child]
    BY DEF IInv, TypeOK
<1>2. \A e \in Children : children[e] = IF e = c THEN [Retired(child[e]) EXCEPT !.ready = child[e].ready]
                                        ELSE child[e]
    BY <1>1, NoneFacts
<1>3. children = [e \in Children |-> children[e]]
    BY <1>1
<1>4. \/ \E sl : Fork(r, s, children, sl)
      \/ child' = children
    BY DEF ReplaceChild
<1> HIDE DEF children, c
<1>5. \A e \in Children : /\ [Retired(child[e]) EXCEPT !.ready = child[e].ready] \in Child
                          /\ [Retired(child[e]) EXCEPT !.ready = child[e].ready].errors = child[e].errors
    BY <1>1, QuietlyRetiredFacts, RetiredErrors
<1>6. \A e \in Children : children[e] \in Child /\ children[e].errors = child[e].errors
    BY <1>1, <1>2, <1>5
<1>7. children \in [Children -> Child]
    BY <1>3, <1>6
<1>8. CASE child' = children
    BY <1>6, <1>8 DEF Silent
<1> QED BY <1>4, <1>6, <1>7, <1>8, ForkSilent

LEMMA RequestSilent ==
    ASSUME IInv, NEW r \in Requests,
           \/ Grant(r) \/ Lease(r) \/ Execute(r) \/ Release(r)
           \/ Restart(r) \/ StartFails(r)
           \/ Abort(r) \/ Interrupt(r) \/ Deadline(r)
    PROVE  Silent
<1>1. CASE UNCHANGED child
    BY <1>1, NoneSilent
<1>2. CASE child' = Recycled(req[r].slot)
    <2>1. \A c \in Children : child'[c] = child[c] \/ child'[c] = Retired(child[c])
        BY <1>2 DEF Recycled
    <2> QED BY <2>1, RecycledSilent
<1>3. CASE Execute(r)
    <2>1. req[r].slot \in Slots
        BY <1>3, OwnSlot DEF Execute
    <2>2. UNCHANGED child \/ ReplaceChild(r, req[r].slot)
        BY <1>3 DEF Execute, Refused, UseWarmChild
    <2> QED BY <1>1, <2>1, <2>2, ReplaceSilent
<1>4. CASE Restart(r)
    <2>1. UNCHANGED child \/ Fork(r, req[r].slot, child, slot[req[r].slot])
        BY <1>4 DEF Restart, Refused
    <2>2. child \in [Children -> Child]
        BY DEF IInv, TypeOK
    <2> QED BY <1>1, <2>1, <2>2, ForkSilent
<1>5. CASE Grant(r) \/ Lease(r) \/ StartFails(r)
    BY <1>1, <1>5 DEF Grant, Lease, StartFails
<1>6. CASE Release(r)
    BY <1>1, <1>2, <1>6 DEF Release
<1>7. CASE Abort(r) \/ Interrupt(r) \/ Deadline(r)
    BY <1>1, <1>2, <1>7 DEF Abort, Interrupt, Deadline, EndRun
<1> QED BY <1>3, <1>4, <1>5, <1>6, <1>7

LEMMA MessageSilent == ASSUME IInv, NEW c \in Children, Message(c) PROVE Silent
<1>1. child[c] \in Child /\ child \in [Children -> Child]
    BY DEF IInv, TypeOK
<1>2. PICK m : m = Head(child[c].outbox)
    OBVIOUS
<1>3. SUFFICES /\ child'[c].errors = child[c].errors
               /\ \A e \in Children : e # c => child'[e] = child[e]
    BY DEF Silent
<1>4. CASE ReadyArrives(c)
    BY <1>1, <1>4 DEF ReadyArrives, Child
<1>5. CASE \/ child' = [child EXCEPT ![c].outbox = IF child[c].retired THEN <<>> ELSE Tail(@)]
           \/ child' = [child EXCEPT ![c].outbox = Tail(@)]
    BY <1>1, <1>5 DEF Child
<1>6. CASE ResultArrives(c, m)
    <2>1. PICK b : b = [child[c] EXCEPT !.outbox = Tail(child[c].outbox)]
        OBVIOUS
    <2>2. PICK d : d = IF m.mark = "good" THEN b ELSE Retired(b)
        OBVIOUS
    <2>3. child' = [child EXCEPT ![c] = d]
        BY <1>1, <1>6, <2>1, <2>2 DEF ResultArrives
    <2>4. b.errors = child[c].errors /\ Retired(b).errors = b.errors
        BY <1>1, <2>1 DEF Child, Retired
    <2> QED BY <1>1, <2>2, <2>3, <2>4
<1>7. \/ ReadyArrives(c) \/ ResultArrives(c, m)
      \/ child' = [child EXCEPT ![c].outbox = IF child[c].retired THEN <<>> ELSE Tail(@)]
      \/ HostCallArrives(c, m.job) \/ ChunkArrives(c, m.job)
    BY <1>2 DEF Message
<1>8. CASE HostCallArrives(c, m.job) \/ ChunkArrives(c, m.job)
    BY <1>5, <1>8 DEF HostCallArrives, ChunkArrives
<1> QED BY <1>4, <1>6, <1>5, <1>7, <1>8

LEMMA ChildSilent ==
    ASSUME IInv, NEW c \in Children,
           \/ ChildReady(c) \/ ChildReceives(c) \/ ChildCalls(c) \/ ChildAnswers(c) \/ Die(c)
           \/ Disconnect(c) \/ ExitSeen(c) \/ CloseSeen(c)
           \/ Watchdog(c) \/ ErrorSeen(c) \/ Terminated(c)
    PROVE  Silent
<1>1. child[c] \in Child /\ child \in [Children -> Child]
    BY DEF IInv, TypeOK
<1>2. CASE ChildReady(c)
    <2>1. PICK o : child' = [child EXCEPT ![c].state = "up", ![c].outbox = o]
        BY <1>2 DEF ChildReady
    <2>2. PICK d : d = [child[c] EXCEPT !.state = "up", !.outbox = o]
        OBVIOUS
    <2>3. child' = [child EXCEPT ![c] = d] /\ d.errors = child[c].errors
        BY <1>1, <2>1, <2>2 DEF Child
    <2> QED BY <2>3, OneSilent
<1>3. CASE ChildCalls(c)
    <2>1. PICK o : child' = [child EXCEPT ![c].outbox = o]
        BY <1>3 DEF ChildCalls
    <2>2. PICK d : d = [child[c] EXCEPT !.outbox = o]
        OBVIOUS
    <2>3. child' = [child EXCEPT ![c] = d] /\ d.errors = child[c].errors
        BY <1>1, <2>1, <2>2 DEF Child
    <2> QED BY <2>3, OneSilent
<1>4. CASE ChildReceives(c)
    <2>1. PICK i, j, o, v : child' = [child EXCEPT ![c].inbox = i, ![c].job = j, ![c].outbox = o,
                                                   ![c].overlapped = v]
        BY <1>4 DEF ChildReceives
    <2>2. PICK d : d = [child[c] EXCEPT !.inbox = i, !.job = j, !.outbox = o, !.overlapped = v]
        OBVIOUS
    <2>3. child' = [child EXCEPT ![c] = d] /\ d.errors = child[c].errors
        BY <1>1, <2>1, <2>2 DEF Child
    <2> QED BY <2>3, OneSilent
<1>5. CASE ChildAnswers(c)
    <2>1. PICK o, v : child' = [child EXCEPT ![c].outbox = o, ![c].soiled = v, ![c].job = None]
        BY <1>5 DEF ChildAnswers
    <2>2. PICK d : d = [child[c] EXCEPT !.outbox = o, !.soiled = v, !.job = None]
        OBVIOUS
    <2>3. child' = [child EXCEPT ![c] = d] /\ d.errors = child[c].errors
        BY <1>1, <2>1, <2>2 DEF Child
    <2> QED BY <2>3, OneSilent
<1>6. CASE Die(c)
    <2>1. PICK o : child' = [child EXCEPT ![c].state = "dead", ![c].job = None, ![c].inbox = <<>>,
                                          ![c].outbox = o]
        BY <1>6 DEF Die
    <2>2. PICK d : d = [child[c] EXCEPT !.state = "dead", !.job = None, !.inbox = <<>>, !.outbox = o]
        OBVIOUS
    <2>3. child' = [child EXCEPT ![c] = d] /\ d.errors = child[c].errors
        BY <1>1, <2>1, <2>2 DEF Child
    <2> QED BY <2>3, OneSilent
<1>7. CASE Disconnect(c) \/ ExitSeen(c)
    <2>1. PICK d : /\ child' = [child EXCEPT ![c] = d]
                   /\ d = [child[c] EXCEPT !.connected = FALSE] \/ d = [child[c] EXCEPT !.exited = TRUE]
        BY <1>7 DEF Disconnect, ExitSeen
    <2>2. d.errors = child[c].errors
        BY <1>1, <2>1 DEF Child
    <2> QED BY <2>1, <2>2, OneSilent
<1>8. CASE Terminated(c)
    <2>1. PICK k : child' = [child EXCEPT ![c].finished = TRUE, ![c].killed = k]
        BY <1>8 DEF Terminated
    <2>2. PICK d : d = [child[c] EXCEPT !.finished = TRUE, !.killed = k]
        OBVIOUS
    <2>3. child' = [child EXCEPT ![c] = d] /\ d.errors = child[c].errors
        BY <1>1, <2>1, <2>2 DEF Child
    <2> QED BY <2>3, OneSilent
<1>9. CASE CloseSeen(c)
    <2>1. PICK b : b = [child[c] EXCEPT !.exited = TRUE]
        OBVIOUS
    <2>2. b \in Child /\ b.errors = child[c].errors
        BY <1>1, <2>1 DEF Child
    <2>3. PICK d : d = Retired(b)
        OBVIOUS
    <2>4. d.errors = child[c].errors
        BY <2>2, <2>3, RetiredErrors
    <2>5. child' = [child EXCEPT ![c] = d]
        BY <1>9, <2>1, <2>3 DEF CloseSeen
    <2> QED BY <2>4, <2>5, OneSilent
<1>10. CASE Watchdog(c) \/ ErrorSeen(c)
    <2>1. \A e \in Children : child'[e] = child[e] \/ child'[e] = Retired(child[e])
        BY <1>1, <1>10 DEF Watchdog, ErrorSeen, FailStartup, RejectAndRecycle, Recycled
    <2> QED BY <2>1, RecycledSilent
<1> QED BY <1>2, <1>3, <1>4, <1>5, <1>6, <1>7, <1>8, <1>9, <1>10

LEMMA SendFailsSilent ==
    ASSUME IInv, NEW c \in Children, NEW r \in Requests, SendFails(c, r)
    PROVE  Silent
<1>1. child[c] \in Child /\ child \in [Children -> Child]
    BY DEF IInv, TypeOK
<1>2. PICK d : d = [child[c] EXCEPT !.errors = child[c].errors \ {r}]
    OBVIOUS
<1>3. PICK reported : reported = [child EXCEPT ![c] = d]
    OBVIOUS
<1>4. d \in Child /\ d.errors \subseteq child[c].errors
    <2>1. child[c].errors \ {r} \in SUBSET Requests
        BY <1>1 DEF Child
    <2> QED BY <1>1, <1>2, <2>1 DEF Child
<1>5. \A e \in Children : reported[e] \in Child /\ reported[e].errors \subseteq child[e].errors
    BY <1>1, <1>3, <1>4
<1>6. \A e \in Children : Retired(reported[e]).errors = reported[e].errors
    BY <1>5, RetiredErrors
<1>7. reported = [child EXCEPT ![c].errors = @ \ {r}]
    BY <1>2, <1>3
<1>8. \/ child' = reported
      \/ child' = [e \in Children |-> IF e = slot[child[c].slot].child THEN Retired(reported[e])
                                      ELSE reported[e]]
    BY <1>7 DEF SendFails
<1>9. \A e \in Children : child'[e] = reported[e] \/ child'[e] = Retired(reported[e])
    BY <1>8
<1> QED BY <1>5, <1>6, <1>9 DEF Silent

\* A message to a run's own child can fail for that run only.
LEMMA SentReports ==
    ASSUME IInv, Reports, Lawful, NEW c \in Children, NEW m, m.job \in Requests,
           child' = [child EXCEPT ![c] = Sent(@, m)],
           req'[m.job].run = "running" /\ req'[m.job].child = c
    PROVE  Reports'
<1>1. child[c] \in Child /\ child \in [Children -> Child]
    BY DEF IInv, TypeOK
<1>2. PICK d : d = Sent(child[c], m)
    OBVIOUS
<1>3. d.errors \subseteq child[c].errors \cup {m.job}
    BY <1>1, <1>2 DEF Sent, Child
<1>4. child'[c] = d /\ \A e \in Children : e # c => child'[e] = child[e]
    BY <1>1, <1>2
<1> SUFFICES ASSUME NEW e \in Children, NEW r \in child'[e].errors
             PROVE  req'[r].run = "ended" \/ (req'[r].run = "running" /\ req'[r].child = e)
    BY DEF Reports
<1>5. (e = c /\ r = m.job) \/ r \in child[e].errors
    BY <1>3, <1>4
<1>6. CASE r \in child[e].errors
    <2>1. r \in Requests
        BY <1>1, <1>6 DEF Child
    <2>2. Stays(req[r], req'[r])
        BY <2>1 DEF Lawful
    <2> QED BY <1>6, <2>2 DEF Reports, Stays
<1> QED BY <1>5, <1>6

LEMMA DispatchReports ==
    ASSUME IInv, Reports, Lawful, NEW r \in Requests, Dispatch(r)
    PROVE  Reports'
<1>1. PICK c : c = slot[req[r].slot].child
    OBVIOUS
<1>2. CASE UNCHANGED child
    BY <1>2, NoneSilent, SilentReports
<1>3. CASE /\ c # None
           /\ req' = [req EXCEPT ![r].run = "running", ![r].child = c]
           /\ child' = [child EXCEPT ![c] = Sent(@, Msg("run", r, "good"))]
    <2>1. req[r].lease = "held"
        BY DEF Dispatch, IInv, Leased, Underway
    <2>2. c \in Children
        BY <1>1, <1>3, <2>1, OwnSlot DEF IInv, OnSlot
    <2>3. req'[r].run = "running" /\ req'[r].child = c
        BY <1>3 DEF IInv, TypeOK, Request
    <2>4. PICK m : m = Msg("run", r, "good")
        OBVIOUS
    <2>5. m.job = r
        BY <2>4 DEF Msg
    <2> QED BY <1>3, <2>2, <2>3, <2>4, <2>5, SentReports
<1> QED BY <1>1, <1>2, <1>3 DEF Dispatch

LEMMA HostReturnsReports ==
    ASSUME IInv, Reports, Lawful, NEW r \in Requests, HostReturns(r)
    PROVE  Reports'
<1>1. CASE ~MayAnswer(r)
    <2>1. UNCHANGED child
        BY <1>1 DEF HostReturns
    <2> QED BY <2>1, NoneSilent, SilentReports
<1>2. CASE MayAnswer(r)
    <2>1. PICK c : c = req[r].child
        OBVIOUS
    <2>2. PICK s \in Slots : s = req[r].slot
        BY DEF HostReturns, IInv, Exclusive
    <2>3. slot[s].active = r
        BY <1>2, <2>2 DEF MayAnswer, StillActive
    <2>4. req[r].run = "running" /\ c \in Children
        BY <2>1, <2>2, <2>3, NoneFacts DEF IInv, ActiveOwned, OnSlot
    <2>5. req'[r].run = "running" /\ req'[r].child = c
        BY <2>1, <2>4 DEF HostReturns, IInv, TypeOK, Request
    <2>6. PICK m : m = Msg("host-result", r, "good")
        OBVIOUS
    <2>7. m.job = r
        BY <2>6 DEF Msg
    <2>8. child' = [child EXCEPT ![c] = Sent(@, m)]
        BY <1>2, <2>1, <2>6 DEF HostReturns
    <2> QED BY <2>4, <2>5, <2>7, <2>8, SentReports
<1> QED BY <1>1, <1>2

LEMMA NextReports == ASSUME IInv, Reports, [Next]_vars PROVE Reports'
<1>1. Lawful
    BY NextLawful
<1>2. Silent => Reports'
    BY <1>1, SilentReports
<1>3. CASE \E r \in Requests : Dispatch(r) \/ HostReturns(r)
    BY <1>1, <1>3, DispatchReports, HostReturnsReports
<1>4. CASE Close
    <2>1. \A c \in Children : child'[c] = child[c] \/ child'[c] = Retired(child[c])
        BY <1>4 DEF Close
    <2> QED BY <1>2, <2>1, RecycledSilent
<1>5. CASE CloseReturns \/ UNCHANGED vars \/ \E s \in Slots : BackoffPasses(s)
    <2>1. UNCHANGED child
        BY <1>5 DEF CloseReturns, BackoffPasses, vars
    <2> QED BY <1>2, <2>1, NoneSilent
<1>6. ASSUME NEW r \in Requests,
             \/ Grant(r) \/ Lease(r) \/ Execute(r) \/ Release(r)
             \/ Restart(r) \/ StartFails(r)
             \/ Abort(r) \/ Interrupt(r) \/ Deadline(r)
      PROVE  Reports'
    BY <1>2, <1>6, RequestSilent
<1>7. ASSUME NEW c \in Children,
             \/ ChildReady(c) \/ ChildReceives(c) \/ ChildCalls(c) \/ ChildAnswers(c) \/ Die(c)
             \/ Message(c) \/ Disconnect(c) \/ ExitSeen(c) \/ CloseSeen(c)
             \/ Watchdog(c) \/ ErrorSeen(c) \/ Terminated(c)
             \/ \E r \in Requests : SendFails(c, r)
      PROVE  Reports'
    BY <1>2, <1>7, ChildSilent, MessageSilent, SendFailsSilent
<1> QED BY <1>3, <1>4, <1>5, <1>6, <1>7 DEF Next

\* Whatever an active run is rejected for happened to that run: the caller's
\* signal, its deadline, its release, the close, or its own child's death, error,
\* bad answer or failed send, and never what an earlier run of the slot left.
THEOREM RejectedForCauseHolds == Spec => RejectedForCause
<1>1. Init => Reports
    <2>1. Init => \A c \in Children : child[c].errors = {}
        BY DEF Init, Unborn
    <2> QED BY <2>1 DEF Reports
<1>2. IInv /\ Reports /\ [Next]_vars => Reports'
    BY NextReports
<1>3. IInv /\ Reports /\ [Next]_vars
          => [\A r \in Requests :
                 req[r].run = "running" /\ req'[r].run = "ended" /\ req'[r].answer = "failed" =>
                     \/ Abort(r) \/ Interrupt(r) \/ Deadline(r) \/ Release(r) \/ Close
                     \/ LET c == req[r].child IN
                        \/ child[c].state = "dead" \/ r \in child[c].errors \/ ErrorSeen(c)
                        \/ /\ child[c].outbox # <<>> /\ Message(c)
                           /\ Head(child[c].outbox) = Msg("result", r, "garbled")]_vars
    BY NextLawful DEF Lawful, Rejected, Cause
<1> QED BY <1>1, <1>2, <1>3, IInvHolds, PTL DEF Spec, RejectedForCause
=============================================================================
