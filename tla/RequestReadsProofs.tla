-------------------------- MODULE RequestReadsProofs --------------------------
(***************************************************************************)
(* Proofs about RequestReads, for every number of keys, requests, reads    *)
(* and writes, both kinds of store and every set of faults.                       *)
(***************************************************************************)
EXTENDS RequestReads, TLAPS

\* Nothing is read, written or memoized in the initial state.
LEMMA InitInductive == Init => Inductive
<1> SUFFICES ASSUME Init PROVE Inductive
    OBVIOUS
<1> USE NoneIsFresh, ExternalNatural DEF Init, Zero, Unused
<1>1. TypeOK
    BY DEF TypeOK, Read, Write
<1>2. BehindStore /\ AnswersBehind
    BY DEF BehindStore, AnswersBehind
<1>3. FlightsRegistered /\ TurnsDistinct /\ AnswersCurrent
    BY DEF FlightsRegistered, TurnsDistinct, AnswersCurrent, InFlight
<1>4. NoHiddenWrite /\ NeverGoesBack
    BY DEF NoHiddenWrite, NeverGoesBack
<1> QED BY <1>1, <1>2, <1>3, <1>4 DEF Inductive

\* A new read takes a turn no read in flight has.
LEMMA StartReadKeeps ==
    ASSUME Inductive, NEW r \in Reads, NEW m \in Memos, NEW misses \in SUBSET Keys,
           NEW linked \in SUBSET Linkable, NEW fresh \in BOOLEAN,
           StartRead(r, m, misses, linked, fresh)
    PROVE  Inductive'
<1> USE NoneIsFresh, LinkableKeys, ExternalNatural DEF Inductive, StartRead, storage, history
<1>1. TypeOK'
    BY DEF TypeOK, Read, Write, Zero
<1>2. BehindStore'
    BY DEF TypeOK, BehindStore
<1>3. AnswersBehind'
    BY DEF TypeOK, Read, AnswersBehind, Zero
<1>4. FlightsRegistered'
    BY DEF TypeOK, Read, FlightsRegistered, InFlight
<1>5. TurnsDistinct'
    BY DEF TypeOK, Read, TurnsDistinct, FlightsRegistered, InFlight
<1>6. AnswersCurrent'
    BY DEF TypeOK, Read, AnswersCurrent, Records, FlightsRegistered, InFlight
<1>7. NoHiddenWrite' /\ NeverGoesBack'
    BY DEF NoHiddenWrite, NeverGoesBack
<1> QED BY <1>1, <1>2, <1>3, <1>4, <1>5, <1>6, <1>7

\* The store answers with what it holds, which no settled write and no record is ahead of.
LEMMA AnswerKeeps ==
    ASSUME Inductive, NEW r \in Reads, Answer(r)
    PROVE  Inductive'
<1> USE NoneIsFresh, LinkableKeys, ExternalNatural DEF Inductive
<1>1. TypeOK'
    <2> DEFINE got == [k \in Keys |-> IF k \in read[r].misses \cup read[r].linked THEN store[k] ELSE 0]
    <2>1. got \in [Keys -> Nat] /\ read[r] \in Read
        BY DEF TypeOK
    <2>2. read' = [read EXCEPT ![r] = [read[r] EXCEPT !.phase = "answered", !.got = got]]
        BY DEF Answer, TypeOK
    <2> HIDE DEF got
    <2>3. [read[r] EXCEPT !.phase = "answered", !.got = got] \in Read
        BY <2>1 DEF Read
    <2>4. read' \in [Reads -> Read]
        BY <2>2, <2>3 DEF TypeOK
    <2> QED BY <2>4 DEF Answer, storage, memo, history, TypeOK
<1>2. BehindStore'
    BY DEF Answer, storage, memo, history, TypeOK, BehindStore
<1>3. AnswersBehind'
    BY DEF Answer, storage, memo, history, TypeOK, Read, Unused, Zero, BehindStore, AnswersBehind
<1>4. FlightsRegistered'
    BY DEF Answer, storage, memo, history, TypeOK, Read, Unused, Zero, FlightsRegistered, InFlight
<1>5. TurnsDistinct'
    BY DEF Answer, storage, memo, history, TypeOK, Read, Unused, Zero, TurnsDistinct, FlightsRegistered, InFlight
<1>6. AnswersCurrent'
    BY DEF Answer, storage, memo, history, TypeOK, Read, Unused, Zero, AnswersCurrent, Records, FlightsRegistered, InFlight, BehindStore
<1>7. NoHiddenWrite'
    BY DEF Answer, storage, memo, history, TypeOK, NoHiddenWrite, BehindStore
<1>8. NeverGoesBack'
    BY DEF Answer, storage, memo, history, TypeOK, NeverGoesBack
<1> QED BY <1>1, <1>2, <1>3, <1>4, <1>5, <1>6, <1>7, <1>8

\* A failed read leaves no answer.
LEMMA FailReadKeeps ==
    ASSUME Inductive, NEW r \in Reads, FailRead(r)
    PROVE  Inductive'
<1> USE NoneIsFresh, LinkableKeys, ExternalNatural DEF Inductive
<1>1. TypeOK'
    BY DEF FailRead, storage, memo, history, TypeOK, Read, Write, Unused, Zero
<1>2. BehindStore'
    BY DEF FailRead, storage, memo, history, TypeOK, BehindStore
<1>3. AnswersBehind'
    BY DEF FailRead, storage, memo, history, TypeOK, Read, Unused, Zero, BehindStore, AnswersBehind
<1>4. FlightsRegistered'
    BY DEF FailRead, storage, memo, history, TypeOK, Read, Unused, Zero, FlightsRegistered, InFlight
<1>5. TurnsDistinct'
    BY DEF FailRead, storage, memo, history, TypeOK, Read, Unused, Zero, TurnsDistinct, FlightsRegistered, InFlight
<1>6. AnswersCurrent'
    BY DEF FailRead, storage, memo, history, TypeOK, Read, Unused, Zero, AnswersCurrent, Records, FlightsRegistered, InFlight, BehindStore
<1>7. NoHiddenWrite'
    BY DEF FailRead, storage, memo, history, TypeOK, NoHiddenWrite, BehindStore
<1>8. NeverGoesBack'
    BY DEF FailRead, storage, memo, history, TypeOK, NeverGoesBack
<1> QED BY <1>1, <1>2, <1>3, <1>4, <1>5, <1>6, <1>7, <1>8

\* A closed memo holds nothing and takes nothing.
LEMMA CloseKeeps ==
    ASSUME Inductive, NEW m \in Memos, Close(m)
    PROVE  Inductive'
<1> USE NoneIsFresh, LinkableKeys, ExternalNatural DEF Inductive
<1>1. TypeOK'
    BY DEF Close, storage, history, TypeOK, Read, Write, Unused, Zero
<1>2. BehindStore'
    BY DEF Close, storage, history, TypeOK, BehindStore
<1>3. AnswersBehind'
    BY DEF Close, storage, history, TypeOK, Read, Unused, Zero, BehindStore, AnswersBehind
<1>4. FlightsRegistered'
    BY DEF Close, storage, history, TypeOK, Read, Unused, Zero, FlightsRegistered, InFlight
<1>5. TurnsDistinct'
    BY DEF Close, storage, history, TypeOK, Read, Unused, Zero, TurnsDistinct, FlightsRegistered, InFlight
<1>6. AnswersCurrent'
    BY DEF Close, storage, history, TypeOK, Read, Unused, Zero, AnswersCurrent, Records, FlightsRegistered, InFlight, BehindStore
<1>7. NoHiddenWrite'
    BY DEF Close, storage, history, TypeOK, NoHiddenWrite, BehindStore
<1>8. NeverGoesBack'
    BY DEF Close, storage, history, TypeOK, NeverGoesBack
<1> QED BY <1>1, <1>2, <1>3, <1>4, <1>5, <1>6, <1>7, <1>8

\* The first notice.
LEMMA BeginWriteKeeps ==
    ASSUME Inductive, NEW w \in Writes, NEW K \in SUBSET Keys, BeginWrite(w, K)
    PROVE  Inductive'
<1> USE NoneIsFresh, LinkableKeys, ExternalNatural DEF Inductive
<1>1. TypeOK'
    BY DEF BeginWrite, Changed, storage, history, TypeOK, Read, Write, Unused, Zero
<1>2. BehindStore'
    BY DEF BeginWrite, Changed, storage, history, TypeOK, BehindStore
<1>3. AnswersBehind'
    BY DEF BeginWrite, Changed, storage, history, TypeOK, Read, Unused, Zero, BehindStore, AnswersBehind
<1>4. FlightsRegistered'
    BY DEF BeginWrite, Changed, storage, history, TypeOK, Read, Unused, Zero, FlightsRegistered, InFlight
<1>5. TurnsDistinct'
    BY DEF BeginWrite, Changed, storage, history, TypeOK, Read, Unused, Zero, TurnsDistinct, FlightsRegistered, InFlight
<1>6. AnswersCurrent'
    BY DEF BeginWrite, Changed, storage, history, TypeOK, Read, Unused, Zero, AnswersCurrent, Records, FlightsRegistered, InFlight, BehindStore
<1>7. NoHiddenWrite'
    BY DEF BeginWrite, Changed, storage, history, TypeOK, NoHiddenWrite, BehindStore
<1>8. NeverGoesBack'
    BY DEF BeginWrite, Changed, storage, history, TypeOK, NeverGoesBack
<1> QED BY <1>1, <1>2, <1>3, <1>4, <1>5, <1>6, <1>7, <1>8

\* The store moves on alone.
LEMMA ApplyKeeps ==
    ASSUME Inductive, NEW w \in Writes, Apply(w)
    PROVE  Inductive'
<1> USE NoneIsFresh, LinkableKeys, ExternalNatural DEF Inductive
<1>1. TypeOK'
    <2>0. write[w] \in Write
        BY DEF TypeOK
    <2>1. [write[w] EXCEPT !.phase = "applied"] \in Write
        BY ONLY <2>0 DEF Write
    <2>2. write' \in [Writes -> Write]
        BY <2>1 DEF Apply, TypeOK
    <2> QED BY <2>2 DEF Apply, Bump, memo, history, TypeOK
<1>2. BehindStore'
    BY DEF Apply, Bump, memo, history, TypeOK, BehindStore
<1>3. AnswersBehind'
    BY DEF Apply, Bump, memo, history, TypeOK, Read, Unused, Zero, BehindStore, AnswersBehind
<1>4. FlightsRegistered'
    BY DEF Apply, Bump, memo, history, TypeOK, Read, Unused, Zero, FlightsRegistered, InFlight
<1>5. TurnsDistinct'
    BY DEF Apply, Bump, memo, history, TypeOK, Read, Unused, Zero, TurnsDistinct, FlightsRegistered, InFlight
<1>6. AnswersCurrent'
    BY DEF Apply, Bump, memo, history, TypeOK, Read, Unused, Zero, AnswersCurrent, Records, FlightsRegistered, InFlight, BehindStore
<1>7. NoHiddenWrite'
    BY DEF Apply, Bump, memo, history, TypeOK, NoHiddenWrite, BehindStore
<1>8. NeverGoesBack'
    BY DEF Apply, Bump, memo, history, TypeOK, NeverGoesBack
<1> QED BY <1>1, <1>2, <1>3, <1>4, <1>5, <1>6, <1>7, <1>8

\* The second notice drops every value and refuses every read the write overlapped.
LEMMA SettleWriteKeeps ==
    ASSUME Inductive, NEW w \in Writes, SettleWrite(w)
    PROVE  Inductive'
<1> USE NoneIsFresh, LinkableKeys, ExternalNatural DEF Inductive
<1>1. TypeOK'
    BY DEF SettleWrite, Changed, storage, TypeOK, Read, Write, Unused, Zero
<1>2. BehindStore'
    BY DEF SettleWrite, Changed, storage, TypeOK, BehindStore
<1>3. AnswersBehind'
    BY DEF SettleWrite, Changed, storage, TypeOK, Read, Unused, Zero, BehindStore, AnswersBehind
<1>4. FlightsRegistered'
    BY DEF SettleWrite, Changed, storage, TypeOK, Read, Unused, Zero, FlightsRegistered, InFlight
<1>5. TurnsDistinct'
    BY DEF SettleWrite, Changed, storage, TypeOK, Read, Unused, Zero, TurnsDistinct, FlightsRegistered, InFlight
<1>6. AnswersCurrent'
    BY DEF SettleWrite, Changed, storage, TypeOK, Read, Unused, Zero, AnswersCurrent, Records, FlightsRegistered, InFlight, BehindStore
<1>7. NoHiddenWrite'
    BY DEF SettleWrite, Changed, storage, TypeOK, NoHiddenWrite, BehindStore
<1>8. NeverGoesBack'
    BY DEF SettleWrite, Changed, storage, TypeOK, NeverGoesBack
<1> QED BY <1>1, <1>2, <1>3, <1>4, <1>5, <1>6, <1>7, <1>8

\* An interrupted write gives its second notice early.
LEMMA AbandonWriteKeeps ==
    ASSUME Inductive, NEW w \in Writes, AbandonWrite(w)
    PROVE  Inductive'
<1> USE NoneIsFresh, LinkableKeys, ExternalNatural DEF Inductive
<1>1. TypeOK'
    <2>0. write[w] \in Write
        BY DEF TypeOK
    <2>1. [write[w] EXCEPT !.phase = "abandoned"] \in Write
        BY ONLY <2>0 DEF Write
    <2>2. write' \in [Writes -> Write]
        BY <2>1 DEF AbandonWrite, TypeOK
    <2> QED BY <2>2 DEF AbandonWrite, Changed, storage, history, TypeOK
<1>2. BehindStore'
    BY DEF AbandonWrite, Changed, storage, history, TypeOK, BehindStore
<1>3. AnswersBehind'
    BY DEF AbandonWrite, Changed, storage, history, TypeOK, Read, Unused, Zero, BehindStore, AnswersBehind
<1>4. FlightsRegistered'
    BY DEF AbandonWrite, Changed, storage, history, TypeOK, Read, Unused, Zero, FlightsRegistered, InFlight
<1>5. TurnsDistinct'
    BY DEF AbandonWrite, Changed, storage, history, TypeOK, Read, Unused, Zero, TurnsDistinct, FlightsRegistered, InFlight
<1>6. AnswersCurrent'
    BY DEF AbandonWrite, Changed, storage, history, TypeOK, Read, Unused, Zero, AnswersCurrent, Records, FlightsRegistered, InFlight, BehindStore
<1>7. NoHiddenWrite'
    BY DEF AbandonWrite, Changed, storage, history, TypeOK, NoHiddenWrite, BehindStore
<1>8. NeverGoesBack'
    BY DEF AbandonWrite, Changed, storage, history, TypeOK, NeverGoesBack
<1> QED BY <1>1, <1>2, <1>3, <1>4, <1>5, <1>6, <1>7, <1>8

\* It is applied with no notice.
LEMMA ApplyLateKeeps ==
    ASSUME Inductive, NEW w \in Writes, ApplyLate(w)
    PROVE  Inductive'
<1> USE NoneIsFresh, LinkableKeys, ExternalNatural DEF Inductive
<1>1. TypeOK'
    BY DEF ApplyLate, Bump, memo, history, TypeOK, Read, Write, Unused, Zero
<1>2. BehindStore'
    BY DEF ApplyLate, Bump, memo, history, TypeOK, BehindStore
<1>3. AnswersBehind'
    BY DEF ApplyLate, Bump, memo, history, TypeOK, Read, Unused, Zero, BehindStore, AnswersBehind
<1>4. FlightsRegistered'
    BY DEF ApplyLate, Bump, memo, history, TypeOK, Read, Unused, Zero, FlightsRegistered, InFlight
<1>5. TurnsDistinct'
    BY DEF ApplyLate, Bump, memo, history, TypeOK, Read, Unused, Zero, TurnsDistinct, FlightsRegistered, InFlight
<1>6. AnswersCurrent'
    BY DEF ApplyLate, Bump, memo, history, TypeOK, Read, Unused, Zero, AnswersCurrent, Records, FlightsRegistered, InFlight, BehindStore
<1>7. NoHiddenWrite'
    BY DEF ApplyLate, Bump, memo, history, TypeOK, NoHiddenWrite, BehindStore
<1>8. NeverGoesBack'
    BY DEF ApplyLate, Bump, memo, history, TypeOK, NeverGoesBack
<1> QED BY <1>1, <1>2, <1>3, <1>4, <1>5, <1>6, <1>7, <1>8

\* The memory store's only notice.
LEMMA WriteInMemoryKeeps ==
    ASSUME Inductive, NEW w \in Writes, NEW k \in Keys, WriteInMemory(w, k)
    PROVE  Inductive'
<1> USE NoneIsFresh, LinkableKeys, ExternalNatural DEF Inductive
<1>1. TypeOK'
    <2>0. write[w] \in Write
        BY DEF TypeOK
    <2>1. [write[w] EXCEPT !.phase = "over"] \in Write
        BY ONLY <2>0 DEF Write
    <2>2. write' \in [Writes -> Write]
        BY <2>1 DEF WriteInMemory, TypeOK
    <2>3. store' \in [Keys -> Nat] /\ settled' \in [Keys -> Nat]
        <3>1. CASE Bump({k}) /\ settled' = [settled EXCEPT ![k] = store[k] + 1]
            BY <3>1 DEF Bump, TypeOK
        <3>2. CASE UNCHANGED <<store, settled>>
            BY <3>2 DEF TypeOK
        <3> QED BY <3>1, <3>2 DEF WriteInMemory
    <2>4. /\ values' \in [Memos -> [Keys -> Nat \cup {None}]]
          /\ versions' \in [Memos -> [Keys -> Nat]]
          /\ \A m \in Memos : status'[m] # "open" => values'[m] = [j \in Keys |-> None]
        BY DEF WriteInMemory, Changed, TypeOK
    <2> QED BY <2>2, <2>3, <2>4 DEF WriteInMemory, Changed, TypeOK
<1>2. BehindStore'
    BY DEF WriteInMemory, Changed, Bump, TypeOK, BehindStore
<1>3. AnswersBehind'
    <2>1. \A j \in Keys : store'[j] >= store[j]
        <3>1. CASE Bump({k})
            BY <3>1 DEF Bump, TypeOK
        <3>2. CASE UNCHANGED <<store, settled>>
            BY <3>2 DEF TypeOK
        <3> QED BY <3>1, <3>2 DEF WriteInMemory
    <2>2. \A s \in Reads, j \in Keys : read[s].got[j] \in Nat
        BY DEF TypeOK, Read
    <2>3. \A j \in Keys : store'[j] \in Nat /\ store[j] \in Nat
        BY <1>1 DEF TypeOK
    <2>4. \A s \in Reads : read[s].misses \subseteq Keys
        BY DEF TypeOK, Read
    <2> QED BY <2>1, <2>2, <2>3, <2>4 DEF WriteInMemory, AnswersBehind
<1>4. FlightsRegistered'
    BY DEF WriteInMemory, Changed, Bump, TypeOK, Read, Unused, Zero, FlightsRegistered, InFlight
<1>5. TurnsDistinct'
    BY DEF WriteInMemory, Changed, Bump, TypeOK, Read, Unused, Zero, TurnsDistinct, FlightsRegistered, InFlight
<1>6. AnswersCurrent'
    BY DEF WriteInMemory, Changed, Bump, TypeOK, Read, Unused, Zero, AnswersCurrent, Records, FlightsRegistered, InFlight, BehindStore
<1>7. NoHiddenWrite'
    BY DEF WriteInMemory, Changed, Bump, TypeOK, NoHiddenWrite, BehindStore
<1>8. NeverGoesBack'
    BY DEF WriteInMemory, Changed, Bump, TypeOK, NeverGoesBack
<1> QED BY <1>1, <1>2, <1>3, <1>4, <1>5, <1>6, <1>7, <1>8

\* Another isolate's write.
LEMMA WriteElsewhereKeeps ==
    ASSUME Inductive, NEW k \in Keys, WriteElsewhere(k)
    PROVE  Inductive'
<1> USE NoneIsFresh, LinkableKeys, ExternalNatural DEF Inductive
<1>1. TypeOK'
    BY DEF WriteElsewhere, Bump, memo, history, TypeOK, Read, Write, Unused, Zero
<1>2. BehindStore'
    BY DEF WriteElsewhere, Bump, memo, history, TypeOK, BehindStore
<1>3. AnswersBehind'
    BY DEF WriteElsewhere, Bump, memo, history, TypeOK, Read, Unused, Zero, BehindStore, AnswersBehind
<1>4. FlightsRegistered'
    BY DEF WriteElsewhere, Bump, memo, history, TypeOK, Read, Unused, Zero, FlightsRegistered, InFlight
<1>5. TurnsDistinct'
    BY DEF WriteElsewhere, Bump, memo, history, TypeOK, Read, Unused, Zero, TurnsDistinct, FlightsRegistered, InFlight
<1>6. AnswersCurrent'
    BY DEF WriteElsewhere, Bump, memo, history, TypeOK, Read, Unused, Zero, AnswersCurrent, Records, FlightsRegistered, InFlight, BehindStore
<1>7. NoHiddenWrite'
    BY DEF WriteElsewhere, Bump, memo, history, TypeOK, NoHiddenWrite, BehindStore
<1>8. NeverGoesBack'
    BY DEF WriteElsewhere, Bump, memo, history, TypeOK, NeverGoesBack
<1> QED BY <1>1, <1>2, <1>3, <1>4, <1>5, <1>6, <1>7, <1>8

\* A read that returns records only an answer nothing has overtaken, and then
\* every other read of that key in flight is out of turn.
LEMMA ReturnKeeps ==
    ASSUME Inductive, NEW r \in Reads, Return(r)
    PROVE  Inductive'
<1> DEFINE m == read[r].memo
<1> USE NoneIsFresh, LinkableKeys, ExternalNatural DEF Inductive
<1>1. /\ m \in Memos /\ status[m] # "new" /\ read[r].phase = "answered"
      /\ read[r] \in Read
    BY DEF Return, FlightsRegistered, InFlight, TypeOK
<1>2. \A k \in Keys \ Linkable : ~RecordsLinked(r, k)
    BY <1>1 DEF RecordsLinked, Read
<1>3. /\ values' = [values EXCEPT ![m] = [k \in Keys |->
                      IF Records(r, k) \/ RecordsLinked(r, k) THEN read[r].got[k] ELSE values[m][k]]]
      /\ started' = [started EXCEPT ![m] =
                      [k \in Keys |-> IF RecordsLinked(r, k) THEN started[m][k] + 1 ELSE started[m][k]]]
      /\ recorded' = [recorded EXCEPT ![m] = [k \in Keys |->
                      IF (Records(r, k) \/ RecordsLinked(r, k)) /\ read[r].got[k] > recorded[m][k]
                      THEN read[r].got[k] ELSE recorded[m][k]]]
      /\ read' = [read EXCEPT ![r] = Unused("over")]
      /\ UNCHANGED <<storage, status, versions, write, settled>>
    BY DEF Return, TypeOK
<1>4. \A k \in Keys : status[m] # "open" => ~Records(r, k) /\ ~RecordsLinked(r, k)
    BY <1>1 DEF Records, RecordsLinked, TypeOK
<1>6. TypeOK'
    <2>1. /\ values' \in [Memos -> [Keys -> Nat \cup {None}]]
          /\ started' \in [Memos -> [Keys -> Nat]]
          /\ recorded' \in [Memos -> [Keys -> Nat]]
        BY <1>1, <1>3 DEF TypeOK, Read
    <2>2. read' \in [Reads -> Read]
        BY <1>3 DEF TypeOK, Read, Unused, Zero
    <2>3. \A n \in Memos : status[n] # "open" => values'[n] = [k \in Keys |-> None]
        BY <1>1, <1>3, <1>4 DEF TypeOK
    <2> QED BY <1>3, <2>1, <2>2, <2>3 DEF TypeOK, storage
<1>7. \A k \in Keys \ Linkable :
         /\ started'[m][k] = started[m][k]
         /\ values'[m][k] = IF Records(r, k) THEN read[r].got[k] ELSE values[m][k]
         /\ recorded'[m][k] = IF Records(r, k) THEN read[r].got[k] ELSE recorded[m][k]
    <2> SUFFICES ASSUME NEW k \in Keys \ Linkable
                 PROVE  /\ started'[m][k] = started[m][k]
                        /\ values'[m][k] = IF Records(r, k) THEN read[r].got[k] ELSE values[m][k]
                        /\ recorded'[m][k] = IF Records(r, k) THEN read[r].got[k] ELSE recorded[m][k]
        OBVIOUS
    <2>1. Records(r, k) => read[r].got[k] >= recorded[m][k]
        BY <1>1 DEF AnswersCurrent, Records
    <2>2. read[r].got[k] \in Nat /\ recorded[m][k] \in Nat
        BY <1>1 DEF Read, TypeOK
    <2>3. /\ started'[m][k] = IF RecordsLinked(r, k) THEN started[m][k] + 1 ELSE started[m][k]
          /\ values'[m][k] = IF Records(r, k) \/ RecordsLinked(r, k)
                              THEN read[r].got[k] ELSE values[m][k]
          /\ recorded'[m][k] = IF (Records(r, k) \/ RecordsLinked(r, k)) /\ read[r].got[k] > recorded[m][k]
                                THEN read[r].got[k] ELSE recorded[m][k]
        BY <1>1, <1>3 DEF TypeOK
    <2>4. ~RecordsLinked(r, k)
        BY <1>2
    <2>5. CASE Records(r, k)
        BY <2>1, <2>2, <2>3, <2>4, <2>5
    <2>6. CASE ~Records(r, k)
        BY <2>3, <2>4, <2>6
    <2> QED BY <2>5, <2>6
<1>8. \A n \in Memos : n # m => /\ values'[n] = values[n]
                                /\ started'[n] = started[n]
                                /\ recorded'[n] = recorded[n]
    BY <1>3 DEF TypeOK
<1>9. BehindStore'
    BY SMTT(30), <1>1, <1>3, <1>7, <1>8 DEF BehindStore, AnswersBehind, Records, TypeOK, storage
<1>10. \A s \in Reads : /\ s # r => read'[s] = read[s]
                        /\ s = r => read'[s] = Unused("over")
    BY <1>3 DEF TypeOK
<1>11. AnswersBehind'
    BY <1>3, <1>10 DEF AnswersBehind, TypeOK, storage, Unused
<1>12. FlightsRegistered'
    <2>1. \A n \in Memos, k \in Keys : started'[n][k] >= started[n][k]
        BY <1>1, <1>3 DEF TypeOK
    <2> SUFFICES ASSUME NEW s \in Reads, InFlight(s)'
                 PROVE  /\ read[s].memo \in Memos
                        /\ status[read[s].memo] # "new"
                        /\ s # r
                        /\ \A k \in read[s].misses : status[read[s].memo] = "open" =>
                              /\ read[s].before[k] <= versions[read[s].memo][k]
                              /\ read[s].turn[k] <= started'[read[s].memo][k]
        BY ZenonT(60), <1>3, <1>10 DEF FlightsRegistered
    <2>2. s # r /\ InFlight(s)
        BY <1>10 DEF InFlight, Unused
    <2>3. read[s] \in Read
        BY DEF TypeOK
    <2>4. read[s].memo \in Memos /\ status[read[s].memo] # "new"
        BY <2>2 DEF FlightsRegistered
    <2>5. ASSUME NEW k \in read[s].misses, status[read[s].memo] = "open"
          PROVE  /\ read[s].before[k] <= versions[read[s].memo][k]
                 /\ read[s].turn[k] <= started'[read[s].memo][k]
        <3>1. k \in Keys /\ read[s].turn[k] \in Nat
            BY <2>3 DEF Read
        <3>2. started'[read[s].memo][k] \in Nat /\ started[read[s].memo][k] \in Nat
            BY <1>6, <2>4, <3>1 DEF TypeOK
        <3>3. /\ read[s].before[k] <= versions[read[s].memo][k]
              /\ read[s].turn[k] <= started[read[s].memo][k]
            BY <2>2, <2>5 DEF FlightsRegistered
        <3> QED BY <2>1, <2>4, <3>1, <3>2, <3>3
    <2> QED BY <2>2, <2>4, <2>5
<1>13. TurnsDistinct'
    BY <1>3, <1>10 DEF TurnsDistinct, InFlight, Unused
<1>14. AnswersCurrent'
    <2> SUFFICES ASSUME NEW s \in Reads, NEW k \in read'[s].misses \ Linkable,
                        read'[s].phase = "answered", Records(s, k)'
                 PROVE  /\ read'[s].got[k] >= settled[k]
                        /\ read'[s].got[k] >= recorded'[read'[s].memo][k]
        BY <1>3 DEF AnswersCurrent
    <2>1. s # r /\ read'[s] = read[s] /\ InFlight(s)
        BY <1>10 DEF InFlight, Unused
    <2>2. /\ read[s].memo \in Memos
          /\ k \in Keys \ Linkable
          /\ status[read[s].memo] = "open"
        BY ZenonT(60), <1>3, <2>1 DEF FlightsRegistered, TypeOK, Read, Records
    <2>3. started'[read[s].memo][k] = started[read[s].memo][k]
        BY <1>7, <1>8, <2>2
    <2>4. Records(s, k)
        BY <1>3, <2>1, <2>3 DEF Records
    <2>5. read[s].memo = m => ~Records(r, k)
        BY <1>1, <2>1, <2>2, <2>4 DEF TurnsDistinct, InFlight, Records
    <2>6. recorded'[read[s].memo][k] = recorded[read[s].memo][k]
        BY <1>7, <1>8, <2>2, <2>5
    <2> QED BY <2>1, <2>4, <2>6 DEF AnswersCurrent
<1>15. NoHiddenWrite'
    <2> SUFFICES ASSUME NEW n \in Memos, NEW k \in Keys \ Linkable, values'[n][k] # None
                 PROVE  values'[n][k] >= settled[k]
        BY <1>3 DEF NoHiddenWrite
    <2>1. CASE n # m \/ ~Records(r, k)
        BY <1>7, <1>8, <2>1 DEF NoHiddenWrite
    <2>2. CASE n = m /\ Records(r, k)
        <3>1. values'[n][k] = read[r].got[k]
            BY <1>7, <2>2
        <3>2. k \in read[r].misses \ Linkable
            BY <2>2 DEF Records
        <3> QED BY <1>1, <2>2, <3>1, <3>2 DEF AnswersCurrent
    <2> QED BY <2>1, <2>2
<1>16. NeverGoesBack'
    BY <1>1, <1>3, <1>7, <1>8 DEF NeverGoesBack
<1> QED BY <1>6, <1>9, <1>11, <1>12, <1>13, <1>14, <1>15, <1>16

\* The invariant is inductive: every step of a request, of a write or of
\* another isolate keeps it.
LEMMA NextInductive == Inductive /\ [Next]_vars => Inductive'
<1> SUFFICES ASSUME Inductive, [Next]_vars PROVE Inductive'
    OBVIOUS
<1>1. CASE \E r \in Reads, m \in Memos, k \in Keys, fresh \in BOOLEAN : BeginRead(r, m, k, fresh)
    BY <1>1, StartReadKeeps DEF BeginRead
<1>2. CASE \E r \in Reads, m \in Memos, K \in SUBSET Keys, linked \in SUBSET Linkable :
               Prefetch(r, m, K, linked)
    <2> PICK r \in Reads, m \in Memos, K \in SUBSET Keys, linked \in SUBSET Linkable :
               Prefetch(r, m, K, linked)
        BY <1>2
    <2> DEFINE misses == {k \in K : values[m][k] = None}
    <2>1. StartRead(r, m, misses, linked \ K, FALSE)
        BY DEF Prefetch
    <2>2. misses \in SUBSET Keys /\ linked \ K \in SUBSET Linkable
        OBVIOUS
    <2> HIDE DEF misses
    <2> QED BY <2>1, <2>2, StartReadKeeps
<1>3. CASE \E r \in Reads : Answer(r) \/ Return(r) \/ FailRead(r)
    BY <1>3, AnswerKeeps, ReturnKeeps, FailReadKeeps
<1>4. CASE \E m \in Memos : Close(m)
    BY <1>4, CloseKeeps
<1>5. CASE \E w \in Writes : \/ \E K \in SUBSET Keys : BeginWrite(w, K)
                             \/ Apply(w) \/ SettleWrite(w) \/ AbandonWrite(w) \/ ApplyLate(w)
                             \/ \E k \in Keys : WriteInMemory(w, k)
    BY <1>5, BeginWriteKeeps, ApplyKeeps, SettleWriteKeeps, AbandonWriteKeeps, ApplyLateKeeps,
       WriteInMemoryKeeps
<1>6. CASE \E k \in Keys : WriteElsewhere(k)
    BY <1>6, WriteElsewhereKeeps
<1>7. CASE UNCHANGED vars
    BY <1>7 DEF vars, storage, memo, history, Inductive, TypeOK, BehindStore, AnswersBehind,
                FlightsRegistered, TurnsDistinct, AnswersCurrent, NoHiddenWrite, NeverGoesBack,
                InFlight, Records
<1> QED BY <1>1, <1>2, <1>3, <1>4, <1>5, <1>6, <1>7 DEF Next

\* Every reachable state satisfies the inductive invariant of the memos.
THEOREM MemosSound == Spec => []Inductive
<1> QED BY InitInductive, NextInductive, PTL DEF Spec

\* Every variable keeps its shape, and only a registered memo holds values:
\* a read that outlives its request records nothing.
THEOREM TypesHold == Spec => []TypeOK
<1>1. Inductive => TypeOK
    BY DEF Inductive
<1> QED BY <1>1, MemosSound, PTL

\* No memoized value hides a settled write of this isolate, however many
\* requests read and write, for every key that no linked prefetch locates.
THEOREM NoHiddenWriteHolds == Spec => []NoHiddenWrite
<1>1. Inductive => NoHiddenWrite
    BY DEF Inductive
<1> QED BY <1>1, MemosSound, PTL

\* No request sees such a key go back to an older value, whatever other
\* isolates write.
THEOREM NeverGoesBackHolds == Spec => []NeverGoesBack
<1>1. Inductive => NeverGoesBack
    BY DEF Inductive
<1> QED BY <1>1, MemosSound, PTL
=============================================================================
