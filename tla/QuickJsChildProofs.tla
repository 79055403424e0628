-------------------------- MODULE QuickJsChildProofs --------------------------
(***************************************************************************)
(* Proofs about QuickJsPool, continued: what passes between the pool and a *)
(* child. A run that was sent to a child is in one place only, the message *)
(* on its way, the child's job or the answer on its way back (OneRun), and *)
(* as long as the child is not let go it is its slot's active run (Its).   *)
(* So a child is never sent a run in the middle of another, an answer is   *)
(* collected whole (Collecting), and what close() waits for is all there   *)
(* is (Reaped).                                                            *)
(*                                                                         *)
(* The predicates speak of a child d, the active run a of its slot and the *)
(* record q of that run.                                                   *)
(***************************************************************************)
EXTENDS QuickJsPoolProofs

\* Where the runs and the answers of a child are on the channel.
RunsIn(d) == {i \in 1 .. Len(d.inbox) : d.inbox[i].type = "run"}
ResultsIn(d) == {i \in 1 .. Len(d.outbox) : d.outbox[i].type = "result"}
IsChunk(m, r) == m.type = "result-chunk" /\ m.job = r

\* A run is on its way, taken, or answered, and only one is.
OneRun(d) ==
    /\ \A i, j \in RunsIn(d) : i = j
    /\ \A i, j \in ResultsIn(d) : i = j
    /\ RunsIn(d) # {} => d.job = None
    /\ RunsIn(d) # {} \/ d.job # None => ResultsIn(d) = {}

\* It is the active run of the child's slot.
Its(d, a) ==
    /\ \A i \in RunsIn(d) : d.inbox[i].job = a /\ a # None
    /\ d.job # None => d.job = a
    /\ \A i \in ResultsIn(d) : d.outbox[i].job = a /\ a # None

\* Before it is answered nothing of it was collected or is on its way; from then
\* on what is missing is what directly precedes its result.
Collecting(d, a, q) ==
    /\ RunsIn(d) # {} \/ d.job # None =>
         q.got = 0 /\ \A i \in 1 .. Len(d.outbox) : ~IsChunk(d.outbox[i], a)
    /\ \A i \in ResultsIn(d) :
         /\ q.got <= q.parts /\ q.parts - q.got < i
         /\ \A j \in 1 .. Len(d.outbox) :
              IsChunk(d.outbox[j], a) <=> i - (q.parts - q.got) <= j /\ j < i

\* A child that cannot take another run has said so, or is dead.
Admits(d) ==
    d.soiled => d.state = "dead" \/ \E i \in ResultsIn(d) : d.outbox[i].mark = "dirty"

Sound(d, a, q) == OneRun(d) /\ Its(d, a) /\ Collecting(d, a, q) /\ Admits(d)

\* ChildFitForRun for one child.
Fit(d) == ~d.overlapped /\ (d.soiled /\ d.job = None => RunsIn(d) = {})

\* A dead child has nothing to do.
Still(d) == d.state = "dead" => d.job = None /\ d.inbox = <<>>

Active(c) == slot[child[c].slot].active

Channel ==
    \A c \in Children :
        /\ ~child[c].retired => Sound(child[c], Active(c), req[Active(c)])
        /\ Fit(child[c]) /\ Still(child[c])

\* A run that was not sent to a child has collected nothing; one that resolved
\* has all its chunks.
Answered(q) ==
    /\ q.answer = "result" => q.run = "ended" /\ q.got = q.parts
    /\ q.run \in {"none", "restarting", "starting"} => q.got = 0

\* Whose chunks are on their way was sent.
Begun(d) ==
    \A i \in 1 .. Len(d.outbox) : d.outbox[i].type = "result-chunk" =>
        /\ d.outbox[i].job \in Requests
        /\ req[d.outbox[i].job].run \in {"running", "ended"}

Answers == (\A r \in Requests : Answered(req[r])) /\ (\A c \in Children : Begun(child[c]))

\* A child whose retirement is finished was seen to exit or killed.
Buried(d) == d.finished => d.retired /\ (d.exited \/ d.killed = "SIGKILL")

\* Once the close began every child is let go, and waited for until it is gone.
Reaped ==
    /\ \A c \in Children : Buried(child[c])
    /\ pool # "open" => \A c \in 1 .. spawned :
         /\ child[c].retired
         /\ child[c].finished \/ (pool = "closing" /\ c \in awaited)

-----------------------------------------------------------------------------
(* What each message, sent or read, does to a child's channel. *)

\* A child with nothing of a run on its channel.
Idle(d) == RunsIn(d) = {} /\ d.job = None /\ ResultsIn(d) = {}

LEMMA IdleSound ==
    ASSUME NEW d, NEW a, NEW q, Idle(d), d.soiled => d.state = "dead"
    PROVE  Sound(d, a, q)
BY DEF Idle, Sound, OneRun, Its, Collecting, Admits

\* Nothing happened on the channel.
SameChannel(d, e) ==
    /\ e.inbox = d.inbox /\ e.outbox = d.outbox /\ e.job = d.job
    /\ e.soiled = d.soiled /\ e.overlapped = d.overlapped /\ e.state = d.state

LEMMA SameSound ==
    ASSUME NEW d, NEW e, NEW a, NEW q, NEW p, SameChannel(d, e), Sound(d, a, q),
           a # None => p.got = q.got /\ p.parts = q.parts
    PROVE  Sound(e, a, p)
<1>1. RunsIn(e) = RunsIn(d) /\ ResultsIn(e) = ResultsIn(d)
    BY DEF SameChannel, RunsIn, ResultsIn
<1>2. OneRun(e) /\ Its(e, a) /\ Admits(e)
    BY <1>1 DEF SameChannel, Sound, OneRun, Its, Admits
<1>3. Collecting(e, a, p)
    <2>1. CASE a = None
        <3>1. RunsIn(d) = {} /\ ResultsIn(d) = {} /\ d.job = None
            BY <2>1 DEF Sound, Its
        <3> QED BY <1>1, <3>1 DEF SameChannel, Collecting
    <2>2. CASE a # None
        <3>1. p.got = q.got /\ p.parts = q.parts
            BY <2>2
        <3> QED BY <1>1, <3>1 DEF SameChannel, Sound, Collecting
    <2> QED BY <2>1, <2>2
<1> QED BY <1>2, <1>3 DEF Sound

LEMMA SameFit ==
    ASSUME NEW d, NEW e, SameChannel(d, e)
    PROVE  (Fit(d) => Fit(e)) /\ (Still(d) => Still(e)) /\ (Begun(d) => Begun(e))
<1>1. RunsIn(e) = RunsIn(d)
    BY DEF SameChannel, RunsIn
<1> QED BY <1>1 DEF SameChannel, Fit, Still, Begun

\* The child writes something else than an answer.
LEMMA Writes ==
    ASSUME NEW d \in Child, NEW e, NEW a, NEW q, NEW p, NEW m \in Envelope,
           m.type \notin {"result", "result-chunk"},
           e.outbox = Append(d.outbox, m), e.inbox = d.inbox, e.job = d.job,
           e.soiled = d.soiled, d.state # "dead", p.got = q.got, p.parts = q.parts,
           Sound(d, a, q)
    PROVE  Sound(e, a, p)
<1>0. /\ Len(e.outbox) = Len(d.outbox) + 1 /\ Len(d.outbox) \in Nat
      /\ \A i \in 1 .. Len(d.outbox) : e.outbox[i] = d.outbox[i]
      /\ e.outbox[Len(d.outbox) + 1] = m
    <2>1. d.outbox \in Seq(Envelope)
        BY DEF Child
    <2> QED BY <2>1, AppendProperties
<1>1. RunsIn(e) = RunsIn(d)
    BY DEF RunsIn
<1>2. ResultsIn(e) = ResultsIn(d) /\ \A i \in ResultsIn(d) : e.outbox[i] = d.outbox[i]
    BY <1>0 DEF ResultsIn
<1>3. OneRun(e) /\ Its(e, a) /\ Admits(e)
    BY ZenonT(60), <1>1, <1>2 DEF Sound, OneRun, Its, Admits
<1>4. \A i \in 1 .. Len(e.outbox) :
        IsChunk(e.outbox[i], a) <=> i \in 1 .. Len(d.outbox) /\ IsChunk(d.outbox[i], a)
    BY <1>0 DEF IsChunk
<1>5. ASSUME RunsIn(e) # {} \/ e.job # None
      PROVE  p.got = 0 /\ \A i \in 1 .. Len(e.outbox) : ~IsChunk(e.outbox[i], a)
    BY <1>1, <1>4, <1>5 DEF Sound, Collecting
<1>6. ASSUME NEW i \in ResultsIn(e)
      PROVE  /\ p.got <= p.parts /\ p.parts - p.got < i
             /\ \A j \in 1 .. Len(e.outbox) :
                  IsChunk(e.outbox[j], a) <=> i - (p.parts - p.got) <= j /\ j < i
    <2>1. /\ q.got <= q.parts /\ q.parts - q.got < i
          /\ \A j \in 1 .. Len(d.outbox) :
               IsChunk(d.outbox[j], a) <=> i - (q.parts - q.got) <= j /\ j < i
        BY <1>2, <1>6 DEF Sound, Collecting
    <2>2. i \in 1 .. Len(d.outbox)
        BY <1>2, <1>6 DEF ResultsIn
    <2>3. ASSUME NEW j \in 1 .. Len(e.outbox)
          PROVE  IsChunk(e.outbox[j], a) <=> i - (p.parts - p.got) <= j /\ j < i
        <3>1. CASE j \in 1 .. Len(d.outbox)
            BY <1>4, <2>1, <3>1
        <3>2. CASE j \notin 1 .. Len(d.outbox)
            <4>1. ~(j < i)
                BY <1>0, <2>2, <3>2
            <4> QED BY <1>4, <3>2, <4>1
        <3> QED BY <3>1, <3>2
    <2> QED BY <2>1, <2>3
<1> QED BY <1>3, <1>5, <1>6 DEF Sound, Collecting


\* The child is sent something else than a run.
LEMMA Hears ==
    ASSUME NEW d \in Child, NEW e, NEW a, NEW q, NEW p, NEW m \in Envelope, m.type # "run",
           e.inbox = Append(d.inbox, m), e.outbox = d.outbox, e.job = d.job,
           e.soiled = d.soiled, e.overlapped = d.overlapped, d.state # "dead", e.state = d.state,
           p.got = q.got, p.parts = q.parts
    PROVE  /\ Sound(d, a, q) => Sound(e, a, p)
           /\ Fit(d) => Fit(e)
           /\ Still(e)
<1>0. /\ Len(e.inbox) = Len(d.inbox) + 1 /\ Len(d.inbox) \in Nat
      /\ \A i \in 1 .. Len(d.inbox) : e.inbox[i] = d.inbox[i]
      /\ e.inbox[Len(d.inbox) + 1] = m
    <2>1. d.inbox \in Seq(Envelope)
        BY DEF Child
    <2> QED BY <2>1, AppendProperties
<1>1. RunsIn(e) = RunsIn(d) /\ \A i \in RunsIn(d) : e.inbox[i] = d.inbox[i]
    BY <1>0 DEF RunsIn
<1>2. ResultsIn(e) = ResultsIn(d)
    BY DEF ResultsIn
<1>3. Sound(d, a, q) => OneRun(e) /\ Its(e, a) /\ Admits(e)
    BY ZenonT(60), <1>1, <1>2 DEF Sound, OneRun, Its, Admits
<1>4. Sound(d, a, q) => Collecting(e, a, p)
    BY <1>1, <1>2 DEF Sound, Collecting
<1>5. Fit(d) => Fit(e)
    BY <1>1 DEF Fit
<1>6. Still(e)
    BY DEF Still
<1> QED BY <1>3, <1>4, <1>5, <1>6 DEF Sound

\* An idle child is sent a run.
LEMMA Assigned ==
    ASSUME NEW d \in Child, NEW e, NEW q, NEW r \in Requests, NEW m \in Envelope,
           m.type = "run", m.job = r,
           e.inbox = Append(d.inbox, m), e.outbox = d.outbox, e.job = d.job,
           e.soiled = d.soiled, e.overlapped = d.overlapped, d.state # "dead", e.state = d.state,
           Idle(d), ~d.soiled, Fit(d), q.got = 0,
           \A i \in 1 .. Len(d.outbox) : ~IsChunk(d.outbox[i], r)
    PROVE  Sound(e, r, q) /\ Fit(e) /\ Still(e)
<1>0. /\ Len(e.inbox) = Len(d.inbox) + 1 /\ Len(d.inbox) \in Nat
      /\ \A i \in 1 .. Len(d.inbox) : e.inbox[i] = d.inbox[i]
      /\ e.inbox[Len(d.inbox) + 1] = m
    <2>1. d.inbox \in Seq(Envelope)
        BY DEF Child
    <2> QED BY <2>1, AppendProperties
<1>1. RunsIn(e) = {Len(d.inbox) + 1}
    <2>1. \A i \in 1 .. Len(d.inbox) : d.inbox[i].type # "run"
        BY DEF Idle, RunsIn
    <2> QED BY <1>0, <2>1 DEF RunsIn
<1>2. ResultsIn(e) = {} /\ e.job = None
    BY DEF Idle, ResultsIn
<1>3. OneRun(e) /\ Its(e, r) /\ Admits(e)
    BY <1>0, <1>1, <1>2, NoneFacts DEF OneRun, Its, Admits
<1>4. Collecting(e, r, q)
    BY <1>1, <1>2 DEF Collecting
<1> QED BY <1>3, <1>4 DEF Sound, Fit, Still

\* The next message is taken out of the inbox: a run, of which there is no other,
\* or an answer to a host call.
LEMMA Takes ==
    ASSUME NEW d \in Child, NEW e, NEW a, NEW q, NEW job, NEW m,
           d.inbox # <<>>, m = Head(d.inbox),
           OneRun(d), Its(d, a),
           e.inbox = Tail(d.inbox), e.outbox = d.outbox, e.state = d.state,
           e.soiled = d.soiled,
           m.type # "run" => e.job = d.job, m.type = "run" => e.job = m.job
    PROVE  /\ m.type = "run" => d.job = None
           /\ Sound(d, a, q) => Sound(e, a, q)
           /\ d.soiled /\ e.job = None => d.job = None /\ (RunsIn(d) = {} => RunsIn(e) = {})
<1>0. /\ d.inbox \in Seq(Envelope) /\ m = d.inbox[1] /\ 1 \in 1 .. Len(d.inbox)
      /\ Len(e.inbox) = Len(d.inbox) - 1 /\ Len(d.inbox) \in Nat
      /\ \A i \in 1 .. Len(e.inbox) : e.inbox[i] = d.inbox[i + 1]
    <2>1. d.inbox \in Seq(Envelope)
        BY DEF Child
    <2> QED BY <2>1, HeadTailProperties
<1>1. \A i \in RunsIn(e) : i + 1 \in RunsIn(d) /\ i \in Nat /\ i # 0 /\ e.inbox[i] = d.inbox[i + 1]
    BY <1>0 DEF RunsIn
<1>2. ResultsIn(e) = ResultsIn(d)
    BY DEF ResultsIn
<1>3. CASE m.type # "run"
    <2>1. e.job = d.job
        BY <1>3
    <2>2. \A i, j \in RunsIn(e) : i = j
        <3> SUFFICES ASSUME NEW i \in RunsIn(e), NEW j \in RunsIn(e) PROVE i = j
            OBVIOUS
        <3>1. i + 1 = j + 1 /\ i \in Nat /\ j \in Nat
            BY <1>1 DEF OneRun
        <3> QED BY <3>1
    <2>3. RunsIn(e) # {} => RunsIn(d) # {}
        BY <1>1
    <2>4. OneRun(e)
        BY <1>2, <2>1, <2>2, <2>3 DEF OneRun
    <2>5. Its(e, a)
        BY <1>1, <1>2, <2>1 DEF Its
    <2>6. Sound(d, a, q) => Collecting(e, a, q)
        BY <1>2, <2>1, <2>3 DEF Sound, Collecting
    <2>7. Sound(d, a, q) => Admits(e)
        BY <1>2 DEF Sound, Admits
    <2> QED BY <1>3, <2>1, <2>3, <2>4, <2>5, <2>6, <2>7 DEF Sound
<1>4. CASE m.type = "run"
    <2>1. 1 \in RunsIn(d)
        BY <1>0, <1>4 DEF RunsIn
    <2>2. RunsIn(e) = {}
        <3> SUFFICES ASSUME NEW i \in RunsIn(e) PROVE FALSE
            OBVIOUS
        <3>1. i + 1 = 1 /\ i \in Nat /\ i # 0
            BY <1>1, <2>1 DEF OneRun
        <3> QED BY <3>1
    <2>3. d.job = None /\ e.job = a /\ a # None /\ ResultsIn(e) = {}
        <3>1. e.job = d.inbox[1].job
            BY <1>0, <1>4
        <3> QED BY <1>2, <2>1, <3>1 DEF OneRun, Its
    <2>4. OneRun(e) /\ Its(e, a)
        BY <2>2, <2>3 DEF OneRun, Its
    <2>5. Sound(d, a, q) => Collecting(e, a, q)
        BY <2>1, <2>2, <2>3 DEF Sound, Collecting
    <2>6. Sound(d, a, q) => Admits(e)
        BY <1>2 DEF Sound, Admits
    <2> QED BY <2>2, <2>3, <2>4, <2>5, <2>6 DEF Sound
<1> QED BY <1>3, <1>4

\* w is s followed by t.
Joins(s, t, w) ==
    /\ Len(w) = Len(s) + Len(t)
    /\ \A i \in 1 .. Len(s) + Len(t) : w[i] = IF i <= Len(s) THEN s[i] ELSE t[i - Len(s)]

LEMMA Joined ==
    ASSUME NEW s \in Seq(Envelope), NEW t \in Seq(Envelope), NEW w, w = s \o t
    PROVE  w \in Seq(Envelope) /\ Joins(s, t, w)
BY ConcatProperties DEF Joins

\* What an answer adds to the outbox.
LEMMA ReplyShape ==
    ASSUME NEW o \in Seq(Envelope), NEW chunks \in Seq(Envelope), NEW last \in Seq(Envelope),
           NEW k \in Nat, NEW n \in Nat, NEW one, NEW res,
           Len(o) = k, Len(chunks) = n, Len(last) = 1, last[1] = res,
           \A i \in 1 .. n : chunks[i] = one
    PROVE  \A w : w = o \o chunks \o last =>
             /\ Len(w) = k + n + 1
             /\ \A i \in 1 .. k : w[i] = o[i]
             /\ \A i \in k + 1 .. k + n : w[i] = one
             /\ w[k + n + 1] = res
<1>1. PICK u : u = o \o chunks
    OBVIOUS
<1>2. /\ u \in Seq(Envelope) /\ Len(u) = k + n
      /\ \A i \in 1 .. k + n : u[i] = IF i <= k THEN o[i] ELSE chunks[i - k]
    <2>1. u \in Seq(Envelope) /\ Joins(o, chunks, u)
        BY <1>1, Joined
    <2> QED BY <2>1 DEF Joins
<1>3. PICK v : v = u \o last
    OBVIOUS
<1>4. /\ Len(v) = (k + n) + 1
      /\ \A i \in 1 .. (k + n) + 1 : v[i] = IF i <= k + n THEN u[i] ELSE last[i - (k + n)]
    <2>1. Joins(u, last, v)
        BY <1>2, <1>3, Joined
    <2> QED BY <1>2, <2>1 DEF Joins
<1>5. /\ Len(v) = k + n + 1
      /\ \A i \in 1 .. k + n + 1 : v[i] = IF i <= k + n THEN u[i] ELSE last[i - (k + n)]
    BY <1>2, <1>4
<1>6. \A i \in 1 .. k + n : v[i] = u[i]
    BY <1>5
<1>7. \A i \in 1 .. k : v[i] = o[i]
    BY <1>2, <1>6
<1>8. \A i \in k + 1 .. k + n : v[i] = one
    <2> SUFFICES ASSUME NEW i \in k + 1 .. k + n PROVE v[i] = one
        OBVIOUS
    <2>1. v[i] = chunks[i - k] /\ i - k \in 1 .. n
        BY <1>2, <1>6
    <2> QED BY <2>1
<1>9. v[k + n + 1] = res
    <2>1. v[k + n + 1] = last[(k + n + 1) - (k + n)] /\ (k + n + 1) - (k + n) = 1
        BY <1>5
    <2> QED BY <2>1
<1>10. v = o \o chunks \o last
    BY <1>1, <1>3
<1> QED BY <1>5, <1>7, <1>8, <1>9, <1>10

\* o is x, n times the message one, and the message res.
Lengthens(x, o, n, one, res) ==
    LET k == Len(x) IN
    /\ Len(o) = k + n + 1
    /\ \A i \in 1 .. k : o[i] = x[i]
    /\ \A i \in k + 1 .. k + n : o[i] = one
    /\ o[k + n + 1] = res

LEMMA AnswerShape ==
    ASSUME NEW x \in Seq(Envelope), NEW n \in Nat, NEW one \in Envelope, NEW res \in Envelope,
           NEW o, o = x \o [i \in 1 .. n |-> one] \o <<res>>
    PROVE  Lengthens(x, o, n, one, res)
<1>1. PICK chunks : chunks = [i \in 1 .. n |-> one]
    OBVIOUS
<1>2. chunks \in Seq(Envelope) /\ Len(chunks) = n /\ \A i \in 1 .. n : chunks[i] = one
    BY <1>1
<1>3. PICK last : last = <<res>>
    OBVIOUS
<1>4. last \in Seq(Envelope) /\ Len(last) = 1 /\ last[1] = res
    BY <1>3
<1>5. PICK k \in Nat : k = Len(x)
    OBVIOUS
<1>6. o = x \o chunks \o last
    BY <1>1, <1>3
<1>7. /\ Len(o) = k + n + 1
      /\ \A i \in 1 .. k : o[i] = x[i]
      /\ \A i \in k + 1 .. k + n : o[i] = one
      /\ o[k + n + 1] = res
    BY <1>2, <1>4, <1>5, <1>6, ReplyShape
<1> QED BY <1>5, <1>7 DEF Lengthens

\* The run is answered: its chunks, then its result.
LEMMA Replies ==
    ASSUME NEW d \in Child, NEW e, NEW q, NEW p, NEW n \in Nat, NEW r \in Requests,
           NEW one, one.type = "result-chunk", one.job = r,
           NEW res, res.type = "result", res.job = r,
           d.job = r, Lengthens(d.outbox, e.outbox, n, one, res),
           e.inbox = d.inbox, e.job = None, e.soiled => res.mark = "dirty",
           q.got = 0 /\ p.got = 0 /\ p.parts = n, Sound(d, r, q)
    PROVE  Sound(e, r, p) /\ RunsIn(e) = {}
<1>a. PICK L \in Nat : L = Len(d.outbox)
    BY DEF Child
<1>b. /\ Len(e.outbox) = L + n + 1
      /\ \A i \in 1 .. L : e.outbox[i] = d.outbox[i]
      /\ \A i \in L + 1 .. L + n : e.outbox[i] = one
      /\ e.outbox[L + n + 1] = res
    BY <1>a DEF Lengthens
<1>1. RunsIn(e) = {} /\ ResultsIn(d) = {}
    <2>1. d.job # None /\ RunsIn(e) = RunsIn(d)
        BY NoneFacts DEF RunsIn
    <2> QED BY <2>1 DEF Sound, OneRun
<1>2. \A i \in 1 .. L : d.outbox[i].type # "result" /\ ~IsChunk(d.outbox[i], r)
    <2>1. d.job # None
        BY NoneFacts
    <2>2. \A i \in 1 .. L : ~IsChunk(d.outbox[i], r)
        BY <1>a, <2>1 DEF Sound, Collecting
    <2>3. \A i \in 1 .. L : d.outbox[i].type # "result"
        BY <1>a, <1>1 DEF ResultsIn
    <2> QED BY <2>2, <2>3
<1>3. ResultsIn(e) = {L + n + 1}
    <2>1. ASSUME NEW i \in 1 .. L + n + 1, e.outbox[i].type = "result" PROVE i = L + n + 1
        <3>1. i \notin 1 .. L
            BY <1>a, <1>b, <1>2, <2>1
        <3>2. i \notin L + 1 .. L + n
            BY <1>a, <1>b, <2>1
        <3> QED BY <1>a, <3>1, <3>2
    <2>2. L + n + 1 \in 1 .. Len(e.outbox) /\ e.outbox[L + n + 1].type = "result"
        BY <1>a, <1>b
    <2>3. \A i \in ResultsIn(e) : i = L + n + 1
        BY <1>b, <2>1 DEF ResultsIn
    <2>4. L + n + 1 \in ResultsIn(e)
        BY <2>2 DEF ResultsIn
    <2> QED BY <2>3, <2>4
<1>4. OneRun(e) /\ Its(e, r) /\ Admits(e)
    BY <1>a, <1>b, <1>1, <1>3, NoneFacts DEF OneRun, Its, Admits
<1>5. ASSUME NEW j \in 1 .. Len(e.outbox)
       PROVE  IsChunk(e.outbox[j], r) <=> (L + n + 1) - (p.parts - p.got) <= j /\ j < L + n + 1
    <2>1. CASE j \in 1 .. L
        <3>1. e.outbox[j] = d.outbox[j] /\ ~IsChunk(d.outbox[j], r)
            BY <1>a, <1>b, <1>2, <2>1
        <3>2. (L + n + 1) - (p.parts - p.got) = L + 1
            BY <1>a
        <3> QED BY <1>a, <2>1, <3>1, <3>2
    <2>2. CASE j \in L + 1 .. L + n
        BY <1>a, <1>b, <2>2 DEF IsChunk
    <2>3. CASE j = L + n + 1
        BY <1>a, <1>b, <2>3 DEF IsChunk
    <2> QED BY <1>a, <1>b, <2>1, <2>2, <2>3
<1>6. Collecting(e, r, p)
    BY <1>a, <1>b, <1>1, <1>3, <1>5 DEF Collecting
<1> QED BY <1>1, <1>4, <1>6 DEF Sound

\* The child dies; what it wrote is read up to some message.
LEMMA Dies ==
    ASSUME NEW d \in Child, NEW e, NEW a, NEW q, NEW kept \in 0 .. Len(d.outbox),
           e.outbox = SubSeq(d.outbox, 1, kept), e.inbox = <<>>, e.job = None,
           e.state = "dead", Sound(d, a, q), a # None => q.got \in Nat /\ q.parts \in Nat
    PROVE  Sound(e, a, q)
<1>0. /\ Len(e.outbox) = kept /\ Len(d.outbox) \in Nat /\ kept \in Nat /\ kept <= Len(d.outbox)
      /\ \A i \in 1 .. kept : e.outbox[i] = d.outbox[i]
    <2>1. d.outbox \in Seq(Envelope)
        BY DEF Child
    <2>2. kept \in Int /\ 1 \in Int /\ \A i \in 1 .. kept : d.outbox[i] \in Envelope
        BY <2>1
    <2>3. /\ Len(e.outbox) = IF 1 <= kept THEN kept - 1 + 1 ELSE 0
          /\ \A i \in 1 .. kept - 1 + 1 : e.outbox[i] = d.outbox[1 + i - 1]
        BY <2>2, SubSeqProperties
    <2> QED BY <2>1, <2>3
<1>1. RunsIn(e) = {} /\ \A i \in ResultsIn(e) : i \in ResultsIn(d) /\ e.outbox[i] = d.outbox[i]
    BY <1>0 DEF RunsIn, ResultsIn
<1>2. OneRun(e) /\ Its(e, a) /\ Admits(e)
    BY ZenonT(60), <1>1 DEF Sound, OneRun, Its, Admits
<1>3. Collecting(e, a, q)
    BY <1>0, <1>1 DEF Sound, Collecting
<1> QED BY <1>2, <1>3 DEF Sound

\* The next message, no result, is read: a chunk is collected.
LEMMA Reads ==
    ASSUME NEW d \in Child, NEW e, NEW a, NEW q, NEW p, NEW m,
           d.outbox # <<>>, m = Head(d.outbox), m.type # "result",
           e.outbox = Tail(d.outbox), e.inbox = d.inbox, e.job = d.job,
           e.soiled = d.soiled, e.state = d.state,
           q.got \in Nat, q.parts \in Nat, p.parts = q.parts,
           IsChunk(m, a) => p.got = q.got + 1, ~IsChunk(m, a) => p.got = q.got,
           Sound(d, a, q)
    PROVE  Sound(e, a, p)
<1>0. /\ d.outbox \in Seq(Envelope) /\ m = d.outbox[1] /\ 1 \in 1 .. Len(d.outbox)
      /\ Len(e.outbox) = Len(d.outbox) - 1 /\ Len(d.outbox) \in Nat
      /\ \A i \in 1 .. Len(e.outbox) : e.outbox[i] = d.outbox[i + 1]
    <2>1. d.outbox \in Seq(Envelope)
        BY DEF Child
    <2> QED BY <2>1, HeadTailProperties
<1>1. RunsIn(e) = RunsIn(d)
    BY DEF RunsIn
<1>2. \A i \in ResultsIn(e) :
        i + 1 \in ResultsIn(d) /\ i \in 1 .. Len(e.outbox) /\ e.outbox[i] = d.outbox[i + 1]
    BY <1>0 DEF ResultsIn
<1>3. \A i \in ResultsIn(d) : i \in Nat /\ i # 1 /\ i - 1 \in ResultsIn(e) /\ e.outbox[i - 1] = d.outbox[i]
    BY <1>0 DEF ResultsIn
<1>4. OneRun(e)
    <2>1. \A i, j \in ResultsIn(e) : i = j
        <3> SUFFICES ASSUME NEW i \in ResultsIn(e), NEW j \in ResultsIn(e) PROVE i = j
            OBVIOUS
        <3>1. i + 1 = j + 1 /\ i \in Int /\ j \in Int
            BY <1>2 DEF Sound, OneRun
        <3> QED BY <3>1
    <2>2. ResultsIn(d) = {} => ResultsIn(e) = {}
        BY <1>2
    <2> QED BY <1>1, <2>1, <2>2 DEF Sound, OneRun
<1>5. Its(e, a)
    BY <1>1, <1>2 DEF Sound, Its
<1>6. Admits(e)
    <2>1. \A i \in ResultsIn(d) : d.outbox[i].mark = "dirty" =>
            \E j \in ResultsIn(e) : e.outbox[j].mark = "dirty"
        BY <1>3
    <2> QED BY <2>1 DEF Sound, Admits
<1>7. ASSUME RunsIn(e) # {} \/ e.job # None
      PROVE  p.got = 0 /\ \A i \in 1 .. Len(e.outbox) : ~IsChunk(e.outbox[i], a)
    <2>1. q.got = 0 /\ \A i \in 1 .. Len(d.outbox) : ~IsChunk(d.outbox[i], a)
        BY <1>1, <1>7 DEF Sound, Collecting
    <2>2. \A i \in 1 .. Len(e.outbox) : i + 1 \in 1 .. Len(d.outbox)
        BY <1>0
    <2>3. ~IsChunk(m, a)
        BY <1>0, <2>1
    <2> QED BY <1>0, <2>1, <2>2, <2>3
<1>8. ASSUME NEW i \in ResultsIn(e)
      PROVE  /\ p.got <= p.parts /\ p.parts - p.got < i
             /\ \A j \in 1 .. Len(e.outbox) :
                  IsChunk(e.outbox[j], a) <=> i - (p.parts - p.got) <= j /\ j < i
    <2>1. i \in Nat /\ i >= 1
        BY <1>0, <1>2, <1>8
    <2>2. PICK left \in Int : left = q.parts - q.got
        OBVIOUS
    <2>3. /\ 0 <= left /\ left < i + 1
          /\ \A j \in 1 .. Len(d.outbox) :
               IsChunk(d.outbox[j], a) <=> (i + 1) - left <= j /\ j < i + 1
        <3>1. i + 1 \in ResultsIn(d)
            BY <1>2, <1>8
        <3>2. /\ q.got <= q.parts /\ q.parts - q.got < i + 1
              /\ \A j \in 1 .. Len(d.outbox) :
                   IsChunk(d.outbox[j], a) <=> (i + 1) - (q.parts - q.got) <= j /\ j < i + 1
            BY <3>1 DEF Sound, Collecting
        <3> QED BY <2>2, <3>2
    <2>4. IsChunk(m, a) <=> (i + 1) - left <= 1 /\ 1 < i + 1
        BY <1>0, <2>3
    <2>5. ASSUME NEW j \in 1 .. Len(e.outbox)
          PROVE  IsChunk(e.outbox[j], a) <=> i - left <= j /\ j < i
        <3>1. j + 1 \in 1 .. Len(d.outbox) /\ e.outbox[j] = d.outbox[j + 1]
            BY <1>0
        <3>2. IsChunk(d.outbox[j + 1], a) <=> (i + 1) - left <= j + 1 /\ j + 1 < i + 1
            BY <2>3, <3>1
        <3> QED BY <2>1, <3>1, <3>2
    <2>6. CASE IsChunk(m, a)
        <3>1. left = i /\ p.parts - p.got = left - 1
            BY <2>1, <2>2, <2>3, <2>4, <2>6
        <3>2. p.got <= p.parts /\ p.parts - p.got < i
            BY <2>1, <2>2, <2>6, <3>1
        <3>3. ASSUME NEW j \in 1 .. Len(e.outbox)
              PROVE  IsChunk(e.outbox[j], a) <=> i - (p.parts - p.got) <= j /\ j < i
            <4>1. i - (p.parts - p.got) = 1 /\ i - left = 0 /\ j >= 1 /\ j \in Nat
                BY <1>0, <2>1, <3>1
            <4>2. (i - left <= j) /\ (i - (p.parts - p.got) <= j)
                BY <4>1
            <4> QED BY <2>5, <4>2
        <3> QED BY <3>2, <3>3
    <2>7. CASE ~IsChunk(m, a)
        <3>1. p.got = q.got
            BY <2>7
        <3>2. p.parts - p.got = left /\ p.got <= p.parts /\ left < i
            BY <2>1, <2>2, <2>3, <2>4, <2>7, <3>1
        <3> QED BY <2>5, <3>2
    <2> QED BY <2>6, <2>7
<1> QED BY <1>4, <1>5, <1>6, <1>7, <1>8 DEF Sound, Collecting

\* The result is read: it is the active run's, all of whose chunks were read.
LEMMA ReadsResult ==
    ASSUME NEW d \in Child, NEW e, NEW a, NEW q, NEW m,
           d.outbox # <<>>, m = Head(d.outbox), m.type = "result",
           e.outbox = Tail(d.outbox), e.inbox = d.inbox, e.job = d.job,
           q.got \in Nat, q.parts \in Nat, Sound(d, a, q)
    PROVE  /\ m.job = a /\ a # None /\ q.got = q.parts
           /\ Idle(e)
           /\ d.soiled => d.state = "dead" \/ m.mark = "dirty"
<1>0. /\ d.outbox \in Seq(Envelope) /\ m = d.outbox[1] /\ 1 \in 1 .. Len(d.outbox)
      /\ Len(e.outbox) = Len(d.outbox) - 1 /\ Len(d.outbox) \in Nat
      /\ \A i \in 1 .. Len(e.outbox) : e.outbox[i] = d.outbox[i + 1]
    <2>1. d.outbox \in Seq(Envelope)
        BY DEF Child
    <2> QED BY <2>1, HeadTailProperties
<1>1. 1 \in ResultsIn(d)
    BY <1>0 DEF ResultsIn
<1>2. ResultsIn(d) = {1} /\ RunsIn(d) = {} /\ d.job = None
    BY <1>1 DEF Sound, OneRun
<1>3. m.job = a /\ a # None
    BY <1>0, <1>1 DEF Sound, Its
<1>4. q.got = q.parts
    <2>1. q.got <= q.parts /\ q.parts - q.got < 1
        BY <1>1 DEF Sound, Collecting
    <2> QED BY <2>1
<1>5. ResultsIn(e) = {}
    <2> SUFFICES ASSUME NEW i \in 1 .. Len(e.outbox), e.outbox[i].type = "result" PROVE FALSE
        BY DEF ResultsIn
    <2>1. i + 1 \in ResultsIn(d) /\ i \in Nat /\ i # 0
        BY <1>0 DEF ResultsIn
    <2>2. i + 1 = 1
        BY <1>2, <2>1
    <2> QED BY <2>1, <2>2
<1>6. Idle(e)
    <2>1. RunsIn(e) = RunsIn(d)
        BY DEF RunsIn
    <2> QED BY <1>2, <1>5, <2>1 DEF Idle
<1>7. d.soiled => d.state = "dead" \/ m.mark = "dirty"
    BY <1>0, <1>2 DEF Sound, Admits
<1> QED BY <1>3, <1>4, <1>6, <1>7

-----------------------------------------------------------------------------
(* Steps with which nothing passes between the pool and a child: children are *)
(* let go, forked or heard of otherwise.                                      *)

\* A child that was let go stays that, and is gone only when it is seen to be.
Goner(d, e) ==
    /\ d.retired => e.retired
    /\ d.finished => e.finished
    /\ Buried(d) => Buried(e)

Spared(d, e) == SameChannel(d, e) /\ e.slot = d.slot /\ Goner(d, e)

Fresh(d) ==
    /\ d.inbox = <<>> /\ d.outbox = <<>> /\ d.job = None
    /\ ~d.soiled /\ ~d.overlapped /\ ~d.finished

Goes(q, p) ==
    /\ Answered(q) => Answered(p)
    /\ q.run \in {"running", "ended"} => p.run \in {"running", "ended"}
    /\ p.run = "running" => p.got = q.got /\ p.parts = q.parts

Gentle ==
    /\ \A c \in Children : Spared(child[c], child'[c]) \/ (pool = "open" /\ Fresh(child'[c]))
    /\ \A s \in Slots : slot'[s].child # None => slot'[s].active = slot[s].active
    /\ \A r \in Requests : Goes(req[r], req'[r])

LEMMA FreshFacts ==
    ASSUME NEW d, NEW a, NEW q, Fresh(d)
    PROVE  Idle(d) /\ Sound(d, a, q) /\ Fit(d) /\ Still(d)
<1>1. RunsIn(d) = {} /\ ResultsIn(d) = {}
    BY DEF Fresh, RunsIn, ResultsIn
<1>2. Idle(d)
    BY <1>1 DEF Fresh, Idle
<1>3. Sound(d, a, q)
    BY <1>2, IdleSound DEF Fresh
<1> QED BY <1>1, <1>2, <1>3 DEF Fresh, Fit, Still

LEMMA UnbornFresh == Fresh(Unborn)
BY DEF Unborn, Fresh

LEMMA GentleKeeps ==
    ASSUME IInv, IInv', Channel, Answers, Gentle
    PROVE  Channel' /\ Answers'
<1>1. ASSUME NEW c \in Children, ~child'[c].retired
      PROVE  Sound(child'[c], Active(c)', req'[Active(c)'])
    <2>1. CASE Fresh(child'[c])
        BY <2>1, FreshFacts
    <2>2. CASE ~Fresh(child'[c])
        <3>1. Spared(child[c], child'[c])
            BY <2>2 DEF Gentle
        <3>2. c <= spawned /\ c <= spawned' /\ c \in 1 .. spawned'
            <4>1. child'[c] # Unborn
                BY <2>2, UnbornFresh
            <4>2. child[c] # Unborn
                <5> SUFFICES ASSUME child[c] = Unborn PROVE FALSE
                    OBVIOUS
                <5>1. Fresh(child[c])
                    BY UnbornFresh
                <5>2. Fresh(child'[c])
                    <6>1. child'[c].finished => child'[c].retired
                    BY <3>1, <5>1 DEF Spared, Goner, Buried, Fresh
                <6> QED BY <1>1, <3>1, <5>1, <6>1 DEF Spared, SameChannel, Fresh
                <5> QED BY <2>2, <5>2
            <4>3. spawned \in Nat /\ spawned' \in Nat /\ c \in Nat /\ c >= 1
                BY BoundsNatural DEF IInv, TypeOK, Children
            <4> QED BY <4>1, <4>2, <4>3 DEF IInv, Forked
        <3>3. PICK s \in Slots : s = child[c].slot /\ s = child'[c].slot
            BY <3>1, <3>2 DEF IInv, Forked, Spared
        <3>4. slot'[s].child = c /\ c # None
            BY <1>1, <3>2, <3>3, NoneFacts DEF IInv, NoOrphan
        <3>5. PICK a : a = slot[s].active /\ a = slot'[s].active
            BY <3>4 DEF Gentle
        <3>6. Active(c) = a /\ Active(c)' = a
            BY <3>3, <3>5 DEF Active
        <3>7. a # None => req'[a].got = req[a].got /\ req'[a].parts = req[a].parts
            <4> SUFFICES ASSUME a # None PROVE req'[a].got = req[a].got /\ req'[a].parts = req[a].parts
                OBVIOUS
            <4>1. slot[s] \in ChildSlot
                BY DEF IInv, TypeOK
            <4>2. a \in Requests
                BY <3>5, <4>1 DEF ChildSlot
            <4>3. req'[a].run = "running"
                BY <3>5 DEF IInv, ActiveOwned
            <4> QED BY <4>2, <4>3 DEF Gentle, Goes
        <3>8. Sound(child[c], a, req[a])
            BY <1>1, <3>1, <3>6 DEF Channel, Spared, Goner
        <3>9. Sound(child'[c], a, req'[a])
            <4>1. SameChannel(child[c], child'[c])
                BY <3>1 DEF Spared
            <4> QED BY <3>7, <3>8, <4>1, SameSound
        <3> QED BY <3>6, <3>9
    <2> QED BY <2>1, <2>2
<1>2. ASSUME NEW c \in Children PROVE Fit(child'[c]) /\ Still(child'[c])
    <2>1. CASE Fresh(child'[c])
        BY <2>1, FreshFacts
    <2>2. CASE Spared(child[c], child'[c])
        <3>1. SameChannel(child[c], child'[c]) /\ Fit(child[c]) /\ Still(child[c])
            BY <2>2 DEF Spared, Channel
        <3> QED BY <3>1, SameFit
    <2> QED BY <2>1, <2>2 DEF Gentle
<1>3. Channel'
    BY <1>1, <1>2 DEF Channel
<1>4. ASSUME NEW c \in Children PROVE Begun(child[c])'
    <2>1. CASE Fresh(child'[c])
        BY <2>1 DEF Fresh, Begun
    <2>2. CASE Spared(child[c], child'[c])
        <3>1. child'[c].outbox = child[c].outbox /\ Begun(child[c])
            BY <2>2 DEF Spared, SameChannel, Answers
        <3> QED BY <3>1 DEF Begun, Gentle, Goes
    <2> QED BY <2>1, <2>2 DEF Gentle
<1>5. Answers'
    BY <1>4 DEF Answers, Gentle, Goes
<1> QED BY <1>3, <1>5

\* A request that ends, or changes in what its answer does not depend on.
LEMMA EndedGoes ==
    ASSUME NEW q \in Request
    PROVE  Goes(q, Ended(q, "failed")) /\ Goes(q, q)
<1>1. Ended(q, "failed").run = "ended" /\ Ended(q, "failed").answer = "failed"
    BY EndedFacts
<1> QED BY <1>1 DEF Goes, Answered

LEMMA SameGoes ==
    ASSUME NEW q, NEW p, p.run = q.run, p.got = q.got, p.parts = q.parts,
           p.answer = q.answer \/ p.answer # "result"
    PROVE  Goes(q, p)
BY DEF Goes, Answered

LEMMA StartsGoes ==
    ASSUME NEW q, NEW p, q.run \in {"none", "restarting"}, p.run \in {"restarting", "starting"},
           p.got = q.got, p.answer = q.answer
    PROVE  Goes(q, p)
BY DEF Goes, Answered

\* One request goes on, the others do not change.
LEMMA OneGoes ==
    ASSUME IInv, NEW r \in Requests, NEW p, req' = [req EXCEPT ![r] = p], Goes(req[r], p)
    PROVE  \A q \in Requests : Goes(req[q], req'[q])
<1>1. req \in [Requests -> Request]
    BY DEF IInv, TypeOK
<1>2. req'[r] = p /\ \A q \in Requests : q # r => req'[q] = req[q]
    BY <1>1
<1>3. \A q \in Requests : Goes(req[q], req[q])
    BY <1>1, EndedGoes
<1> QED BY <1>2, <1>3

LEMMA SomeEnd ==
    ASSUME IInv, \A r \in Requests : req'[r] = req[r] \/ req'[r] = Ended(req[r], "failed")
    PROVE  \A q \in Requests : Goes(req[q], req'[q])
<1>1. \A r \in Requests : Goes(req[r], Ended(req[r], "failed")) /\ Goes(req[r], req[r])
    BY EndedGoes DEF IInv, TypeOK
<1> QED BY <1>1

LEMMA OneEnds ==
    ASSUME IInv, NEW r \in Requests, req' = [req EXCEPT ![r] = Ended(@, "failed")]
    PROVE  \A q \in Requests : Goes(req[q], req'[q])
<1>1. \A q \in Requests : req'[q] = req[q] \/ req'[q] = Ended(req[q], "failed")
    BY DEF IInv, TypeOK
<1> QED BY <1>1, SomeEnd

\* A child that is let go.
LEMMA RetiredSpared ==
    ASSUME NEW d \in Child
    PROVE  /\ Spared(d, Retired(d)) /\ Spared(d, d)
           /\ Spared(d, [Retired(d) EXCEPT !.ready = d.ready])
<1>1. /\ Retired(d) \in Child /\ Retired(d).retired
      /\ Retired(d).inbox = d.inbox /\ Retired(d).outbox = d.outbox /\ Retired(d).job = d.job
      /\ Retired(d).soiled = d.soiled /\ Retired(d).overlapped = d.overlapped
      /\ Retired(d).state = d.state /\ Retired(d).slot = d.slot
    BY DEF Retired, Child
<1>2. Goner(d, Retired(d))
    BY DEF Goner, Buried, Retired, Child
<1>3. [Retired(d) EXCEPT !.ready = d.ready] \in Child
    BY <1>1 DEF Child
<1>4. Spared(d, Retired(d)) /\ Spared(d, d)
    BY <1>1, <1>2 DEF Spared, SameChannel, Goner
<1>5. Goner(d, [Retired(d) EXCEPT !.ready = d.ready])
    BY <1>1, <1>2 DEF Goner, Buried, Child
<1>6. SameChannel(d, [Retired(d) EXCEPT !.ready = d.ready])
    BY <1>1 DEF SameChannel, Child
<1>7. [Retired(d) EXCEPT !.ready = d.ready].slot = d.slot
    BY <1>1 DEF Child
<1> QED BY <1>4, <1>5, <1>6, <1>7 DEF Spared

LEMMA RecycledSpared ==
    ASSUME IInv, NEW s \in Slots
    PROVE  \A c \in Children : Spared(child[c], Recycled(s)[c])
<1>1. \A c \in Children : Recycled(s)[c] = IF c = slot[s].child THEN Retired(child[c]) ELSE child[c]
    BY DEF Recycled
<1>2. \A c \in Children : Spared(child[c], Retired(child[c])) /\ Spared(child[c], child[c])
    BY RetiredSpared DEF IInv, TypeOK
<1> QED BY <1>1, <1>2

LEMMA OneSpared ==
    ASSUME IInv, NEW c \in Children, NEW d, child' = [child EXCEPT ![c] = d], Spared(child[c], d)
    PROVE  \A e \in Children : Spared(child[e], child'[e])
<1>1. child \in [Children -> Child]
    BY DEF IInv, TypeOK
<1>2. child'[c] = d /\ \A e \in Children : e # c => child'[e] = child[e]
    BY <1>1
<1>3. \A e \in Children : Spared(child[e], child[e])
    BY <1>1, RetiredSpared
<1> QED BY <1>2, <1>3

LEMMA AllSpared == IInv /\ UNCHANGED child => \A e \in Children : Spared(child[e], child'[e])
BY RetiredSpared DEF IInv, TypeOK

LEMMA ReapedKeeps ==
    ASSUME Reaped, pool' = pool, UNCHANGED awaited, pool # "open" => spawned' = spawned,
           \A c \in Children : \/ Goner(child[c], child'[c])
                               \/ pool = "open" /\ ~child'[c].finished,
           spawned \in 0 .. MaxChildren
    PROVE  Reaped'
<1>1. \A c \in Children : Buried(child'[c])
    BY DEF Reaped, Goner, Buried
<1>2. \A c \in 1 .. spawned : c \in Children
    BY BoundsNatural DEF Children
<1> QED BY <1>1, <1>2 DEF Reaped, Goner

-----------------------------------------------------------------------------
(* Leases and runs, when no child hears of them. *)

LEMMA SlotsSame == IInv /\ UNCHANGED slot => \A s \in Slots : slot'[s].child # None => slot'[s].active = slot[s].active
OBVIOUS

\* A slot that loses its child and its run.
LEMMA SlotLoses ==
    ASSUME IInv, NEW s \in Slots, NEW sl, slot' = [slot EXCEPT ![s] = sl],
           sl.child = None \/ sl.active = slot[s].active
    PROVE  \A t \in Slots : slot'[t].child # None => slot'[t].active = slot[t].active
BY DEF IInv, TypeOK

LEMMA LeasesGentle ==
    ASSUME IInv, NEW r \in Requests, Grant(r) \/ Lease(r) \/ Release(r)
    PROVE  Gentle
<1>1. req[r] \in Request /\ req \in [Requests -> Request] /\ \A s \in Slots : slot[s] \in ChildSlot
    BY DEF IInv, TypeOK
<1>2. CASE Grant(r)
    <2>1. req' = [req EXCEPT ![r] = [req[r] EXCEPT !.lease = "granted"]]
        BY <1>2 DEF Grant
    <2>2. Goes(req[r], [req[r] EXCEPT !.lease = "granted"])
        BY <1>1, SameGoes DEF Request
    <2> QED BY <1>2, <2>1, <2>2, OneGoes, AllSpared, SlotsSame DEF Grant, Gentle
<1>3. CASE Lease(r)
    <2>1. PICK p : req' = [req EXCEPT ![r] = p] /\ Goes(req[r], p)
        <3>1. CASE available # <<>>
            <4>1. req' = [req EXCEPT ![r] = [req[r] EXCEPT !.lease = "held", !.slot = Head(available)]]
                BY <1>3, <3>1 DEF Lease
            <4>2. PICK p : p = [req[r] EXCEPT !.lease = "held", !.slot = Head(available)]
                OBVIOUS
            <4>3. p.run = req[r].run /\ p.got = req[r].got /\ p.parts = req[r].parts /\ p.answer = req[r].answer
                BY <1>1, <4>2 DEF Request
            <4>4. Goes(req[r], p)
                BY <4>3, SameGoes
            <4> QED BY <4>1, <4>2, <4>4
        <3>2. CASE available = <<>>
            <4>1. req' = [req EXCEPT ![r] = [req[r] EXCEPT !.lease = "released", !.answer = "noSlot"]]
                BY <1>3, <3>2 DEF Lease
            <4>2. PICK p : p = [req[r] EXCEPT !.lease = "released", !.answer = "noSlot"]
                OBVIOUS
            <4>3. p.run = req[r].run /\ p.got = req[r].got /\ p.parts = req[r].parts /\ p.answer = "noSlot"
                BY <1>1, <4>2 DEF Request
            <4>4. Goes(req[r], p)
                BY <4>3, SameGoes
            <4> QED BY <4>1, <4>2, <4>4
        <3> QED BY <3>1, <3>2
    <2> QED BY <1>3, <2>1, OneGoes, AllSpared, SlotsSame DEF Lease, Gentle
<1>4. CASE Release(r)
    <2> DEFINE s == req[r].slot
    <2>1. s \in Slots
        BY <1>4, OwnSlot DEF Release
    <2>2. Goes(req[r], Released(req[r]))
        <3>1. CASE req[r].run \in Underway
            <4>1. /\ Ended(req[r], "failed") \in Request /\ Ended(req[r], "failed").run = "ended"
                  /\ Ended(req[r], "failed").answer = "failed"
                BY <1>1, EndedFacts
            <4>2. /\ Released(req[r]).run = "ended" /\ Released(req[r]).answer = "failed"
                BY <3>1, <4>1 DEF Released, Request
            <4> QED BY <4>2 DEF Goes, Answered
        <3>2. CASE req[r].run \notin Underway
            BY <1>1, <3>2, SameGoes DEF Released, Request
        <3> QED BY <3>1, <3>2
    <2>3. \A q \in Requests : Goes(req[q], req'[q])
        BY <1>4, <2>2, OneGoes DEF Release
    <2>4. CASE slot[s].active # None
        <3>1. child' = Recycled(s) /\ slot' = [slot EXCEPT ![s] = Vacant(slot[s])]
            BY <1>4, <2>4 DEF Release
        <3>2. Vacant(slot[s]).child = None
            BY <1>1, <2>1, VacantFacts
        <3>3. \A t \in Slots : slot'[t].child # None => slot'[t].active = slot[t].active
            BY <2>1, <3>1, <3>2, SlotLoses
        <3>4. \A c \in Children : Spared(child[c], child'[c])
            BY <2>1, <3>1, RecycledSpared
        <3> QED BY <2>3, <3>3, <3>4 DEF Gentle
    <2>5. CASE slot[s].active = None
        <3>1. UNCHANGED <<child, slot>>
            BY <1>4, <2>5 DEF Release
        <3> QED BY <2>3, <3>1, AllSpared, SlotsSame DEF Gentle
    <2> QED BY <2>4, <2>5
<1> QED BY <1>2, <1>3, <1>4

LEMMA ForkFresh ==
    ASSUME IInv, NEW r \in Requests, NEW s, NEW children, NEW sl, Fork(r, s, children, sl),
           children \in [Children -> Child],
           \A c \in Children : Spared(child[c], children[c])
    PROVE  \A c \in Children : Spared(child[c], child'[c]) \/ Fresh(child'[c])
<1>1. spawned + 1 \in Children
    BY BoundsNatural DEF Fork, IInv, TypeOK, Children
<1>2. PICK d : d = [Unborn EXCEPT !.slot = s, !.connected = TRUE, !.state = "loading"]
    OBVIOUS
<1>3. Fresh(d)
    BY <1>2 DEF Unborn, Fresh
<1>4. child' = [children EXCEPT ![spawned + 1] = d]
    BY <1>2 DEF Fork
<1> QED BY <1>1, <1>3, <1>4

LEMMA ExecuteGentle == ASSUME IInv, NEW r \in Requests, Execute(r) PROVE Gentle
<1> DEFINE s == req[r].slot
<1>1. /\ s \in Slots /\ req[r].run = "none" /\ req[r] \in Request
      /\ child \in [Children -> Child] /\ slot[s] \in ChildSlot
    BY OwnSlot DEF Execute, IInv, TypeOK
<1>2. CASE Refused(r)
    <2>1. req' = [req EXCEPT ![r] = Ended(@, "failed")] /\ UNCHANGED <<slot, child>>
        BY <1>2 DEF Refused
    <2> QED BY <2>1, OneEnds, AllSpared, SlotsSame DEF Gentle
<1>3. ASSUME NEW run \in {"restarting", "starting"}, NEW c,
             req' = [req EXCEPT ![r].run = run, ![r].child = c]
      PROVE  \A q \in Requests : Goes(req[q], req'[q])
    <2>1. req' = [req EXCEPT ![r] = [req[r] EXCEPT !.run = run, !.child = c]]
        BY <1>3
    <2>2. Goes(req[r], [req[r] EXCEPT !.run = run, !.child = c])
        <3>1. PICK p : p = [req[r] EXCEPT !.run = run, !.child = c]
            OBVIOUS
        <3>2. p.run = run /\ p.got = req[r].got /\ p.answer = req[r].answer
            BY <1>1, <3>1 DEF Request
        <3>3. Goes(req[r], p)
            BY <1>1, <3>2, StartsGoes
        <3> QED BY <3>1, <3>3
    <2> QED BY <2>1, <2>2, OneGoes
<1>4. CASE UseWarmChild(r, s)
    <2>1. \A q \in Requests : Goes(req[q], req'[q])
        <3>1. req' = [req EXCEPT ![r].run = "starting", ![r].child = slot[s].child]
            BY <1>4 DEF UseWarmChild
        <3> HIDE DEF s
        <3> QED BY <1>3, <3>1
    <2>2. UNCHANGED <<slot, child>>
        BY <1>4 DEF UseWarmChild
    <2> QED BY <2>1, <2>2, AllSpared, SlotsSame DEF Gentle
<1>5. CASE pool = "open" /\ ReplaceChild(r, s)
    <2> DEFINE c == slot[s].child
               children == IF c = None THEN child
                           ELSE [child EXCEPT ![c] = [Retired(@) EXCEPT !.ready = child[c].ready]]
    <2>1. /\ children \in [Children -> Child]
          /\ \A d \in Children : Spared(child[d], children[d])
        <3>1. \A d \in Children : children[d] = IF d = c THEN [Retired(child[d]) EXCEPT !.ready = child[d].ready]
                                                ELSE child[d]
            BY <1>1, NoneFacts
        <3>2. \A d \in Children : /\ Spared(child[d], [Retired(child[d]) EXCEPT !.ready = child[d].ready])
                                  /\ Spared(child[d], child[d])
                                  /\ [Retired(child[d]) EXCEPT !.ready = child[d].ready] \in Child
            BY <1>1, RetiredSpared, QuietlyRetiredFacts
        <3>3. children = [d \in Children |-> children[d]]
            BY <1>1
        <3> HIDE DEF children
        <3>4. \A d \in Children : children[d] \in Child
            BY <1>1, <3>1, <3>2
        <3> QED BY <3>1, <3>2, <3>3, <3>4
    <2>2. PICK later \in BOOLEAN :
            LET sl == [slot[s] EXCEPT !.child = None, !.crashes = 0, !.holding = later] IN
            \/ Fork(r, s, children, sl)
            \/ /\ child' = children
               /\ slot' = [slot EXCEPT ![s] = sl]
               /\ req' = [req EXCEPT ![r].run = "restarting"]
        BY <1>5 DEF ReplaceChild
    <2> HIDE DEF children
    <2>3. PICK sl : sl = [slot[s] EXCEPT !.child = None, !.crashes = 0, !.holding = later]
        OBVIOUS
    <2>4. sl.child = None /\ sl.active = slot[s].active
        BY <1>1, <2>3 DEF ChildSlot
    <2>5. CASE Fork(r, s, children, sl)
        <3>1. \A d \in Children : Spared(child[d], child'[d]) \/ Fresh(child'[d])
            BY <2>1, <2>5, ForkFresh
        <3>2. req' = [req EXCEPT ![r].run = "starting", ![r].child = spawned + 1]
            BY <2>5 DEF Fork
        <3>3. \A q \in Requests : Goes(req[q], req'[q])
            BY <1>3, <3>2
        <3>4. PICK sm : sm = [sl EXCEPT !.child = spawned + 1]
            OBVIOUS
        <3>5. slot' = [slot EXCEPT ![s] = sm] /\ sm.active = slot[s].active
            BY <1>1, <2>3, <2>4, <2>5, <3>4 DEF Fork, ChildSlot
        <3>6. \A t \in Slots : slot'[t].child # None => slot'[t].active = slot[t].active
            BY <1>1, <3>5, SlotLoses
        <3> QED BY <1>5, <3>1, <3>3, <3>6 DEF Gentle
    <2>6. CASE /\ child' = children
               /\ slot' = [slot EXCEPT ![s] = sl]
               /\ req' = [req EXCEPT ![r].run = "restarting"]
        <3>1. \A t \in Slots : slot'[t].child # None => slot'[t].active = slot[t].active
            BY <1>1, <2>4, <2>6, SlotLoses
        <3>2. req' = [req EXCEPT ![r].run = "restarting", ![r].child = req[r].child]
            BY <1>1, <2>6 DEF Request, IInv, TypeOK
        <3>3. \A q \in Requests : Goes(req[q], req'[q])
            BY <1>3, <3>2
        <3> QED BY <2>1, <2>6, <3>1, <3>3 DEF Gentle
    <2> QED BY <2>2, <2>3, <2>5, <2>6
<1> QED BY <1>2, <1>4, <1>5 DEF Execute

LEMMA RunsGentle ==
    ASSUME IInv, NEW r \in Requests,
           Restart(r) \/ StartFails(r) \/ Abort(r) \/ Interrupt(r) \/ Deadline(r)
    PROVE  Gentle
<1> DEFINE s == req[r].slot
<1>1. req[r] \in Request /\ req \in [Requests -> Request] /\ \A t \in Slots : slot[t] \in ChildSlot
    BY DEF IInv, TypeOK
<1>2. ASSUME req[r].run \in Underway PROVE req[r].lease = "held" /\ s \in Slots
    BY <1>2, OwnSlot DEF IInv, Leased
<1>3. CASE req' = [req EXCEPT ![r] = Ended(@, "failed")] /\ UNCHANGED <<slot, child>>
    BY <1>3, OneEnds, AllSpared, SlotsSame DEF Gentle
<1>4. ASSUME req[r].run \in Underway, EndRun(r) PROVE Gentle
    <2>1. \A q \in Requests : Goes(req[q], req'[q])
        BY <1>4, OneEnds DEF EndRun
    <2>2. CASE child' = Recycled(s) /\ slot' = [slot EXCEPT ![s] = Vacant(slot[s])]
        <3>1. Vacant(slot[s]).child = None
            BY <1>1, <1>2, <1>4, VacantFacts
        <3>2. \A t \in Slots : slot'[t].child # None => slot'[t].active = slot[t].active
            BY <1>2, <1>4, <2>2, <3>1, SlotLoses
        <3>3. \A c \in Children : Spared(child[c], child'[c])
            BY <1>2, <1>4, <2>2, RecycledSpared
        <3> QED BY <2>1, <3>2, <3>3 DEF Gentle
    <2>3. CASE UNCHANGED <<child, slot>>
        BY <2>1, <2>3, AllSpared, SlotsSame DEF Gentle
    <2> QED BY <1>4, <2>2, <2>3 DEF EndRun
<1>5. CASE Restart(r)
    <2>1. CASE Refused(r)
        BY <1>3, <2>1 DEF Refused
    <2>2. CASE pool = "open" /\ Fork(r, s, child, slot[s])
        <3>1. req[r].run = "restarting" /\ s \in Slots
            BY <1>2, <1>5 DEF Restart, Underway
        <3>2. \A d \in Children : Spared(child[d], child'[d]) \/ Fresh(child'[d])
            <4>1. child \in [Children -> Child] /\ \A d \in Children : Spared(child[d], child[d])
                BY RetiredSpared DEF IInv, TypeOK
            <4> QED BY <2>2, <4>1, ForkFresh
        <3>3. req' = [req EXCEPT ![r] = [req[r] EXCEPT !.run = "starting", !.child = spawned + 1]]
            BY <2>2 DEF Fork
        <3>4. PICK p : p = [req[r] EXCEPT !.run = "starting", !.child = spawned + 1]
            OBVIOUS
        <3>5. p.run = "starting" /\ p.got = req[r].got /\ p.answer = req[r].answer
            BY <1>1, <3>4 DEF Request
        <3>6. Goes(req[r], p)
            BY <3>1, <3>5, StartsGoes
        <3>7. \A q \in Requests : Goes(req[q], req'[q])
            BY <3>3, <3>4, <3>6, OneGoes
        <3>8. PICK sm : sm = [slot[s] EXCEPT !.child = spawned + 1]
            OBVIOUS
        <3>9. slot' = [slot EXCEPT ![s] = sm] /\ sm.active = slot[s].active
            BY <1>1, <2>2, <3>1, <3>8 DEF Fork, ChildSlot
        <3>10. \A t \in Slots : slot'[t].child # None => slot'[t].active = slot[t].active
            BY <3>1, <3>9, SlotLoses
        <3> QED BY <2>2, <3>2, <3>7, <3>10 DEF Gentle
    <2> QED BY <1>5, <2>1, <2>2 DEF Restart
<1>6. CASE StartFails(r)
    BY <1>3, <1>6 DEF StartFails
<1>7. CASE Abort(r)
    <2>1. CASE req' = [req EXCEPT ![r].aborted = TRUE] /\ UNCHANGED <<slot, child>>
        <3>1. req' = [req EXCEPT ![r] = [req[r] EXCEPT !.aborted = TRUE]]
            BY <2>1
        <3>2. PICK p : p = [req[r] EXCEPT !.aborted = TRUE]
            OBVIOUS
        <3>3. /\ p.run = req[r].run /\ p.got = req[r].got /\ p.parts = req[r].parts
              /\ p.answer = req[r].answer
            BY <1>1, <3>2 DEF Request
        <3>4. Goes(req[r], p)
            BY <3>3, SameGoes
        <3>5. \A q \in Requests : Goes(req[q], req'[q])
            BY <3>1, <3>2, <3>4, OneGoes
        <3> QED BY <2>1, <3>5, AllSpared, SlotsSame DEF Gentle
    <2> QED BY <1>4, <1>7, <2>1 DEF Abort
<1>8. CASE Interrupt(r) \/ Deadline(r)
    BY <1>4, <1>8 DEF Interrupt, Deadline, Underway
<1> QED BY <1>5, <1>6, <1>7, <1>8

\* What is heard of a process ends at most the active run of its slot.
LEMMA ProcessGentle ==
    ASSUME IInv, NEW c \in Children,
           Disconnect(c) \/ ExitSeen(c) \/ CloseSeen(c) \/ Watchdog(c) \/ ErrorSeen(c) \/ Terminated(c)
    PROVE  Gentle
<1> DEFINE s == child[c].slot
<1>1. child[c] \in Child /\ child \in [Children -> Child] /\ \A t \in Slots : slot[t] \in ChildSlot
    BY DEF IInv, TypeOK
<1>2. CASE Disconnect(c)
    <2>1. PICK d : d = [child[c] EXCEPT !.connected = FALSE]
        OBVIOUS
    <2>2. child' = [child EXCEPT ![c] = d] /\ UNCHANGED <<req, slot>>
        BY <1>2, <2>1 DEF Disconnect
    <2>3. Spared(child[c], d)
        BY <1>1, <2>1 DEF Spared, SameChannel, Goner, Buried, Child
    <2>4. \A q \in Requests : Goes(req[q], req'[q])
        BY <2>2, SomeEnd
    <2> QED BY <2>2, <2>3, <2>4, OneSpared, SlotsSame DEF Gentle
<1>3. CASE ExitSeen(c)
    <2>1. PICK d : d = [child[c] EXCEPT !.exited = TRUE]
        OBVIOUS
    <2>2. child' = [child EXCEPT ![c] = d] /\ UNCHANGED <<req, slot>>
        BY <1>3, <2>1 DEF ExitSeen
    <2>3. Spared(child[c], d)
        BY <1>1, <2>1 DEF Spared, SameChannel, Goner, Buried, Child
    <2>4. \A q \in Requests : Goes(req[q], req'[q])
        BY <2>2, SomeEnd
    <2> QED BY <2>2, <2>3, <2>4, OneSpared, SlotsSame DEF Gentle
<1>4. CASE Terminated(c)
    <2>1. PICK d : d = [child[c] EXCEPT !.finished = TRUE,
                                        !.killed = IF child[c].exited THEN @ ELSE "SIGKILL"]
        OBVIOUS
    <2>2. child' = [child EXCEPT ![c] = d] /\ UNCHANGED <<req, slot>>
        BY <1>4, <2>1 DEF Terminated
    <2>3. child[c].retired
        BY <1>4 DEF Terminated
    <2>4. Spared(child[c], d)
        BY <1>1, <2>1, <2>3 DEF Spared, SameChannel, Goner, Buried, Child
    <2>5. \A q \in Requests : Goes(req[q], req'[q])
        BY <2>2, SomeEnd
    <2> QED BY <2>2, <2>4, <2>5, OneSpared, SlotsSame DEF Gentle
<1>5. CASE CloseSeen(c)
    <2>1. s \in Slots
        <3>1. child[c] # Unborn
            BY <1>5 DEF CloseSeen, Unborn
        <3> QED BY <3>1, ChildFacts
    <2>2. PICK d : d = [child[c] EXCEPT !.exited = TRUE]
        OBVIOUS
    <2>3. d \in Child /\ Spared(child[c], d)
        BY <1>1, <2>2 DEF Spared, SameChannel, Goner, Buried, Child
    <2>4. child' = [child EXCEPT ![c] = Retired(d)]
        BY <1>5, <2>2 DEF CloseSeen
    <2>5. Spared(child[c], Retired(d))
        <3>1. Spared(d, Retired(d))
            BY <2>3, RetiredSpared
        <3> QED BY <2>3, <3>1 DEF Spared, SameChannel, Goner
    <2>6. \A e \in Children : Spared(child[e], child'[e])
        BY <2>4, <2>5, OneSpared
    <2>7. OneMoreCrash(Vacant(slot[s])).child = None
        BY <1>1, <2>1, VacantFacts
    <2>8. \A t \in Slots : slot'[t].child # None => slot'[t].active = slot[t].active
        <3>1. slot' = [slot EXCEPT ![s] = OneMoreCrash(Vacant(slot[s]))]
            BY <1>5 DEF CloseSeen
        <3> QED BY <2>1, <2>7, <3>1, SlotLoses
    <2>9. \A q \in Requests : req'[q] = req[q] \/ req'[q] = Ended(req[q], "failed")
        BY <1>5 DEF CloseSeen
    <2>10. \A q \in Requests : Goes(req[q], req'[q])
        BY <2>9, SomeEnd
    <2> QED BY <2>6, <2>8, <2>10 DEF Gentle
<1>6. ASSUME s \in Slots, FailStartup(c) PROVE Gentle
    <2>1. child' = [child EXCEPT ![c] = Retired(child[c])] /\ UNCHANGED req
        BY <1>6 DEF FailStartup
    <2>2. \A e \in Children : Spared(child[e], child'[e])
        BY <1>1, <2>1, RetiredSpared, OneSpared
    <2>3. PICK sl : sl = [slot[s] EXCEPT !.child = None]
        OBVIOUS
    <2>4. sl \in ChildSlot /\ sl.child = None
        BY <1>1, <1>6, <2>3 DEF ChildSlot
    <2>5. OneMoreCrash(sl).child = None
        BY <2>4, VacantFacts
    <2>6. slot' = [slot EXCEPT ![s] = OneMoreCrash(sl)]
        BY <1>6, <2>3 DEF FailStartup
    <2>7. \A t \in Slots : slot'[t].child # None => slot'[t].active = slot[t].active
        BY <1>6, <2>5, <2>6, SlotLoses
    <2>8. \A q \in Requests : Goes(req[q], req'[q])
        BY <2>1, SomeEnd
    <2> QED BY <2>2, <2>7, <2>8 DEF Gentle
<1>7. ASSUME s \in Slots, RejectAndRecycle(s) PROVE Gentle
    <2>1. child' = Recycled(s) /\ slot' = [slot EXCEPT ![s] = Vacant(slot[s])]
        BY <1>7 DEF RejectAndRecycle
    <2>2. Vacant(slot[s]).child = None
        BY <1>1, <1>7, VacantFacts
    <2>3. \A t \in Slots : slot'[t].child # None => slot'[t].active = slot[t].active
        BY <1>7, <2>1, <2>2, SlotLoses
    <2>4. \A e \in Children : Spared(child[e], child'[e])
        BY <1>7, <2>1, RecycledSpared
    <2>5. \A q \in Requests : req'[q] = req[q] \/ req'[q] = Ended(req[q], "failed")
        BY <1>7 DEF RejectAndRecycle
    <2>6. \A q \in Requests : Goes(req[q], req'[q])
        BY <2>5, SomeEnd
    <2> QED BY <2>3, <2>4, <2>6 DEF Gentle
<1>8. CASE Watchdog(c) \/ ErrorSeen(c)
    <2>1. s \in Slots
        <3>1. child[c] # Unborn
            BY <1>8 DEF Watchdog, ErrorSeen, Unborn
        <3> QED BY <3>1, ChildFacts
    <2> QED BY <1>6, <1>7, <1>8, <2>1 DEF Watchdog, ErrorSeen
<1> QED BY <1>2, <1>3, <1>4, <1>5, <1>8

LEMMA SendFailsGentle ==
    ASSUME IInv, NEW c \in Children, NEW r \in Requests, SendFails(c, r)
    PROVE  Gentle
<1> DEFINE s == child[c].slot
           reported == [child EXCEPT ![c].errors = @ \ {r}]
<1>1. child[c] \in Child /\ child \in [Children -> Child] /\ \A t \in Slots : slot[t] \in ChildSlot
    BY DEF IInv, TypeOK
<1>2. s \in Slots
    <2>1. child[c] # Unborn
        BY DEF SendFails, Unborn
    <2> QED BY <2>1, ChildFacts
<1>3. \A e \in Children : reported[e] \in Child /\ Spared(child[e], reported[e])
    <2>1. PICK d : d = [child[c] EXCEPT !.errors = child[c].errors \ {r}]
        OBVIOUS
    <2>2. d \in Child /\ Spared(child[c], d)
        BY <1>1, <2>1 DEF Spared, SameChannel, Goner, Buried, Child
    <2>3. \A e \in Children : Spared(child[e], child[e]) /\ child[e] \in Child
        BY <1>1, RetiredSpared
    <2>4. reported = [child EXCEPT ![c] = d]
        BY <2>1
    <2> HIDE DEF reported
    <2> QED BY <1>1, <2>2, <2>3, <2>4
<1> HIDE DEF reported
<1>4. CASE StillActive(s, r)
    <2>1. /\ child' = [d \in Children |-> IF d = slot[s].child THEN Retired(reported[d]) ELSE reported[d]]
          /\ slot' = [slot EXCEPT ![s] = Vacant(slot[s])]
          /\ \A q \in Requests : req'[q] = req[q] \/ req'[q] = Ended(req[q], "failed")
        BY <1>4 DEF SendFails, reported
    <2>2. \A e \in Children : Spared(reported[e], Retired(reported[e]))
        BY <1>3, RetiredSpared
    <2>3. \A e \in Children : Spared(child[e], child'[e])
        BY <1>3, <2>1, <2>2 DEF Spared, SameChannel, Goner
    <2>4. Vacant(slot[s]).child = None
        BY <1>1, <1>2, VacantFacts
    <2>5. \A t \in Slots : slot'[t].child # None => slot'[t].active = slot[t].active
        BY <1>2, <2>1, <2>4, SlotLoses
    <2>6. \A q \in Requests : Goes(req[q], req'[q])
        BY <2>1, SomeEnd
    <2> QED BY <2>3, <2>5, <2>6 DEF Gentle
<1>5. CASE ~StillActive(s, r)
    <2>1. child' = reported /\ UNCHANGED <<req, slot>>
        BY <1>5 DEF SendFails, reported
    <2>2. \A q \in Requests : Goes(req[q], req'[q])
        BY <2>1, SomeEnd
    <2> QED BY <1>3, <2>1, <2>2, SlotsSame DEF Gentle
<1> QED BY <1>4, <1>5

LEMMA PoolGentle ==
    ASSUME IInv, Close \/ CloseReturns \/ \E s \in Slots : BackoffPasses(s)
    PROVE  Gentle
<1>1. child \in [Children -> Child] /\ slot \in [Slots -> ChildSlot]
    BY DEF IInv, TypeOK
<1>2. CASE Close
    <2>1. \A q \in Requests : req'[q] = req[q] \/ req'[q] = Ended(req[q], "failed")
        BY <1>2 DEF Close
    <2>2. \A e \in Children : child'[e] = child[e] \/ child'[e] = Retired(child[e])
        BY <1>2 DEF Close
    <2>3. \A e \in Children : Spared(child[e], child[e]) /\ Spared(child[e], Retired(child[e]))
        BY <1>1, RetiredSpared
    <2>4. \A t \in Slots : slot'[t] = IF slot[t].child # None THEN Vacant(slot[t]) ELSE slot[t]
        BY <1>2 DEF Close
    <2>5. \A t \in Slots : Vacant(slot[t]).child = None
        BY <1>1, VacantFacts
    <2>6. \A t \in Slots : slot'[t].child # None => slot'[t].active = slot[t].active
        BY <2>4, <2>5
    <2>7. \A q \in Requests : Goes(req[q], req'[q])
        BY <2>1, SomeEnd
    <2> QED BY <2>2, <2>3, <2>6, <2>7 DEF Gentle
<1>3. CASE CloseReturns
    <2>1. UNCHANGED <<req, slot, child>>
        BY <1>3 DEF CloseReturns
    <2>2. \A q \in Requests : Goes(req[q], req'[q])
        BY <2>1, SomeEnd
    <2> QED BY <2>1, <2>2, AllSpared, SlotsSame DEF Gentle
<1>4. ASSUME NEW s \in Slots, BackoffPasses(s) PROVE Gentle
    <2>1. PICK sl : sl = [slot[s] EXCEPT !.holding = FALSE]
        OBVIOUS
    <2>2. sl.active = slot[s].active
        BY <1>1, <2>1 DEF ChildSlot
    <2>3. slot' = [slot EXCEPT ![s] = sl] /\ UNCHANGED <<req, child>>
        BY <1>4, <2>1 DEF BackoffPasses
    <2>4. \A t \in Slots : slot'[t].child # None => slot'[t].active = slot[t].active
        BY <2>2, <2>3, SlotLoses
    <2>5. \A q \in Requests : Goes(req[q], req'[q])
        BY <2>3, SomeEnd
    <2> QED BY <2>3, <2>4, <2>5, AllSpared DEF Gentle
<1> QED BY <1>2, <1>3, <1>4

-----------------------------------------------------------------------------
(* Steps in which a message is sent, read or lost. *)

\* Only one child's channel is touched, and with it at most the active run of its
\* slot, unless it was let go.
LEMMA Touched ==
    ASSUME IInv, Channel, NEW c \in Children, NEW d, child' = [child EXCEPT ![c] = d],
           ~d.retired => Sound(d, Active(c)', req'[Active(c)']), Fit(d), Still(d),
           \A s \in Slots : s # child[c].slot \/ child[c].retired =>
                slot'[s].active = slot[s].active,
           \A r \in Requests : req[r].slot # child[c].slot \/ child[c].retired =>
                req'[r].got = req[r].got /\ req'[r].parts = req[r].parts
    PROVE  Channel'
<1>1. child \in [Children -> Child] /\ slot \in [Slots -> ChildSlot]
    BY DEF IInv, TypeOK
<1>2. child'[c] = d /\ \A e \in Children : e # c => child'[e] = child[e]
    BY <1>1
<1>3. ASSUME NEW e \in Children, e # c, ~child[e].retired
      PROVE  Sound(child[e], Active(e)', req'[Active(e)'])
    <2>1. CASE child[e] = Unborn
        BY <2>1, UnbornFresh, FreshFacts
    <2>2. CASE child[e] # Unborn
        <3>1. PICK t \in Slots : t = child[e].slot
            BY <2>2, ChildFacts
        <3>2. t # child[c].slot \/ child[c].retired
            <4> SUFFICES ASSUME t = child[c].slot, ~child[c].retired PROVE FALSE
                OBVIOUS
            <4>1. e <= spawned /\ child[c] # Unborn
                <5>1. Unborn.slot = None
                    BY DEF Unborn
                <5>2. e <= spawned
                    BY <2>2, ChildFacts
                <5> QED BY <3>1, <5>1, <5>2, NoneFacts
            <4>2. c <= spawned /\ spawned \in Nat
                BY <4>1, ChildFacts DEF IInv, TypeOK
            <4>3. e \in 1 .. spawned /\ c \in 1 .. spawned
                BY <4>1, <4>2 DEF Children
            <4>4. slot[child[e].slot].child = e /\ slot[child[c].slot].child = c
                BY <1>3, <4>3 DEF IInv, NoOrphan
            <4> QED BY <1>3, <3>1, <4>4
        <3>3. PICK a : a = slot[t].active /\ a = slot'[t].active
            BY <3>2
        <3>4. Active(e) = a /\ Active(e)' = a
            BY <1>2, <1>3, <3>1, <3>3 DEF Active
        <3>5. a # None => req'[a].got = req[a].got /\ req'[a].parts = req[a].parts
            <4> SUFFICES ASSUME a # None PROVE req'[a].got = req[a].got /\ req'[a].parts = req[a].parts
                OBVIOUS
            <4>1. a \in Requests
                BY <1>1, <3>3 DEF ChildSlot
            <4>2. req[a].slot = t
                BY <3>3 DEF IInv, ActiveOwned
            <4> QED BY <3>2, <4>1, <4>2
        <3>6. Sound(child[e], a, req[a])
            BY <1>3, <3>4 DEF Channel
        <3>7. SameChannel(child[e], child[e])
            BY DEF SameChannel
        <3>8. Sound(child[e], a, req'[a])
            BY <3>5, <3>6, <3>7, SameSound
        <3> QED BY <3>4, <3>8
    <2> QED BY <2>1, <2>2
<1>4. ASSUME NEW e \in Children, ~child'[e].retired
      PROVE  Sound(child'[e], Active(e)', req'[Active(e)'])
    BY <1>2, <1>3, <1>4
<1>5. \A e \in Children : Fit(child'[e]) /\ Still(child'[e])
    BY <1>2 DEF Channel
<1> QED BY <1>4, <1>5 DEF Channel

\* What is written are chunks of a run that was sent.
LEMMA TouchedAnswers ==
    ASSUME IInv, Answers, NEW c \in Children, NEW d, child' = [child EXCEPT ![c] = d],
           \A i \in 1 .. Len(d.outbox) : d.outbox[i].type = "result-chunk" =>
                \/ \E j \in 1 .. Len(child[c].outbox) : child[c].outbox[j] = d.outbox[i]
                \/ /\ d.outbox[i].job \in Requests
                   /\ req'[d.outbox[i].job].run \in {"running", "ended"},
           \A r \in Requests :
                /\ Answered(req'[r])
                /\ req[r].run \in {"running", "ended"} => req'[r].run \in {"running", "ended"}
    PROVE  Answers'
<1>1. child \in [Children -> Child]
    BY DEF IInv, TypeOK
<1>2. child'[c] = d /\ \A e \in Children : e # c => child'[e] = child[e]
    BY <1>1
<1>3. ASSUME NEW e \in Children, e # c PROVE Begun(child[e])'
    <2>1. Begun(child[e]) /\ child'[e] = child[e]
        BY <1>2, <1>3 DEF Answers
    <2> QED BY <2>1 DEF Begun
<1>4. Begun(child[c])'
    <2> SUFFICES ASSUME NEW i \in 1 .. Len(d.outbox), d.outbox[i].type = "result-chunk"
                 PROVE  /\ d.outbox[i].job \in Requests
                        /\ req'[d.outbox[i].job].run \in {"running", "ended"}
        BY <1>2 DEF Begun
    <2>1. CASE \E j \in 1 .. Len(child[c].outbox) : child[c].outbox[j] = d.outbox[i]
        <3>1. PICK j \in 1 .. Len(child[c].outbox) : child[c].outbox[j] = d.outbox[i]
            BY <2>1
        <3>2. /\ d.outbox[i].job \in Requests
              /\ req[d.outbox[i].job].run \in {"running", "ended"}
            <4>1. Begun(child[c])
                BY DEF Answers
            <4> QED BY <3>1, <4>1 DEF Begun
        <3> QED BY <3>2
    <2> QED BY <2>1
<1> QED BY <1>3, <1>4 DEF Answers

\* What is known of a child that was not let go and of its active run.
LEMMA ActiveFacts ==
    ASSUME IInv, Channel, NEW c \in Children, child[c] # Unborn
    PROVE  /\ child[c] \in Child /\ child \in [Children -> Child] /\ child[c].slot \in Slots
           /\ Active(c) \in Requests \cup {None}
           /\ Fit(child[c]) /\ Still(child[c])
           /\ ~child[c].retired => /\ Sound(child[c], Active(c), req[Active(c)])
                                   /\ slot[child[c].slot].child = c
           /\ Active(c) # None => /\ req[Active(c)] \in Request /\ req[Active(c)].run = "running"
                                  /\ req[Active(c)].slot = child[c].slot
                                  /\ req[Active(c)].got \in Nat /\ req[Active(c)].parts \in Nat
<1>1. child[c] \in Child /\ child \in [Children -> Child] /\ child[c].slot \in Slots /\ c <= spawned
    BY ChildFacts
<1>2. slot[child[c].slot] \in ChildSlot
    BY <1>1 DEF IInv, TypeOK
<1>3. Active(c) \in Requests \cup {None}
    BY <1>2 DEF Active, ChildSlot
<1>4. Active(c) # None => req[Active(c)].run = "running" /\ req[Active(c)].slot = child[c].slot
    BY <1>1 DEF Active, IInv, ActiveOwned
<1>5. Active(c) # None => /\ req[Active(c)] \in Request
                          /\ req[Active(c)].got \in Nat /\ req[Active(c)].parts \in Nat
    <2> SUFFICES ASSUME Active(c) # None
                 PROVE  /\ req[Active(c)] \in Request
                        /\ req[Active(c)].got \in Nat /\ req[Active(c)].parts \in Nat
        OBVIOUS
    <2>1. req[Active(c)] \in Request
        BY <1>3 DEF IInv, TypeOK
    <2> QED BY <2>1, BoundsNatural DEF Request
<1>6. ~child[c].retired => slot[child[c].slot].child = c
    BY <1>1, BoundsNatural DEF IInv, NoOrphan, TypeOK, Children
<1> QED BY <1>1, <1>3, <1>4, <1>5, <1>6 DEF Channel

LEMMA EndedCollected ==
    ASSUME NEW q \in Request, q.got = q.parts
    PROVE  Answered(Ended(q, "result"))
BY DEF Ended, Answered, Request

\* A request of which only the counts of chunks change while it runs.
LEMMA RunningAnswered ==
    ASSUME NEW q, NEW p, Answered(q), p.run = q.run, p.answer = q.answer,
           q.run = "running" \/ (p.got = q.got /\ p.parts = q.parts)
    PROVE  Answered(p)
BY DEF Answered

LEMMA ChildReadyKeeps ==
    ASSUME IInv, Channel, Answers, NEW c \in Children, ChildReady(c)
    PROVE  Channel' /\ Answers'
<1>1. PICK m : m = Msg("ready", None, "good")
    OBVIOUS
<1>2. m \in Envelope /\ m.type = "ready"
    BY <1>1, MsgType
<1>3. child[c] # Unborn /\ ~child[c].retired /\ child[c].state = "loading"
    BY DEF ChildReady, Unborn
<1>4. PICK d : d = [child[c] EXCEPT !.state = "up", !.outbox = Append(child[c].outbox, m)]
    OBVIOUS
<1>5. child' = [child EXCEPT ![c] = d] /\ UNCHANGED <<req, slot>>
    BY <1>1, <1>4 DEF ChildReady
<1>6. /\ d.outbox = Append(child[c].outbox, m) /\ d.inbox = child[c].inbox /\ d.job = child[c].job
      /\ d.soiled = child[c].soiled /\ d.overlapped = child[c].overlapped /\ d.state = "up"
      /\ d.retired = child[c].retired /\ d.slot = child[c].slot
    BY <1>3, <1>4, ActiveFacts DEF Child
<1>7. Sound(d, Active(c), req[Active(c)])
    BY <1>2, <1>3, <1>6, ActiveFacts, Writes
<1>8. Fit(d) /\ Still(d)
    <2>1. Fit(child[c]) /\ RunsIn(d) = RunsIn(child[c])
        BY <1>3, <1>6, ActiveFacts DEF RunsIn
    <2> QED BY <1>6, <2>1 DEF Fit, Still
<1>9. Active(c)' = Active(c)
    <2>1. child'[c] = d
        BY <1>5 DEF IInv, TypeOK
    <2> QED BY <1>5, <1>6, <2>1 DEF Active
<1>10. Channel'
    BY <1>5, <1>7, <1>8, <1>9, Touched
<1>11. Answers'
    <2>1. child[c].outbox \in Seq(Envelope)
        BY ChildFacts
    <2>2. /\ Len(d.outbox) = Len(child[c].outbox) + 1 /\ Len(child[c].outbox) \in Nat
          /\ \A i \in 1 .. Len(child[c].outbox) : d.outbox[i] = child[c].outbox[i]
          /\ d.outbox[Len(child[c].outbox) + 1] = m
        BY <1>2, <1>6, <2>1, AppendProperties
    <2>3. \A i \in 1 .. Len(d.outbox) : d.outbox[i].type = "result-chunk" =>
            \E j \in 1 .. Len(child[c].outbox) : child[c].outbox[j] = d.outbox[i]
        BY <1>2, <2>2
    <2>4. \A r \in Requests : Answered(req'[r]) /\ req'[r] = req[r]
        BY <1>5 DEF Answers
    <2> QED BY <1>5, <2>3, <2>4, TouchedAnswers
<1> QED BY <1>10, <1>11

LEMMA ChildCallsKeeps ==
    ASSUME IInv, Channel, Answers, NEW c \in Children, ChildCalls(c)
    PROVE  Channel' /\ Answers'
<1>0. PICK r : r = child[c].job
    OBVIOUS
<1>1. PICK m : m = Msg("host-call", r, "good")
    OBVIOUS
<1>2. r # None /\ child[c] # Unborn /\ ~child[c].retired
    BY <1>0 DEF ChildCalls, Unborn
<1>3. /\ child[c] \in Child /\ r \in Requests /\ Active(c) = r /\ child[c].state # "dead"
      /\ Sound(child[c], r, req[r]) /\ Fit(child[c])
    <2>1. child[c] \in Child /\ Sound(child[c], Active(c), req[Active(c)])
            /\ Fit(child[c]) /\ Still(child[c])
        BY <1>2, ActiveFacts
    <2>2. Active(c) = r
        BY <1>0, <1>2, <2>1 DEF Sound, Its
    <2> QED BY <1>0, <1>2, <2>1, <2>2 DEF Child, Still
<1>4. m \in Envelope /\ m.type = "host-call"
    BY <1>1, <1>3, MsgType
<1>5. PICK d : d = [child[c] EXCEPT !.outbox = Append(child[c].outbox, m)]
    OBVIOUS
<1>6. PICK p : p = [req[r] EXCEPT !.call = "sent"]
    OBVIOUS
<1>7. child' = [child EXCEPT ![c] = d] /\ req' = [req EXCEPT ![r] = p] /\ UNCHANGED slot
    BY <1>0, <1>1, <1>5, <1>6 DEF ChildCalls
<1>8. /\ d.outbox = Append(child[c].outbox, m) /\ d.inbox = child[c].inbox /\ d.job = child[c].job
      /\ d.soiled = child[c].soiled /\ d.overlapped = child[c].overlapped
      /\ d.state = child[c].state /\ d.retired = child[c].retired /\ d.slot = child[c].slot
    BY <1>3, <1>5 DEF Child
<1>9. /\ p.run = req[r].run /\ p.answer = req[r].answer /\ p.got = req[r].got
      /\ p.parts = req[r].parts
    BY <1>3, <1>6 DEF IInv, TypeOK, Request
<1>10. req'[r] = p /\ \A q \in Requests : q # r => req'[q] = req[q]
    BY <1>3, <1>7 DEF IInv, TypeOK
<1>11. Sound(d, r, p)
    BY <1>3, <1>4, <1>8, <1>9, Writes
<1>12. Fit(d) /\ Still(d)
    <2>1. RunsIn(d) = RunsIn(child[c])
        BY <1>8 DEF RunsIn
    <2> QED BY <1>3, <1>8, <2>1 DEF Fit, Still
<1>13. Active(c)' = r
    <2>1. child'[c] = d
        BY <1>7 DEF IInv, TypeOK
    <2> QED BY <1>3, <1>7, <1>8, <2>1 DEF Active
<1>14. Channel'
    <2>1. \A q \in Requests : req'[q].got = req[q].got /\ req'[q].parts = req[q].parts
        BY <1>9, <1>10
    <2> QED BY <1>7, <1>10, <1>11, <1>12, <1>13, <2>1, Touched
<1>15. Answers'
    <2>1. child[c].outbox \in Seq(Envelope)
        BY ChildFacts
    <2>2. /\ Len(d.outbox) = Len(child[c].outbox) + 1 /\ Len(child[c].outbox) \in Nat
          /\ \A i \in 1 .. Len(child[c].outbox) : d.outbox[i] = child[c].outbox[i]
          /\ d.outbox[Len(child[c].outbox) + 1] = m
        BY <1>4, <1>8, <2>1, AppendProperties
    <2>3. \A i \in 1 .. Len(d.outbox) : d.outbox[i].type = "result-chunk" =>
            \E j \in 1 .. Len(child[c].outbox) : child[c].outbox[j] = d.outbox[i]
        BY <1>4, <2>2
    <2>4. Answered(p)
        BY <1>3, <1>9, RunningAnswered DEF Answers
    <2>5. \A q \in Requests : Answered(req'[q]) /\ req'[q].run = req[q].run
        BY <1>9, <1>10, <2>4 DEF Answers
    <2> QED BY <1>7, <2>3, <2>5, TouchedAnswers
<1> QED BY <1>14, <1>15

LEMMA ChildReceivesKeeps ==
    ASSUME IInv, Channel, Answers, NEW c \in Children, ChildReceives(c)
    PROVE  Channel' /\ Answers'
<1>1. PICK m : m = Head(child[c].inbox)
    OBVIOUS
<1>2. /\ child[c] # Unborn /\ ~child[c].retired /\ child[c].state = "up" /\ child[c].inbox # <<>>
    BY DEF ChildReceives, Unborn
<1>3. /\ child[c] \in Child /\ Sound(child[c], Active(c), req[Active(c)]) /\ Fit(child[c])
    BY <1>2, ActiveFacts
<1>4. m.type = "run" => child[c].job = None
    <2>1. child[c].inbox \in Seq(Envelope)
        BY ChildFacts
    <2>2. m = child[c].inbox[1] /\ 1 \in 1 .. Len(child[c].inbox)
        BY <1>1, <1>2, <2>1
    <2> QED BY <1>3, <2>2 DEF Sound, OneRun, RunsIn
<1>5. PICK job : job = IF m.type = "run" THEN m.job ELSE child[c].job
    OBVIOUS
<1>6. PICK d : d = [child[c] EXCEPT !.inbox = Tail(child[c].inbox), !.job = job]
    OBVIOUS
<1>7. UNCHANGED <<req, slot>>
    BY DEF ChildReceives
<1>8. child' = [child EXCEPT ![c] = d]
    <2> DEFINE overlap == m.type = "run" /\ child[c].job # None
               o == [child[c] EXCEPT
                        !.inbox = Tail(@),
                        !.job = IF m.type # "run" THEN @ ELSE IF overlap THEN None ELSE m.job,
                        !.outbox = IF overlap THEN Append(@, Msg("result", m.job, "good")) ELSE @,
                        !.overlapped = @ \/ overlap]
    <2>1. child' = [child EXCEPT ![c] = o]
        BY <1>1 DEF ChildReceives
    <2>2. overlap = FALSE
        BY <1>4
    <2>3. child[c].overlapped = FALSE
        BY <1>3 DEF Fit, Child
    <2>4. /\ (IF overlap THEN Append(child[c].outbox, Msg("result", m.job, "good"))
              ELSE child[c].outbox) = child[c].outbox
          /\ (child[c].overlapped \/ overlap) = child[c].overlapped
          /\ (IF m.type # "run" THEN child[c].job ELSE IF overlap THEN None ELSE m.job) = job
        BY <1>5, <2>2, <2>3
    <2> HIDE DEF overlap
    <2>5. o = [child[c] EXCEPT !.inbox = Tail(child[c].inbox), !.job = job,
                               !.outbox = child[c].outbox, !.overlapped = child[c].overlapped]
        BY <2>4
    <2>6. o = d
        BY ZenonT(60), <1>3, <1>6, <2>5 DEF Child
    <2> QED BY <2>1, <2>6
<1>9. /\ d.inbox = Tail(child[c].inbox) /\ d.outbox = child[c].outbox /\ d.job = job
      /\ d.soiled = child[c].soiled /\ d.overlapped = child[c].overlapped
      /\ d.state = child[c].state /\ d.retired = child[c].retired /\ d.slot = child[c].slot
    BY <1>3, <1>6 DEF Child
<1>10. /\ Sound(d, Active(c), req[Active(c)])
       /\ child[c].soiled /\ job = None =>
            child[c].job = None /\ (RunsIn(child[c]) = {} => RunsIn(d) = {})
    <2>1. OneRun(child[c]) /\ Its(child[c], Active(c))
        BY <1>3 DEF Sound
    <2>2. (m.type # "run" => d.job = child[c].job) /\ (m.type = "run" => d.job = m.job)
        BY <1>5, <1>9
    <2> QED BY <1>1, <1>2, <1>3, <1>9, <2>1, <2>2, Takes
<1>11. Fit(d) /\ Still(d)
    BY <1>2, <1>3, <1>9, <1>10 DEF Fit, Still
<1>12. Active(c)' = Active(c)
    <2>1. child'[c] = d
        BY <1>8 DEF IInv, TypeOK
    <2> QED BY <1>7, <1>9, <2>1 DEF Active
<1>13. Channel'
    BY <1>7, <1>8, <1>10, <1>11, <1>12, Touched
<1>14. Answers'
    <2>1. \A r \in Requests : Answered(req'[r]) /\ req'[r] = req[r]
        BY <1>7 DEF Answers
    <2> QED BY <1>8, <1>9, <2>1, TouchedAnswers
<1> QED BY <1>13, <1>14

LEMMA ChildAnswersKeeps ==
    ASSUME IInv, Channel, Answers, NEW c \in Children, ChildAnswers(c)
    PROVE  Channel' /\ Answers'
<1> DEFINE r == child[c].job
<1>0. r = child[c].job
    OBVIOUS
<1>1. r # None /\ child[c] # Unborn /\ ~child[c].retired
    BY DEF ChildAnswers, Unborn
<1>2. PICK n \in 0 .. MaxChunks, mark \in {"good"} \cup (Faults \cap {"garbled", "dirty"}) :
        /\ req' = [req EXCEPT ![r].parts = n]
        /\ child' = [child EXCEPT
            ![c].outbox = @ \o [i \in 1 .. n |-> Msg("result-chunk", r, "good")]
                            \o <<Msg("result", r, mark)>>,
            ![c].soiled = mark = "dirty",
            ![c].job = None]
    BY DEF ChildAnswers
<1> DEFINE one == Msg("result-chunk", r, "good")
           res == Msg("result", r, mark)
           chunks == [i \in 1 .. n |-> one]
           last == <<res>>
           o == child[c].outbox \o chunks \o last
           w == mark = "dirty"
           d == [child[c] EXCEPT !.outbox = o, !.soiled = w, !.job = None]
<1>3. child' = [child EXCEPT ![c] = d] /\ req' = [req EXCEPT ![r].parts = n]
    BY <1>2
<1>4. n \in Nat /\ o = child[c].outbox \o chunks \o last
    BY BoundsNatural
<1>5. /\ one = Msg("result-chunk", r, "good") /\ res = Msg("result", r, mark) /\ w = (mark = "dirty")
      /\ d = [child[c] EXCEPT !.outbox = o, !.soiled = w, !.job = None]
    OBVIOUS
<1> HIDE DEF r, one, res, chunks, last, o, w, d
<1>6. /\ child[c] \in Child /\ r \in Requests /\ Active(c) = r /\ child[c].state # "dead"
      /\ Sound(child[c], r, req[r]) /\ Fit(child[c]) /\ req[r] \in Request
      /\ req[r].run = "running" /\ req[r].slot = child[c].slot /\ child[c].slot \in Slots
    <2>1. /\ child[c] \in Child /\ Sound(child[c], Active(c), req[Active(c)])
          /\ Fit(child[c]) /\ Still(child[c]) /\ child[c].slot \in Slots
        BY <1>1, ActiveFacts
    <2>2. Active(c) = r
        BY <1>0, <1>1, <2>1 DEF Sound, Its
    <2>3. req[r] \in Request /\ req[r].run = "running" /\ req[r].slot = child[c].slot
        BY <1>1, <2>2, ActiveFacts
    <2> QED BY <1>0, <1>1, <2>1, <2>2, <2>3 DEF Child, Still
<1>7. /\ one \in Envelope /\ one.type = "result-chunk" /\ one.job = r
      /\ res \in Envelope /\ res.type = "result" /\ res.job = r /\ res.mark = mark
    BY <1>5, <1>6, MsgType DEF Msg
<1>13. /\ d.outbox = o /\ d.inbox = child[c].inbox /\ d.job = None /\ d.soiled = w
       /\ d.overlapped = child[c].overlapped /\ d.state = child[c].state
       /\ d.retired = child[c].retired /\ d.slot = child[c].slot
    BY <1>5, <1>6 DEF Child
<1>14. PICK L \in Nat : L = Len(child[c].outbox)
    BY ChildFacts
<1>15. Lengthens(child[c].outbox, o, n, one, res)
    <2>1. PICK x : x = child[c].outbox
        OBVIOUS
    <2>2. x \in Seq(Envelope)
        BY <2>1, ChildFacts
    <2>3. o = x \o [i \in 1 .. n |-> one] \o <<res>>
        BY <1>4, <2>1 DEF chunks, last
    <2>4. Lengthens(x, o, n, one, res)
        BY <1>4, <1>7, <2>2, <2>3, AnswerShape
    <2> QED BY <2>1, <2>4
<1>25. /\ Len(o) = L + n + 1
       /\ \A i \in 1 .. L : o[i] = child[c].outbox[i]
       /\ \A i \in L + 1 .. L + n : o[i] = one
       /\ o[L + n + 1] = res
    BY <1>14, <1>15 DEF Lengthens
<1>16. PICK p : p = [req[r] EXCEPT !.parts = n]
    OBVIOUS
<1>17. /\ p.run = req[r].run /\ p.answer = req[r].answer /\ p.got = req[r].got /\ p.parts = n
    BY <1>6, <1>16 DEF Request
<1>18. req'[r] = p /\ \A q \in Requests : q # r => req'[q] = req[q]
    BY <1>6, <1>3, <1>16 DEF IInv, TypeOK
<1>19. UNCHANGED slot
    BY DEF ChildAnswers
<1>20. Sound(d, r, p) /\ RunsIn(d) = {}
    <2>1. req[r].got = 0
        BY <1>0, <1>1, <1>6 DEF Sound, Collecting
    <2>2. d.soiled => res.mark = "dirty"
        BY <1>5, <1>7, <1>13
    <2>4. p.got = 0 /\ p.parts = n
        BY <1>17, <2>1
    <2>5. PICK q : q = req[r]
        OBVIOUS
    <2>6. PICK x : x = child[c]
        OBVIOUS
    <2>7. q.got = 0 /\ Sound(x, r, q)
        BY <1>6, <2>1, <2>5, <2>6
    <2>8. x \in Child /\ x.job = r /\ r \in Requests
        BY <1>0, <1>6, <2>6
    <2>9. d.job = None /\ d.inbox = x.inbox /\ Lengthens(x.outbox, d.outbox, n, one, res)
        BY <1>13, <1>15, <2>6
    <2>10. one.type = "result-chunk" /\ one.job = r /\ res.type = "result" /\ res.job = r
        BY <1>7
    <2>11. PICK e : e = d
        OBVIOUS
    <2>12. /\ Lengthens(x.outbox, e.outbox, n, one, res)
           /\ e.job = None /\ e.inbox = x.inbox
           /\ e.soiled => res.mark = "dirty"
        BY <2>2, <2>9, <2>11
    <2>13. q.got = 0 /\ p.got = 0 /\ p.parts = n
        BY <2>4, <2>7
    <2>14. n \in Nat
        BY <1>4
    <2>15. Sound(e, r, p) /\ RunsIn(e) = {}
        BY <2>7, <2>8, <2>10, <2>12, <2>13, <2>14, Replies
    <2> QED BY <2>11, <2>15
<1>21. Fit(d) /\ Still(d)
    BY <1>6, <1>13, <1>20 DEF Fit, Still
<1>22. Active(c)' = r
    <2>1. child'[c] = d
        BY <1>3 DEF IInv, TypeOK
    <2> QED BY <1>6, <1>13, <1>19, <2>1 DEF Active
<1>23. Channel'
    <2>1. \A q \in Requests : req[q].slot # child[c].slot \/ child[c].retired =>
            req'[q].got = req[q].got /\ req'[q].parts = req[q].parts
        BY <1>1, <1>6, <1>18
    <2>2. Sound(d, Active(c)', req'[Active(c)'])
        BY <1>18, <1>20, <1>22
    <2> QED BY <1>3, <1>19, <1>21, <2>1, <2>2, Touched
<1>24. Answers'
    <2>1. Answered(p)
        BY <1>6, <1>17, RunningAnswered DEF Answers
    <2>2. \A q \in Requests : Answered(req'[q]) /\ req'[q].run = req[q].run
        BY <1>17, <1>18, <2>1 DEF Answers
    <2>3. ASSUME NEW i \in 1 .. Len(d.outbox), d.outbox[i].type = "result-chunk"
          PROVE  \/ \E j \in 1 .. Len(child[c].outbox) : child[c].outbox[j] = d.outbox[i]
                 \/ /\ d.outbox[i].job \in Requests
                    /\ req'[d.outbox[i].job].run \in {"running", "ended"}
        <3>1. CASE i \in 1 .. L
            BY <1>13, <1>14, <1>25, <3>1
        <3>2. CASE i \in L + 1 .. L + n
            <4>1. d.outbox[i] = one
                BY <1>13, <1>25, <3>2
            <4> QED BY <1>6, <1>7, <1>17, <1>18, <4>1
        <3>3. CASE i = L + n + 1
            BY <1>7, <1>13, <1>25, <2>3, <3>3
        <3>4. i \in 1 .. L \/ i \in L + 1 .. L + n \/ i = L + n + 1
            BY <1>4, <1>13, <1>25
        <3> QED BY <3>1, <3>2, <3>3, <3>4
    <2> QED BY <1>3, <2>2, <2>3, TouchedAnswers
<1> QED BY <1>23, <1>24

LEMMA DieKeeps ==
    ASSUME IInv, Channel, Answers, NEW c \in Children, Die(c)
    PROVE  Channel' /\ Answers'
<1>1. child[c] # Unborn /\ UNCHANGED <<req, slot>>
    BY DEF Die, Unborn
<1>2. PICK kept \in 0 .. Len(child[c].outbox) :
        child' = [child EXCEPT ![c].state = "dead", ![c].job = None, ![c].inbox = <<>>,
                               ![c].outbox = IF child[c].retired THEN <<>> ELSE SubSeq(@, 1, kept)]
    BY DEF Die
<1>3. PICK o : o = IF child[c].retired THEN <<>> ELSE SubSeq(child[c].outbox, 1, kept)
    OBVIOUS
<1>4. PICK d : d = [child[c] EXCEPT !.state = "dead", !.job = None, !.inbox = <<>>, !.outbox = o]
    OBVIOUS
<1>5. child' = [child EXCEPT ![c] = d]
    BY <1>2, <1>3, <1>4
<1>6. child[c] \in Child /\ Fit(child[c])
    BY <1>1, ActiveFacts
<1>7. /\ d.outbox = o /\ d.inbox = <<>> /\ d.job = None /\ d.state = "dead"
      /\ d.overlapped = child[c].overlapped
      /\ d.retired = child[c].retired /\ d.slot = child[c].slot
    BY <1>4, <1>6 DEF Child
<1>8. ~d.retired => Sound(d, Active(c), req[Active(c)])
    <2> SUFFICES ASSUME ~child[c].retired PROVE Sound(d, Active(c), req[Active(c)])
        BY <1>7
    <2>1. /\ Sound(child[c], Active(c), req[Active(c)])
          /\ Active(c) # None => req[Active(c)].got \in Nat /\ req[Active(c)].parts \in Nat
        BY <1>1, ActiveFacts
    <2>2. d.outbox = SubSeq(child[c].outbox, 1, kept)
        BY <1>3, <1>7
    <2> QED BY <1>6, <1>7, <2>1, <2>2, Dies
<1>9. Fit(d) /\ Still(d)
    <2>1. RunsIn(d) = {}
        BY <1>7 DEF RunsIn
    <2> QED BY <1>6, <1>7, <2>1 DEF Fit, Still
<1>10. Active(c)' = Active(c)
    <2>1. child'[c] = d
        BY <1>5 DEF IInv, TypeOK
    <2> QED BY <1>1, <1>7, <2>1 DEF Active
<1>11. Channel'
    BY <1>1, <1>5, <1>8, <1>9, <1>10, Touched
<1>12. Answers'
    <2>1. \A i \in 1 .. Len(d.outbox) : \E j \in 1 .. Len(child[c].outbox) : child[c].outbox[j] = d.outbox[i]
        <3>1. CASE child[c].retired
            BY <1>3, <1>7, <3>1
        <3>2. CASE ~child[c].retired
            <4>1. child[c].outbox \in Seq(Envelope)
                BY ChildFacts
            <4>2. kept \in Int /\ 1 \in Int /\ \A i \in 1 .. kept : child[c].outbox[i] \in Envelope
                BY <4>1
            <4>3. d.outbox = SubSeq(child[c].outbox, 1, kept)
                BY <1>3, <1>7, <3>2
            <4>4. /\ Len(d.outbox) = IF 1 <= kept THEN kept - 1 + 1 ELSE 0
                  /\ \A i \in 1 .. kept - 1 + 1 : d.outbox[i] = child[c].outbox[1 + i - 1]
                BY <4>2, <4>3, SubSeqProperties
            <4>5. kept \in Nat /\ Len(child[c].outbox) \in Nat /\ kept <= Len(child[c].outbox)
                BY <4>1
            <4>6. \A i \in 1 .. Len(d.outbox) :
                    i \in 1 .. Len(child[c].outbox) /\ d.outbox[i] = child[c].outbox[i]
                BY <4>4, <4>5
            <4> QED BY <4>6
        <3> QED BY <3>1, <3>2
    <2>2. \A r \in Requests : Answered(req'[r]) /\ req'[r] = req[r]
        BY <1>1 DEF Answers
    <2> QED BY <1>5, <2>1, <2>2, TouchedAnswers
<1> QED BY <1>11, <1>12

LEMMA HostReturnsKeeps ==
    ASSUME IInv, IInv', Channel, Answers, NEW r \in Requests, HostReturns(r)
    PROVE  Channel' /\ Answers'
<1>1. PICK k : k = IF req[r].run = "ended" THEN None ELSE req[r].child
    OBVIOUS
<1>2. PICK p : p = [req[r] EXCEPT !.call = "done", !.child = k]
    OBVIOUS
<1>3. req[r] \in Request /\ req \in [Requests -> Request] /\ req[r].call = "open"
    BY DEF IInv, TypeOK, HostReturns
<1>4. req' = [req EXCEPT ![r] = p] /\ UNCHANGED slot
    BY <1>1, <1>2 DEF HostReturns
<1>5. p.run = req[r].run /\ p.answer = req[r].answer /\ p.got = req[r].got /\ p.parts = req[r].parts
    BY <1>2, <1>3 DEF Request
<1>6. req'[r] = p /\ \A q \in Requests : q # r => req'[q] = req[q]
    BY <1>3, <1>4
<1>7. \A q \in Requests : /\ req'[q].run = req[q].run /\ req'[q].got = req[q].got
                          /\ req'[q].parts = req[q].parts /\ req'[q].answer = req[q].answer
    BY <1>5, <1>6
<1>8. CASE ~MayAnswer(r)
    <2>1. UNCHANGED child
        BY <1>8 DEF HostReturns
    <2>2. \A q \in Requests : Goes(req[q], req'[q])
        BY <1>7, SameGoes
    <2>3. Gentle
        BY <1>4, <2>1, <2>2, AllSpared, SlotsSame DEF Gentle
    <2> QED BY <2>3, GentleKeeps
<1>9. CASE MayAnswer(r)
    <2>1. PICK c : c = req[r].child
        OBVIOUS
    <2>2. PICK m : m = Msg("host-result", r, "good")
        OBVIOUS
    <2>3. m \in Envelope /\ m.type = "host-result" /\ m.job = r
        BY <2>2, MsgType
    <2>4. req[r].slot \in Slots
        BY <1>3 DEF IInv, Exclusive
    <2>5. c \in Children /\ child[c].slot = req[r].slot
        BY <1>9, <2>1, <2>4, NoneFacts DEF MayAnswer, StillActive, IInv, ActiveOwned, OnSlot
    <2>6. child[c] # Unborn
        <3>1. Unborn.slot = None
            BY DEF Unborn
        <3> QED BY <2>4, <2>5, <3>1, NoneFacts
    <2>7. Active(c) = r /\ child[c] \in Child
        BY <1>9, <2>5, <2>6, ActiveFacts DEF MayAnswer, StillActive, Active
    <2>8. PICK d : d = Sent(child[c], m)
        OBVIOUS
    <2>9. child' = [child EXCEPT ![c] = d]
        BY <1>9, <2>1, <2>2, <2>8 DEF HostReturns
    <2>10. d.slot = child[c].slot /\ d.retired = child[c].retired
        BY <2>3, <2>7, <2>8, SentFacts
    <2>11. /\ Fit(child[c]) /\ Still(child[c])
           /\ ~child[c].retired => Sound(child[c], r, req[r])
        BY <2>5, <2>6, <2>7, ActiveFacts
    <2>12. d.outbox = child[c].outbox
        BY <2>7, <2>8 DEF Sent, Child
    <2>13. (~d.retired => Sound(d, r, p)) /\ Fit(d) /\ Still(d)
        <3>1. CASE child[c].state = "dead"
            <4>1. d = [child[c] EXCEPT !.errors = child[c].errors \cup {r}]
                BY <2>3, <2>8, <3>1 DEF Sent
            <4>2. SameChannel(child[c], d)
                BY <2>7, <4>1 DEF Child, SameChannel
            <4>3. ~d.retired => Sound(d, r, p)
                BY <1>5, <2>10, <2>11, <4>2, SameSound
            <4> QED BY <2>11, <4>2, <4>3, SameFit
        <3>2. CASE child[c].state # "dead"
            <4>1. d = [child[c] EXCEPT !.inbox = Append(child[c].inbox, m)]
                BY <2>8, <3>2 DEF Sent
            <4>2. /\ d.inbox = Append(child[c].inbox, m) /\ d.job = child[c].job
                  /\ d.soiled = child[c].soiled /\ d.overlapped = child[c].overlapped
                  /\ d.state = child[c].state
                BY <2>7, <4>1 DEF Child
            <4>3. /\ Sound(child[c], r, req[r]) => Sound(d, r, p)
                  /\ Fit(child[c]) => Fit(d)
                  /\ Still(d)
                BY <1>5, <2>3, <2>7, <2>12, <3>2, <4>2, Hears
            <4> QED BY <2>10, <2>11, <4>3
        <3> QED BY <3>1, <3>2
    <2>14. Active(c)' = r
        <3>1. child'[c] = d
            BY <2>5, <2>9 DEF IInv, TypeOK
        <3> QED BY <1>4, <2>7, <2>10, <3>1 DEF Active
    <2>15. Channel'
        <3>1. ~d.retired => Sound(d, Active(c)', req'[Active(c)'])
            BY <1>6, <2>13, <2>14
        <3> QED BY <1>4, <1>7, <2>5, <2>9, <2>13, <3>1, Touched
    <2>16. Answers'
        <3>1. \A q \in Requests : Answered(req'[q])
            BY <1>7, RunningAnswered DEF Answers
        <3> QED BY <1>7, <2>5, <2>9, <2>12, <3>1, TouchedAnswers
    <2> QED BY <2>15, <2>16
<1> QED BY <1>8, <1>9

\* What it waited for is a child with nothing of a run on its channel: the one
\* before is over, and a child that could not take another is off the slot.
LEMMA DispatchKeeps ==
    ASSUME IInv, IInv', Channel, Answers, NEW r \in Requests, Dispatch(r)
    PROVE  Channel' /\ Answers'
<1>1. PICK s : s = req[r].slot
    OBVIOUS
<1>2. PICK c : c = slot[s].child
    OBVIOUS
<1>3. /\ req[r] \in Request /\ req \in [Requests -> Request] /\ slot \in [Slots -> ChildSlot]
      /\ req[r].run = "starting" /\ req[r].lease = "held"
    BY DEF Dispatch, IInv, TypeOK, Leased, Underway
<1>4. s \in Slots /\ slot[s].active = None
    BY <1>1, <1>3, OwnSlot
<1>5. CASE req' = [req EXCEPT ![r] = Ended(@, "failed")] /\ UNCHANGED <<slot, child>>
    <2>1. \A q \in Requests : Goes(req[q], req'[q])
        BY <1>5, OneEnds
    <2>2. Gentle
        BY <1>5, <2>1, AllSpared, SlotsSame DEF Gentle
    <2> QED BY <2>2, GentleKeeps
<1>6. CASE /\ c # None
           /\ req' = [req EXCEPT ![r].run = "running", ![r].child = c]
           /\ slot' = [slot EXCEPT ![s].active = r]
           /\ child' = [child EXCEPT ![c] = Sent(@, Msg("run", r, "good"))]
    <2>1. c \in Children /\ child[c].slot = s /\ ~child[c].retired
        BY <1>2, <1>4, <1>6 DEF IInv, OnSlot
    <2>2. child[c] # Unborn
        <3>1. Unborn.slot = None
            BY DEF Unborn
        <3> QED BY <1>4, <2>1, <3>1, NoneFacts
    <2>3. Active(c) = None
        BY <1>4, <2>1 DEF Active
    <2>4. child[c] \in Child /\ Sound(child[c], None, req[None]) /\ Fit(child[c]) /\ Still(child[c])
        BY <2>1, <2>2, <2>3, ActiveFacts
    <2>5. Idle(child[c]) /\ (child[c].soiled => child[c].state = "dead")
        BY <2>4 DEF Sound, Its, Admits, Idle
    <2>6. PICK m : m = Msg("run", r, "good")
        OBVIOUS
    <2>7. m \in Envelope /\ m.type = "run" /\ m.job = r
        BY <2>6, MsgType
    <2>8. PICK d : d = Sent(child[c], m)
        OBVIOUS
    <2>9. child' = [child EXCEPT ![c] = d]
        BY <1>6, <2>6, <2>8
    <2>10. d.slot = child[c].slot /\ d.retired = child[c].retired
        BY <2>4, <2>7, <2>8, SentFacts
    <2>11. d.outbox = child[c].outbox
        BY <2>4, <2>8 DEF Sent, Child
    <2>12. PICK p : p = [req[r] EXCEPT !.run = "running", !.child = c]
        OBVIOUS
    <2>13. p.run = "running" /\ p.answer = req[r].answer /\ p.got = req[r].got /\ p.parts = req[r].parts
        BY <1>3, <2>12 DEF Request
    <2>14. req'[r] = p /\ \A q \in Requests : q # r => req'[q] = req[q]
        BY <1>3, <1>6, <2>12
    <2>15. Answered(req[r]) /\ req[r].got = 0 /\ p.got = 0
        BY <1>3, <2>13 DEF Answers, Answered
    <2>16. \A i \in 1 .. Len(child[c].outbox) : ~IsChunk(child[c].outbox[i], r)
        <3>1. Begun(child[c])
            BY <2>1 DEF Answers
        <3> QED BY <1>3, <3>1 DEF Begun, IsChunk
    <2>17. Sound(d, r, p) /\ Fit(d) /\ Still(d)
        <3>1. CASE child[c].state = "dead"
            <4>1. d = [child[c] EXCEPT !.errors = child[c].errors \cup {r}]
                BY <2>7, <2>8, <3>1 DEF Sent
            <4>2. SameChannel(child[c], d)
                BY <2>4, <4>1 DEF Child, SameChannel
            <4>3. Idle(d)
                <5>1. RunsIn(d) = RunsIn(child[c]) /\ ResultsIn(d) = ResultsIn(child[c])
                    BY <4>2 DEF SameChannel, RunsIn, ResultsIn
                <5> QED BY <2>5, <4>2, <5>1 DEF Idle, SameChannel
            <4>4. d.state = "dead"
                BY <3>1, <4>2 DEF SameChannel
            <4>5. Sound(d, r, p)
                BY <4>3, <4>4, IdleSound
            <4> QED BY <2>4, <4>2, <4>5, SameFit
        <3>2. CASE child[c].state # "dead"
            <4>1. d = [child[c] EXCEPT !.inbox = Append(child[c].inbox, m)]
                BY <2>8, <3>2 DEF Sent
            <4>2. /\ d.inbox = Append(child[c].inbox, m) /\ d.job = child[c].job
                  /\ d.soiled = child[c].soiled /\ d.overlapped = child[c].overlapped
                  /\ d.state = child[c].state
                BY <2>4, <4>1 DEF Child
            <4>3. ~child[c].soiled
                BY <2>5, <3>2
            <4> QED BY <2>4, <2>5, <2>7, <2>11, <2>15, <2>16, <3>2, <4>2, <4>3, Assigned
        <3> QED BY <3>1, <3>2
    <2>18. /\ slot'[s].active = r
           /\ \A t \in Slots : t # s => slot'[t].active = slot[t].active
        BY <1>3, <1>4, <1>6 DEF ChildSlot
    <2>19. Active(c)' = r
        <3>1. child'[c] = d
            BY <2>1, <2>9 DEF IInv, TypeOK
        <3> QED BY <2>1, <2>10, <2>18, <3>1 DEF Active
    <2>20. Channel'
        <3>1. Sound(d, Active(c)', req'[Active(c)'])
            BY <2>14, <2>17, <2>19
        <3>2. \A q \in Requests : req[q].slot # child[c].slot \/ child[c].retired =>
                req'[q].got = req[q].got /\ req'[q].parts = req[q].parts
            BY <1>1, <2>1, <2>14
        <3>3. \A t \in Slots : t # child[c].slot \/ child[c].retired => slot'[t].active = slot[t].active
            BY <2>1, <2>18
        <3> QED BY <2>1, <2>9, <2>17, <3>1, <3>2, <3>3, Touched
    <2>21. Answers'
        <3>1. Answered(p)
            BY <1>3, <2>13, <2>15 DEF Answered
        <3>2. \A q \in Requests :
                /\ Answered(req'[q])
                /\ req[q].run \in {"running", "ended"} => req'[q].run \in {"running", "ended"}
            BY <2>13, <2>14, <3>1 DEF Answers
        <3> QED BY <2>1, <2>9, <2>11, <3>2, TouchedAnswers
    <2> QED BY <2>20, <2>21
<1> QED BY <1>1, <1>2, <1>5, <1>6 DEF Dispatch

\* A message was taken off the outbox, and nothing else of the channel changed.
OnlyRead(d, e) ==
    /\ e.inbox = d.inbox /\ e.job = d.job /\ e.soiled = d.soiled
    /\ e.overlapped = d.overlapped /\ e.state = d.state
    /\ e.retired = d.retired /\ e.slot = d.slot

\* The active run collects a chunk that was read, and nothing else.
Collects(m, a) ==
    /\ \A q \in Requests : /\ req'[q].run = req[q].run /\ req'[q].answer = req[q].answer
                           /\ req'[q].parts = req[q].parts
                           /\ q # a => req'[q].got = req[q].got
    /\ a # None => /\ IsChunk(m, a) => req'[a].got = req[a].got + 1
                   /\ ~IsChunk(m, a) => req'[a].got = req[a].got

\* A message that is no answer, or that a child wrote before it was let go, is
\* read; only the active run may collect it.
LEMMA ReadKeeps ==
    ASSUME IInv, Channel, Answers, NEW c \in Children, child[c] # Unborn,
           NEW m, child[c].outbox # <<>>, m = Head(child[c].outbox),
           NEW d, child' = [child EXCEPT ![c] = d],
           d.outbox = Tail(child[c].outbox) \/ (child[c].retired /\ d.outbox = <<>>),
           OnlyRead(child[c], d), UNCHANGED slot, NEW a, a = Active(c), m.type # "result" \/ child[c].retired,
           Collects(m, a), child[c].retired => UNCHANGED req
    PROVE  Channel' /\ Answers'
<1>a. /\ \A q \in Requests : /\ req'[q].run = req[q].run /\ req'[q].answer = req[q].answer
                             /\ req'[q].parts = req[q].parts
                             /\ q # a => req'[q].got = req[q].got
      /\ a # None => /\ IsChunk(m, a) => req'[a].got = req[a].got + 1
                     /\ ~IsChunk(m, a) => req'[a].got = req[a].got
    BY DEF Collects
<1>0. /\ d.inbox = child[c].inbox /\ d.job = child[c].job /\ d.soiled = child[c].soiled
      /\ d.overlapped = child[c].overlapped /\ d.state = child[c].state
      /\ d.retired = child[c].retired /\ d.slot = child[c].slot
    BY DEF OnlyRead
<1>1. /\ child[c] \in Child /\ Fit(child[c]) /\ Still(child[c]) /\ a \in Requests \cup {None}
      /\ child[c].outbox \in Seq(Envelope) /\ child[c].slot \in Slots
    BY ActiveFacts, ChildFacts
<1>2. \A i \in 1 .. Len(d.outbox) :
        \E j \in 1 .. Len(child[c].outbox) : child[c].outbox[j] = d.outbox[i]
    <2>1. CASE d.outbox = <<>>
        BY <2>1
    <2>2. CASE d.outbox = Tail(child[c].outbox)
        <3>1. /\ Len(d.outbox) = Len(child[c].outbox) - 1 /\ Len(child[c].outbox) \in Nat
              /\ \A i \in 1 .. Len(d.outbox) : d.outbox[i] = child[c].outbox[i + 1]
            BY <1>1, <2>2, HeadTailProperties
        <3>2. \A i \in 1 .. Len(d.outbox) : i + 1 \in 1 .. Len(child[c].outbox)
            BY <3>1
        <3> QED BY <3>1, <3>2
    <2> QED BY <2>1, <2>2
<1>3. ASSUME ~d.retired PROVE Sound(d, a, req'[a])
    <2>1. d.outbox = Tail(child[c].outbox) /\ m.type # "result" /\ Sound(child[c], a, req[a])
        BY <1>0, <1>3, ActiveFacts
    <2>2. CASE a = None
        <3>1. Idle(child[c]) /\ (child[c].soiled => child[c].state = "dead")
            BY <2>1, <2>2 DEF Sound, Its, Admits, Idle
        <3>2. ResultsIn(d) = {}
            <4> SUFFICES ASSUME NEW i \in 1 .. Len(d.outbox), d.outbox[i].type = "result" PROVE FALSE
                BY DEF ResultsIn
            <4>1. PICK j \in 1 .. Len(child[c].outbox) : child[c].outbox[j] = d.outbox[i]
                BY <1>2
            <4>2. j \in ResultsIn(child[c])
                BY <4>1 DEF ResultsIn
            <4> QED BY <3>1, <4>2 DEF Idle
        <3>3. RunsIn(d) = RunsIn(child[c])
            BY <1>0 DEF RunsIn
        <3>4. Idle(d)
            BY <1>0, <3>1, <3>2, <3>3 DEF Idle
        <3> QED BY <1>0, <2>2, <3>1, <3>4, IdleSound
    <2>3. CASE a # None
        <3>1. a \in Requests /\ req[a].got \in Nat /\ req[a].parts \in Nat
            BY <1>1, <2>3, ActiveFacts
        <3>2. PICK q : q = req[a]
            OBVIOUS
        <3>3. PICK p : p = req'[a]
            OBVIOUS
        <3>4. /\ q.got \in Nat /\ q.parts \in Nat /\ p.parts = q.parts
              /\ IsChunk(m, a) => p.got = q.got + 1
              /\ ~IsChunk(m, a) => p.got = q.got
            BY <1>a, <2>3, <3>1, <3>2, <3>3
        <3>5. PICK x : x = child[c]
            OBVIOUS
        <3>6. x \in Child /\ x.outbox # <<>> /\ m = Head(x.outbox) /\ Sound(x, a, q)
            BY <1>1, <2>1, <3>2, <3>5
        <3>7. /\ d.outbox = Tail(x.outbox) /\ d.inbox = x.inbox /\ d.job = x.job
              /\ d.soiled = x.soiled /\ d.state = x.state
            BY <1>0, <2>1, <3>5
        <3>8. Sound(d, a, p)
            BY <2>1, <3>4, <3>6, <3>7, Reads
        <3> QED BY <3>3, <3>8
    <2> QED BY <2>2, <2>3
<1>4. Fit(d) /\ Still(d)
    <2>1. RunsIn(d) = RunsIn(child[c])
        BY <1>0 DEF RunsIn
    <2> QED BY <1>0, <1>1, <2>1 DEF Fit, Still
<1>5. Active(c)' = a
    <2>1. child'[c] = d
        BY DEF IInv, TypeOK
    <2> QED BY <1>0, <2>1 DEF Active
<1>6. Channel'
    <2>1. ~d.retired => Sound(d, Active(c)', req'[Active(c)'])
        BY <1>3, <1>5
    <2>2. a # None => req[a].slot = child[c].slot
        BY ActiveFacts
    <2>3. \A q \in Requests : req[q].slot # child[c].slot \/ child[c].retired =>
            req'[q].got = req[q].got /\ req'[q].parts = req[q].parts
        BY <1>a, <2>2, NoneFacts
    <2> QED BY <1>4, <2>1, <2>3, Touched
<1>7. Answers'
    <2>1. \A q \in Requests : q = a => req[q].run = "running"
        BY NoneFacts, ActiveFacts
    <2>2. \A q \in Requests : Answered(req'[q])
        BY <1>a, <2>1, RunningAnswered DEF Answers
    <2> QED BY <1>a, <1>2, <2>2, TouchedAnswers
<1> QED BY <1>6, <1>7

\* A result ends the run it is for, with all its chunks, and leaves a child that
\* can take another, or one that is let go.
LEMMA ResultKeeps ==
    ASSUME IInv, Channel, Answers, NEW c \in Children, child[c] # Unborn, NEW m \in Envelope,
           child[c].outbox # <<>>, m = Head(child[c].outbox), m.type = "result",
           Heard(c, m), ResultArrives(c, m)
    PROVE  Channel' /\ Answers'
<1>1. PICK s : s = child[c].slot
    OBVIOUS
<1>2. PICK r : r = m.job
    OBVIOUS
<1>3. /\ s \in Slots /\ slot[s].child = c /\ r \in Requests /\ slot[s].active = r
      /\ req[r].run = "running" /\ req[r].slot = s /\ ~child[c].retired /\ Active(c) = r
    BY <1>1, <1>2, HeardFacts DEF Active
<1>4. /\ child[c] \in Child /\ Sound(child[c], r, req[r]) /\ Fit(child[c]) /\ Still(child[c])
      /\ req[r] \in Request /\ req[r].got \in Nat /\ req[r].parts \in Nat
      /\ child[c].outbox \in Seq(Envelope)
    BY <1>3, NoneFacts, ActiveFacts, ChildFacts
<1>5. PICK b : b = [child[c] EXCEPT !.outbox = Tail(child[c].outbox)]
    OBVIOUS
<1>6. PICK d : d = IF m.mark = "good" THEN b ELSE Retired(b)
    OBVIOUS
<1>7. child' = [child EXCEPT ![c] = d]
    BY <1>4, <1>5, <1>6 DEF ResultArrives, IInv, TypeOK
<1>8. /\ b \in Child /\ b.outbox = Tail(child[c].outbox) /\ b.inbox = child[c].inbox
      /\ b.job = child[c].job /\ b.soiled = child[c].soiled /\ b.state = child[c].state
      /\ b.overlapped = child[c].overlapped /\ b.slot = s
    <2>1. Tail(child[c].outbox) \in Seq(Envelope)
        BY <1>4, HeadTailProperties
    <2> QED BY <1>1, <1>4, <1>5, <2>1 DEF Child
<1>9. /\ req[r].got = req[r].parts /\ Idle(b)
      /\ b.soiled => b.state = "dead" \/ m.mark = "dirty"
    <2>1. PICK x : x = child[c]
        OBVIOUS
    <2>2. PICK q : q = req[r]
        OBVIOUS
    <2>3. /\ x \in Child /\ x.outbox # <<>> /\ m = Head(x.outbox) /\ Sound(x, r, q)
          /\ b.outbox = Tail(x.outbox) /\ b.inbox = x.inbox /\ b.job = x.job
          /\ q.got \in Nat /\ q.parts \in Nat
        BY <1>4, <1>8, <2>1, <2>2
    <2>4. q.got = q.parts /\ Idle(b) /\ (x.soiled => x.state = "dead" \/ m.mark = "dirty")
        BY <2>3, ReadsResult
    <2> QED BY <1>8, <2>1, <2>2, <2>4
<1>10. SameChannel(b, d) /\ d.slot = s /\ (m.mark # "good" => d.retired)
    <2>1. Spared(b, Retired(b)) /\ Spared(b, b)
        BY <1>8, RetiredSpared
    <2>2. Retired(b).retired
        BY <1>8, RetiredFacts
    <2> QED BY <1>6, <1>8, <2>1, <2>2 DEF Spared
<1>11. Idle(d)
    <2>1. RunsIn(d) = RunsIn(b) /\ ResultsIn(d) = ResultsIn(b)
        BY <1>10 DEF SameChannel, RunsIn, ResultsIn
    <2> QED BY <1>9, <1>10, <2>1 DEF Idle, SameChannel
<1>12. \A a, q : ~d.retired => Sound(d, a, q)
    <2> SUFFICES ASSUME NEW a, NEW q, ~d.retired PROVE Sound(d, a, q)
        OBVIOUS
    <2>1. d.soiled => d.state = "dead"
        BY <1>9, <1>10 DEF SameChannel
    <2> QED BY <1>11, <2>1, IdleSound
<1>13. Fit(d) /\ Still(d)
    BY <1>4, <1>8, <1>10, <1>11 DEF Fit, Still, SameChannel, Idle
<1>14. PICK k : k = IF m.mark = "garbled" THEN "failed" ELSE "result"
    OBVIOUS
<1>15. PICK p : p = Ended(req[r], k)
    OBVIOUS
<1>16. req'[r] = p /\ \A q \in Requests : q # r => req'[q] = req[q]
    BY <1>2, <1>3, <1>14, <1>15 DEF ResultArrives, IInv, TypeOK
<1>17. Answered(p) /\ p.run = "ended"
    <2>1. p.run = "ended" /\ p.answer = k /\ k \in {"result", "failed"}
        BY <1>4, <1>14, <1>15, EndedFacts
    <2>2. CASE k = "result"
        BY <1>4, <1>9, <1>15, <2>1, <2>2, EndedCollected
    <2>3. CASE k = "failed"
        BY <2>1, <2>3 DEF Answered
    <2> QED BY <2>1, <2>2, <2>3
<1>18. \A t \in Slots : t # s => slot'[t].active = slot[t].active
    BY <1>1 DEF ResultArrives, IInv, TypeOK
<1>19. Channel'
    <2>1. ~d.retired => Sound(d, Active(c)', req'[Active(c)'])
        BY <1>12
    <2>2. \A q \in Requests : req[q].slot # child[c].slot \/ child[c].retired =>
            req'[q].got = req[q].got /\ req'[q].parts = req[q].parts
        BY <1>1, <1>3, <1>16
    <2>3. \A t \in Slots : t # child[c].slot \/ child[c].retired => slot'[t].active = slot[t].active
        BY <1>1, <1>3, <1>18
    <2> QED BY <1>7, <1>13, <2>1, <2>2, <2>3, Touched
<1>20. Answers'
    <2>1. /\ Len(d.outbox) = Len(child[c].outbox) - 1 /\ Len(child[c].outbox) \in Nat
          /\ \A i \in 1 .. Len(d.outbox) : d.outbox[i] = child[c].outbox[i + 1]
        BY <1>4, <1>8, <1>10, HeadTailProperties DEF SameChannel
    <2>2. \A i \in 1 .. Len(d.outbox) : i + 1 \in 1 .. Len(child[c].outbox)
        BY <2>1
    <2>3. \A i \in 1 .. Len(d.outbox) :
            \E j \in 1 .. Len(child[c].outbox) : child[c].outbox[j] = d.outbox[i]
        BY <2>1, <2>2
    <2>4. \A q \in Requests :
            /\ Answered(req'[q])
            /\ req[q].run \in {"running", "ended"} => req'[q].run \in {"running", "ended"}
        BY <1>16, <1>17 DEF Answers
    <2> QED BY <1>7, <2>3, <2>4, TouchedAnswers
<1> QED BY <1>19, <1>20

\* A message that nobody hears is dropped, and is none of the active run's.
LEMMA UnheardKeeps ==
    ASSUME IInv, Channel, Answers, NEW c \in Children, child[c] # Unborn,
           NEW m, child[c].outbox # <<>>, m = Head(child[c].outbox),
           NEW d, child' = [child EXCEPT ![c] = d],
           d.outbox = Tail(child[c].outbox) \/ (child[c].retired /\ d.outbox = <<>>),
           OnlyRead(child[c], d), UNCHANGED slot, UNCHANGED req,
           m.type # "result" \/ child[c].retired,
           ~child[c].retired => ~IsChunk(m, Active(c))
    PROVE  Channel' /\ Answers'
<1>1. /\ child[c] \in Child /\ Fit(child[c]) /\ Still(child[c])
      /\ child[c].outbox \in Seq(Envelope)
    BY ActiveFacts, ChildFacts
<1>2. /\ d.inbox = child[c].inbox /\ d.job = child[c].job
      /\ d.overlapped = child[c].overlapped /\ d.soiled = child[c].soiled
      /\ d.state = child[c].state /\ d.retired = child[c].retired
    BY DEF OnlyRead
<1>3. CASE child[c].retired
    <2>1. Fit(d) /\ Still(d)
        <3>1. RunsIn(d) = RunsIn(child[c])
            BY <1>2 DEF RunsIn
        <3> QED BY <1>1, <1>2, <3>1 DEF Fit, Still
    <2>2. Channel'
        BY <1>2, <1>3, <2>1, Touched
    <2>3. \A i \in 1 .. Len(d.outbox) :
            \E j \in 1 .. Len(child[c].outbox) : child[c].outbox[j] = d.outbox[i]
        <3>1. CASE d.outbox = <<>>
            BY <3>1
        <3>2. CASE d.outbox = Tail(child[c].outbox)
            <4>1. /\ Len(d.outbox) = Len(child[c].outbox) - 1 /\ Len(child[c].outbox) \in Nat
                  /\ \A i \in 1 .. Len(d.outbox) : d.outbox[i] = child[c].outbox[i + 1]
                BY <1>1, <3>2, HeadTailProperties
            <4>2. \A i \in 1 .. Len(d.outbox) : i + 1 \in 1 .. Len(child[c].outbox)
                BY <4>1
            <4> QED BY <4>1, <4>2
        <3> QED BY <3>1, <3>2
    <2>4. \A q \in Requests : Answered(req'[q]) /\ req'[q] = req[q]
        BY DEF Answers
    <2> QED BY <2>2, <2>3, <2>4, TouchedAnswers
<1>4. CASE ~child[c].retired
    <2>1. PICK a : a = Active(c)
        OBVIOUS
    <2>2. Collects(m, a)
        BY <1>4, <2>1 DEF Collects
    <2> QED BY <1>4, <2>1, <2>2, ReadKeeps
<1> QED BY <1>3, <1>4

LEMMA MessageKeeps ==
    ASSUME IInv, Channel, Answers, NEW c \in Children, Message(c)
    PROVE  Channel' /\ Answers'
<1>1. PICK m : m = Head(child[c].outbox)
    OBVIOUS
<1>2. PICK a : a = Active(c)
    OBVIOUS
<1>3. /\ child[c] # Unborn /\ child[c] \in Child /\ child \in [Children -> Child]
      /\ child[c].outbox # <<>> /\ child[c].outbox \in Seq(Envelope) /\ m \in Envelope
    BY <1>1, ChildFacts, HeadTailProperties DEF Message
<1>4. a \in Requests \cup {None} /\ req \in [Requests -> Request]
    BY <1>2, <1>3, ActiveFacts DEF IInv, TypeOK
<1>7. CASE m.type = "ready" /\ ReadyArrives(c)
    <2>1. PICK y : y = IF slot[child[c].slot].child = c /\ child[c].ready = "pending" THEN "ok"
                       ELSE child[c].ready
        OBVIOUS
    <2>2. PICK o : o = Tail(child[c].outbox)
        OBVIOUS
    <2>3. PICK d : d = [child[c] EXCEPT !.outbox = o, !.ready = y]
        OBVIOUS
    <2>4. child' = [child EXCEPT ![c] = d] /\ UNCHANGED req /\ UNCHANGED slot
        BY <1>7, <2>1, <2>2, <2>3 DEF ReadyArrives
    <2>5. OnlyRead(child[c], d) /\ d.outbox = Tail(child[c].outbox)
        BY <1>3, <2>2, <2>3 DEF Child, OnlyRead
    <2>6. m.type # "result" /\ ~IsChunk(m, Active(c))
        BY <1>7 DEF IsChunk
    <2> QED BY <1>1, <1>3, <2>4, <2>5, <2>6, UnheardKeeps
<1>8. CASE /\ ~Heard(c, m)
           /\ child' = [child EXCEPT ![c].outbox = IF child[c].retired THEN <<>> ELSE Tail(@)]
           /\ UNCHANGED <<req, slot>>
    <2>1. PICK o : o = IF child[c].retired THEN <<>> ELSE Tail(child[c].outbox)
        OBVIOUS
    <2>2. PICK y : y = child[c].ready
        OBVIOUS
    <2>3. PICK d : d = [child[c] EXCEPT !.outbox = o, !.ready = y]
        OBVIOUS
    <2>4. child' = [child EXCEPT ![c] = d] /\ UNCHANGED req /\ UNCHANGED slot
        <3>1. d = [child[c] EXCEPT !.outbox = o]
            BY <1>3, <2>2, <2>3 DEF Child
        <3> QED BY <1>8, <2>1, <3>1
    <2>5. OnlyRead(child[c], d) /\ d.outbox = o
        BY <1>3, <2>3 DEF Child, OnlyRead
    <2>6. d.outbox = Tail(child[c].outbox) \/ (child[c].retired /\ d.outbox = <<>>)
        BY <2>1, <2>5
    <2>7. ~child[c].retired => m.job # a \/ a = None
        BY <1>2, <1>3, <1>8, ActiveFacts DEF Heard, Active
    <2>8. ASSUME ~child[c].retired, m.type = "result" PROVE FALSE
        <3>1. Sound(child[c], a, req[a])
            BY <1>2, <1>3, <2>8, ActiveFacts
        <3>2. m = child[c].outbox[1] /\ 1 \in 1 .. Len(child[c].outbox)
            BY <1>1, <1>3, HeadTailProperties
        <3>3. 1 \in ResultsIn(child[c])
            BY <2>8, <3>2 DEF ResultsIn
        <3>4. m.job = a /\ a # None
            BY <3>1, <3>2, <3>3 DEF Sound, Its
        <3> QED BY <2>7, <2>8, <3>4
    <2>9. ~child[c].retired => ~IsChunk(m, Active(c))
        <3> SUFFICES ASSUME ~child[c].retired, m.type = "result-chunk", m.job = a PROVE FALSE
            BY <1>2 DEF IsChunk
        <3>1. a = None
            BY <2>7
        <3>2. m = child[c].outbox[1] /\ 1 \in 1 .. Len(child[c].outbox)
            BY <1>1, <1>3, HeadTailProperties
        <3>3. m.job \in Requests
            BY <3>2 DEF Answers, Begun
        <3> QED BY <3>1, <3>3, NoneFacts
    <2>10. m.type # "result" \/ child[c].retired
        BY <2>8
    <2> QED BY <1>1, <1>3, <2>4, <2>5, <2>6, <2>9, <2>10, UnheardKeeps
<1>9. CASE m.type = "host-call" /\ Heard(c, m) /\ HostCallArrives(c, m.job)
    <2>1. m.job = a /\ a \in Requests /\ req[a] \in Request /\ ~child[c].retired
        BY <1>2, <1>3, <1>4, <1>9, HeardFacts DEF Active
    <2>2. PICK p : p = [req[a] EXCEPT !.call = "open"]
        OBVIOUS
    <2>3. p.run = req[a].run /\ p.answer = req[a].answer /\ p.parts = req[a].parts /\ p.got = req[a].got
        BY <2>1, <2>2 DEF Request
    <2>4. req' = [req EXCEPT ![a] = p]
        BY <1>9, <2>1, <2>2 DEF HostCallArrives
    <2>5. req'[a] = p /\ \A q \in Requests : q # a => req'[q] = req[q]
        BY <1>4, <2>1, <2>4
    <2>6. ~IsChunk(m, a) /\ req'[a].got = req[a].got
        BY <1>9, <2>1, <2>3, <2>5 DEF IsChunk
    <2>7. Collects(m, a)
        BY <2>3, <2>5, <2>6 DEF Collects
    <2>8. PICK d : d = [child[c] EXCEPT !.outbox = Tail(child[c].outbox)]
        OBVIOUS
    <2>9. OnlyRead(child[c], d) /\ d.outbox = Tail(child[c].outbox)
        BY <1>3, <2>8 DEF Child, OnlyRead
    <2>10. child' = [child EXCEPT ![c] = d] /\ UNCHANGED slot /\ m.type # "result"
        BY <1>9, <2>8 DEF HostCallArrives
    <2> QED BY <1>1, <1>2, <1>3, <2>1, <2>7, <2>9, <2>10, ReadKeeps
<1>10. CASE m.type = "result-chunk" /\ Heard(c, m) /\ ChunkArrives(c, m.job)
    <2>1. m.job = a /\ a \in Requests /\ req[a] \in Request /\ ~child[c].retired
        BY <1>2, <1>3, <1>4, <1>10, HeardFacts DEF Active
    <2>2. PICK p : p = [req[a] EXCEPT !.got = req[a].got + 1]
        OBVIOUS
    <2>3. p.run = req[a].run /\ p.answer = req[a].answer /\ p.parts = req[a].parts /\ p.got = req[a].got + 1
        BY <2>1, <2>2 DEF Request
    <2>4. req' = [req EXCEPT ![a] = p]
        BY <1>10, <2>1, <2>2 DEF ChunkArrives
    <2>5. req'[a] = p /\ \A q \in Requests : q # a => req'[q] = req[q]
        BY <1>4, <2>1, <2>4
    <2>6. IsChunk(m, a) /\ req'[a].got = req[a].got + 1
        BY <1>10, <2>1, <2>3, <2>5 DEF IsChunk
    <2>7. Collects(m, a)
        BY <2>3, <2>5, <2>6 DEF Collects
    <2>8. PICK d : d = [child[c] EXCEPT !.outbox = Tail(child[c].outbox)]
        OBVIOUS
    <2>9. OnlyRead(child[c], d) /\ d.outbox = Tail(child[c].outbox)
        BY <1>3, <2>8 DEF Child, OnlyRead
    <2>10. child' = [child EXCEPT ![c] = d] /\ UNCHANGED slot /\ m.type # "result"
        BY <1>10, <2>8 DEF ChunkArrives
    <2> QED BY <1>1, <1>2, <1>3, <2>1, <2>7, <2>9, <2>10, ReadKeeps
<1>11. CASE m.type = "result" /\ Heard(c, m) /\ ResultArrives(c, m)
    BY <1>1, <1>3, <1>11, ResultKeeps
<1> QED BY <1>1, <1>7, <1>8, <1>9, <1>10, <1>11 DEF Message

-----------------------------------------------------------------------------
(* What is left of a child once it was let go. *)

LEMMA KeptGoner ==
    ASSUME NEW d, NEW e, e.retired = d.retired, e.finished = d.finished,
           e.exited = d.exited, e.killed = d.killed
    PROVE  Goner(d, e)
BY DEF Goner, Buried

LEMMA OneGoner ==
    ASSUME IInv, NEW c \in Children, NEW d, child' = [child EXCEPT ![c] = d], Goner(child[c], d)
    PROVE  \A e \in Children : Goner(child[e], child'[e])
<1>1. child'[c] = d /\ \A e \in Children : e # c => child'[e] = child[e]
    BY DEF IInv, TypeOK
<1>2. \A e \in Children : Goner(child[e], child[e])
    BY DEF Goner
<1> QED BY <1>1, <1>2

Kept(d, e) ==
    /\ e.retired = d.retired /\ e.finished = d.finished
    /\ e.exited = d.exited /\ e.killed = d.killed

LEMMA OneKept ==
    ASSUME NEW c \in Children, Kept(child[c], child'[c]),
           \A e \in Children : e # c => child'[e] = child[e]
    PROVE  \A e \in Children : Goner(child[e], child'[e])
<1>1. Goner(child[c], child'[c])
    BY KeptGoner DEF Kept
<1>2. \A e \in Children : e # c => Goner(child[e], child'[e])
    BY DEF Goner
<1> QED BY <1>1, <1>2

\* A step of the process itself.
LEMMA AnswersGoner ==
    ASSUME IInv, NEW c \in Children, ChildAnswers(c)
    PROVE  \A e \in Children : Goner(child[e], child'[e])
<1> DEFINE r == child[c].job
<1>1. child[c] \in Child /\ child \in [Children -> Child]
    BY DEF IInv, TypeOK
<1>2. PICK n \in 0 .. MaxChunks, mark \in {"good"} \cup (Faults \cap {"garbled", "dirty"}) :
        /\ req' = [req EXCEPT ![r].parts = n]
        /\ child' = [child EXCEPT
            ![c].outbox = @ \o [i \in 1 .. n |-> Msg("result-chunk", r, "good")]
                            \o <<Msg("result", r, mark)>>,
            ![c].soiled = mark = "dirty",
            ![c].job = None]
    BY DEF ChildAnswers
<1>3. PICK o : o = child[c].outbox \o [i \in 1 .. n |-> Msg("result-chunk", r, "good")]
                                   \o <<Msg("result", r, mark)>>
    OBVIOUS
<1>4. PICK v : v = (mark = "dirty")
    OBVIOUS
<1>5. PICK d : d = [child[c] EXCEPT !.outbox = o, !.soiled = v, !.job = None]
    OBVIOUS
<1>6. child' = [child EXCEPT ![c] = d]
    BY <1>2, <1>3, <1>4, <1>5
<1>7. child'[c] = d /\ \A e \in Children : e # c => child'[e] = child[e]
    BY <1>1, <1>6
<1>8. Kept(child[c], d)
    BY <1>1, <1>5 DEF Child, Kept
<1> QED BY <1>7, <1>8, OneKept

LEMMA ProcessGoner ==
    ASSUME IInv, NEW c \in Children,
           ChildReady(c) \/ ChildReceives(c) \/ ChildCalls(c) \/ ChildAnswers(c) \/ Die(c)
    PROVE  \A e \in Children : Goner(child[e], child'[e])
<1>1. child[c] \in Child /\ child \in [Children -> Child]
    BY DEF IInv, TypeOK
<1>2. CASE ChildReady(c)
    <2>1. Kept(child[c], child'[c])
        BY <1>1, <1>2 DEF ChildReady, Child, Kept
    <2>2. \A e \in Children : e # c => child'[e] = child[e]
        BY <1>1, <1>2 DEF ChildReady
    <2> QED BY <2>1, <2>2, OneKept
<1>3. CASE ChildReceives(c)
    <2>1. Kept(child[c], child'[c])
        BY <1>1, <1>3 DEF ChildReceives, Child, Kept
    <2>2. \A e \in Children : e # c => child'[e] = child[e]
        BY <1>1, <1>3 DEF ChildReceives
    <2> QED BY <2>1, <2>2, OneKept
<1>4. CASE ChildCalls(c)
    <2>1. Kept(child[c], child'[c])
        BY <1>1, <1>4 DEF ChildCalls, Child, Kept
    <2>2. \A e \in Children : e # c => child'[e] = child[e]
        BY <1>1, <1>4 DEF ChildCalls
    <2> QED BY <2>1, <2>2, OneKept
<1>5. CASE ChildAnswers(c)
    BY <1>5, AnswersGoner
<1>6. CASE Die(c)
    <2>1. PICK kept \in 0 .. Len(child[c].outbox) :
            child' = [child EXCEPT ![c].state = "dead", ![c].job = None, ![c].inbox = <<>>,
                                   ![c].outbox = IF child[c].retired THEN <<>> ELSE SubSeq(@, 1, kept)]
        BY <1>6 DEF Die
    <2>2. PICK o : o = IF child[c].retired THEN <<>> ELSE SubSeq(child[c].outbox, 1, kept)
        OBVIOUS
    <2>3. PICK d : d = [child[c] EXCEPT !.state = "dead", !.job = None, !.inbox = <<>>, !.outbox = o]
        OBVIOUS
    <2>4. child' = [child EXCEPT ![c] = d]
        BY <2>1, <2>2, <2>3
    <2>5. child'[c] = d /\ \A e \in Children : e # c => child'[e] = child[e]
        BY <1>1, <2>4
    <2>6. Kept(child[c], d)
        BY <1>1, <2>3 DEF Child, Kept
    <2> QED BY <2>5, <2>6, OneKept
<1> QED BY <1>2, <1>3, <1>4, <1>5, <1>6

\* A message that is read, or sent.
LEMMA MessageGoner ==
    ASSUME IInv, NEW c \in Children, Message(c)
    PROVE  \A e \in Children : Goner(child[e], child'[e])
<1>1. child[c] \in Child /\ child \in [Children -> Child]
    BY DEF IInv, TypeOK
<1>2. PICK m : m = Head(child[c].outbox)
    OBVIOUS
<1>3. CASE ReadyArrives(c)
    <2>1. Kept(child[c], child'[c])
        BY <1>1, <1>3 DEF ReadyArrives, Child, Kept
    <2>2. \A e \in Children : e # c => child'[e] = child[e]
        BY <1>1, <1>3 DEF ReadyArrives
    <2> QED BY <2>1, <2>2, OneKept
<1>4. CASE \/ child' = [child EXCEPT ![c].outbox = IF child[c].retired THEN <<>> ELSE Tail(@)]
           \/ child' = [child EXCEPT ![c].outbox = Tail(@)]
    <2>1. Kept(child[c], child'[c])
        BY <1>1, <1>4 DEF Child, Kept
    <2>2. \A e \in Children : e # c => child'[e] = child[e]
        BY <1>1, <1>4
    <2> QED BY <2>1, <2>2, OneKept
<1>5. CASE ResultArrives(c, m)
    <2>1. PICK b : b = [child[c] EXCEPT !.outbox = Tail(child[c].outbox)]
        OBVIOUS
    <2>2. PICK d : d = IF m.mark = "good" THEN b ELSE Retired(b)
        OBVIOUS
    <2>3. child' = [child EXCEPT ![c] = d]
        BY <1>1, <1>5, <2>1, <2>2 DEF ResultArrives
    <2>4. Kept(child[c], b)
        BY <1>1, <2>1 DEF Child, Kept
    <2>5. Goner(b, Retired(b))
        <3>1. \/ Retired(b).killed = b.killed
              \/ ~b.exited /\ ~b.retired
            BY <1>1, <2>1 DEF Retired, Child
        <3>2. Retired(b).retired /\ Retired(b).finished = b.finished /\ Retired(b).exited = b.exited
            BY <1>1, <2>1 DEF Retired, Child
        <3> QED BY <3>1, <3>2 DEF Goner, Buried
    <2>6. Goner(child[c], d)
        <3>1. Goner(child[c], b)
            BY <2>4, KeptGoner DEF Kept
        <3> QED BY <2>2, <2>5, <3>1 DEF Goner
    <2> QED BY <2>3, <2>6, OneGoner
<1>6. \/ ReadyArrives(c) \/ ResultArrives(c, m)
      \/ child' = [child EXCEPT ![c].outbox = IF child[c].retired THEN <<>> ELSE Tail(@)]
      \/ HostCallArrives(c, m.job) \/ ChunkArrives(c, m.job)
    BY <1>2 DEF Message
<1>7. CASE HostCallArrives(c, m.job) \/ ChunkArrives(c, m.job)
    BY <1>4, <1>7 DEF HostCallArrives, ChunkArrives
<1> QED BY <1>3, <1>4, <1>5, <1>6, <1>7

LEMMA SentGoner ==
    ASSUME IInv, NEW c, NEW m, child' = [child EXCEPT ![c] = Sent(@, m)]
    PROVE  \A e \in Children : Goner(child[e], child'[e])
<1>1. CASE c \in Children
    <2>1. PICK d : d = Sent(child[c], m)
        OBVIOUS
    <2>2. child'[c] = d /\ \A e \in Children : e # c => child'[e] = child[e]
        BY <1>1, <2>1 DEF IInv, TypeOK
    <2>3. child[c] \in Child
        BY <1>1 DEF IInv, TypeOK
    <2>4. Kept(child[c], d)
        <3>1. CASE child[c].state = "dead"
            BY <2>1, <2>3, <3>1 DEF Sent, Child, Kept
        <3>2. CASE child[c].state # "dead"
            BY <2>1, <2>3, <3>2 DEF Sent, Child, Kept
        <3> QED BY <3>1, <3>2
    <2> QED BY <1>1, <2>2, <2>4, OneKept
<1>2. CASE c \notin Children
    <2>1. \A e \in Children : child'[e] = child[e]
        BY <1>2 DEF IInv, TypeOK
    <2> QED BY <2>1 DEF Goner
<1> QED BY <1>1, <1>2

LEMMA DispatchGoner ==
    ASSUME IInv, NEW r \in Requests, Dispatch(r)
    PROVE  \A e \in Children : Goner(child[e], child'[e])
<1> DEFINE s == req[r].slot
           c == slot[s].child
<1>1. CASE req' = [req EXCEPT ![r] = Ended(@, "failed")] /\ UNCHANGED <<slot, child>>
    BY <1>1 DEF Goner
<1>2. CASE /\ c # None
           /\ req' = [req EXCEPT ![r].run = "running", ![r].child = c]
           /\ slot' = [slot EXCEPT ![s].active = r]
           /\ child' = [child EXCEPT ![c] = Sent(@, Msg("run", r, "good"))]
    BY <1>2, SentGoner
<1> QED BY <1>1, <1>2 DEF Dispatch

LEMMA HostReturnsGoner ==
    ASSUME IInv, NEW r \in Requests, HostReturns(r)
    PROVE  \A e \in Children : Goner(child[e], child'[e])
<1>1. CASE UNCHANGED child
    BY <1>1 DEF Goner
<1>2. CASE child' = [child EXCEPT ![req[r].child] = Sent(@, Msg("host-result", r, "good"))]
    BY <1>2, SentGoner
<1> QED BY <1>1, <1>2 DEF HostReturns

\* What close() waits for is every child there is, on its slot or already let go.
LEMMA CloseReaped == ASSUME IInv, Reaped, Close PROVE Reaped'
<1>1. \A c \in Children : Goner(child[c], child'[c])
    <2>1. \A c \in Children : child'[c] = child[c] \/ child'[c] = Retired(child[c])
        BY DEF Close
    <2>2. \A c \in Children : Spared(child[c], child[c]) /\ Spared(child[c], Retired(child[c]))
        BY RetiredSpared DEF IInv, TypeOK
    <2> QED BY <2>1, <2>2 DEF Spared, Goner
<1>2. \A c \in Children : Buried(child'[c])
    BY <1>1 DEF Reaped, Goner
<1>3. spawned' = spawned /\ pool' = "closing"
    BY DEF Close
<1>4. ASSUME NEW c \in 1 .. spawned PROVE c \in Children /\ child'[c].retired
    <2>1. c \in Children /\ c <= spawned
        BY <1>4, BoundsNatural DEF IInv, TypeOK, Children
    <2>2. CASE child[c].retired
        BY <1>1, <2>1, <2>2 DEF Goner
    <2>3. CASE ~child[c].retired
        <3>1. slot[child[c].slot].child = c /\ child[c].slot \in Slots
            BY <1>4, <2>1, <2>3 DEF IInv, NoOrphan, Forked
        <3>2. child'[c] = Retired(child[c])
            BY <2>1, <3>1 DEF Close
        <3> QED BY <2>1, <3>2, RetiredFacts DEF IInv, TypeOK
    <2> QED BY <2>1, <2>2, <2>3
<1>5. awaited' = {c \in Children : child'[c].retired /\ ~child'[c].finished}
    BY DEF Close
<1>6. \A c \in 1 .. spawned : child'[c].finished \/ c \in awaited'
    BY <1>4, <1>5
<1> QED BY <1>2, <1>3, <1>4, <1>6 DEF Reaped

LEMMA CloseReturnsReaped == ASSUME IInv, Reaped, CloseReturns PROVE Reaped'
<1>1. UNCHANGED <<child, spawned>> /\ pool = "closing" /\ pool' = "closed"
    BY DEF CloseReturns
<1>2. \A c \in awaited : child[c].finished
    BY DEF CloseReturns
<1> QED BY <1>1, <1>2 DEF Reaped

\* Nothing is forked once the close began.
LEMMA ForksOpen ==
    ASSUME IInv, NEW r \in Requests, Execute(r) \/ Restart(r)
    PROVE  pool # "open" => spawned' = spawned
BY DEF Execute, Restart, Refused

LEMMA GentleReaped ==
    ASSUME IInv, Reaped, Gentle, pool' = pool, UNCHANGED awaited,
           pool # "open" => spawned' = spawned
    PROVE  Reaped'
<1>1. \A c \in Children : \/ Goner(child[c], child'[c])
                          \/ pool = "open" /\ ~child'[c].finished
    BY DEF Gentle, Spared, Fresh
<1>2. spawned \in 0 .. MaxChildren
    BY DEF IInv, TypeOK
<1> QED BY <1>1, <1>2, ReapedKeeps

LEMMA GonerReaped ==
    ASSUME IInv, Reaped, \A c \in Children : Goner(child[c], child'[c]),
           UNCHANGED <<spawned, pool, awaited>>
    PROVE  Reaped'
<1>1. spawned \in 0 .. MaxChildren
    BY DEF IInv, TypeOK
<1> QED BY <1>1, ReapedKeeps

LEMMA RequestReaped ==
    ASSUME IInv, Reaped, NEW r \in Requests,
           \/ Grant(r) \/ Lease(r) \/ Execute(r) \/ Release(r)
           \/ Restart(r) \/ Dispatch(r) \/ StartFails(r)
           \/ Abort(r) \/ Interrupt(r) \/ Deadline(r)
           \/ HostReturns(r)
    PROVE  Reaped'
<1>1. CASE Execute(r) \/ Restart(r)
    <2>1. Gentle
        BY <1>1, ExecuteGentle, RunsGentle
    <2>2. pool' = pool /\ UNCHANGED awaited
        BY <1>1 DEF Execute, Restart
    <2>3. pool # "open" => spawned' = spawned
        BY <1>1, ForksOpen
    <2> QED BY <2>1, <2>2, <2>3, GentleReaped
<1>2. CASE Dispatch(r) \/ HostReturns(r)
    <2>1. \A c \in Children : Goner(child[c], child'[c])
        BY <1>2, DispatchGoner, HostReturnsGoner
    <2>2. UNCHANGED <<spawned, pool, awaited>>
        BY <1>2 DEF Dispatch, HostReturns
    <2> QED BY <2>1, <2>2, GonerReaped
<1>3. CASE \/ Grant(r) \/ Lease(r) \/ Release(r) \/ StartFails(r)
           \/ Abort(r) \/ Interrupt(r) \/ Deadline(r)
    <2>1. Gentle
        BY <1>3, LeasesGentle, RunsGentle
    <2>2. UNCHANGED <<spawned, pool, awaited>>
        <3>1. CASE Grant(r) \/ Lease(r) \/ Release(r) \/ StartFails(r)
            BY <3>1 DEF Grant, Lease, Release, StartFails
        <3>2. CASE Abort(r) \/ Interrupt(r) \/ Deadline(r)
            BY <3>2 DEF Abort, Interrupt, Deadline, EndRun
        <3> QED BY <1>3, <3>1, <3>2
    <2> QED BY <2>1, <2>2, GentleReaped
<1> QED BY <1>1, <1>2, <1>3

LEMMA ChildReaped ==
    ASSUME IInv, Reaped, NEW c \in Children,
           \/ ChildReady(c) \/ ChildReceives(c) \/ ChildCalls(c) \/ ChildAnswers(c) \/ Die(c)
           \/ Message(c) \/ Disconnect(c) \/ ExitSeen(c) \/ CloseSeen(c)
           \/ Watchdog(c) \/ ErrorSeen(c) \/ Terminated(c)
           \/ \E r \in Requests : SendFails(c, r)
    PROVE  Reaped'
<1>1. CASE ChildReady(c) \/ ChildReceives(c) \/ ChildCalls(c) \/ ChildAnswers(c) \/ Die(c)
    <2>1. \A e \in Children : Goner(child[e], child'[e])
        BY <1>1, ProcessGoner
    <2>2. UNCHANGED <<spawned, pool, awaited>>
        BY <1>1 DEF ChildReady, ChildReceives, ChildCalls, ChildAnswers, Die
    <2> QED BY <2>1, <2>2, GonerReaped
<1>2. CASE Message(c)
    <2>1. \A e \in Children : Goner(child[e], child'[e])
        BY <1>2, MessageGoner
    <2>2. UNCHANGED <<spawned, pool, awaited>>
        BY <1>2 DEF Message
    <2> QED BY <2>1, <2>2, GonerReaped
<1>3. CASE \/ Disconnect(c) \/ ExitSeen(c) \/ CloseSeen(c)
           \/ Watchdog(c) \/ ErrorSeen(c) \/ Terminated(c)
    <2>1. Gentle
        BY <1>3, ProcessGentle
    <2>2. UNCHANGED <<spawned, pool, awaited>>
        BY <1>3 DEF Disconnect, ExitSeen, CloseSeen, Watchdog, ErrorSeen, Terminated
    <2> QED BY <2>1, <2>2, GentleReaped
<1>4. ASSUME NEW r \in Requests, SendFails(c, r) PROVE Reaped'
    <2>1. Gentle
        BY <1>4, SendFailsGentle
    <2>2. UNCHANGED <<spawned, pool, awaited>>
        BY <1>4 DEF SendFails
    <2> QED BY <2>1, <2>2, GentleReaped
<1> QED BY <1>1, <1>2, <1>3, <1>4

LEMMA NextReaped == IInv /\ Reaped /\ [Next]_vars => Reaped'
<1> SUFFICES ASSUME IInv, Reaped, [Next]_vars PROVE Reaped'
    OBVIOUS
<1>1. ASSUME NEW s \in Slots, BackoffPasses(s) PROVE Reaped'
    <2>1. UNCHANGED <<child, spawned, pool, awaited>>
        BY <1>1 DEF BackoffPasses
    <2> QED BY <2>1 DEF Reaped
<1>2. CASE UNCHANGED vars
    BY <1>2 DEF vars, Reaped
<1> QED BY <1>1, <1>2, RequestReaped, ChildReaped, CloseReaped, CloseReturnsReaped DEF Next

-----------------------------------------------------------------------------
(* The inductive invariant and what it says. *)

CInv == IInv /\ Channel /\ Answers /\ Reaped

LEMMA InitChannel == Init => CInv
<1> SUFFICES ASSUME Init PROVE CInv
    OBVIOUS
<1>1. IInv
    BY InitHolds
<1>2. \A c \in Children : child[c] = Unborn /\ Fresh(child[c])
    BY UnbornFresh DEF Init
<1>3. Channel
    BY <1>2, FreshFacts DEF Channel
<1>4. Answers
    <2>1. \A r \in Requests : Answered(req[r])
        BY DEF Init, NewRequest, Answered
    <2>2. \A c \in Children : Begun(child[c])
        BY <1>2 DEF Fresh, Begun
    <2> QED BY <2>1, <2>2 DEF Answers
<1>5. Reaped
    <2>1. \A c \in Children : Buried(child[c])
        BY <1>2 DEF Buried, Fresh
    <2> QED BY <2>1 DEF Reaped, Init
<1> QED BY <1>1, <1>3, <1>4, <1>5 DEF CInv

LEMMA RequestChannel ==
    ASSUME IInv, IInv', Channel, Answers, NEW r \in Requests,
           \/ Grant(r) \/ Lease(r) \/ Execute(r) \/ Release(r)
           \/ Restart(r) \/ Dispatch(r) \/ StartFails(r)
           \/ Abort(r) \/ Interrupt(r) \/ Deadline(r)
           \/ HostReturns(r)
    PROVE  Channel' /\ Answers'
<1>1. CASE Dispatch(r)
    BY <1>1, DispatchKeeps
<1>2. CASE HostReturns(r)
    BY <1>2, HostReturnsKeeps
<1>3. CASE \/ Grant(r) \/ Lease(r) \/ Execute(r) \/ Release(r)
           \/ Restart(r) \/ StartFails(r) \/ Abort(r) \/ Interrupt(r) \/ Deadline(r)
    <2>1. Gentle
        BY <1>3, LeasesGentle, ExecuteGentle, RunsGentle
    <2> QED BY <2>1, GentleKeeps
<1> QED BY <1>1, <1>2, <1>3

LEMMA ChildChannel ==
    ASSUME IInv, IInv', Channel, Answers, NEW c \in Children,
           \/ ChildReady(c) \/ ChildReceives(c) \/ ChildCalls(c) \/ ChildAnswers(c) \/ Die(c)
           \/ Message(c) \/ Disconnect(c) \/ ExitSeen(c) \/ CloseSeen(c)
           \/ Watchdog(c) \/ ErrorSeen(c) \/ Terminated(c)
           \/ \E r \in Requests : SendFails(c, r)
    PROVE  Channel' /\ Answers'
<1>1. CASE \/ ChildReady(c) \/ ChildReceives(c) \/ ChildCalls(c) \/ ChildAnswers(c) \/ Die(c)
           \/ Message(c)
    BY <1>1, ChildReadyKeeps, ChildReceivesKeeps, ChildCallsKeeps, ChildAnswersKeeps, DieKeeps,
       MessageKeeps
<1>2. CASE \/ Disconnect(c) \/ ExitSeen(c) \/ CloseSeen(c)
           \/ Watchdog(c) \/ ErrorSeen(c) \/ Terminated(c)
           \/ \E r \in Requests : SendFails(c, r)
    <2>1. Gentle
        BY <1>2, ProcessGentle, SendFailsGentle
    <2> QED BY <2>1, GentleKeeps
<1> QED BY <1>1, <1>2

LEMMA NextChannel == CInv /\ [Next]_vars => CInv'
<1> SUFFICES ASSUME IInv, Channel, Answers, Reaped, [Next]_vars PROVE CInv'
    BY DEF CInv
<1>1. IInv'
    BY Preserved
<1>2. Reaped'
    BY NextReaped
<1>3. CASE UNCHANGED vars
    <2>1. UNCHANGED <<req, slot, child>>
        BY <1>3 DEF vars
    <2>2. Channel'
        BY <2>1 DEF Channel, Active
    <2>3. Answers'
        BY <2>1 DEF Answers, Begun
    <2> QED BY <2>2, <2>3, <1>1, <1>2 DEF CInv
<1>4. ASSUME NEW r \in Requests,
             \/ Grant(r) \/ Lease(r) \/ Execute(r) \/ Release(r)
             \/ Restart(r) \/ Dispatch(r) \/ StartFails(r)
             \/ Abort(r) \/ Interrupt(r) \/ Deadline(r)
             \/ HostReturns(r)
      PROVE  Channel' /\ Answers'
    BY <1>1, <1>4, RequestChannel
<1>5. ASSUME NEW c \in Children,
             \/ ChildReady(c) \/ ChildReceives(c) \/ ChildCalls(c) \/ ChildAnswers(c) \/ Die(c)
             \/ Message(c) \/ Disconnect(c) \/ ExitSeen(c) \/ CloseSeen(c)
             \/ Watchdog(c) \/ ErrorSeen(c) \/ Terminated(c)
             \/ \E r \in Requests : SendFails(c, r)
      PROVE  Channel' /\ Answers'
    BY <1>1, <1>5, ChildChannel
<1>6. CASE Close \/ CloseReturns \/ \E s \in Slots : BackoffPasses(s)
    <2>1. Gentle
        BY <1>6, PoolGentle
    <2> QED BY <1>1, <1>2, <2>1, GentleKeeps DEF CInv
<1> QED BY <1>1, <1>2, <1>3, <1>4, <1>5, <1>6 DEF CInv, Next

LEMMA CInvHolds == Spec => []CInv
BY InitChannel, NextChannel, PTL DEF Spec

\* A child is sent a run only when it is done with the one before, whichever way
\* that one ended, and one that said it cannot take another is never sent one:
\* the child's "received overlapping executions" never happens.
THEOREM ChildFitForRunHolds == Spec => []ChildFitForRun
<1>1. CInv => ChildFitForRun
    <2> SUFFICES ASSUME CInv, NEW c \in Children
                 PROVE  /\ ~child[c].overlapped
                        /\ child[c].soiled /\ child[c].job = None =>
                              \A i \in DOMAIN child[c].inbox : child[c].inbox[i].type # "run"
        BY DEF ChildFitForRun
    <2>1. Fit(child[c]) /\ child[c].inbox \in Seq(Envelope)
        BY ChildFacts DEF CInv, Channel
    <2>2. DOMAIN child[c].inbox = 1 .. Len(child[c].inbox)
        BY <2>1
    <2> QED BY <2>1, <2>2 DEF Fit, RunsIn
<1> QED BY <1>1, CInvHolds, PTL

\* A run that resolves has every chunk of its own answer and no other's, though
\* its child died while it wrote, or answered for another run before.
THEOREM WholeAnswerHolds == Spec => []WholeAnswer
<1>1. CInv => WholeAnswer
    BY DEF CInv, Answers, Answered, WholeAnswer
<1> QED BY <1>1, CInvHolds, PTL

\* No process is lost: one that is not let go is on its slot, and when close()
\* has resolved, every child ever forked was seen to exit or sent SIGKILL.
THEOREM NoChildLostHolds == Spec => []NoChildLost
<1>1. CInv => NoChildLost
    <2> SUFFICES ASSUME CInv, pool = "closed", NEW c \in 1 .. spawned
                 PROVE  child[c].exited \/ child[c].killed = "SIGKILL"
        BY DEF CInv, IInv, NoChildLost
    <2>1. c \in Children
        BY BoundsNatural DEF CInv, IInv, TypeOK, Children
    <2>2. child[c].finished /\ Buried(child[c])
        BY <2>1 DEF CInv, Reaped
    <2> QED BY <2>2 DEF Buried
<1> QED BY <1>1, CInvHolds, PTL

-----------------------------------------------------------------------------
(* Who is sent what. A message is for a child's active run (NoStrayAnswer). *)

\* Nothing is sent: what is on its way is what was, or less of it.
Drains(d, e) ==
    e.inbox = d.inbox \/ e.inbox = <<>> \/ (d.inbox # <<>> /\ e.inbox = Tail(d.inbox))

LEMMA DrainsNothing ==
    ASSUME IInv, NEW c \in Children, NEW e, Drains(child[c], e)
    PROVE  ~(Len(e.inbox) > Len(child[c].inbox))
<1>1. child[c].inbox \in Seq(Envelope)
    BY DEF IInv, TypeOK, Child
<1>2. PICK i \in Seq(Envelope) : i = child[c].inbox
    BY <1>1
<1>3. Len(i) \in Nat /\ Len(<<>>) = 0 /\ (i # <<>> => Len(Tail(i)) = Len(i) - 1)
    BY <1>2
<1>4. CASE e.inbox = i
    BY <1>2, <1>3, <1>4
<1>5. CASE e.inbox = <<>>
    BY <1>2, <1>3, <1>5
<1>6. CASE i # <<>> /\ e.inbox = Tail(i)
    BY <1>2, <1>3, <1>6
<1> QED BY <1>2, <1>4, <1>5, <1>6 DEF Drains

LEMMA OneDrains ==
    ASSUME IInv, NEW c \in Children, NEW d, child' = [child EXCEPT ![c] = d], Drains(child[c], d)
    PROVE  \A e \in Children : Drains(child[e], child'[e])
<1>1. child'[c] = d /\ \A e \in Children : e # c => child'[e] = child[e]
    BY DEF IInv, TypeOK
<1> QED BY <1>1 DEF Drains

LEMMA GentleDrains == IInv /\ Gentle => \A e \in Children : Drains(child[e], child'[e])
BY DEF Gentle, Spared, SameChannel, Fresh, Drains

LEMMA ProcessDrains ==
    ASSUME IInv, NEW c \in Children,
           ChildReady(c) \/ ChildReceives(c) \/ ChildCalls(c) \/ ChildAnswers(c) \/ Die(c)
    PROVE  \A e \in Children : Drains(child[e], child'[e])
<1>1. child[c] \in Child /\ child \in [Children -> Child]
    BY DEF IInv, TypeOK
<1>2. SUFFICES /\ Drains(child[c], child'[c])
               /\ \A e \in Children : e # c => child'[e] = child[e]
    BY DEF Drains
<1>3. CASE ChildReady(c)
    BY <1>1, <1>3 DEF ChildReady, Child, Drains
<1>4. CASE ChildReceives(c)
    <2>1. child[c].inbox # <<>> /\ child'[c].inbox = Tail(child[c].inbox)
        BY <1>1, <1>4 DEF ChildReceives, Child
    <2>2. \A e \in Children : e # c => child'[e] = child[e]
        BY <1>1, <1>4 DEF ChildReceives
    <2> QED BY <2>1, <2>2 DEF Drains
<1>5. CASE ChildCalls(c)
    BY <1>1, <1>5 DEF ChildCalls, Child, Drains
<1>6. CASE ChildAnswers(c)
    <2>1. PICK o, v : child' = [child EXCEPT ![c].outbox = o, ![c].soiled = v, ![c].job = None]
        BY <1>6 DEF ChildAnswers
    <2>2. child'[c].inbox = child[c].inbox
        BY <1>1, <2>1 DEF Child
    <2>3. \A e \in Children : e # c => child'[e] = child[e]
        BY <1>1, <2>1
    <2> QED BY <2>2, <2>3 DEF Drains
<1>7. CASE Die(c)
    <2>1. PICK o : child' = [child EXCEPT ![c].state = "dead", ![c].job = None, ![c].inbox = <<>>,
                                          ![c].outbox = o]
        BY <1>7 DEF Die
    <2>2. child'[c].inbox = <<>>
        BY <1>1, <2>1 DEF Child
    <2>3. \A e \in Children : e # c => child'[e] = child[e]
        BY <1>1, <2>1
    <2> QED BY <2>2, <2>3 DEF Drains
<1> QED BY <1>3, <1>4, <1>5, <1>6, <1>7

LEMMA MessageDrains ==
    ASSUME IInv, NEW c \in Children, Message(c)
    PROVE  \A e \in Children : Drains(child[e], child'[e])
<1>1. child[c] \in Child /\ child \in [Children -> Child]
    BY DEF IInv, TypeOK
<1>2. PICK m : m = Head(child[c].outbox)
    OBVIOUS
<1>3. SUFFICES /\ child'[c].inbox = child[c].inbox
               /\ \A e \in Children : e # c => child'[e] = child[e]
    BY DEF Drains
<1>4. CASE ReadyArrives(c)
    BY <1>1, <1>4 DEF ReadyArrives, Child
<1>5. CASE \/ child' = [child EXCEPT ![c].outbox = IF child[c].retired THEN <<>> ELSE Tail(@)]
           \/ child' = [child EXCEPT ![c].outbox = Tail(@)]
    BY <1>1, <1>5 DEF Child
<1>6. CASE ResultArrives(c, m)
    <2>1. PICK b : b = [child[c] EXCEPT !.outbox = Tail(child[c].outbox)]
        OBVIOUS
    <2>2. PICK d : d = IF m.mark = "good" THEN b ELSE Retired(b)
        OBVIOUS
    <2>3. child' = [child EXCEPT ![c] = d]
        BY <1>1, <1>6, <2>1, <2>2 DEF ResultArrives
    <2>4. b.inbox = child[c].inbox /\ Retired(b).inbox = b.inbox
        BY <1>1, <2>1 DEF Child, Retired
    <2> QED BY <1>1, <2>2, <2>3, <2>4
<1>7. \/ ReadyArrives(c) \/ ResultArrives(c, m)
      \/ child' = [child EXCEPT ![c].outbox = IF child[c].retired THEN <<>> ELSE Tail(@)]
      \/ HostCallArrives(c, m.job) \/ ChunkArrives(c, m.job)
    BY <1>2 DEF Message
<1>8. CASE HostCallArrives(c, m.job) \/ ChunkArrives(c, m.job)
    BY <1>5, <1>8 DEF HostCallArrives, ChunkArrives
<1> QED BY <1>4, <1>5, <1>6, <1>7, <1>8

\* What one message does to the children.
LEMMA SendGrows ==
    ASSUME IInv, NEW c \in Children, NEW m, child' = [child EXCEPT ![c] = Sent(@, m)]
    PROVE  \A e \in Children : Len(child'[e].inbox) > Len(child[e].inbox) =>
              e = c /\ child'[c].inbox = Append(child[c].inbox, m)
<1>1. child[c] \in Child /\ child \in [Children -> Child]
    BY DEF IInv, TypeOK
<1>2. PICK d : d = Sent(child[c], m)
    OBVIOUS
<1>3. child'[c] = d /\ \A e \in Children : e # c => child'[e] = child[e]
    BY <1>1, <1>2
<1>4. d.inbox = child[c].inbox \/ d.inbox = Append(child[c].inbox, m)
    BY <1>1, <1>2 DEF Sent, Child
<1>5. \A e \in Children : e # c => Drains(child[e], child'[e])
    BY <1>3 DEF Drains
<1>6. d.inbox = child[c].inbox => Drains(child[c], d)
    BY DEF Drains
<1> QED BY <1>3, <1>4, <1>5, <1>6, DrainsNothing

\* NoStrayAnswer of one step.
ToActive(c) ==
    Len(child'[c].inbox) > Len(child[c].inbox) =>
        LET m == child'[c].inbox[Len(child'[c].inbox)] IN
        slot'[child[c].slot].active = m.job /\ slot'[child[c].slot].child = c

LEMMA LastSent ==
    ASSUME IInv, NEW c \in Children, NEW m \in Envelope, child'[c].inbox = Append(child[c].inbox, m)
    PROVE  child'[c].inbox[Len(child'[c].inbox)] = m
<1>1. child[c].inbox \in Seq(Envelope)
    BY DEF IInv, TypeOK, Child
<1> QED BY <1>1

LEMMA DispatchToActive ==
    ASSUME IInv, NEW r \in Requests, Dispatch(r)
    PROVE  \A e \in Children : ToActive(e)
<1>1. PICK s : s = req[r].slot
    OBVIOUS
<1>2. PICK c : c = slot[s].child
    OBVIOUS
<1>3. req[r].run = "starting" /\ req[r].lease = "held" /\ slot \in [Slots -> ChildSlot]
    BY DEF Dispatch, IInv, TypeOK, Leased, Underway
<1>4. s \in Slots
    BY <1>1, <1>3, OwnSlot
<1>5. CASE UNCHANGED child
    <2>1. \A e \in Children : Drains(child[e], child'[e])
        BY <1>5 DEF Drains
    <2> QED BY <2>1, DrainsNothing DEF ToActive
<1>6. CASE /\ c # None
           /\ slot' = [slot EXCEPT ![s].active = r]
           /\ child' = [child EXCEPT ![c] = Sent(@, Msg("run", r, "good"))]
    <2>1. c \in Children /\ child[c].slot = s
        BY <1>2, <1>4, <1>6 DEF IInv, OnSlot
    <2>2. PICK m : m = Msg("run", r, "good")
        OBVIOUS
    <2>3. m \in Envelope /\ m.job = r
        BY <2>2, MsgType
    <2>4. \A e \in Children : Len(child'[e].inbox) > Len(child[e].inbox) =>
             e = c /\ child'[c].inbox = Append(child[c].inbox, m)
        BY <1>6, <2>1, <2>2, SendGrows
    <2>5. slot'[s].active = r /\ slot'[s].child = c
        BY <1>2, <1>3, <1>4, <1>6 DEF ChildSlot
    <2> SUFFICES ASSUME NEW e \in Children, Len(child'[e].inbox) > Len(child[e].inbox)
                 PROVE  LET l == child'[e].inbox[Len(child'[e].inbox)] IN
                        slot'[child[e].slot].active = l.job /\ slot'[child[e].slot].child = e
        BY DEF ToActive
    <2>6. e = c /\ child'[e].inbox[Len(child'[e].inbox)] = m
        BY <2>3, <2>4, LastSent
    <2> QED BY <2>1, <2>3, <2>5, <2>6
<1> QED BY <1>1, <1>2, <1>5, <1>6 DEF Dispatch

LEMMA HostReturnsToActive ==
    ASSUME IInv, NEW r \in Requests, HostReturns(r)
    PROVE  \A e \in Children : ToActive(e)
<1>1. CASE ~MayAnswer(r)
    <2>1. \A e \in Children : Drains(child[e], child'[e])
        BY <1>1 DEF HostReturns, Drains
    <2> QED BY <2>1, DrainsNothing DEF ToActive
<1>2. CASE MayAnswer(r)
    <2>1. PICK c : c = req[r].child
        OBVIOUS
    <2>2. PICK m : m = Msg("host-result", r, "good")
        OBVIOUS
    <2>3. m \in Envelope /\ m.job = r
        BY <2>2, MsgType
    <2>4. PICK s : s = req[r].slot
        OBVIOUS
    <2>5. s \in Slots
        BY <2>4 DEF HostReturns, IInv, Exclusive
    <2>6. slot[s].active = r
        BY <1>2, <2>4 DEF MayAnswer, StillActive
    <2>7. slot[s].child = c /\ c \in Children /\ child[c].slot = s
        BY <2>1, <2>5, <2>6, NoneFacts DEF IInv, ActiveOwned, OnSlot
    <2>8. \A e \in Children : Len(child'[e].inbox) > Len(child[e].inbox) =>
             e = c /\ child'[c].inbox = Append(child[c].inbox, m)
        <3>1. child' = [child EXCEPT ![c] = Sent(@, m)]
            BY <1>2, <2>1, <2>2 DEF HostReturns
        <3> QED BY <2>7, <3>1, SendGrows
    <2>9. UNCHANGED slot
        BY DEF HostReturns
    <2> SUFFICES ASSUME NEW e \in Children, Len(child'[e].inbox) > Len(child[e].inbox)
                 PROVE  LET l == child'[e].inbox[Len(child'[e].inbox)] IN
                        slot'[child[e].slot].active = l.job /\ slot'[child[e].slot].child = e
        BY DEF ToActive
    <2>10. e = c /\ child'[e].inbox[Len(child'[e].inbox)] = m
        BY <2>3, <2>8, LastSent
    <2> QED BY <2>3, <2>6, <2>7, <2>9, <2>10
<1> QED BY <1>1, <1>2

LEMMA StepsToActive == IInv /\ Next => \A c \in Children : ToActive(c)
<1> SUFFICES ASSUME IInv, Next PROVE \A c \in Children : ToActive(c)
    OBVIOUS
<1>1. (\A c \in Children : Drains(child[c], child'[c])) => \A c \in Children : ToActive(c)
    BY DrainsNothing DEF ToActive
<1>2. ASSUME NEW r \in Requests, Dispatch(r) \/ HostReturns(r)
      PROVE  \A c \in Children : ToActive(c)
    BY <1>2, DispatchToActive, HostReturnsToActive
<1>3. ASSUME NEW r \in Requests,
             \/ Grant(r) \/ Lease(r) \/ Execute(r) \/ Release(r)
             \/ Restart(r) \/ StartFails(r) \/ Abort(r) \/ Interrupt(r) \/ Deadline(r)
      PROVE  \A c \in Children : ToActive(c)
    <2>1. Gentle
        BY <1>3, LeasesGentle, ExecuteGentle, RunsGentle
    <2> QED BY <1>1, <2>1, GentleDrains
<1>4. ASSUME NEW c \in Children,
             \/ ChildReady(c) \/ ChildReceives(c) \/ ChildCalls(c) \/ ChildAnswers(c) \/ Die(c)
             \/ Message(c)
      PROVE  \A e \in Children : ToActive(e)
    BY <1>1, <1>4, ProcessDrains, MessageDrains
<1>5. ASSUME NEW c \in Children,
             \/ Disconnect(c) \/ ExitSeen(c) \/ CloseSeen(c)
             \/ Watchdog(c) \/ ErrorSeen(c) \/ Terminated(c)
             \/ \E r \in Requests : SendFails(c, r)
      PROVE  \A e \in Children : ToActive(e)
    <2>1. Gentle
        BY <1>5, ProcessGentle, SendFailsGentle
    <2> QED BY <1>1, <2>1, GentleDrains
<1>6. CASE Close \/ CloseReturns \/ \E s \in Slots : BackoffPasses(s)
    <2>1. Gentle
        BY <1>6, PoolGentle
    <2> QED BY <1>1, <2>1, GentleDrains
<1> QED BY <1>2, <1>3, <1>4, <1>5, <1>6 DEF Next

\* Every message is for the run that is active on the slot of the child it is
\* sent to: what a provider function answers late never reaches a successor.
THEOREM NoStrayAnswerHolds == Spec => NoStrayAnswer
<1>1. IInv /\ [Next]_vars => [\A c \in Children : ToActive(c)]_vars
    BY StepsToActive
<1>2. [\A c \in Children : ToActive(c)]_vars
          => [\A c \in Children : Len(child'[c].inbox) > Len(child[c].inbox) =>
                 LET m == child'[c].inbox[Len(child'[c].inbox)] IN
                 slot'[child[c].slot].active = m.job /\ slot'[child[c].slot].child = c]_vars
    BY DEF ToActive
<1> QED BY <1>1, <1>2, IInvHolds, PTL DEF Spec, NoStrayAnswer
=============================================================================
