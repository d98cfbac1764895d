------------------------- MODULE EventStreamProofs -------------------------
(***************************************************************************)
(* Proofs about EventStream for any number of producers, events, clients,  *)
(* tries and restarts, and any sizes of the buffers.  Two inductive        *)
(* invariants that do not need each other: StoreInv follows the producers' *)
(* requests into the table, HubInv the connections.                        *)
(***************************************************************************)
EXTENDS EventStream, FiniteSetTheorems, SequenceTheorems, TLAPS

\* Every row's number is one its source has spent.
SeqsSpent == \A i \in DOMAIN log : log[i].seq <= lastSeq[log[i].src]

StoreInv == StoreType /\ PostType /\ SeqsSpent /\ SeqsNeverReused

\* What NextTry, Answers201 and Answers500 leave of the producers' types.
PostKept ==
    /\ posts' \subseteq Request
    /\ waiting' \in [Sources -> Request \cup {NoPost}]

-----------------------------------------------------------------------------
(* Storage and producers. *)

\* A try more stays within MaxTries, and goes to the server as a request.
LEMMA NextTryKeeps ==
    ASSUME PostType, NEW s \in Sources, waiting[s] \in Request, NextTry(s)
    PROVE  PostKept
<1>1. waiting[s].try \in 1 .. MaxTries
  BY DEF Request
<1>2. CASE TriesAgain(waiting[s])
  <2> DEFINE again == [waiting[s] EXCEPT !.try = @ + 1]
  <2>1. waiting[s].try < MaxTries
    BY <1>2 DEF TriesAgain
  <2>2. MaxTries \in Nat
    BY SizesAssumption
  <2>3. waiting[s].try + 1 \in 1 .. MaxTries
    BY <1>1, <2>1, <2>2
  <2>4. again \in Request
    BY <2>3 DEF Request
  <2>5. waiting' = [waiting EXCEPT ![s] = again] /\ posts' = posts \cup {again}
    BY <1>2 DEF NextTry
  <2> QED  BY <2>4, <2>5 DEF PostType, PostKept
<1>3. CASE ~TriesAgain(waiting[s])
  BY <1>3 DEF NextTry, PostType, PostKept
<1> QED  BY <1>2, <1>3

\* The body of a job holds events of the producers.
LEMMA JobFacts ==
    ASSUME PostType, job # NoJob
    PROVE  /\ job \in Job /\ job.req \in Request /\ job.req.from \in Sources
           /\ Head(job.rest) \in Event /\ Ids(job.req.body) \subseteq 1 .. MaxEvents
<1>1. job \in Job
  BY DEF PostType
<1>2. job.req \in Request /\ job.rest \in Seq(Event) /\ job.rest # <<>>
  BY <1>1 DEF Job
<1>3. Head(job.rest) \in Event
  BY <1>2
<1>4. job.req.from \in Sources /\ job.req.body \in Seq(Event)
  BY <1>2 DEF Request
<1>5. Ids(job.req.body) \subseteq 1 .. MaxEvents
  <2>1. \A e \in ToSet(job.req.body) : e \in Event
    BY <1>4 DEF ToSet
  <2> QED  BY <2>1 DEF Ids, Event
<1> QED  BY <1>1, <1>2, <1>3, <1>4, <1>5

\* An answer, whichever, keeps the types of the producers' side.
LEMMA AnswerKeeps ==
    ASSUME PostType, job # NoJob, Answers201 \/ Answers500
    PROVE  PostKept /\ job' = NoJob /\ acked' \subseteq 1 .. MaxEvents
<1>1. CASE Answers201
  <2>1. job' = NoJob /\ posts' = posts
    BY <1>1 DEF Answers201
  <2>2. waiting' = [waiting EXCEPT ![job.req.from] = NoPost] \/ waiting' = waiting
    BY <1>1 DEF Answers201
  <2>3. acked' = acked \cup Ids(job.req.body) \/ acked' = acked
    BY <1>1 DEF Answers201
  <2> QED  BY <2>1, <2>2, <2>3, JobFacts DEF PostType, PostKept
<1>2. CASE Answers500
  <2>1. job' = NoJob /\ acked' = acked
    BY <1>2 DEF Answers500
  <2>2. CASE waiting[job.req.from] = job.req
    <3>1. NextTry(job.req.from)
      BY <1>2, <2>2 DEF Answers500
    <3> QED  BY <2>1, <2>2, <3>1, JobFacts, NextTryKeeps DEF PostType
  <2>3. CASE waiting[job.req.from] # job.req
    BY <1>2, <2>1, <2>3 DEF Answers500, PostType, PostKept
  <2> QED  BY <2>2, <2>3
<1> QED  BY <1>1, <1>2

\* A post becomes a request with at least one new event.
LEMMA PostStep ==
    ASSUME PostType, NEW s \in Sources, NEW n \in 1 .. MaxBatch, NEW own \in OwnIds,
           Post(s, n, own)
    PROVE  PostKept /\ produced' \in 0 .. MaxEvents
<1> DEFINE body == [i \in 1 .. n |-> [src |-> s, num |-> produced + i, own |-> own]]
           req == [from |-> s, body |-> body, try |-> 1]
<1>1. MaxBatch \in Nat /\ MaxEvents \in Nat /\ MaxTries \in Nat \ {0} /\ own \in BOOLEAN
  BY SizesAssumption
<1>2. produced \in Nat /\ n \in Nat /\ n >= 1 /\ produced + n <= MaxEvents
  BY <1>1 DEF PostType, Post
<1>3. \A i \in 1 .. n : produced + i \in 1 .. MaxEvents
  BY <1>1, <1>2
<1>4. \A i \in 1 .. n : [src |-> s, num |-> produced + i, own |-> own] \in Event
  BY <1>1, <1>3 DEF Event
<1>5. body \in Seq(Event) /\ body # <<>>
  <2>1. body \in [1 .. n -> Event]
    BY <1>4
  <2>2. body \in Seq(Event) /\ Len(body) = n
    BY <1>2, <2>1
  <2>3. body = <<>> => Len(body) = 0
    OBVIOUS
  <2> HIDE DEF body
  <2> QED  BY <1>2, <2>2, <2>3
<1>6. 1 \in 1 .. MaxTries
  BY <1>1
<1>7. req \in Request
  BY <1>5, <1>6 DEF Request
<1>8. waiting' = [waiting EXCEPT ![s] = req] /\ posts' = posts \cup {req}
  BY DEF Post
<1>9. produced' = produced + n
  BY DEF Post
<1> QED  BY <1>1, <1>2, <1>7, <1>8, <1>9 DEF PostType, PostKept

\* A row carries the next number of its source.
LEMMA RowType ==
    ASSUME StoreType, NEW e \in Event, NEW t \in Nat
    PROVE  /\ Row(e, t) \in StoredEvent
           /\ Row(e, t).src = e.src /\ Row(e, t).seq = lastSeq[e.src] + 1
<1>1. e.src \in Sources /\ e.num \in 1 .. MaxEvents /\ e.num \in Nat /\ e.own \in BOOLEAN
  BY SizesAssumption DEF Event
<1>2. lastSeq[e.src] \in Nat
  BY <1>1 DEF StoreType
<1>3. Key(e, t) \in {"own", "ms"} \X Nat
  BY <1>1 DEF Key
<1> QED  BY <1>1, <1>2, <1>3 DEF Row, NextSeq, StoredEvent

\* The clock of an ingest.
LEMMA NowType ==
    ASSUME StoreType, NEW e, NEW t \in Now(e)
    PROVE  t \in Nat
BY DEF StoreType, Now

\* Storing an event: its number is above every number its source has spent.
LEMMA StoreStep ==
    ASSUME StoreInv, NEW t, Store(t)
    PROVE  StoreInv'
<1> DEFINE e == Head(job.rest)
           r == Row(e, t)
<1>1. job # NoJob /\ t \in Now(e)
  BY DEF Store
<1>2. StoreType /\ PostType /\ SeqsSpent /\ SeqsNeverReused
  BY DEF StoreInv
<1>3. e \in Event /\ e.src \in Sources
  BY <1>1, <1>2, JobFacts DEF Event
<1>4. t \in Nat
  BY <1>1, <1>2, NowType
<1>5. r \in StoredEvent /\ r.src = e.src /\ r.seq = lastSeq[e.src] + 1
  BY <1>2, <1>3, <1>4, RowType
<1>6. /\ lastSeq' = [lastSeq EXCEPT ![e.src] = r.seq]
      /\ log' = Append(log, r)
      /\ cleaned' = cleaned /\ openTx' = openTx /\ tick' = t /\ count' = count + 1
      /\ produced' = produced /\ refused' = refused
  BY DEF Store
<1>7. lastSeq \in [Sources -> Nat] /\ log \in Seq(StoredEvent)
  BY <1>2 DEF StoreType
<1>8. r.seq \in Nat /\ r.src \in Sources
  BY <1>5 DEF StoredEvent
<1>9. /\ log' \in Seq(StoredEvent) /\ Len(log') = Len(log) + 1
      /\ \A i \in 1 .. Len(log) : log'[i] = log[i]
      /\ log'[Len(log) + 1] = r
  BY <1>5, <1>6, <1>7
<1>10. StoreType'
  <2>1. lastSeq' \in [Sources -> Nat]
    BY <1>3, <1>6, <1>7, <1>8
  <2>2. cleaned' \in 0 .. Len(log')
    BY <1>2, <1>6, <1>7, <1>9 DEF StoreType
  <2>3. openTx' \in BOOLEAN /\ count' \in Nat /\ tick' \in Nat
    BY <1>2, <1>4, <1>6 DEF StoreType
  <2> QED  BY <1>9, <2>1, <2>2, <2>3 DEF StoreType
<1>11. PostType'
  <2>1. CASE Len(job.rest) = 1
    <3>1. Answers201
      BY <2>1 DEF Store
    <3>2. PostKept /\ job' = NoJob /\ acked' \subseteq 1 .. MaxEvents
      BY <1>1, <1>2, <3>1, AnswerKeeps
    <3> QED  BY <1>2, <1>6, <3>2 DEF PostType, PostKept
  <2>2. CASE Len(job.rest) # 1
    <3>1. /\ job' = [job EXCEPT !.rest = Tail(@)]
          /\ waiting' = waiting /\ posts' = posts /\ acked' = acked
      BY <2>2 DEF Store
    <3>2. job \in Job /\ job.rest \in Seq(Event) /\ job.rest # <<>>
      BY <1>1, <1>2, JobFacts DEF Job
    <3>3. Tail(job.rest) \in Seq(Event) /\ Tail(job.rest) # <<>>
      <4>1. Len(job.rest) \in Nat /\ Len(job.rest) # 0
        BY <3>2
      <4>2. Tail(job.rest) \in Seq(Event) /\ Len(Tail(job.rest)) = Len(job.rest) - 1
        BY <3>2
      <4>3. Len(Tail(job.rest)) # 0
        BY <2>2, <4>1, <4>2
      <4>4. ASSUME Tail(job.rest) = <<>> PROVE FALSE
        BY <4>3, <4>4
      <4> QED  BY <4>2, <4>4
    <3>4. job' \in Job
      BY <3>1, <3>2, <3>3 DEF Job
    <3> QED  BY <1>2, <1>6, <3>1, <3>4 DEF PostType
  <2> QED  BY <2>1, <2>2
<1>12. /\ DOMAIN log = 1 .. Len(log) /\ DOMAIN log' = 1 .. Len(log) + 1
       /\ Len(log) \in Nat
  BY <1>7, <1>9
<1>13. \A i \in 1 .. Len(log) : /\ log[i].src \in Sources /\ log[i].seq \in Nat
                                /\ lastSeq[log[i].src] \in Nat
                                /\ log[i].seq <= lastSeq[log[i].src]
  <2> TAKE i \in 1 .. Len(log)
  <2>1. log[i] \in StoredEvent
    BY <1>7
  <2>2. log[i].src \in Sources /\ log[i].seq \in Nat
    BY <2>1 DEF StoredEvent
  <2>3. log[i].seq <= lastSeq[log[i].src]
    BY <1>2, <1>12 DEF SeqsSpent
  <2> QED  BY <1>7, <2>2, <2>3
<1>14. \A s \in Sources : lastSeq'[s] = IF s = r.src THEN lastSeq[s] + 1 ELSE lastSeq[s]
  BY <1>3, <1>5, <1>6, <1>7
<1>15. SeqsSpent'
  <2> SUFFICES ASSUME NEW i \in DOMAIN log'
               PROVE  log'[i].seq <= lastSeq'[log'[i].src]
    BY DEF SeqsSpent
  <2>1. CASE i = Len(log) + 1
    BY <1>5, <1>7, <1>8, <1>9, <1>14, <2>1
  <2>2. CASE i \in 1 .. Len(log)
    BY <1>9, <1>13, <1>14, <2>2
  <2> QED  BY <1>12, <2>1, <2>2
<1>16. SeqsNeverReused'
  <2> SUFFICES ASSUME NEW i \in DOMAIN log', NEW j \in DOMAIN log', i < j,
                      log'[i].src = log'[j].src
               PROVE  log'[i].seq < log'[j].seq
    BY DEF SeqsNeverReused
  <2>1. i \in 1 .. Len(log)
    BY <1>12
  <2>2. CASE j = Len(log) + 1
    <3>1. log[i].src = r.src /\ log[i].seq <= lastSeq[r.src]
      BY <1>9, <1>13, <2>1, <2>2
    <3>2. log[i].seq \in Nat /\ lastSeq[r.src] \in Nat /\ r.seq = lastSeq[r.src] + 1
      BY <1>5, <1>13, <2>1, <3>1
    <3>3. log[i].seq < r.seq
      BY <3>1, <3>2
    <3> QED  BY <1>9, <2>1, <2>2, <3>3
  <2>3. CASE j \in 1 .. Len(log)
    <3>1. log[i].seq < log[j].seq
      BY <1>2, <1>9, <1>12, <2>1, <2>3 DEF SeqsNeverReused
    <3> QED  BY <1>9, <2>1, <2>3, <3>1
  <2> QED  BY <1>12, <2>2, <2>3
<1> QED  BY <1>10, <1>11, <1>15, <1>16 DEF StoreInv

\* A refused INSERT spends a number and stores nothing.
LEMMA ClashStep ==
    ASSUME StoreInv, NEW t, RefuseClash(t)
    PROVE  StoreInv'
<1> DEFINE e == Head(job.rest)
<1>1. job # NoJob /\ t \in Now(e) /\ Answers500
  BY DEF RefuseClash, Refused
<1>2. StoreType /\ PostType /\ SeqsSpent /\ SeqsNeverReused
  BY DEF StoreInv
<1>3. e.src \in Sources /\ t \in Nat
  BY <1>1, <1>2, JobFacts, NowType DEF Event
<1>4. /\ lastSeq' = [lastSeq EXCEPT ![e.src] = lastSeq[e.src] + 1]
      /\ log' = log /\ cleaned' = cleaned /\ count' = count
      /\ tick' = t /\ openTx' = TRUE /\ produced' = produced
  BY DEF RefuseClash, NextSeq
<1>5. refused' \subseteq {"open", "seq", "id", "ms"}
  <2>1. \E x \in {"seq", "id", "ms"} : refused' = refused \cup {x}
    BY DEF RefuseClash
  <2> QED  BY <1>2, <2>1 DEF PostType
<1>6. PostKept /\ job' = NoJob /\ acked' \subseteq 1 .. MaxEvents
  BY <1>1, <1>2, AnswerKeeps
<1>7. PostType'
  BY <1>2, <1>4, <1>5, <1>6 DEF PostType, PostKept
<1>8. StoreType'
  BY <1>2, <1>3, <1>4 DEF StoreType
<1>9. SeqsSpent'
  <2> SUFFICES ASSUME NEW i \in DOMAIN log
               PROVE  log[i].seq <= lastSeq'[log[i].src]
    BY <1>4 DEF SeqsSpent
  <2>1. log[i] \in StoredEvent
    BY <1>2 DEF StoreType
  <2>2. log[i].src \in Sources /\ log[i].seq \in Nat
    BY <2>1 DEF StoredEvent
  <2>3. lastSeq[log[i].src] \in Nat /\ lastSeq'[log[i].src] \in Nat
        /\ lastSeq[log[i].src] <= lastSeq'[log[i].src]
    BY <1>2, <1>3, <1>4, <2>2 DEF StoreType
  <2>4. log[i].seq <= lastSeq[log[i].src]
    BY <1>2 DEF SeqsSpent
  <2> QED  BY <2>2, <2>3, <2>4
<1>10. SeqsNeverReused'
  BY <1>2, <1>4 DEF SeqsNeverReused
<1> QED  BY <1>7, <1>8, <1>9, <1>10 DEF StoreInv

\* Steps that leave the table and the numbers alone.
LEMMA TableKept ==
    ASSUME StoreInv, UNCHANGED <<lastSeq, log>>,
           StoreType' /\ PostType'
    PROVE  StoreInv'
BY DEF StoreInv, SeqsSpent, SeqsNeverReused

\* StoreInv is inductive.
LEMMA StoreInvInductive ==
    ASSUME StoreInv, [Next]_vars
    PROVE  StoreInv'
<1>1. StoreType /\ PostType
  BY DEF StoreInv
<1>2. ASSUME NEW s \in Sources, TimesOut(s)
      PROVE  StoreInv'
  <2>1. waiting[s] \in Request /\ NextTry(s)
    BY <1>1, <1>2 DEF TimesOut, PostType
  <2>2. PostKept
    BY <1>1, <2>1, NextTryKeeps
  <2>3. UNCHANGED <<storeVars, job, produced, tick, acked, refused>>
    BY <1>2 DEF TimesOut
  <2>4. PostType'
    BY <1>1, <2>2, <2>3 DEF PostType, PostKept
  <2>5. StoreType'
    BY <1>1, <2>3 DEF StoreType, storeVars
  <2> QED  BY <2>3, <2>4, <2>5, TableKept DEF storeVars
<1>3. ASSUME NEW s \in Sources, NEW n \in 1 .. MaxBatch, NEW own \in OwnIds, Post(s, n, own)
      PROVE  StoreInv'
  <2>1. PostKept /\ produced' \in 0 .. MaxEvents
    BY <1>1, <1>3, PostStep
  <2>2. UNCHANGED <<storeVars, job, tick, acked, refused>>
    BY <1>3 DEF Post
  <2>3. PostType'
    BY <1>1, <2>1, <2>2 DEF PostType, PostKept
  <2>4. StoreType'
    BY <1>1, <2>2 DEF StoreType, storeVars
  <2> QED  BY <2>2, <2>3, <2>4, TableKept DEF storeVars
<1>4. ASSUME NEW req \in posts, Receive(req)
      PROVE  StoreInv'
  <2>1. /\ job' = [req |-> req, rest |-> req.body] /\ posts' = posts \ {req}
        /\ UNCHANGED <<storeVars, waiting, produced, tick, acked, refused>>
    BY <1>4 DEF Receive
  <2>2. req \in Request
    BY <1>1 DEF PostType
  <2>3. job' \in Job
    BY <2>1, <2>2 DEF Job, Request
  <2>4. PostType'
    BY <1>1, <2>1, <2>3 DEF PostType
  <2>5. StoreType'
    BY <1>1, <2>1 DEF StoreType, storeVars
  <2> QED  BY <2>1, <2>4, <2>5, TableKept DEF storeVars
<1>5. ASSUME NEW req \in posts, Lose(req)
      PROVE  StoreInv'
  <2>1. /\ posts' = posts \ {req}
        /\ UNCHANGED <<storeVars, job, waiting, produced, tick, acked, refused>>
    BY <1>5 DEF Lose
  <2>2. PostType'
    BY <1>1, <2>1 DEF PostType
  <2>3. StoreType'
    BY <1>1, <2>1 DEF StoreType, storeVars
  <2> QED  BY <2>1, <2>2, <2>3, TableKept DEF storeVars
<1>6. CASE RefuseOpen
  <2>1. /\ job # NoJob /\ Answers500
        /\ refused' = refused \cup {"open"}
        /\ UNCHANGED <<storeVars, produced, tick>>
    BY <1>6 DEF RefuseOpen, Refused
  <2>2. PostKept /\ job' = NoJob /\ acked' \subseteq 1 .. MaxEvents
    BY <1>1, <2>1, AnswerKeeps
  <2>3. PostType'
    BY <1>1, <2>1, <2>2 DEF PostType, PostKept
  <2>4. StoreType'
    BY <1>1, <2>1 DEF StoreType, storeVars
  <2> QED  BY <2>1, <2>3, <2>4, TableKept DEF storeVars
<1>7. ASSUME NEW t, RefuseClash(t)
      PROVE  StoreInv'
  BY <1>7, ClashStep
<1>8. ASSUME NEW t, Store(t)
      PROVE  StoreInv'
  BY <1>8, StoreStep
<1>9. ASSUME NEW c \in Clients, Reader(c)
      PROVE  StoreInv'
  <2>1. UNCHANGED <<storeVars, postVars, job, tick, refused>>
    BY <1>9 DEF Reader, Ask, Connect, TurnAway, SendReplay, ReplayEnds, Query, SendLive, Leave
  <2>2. PostType'
    BY <1>1, <2>1 DEF PostType, postVars
  <2>3. StoreType'
    BY <1>1, <2>1 DEF StoreType, storeVars
  <2> QED  BY <2>1, <2>2, <2>3, TableKept DEF storeVars
<1>10. ASSUME NEW n \in cleaned .. Len(log), Cleanup(n)
       PROVE  StoreInv'
  <2>1. /\ cleaned' = n /\ openTx' = FALSE
        /\ UNCHANGED <<lastSeq, log, count, postVars, job, tick, refused>>
    BY <1>10 DEF Cleanup
  <2>2. PostType'
    BY <1>1, <2>1 DEF PostType, postVars
  <2>3. n \in 0 .. Len(log)
    BY <1>1 DEF StoreType
  <2>4. StoreType'
    BY <1>1, <2>1, <2>3 DEF StoreType
  <2> QED  BY <2>1, <2>2, <2>4, TableKept
<1>11. CASE Restart
  <2>1. /\ openTx' = FALSE /\ job' = NoJob /\ count' = Len(Rows)
        /\ UNCHANGED <<lastSeq, log, cleaned, postVars, tick, refused>>
    BY <1>11 DEF Restart
  <2>2. PostType'
    BY <1>1, <2>1 DEF PostType, postVars
  <2>3. count' \in Nat
    <3>1. log \in Seq(StoredEvent) /\ cleaned \in Nat
      BY <1>1 DEF StoreType
    <3>2. SubSeq(log, cleaned + 1, Len(log)) \in Seq(StoredEvent)
      BY <3>1
    <3> QED  BY <2>1, <3>2 DEF Rows
  <2>4. StoreType'
    BY <1>1, <2>1, <2>3 DEF StoreType
  <2> QED  BY <2>1, <2>2, <2>4, TableKept
<1>12. CASE UNCHANGED vars
  <2>1. UNCHANGED <<storeVars, postVars, job, tick, refused>>
    BY <1>12 DEF vars
  <2>2. PostType'
    BY <1>1, <2>1 DEF PostType, postVars
  <2>3. StoreType'
    BY <1>1, <2>1 DEF StoreType, storeVars
  <2> QED  BY <2>1, <2>2, <2>3, TableKept DEF storeVars
<1> QED
  BY <1>2, <1>3, <1>4, <1>5, <1>6, <1>7, <1>8, <1>9, <1>10, <1>11, <1>12 DEF Next, Ingest

LEMMA StoreHolds == Spec => []StoreInv
<1>1. Init => StoreInv
  <2> SUFFICES ASSUME Init PROVE StoreInv
    OBVIOUS
  <2>1. StoreType
    <3>1. lastSeq = [s \in Sources |-> 0] /\ log = <<>> /\ cleaned = 0
      BY DEF Init
    <3>2. openTx = FALSE /\ count = 0 /\ tick = 0
      BY DEF Init
    <3>3. lastSeq \in [Sources -> Nat]
      BY <3>1
    <3>4. log \in Seq(StoredEvent) /\ Len(log) = 0
      BY <3>1
    <3>5. cleaned \in 0 .. Len(log)
      BY <3>1, <3>4
    <3> QED  BY <3>2, <3>3, <3>4, <3>5 DEF StoreType
  <2>2. PostType
    BY SizesAssumption DEF Init, PostType
  <2>3. SeqsSpent /\ SeqsNeverReused
    BY DEF Init, SeqsSpent, SeqsNeverReused
  <2> QED  BY <2>1, <2>2, <2>3 DEF StoreInv
<1>2. StoreInv /\ [Next]_vars => StoreInv'
  BY StoreInvInductive
<1> QED  BY <1>1, <1>2, PTL DEF Spec

\* The sequence numbers of a source increase for ever, whatever is refused,
\* deleted or restarted (get_next_sequence).
THEOREM SeqsAreNeverReused == Spec => []SeqsNeverReused
<1>1. StoreInv => SeqsNeverReused
  BY DEF StoreInv
<1> QED  BY <1>1, StoreHolds, PTL

-----------------------------------------------------------------------------
(* Acknowledgements. *)

Stored == {r.num : r \in ToSet(log)}

\* What the loop has taken of a body is stored, the rest still lies before it.
AckInv ==
    /\ AcknowledgedIsStored
    /\ job # NoJob => \A e \in ToSet(job.req.body) : e.num \in Stored \/ e \in ToSet(job.rest)

\* A sequence is its first element and the others.
LEMMA HeadAndTail ==
    ASSUME NEW S, NEW s \in Seq(S), s # <<>>, NEW e \in ToSet(s)
    PROVE  e = Head(s) \/ e \in ToSet(Tail(s))
<1>1. PICK i \in 1 .. Len(s) : s[i] = e
  BY DEF ToSet
<1>2. Len(s) \in Nat /\ Len(Tail(s)) = Len(s) - 1
  BY <1>1
<1>3. CASE i = 1
  BY <1>1, <1>3
<1>4. CASE i # 1
  <2>1. i - 1 \in 1 .. Len(Tail(s)) /\ Tail(s)[i - 1] = s[i]
    BY <1>1, <1>2, <1>4
  <2>2. DOMAIN Tail(s) = 1 .. Len(Tail(s))
    BY <1>2
  <2> QED  BY <1>1, <2>1, <2>2 DEF ToSet
<1> QED  BY <1>3, <1>4

\* Every step but an ingest leaves jobs, rows and acknowledgements alone or
\* forgets the job.
LEMMA AckQuiet ==
    ASSUME AckInv, UNCHANGED log, acked' = acked, UNCHANGED job \/ job' = NoJob
    PROVE  AckInv'
BY DEF AckInv, AcknowledgedIsStored, Stored

LEMMA AckStore ==
    ASSUME StoreInv, AckInv, NEW t, Store(t)
    PROVE  AckInv'
<1> DEFINE e == Head(job.rest)
           r == Row(e, t)
<1>1. job # NoJob /\ log' = Append(log, r) /\ r.num = e.num
  BY DEF Store, Row
<1>2. log \in Seq(StoredEvent) /\ job.rest \in Seq(Event) /\ job.rest # <<>>
  BY <1>1, JobFacts DEF StoreInv, StoreType, Job
<1>3. Stored \subseteq Stored' /\ e.num \in Stored'
  <2>1. DOMAIN log' = 1 .. Len(log) + 1 /\ DOMAIN log = 1 .. Len(log) /\ Len(log) \in Nat
    BY <1>1, <1>2
  <2>2. log'[Len(log) + 1] = r /\ \A i \in 1 .. Len(log) : log'[i] = log[i]
    BY <1>1, <1>2
  <2> QED  BY <1>1, <2>1, <2>2 DEF Stored, ToSet
<1>4. \A x \in ToSet(job.req.body) : x.num \in Stored' \/ x \in ToSet(Tail(job.rest))
  <2> TAKE x \in ToSet(job.req.body)
  <2>1. x.num \in Stored \/ x \in ToSet(job.rest)
    BY <1>1 DEF AckInv
  <2> QED  BY <1>2, <1>3, <2>1, HeadAndTail
<1>5. CASE Len(job.rest) = 1
  <2>1. Answers201 /\ job' = NoJob
    BY <1>5 DEF Store, Answers201
  <2>2. ToSet(Tail(job.rest)) = {}
    <3>1. Tail(job.rest) \in Seq(Event) /\ Len(Tail(job.rest)) = 0
      BY <1>2, <1>5
    <3>2. \A T \in Seq(Event) : Len(T) = 0 => ToSet(T) = {}
      BY DEF ToSet
    <3> QED  BY <3>1, <3>2
  <2>3. acked' \subseteq acked \cup Ids(job.req.body)
    BY <2>1 DEF Answers201
  <2>4. Ids(job.req.body) \subseteq Stored'
    BY <1>4, <2>2 DEF Ids
  <2> QED  BY <1>3, <2>1, <2>3, <2>4 DEF AckInv, AcknowledgedIsStored, Stored
<1>6. CASE Len(job.rest) # 1
  <2>1. job' = [job EXCEPT !.rest = Tail(@)] /\ acked' = acked
    BY <1>6 DEF Store
  <2>2. job'.req = job.req /\ job'.rest = Tail(job.rest)
    BY <1>1, <2>1, JobFacts DEF StoreInv, Job
  <2> QED  BY <1>3, <1>4, <2>1, <2>2 DEF AckInv, AcknowledgedIsStored, Stored
<1> QED  BY <1>5, <1>6

LEMMA AckStep ==
    ASSUME StoreInv, AckInv, [Next]_vars
    PROVE  AckInv'
<1>1. ASSUME NEW req \in posts, Receive(req)
      PROVE  AckInv'
  BY <1>1 DEF Receive, storeVars, AckInv, AcknowledgedIsStored, Stored
<1>2. CASE RefuseOpen \/ \E t \in {tick, tick + 1} : RefuseClash(t)
  BY <1>2, AckQuiet DEF RefuseOpen, RefuseClash, Refused, Answers500, storeVars
<1>3. CASE \/ \E s \in Sources : TimesOut(s) \/ \E n \in 1 .. MaxBatch, own \in OwnIds : Post(s, n, own)
           \/ \E req \in posts : Lose(req)
           \/ \E n \in cleaned .. Len(log) : Cleanup(n)
           \/ Restart
  <2>1. UNCHANGED <<log, acked>> /\ (UNCHANGED job \/ job' = NoJob)
    BY <1>3 DEF TimesOut, Post, Lose, Cleanup, Restart, storeVars, postVars
  <2> QED  BY <2>1, AckQuiet
<1>4. CASE (\E c \in Clients : Reader(c)) \/ UNCHANGED vars
  <2>1. UNCHANGED <<storeVars, postVars, job>>
    BY <1>4 DEF Reader, Ask, Connect, TurnAway, SendReplay, ReplayEnds, Query, SendLive, Leave, vars
  <2> QED  BY <2>1, AckQuiet DEF storeVars, postVars
<1> QED  BY <1>1, <1>2, <1>3, <1>4, AckStore DEF Next, Ingest

\* Every event of a body that was answered 201 is in the table, whatever batch
\* fails half way, is posted again beside itself or is cut off by a restart
\* (ingest_batch, post_event_batch).
THEOREM AcknowledgedStays == Spec => []AcknowledgedIsStored
<1>1. Init => AckInv
  BY DEF Init, AckInv, AcknowledgedIsStored
<1>2. StoreInv /\ AckInv /\ [Next]_vars => AckInv'
  BY AckStep
<1>3. AckInv => AcknowledgedIsStored
  BY DEF AckInv
<1> QED  BY <1>1, <1>2, <1>3, StoreHolds, PTL DEF Spec

-----------------------------------------------------------------------------
(* Connections. *)

\* Who streams and is not slow is registered, and the registered are few.
HubInv ==
    /\ pc \in [Clients -> {"away", "asked", "replay", "query", "live"}]
    /\ clients \subseteq Clients
    /\ Cardinality(clients) <= MaxClients
    /\ Streaming \ slow \subseteq clients

\* No client more is registered, or streams without being registered or slow.
LEMMA FewerClients ==
    ASSUME HubInv, clients' \subseteq clients,
           pc' \in [Clients -> {"away", "asked", "replay", "query", "live"}],
           (Streaming \ slow)' \subseteq clients'
    PROVE  HubInv'
<1>1. IsFiniteSet(clients) /\ clients \subseteq Clients
  BY SizesAssumption, FS_Subset DEF HubInv
<1>2. /\ Cardinality(clients') <= Cardinality(clients)
      /\ Cardinality(clients) \in Nat /\ Cardinality(clients') \in Nat
  BY <1>1, FS_Subset, FS_CardinalityType
<1>3. Cardinality(clients) <= MaxClients /\ MaxClients \in Nat
  BY SizesAssumption DEF HubInv
<1> QED  BY <1>1, <1>2, <1>3 DEF HubInv

\* A connection is admitted below the limit and takes one place.
LEMMA ConnectStep ==
    ASSUME HubInv, NEW c \in Clients, Connect(c)
    PROVE  HubInv'
<1>1. /\ clients' = clients \cup {c} /\ slow' = slow \ {c}
      /\ pc' = [pc EXCEPT ![c] = "replay"] /\ Cardinality(clients) < MaxClients
  BY DEF Connect, Admits
<1>2. IsFiniteSet(clients)
  BY SizesAssumption, FS_Subset DEF HubInv
<1>3. Cardinality(clients') <= Cardinality(clients) + 1 /\ Cardinality(clients) \in Nat
  <2>1. Cardinality(clients) \in Nat
    BY <1>2, FS_CardinalityType
  <2>2. Cardinality(clients \cup {c}) \in {Cardinality(clients), Cardinality(clients) + 1}
    BY <1>2, FS_AddElement
  <2> QED  BY <1>1, <2>1, <2>2
<1>4. Cardinality(clients') \in Nat
  BY <1>1, <1>2, FS_AddElement, FS_CardinalityType
<1>5. Cardinality(clients') <= MaxClients
  BY SizesAssumption, <1>1, <1>3, <1>4
<1>6. (Streaming \ slow)' \subseteq clients'
  BY <1>1 DEF HubInv, Streaming
<1> QED  BY <1>1, <1>5, <1>6 DEF HubInv

\* HubInv is inductive.
LEMMA HubInvInductive ==
    ASSUME HubInv, [Next]_vars
    PROVE  HubInv'
<1> DEFINE Quiet == UNCHANGED <<clients, slow, pc>>
<1>1. ASSUME Quiet
      PROVE  HubInv'
  BY <1>1 DEF HubInv, Streaming
<1>2. ASSUME NEW t, Store(t)
      PROVE  HubInv'
  <2>1. /\ clients' = {c \in clients : ~Full(c)}
        /\ slow' = slow \cup {c \in clients : Full(c)} /\ pc' = pc
    BY <1>2 DEF Store, Broadcast, StillFast, connVars
  <2>2. (Streaming \ slow)' \subseteq clients'
    BY <2>1 DEF HubInv, Streaming
  <2> QED  BY <2>1, <2>2, FewerClients DEF HubInv
<1>3. ASSUME NEW c \in Clients, Reader(c)
      PROVE  HubInv'
  <2>1. CASE Connect(c)
    BY <2>1, ConnectStep
  <2>2. CASE Leave(c)
    <3>1. /\ clients' = clients \ {c} /\ slow' = slow \ {c}
          /\ pc' = [x \in Clients |-> IF x = c THEN "away" ELSE pc[x]]
      BY <2>2 DEF Leave, Drop
    <3>2. (Streaming \ slow)' \subseteq clients'
      BY <3>1 DEF HubInv, Streaming
    <3> QED  BY <3>1, <3>2, FewerClients DEF HubInv
  <2>3. CASE SendReplay(c) \/ SendLive(c)
    <3>1. Quiet
      BY <2>3 DEF SendReplay, SendLive, hubVars, histVars
    <3> QED  BY <1>1, <3>1
  <2>4. CASE (\E n \in {0, cursor[c]} : Ask(c, n)) \/ TurnAway(c)
    <3>1. /\ clients' = clients /\ slow' = slow /\ c \notin Streaming
          /\ (pc' = [pc EXCEPT ![c] = "asked"] \/ pc' = [pc EXCEPT ![c] = "away"])
      BY <2>4 DEF Ask, TurnAway, hubVars, histVars, Streaming
    <3>2. (Streaming \ slow)' \subseteq clients'
      BY <3>1 DEF HubInv, Streaming
    <3> QED  BY <3>1, <3>2, FewerClients DEF HubInv
  <2>5. CASE ReplayEnds(c) \/ Query(c)
    <3>1. /\ clients' = clients /\ slow' = slow /\ c \in Streaming
          /\ (pc' = [pc EXCEPT ![c] = "query"] \/ pc' = [pc EXCEPT ![c] = "live"])
      BY <2>5 DEF ReplayEnds, Query, hubVars, histVars, Streaming, HubInv
    <3>2. (Streaming \ slow)' \subseteq clients'
      BY <3>1 DEF HubInv, Streaming
    <3> QED  BY <3>1, <3>2, FewerClients DEF HubInv
  <2> QED  BY <1>3, <2>1, <2>2, <2>3, <2>4, <2>5 DEF Reader
<1>4. CASE Restart
  <2>1. /\ clients' = clients \ Clients /\ slow' = slow \ Clients
        /\ pc' = [x \in Clients |-> IF x \in Clients THEN "away" ELSE pc[x]]
    BY <1>4 DEF Restart, Drop
  <2>2. (Streaming \ slow)' \subseteq clients'
    BY <2>1 DEF Streaming
  <2> QED  BY <2>1, <2>2, FewerClients DEF HubInv
<1>5. CASE \/ \E s \in Sources : TimesOut(s) \/ \E n \in 1 .. MaxBatch, own \in OwnIds : Post(s, n, own)
           \/ \E req \in posts : Receive(req) \/ Lose(req)
  <2>1. Quiet
    BY <1>5 DEF TimesOut, Post, Receive, Lose, hubVars, connVars, histVars
  <2> QED  BY <1>1, <2>1
<1>6. CASE \/ RefuseOpen \/ \E t \in {tick, tick + 1} : RefuseClash(t)
           \/ \E n \in cleaned .. Len(log) : Cleanup(n)
  <2>1. Quiet
    BY <1>6 DEF RefuseOpen, RefuseClash, Cleanup, hubVars, connVars, histVars
  <2> QED  BY <1>1, <2>1
<1>7. CASE UNCHANGED vars
  <2>1. Quiet
    BY <1>7 DEF vars, hubVars, connVars, histVars
  <2> QED  BY <1>1, <2>1
<1> QED  BY <1>2, <1>3, <1>4, <1>5, <1>6, <1>7 DEF Next, Ingest

LEMMA HubHolds == Spec => []HubInv
<1>1. Init => HubInv
  <2> SUFFICES ASSUME Init PROVE HubInv
    OBVIOUS
  <2>1. clients = {} /\ pc = [c \in Clients |-> "away"]
    BY DEF Init
  <2>2. Cardinality(clients) <= MaxClients
    BY <2>1, SizesAssumption, FS_EmptySet
  <2> QED  BY <2>1, <2>2 DEF HubInv, Streaming
<1>2. HubInv /\ [Next]_vars => HubInv'
  BY HubInvInductive
<1> QED  BY <1>1, <1>2, PTL DEF Spec

\* However many clients ask at once, those that stream and were not given up
\* on by broadcast are at most MAX_SSE_CLIENTS.
THEOREM StreamsAreLimited == Spec => []LimitedUnlessSlow
<1>1. HubInv => LimitedUnlessSlow
  <2> SUFFICES ASSUME HubInv PROVE LimitedUnlessSlow
    OBVIOUS
  <2>1. IsFiniteSet(clients)
    BY SizesAssumption, FS_Subset DEF HubInv
  <2>2. /\ Cardinality(Streaming \ slow) <= Cardinality(clients)
        /\ Cardinality(clients) \in Nat /\ Cardinality(Streaming \ slow) \in Nat
    BY <2>1, FS_Subset, FS_CardinalityType DEF HubInv
  <2> QED  BY <2>2, SizesAssumption DEF HubInv, LimitedUnlessSlow
<1> QED  BY <1>1, HubHolds, PTL

-----------------------------------------------------------------------------
(* What After picks. *)

Hits(events, n) == {i \in DOMAIN events : events[i].seq > n}
Rank(S, i) == Cardinality({j \in S : j <= i})

\* The elements of a finite set of numbers have different ranks.
LEMMA RankIsInjective ==
    ASSUME NEW S \in SUBSET Nat, IsFiniteSet(S), NEW i \in S, NEW j \in S, i < j
    PROVE  Rank(S, i) < Rank(S, j)
<1> DEFINE I == {x \in S : x <= i}
           J == {x \in S : x <= j}
<1>1. I \subseteq J /\ j \in J /\ j \notin I
  <2>1. i \in Nat /\ j \in Nat /\ \A x \in S : x \in Nat
    OBVIOUS
  <2>2. \A x \in S : x <= i => x <= j
    BY <2>1
  <2>3. j <= j /\ ~(j <= i)
    BY <2>1
  <2> QED  BY <2>2, <2>3
<1>2. J \in SUBSET S
  OBVIOUS
<1>3. IsFiniteSet(J)
  BY <1>2, FS_Subset
<1>4. IsFiniteSet(I) /\ Cardinality(I) <= Cardinality(J) /\ (Cardinality(J) = Cardinality(I) => J = I)
  BY <1>1, <1>3, FS_Subset
<1>5. Cardinality(I) \in Nat /\ Cardinality(J) \in Nat
  BY <1>3, <1>4, FS_CardinalityType
<1> QED  BY <1>1, <1>4, <1>5 DEF Rank

LEMMA RankRange ==
    ASSUME NEW S \in SUBSET Nat, IsFiniteSet(S), NEW i \in S
    PROVE  Rank(S, i) \in 1 .. Cardinality(S)
<1> DEFINE I == {x \in S : x <= i}
<1>1. I \in SUBSET S /\ i \in I
  OBVIOUS
<1>2. IsFiniteSet(I) /\ Cardinality(I) <= Cardinality(S)
  BY <1>1, FS_Subset
<1>3. Cardinality(I) \in Nat /\ Cardinality(S) \in Nat
  BY <1>2, FS_CardinalityType
<1>4. Cardinality(I) # 0
  BY <1>1, <1>2, FS_EmptySet
<1> QED  BY <1>2, <1>3, <1>4 DEF Rank

\* So Nth numbers them.
LEMMA NthIsRank ==
    ASSUME NEW S \in SUBSET Nat, IsFiniteSet(S)
    PROVE  /\ \A i \in S : Nth(S, Rank(S, i)) = i
           /\ \A k \in 1 .. Cardinality(S) : Nth(S, k) \in S /\ Rank(S, Nth(S, k)) = k
<1> DEFINE T == 1 .. Cardinality(S)
           f == [i \in S |-> Rank(S, i)]
<1>1. Cardinality(S) \in Nat
  BY FS_CardinalityType
<1>2. IsFiniteSet(T) /\ Cardinality(T) = Cardinality(S)
  BY <1>1, FS_Interval
<1>3. f \in [S -> T]
  BY RankRange
<1>4. ASSUME NEW i \in S, NEW j \in S, Rank(S, i) = Rank(S, j)
      PROVE  i = j
  <2>1. Rank(S, i) \in Nat /\ Rank(S, j) \in Nat
    BY <1>1, RankRange
  <2>2. i < j => Rank(S, i) < Rank(S, j)
    BY RankIsInjective
  <2>3. j < i => Rank(S, j) < Rank(S, i)
    BY RankIsInjective
  <2> QED  BY <1>4, <2>1, <2>2, <2>3
<1>5. f \in Injection(S, T)
  BY <1>3, <1>4 DEF Injection, IsInjective
<1> HIDE DEF T, f
<1>6. f \in Surjection(S, T)
  BY <1>2, <1>5, FS_Injection
<1>7. \A k \in T : \E i \in S : Rank(S, i) = k
  BY <1>6 DEF Surjection, f
<1>8. \A k \in T : Nth(S, k) \in S /\ Rank(S, Nth(S, k)) = k
  BY <1>7 DEF Nth, Rank
<1>9. \A i \in S : Rank(S, i) \in T
  BY RankRange DEF T
<1> QED  BY <1>4, <1>8, <1>9 DEF T

LEMMA HitsFinite ==
    ASSUME NEW S, NEW events \in Seq(S), NEW n
    PROVE  Hits(events, n) \in SUBSET Nat /\ IsFiniteSet(Hits(events, n))
<1>1. Hits(events, n) \in SUBSET (1 .. Len(events)) /\ Len(events) \in Nat
  BY DEF Hits
<1>2. IsFiniteSet(1 .. Len(events))
  BY <1>1, FS_Interval
<1> QED  BY <1>1, <1>2, FS_Subset

\* After picks the hits, all of them and nothing else.
LEMMA AfterPicks ==
    ASSUME NEW S, NEW events \in Seq(S), NEW n
    PROVE  /\ After(events, n) \in Seq(S)
           /\ Len(After(events, n)) = Cardinality(Hits(events, n))
           /\ \A k \in 1 .. Len(After(events, n)) :
                 After(events, n)[k] = events[Nth(Hits(events, n), k)]
           /\ \A i \in Hits(events, n) : events[i] \in ToSet(After(events, n))
<1> DEFINE H == Hits(events, n)
           N == Cardinality(H)
<1>1. H \in SUBSET Nat /\ IsFiniteSet(H) /\ H \subseteq DOMAIN events
  BY HitsFinite DEF Hits
<1>2. N \in Nat
  BY <1>1, FS_CardinalityType
<1>3. \A k \in 1 .. N : Nth(H, k) \in H
  BY <1>1, NthIsRank
<1>4. After(events, n) = [k \in 1 .. N |-> events[Nth(H, k)]]
  BY DEF After, Hits
<1>5. \A i \in H : Rank(H, i) \in 1 .. N /\ Nth(H, Rank(H, i)) = i
  BY <1>1, NthIsRank, RankRange
<1> HIDE DEF H, N
<1>6. \A k \in 1 .. N : events[Nth(H, k)] \in S
  <2>1. \A i \in DOMAIN events : events[i] \in S
    OBVIOUS
  <2> QED  BY <1>1, <1>3, <2>1
<1>7. After(events, n) \in [1 .. N -> S]
  BY <1>4, <1>6
<1>8. After(events, n) \in Seq(S) /\ Len(After(events, n)) = N
  BY <1>2, <1>7
<1>9. \A i \in H : events[i] \in ToSet(After(events, n))
  <2> TAKE i \in H
  <2>1. After(events, n)[Rank(H, i)] = events[i] /\ Rank(H, i) \in DOMAIN After(events, n)
    BY <1>4, <1>5
  <2> QED  BY <2>1 DEF ToSet
<1> QED  BY <1>4, <1>8, <1>9 DEF H, N

\* A set moved up keeps its size.
LEMMA ShiftCardinality ==
    ASSUME NEW S \in SUBSET Nat, IsFiniteSet(S), NEW m \in Nat
    PROVE  Cardinality({m + x : x \in S}) = Cardinality(S)
<1> DEFINE T == {m + x : x \in S}
           f == [x \in S |-> m + x]
<1>1. f \in [S -> T] /\ \A x, y \in S : f[x] = f[y] => x = y
  OBVIOUS
<1>2. \A t \in T : \E x \in S : f[x] = t
  OBVIOUS
<1>3. f \in Injection(S, T) /\ f \in Surjection(S, T)
  BY <1>1, <1>2 DEF Injection, Surjection, IsInjective
<1> HIDE DEF T, f
<1>4. ExistsBijection(S, T)
  BY <1>3 DEF ExistsBijection, Bijection
<1>5. Cardinality(T) = Cardinality(S)
  BY <1>4, FS_Bijection
<1> QED  BY <1>5 DEF T

\* What lies before a suffix and is not above n does not matter.
LEMMA AfterSuffix ==
    ASSUME NEW S, NEW events \in Seq(S), NEW tail \in Seq(S), NEW m \in Nat, NEW n,
           Len(events) = m + Len(tail),
           \A i \in 1 .. Len(tail) : events[m + i] = tail[i],
           \A i \in 1 .. m : i \notin Hits(events, n)
    PROVE  After(events, n) = After(tail, n)
<1> DEFINE H == Hits(events, n)
           L == Hits(tail, n)
<1>1. /\ DOMAIN events = 1 .. m + Len(tail) /\ DOMAIN tail = 1 .. Len(tail)
      /\ Len(tail) \in Nat
  OBVIOUS
<1>2. H = {m + x : x \in L}
  <2>1. ASSUME NEW i \in H PROVE i - m \in L /\ i = m + (i - m)
    BY <1>1, <2>1 DEF Hits
  <2>2. ASSUME NEW x \in L PROVE m + x \in H
    BY <1>1, <2>2 DEF Hits
  <2> HIDE DEF H, L
  <2> QED  BY <2>1, <2>2
<1>3. /\ H \in SUBSET Nat /\ IsFiniteSet(H) /\ L \in SUBSET Nat /\ IsFiniteSet(L)
      /\ L \subseteq 1 .. Len(tail)
  BY <1>1, HitsFinite DEF Hits
<1>4. Cardinality(H) = Cardinality(L)
  BY <1>2, <1>3, ShiftCardinality
<1>5. ASSUME NEW i \in L PROVE Rank(H, m + i) = Rank(L, i)
  <2> DEFINE B == {x \in L : x <= i}
  <2>1. {x \in H : x <= m + i} = {m + x : x \in B}
    <3> HIDE DEF H, L
    <3> QED  BY <1>2, <1>3, <1>5
  <2>2. B \in SUBSET Nat /\ IsFiniteSet(B)
    <3>1. B \in SUBSET L
      OBVIOUS
    <3> QED  BY <1>3, <3>1, FS_Subset
  <2> HIDE DEF B
  <2>3. Cardinality({m + x : x \in B}) = Cardinality(B)
    BY <2>2, ShiftCardinality
  <2> QED  BY <2>1, <2>3 DEF Rank, B
<1>6. ASSUME NEW k \in 1 .. Cardinality(L)
      PROVE  events[Nth(H, k)] = tail[Nth(L, k)]
  <2> DEFINE i == Nth(L, k)
  <2>1. i \in L /\ Rank(L, i) = k
    BY <1>3, NthIsRank
  <2>2. m + i \in H /\ Rank(H, m + i) = k
    BY <1>2, <1>5, <2>1
  <2>3. Nth(H, k) = m + i
    BY <1>3, <2>2, NthIsRank
  <2> QED  BY <1>3, <2>1, <2>3
<1>7. After(events, n) = [k \in 1 .. Cardinality(H) |-> events[Nth(H, k)]]
  BY DEF After, Hits
<1>8. After(tail, n) = [k \in 1 .. Cardinality(L) |-> tail[Nth(L, k)]]
  BY DEF After, Hits
<1> HIDE DEF H, L
<1> QED  BY <1>4, <1>6, <1>7, <1>8

-----------------------------------------------------------------------------
(* Streams. *)

\* The ring buffer is the end of what was stored.
RingIsSuffix ==
    /\ ring \in Seq(StoredEvent)
    /\ \E m \in Nat : /\ Len(log) = m + Len(ring)
                      /\ \A i \in 1 .. Len(ring) : log[m + i] = ring[i]

\* A covered stream never asks the database, and what it sent, will replay and
\* has queued is what it owes, or was until it became slow.
Connected(c) ==
    /\ {got[c], pending[c], queue[c], owed[c]} \subseteq Seq(StoredEvent)
    /\ pc[c] # "query"
    /\ pc[c] = "replay" => ~(since[c] > 0) \/ got[c] # <<>> \/ pending[c] # <<>>
    /\ pc[c] = "live" => pending[c] = <<>>
    /\ IsPrefix(Held(c), owed[c])
    /\ c \notin slow => Held(c) = owed[c]

GapInv ==
    /\ RingIsSuffix
    /\ clients \cap slow = {}
    /\ \A f \in {got, pending, queue, owed, covered, since} : f = [c \in Clients |-> f[c]]
    /\ \A c \in Streaming : covered[c] => Connected(c)

\* Moving an event from what is held to what is sent changes nothing.
LEMMA MoveHead ==
    ASSUME NEW S, NEW g \in Seq(S), NEW p \in Seq(S), p # <<>>
    PROVE  /\ Append(g, Head(p)) \in Seq(S) /\ Append(g, Head(p)) # <<>> /\ Tail(p) \in Seq(S)
           /\ Append(g, Head(p)) \o Tail(p) = g \o p
<1>1. Head(p) \in S /\ Tail(p) \in Seq(S) /\ <<Head(p)>> \in Seq(S)
  OBVIOUS
<1>2. Append(g, Head(p)) = g \o <<Head(p)>> /\ Append(g, Head(p)) \in Seq(S)
  BY <1>1, AppendIsConcat
<1>3. <<Head(p)>> \o Tail(p) = p
  OBVIOUS
<1>4. Append(g, Head(p)) # <<>>
  BY <1>1, AppendProperties
<1>5. (g \o <<Head(p)>>) \o Tail(p) = g \o (<<Head(p)>> \o Tail(p))
  BY <1>1, ConcatAssociative
<1> QED  BY <1>1, <1>2, <1>3, <1>4, <1>5

LEMMA AppendToConcat ==
    ASSUME NEW S, NEW g \in Seq(S), NEW q \in Seq(S), NEW r \in S
    PROVE  g \o Append(q, r) = Append(g \o q, r)
<1>1. Append(q, r) = q \o <<r>> /\ <<r>> \in Seq(S)
  BY AppendIsConcat
<1>2. g \o q \in Seq(S)
  OBVIOUS
<1>3. Append(g \o q, r) = (g \o q) \o <<r>>
  BY <1>2, AppendIsConcat
<1> QED  BY <1>1, <1>3, ConcatAssociative

LEMMA PrefixOfLonger ==
    ASSUME NEW S, NEW s \in Seq(S), NEW t \in Seq(S), NEW r \in S, IsPrefix(s, t)
    PROVE  IsPrefix(s, Append(t, r))
<1>1. Len(s) \in Nat /\ Len(t) \in Nat /\ Len(s) <= Len(t)
  BY DEF IsPrefix
<1>2. Append(t, r) \in Seq(S) /\ Len(Append(t, r)) = Len(t) + 1
      /\ \A i \in 1 .. Len(t) : Append(t, r)[i] = t[i]
  OBVIOUS
<1>3. SubSeq(t, 1, Len(s)) = SubSeq(Append(t, r), 1, Len(s))
  BY <1>1, <1>2
<1> QED  BY <1>1, <1>2, <1>3 DEF IsPrefix

LEMMA PrefixOfItself == ASSUME NEW S, NEW s \in Seq(S) PROVE IsPrefix(s, s)
BY DEF IsPrefix

\* The ring stays a suffix when an event is stored.
LEMMA RingStep ==
    ASSUME RingIsSuffix, log \in Seq(StoredEvent), NEW r \in StoredEvent,
           log' = Append(log, r), ring' = Append2Ring(r)
    PROVE  RingIsSuffix'
<1>1. PICK m \in Nat : /\ Len(log) = m + Len(ring)
                      /\ \A i \in 1 .. Len(ring) : log[m + i] = ring[i]
  BY DEF RingIsSuffix
<1>2. /\ ring \in Seq(StoredEvent) /\ Len(ring) \in Nat /\ RingSize \in Nat \ {0}
      /\ Len(log') = Len(log) + 1 /\ log'[Len(log) + 1] = r
      /\ \A i \in 1 .. Len(log) : log'[i] = log[i]
  BY SizesAssumption DEF RingIsSuffix
<1>3. /\ log'[m + Len(ring) + 1] = r /\ m + Len(ring) \in Nat /\ Len(ring) \in Nat
      /\ \A i \in 1 .. Len(ring) : log'[m + i] = ring[i]
  <2>1. \A i \in 1 .. Len(ring) : m + i \in 1 .. Len(log)
    BY <1>1, <1>2
  <2> QED  BY <1>1, <1>2, <2>1
<1>4. CASE Len(ring) < RingSize
  <2>1. /\ ring' \in Seq(StoredEvent) /\ Len(ring') = Len(ring) + 1
        /\ ring'[Len(ring) + 1] = r /\ \A i \in 1 .. Len(ring) : ring'[i] = ring[i]
    BY <1>2, <1>4 DEF Append2Ring
  <2>2. Len(log') = m + Len(ring')
    BY <1>1, <1>2, <2>1
  <2>3. \A i \in 1 .. Len(ring') : log'[m + i] = ring'[i]
    BY <1>1, <2>1, <1>3
  <2> QED  BY <2>1, <2>2, <2>3 DEF RingIsSuffix
<1>5. CASE ~(Len(ring) < RingSize)
  <2>1. ring # <<>> /\ ring' = Append(Tail(ring), r)
    BY <1>2, <1>5 DEF Append2Ring
  <2>2. /\ Tail(ring) \in Seq(StoredEvent) /\ Len(Tail(ring)) = Len(ring) - 1
        /\ \A i \in 1 .. Len(ring) - 1 : Tail(ring)[i] = ring[i + 1]
    BY <1>2, <2>1
  <2>3. /\ ring' \in Seq(StoredEvent) /\ Len(ring') = Len(ring)
        /\ ring'[Len(ring)] = r /\ \A i \in 1 .. Len(ring) - 1 : ring'[i] = ring[i + 1]
    BY <1>2, <2>1, <2>2
  <2>4. Len(log') = (m + 1) + Len(ring') /\ m + 1 \in Nat
    BY <1>1, <1>2, <2>3
  <2>5. \A i \in 1 .. Len(ring') : log'[(m + 1) + i] = ring'[i]
    <3> TAKE i \in 1 .. Len(ring')
    <3>1. CASE i = Len(ring)
      <4>1. (m + 1) + i = m + Len(ring) + 1
        BY <1>3, <3>1
      <4> QED  BY <1>3, <2>3, <3>1, <4>1
    <3>2. CASE i # Len(ring)
      <4>1. i \in 1 .. Len(ring) - 1 /\ i + 1 \in 1 .. Len(ring) /\ (m + 1) + i = m + (i + 1)
        BY <1>3, <2>3, <3>2
      <4> QED  BY <1>3, <2>3, <4>1
    <3> QED  BY <3>1, <3>2
  <2> QED  BY <2>3, <2>4, <2>5 DEF RingIsSuffix
<1> QED  BY <1>4, <1>5

\* No two rows are the same, so that a ring that holds all events above n holds
\* the last ones.
LEMMA CoveredByRing ==
    ASSUME StoreInv, RingIsSuffix, NEW n, ToSet(After(log, n)) \subseteq ToSet(ring)
    PROVE  After(log, n) = After(ring, n)
<1>1. PICK m \in Nat : /\ Len(log) = m + Len(ring)
                      /\ \A i \in 1 .. Len(ring) : log[m + i] = ring[i]
  BY DEF RingIsSuffix
<1>2. log \in Seq(StoredEvent) /\ ring \in Seq(StoredEvent)
  BY DEF StoreInv, StoreType, RingIsSuffix
<1>3. ASSUME NEW i \in 1 .. m, i \in Hits(log, n)
      PROVE  FALSE
  <2>1. log[i] \in ToSet(ring)
    BY <1>2, <1>3, AfterPicks
  <2>2. PICK j \in 1 .. Len(ring) : ring[j] = log[i]
    BY <1>2, <2>1 DEF ToSet
  <2>3. i < m + j /\ log[m + j] = log[i] /\ i \in DOMAIN log /\ m + j \in DOMAIN log
    BY <1>1, <1>2, <2>2
  <2>4. log[i].seq < log[m + j].seq
    BY <2>3 DEF StoreInv, SeqsNeverReused
  <2>5. log[i] \in StoredEvent
    BY <1>2, <2>3
  <2>6. log[i].seq \in Nat
    BY <2>5 DEF StoredEvent
  <2> QED  BY <2>3, <2>4, <2>6
<1> QED  BY <1>1, <1>2, <1>3, AfterSuffix

\* A step that changes one connection only.
LEMMA OneStream ==
    ASSUME HubInv, GapInv, NEW c \in Clients, UNCHANGED <<ring, log>>,
           clients' \cap slow' = {},
           \A f \in {got', pending', queue', owed', covered', since'} : f = [d \in Clients |-> f[d]],
           \A d \in Clients \ {c} :
              UNCHANGED <<pc[d], got[d], pending[d], queue[d], owed[d], covered[d], since[d]>>
              /\ (d \in slow' <=> d \in slow),
           DOMAIN pc' = Clients,
           c \in Streaming' /\ covered'[c] => Connected(c)'
    PROVE  GapInv'
<1>1. RingIsSuffix'
  BY DEF GapInv, RingIsSuffix
<1>2. ASSUME NEW d \in Streaming', covered'[d]
      PROVE  Connected(d)'
  <2>1. CASE d = c
    BY <1>2, <2>1
  <2>2. CASE d # c
    <3>1. d \in Clients \ {c} /\ DOMAIN pc = Clients
      BY <1>2, <2>2 DEF HubInv, Streaming
    <3>2. d \in Streaming /\ covered[d]
      BY <1>2, <3>1 DEF Streaming
    <3>3. Connected(d)
      BY <3>2 DEF GapInv
    <3>4. /\ pc'[d] = pc[d] /\ got'[d] = got[d] /\ pending'[d] = pending[d]
          /\ queue'[d] = queue[d] /\ owed'[d] = owed[d] /\ since'[d] = since[d]
          /\ (d \in slow' <=> d \in slow)
      BY <3>1
    <3>5. Held(d)' = Held(d)
      BY <3>4 DEF Held
    <3> QED  BY <3>3, <3>4, <3>5 DEF Connected
  <2> QED  BY <2>1, <2>2
<1> QED  BY <1>1, <1>2 DEF GapInv

\* Storing an event goes to every registered stream that is not full.
LEMMA GapStore ==
    ASSUME StoreInv, HubInv, GapInv, NEW t, Store(t)
    PROVE  GapInv'
<1> DEFINE r == Row(Head(job.rest), t)
<1>1. /\ log' = Append(log, r) /\ ring' = Append2Ring(r) /\ Broadcast(r)
      /\ UNCHANGED <<pc, since, got, pending, covered>>
  BY DEF Store, connVars
<1>2. r \in StoredEvent /\ log \in Seq(StoredEvent)
  <2>1. Head(job.rest) \in Event /\ StoreType
    BY JobFacts DEF Store, StoreInv
  <2>2. t \in Nat
    BY <2>1, NowType DEF Store
  <2> QED  BY <2>1, <2>2, RowType DEF StoreType
<1> HIDE DEF r
<1>3. RingIsSuffix'
  BY <1>1, <1>2, RingStep DEF GapInv
<1>4. /\ queue' = [c \in Clients |-> IF c \in clients /\ ~Full(c)
                                     THEN Append(queue[c], r) ELSE queue[c]]
      /\ clients' = {c \in clients : ~Full(c)}
      /\ owed' = [c \in Clients |-> IF pc[c] \in {"replay", "query", "live"}
                                    THEN Append(owed[c], r) ELSE owed[c]]
      /\ slow' = slow \cup {c \in clients : Full(c)}
  BY <1>1 DEF Broadcast, StillFast
<1>5. clients' \cap slow' = {}
  BY <1>4 DEF GapInv
<1>6. \A f \in {got', pending', queue', owed', covered', since'} : f = [c \in Clients |-> f[c]]
  BY <1>1, <1>4 DEF GapInv
<1>7. ASSUME NEW c \in Streaming', covered'[c]
      PROVE  Connected(c)'
  <2>1. c \in Streaming /\ c \in Clients /\ Connected(c)
    BY <1>1, <1>7 DEF Streaming, HubInv, GapInv
  <2>2. owed'[c] = Append(owed[c], r)
    BY <1>4, <2>1 DEF Streaming
  <2>3. {got[c], pending[c], queue[c], owed[c], got[c] \o pending[c], Held(c)} \subseteq Seq(StoredEvent)
    BY <2>1 DEF Connected, Held
  <2>4. {got'[c], pending'[c], queue'[c], owed'[c]} \subseteq Seq(StoredEvent)
    BY <1>1, <1>2, <1>4, <2>1, <2>3
  <2>5. CASE c \in clients /\ ~Full(c)
    <3>1. queue'[c] = Append(queue[c], r) /\ c \notin slow
      BY <1>4, <2>1, <2>5 DEF GapInv
    <3>2. Held(c)' = Append(Held(c), r)
      <4> DEFINE g == got[c] \o pending[c]
      <4>1. \A a, b \in Seq(StoredEvent) : a \o Append(b, r) = Append(a \o b, r)
        BY <1>2, AppendToConcat
      <4>2. g \in Seq(StoredEvent) /\ queue[c] \in Seq(StoredEvent)
        BY <2>3
      <4> HIDE DEF g
      <4>3. g \o Append(queue[c], r) = Append(g \o queue[c], r)
        BY <4>1, <4>2
      <4> QED  BY <1>1, <3>1, <4>3 DEF Held, g
    <3>3. Held(c)' = owed'[c]
      BY <2>1, <2>2, <3>1, <3>2 DEF Connected
    <3> QED  BY <1>1, <2>1, <2>4, <3>3, PrefixOfItself DEF Connected
  <2>6. CASE ~(c \in clients /\ ~Full(c))
    <3>1. queue'[c] = queue[c]
      BY <1>4, <2>1, <2>6
    <3>2. c \in slow'
      BY <1>4, <2>1, <2>6 DEF HubInv
    <3>3. Held(c)' = Held(c)
      BY <1>1, <3>1 DEF Held
    <3>4. IsPrefix(Held(c)', owed'[c])
      BY <1>2, <2>1, <2>2, <2>3, <3>3, PrefixOfLonger DEF Connected
    <3> QED  BY <1>1, <2>1, <2>4, <3>2, <3>4 DEF Connected
  <2> QED  BY <2>5, <2>6
<1> QED  BY <1>3, <1>5, <1>6, <1>7 DEF GapInv

\* A connection starts with what is replayed from the ring.
LEMMA GapConnect ==
    ASSUME StoreInv, HubInv, GapInv, NEW c \in Clients, Connect(c)
    PROVE  GapInv'
<1>1. /\ clients' = clients \cup {c} /\ slow' = slow \ {c}
      /\ queue' = [queue EXCEPT ![c] = <<>>]
      /\ pending' = [pending EXCEPT ![c] = After(ring, since[c])]
      /\ got' = [got EXCEPT ![c] = <<>>]
      /\ owed' = [owed EXCEPT ![c] = After(log, since[c])]
      /\ covered' = [covered EXCEPT ![c] =
                       /\ ToSet(After(log, since[c])) \subseteq ToSet(ring)
                       /\ since[c] = 0 \/ After(ring, since[c]) # <<>>]
      /\ pc' = [pc EXCEPT ![c] = "replay"]
      /\ UNCHANGED <<ring, log, since>>
  BY DEF Connect, storeVars
<1>2. \A f \in {got, pending, queue, owed, covered, since} : f = [d \in Clients |-> f[d]]
  BY DEF GapInv
<1>3. /\ queue'[c] = <<>> /\ pending'[c] = After(ring, since[c]) /\ got'[c] = <<>>
      /\ owed'[c] = After(log, since[c]) /\ pc'[c] = "replay"
      /\ covered'[c] => /\ ToSet(After(log, since[c])) \subseteq ToSet(ring)
                        /\ since[c] = 0 \/ After(ring, since[c]) # <<>>
  BY <1>1, <1>2 DEF HubInv
<1>4. ASSUME covered'[c]
      PROVE  Connected(c)'
  <2> DEFINE A == After(ring, since[c])
  <2>1. After(log, since[c]) = A
    BY <1>3, <1>4, CoveredByRing DEF GapInv
  <2>2. A \in Seq(StoredEvent)
    BY AfterPicks DEF GapInv, RingIsSuffix
  <2> HIDE DEF A
  <2>3. (<<>> \o A) \o <<>> = A
    BY <2>2
  <2>4. Held(c)' = A /\ owed'[c] = A
    BY <1>3, <2>1, <2>3 DEF Held, A
  <2>5. since'[c] > 0 => pending'[c] # <<>>
    BY <1>1, <1>3, <1>4
  <2>6. {got'[c], pending'[c], queue'[c], owed'[c]} \subseteq Seq(StoredEvent)
    BY <1>3, <2>2, <2>4 DEF A
  <2> QED  BY <1>3, <2>2, <2>4, <2>5, <2>6, PrefixOfItself DEF Connected
<1>5. \A f \in {got', pending', queue', owed', covered', since'} : f = [d \in Clients |-> f[d]]
  BY <1>1, <1>2
<1>6. clients' \cap slow' = {}
  BY <1>1 DEF GapInv
<1>7. \A d \in Clients \ {c} :
         UNCHANGED <<pc[d], got[d], pending[d], queue[d], owed[d], covered[d], since[d]>>
         /\ (d \in slow' <=> d \in slow)
  BY <1>1, <1>2 DEF HubInv
<1> QED  BY <1>1, <1>4, <1>5, <1>6, <1>7, OneStream DEF HubInv

\* An event goes from the replay, or from the queue of a live stream, to the client.
LEMMA GapSend ==
    ASSUME HubInv, GapInv, NEW c \in Clients, SendReplay(c) \/ SendLive(c)
    PROVE  GapInv'
<1>1. /\ UNCHANGED <<ring, log, clients, slow, pc, since, owed, covered>>
      /\ pc[c] \in {"replay", "live"}
  BY DEF SendReplay, SendLive, storeVars, hubVars, histVars
<1>2. \A f \in {got, pending, queue, owed, covered, since} : f = [d \in Clients |-> f[d]]
  BY DEF GapInv
<1>3. \/ /\ pending[c] # <<>> /\ queue' = queue
         /\ got' = [got EXCEPT ![c] = Append(@, Head(pending[c]))]
         /\ pending' = [pending EXCEPT ![c] = Tail(@)]
      \/ /\ pending[c] = <<>> /\ queue[c] # <<>> /\ pending' = pending
         /\ pc[c] = "live"
         /\ got' = [got EXCEPT ![c] = Append(@, Head(queue[c]))]
         /\ queue' = [queue EXCEPT ![c] = Tail(@)]
  BY DEF SendReplay, SendLive, Sees, hubVars
<1>4. \A f \in {got', pending', queue', owed', covered', since'} : f = [d \in Clients |-> f[d]]
  BY <1>1, <1>2, <1>3
<1>5. \A d \in Clients \ {c} :
         UNCHANGED <<pc[d], got[d], pending[d], queue[d], owed[d], covered[d], since[d]>>
         /\ (d \in slow' <=> d \in slow)
  BY <1>1, <1>2, <1>3
<1>6. ASSUME covered'[c] PROVE Connected(c)'
  <2>1. Connected(c)
    BY <1>1, <1>6 DEF GapInv, HubInv, Streaming
  <2> DEFINE g == got[c]  p == pending[c]  q == queue[c]
  <2>2. g \in Seq(StoredEvent) /\ p \in Seq(StoredEvent) /\ q \in Seq(StoredEvent)
    BY <2>1 DEF Connected
  <2>3. \A a, b \in Seq(StoredEvent) : b # <<>> =>
           /\ Append(a, Head(b)) \in Seq(StoredEvent) /\ Append(a, Head(b)) # <<>>
           /\ Tail(b) \in Seq(StoredEvent) /\ Append(a, Head(b)) \o Tail(b) = a \o b
    BY MoveHead
  <2> HIDE DEF g, p, q
  <2>4. CASE p # <<>> /\ queue' = queue /\ got' = [got EXCEPT ![c] = Append(@, Head(pending[c]))]
             /\ pending' = [pending EXCEPT ![c] = Tail(@)]
    <3>1. got'[c] = Append(g, Head(p)) /\ pending'[c] = Tail(p) /\ queue'[c] = q
      BY <1>2, <2>4 DEF g, p, q
    <3>2. /\ got'[c] \in Seq(StoredEvent) /\ got'[c] # <<>> /\ pending'[c] \in Seq(StoredEvent)
          /\ got'[c] \o pending'[c] = g \o p
      <4>1. p # <<>>
        BY <2>4
      <4>2. /\ Append(g, Head(p)) \in Seq(StoredEvent) /\ Append(g, Head(p)) # <<>>
            /\ Tail(p) \in Seq(StoredEvent) /\ Append(g, Head(p)) \o Tail(p) = g \o p
        BY <2>2, <2>3, <4>1
      <4> QED  BY <3>1, <4>2
    <3>3. Held(c)' = Held(c)
      BY <3>1, <3>2 DEF Held, g, p, q
    <3>4. (pc'[c] = "live" => pending'[c] = <<>>) /\ queue'[c] \in Seq(StoredEvent)
          /\ owed'[c] \in Seq(StoredEvent)
      <4>1. (pc[c] = "live" => p = <<>>) /\ owed[c] \in Seq(StoredEvent)
        BY <2>1 DEF Connected, p
      <4>2. pc'[c] = pc[c] /\ owed'[c] = owed[c]
        BY <1>1
      <4> QED  BY <2>2, <2>4, <3>1, <4>1, <4>2
    <3>5. pc'[c] = pc[c] /\ owed'[c] = owed[c] /\ since'[c] = since[c] /\ (c \in slow' <=> c \in slow)
      BY <1>1
    <3> QED  BY <2>1, <3>2, <3>3, <3>4, <3>5 DEF Connected
  <2>5. CASE p = <<>> /\ q # <<>> /\ pending' = pending /\ pc[c] = "live"
             /\ got' = [got EXCEPT ![c] = Append(@, Head(queue[c]))]
             /\ queue' = [queue EXCEPT ![c] = Tail(@)]
    <3>1. got'[c] = Append(g, Head(q)) /\ pending'[c] = <<>> /\ queue'[c] = Tail(q)
      BY <1>2, <2>5 DEF g, p, q
    <3>2. /\ Append(g, Head(q)) \in Seq(StoredEvent) /\ Tail(q) \in Seq(StoredEvent)
          /\ Append(g, Head(q)) \o Tail(q) = g \o q
      <4>1. q # <<>>
        BY <2>5
      <4> QED  BY <2>2, <2>3, <4>1
    <3>3. Append(g, Head(q)) \o <<>> = Append(g, Head(q)) /\ g \o <<>> = g
      BY <2>2, <3>2, ConcatEmptySeq
    <3>4. Held(c)' = Held(c)
      BY <2>5, <3>1, <3>2, <3>3 DEF Held, g, p, q
    <3>5. {got'[c], pending'[c], queue'[c], owed'[c]} \subseteq Seq(StoredEvent)
      BY <1>1, <2>1, <3>1, <3>2 DEF Connected
    <3>6. pc'[c] = "live" /\ pending'[c] = <<>>
      BY <1>1, <2>5, <3>1
    <3>7. IsPrefix(Held(c)', owed'[c]) /\ (c \notin slow' => Held(c)' = owed'[c])
      BY <1>1, <2>1, <3>4 DEF Connected
    <3> QED  BY <3>5, <3>6, <3>7 DEF Connected
  <2> QED  BY <1>3, <2>4, <2>5 DEF p, q
<1>7. clients' \cap slow' = {} /\ DOMAIN pc' = Clients
  BY <1>1 DEF GapInv, HubInv
<1> QED  BY <1>1, <1>4, <1>5, <1>6, <1>7, OneStream

\* A replay ends, a query answers, a client asks, is turned away or leaves.
LEMMA GapPlaces ==
    ASSUME HubInv, GapInv, NEW c \in Clients,
           \/ ReplayEnds(c) \/ Query(c) \/ TurnAway(c) \/ Leave(c)
           \/ \E n \in {0, cursor[c]} : Ask(c, n)
    PROVE  GapInv'
<1>1. \A f \in {got, pending, queue, owed, covered, since} : f = [d \in Clients |-> f[d]]
  BY DEF GapInv
<1>2. DOMAIN pc = Clients
  BY DEF HubInv
<1>3. CASE Leave(c)
  <2>1. /\ pc' = [d \in Clients |-> IF d \in {c} THEN "away" ELSE pc[d]]
        /\ clients' = clients \ {c} /\ slow' = slow \ {c}
        /\ queue' = [d \in Clients |-> IF d \in {c} THEN <<>> ELSE queue[d]]
        /\ pending' = [d \in Clients |-> IF d \in {c} THEN <<>> ELSE pending[d]]
        /\ got' = [d \in Clients |-> IF d \in {c} THEN <<>> ELSE got[d]]
        /\ owed' = [d \in Clients |-> IF d \in {c} THEN <<>> ELSE owed[d]]
        /\ UNCHANGED <<since, covered, ring, log>>
    BY <1>3 DEF Leave, Drop, storeVars
  <2>2. \A f \in {got', pending', queue', owed', covered', since'} : f = [d \in Clients |-> f[d]]
    BY <1>1, <2>1
  <2>3. clients' \cap slow' = {} /\ c \notin Streaming' /\ DOMAIN pc' = Clients
    BY <2>1 DEF GapInv, Streaming
  <2>4. \A d \in Clients \ {c} :
           UNCHANGED <<pc[d], got[d], pending[d], queue[d], owed[d], covered[d], since[d]>>
           /\ (d \in slow' <=> d \in slow)
    BY <2>1
  <2> QED  BY <2>1, <2>2, <2>3, <2>4, OneStream
<1>4. CASE ReplayEnds(c) \/ Query(c) \/ TurnAway(c) \/ \E n \in {0, cursor[c]} : Ask(c, n)
  <2>1. /\ UNCHANGED <<ring, log, clients, slow, owed, covered, got, queue>>
        /\ \E l \in {"live", "query", "away", "asked"} : pc' = [pc EXCEPT ![c] = l]
        /\ since' = since \/ \E n : since' = [since EXCEPT ![c] = n]
        /\ pending' = pending \/ \E x : pending' = [pending EXCEPT ![c] = x]
    BY <1>4 DEF ReplayEnds, Query, TurnAway, Ask, storeVars, hubVars, histVars
  <2>2. \A f \in {got', pending', queue', owed', covered', since'} : f = [d \in Clients |-> f[d]]
    BY <1>1, <2>1
  <2>3. clients' \cap slow' = {} /\ DOMAIN pc' = Clients
    BY <1>2, <2>1 DEF GapInv
  <2>4. \A d \in Clients \ {c} :
           UNCHANGED <<pc[d], got[d], pending[d], queue[d], owed[d], covered[d], since[d]>>
           /\ (d \in slow' <=> d \in slow)
    BY <1>1, <1>2, <2>1
  <2>5. ASSUME c \in Streaming', covered'[c] PROVE Connected(c)'
    <3>1. pc[c] \in {"replay", "query"}
      BY <1>2, <1>4, <2>5 DEF ReplayEnds, Query, TurnAway, Ask, Streaming
    <3>2. Connected(c)
      BY <1>2, <2>1, <2>5, <3>1 DEF Streaming, GapInv
    <3>3. pc[c] = "replay"
      BY <3>1, <3>2 DEF Connected
    <3>4. ReplayEnds(c)
      BY <1>4, <3>3 DEF Query, TurnAway, Ask
    <3>5. /\ pending[c] = <<>> /\ UNCHANGED <<since, pending>>
          /\ pc' = [pc EXCEPT ![c] = IF since[c] > 0 /\ got[c] = <<>> THEN "query" ELSE "live"]
      BY <3>4 DEF ReplayEnds
    <3>6. pc'[c] = "live"
      BY <1>2, <3>2, <3>3, <3>5 DEF Connected
    <3>7. Held(c)' = Held(c)
      BY <2>1, <3>5 DEF Held
    <3> QED  BY <2>1, <3>2, <3>5, <3>6, <3>7 DEF Connected
  <2> QED  BY <2>1, <2>2, <2>3, <2>4, <2>5, OneStream
<1> QED  BY <1>3, <1>4

LEMMA GapStep ==
    ASSUME StoreInv, HubInv, GapInv, [Next]_vars
    PROVE  GapInv'
<1>1. CASE Restart
  <2>1. /\ ring' = <<>> /\ log' = log /\ covered' = covered /\ since' = since
        /\ pc' = [c \in Clients |-> IF c \in Clients THEN "away" ELSE pc[c]]
        /\ clients' = clients \ Clients /\ slow' = slow \ Clients
        /\ queue' = [c \in Clients |-> IF c \in Clients THEN <<>> ELSE queue[c]]
        /\ pending' = [c \in Clients |-> IF c \in Clients THEN <<>> ELSE pending[c]]
        /\ got' = [c \in Clients |-> IF c \in Clients THEN <<>> ELSE got[c]]
        /\ owed' = [c \in Clients |-> IF c \in Clients THEN <<>> ELSE owed[c]]
    BY <1>1 DEF Restart, Drop
  <2>2. RingIsSuffix'
    <3>1. log \in Seq(StoredEvent)
      BY DEF StoreInv, StoreType
    <3>2. ring' \in Seq(StoredEvent) /\ Len(ring') = 0 /\ Len(log) \in Nat /\ Len(log) = Len(log) + 0
      BY <2>1, <3>1
    <3>3. Len(log') = Len(log) + Len(ring') /\ \A i \in 1 .. Len(ring') : log'[Len(log) + i] = ring'[i]
      BY <2>1, <3>2
    <3> QED  BY <3>2, <3>3 DEF RingIsSuffix
  <2>3. Streaming' = {}
    BY <2>1 DEF Streaming
  <2>4. \A f \in {got', pending', queue', owed', covered', since'} : f = [d \in Clients |-> f[d]]
    BY <2>1 DEF GapInv
  <2>5. clients' \cap slow' = {}
    BY <2>1 DEF GapInv
  <2> QED  BY <2>2, <2>3, <2>4, <2>5 DEF GapInv
<1>2. ASSUME UNCHANGED <<log, hubVars, connVars, histVars>>
      PROVE  GapInv'
  BY <1>2 DEF hubVars, connVars, histVars, GapInv, RingIsSuffix, Streaming, Connected, Held
<1>3. CASE \/ \E s \in Sources : TimesOut(s) \/ \E n \in 1 .. MaxBatch, own \in OwnIds : Post(s, n, own)
           \/ \E req \in posts : Receive(req) \/ Lose(req)
           \/ RefuseOpen \/ \E t \in {tick, tick + 1} : RefuseClash(t)
           \/ \E n \in cleaned .. Len(log) : Cleanup(n)
           \/ UNCHANGED vars
  <2>1. UNCHANGED <<log, hubVars, connVars, histVars>>
    BY <1>3 DEF TimesOut, Post, Receive, Lose, RefuseOpen, RefuseClash, Cleanup, vars, storeVars
  <2> QED  BY <1>2, <2>1
<1> QED  BY <1>1, <1>3, GapStore, GapConnect, GapSend, GapPlaces DEF Next, Ingest, Reader

\* A stream that starts inside the ring buffer has neither gap nor repetition up
\* to the first event dropped for a slow client, for any sizes of the buffers and
\* any number of producers and clients (get_stream, broadcast, replay_since).
THEOREM NoStreamHasGaps == Spec => []StreamsHaveNoGaps
<1>1. Init => GapInv
  <2> SUFFICES ASSUME Init PROVE GapInv
    OBVIOUS
  <2>1. ring = <<>> /\ log = <<>> /\ clients = {} /\ Streaming = {}
    BY DEF Init, Streaming
  <2>2. Len(log) = 0 + Len(ring) /\ Len(ring) = 0 /\ ring \in Seq(StoredEvent)
    BY <2>1
  <2>3. RingIsSuffix
    BY <2>2 DEF RingIsSuffix
  <2>4. \A f \in {got, pending, queue, owed, covered, since} : f = [d \in Clients |-> f[d]]
    BY DEF Init
  <2> QED  BY <2>1, <2>3, <2>4 DEF GapInv
<1>2. StoreInv /\ HubInv /\ GapInv /\ [Next]_vars => GapInv'
  BY GapStep
<1>3. GapInv => StreamsHaveNoGaps
  BY DEF GapInv, Connected, StreamsHaveNoGaps
<1> QED  BY <1>1, <1>2, <1>3, StoreHolds, HubHolds, PTL DEF Spec

=============================================================================
