---------------------------- MODULE EventStream ----------------------------
(***************************************************************************)
(* The live event stream: streaming_core.py, streaming_routes.py,          *)
(* event_schema.py and the producers' streaming_client.py.                 *)
(*                                                                         *)
(* The server is one asyncio loop.  Storing an event, appending it to the  *)
(* ring and queueing it for every client has no point of suspension, so it *)
(* is one step; a loop step needs job = NoJob, and a batch (job # NoJob)   *)
(* holds the loop until it ends.  What runs beside the loop: producers,    *)
(* the network, and the fallback query in the executor's thread.           *)
(***************************************************************************)
EXTENDS Integers, FiniteSets, SequencesExt

CONSTANTS
    Sources,      \* producers; an event's source is its producer
    MaxEvents,    \* bound on events produced
    MaxBatch,     \* bound on the events of one POST
    MaxTries,     \* max_retries of StreamingClient
    OwnIds,       \* {TRUE}: producers set "id"; {FALSE}: the server does
    Clients,      \* connections a reader keeps up
    MaxClients,   \* MAX_SSE_CLIENTS
    RingSize,     \* maxlen of the ring buffer
    QueueSize,    \* maxsize of a client's queue
    QueryLimit,   \* RING_BUFFER_MAXLEN, the fallback query's LIMIT
    MaxRestarts,  \* bound on restarts of the server
    NoJob, NoPost

ASSUME SizesAssumption ==
    /\ {MaxEvents, MaxBatch, MaxClients, MaxRestarts} \subseteq Nat
    /\ {MaxTries, RingSize, QueueSize, QueryLimit} \subseteq Nat \ {0}
    /\ OwnIds \subseteq BOOLEAN
    /\ IsFiniteSet(Clients)

VARIABLES
    lastSeq,   \* table source_sequences
    log,       \* history: every event ever stored, in order of storing
    cleaned,   \* the first `cleaned' events of log are deleted from live_events
    openTx,    \* the connection is inside a transaction a failed INSERT began
    count,     \* StreamingServer._event_count
    ring,      \* RingBuffer._buffer
    clients,   \* keys of SSEClientManager._clients
    queue,     \* each client's asyncio.Queue
    job,       \* the POST the loop is working on
    posts,     \* requests on their way to the server
    waiting,   \* the request each producer waits for
    produced,  \* events produced so far
    tick,      \* the server clock, as far as generate_ulid tells it apart
    acked,     \* history: events whose producer was answered 201
    refused,   \* history: why events were refused
    pc,        \* where each client's event_generator is
    since,     \* last_seq of the connection
    cursor,    \* the client: the id of the last event it saw
    pending,   \* replayed events not yet sent
    got,       \* history: what this connection sent
    owed,      \* history: what this connection has to send
    covered,   \* history: the ring held all of it at the start
    slow,      \* history: streams whose queue was full at a broadcast
    restarts

storeVars == <<lastSeq, log, cleaned, openTx, count>>
hubVars == <<ring, clients, queue>>
postVars == <<posts, waiting, produced, acked>>
connVars == <<pc, since, cursor, pending, got, covered>>
histVars == <<owed, slow>>
vars == <<storeVars, hubVars, postVars, connVars, job, tick, refused, histVars, restarts>>

----------------------------------------------------------------------------
(* Storage. *)

\* An event as posted: its producer, a number, and whether it carries an id.
\* StreamingClient sets every id, other producers none.
Event == [src : Sources, num : 1 .. MaxEvents, own : BOOLEAN]

\* A body on its way, and a row of live_events.
Request == [from : Sources, body : Seq(Event) \ {<<>>}, try : 1 .. MaxTries]
Job == [req : Request, rest : Seq(Event) \ {<<>>}]
StoredEvent ==
    [src : Sources, num : 1 .. MaxEvents, key : {"own", "ms"} \X Nat, seq : Nat]

\* Rows of live_events.
Rows == SubSeq(log, cleaned + 1, Len(log))

\* (variant) The sequence number from the rows instead of source_sequences.
SeqFromRows(s) ==
    LET mine == {r \in ToSet(Rows) : r.src = s}
    IN  IF mine = {} THEN 1
        ELSE 1 + (CHOOSE n \in {r.seq : r \in mine} : \A r \in mine : r.seq <= n)

\* get_next_sequence, committed by itself before the INSERT.
NextSeq(s) == lastSeq[s] + 1

\* The primary key: the producer's id, or a ULID that generate_ulid computes
\* from the millisecond alone.
Key(e, t) == IF e.own THEN <<"own", e.num>> ELSE <<"ms", t>>

\* The clock at an ingest, which matters to the ULID only.
Now(e) == IF e.own THEN {tick} ELSE {tick, tick + 1}

KeyClash(e, t) == \E r \in ToSet(Rows) : r.key = Key(e, t)
SeqClash(s) == \E r \in ToSet(Rows) : r.seq = NextSeq(s)

Row(e, t) == [src |-> e.src, num |-> e.num, key |-> Key(e, t), seq |-> NextSeq(e.src)]

----------------------------------------------------------------------------
(* Hub: ring buffer and client queues. *)

\* deque(maxlen): the oldest event falls out.
Append2Ring(r) ==
    IF Len(ring) < RingSize THEN Append(ring, r) ELSE Append(Tail(ring), r)

Full(c) == Len(queue[c]) >= QueueSize

\* (variant) The event is dropped for a slow client that stays registered.
KeepSlow == clients

\* broadcast deregisters a client whose queue is full.  disconnect then tries
\* to queue the closing None, which the full queue refuses as well.
StillFast == {c \in clients : ~Full(c)}

Broadcast(r) ==
    /\ queue' = [c \in Clients |-> IF c \in clients /\ ~Full(c)
                                   THEN Append(queue[c], r) ELSE queue[c]]
    /\ clients' = StillFast
    /\ owed' = [c \in Clients |-> IF pc[c] \in {"replay", "query", "live"}
                                  THEN Append(owed[c], r) ELSE owed[c]]
    /\ slow' = slow \cup {c \in clients : Full(c)}

----------------------------------------------------------------------------
(* Producers: StreamingClient._post_json, one request at a time each. *)

Post(s, n, own) ==
    /\ waiting[s] = NoPost /\ produced + n <= MaxEvents
    /\ LET body == [i \in 1 .. n |-> [src |-> s, num |-> produced + i, own |-> own]]
           req == [from |-> s, body |-> body, try |-> 1]
       IN  /\ waiting' = [waiting EXCEPT ![s] = req]
           /\ posts' = posts \cup {req}
    /\ produced' = produced + n
    /\ UNCHANGED <<storeVars, hubVars, connVars, job, tick, acked, refused, histVars, restarts>>

\* Only StreamingClient tries again, and it always sets ids.
TriesAgain(req) == req.body[1].own /\ req.try < MaxTries

\* An attempt failed: the same body again, or None to the caller.
NextTry(s) ==
    LET again == [waiting[s] EXCEPT !.try = @ + 1]
    IN  IF TriesAgain(waiting[s])
        THEN /\ waiting' = [waiting EXCEPT ![s] = again]
             /\ posts' = posts \cup {again}
        ELSE waiting' = [waiting EXCEPT ![s] = NoPost] /\ UNCHANGED posts

\* urlopen's timeout; the server may have stored the events, or may still.
TimesOut(s) ==
    /\ waiting[s] # NoPost
    /\ NextTry(s)
    /\ UNCHANGED <<storeVars, hubVars, connVars, job, produced, tick, acked, refused, histVars, restarts>>

\* The request never reaches the server.
Lose(req) ==
    /\ req \in posts
    /\ posts' = posts \ {req}
    /\ UNCHANGED <<storeVars, hubVars, connVars, job, waiting, produced, tick, acked, refused, histVars,
                   restarts>>

----------------------------------------------------------------------------
(* POST /events and /events/batch: ingest_event for each event of the body. *)

Receive(req) ==
    /\ job = NoJob /\ req \in posts
    /\ job' = [req |-> req, rest |-> req.body]
    /\ posts' = posts \ {req}
    /\ UNCHANGED <<storeVars, hubVars, connVars, waiting, produced, tick, acked, refused, histVars, restarts>>

Ids(body) == {e.num : e \in ToSet(body)}

\* The answer, if the producer still waits for this attempt.
Answers201 ==
    LET s == job.req.from
    IN  /\ job' = NoJob
        /\ IF waiting[s] = job.req
           THEN /\ waiting' = [waiting EXCEPT ![s] = NoPost]
                /\ acked' = acked \cup Ids(job.req.body)
           ELSE UNCHANGED <<waiting, acked>>
        /\ UNCHANGED posts

Answers500 ==
    /\ job' = NoJob
    /\ IF waiting[job.req.from] = job.req
       THEN NextTry(job.req.from) ELSE UNCHANGED <<waiting, posts>>
    /\ UNCHANGED acked

\* (variant) An exception is logged and the client answered 201 all the same.
Swallowed == Answers201

\* ingest raised: the rest of the batch is not looked at.
Refused == Answers500

\* A transaction is open, so get_next_sequence's BEGIN IMMEDIATE raises.
RefuseOpen ==
    /\ job # NoJob /\ openTx
    /\ refused' = refused \cup {"open"}
    /\ Refused
    /\ UNCHANGED <<storeVars, hubVars, connVars, produced, tick, histVars, restarts>>

\* The INSERT violates a UNIQUE column.  The sequence number is spent, and the
\* transaction that sqlite3 opened for the INSERT stays open.
RefuseClash(t) ==
    /\ job # NoJob /\ ~openTx
    /\ t \in Now(Head(job.rest))
    /\ LET e == Head(job.rest)
       IN  /\ KeyClash(e, t) \/ SeqClash(e.src)
           /\ refused' = refused \cup {IF SeqClash(e.src) THEN "seq"
                                       ELSE IF e.own THEN "id" ELSE "ms"}
           /\ lastSeq' = [lastSeq EXCEPT ![e.src] = NextSeq(e.src)]
    /\ tick' = t /\ openTx' = TRUE
    /\ Refused
    /\ UNCHANGED <<log, cleaned, count, hubVars, connVars, produced, histVars, restarts>>

\* insert_event, ring buffer, broadcast; after the last event, the answer.
Store(t) ==
    /\ job # NoJob /\ ~openTx
    /\ t \in Now(Head(job.rest))
    /\ LET e == Head(job.rest)
           r == Row(e, t)
       IN  /\ ~KeyClash(e, t) /\ ~SeqClash(e.src)
           /\ lastSeq' = [lastSeq EXCEPT ![e.src] = r.seq]
           /\ log' = Append(log, r)
           /\ ring' = Append2Ring(r)
           /\ Broadcast(r)
    /\ tick' = t /\ count' = count + 1
    /\ IF Len(job.rest) = 1 THEN Answers201
       ELSE job' = [job EXCEPT !.rest = Tail(@)] /\ UNCHANGED <<waiting, posts, acked>>
    /\ UNCHANGED <<cleaned, openTx, connVars, produced, refused, restarts>>

----------------------------------------------------------------------------
(* GET /stream. *)

\* The request is taken with Last-Event-ID, or without; the generator starts
\* later, when the response is sent.
Ask(c, n) ==
    /\ job = NoJob /\ pc[c] = "away"
    /\ n \in {0, cursor[c]}
    /\ pc' = [pc EXCEPT ![c] = "asked"]
    /\ since' = [since EXCEPT ![c] = n]
    /\ UNCHANGED <<storeVars, hubVars, postVars, job, tick, refused, cursor, pending, got, histVars,
                   covered, restarts>>

Streaming == {c \in DOMAIN pc : pc[c] \in {"replay", "query", "live"}}

\* The k-th of a set of positions.
Nth(S, k) == CHOOSE i \in S : Cardinality({j \in S : j <= i}) = k

\* The events above n, in their order.
After(events, n) ==
    LET S == {i \in DOMAIN events : events[i].seq > n}
    IN  [k \in 1 .. Cardinality(S) |-> events[Nth(S, k)]]

\* MAX_SSE_CLIENTS, checked in the generator.
Admits == Cardinality(clients) < MaxClients

\* The generator's first step: check, connect and replay_since in one go.
Connect(c) ==
    /\ job = NoJob /\ pc[c] = "asked" /\ Admits
    /\ clients' = clients \cup {c} /\ slow' = slow \ {c}
    /\ queue' = [queue EXCEPT ![c] = <<>>]
    /\ pending' = [pending EXCEPT ![c] = After(ring, since[c])]
    /\ got' = [got EXCEPT ![c] = <<>>]
    /\ owed' = [owed EXCEPT ![c] = After(log, since[c])]
    /\ covered' = [covered EXCEPT ![c] =
                     /\ ToSet(After(log, since[c])) \subseteq ToSet(ring)
                     /\ since[c] = 0 \/ After(ring, since[c]) # <<>>]
    /\ pc' = [pc EXCEPT ![c] = "replay"]
    /\ UNCHANGED <<storeVars, postVars, job, tick, refused, ring, since, cursor, restarts>>

\* The stream is empty and ends at once when there are too many clients.
TurnAway(c) ==
    /\ job = NoJob /\ pc[c] = "asked" /\ ~Admits
    /\ pc' = [pc EXCEPT ![c] = "away"]
    /\ UNCHANGED <<storeVars, hubVars, postVars, job, tick, refused, since, cursor, pending, got,
                   histVars, covered, restarts>>

Sees(c, r) ==
    /\ got' = [got EXCEPT ![c] = Append(@, r)]
    /\ cursor' = [cursor EXCEPT ![c] = IF r.seq > @ THEN r.seq ELSE @]

\* Phase 1: send what was replayed.
SendReplay(c) ==
    /\ job = NoJob /\ pc[c] = "replay" /\ pending[c] # <<>>
    /\ Sees(c, Head(pending[c]))
    /\ pending' = [pending EXCEPT ![c] = Tail(@)]
    /\ UNCHANGED <<storeVars, hubVars, postVars, job, tick, refused, pc, since, histVars, covered, restarts>>

\* An empty replay after a cursor asks the database, anything else goes live.
ReplayEnds(c) ==
    /\ job = NoJob /\ pc[c] = "replay" /\ pending[c] = <<>>
    /\ pc' = [pc EXCEPT ![c] = IF since[c] > 0 /\ got[c] = <<>> THEN "query" ELSE "live"]
    /\ UNCHANGED <<storeVars, hubVars, postVars, job, tick, refused, since, cursor, pending, got,
                   histVars, covered, restarts>>

\* query_events in the executor, beside the loop; ordered by seq, limited.
Query(c) ==
    /\ pc[c] = "query" /\ pending[c] = <<>>
    /\ LET found == SortSeq(After(Rows, since[c]), LAMBDA a, b : a.seq < b.seq)
       IN  pending' = [pending EXCEPT ![c] =
                         SubSeq(found, 1, IF Len(found) < QueryLimit THEN Len(found) ELSE QueryLimit)]
    /\ pc' = [pc EXCEPT ![c] = "live"]
    /\ UNCHANGED <<storeVars, hubVars, postVars, job, tick, refused, since, cursor, got, histVars,
                   covered, restarts>>

\* Phase 2, after what the fallback found.  The sentinel's branch does not
\* occur: broadcast cannot queue None, and the shutdown that could runs after
\* uvicorn has seen the streams end.
SendLive(c) ==
    /\ job = NoJob /\ pc[c] = "live"
    /\ IF pending[c] # <<>>
       THEN /\ Sees(c, Head(pending[c]))
            /\ pending' = [pending EXCEPT ![c] = Tail(@)]
            /\ UNCHANGED queue
       ELSE /\ queue[c] # <<>>
            /\ Sees(c, Head(queue[c]))
            /\ queue' = [queue EXCEPT ![c] = Tail(@)]
            /\ UNCHANGED pending
    /\ UNCHANGED <<storeVars, postVars, job, tick, refused, ring, clients, pc, since, histVars, covered, restarts>>

Drop(gone) ==
    /\ pc' = [c \in Clients |-> IF c \in gone THEN "away" ELSE pc[c]]
    /\ clients' = clients \ gone
    /\ queue' = [c \in Clients |-> IF c \in gone THEN <<>> ELSE queue[c]]
    /\ pending' = [c \in Clients |-> IF c \in gone THEN <<>> ELSE pending[c]]
    /\ got' = [c \in Clients |-> IF c \in gone THEN <<>> ELSE got[c]]
    /\ owed' = [c \in Clients |-> IF c \in gone THEN <<>> ELSE owed[c]]
    /\ slow' = slow \ gone
    /\ UNCHANGED <<since, cursor, covered>>

\* The client goes away: the generator is cancelled and disconnects.
Leave(c) ==
    /\ job = NoJob /\ c \in Streaming
    /\ Drop({c})
    /\ UNCHANGED <<storeVars, postVars, job, tick, refused, ring, restarts>>

----------------------------------------------------------------------------
(* The server. *)

\* Events a request in flight may still bring again are seconds old.
Recent == UNION {Ids(req.body) : req \in
            posts \cup (({waiting[s] : s \in Sources} \cup
                         IF job = NoJob THEN {} ELSE {job.req}) \ {NoPost})}

\* _periodic_cleanup, every six hours: its commit also ends an open transaction.
Cleanup(n) ==
    /\ job = NoJob
    /\ n \in cleaned .. Len(log)
    /\ n > cleaned \/ openTx
    /\ \A i \in cleaned + 1 .. n : log[i].num \notin Recent
    /\ cleaned' = n /\ openTx' = FALSE
    /\ UNCHANGED <<lastSeq, log, count, hubVars, postVars, connVars, job, tick, refused, histVars, restarts>>

\* The process ends and starts again on the same database.
Restart ==
    /\ restarts < MaxRestarts
    /\ restarts' = restarts + 1
    /\ openTx' = FALSE /\ job' = NoJob
    /\ ring' = <<>> /\ count' = Len(Rows)
    /\ Drop(Clients)
    /\ UNCHANGED <<lastSeq, log, cleaned, postVars, tick, refused>>

----------------------------------------------------------------------------
Init ==
    /\ lastSeq = [s \in Sources |-> 0]
    /\ log = <<>> /\ cleaned = 0 /\ openTx = FALSE /\ count = 0
    /\ ring = <<>> /\ clients = {} /\ queue = [c \in Clients |-> <<>>]
    /\ job = NoJob /\ posts = {} /\ waiting = [s \in Sources |-> NoPost]
    /\ produced = 0 /\ tick = 0 /\ acked = {} /\ refused = {}
    /\ pc = [c \in Clients |-> "away"]
    /\ since = [c \in Clients |-> 0] /\ cursor = [c \in Clients |-> 0]
    /\ pending = [c \in Clients |-> <<>>]
    /\ got = [c \in Clients |-> <<>>] /\ owed = [c \in Clients |-> <<>>]
    /\ covered = [c \in Clients |-> FALSE] /\ slow = {}
    /\ restarts = 0

Ingest ==
    \/ \E req \in posts : Receive(req) \/ Lose(req)
    \/ RefuseOpen
    \/ \E t \in {tick, tick + 1} : RefuseClash(t) \/ Store(t)

Reader(c) ==
    \/ \E n \in {0, cursor[c]} : Ask(c, n)
    \/ Connect(c) \/ TurnAway(c)
    \/ SendReplay(c) \/ ReplayEnds(c) \/ Query(c) \/ SendLive(c)
    \/ Leave(c)

Next ==
    \/ \E s \in Sources : TimesOut(s) \/ \E n \in 1 .. MaxBatch, own \in OwnIds : Post(s, n, own)
    \/ Ingest
    \/ \E c \in Clients : Reader(c)
    \/ \E n \in cleaned .. Len(log) : Cleanup(n)
    \/ Restart

Spec == Init /\ [][Next]_vars

----------------------------------------------------------------------------
(* Properties. *)

StoreType ==
    /\ lastSeq \in [Sources -> Nat]
    /\ log \in Seq(StoredEvent) /\ cleaned \in 0 .. Len(log)
    /\ openTx \in BOOLEAN /\ count \in Nat /\ tick \in Nat

PostType ==
    /\ produced \in 0 .. MaxEvents
    /\ posts \subseteq Request
    /\ waiting \in [Sources -> Request \cup {NoPost}]
    /\ job \in Job \cup {NoJob}
    /\ acked \subseteq 1 .. MaxEvents /\ refused \subseteq {"open", "seq", "id", "ms"}

ConnType ==
    /\ ring \in Seq(StoredEvent) /\ Len(ring) <= RingSize
    /\ clients \subseteq Streaming /\ slow \subseteq Streaming \ clients
    /\ pc \in [Clients -> {"away", "asked", "replay", "query", "live"}]
    /\ {queue, pending, got, owed} \subseteq [Clients -> Seq(StoredEvent)]
    /\ \A c \in Clients : Len(queue[c]) <= QueueSize
    /\ {since, cursor} \subseteq [Clients -> Nat] /\ covered \in [Clients -> BOOLEAN]
    /\ restarts \in 0 .. MaxRestarts

\* Tables, requests, buffers and connections have their types and bounds; a
\* client is registered only while it streams.
TypeOK == StoreType /\ PostType /\ ConnType

\* What a stream has sent or still holds for its client.
Held(c) == got[c] \o pending[c] \o queue[c]

\* A stream that starts inside the ring buffer sends every event from its
\* cursor once and in the order of storing, whatever is ingested, replayed and
\* read in between: all of them while the client keeps up, and none after the
\* first one dropped for a slow client (get_stream, broadcast).
StreamsHaveNoGaps ==
    \A c \in Streaming : covered[c] =>
        /\ IsPrefix(Held(c), owed[c])
        /\ c \notin slow => Held(c) = owed[c]

\* Only streams that broadcast gave up on escape MAX_SSE_CLIENTS, though the
\* limit is looked at when the response starts and not when it is asked for.
LimitedUnlessSlow == Cardinality(Streaming \ slow) <= MaxClients

\* The sequence numbers of a source increase over refused events, deleted rows
\* and restarts, so that a cursor never hides a later event of that source
\* (get_next_sequence).
SeqsNeverReused ==
    \A i, j \in DOMAIN log : i < j /\ log[i].src = log[j].src => log[i].seq < log[j].seq

\* What a producer was told is stored is stored, through batches that fail half
\* way, retries that overlap and restarts (ingest_batch, post_event_batch).
AcknowledgedIsStored == acked \subseteq {r.num : r \in ToSet(log)}

----------------------------------------------------------------------------
(* What the repository says and the code does not keep. *)

\* "One streaming server merges events from both DSH and the engine into a
\* single monotonic stream": no event is refused for another source's number.
EverySourceHeard == "seq" \notin refused

=============================================================================
