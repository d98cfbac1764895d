----------------------------- MODULE DshAdapter ------------------------------
(* The bridges from DSH to the streaming server: dsh_adapter.py polls the      *)
(* sessions, dsh_adapter_ws.py reads two event streams (SSE or WebSocket) and  *)
(* falls back to polling.  DSH itself is external, and answers or does not.    *)
EXTENDS Naturals, Sequences, FiniteSets, SequencesExt, Lists

CONSTANTS Sessions,     \* session ids
          MaxEvents,    \* bound: events DSH logs in all, for a polling adapter
          MaxStreamed,  \* and for a streaming one
          MaxBreaks,    \* bound: streams that break
          MaxCancels,   \* bound: cancellations of the adapter's task
          None

VARIABLES dsh,      \* [live, log]: the sessions listed, each one's events
          adapter,  \* the adapter object and the task running start()
          wire,     \* frames sent and not read yet, per stream
          threads,  \* executor threads: calls of the streaming client under way
          sink      \* what the client was handed, in the order the calls ended

vars == <<dsh, adapter, wire, threads, sink>>

Kinds == {"mapped", "unmapped"}
Streams == {"mux", "host"}
Mocks == {"mock", "wsmock"}
Polls == {"poll", "http"} \cup Mocks

\* The object as __init__ leaves it and start() was called on it.
NewAdapter(mode, sse, ws) ==
  [mode |-> mode, sse |-> sse, ws |-> ws, used |-> None, pc |-> "start", running |-> TRUE,
   shutdown |-> FALSE, seqs |-> [s \in Sessions |-> 0], known |-> {}, todo |-> {},
   batch |-> << >>, breaks |-> 0, cancels |-> 0]

Init ==
  /\ dsh = [live |-> Sessions, log |-> [s \in Sessions |-> << >>]]
  /\ \E mode \in {"poll", "auto", "sse", "ws"} \cup Mocks, sse, ws \in BOOLEAN :
       /\ mode \in {"poll"} \cup Mocks => sse /\ ws
       /\ adapter = NewAdapter(mode, sse, ws)
  /\ wire = [st \in Streams |-> << >>]
  /\ threads = {}
  /\ sink = << >>

Logged == LET Add(s, n) == n + Len(dsh.log[s]) IN FoldSet(Add, 0, Sessions)

-----------------------------------------------------------------------------
(* DSH: external, as the adapters use it.                                      *)

Connected == adapter.pc = "connected"

Push(st, frame) == IF Connected THEN [wire EXCEPT ![st] = Append(@, frame)] ELSE wire

LogEvent ==
  \E s \in dsh.live, k \in Kinds :
    /\ adapter.mode \notin Mocks
    /\ Logged < IF adapter.mode = "poll" THEN MaxEvents ELSE MaxStreamed
    /\ dsh' = [dsh EXCEPT !.log[s] = Append(@, k)]
    /\ wire' = Push("mux", [type |-> "event", s |-> s, n |-> Len(dsh.log[s]) + 1])
    /\ UNCHANGED <<adapter, threads, sink>>

CloseSession ==
  \E s \in dsh.live :
    /\ dsh.log[s] # << >>
    /\ dsh' = [dsh EXCEPT !.live = @ \ {s}]
    /\ wire' = Push("host", [type |-> "removed", s |-> s])
    /\ UNCHANGED <<adapter, threads, sink>>

-----------------------------------------------------------------------------
(* Projection and the calls of the streaming client.                           *)

Mapped(s) == {n \in 1..Len(dsh.log[s]) : dsh.log[s][n] = "mapped"}

\* _project_event: unmapped types are dropped, the seq travels as dsh_seq.
Projected(s, since) == Among([i \in 1..(Len(dsh.log[s]) - since) |-> since + i], Mapped(s))

Envelopes(via, s, ns) == [i \in DOMAIN ns |-> [via |-> via, s |-> s, n |-> ns[i]]]

\* _emit and _emit_batch run in an executor thread and never raise: the client
\* gives up after two attempts and nobody asks (what a call may have stored is
\* EventStream's matter).
Call(owner, envelopes) == threads \cup {[owner |-> owner, envelopes |-> envelopes]}

\* A thread whose task was cancelled goes on, and nobody waits for it.
Orphaned(owners) ==
  {IF t.owner \in owners THEN [t EXCEPT !.owner = "nobody"] ELSE t : t \in threads}

CallEnds ==
  \E t \in threads :
    /\ threads' = threads \ {t}
    /\ sink' = sink \o t.envelopes
    /\ adapter' = IF t.owner = "poll" THEN [adapter EXCEPT !.pc = "wait", !.batch = << >>] ELSE adapter
    /\ UNCHANGED <<dsh, wire>>

-----------------------------------------------------------------------------
(* The polling adapter, on its own and as the fallback of the other.           *)

\* _http_poll_fallback builds a DSHAdapter of its own, with no cursors.
StartPolling(used) ==
  [adapter EXCEPT !.pc = "cycle", !.used = used, !.seqs = [s \in Sessions |-> 0], !.batch = << >>]

\* _poll_sessions: no answer and an empty list end the cycle.
PollSessions ==
  /\ adapter.pc = "cycle" /\ adapter.used \notin Mocks
  /\ \E answer \in {{}, dsh.live} :
       adapter' = [adapter EXCEPT !.todo = answer, !.pc = IF answer = {} THEN "wait" ELSE "fetch"]
  /\ UNCHANGED <<dsh, wire, threads, sink>>

\* variant: the seq of the first event kept
CursorAtFirst(since, ns) == IF ns = << >> THEN since ELSE Head(ns)

\* The cursor after a session's answer: the greatest seq among the events kept.
Cursor(since, ns) == IF ns = << >> THEN since ELSE Last(ns)

PollSession ==
  \E s \in adapter.todo, answered \in BOOLEAN :
    /\ adapter.pc = "fetch"
    /\ LET ns == IF answered THEN Projected(s, adapter.seqs[s]) ELSE << >> IN
         adapter' = [adapter EXCEPT !.todo = @ \ {s},
                       !.seqs[s] = Cursor(adapter.seqs[s], ns),
                       !.batch = @ \o Envelopes(adapter.used, s, ns)]
    /\ UNCHANGED <<dsh, wire, threads, sink>>

\* The cursors have moved before the batch is handed over, whatever comes of it.
EmitBatch ==
  /\ adapter.pc = "fetch" /\ adapter.todo = {}
  /\ adapter' = [adapter EXCEPT !.pc = IF adapter.batch = << >> THEN "wait" ELSE "emit"]
  /\ threads' = IF adapter.batch = << >> THEN threads ELSE Call("poll", adapter.batch)
  /\ UNCHANGED <<dsh, wire, sink>>

\* A made-up event is of a mapped type.
MockEvents(burst) == [i \in 1..burst |-> "mapped"]

\* A burst of events of one session, the only one known.
Mock(via) ==
  \E s \in Sessions, burst \in 1..4 :
    /\ adapter.pc = "cycle" /\ adapter.used = via /\ Logged + burst <= MaxEvents
    /\ adapter.known \subseteq {s}
    /\ LET ns == [i \in 1..burst |-> adapter.seqs[s] + i]
           es == Envelopes(via, s, ns) IN
         /\ adapter' = [adapter EXCEPT !.known = {s}, !.seqs[s] = @ + burst, !.batch = es, !.pc = "emit"]
         /\ threads' = Call("poll", es)
    /\ dsh' = [dsh EXCEPT !.log[s] = @ \o MockEvents(burst)]
    /\ UNCHANGED <<wire, sink>>

\* The polling adapter's mock mode and the streaming one's.
MockCycle == Mock("mock")
MockLoop == Mock("wsmock")

\* The wait between cycles ends at once when shutdown is signalled.
Wait ==
  /\ adapter.pc = "wait"
  /\ adapter.shutdown \/ adapter.used \notin Mocks \/ Logged < MaxEvents
  /\ adapter' = [adapter EXCEPT !.pc = IF adapter.shutdown THEN "over" ELSE "cycle"]
  /\ UNCHANGED <<dsh, wire, threads, sink>>

-----------------------------------------------------------------------------
(* The streaming adapter: SSE and WebSocket run the same loop.                 *)

\* start() and _auto_transport: SSE where aiohttp is installed, WebSocket where
\* websockets is, and polling when both have come back with the adapter running.
Choice(tried) ==
  IF adapter.mode # "auto" THEN (IF tried = None THEN adapter.mode ELSE None)
  ELSE IF adapter.sse /\ tried = None THEN "sse"
  ELSE IF adapter.ws /\ tried \in {None, "sse"} THEN "ws"
  ELSE IF tried # "http" THEN "http" ELSE None

\* A transport whose library is missing raises out of start().
Library(t) == CASE t = "sse" -> adapter.sse [] t = "ws" -> adapter.ws [] OTHER -> TRUE

Run(t) ==
  IF t = None \/ ~Library(t) THEN [adapter EXCEPT !.pc = "stopped", !.running = FALSE]
  ELSE IF t \in Polls THEN StartPolling(t)
  ELSE [adapter EXCEPT !.pc = "connect", !.used = t]

Start ==
  /\ adapter.pc = "start"
  /\ adapter' = Run(Choice(None))
  /\ UNCHANGED <<dsh, wire, threads, sink>>

\* A transport's loop is over: the next one is tried if the adapter still runs.
NextTransport ==
  /\ adapter.pc = "over"
  /\ adapter' = IF adapter.running THEN Run(Choice(adapter.used))
                ELSE [adapter EXCEPT !.pc = "stopped"]
  /\ UNCHANGED <<dsh, wire, threads, sink>>

\* Both streams are opened; DSH tells where each session stands.
Open(t) ==
  /\ adapter.pc = "connect" /\ adapter.used = t
  /\ \/ /\ adapter' = [adapter EXCEPT !.pc = "connected"]
        /\ \E order \in SetToSeqs(dsh.live) :
             wire' = [st \in Streams |->
               IF st = "mux" THEN [i \in DOMAIN order |->
                    [type |-> "subscribed", s |-> order[i], n |-> Len(dsh.log[order[i]])]]
               ELSE << >>]
     \/ /\ adapter.breaks < MaxBreaks
        /\ adapter' = [adapter EXCEPT !.pc = "backoff", !.breaks = @ + 1]
        /\ UNCHANGED wire
  /\ UNCHANGED <<dsh, threads, sink>>

ConnectSse == Open("sse")
ConnectWs == Open("ws")

Waits(st) == \E t \in threads : t.owner = st

\* The streams are left: the other one is cancelled, its thread runs on.
Leave(pc) ==
  /\ adapter' = [adapter EXCEPT !.pc = pc, !.breaks = IF pc = "backoff" THEN @ + 1 ELSE @]
  /\ threads' = Orphaned(Streams)
  /\ wire' = [st \in Streams |-> << >>]

\* A chunk has arrived; the shutdown event is looked at only then.
HandleFrame(t) ==
  \E st \in Streams :
    /\ Connected /\ adapter.used = t /\ wire[st] # << >> /\ ~Waits(st)
    /\ IF adapter.shutdown THEN Leave("over")
       ELSE LET f == Head(wire[st]) IN
         /\ wire' = [wire EXCEPT ![st] = Tail(@)]
         /\ adapter' = CASE f.type = "subscribed" /\ adapter.seqs[f.s] < f.n -> [adapter EXCEPT !.seqs[f.s] = f.n]
                         [] f.type = "removed" -> [adapter EXCEPT !.seqs[f.s] = 0, !.known = @ \ {f.s}]
                         [] OTHER -> adapter
         /\ threads' = IF f.type = "event" /\ dsh.log[f.s][f.n] = "mapped"
                       THEN Call(st, Envelopes(adapter.used, f.s, <<f.n>>)) ELSE threads
    /\ UNCHANGED <<dsh, sink>>

PumpStream == HandleFrame("sse")
PumpWs == HandleFrame("ws")

\* One stream ends or fails: both are dropped, frames on the way are lost.
StreamBreaks ==
  /\ Connected /\ (adapter.breaks < MaxBreaks \/ adapter.shutdown)
  /\ Leave(IF adapter.shutdown THEN "over" ELSE "backoff")
  /\ UNCHANGED <<dsh, sink>>

Backoff ==
  /\ adapter.pc = "backoff"
  /\ adapter' = [adapter EXCEPT !.pc = IF adapter.shutdown THEN "over" ELSE "connect"]
  /\ UNCHANGED <<dsh, wire, threads, sink>>

-----------------------------------------------------------------------------
(* Signals, cancellation.                                                      *)

Stop ==
  /\ adapter.pc \notin {"start", "stopped"} /\ ~adapter.shutdown
  /\ adapter' = [adapter EXCEPT !.running = FALSE, !.shutdown = TRUE]
  /\ UNCHANGED <<dsh, wire, threads, sink>>

\* Cancelling the task ends start() while it polls by itself; the transports of
\* the streaming adapter swallow the cancellation and count as over.
Cancel ==
  /\ adapter.pc \in {"fetch", "emit", "wait", "cycle", "connect", "connected", "backoff"}
  /\ adapter.cancels < MaxCancels
  /\ adapter' = [adapter EXCEPT !.cancels = @ + 1, !.todo = {},
                   !.pc = IF adapter.used \in {"poll"} \cup Mocks THEN "stopped" ELSE "over",
                   !.running = @ /\ adapter.used \notin {"poll"} \cup Mocks]
  /\ threads' = Orphaned(Streams \cup {"poll"})
  /\ wire' = [st \in Streams |-> << >>]
  /\ UNCHANGED <<dsh, sink>>

-----------------------------------------------------------------------------
Task ==
  \/ Start \/ PollSessions \/ PollSession \/ EmitBatch \/ MockCycle \/ MockLoop \/ Wait
  \/ NextTransport \/ ConnectSse \/ ConnectWs \/ PumpStream \/ PumpWs \/ Backoff \/ CallEnds

Next == Task \/ LogEvent \/ CloseSession \/ StreamBreaks \/ Stop \/ Cancel

Spec == Init /\ [][Next]_vars /\ WF_vars(Task)

-----------------------------------------------------------------------------
TypeOK ==
  /\ dsh.live \subseteq Sessions /\ dsh.log \in [Sessions -> Seq(Kinds)]
  /\ adapter.pc \in {"start", "cycle", "fetch", "emit", "wait", "connect", "connected", "backoff", "over", "stopped"}
  /\ adapter.seqs \in [Sessions -> Nat]
  /\ adapter.todo \subseteq Sessions

\* The calls under way with envelopes of the poller in use.
UnderWay == {t \in threads : \E i \in DOMAIN t.envelopes : t.envelopes[i].via = adapter.used}

\* What the poller in use has handed over for s, or is collecting, in order.
Handed(s) ==
  LET calling == IF UnderWay = {} THEN << >> ELSE (CHOOSE t \in UnderWay : TRUE).envelopes
      collecting == IF adapter.pc = "fetch" THEN adapter.batch ELSE << >>
      mine == Among(sink \o calling \o collecting, [via : {adapter.used}, s : {s}, n : Nat])
  IN [i \in DOMAIN mine |-> mine[i].n]

\* While it polls, the poller makes one call at a time and has handed over exactly
\* the events of a known type up to each session's cursor, once each and in their
\* order: the cursor, which moves before the call is made, neither skips an event
\* nor reads one twice, whichever requests fail, and however many events of
\* unknown types there are.
HandedUpToCursor ==
  adapter.used \in Polls /\ adapter.pc \in {"cycle", "fetch", "emit", "wait"} =>
    /\ \A t, u \in UnderWay : t = u
    /\ \A s \in Sessions :
         /\ adapter.seqs[s] <= Len(dsh.log[s])
         /\ Handed(s) = Among([n \in 1..adapter.seqs[s] |-> n], Mapped(s))

=============================================================================
