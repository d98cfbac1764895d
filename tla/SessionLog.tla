------------------------------ MODULE SessionLog ------------------------------
(***************************************************************************)
(* The session log of a run's model calls (src/engine/session_log.py and   *)
(* the callers of its recorder).  A call is made on the thread that runs   *)
(* the task, or on a worker thread of _with_timeout, which goes on after   *)
(* the engine gave up on it; its answer is recorded where it arrives.      *)
(***************************************************************************)
EXTENDS Integers, FiniteSetsExt

CONSTANTS
    Calls,          \* model calls of a run
    Attempts        \* attempt numbers they are recorded under

Home == "task"      \* the thread that opened the recorder
Worker == "worker"

VARIABLES
    state,      \* running, closed (the recorder), dead (the process)
    call,       \* each call: pc, thread and attempt
    sidecar,    \* calls whose payload is in the JSONL file
    sessions,   \* session_logs: attempt -> call
    telemetry   \* generation_telemetry: calls

vars == <<state, call, sidecar, sessions, telemetry>>

-----------------------------------------------------------------------------
Idle == [pc |-> "idle", thread |-> Home, attempt |-> 1]
Busy(c) == call[c].pc \notin {"idle", "done"}

\* generate_code and its like ask the model: one at a time on the task's thread.
\* The first two attempts of a task are both recorded as attempt 1.
Ask(c, thread, attempt) ==
    /\ state = "running" /\ call[c].pc = "idle"
    /\ thread = Home => \A d \in Calls : call[d].thread = Home => ~Busy(d)
    /\ call' = [call EXCEPT ![c] = [pc |-> "asked", thread |-> thread, attempt |-> attempt]]
    /\ UNCHANGED <<state, sidecar, sessions, telemetry>>

\* The call raises: nothing is recorded.
Fail(c) ==
    /\ state # "dead" /\ call[c].pc = "asked"
    /\ call' = [call EXCEPT ![c].pc = "done"]
    /\ UNCHANGED <<state, sidecar, sessions, telemetry>>

\* Both rows in one transaction, the session's replacing one of the same
\* attempt.  The connection belongs to the thread that opened it: on another one,
\* and after the close, sqlite raises, which the caller swallows.
Insert(c) ==
    IF state = "running" /\ call[c].thread = Home
    THEN /\ sessions' = [a \in DOMAIN sessions \cup {call[c].attempt} |->
                           IF a = call[c].attempt THEN c ELSE sessions[a]]
         /\ telemetry' = telemetry \cup {c}
    ELSE UNCHANGED <<sessions, telemetry>>

\* (variant) The rows first.
PayloadLater(c) ==
    /\ state # "dead" /\ call[c].pc = "asked"
    /\ Insert(c)
    /\ call' = [call EXCEPT ![c].pc = IF state = "running" THEN "payload" ELSE "done"]
    /\ UNCHANGED <<state, sidecar>>

\* record, first half: the payload is appended and flushed; a closed recorder
\* raises.
Payload(c) ==
    /\ state # "dead" /\ call[c].pc = "asked"
    /\ IF state = "running"
       THEN sidecar' = sidecar \cup {c} /\ call' = [call EXCEPT ![c].pc = "payload"]
       ELSE UNCHANGED sidecar /\ call' = [call EXCEPT ![c].pc = "done"]
    /\ UNCHANGED <<state, sessions, telemetry>>

\* record, second half.
Rows(c) ==
    /\ state # "dead" /\ call[c].pc = "payload"
    /\ Insert(c)
    /\ call' = [call EXCEPT ![c].pc = "done"]
    /\ UNCHANGED <<state, sidecar>>

\* close, between two calls of its own thread.
Close ==
    /\ state = "running" /\ \A c \in Calls : call[c].thread = Home => ~Busy(c)
    /\ state' = "closed"
    /\ UNCHANGED <<call, sidecar, sessions, telemetry>>

Die ==
    /\ state # "dead" /\ state' = "dead"
    /\ UNCHANGED <<call, sidecar, sessions, telemetry>>

\* get_logs: what a reader finds of the run.
Logged == {sessions[a] : a \in DOMAIN sessions}

Init ==
    /\ state = "running" /\ call = [c \in Calls |-> Idle]
    /\ sidecar = {} /\ sessions = [a \in {} |-> 0] /\ telemetry = {}

Next ==
    \/ \E c \in Calls, thread \in {Home, Worker}, a \in Attempts : Ask(c, thread, a)
    \/ \E c \in Calls : Fail(c) \/ Payload(c) \/ Rows(c)
    \/ Close \/ Die

Spec == Init /\ [][Next]_vars

-----------------------------------------------------------------------------
\* session_log.py:7-10: a row can be replayed.  Whatever dies or is closed between
\* the two halves of a record, and on whichever thread it was made, each row has
\* its payload in the sidecar, and each session row its telemetry.
RowsCanBeReplayed ==
    /\ telemetry \subseteq sidecar
    /\ Logged \subseteq telemetry

\* session_log.py:1: every model call that was answered is persisted.
EveryCallLogged ==
    \A c \in Calls : call[c].pc = "done" /\ c \in sidecar => c \in Logged
=============================================================================
