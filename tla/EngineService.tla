--------------------------- MODULE EngineService ---------------------------
(***************************************************************************)
(* The engine service: engine_service.py, its client engine_client.py and  *)
(* the GPU poller gpu_telemetry.py that it starts in-process.              *)
(*                                                                         *)
(* One service process with its lifecycle state and .engine_state file,    *)
(* clients whose calls retry, and SSE readers.  The event loop runs one    *)
(* handler at a time between awaits: /run-tests, /write-files and          *)
(* /git-commit call their subprocesses synchronously, so each is one step; *)
(* /inference and /exec await an executor, so each has a beginning and an  *)
(* end.  uvicorn, the model server, git and the shell are external.        *)
(***************************************************************************)
EXTENDS Integers, FiniteSets, Sequences

CONSTANTS
    Calls,        \* calls that clients make, each once
    DegradedAt,   \* consecutive errors that degrade the service (5)
    FailedAt,     \* consecutive errors that fail it (10)
    MaxRetries,   \* EngineClient.MAX_RETRIES
    MaxBoots      \* bound on starts of the service

Slow == {"inference", "exec"}            \* handlers that await
Quick == {"tests", "write", "read"}      \* handlers that do not
Raw == {"commit", "snapshot"}            \* sent without EngineClient, once
Kinds == Slow \union Quick \union Raw \union {"stream", "invalid"}
Final == {200, 126, 400, 401}            \* 126 is the 200 of a blocked command

ASSUME ServiceAssumption ==
    /\ DegradedAt \in Nat /\ FailedAt \in Nat /\ 1 < DegradedAt /\ DegradedAt < FailedAt
    /\ MaxRetries \in Nat \ {0} /\ MaxBoots \in Nat
    /\ IsFiniteSet(Calls)

States == {"STOPPED", "STARTING", "READY", "PROCESSING", "DEGRADED", "FAILED"}
NoFile == [state |-> "none", errors |-> 0]
Torn == [state |-> "torn", errors |-> 0]   \* truncated, or written in part

VARIABLES
    withGpu,   \* --with-gpu
    proc,      \* the process: "down", "up", "draining" (should_exit) or "stopped"
    state,     \* lifecycle.state
    errors,    \* lifecycle.consecutive_errors
    file,      \* .engine_state
    warmup,    \* the readiness timer of on_startup: "off", "armed", "query"
    jobs,      \* handlers at work: [call, attempt, st]
    poller,    \* GPU poller: [running, thread]
    disk,      \* calls whose files are on disk
    index,     \* calls whose files are staged
    head,      \* calls whose files are committed
    call,      \* client side: [kind, st, attempt, result]; kind "none" is no call
    ran,       \* history: executions of each call's command
    openAtSet, \* history: jobs at work when this process last wrote the file
               \* in full, or failed to write it since
    boots

lifecycle == <<state, errors, file, openAtSet>>
server == <<withGpu, proc, warmup, jobs, poller, boots>>
repo == <<disk, index, head>>
client == <<call, ran>>
vars == <<lifecycle, server, repo, client>>

----------------------------------------------------------------------------
(* LifecycleManager. *)

Running(js) == {j \in js : j.st = "running"}

\* _persist: write_text truncates the file and then writes it, and an OSError
\* is swallowed: the file is written, as it was, or cut short.
Persist(s, e, open) ==
    \/ file' = [state |-> s, errors |-> e] /\ openAtSet' = open
    \/ file' \in {file, Torn} /\ openAtSet' = openAtSet \union open

\* set: the new state, in memory and, if it can be written, in the file.
SetInMemory(s, e, open) == state' = s /\ errors' = e /\ UNCHANGED <<file, openAtSet>>
Write(s, e, open) == state' = s /\ errors' = e /\ Persist(s, e, open)
Set(s, e) == Write(s, e, Running(jobs))

\* Only the count in memory changes.
Count(e) == errors' = e /\ UNCHANGED <<state, file, openAtSet>>

IdleAfterError(e) == Set("READY", e + 1)
RecordError(e) ==
    CASE e + 1 >= FailedAt -> Set("FAILED", e + 1)
      [] e + 1 \in DegradedAt .. FailedAt - 1 -> Set("DEGRADED", e + 1)
      [] OTHER -> Count(e + 1)

Busy == state \in {"DEGRADED", "PROCESSING"}
RecordSuccess == IF Busy THEN Set("READY", 0) ELSE Count(0)

\* The answer was good but does not fit InferenceResponse (content is null):
\* record_success and then, in the last handler, record_error.
RecordBoth ==
    /\ errors' = 1 /\ state' = IF Busy THEN "READY" ELSE state
    /\ IF Busy THEN Persist("READY", 0, Running(jobs)) ELSE UNCHANGED <<file, openAtSet>>

\* recover: a saved FAILED or STOPPED forgets the errors, any other state
\* brings them back; a file that cannot be read is ignored.
Recovered == IF file.state \in {"none", "torn", "FAILED", "STOPPED"} THEN 0 ELSE file.errors

----------------------------------------------------------------------------
(* The process. *)

\* GPUTelemetryPoller.start, a daemon thread.
StartedPoller == [running |-> withGpu, thread |-> IF withGpu THEN "waiting" ELSE "off"]

\* main and on_startup.  A missing token or a busy port exits before any of
\* it.
Boot ==
    /\ proc = "down" /\ boots < MaxBoots
    /\ state' = "STARTING" /\ errors' = Recovered /\ openAtSet' = {}
    /\ file' \in {[state |-> "STARTING", errors |-> Recovered], file, Torn}
    /\ proc' = "up" /\ warmup' = "armed" /\ boots' = boots + 1
    /\ poller' = StartedPoller
    /\ UNCHANGED <<withGpu, jobs, repo, client>>

\* call_later(0.5): _mark_ready starts its nvidia-smi query in the executor.
WarmupQuery ==
    /\ warmup = "armed" /\ warmup' = "query"
    /\ UNCHANGED <<lifecycle, withGpu, proc, jobs, poller, boots, repo, client>>

\* ... and marks the service READY whatever happened meanwhile.
MarkReady ==
    /\ warmup = "query" /\ warmup' = "off"
    /\ Set("READY", errors)
    /\ UNCHANGED <<withGpu, proc, jobs, poller, boots, repo, client>>

\* SIGTERM: main's loop handler sets should_exit.  Installing it replaced
\* _sigterm_handler, the only code that sets shutdown_event.
Sigterm ==
    /\ proc = "up" /\ proc' = "draining"
    /\ UNCHANGED <<lifecycle, withGpu, warmup, jobs, poller, boots, repo, client>>

\* on_shutdown, once uvicorn has no connection and no handler left.
\* poller.stop() waits for its thread interval + 2 seconds at most.
OnShutdown ==
    /\ proc = "draining" /\ proc' = "stopped"
    /\ jobs = {}
    /\ poller' = [poller EXCEPT !.running = FALSE]
    /\ Set("STOPPED", errors)
    /\ UNCHANGED <<withGpu, warmup, jobs, boots, repo, client>>

\* A step that may be in the middle of writing the file.
Persisting ==
    \/ warmup = "query" \/ (proc = "draining" /\ jobs = {})
    \/ \E j \in jobs : call[j.call].kind = "inference"

\* The process ends, at its own end or by a crash, which may cut the file short:
\* handlers, generators, the timer and the daemon thread go with it.
End ==
    /\ proc # "down" /\ proc' = "down" /\ warmup' = "off" /\ jobs' = {}
    /\ poller' = [running |-> FALSE, thread |-> "off"]
    /\ (UNCHANGED file \/ (Persisting /\ file' = Torn))
    /\ UNCHANGED <<state, errors, openAtSet, withGpu, boots, repo, client>>

\* _poll_loop: one query and one emit_event without a retry per round, then a
\* wait that stop() cuts short.
Thread(from, to) == poller.thread = from /\ poller' = [poller EXCEPT !.thread = to]

PollOnce ==
    /\ poller.running /\ Thread("waiting", "polling")
    /\ UNCHANGED <<lifecycle, withGpu, proc, warmup, jobs, boots, repo, client>>

\* nvidia-smi, here or over ssh, failed, timed out or printed no full line; or
\* its snapshot is sent: nothing else changes.
PollDone ==
    /\ Thread("polling", "waiting")
    /\ UNCHANGED <<lifecycle, withGpu, proc, warmup, jobs, boots, repo, client>>

PollExit ==
    /\ ~poller.running /\ Thread("waiting", "off")
    /\ UNCHANGED <<lifecycle, withGpu, proc, warmup, jobs, boots, repo, client>>

----------------------------------------------------------------------------
(* EngineClient. *)

Answered(c, status) ==
    LET last == status \in Final \/ call[c].attempt = MaxRetries IN
    call' = [call EXCEPT ![c].result = status, ![c].st = IF last THEN "done" ELSE "backoff"]

\* A job's answer reaches its client only while that still waits for it.
Deliver(j, status) ==
    IF call[j.call].st = "waiting" /\ call[j.call].attempt = j.attempt
    THEN Answered(j.call, status) ELSE UNCHANGED call

SameAttempt(c) == IF call[c].attempt = 0 THEN 1 ELSE call[c].attempt
NextAttempt(c) == IF call[c].kind \in Raw THEN MaxRetries ELSE call[c].attempt + 1

\* The methods of EngineClient: the next attempt opens a connection.  A raw
\* call (EngineClient posts `repo_path' to /git-commit, which wants
\* `project_path', so others use that one) is not retried.
Attempt(c) ==
    /\ call[c].st \in {"idle", "backoff"} /\ call[c].kind # "none"
    /\ LET a == NextAttempt(c)
           refused == IF a = MaxRetries THEN "done" ELSE "backoff" IN
       /\ call' = [call EXCEPT ![c].attempt = a, ![c].result = 0,
                               ![c].st = IF proc = "up" THEN "waiting" ELSE refused]
       /\ jobs' = IF proc = "up"
                  THEN jobs \union {[call |-> c, attempt |-> a, st |-> "queued"]} ELSE jobs
    /\ UNCHANGED <<lifecycle, withGpu, proc, warmup, poller, boots, repo, ran>>

\* The client's timeout, or its connection's end.
ClientTimeout(c) ==
    /\ call[c].st = "waiting" /\ Answered(c, 0)
    /\ UNCHANGED <<lifecycle, server, repo, ran>>

----------------------------------------------------------------------------
(* The handlers. *)

Drop(j) == jobs' = jobs \ {j}
Run(j) == jobs' = (jobs \ {j}) \union {[j EXCEPT !.st = "running"]}
Executed(c) == ran' = [ran EXCEPT ![c] = @ + 1]

\* verify_token and the request models: 401, 403 or 422.  EngineClient's own
\* git_commit is such a call.
Reject(j) ==
    /\ j.st = "queued" /\ call[j.call].kind = "invalid" /\ Drop(j) /\ Deliver(j, 401)
    /\ UNCHANGED <<lifecycle, withGpu, proc, warmup, poller, boots, repo, ran>>

\* inference: PROCESSING before anything else, over any state.
InferenceBegin(j) ==
    /\ j.st = "queued" /\ call[j.call].kind = "inference" /\ Run(j)
    /\ Write("PROCESSING", errors, Running(jobs) \union {[j EXCEPT !.st = "running"]})
    /\ Executed(j.call)
    /\ UNCHANGED <<withGpu, proc, warmup, poller, boots, repo, call>>

\* curl failed (503), its output is no JSON (502) or anything else (500, the
\* executor's TimeoutExpired included); a good answer; a good answer that
\* does not fit the response model (500).
InferenceEnd(j) ==
    /\ j.st = "running" /\ call[j.call].kind = "inference" /\ Drop(j)
    /\ \/ RecordError(errors) /\ Deliver(j, 503)
       \/ RecordSuccess /\ Deliver(j, 200)
       \/ RecordBoth /\ Deliver(j, 500)
    /\ UNCHANGED <<withGpu, proc, warmup, poller, boots, repo, ran>>

\* exec_command: a blocked command is answered at once, any other runs in the
\* executor; every outcome of it, its timeout included, is a 200.
ExecBlocked(j) ==
    /\ j.st = "queued" /\ call[j.call].kind = "exec" /\ Drop(j) /\ Deliver(j, 126)
    /\ UNCHANGED <<lifecycle, withGpu, proc, warmup, poller, boots, repo, ran>>

ExecBegin(j) ==
    /\ j.st = "queued" /\ call[j.call].kind = "exec" /\ Run(j) /\ Executed(j.call)
    /\ UNCHANGED <<lifecycle, withGpu, proc, warmup, poller, boots, repo, call>>

ExecEnd(j) ==
    /\ j.st = "running" /\ call[j.call].kind = "exec" /\ Drop(j) /\ Deliver(j, 200)
    /\ UNCHANGED <<lifecycle, withGpu, proc, warmup, poller, boots, repo, ran>>

\* is_safe_path, the decoding and atomic_write of every entry succeed, or some
\* fails; a file is replaced whole or not at all.
AllWritten == BOOLEAN

\* write_files: each entry apart, a bad path or a failed write is listed in
\* the answer and the next one is tried.  disk holds calls written in full.
WriteFiles(j) ==
    /\ j.st = "queued" /\ call[j.call].kind = "write" /\ Drop(j) /\ Deliver(j, 200)
    /\ \E all \in AllWritten : disk' = IF all THEN disk \union {j.call} ELSE disk
    /\ Executed(j.call)
    /\ UNCHANGED <<lifecycle, withGpu, proc, warmup, poller, boots, index, head>>

\* run_tests: no directory (400), or results, a timeout among them.
RunTests(j) ==
    /\ j.st = "queued" /\ call[j.call].kind = "tests" /\ Drop(j)
    /\ \/ Deliver(j, 400) /\ UNCHANGED ran
       \/ Deliver(j, 200) /\ Executed(j.call)
    /\ UNCHANGED <<lifecycle, withGpu, proc, warmup, poller, boots, repo>>

\* git_commit: no directory; `git add' fails, with earlier files staged or
\* not; `git commit' fails and leaves them staged; or all that is staged is
\* committed.  A git command past its timeout is an unhandled error (500).
GitCommit(j) ==
    /\ j.st = "queued" /\ call[j.call].kind = "commit" /\ Drop(j)
    /\ \E failure \in {400, 500} :
          \/ Deliver(j, failure) /\ UNCHANGED <<repo, ran>>
          \/ /\ index' = index \union {j.call} /\ Deliver(j, failure)
             /\ UNCHANGED <<disk, head, ran>>
          \/ /\ head' = head \union index \union {j.call} /\ index' = {}
             /\ Deliver(j, IF failure = 500 THEN 500 ELSE 200) /\ Executed(j.call)
             /\ UNCHANGED disk
    /\ UNCHANGED <<lifecycle, withGpu, proc, warmup, poller, boots>>

\* health_check and gpu_status_endpoint read and change nothing.
Read(j) ==
    /\ j.st = "queued" /\ call[j.call].kind = "read" /\ Drop(j) /\ Deliver(j, 200)
    /\ UNCHANGED <<lifecycle, withGpu, proc, warmup, poller, boots, repo, ran>>

\* get_gpu_snapshot: 503 without nvidia-smi.
GpuSnapshot(j) ==
    /\ j.st = "queued" /\ call[j.call].kind = "snapshot" /\ Drop(j)
    /\ \E status \in {200, 503} : Deliver(j, status)
    /\ UNCHANGED <<lifecycle, withGpu, proc, warmup, poller, boots, repo, ran>>

----------------------------------------------------------------------------
(* GET /stream. *)

\* stream_endpoint: the response starts and the generator runs on.
StreamBegin(j) ==
    /\ j.st = "queued" /\ call[j.call].kind = "stream" /\ Run(j) /\ Executed(j.call)
    /\ Deliver(j, 200)
    /\ UNCHANGED <<lifecycle, withGpu, proc, warmup, poller, boots, repo>>

\* event_generator looks at shutdown_event each second between heartbeats,
\* but nothing sets it: the generator runs until the reader hangs up.
StreamEnd(j) ==
    /\ j.st = "running" /\ call[j.call].kind = "stream" /\ Drop(j)
    /\ UNCHANGED <<lifecycle, withGpu, proc, warmup, poller, boots, repo, client>>

----------------------------------------------------------------------------
(* The whole. *)

Init ==
    /\ withGpu \in BOOLEAN /\ proc = "down" /\ state = "STOPPED" /\ errors = 0 /\ file = NoFile
    /\ warmup = "off" /\ jobs = {}
    /\ poller = [running |-> FALSE, thread |-> "off"]
    /\ disk = {} /\ index = {} /\ head = {}
    /\ call \in [Calls -> [kind : Kinds \union {"none"}, st : {"idle"}, attempt : {0}, result : {0}]]
    /\ ran = [c \in Calls |-> 0]
    /\ openAtSet = {} /\ boots = 0

Handler(j) ==
    \/ Reject(j) \/ InferenceBegin(j) \/ InferenceEnd(j)
    \/ ExecBlocked(j) \/ ExecBegin(j) \/ ExecEnd(j)
    \/ WriteFiles(j) \/ RunTests(j) \/ GitCommit(j) \/ Read(j) \/ GpuSnapshot(j)
    \/ StreamBegin(j) \/ StreamEnd(j)

Next ==
    \/ Boot \/ WarmupQuery \/ MarkReady \/ Sigterm \/ OnShutdown \/ End
    \/ PollOnce \/ PollDone \/ PollExit
    \/ \E c \in Calls : Attempt(c) \/ ClientTimeout(c)
    \/ \E j \in jobs : Handler(j)

Spec == Init /\ [][Next]_vars

----------------------------------------------------------------------------
(* Properties. *)

\* Of the errors counted in memory a crash loses those of handlers that were
\* at work when the file was last written in full, or at an attempt to write it
\* that failed since, and no others: record_error below the threshold does not
\* write it (engine_service.py:78-86, 97-105).  It loses all of them when the file
\* was cut short, and a restart forgets them on purpose when the service has
\* FAILED or has been shut down (107-118).
ForgetsAll ==
    \/ file.state \in {"torn", "FAILED"}
    \/ file.state = "STOPPED" /\ proc \in {"stopped", "down"}
CrashForgetsAtMostOpen ==
    ~ForgetsAll => errors - Recovered <= Cardinality(openAtSet \ jobs)

\* What a client is told agrees with what was done: after a 200 its command
\* ran, after a 401, 403 or 422 it never did, and no command runs more often
\* than it was sent, whatever is retried, timed out or cut off by a restart.
EffectsMatchAnswer ==
    \A c \in Calls :
        /\ ran[c] <= call[c].attempt
        /\ call[c].result = 401 => ran[c] = 0 /\ c \notin disk \union head
        /\ call[c].st = "done" /\ call[c].result = 200 /\ call[c].kind \notin {"read", "snapshot"}
              => ran[c] > 0 /\ (call[c].kind = "commit" => c \in head)

\* The service leaves trouble only by a success or by the warm-up timer, which
\* overwrites any state half a second and a GPU query after the start
\* (engine_service.py:87, 534-537).
HealedBySuccessOrWarmup ==
    [][state # "READY" /\ state' = "READY" => errors' < errors \/ errors' <= 1 \/ warmup = "query"]_vars

============================================================================
