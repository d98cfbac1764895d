# ACE engine: TLA+ models and proofs

This directory holds a TLA+ verification project for the ACE engine: an
autonomous coding engine that takes a PRD, splits it into tasks, and drives each
task through generate, validate, test and commit with a language model, together
with the services and tools around it. Every definition is translated from the
Python source; the comment above a definition says what it stands for and
`PROJECT.json` ("map") names its lines.

## 1. The system

| Component | State it keeps | Operations | Hard behaviour |
|---|---|---|---|
| **Engine run** (`engine/engine.py`, `pipeline.py`, `state.py`) | `Pipeline.state` (12 states), task index, task results, retry counters, call counters | `run`, `_run_task`, `_maybe_replan`, handlers, `cancel` | nested retry ladders, illegal transitions that raise, SIGINT and stop-file between any two calls, threads `_with_timeout` abandons |
| **Committer** (`engine/committer.py`) | working tree, local branch, remote branch | `commit_code`, push, undo, `reconcile_git_state` | one step of stage/commit/push failing, retry after a partial success |
| **Orchestrator** (`engine/orchestrator/*`, `cli.py`) | session row with counters and oracle lock, re-plan records, atoms, checkpoint, gaps | count, re-plan, escalate, checkpoint, resume, cancel | processes with one run id, get-then-set lock, crash between two transactions |
| **Handlers and claim memory** (`engine/research`, `edit_ops`, `memory`) | verdict documents, claims, contradictions, the edited file | research stages, edit loop, submit, approve, reject | check and update in separate transactions, repair of what a model wrote |
| **Stages** (`generator.py`, `validator.py`, `tester.py`, `judge.py`, `llm_judge.py`, `prd.py`) | none between tasks | extract, validate, test, score, judge, parse a PRD | early returns, names that collide, retries of the judge |
| **Intent dispatch** (`engine/intent`) | answers and queues of one dispatch | route, lane A, lane B | code restarted from its start after each answer |
| **Ralph loop** (`workflows/ralph/*`) | SQLite tables of runs, rounds, reports, patterns | `run_ralph`, `resume_ralph`, ideation, gates, pattern registry | crash between rounds, several processes, budget |
| **Service lifecycle** (`engine_service.py`, `engine_client.py`) | lifecycle state, error count, `.engine_state` | handlers, warm-up, shutdown; the client's retries | concurrent requests and timers on one state, a retry beside its first attempt |
| **Event streaming** (`streaming_*.py`, `event_schema.py`) | event table, per-source sequence, ring buffer, client queues | post, store, broadcast, connect, replay, clean up | late and repeated posts, a failed INSERT, slow clients, gaps and duplicates at reconnect |
| **Session log, archive, repository map** | rows and payload files; snapshots and reports; definitions and stamps | record, archive, prune, build, merge | threads that outlive a run, several processes, files that change during a walk |
| **Benchmark** (`orchestrate.py`, `runner.py`, `checkpoint.py`, `judge.py`, `watchdog.py`) | run rows, scores, checkpoints, abort latch | run, resume, judge, watch | signals and kills between two steps |
| **Legacy tools** (`legacy/task_queue.py`, `code_generator.py`, `work_engine.py`, `prd_parser.py`) | state file, generated files, the shared host's tree and containers | execute, execute-all, generate, run, destroy | failures in a chain, several sessions on one host |
| **Bridges and control** (`transport.py`, `dsh_adapter*.py`, `legacy/harness.py`, `enginectl.py`) | chosen transport; cursors; pid and state files | chat, command, poll, stream, start, stop | a service that comes and goes, breaking streams, reused process ids |
| **MoE calculators** (`skills/moe-offload-calc`) | none | split, `-ot` rules, recommend | averages, rounding, rules read by several tools |
| Text and I/O helpers (prompts, embeddings, dashboards, scripts) | none that control depends on | | |

How they interact: the engine's driver thread calls the generator, validator,
tester, committer, oracle and handlers as functions; each may raise, time out
or answer. The orchestrator session counts LLM calls for the driver. A SIGINT
handler and a stop-file reach into a run from outside. The streaming service,
the engine service and the Ralph loop are processes of their own that share
SQLite databases, the git work tree and HTTP.

### What makes each component correct

* Engine run: the driver and the state machine agree, the first failure ends
  the run, a success verdict is true, the retry ladders and the budget are
  bounded, a stop-file lets at most one more guarded stage begin, every run ends.
* Committer: success means the commit is on the remote; a failed attempt leaves
  a tree the retry can commit again and reported work in place.
* Orchestrator: a lock is somebody's; atoms can be ordered; a dead run resumes.
* Handlers, memory: only valid verdicts reach the memory; contradictory claims
  that were not submitted at the same time are told to the person who approves;
  an edit is applied whole or not at all.
* Intent: an answer belongs to its question, in code that repeats itself.
* Ralph: a round's recorded state is what happened to it; a crash is resumable;
  repetition is noticed; nothing rejected is served.
* Service: what a client is told agrees with what was done; the state heals only
  by a success or the warm-up; a crash forgets no more errors than handlers were
  at work since the file was last written, unless it cut that file short.
* Streaming: a client sees every event from its cursor once and in order, or is
  told that it did not; what is acknowledged is stored.
* Records: rows can be replayed, pruning keeps enough of what it has looked at, the
  map is current but for files that were emptied.
* Benchmark: a completed row stays completed. Legacy tools: a success was
  tested, only answers are published, execute-all ends, tasks come in order.
* Bridges: events are handed over once, answers are the asked server's, servers
  stay in reach. Calculators: a recommendation fits.

## 2. Modules

| Module | Models | Shape |
|---|---|---|
| `EnginePipeline` | one run of the engine; what it implements | state machine, one action per step of the driver, three actions of the world; `INSTANCE RunContract WITH` |
| `RunContract` | what a caller of `Engine.run` relies on | abstract specification |
| `GitCommit` | the committer under its three callers, one run after the other in one repository | one action per git command |
| `EngineProofs` | theorems about the three above, with their inductive invariants | TLAPS |
| `Orchestrator` | what runs leave in `engine.db`, and resume | one action per transaction |
| `Evidence`, `Memory`, `TaskHandlers` | verdict documents; the claim memory; the research and edit handlers | operators; state machine; both composed |
| `Stages`, `Prd` | what the stages of a task compute; the tasks of a PRD | one pass over every small input |
| `Intent` | the dispatch of an intent | state machine |
| `RalphLoop`, `RalphLoopProofs` | one Ralph run and the processes that run and resume it; theorems about it and about `RalphRound` | one action per transaction; TLAPS |
| `RalphRound`, `Patterns` | the inside of a round; the pattern registry | state machines |
| `EngineService`, `EngineServiceProofs` | the service, its clients, state file and poller | one action per handler or half of one; TLAPS |
| `EventStream`, `EventStreamProofs` | the streaming server, its producers and its readers | state machine; TLAPS |
| `SessionLog`, `Archive`, `RepoMap` | what a run keeps on disk | state machines |
| `Bench` | the benchmark's processes over its database | state machine |
| `TaskQueue`, `CodeGenerator`, `WorkEngine` | the legacy tools | state machines |
| `DshAdapter`, `Transport`, `ServiceControl` | bridges, transports, start and stop | state machines |
| `Offload` | the MoE calculators | operators over every small model |
| `Records`, `Generation`, `Calls` | what the instances and the proofs of modules that do not interact share: their instances and the properties stated of them | composition |
| `Lists`, `ListsProofs` | loops over a list, as recursive functions; their laws, by induction | operators; TLAPS |
| `RecordsProofs` | theorems about `SessionLog`, `Archive`, `Patterns`, `Bench`, `RepoMap`, `Evidence`, `Memory` and `TaskHandlers` | TLAPS |
| `CallsProofs` | theorems about `Intent`, `Transport`, `ServiceControl`, `Offload`, `DshAdapter` | TLAPS |
| `TaskProofs` | theorems about `Orchestrator`, `CodeGenerator`, `WorkEngine`, `Stages`, `Prd` | TLAPS |
| `MC*` | instances | TLC |

Six of the MC modules explore several modules that do not interact, each from
its own initial states: a variable `part` says which, and the others rest.
`Records` (`SessionLog`, `Archive`, `Patterns`, `Bench`, `RepoMap`), `Generation`
(`CodeGenerator`, `WorkEngine`, `Stages`, `Prd`) and `Calls` (`Transport`, `Intent`,
`ServiceControl`, `Offload`, `DshAdapter`) instantiate such modules side by side and state their
properties; an MC module and the module with the proofs extend the same one, so
that a run and a theorem speak of one definition. The
modules that do interact are composed by what the code shares:
`TaskHandlers` EXTENDS `Memory` (the handlers submit claims) and `Memory`
EXTENDS `Evidence`; two processes of `Orchestrator` share every row;
`CodeGenerator` is the pipeline that `TaskQueue` runs for one task.

### EnginePipeline

`pipeline` is `Pipeline.state`; `pc` is the place of the driver thread in
`Engine.run` and `_run_task`. Keeping both is the point of the model: the code
keeps the state machine in one object and the control flow in another, and
every transition is a request that `Pipeline.transition` may refuse with
`ValueError`. `Go`, `Returns`, `Escapes` and `RunGo` say what a refused
transition does at the four kinds of call site: inside `_run_task` it reaches
the `except` clause of `run`, which records the task as FAILED and asks for
FAILED, which may be refused as well, and then the exception leaves `run`
(`pc = "raised"`). `results` are the states of the task results so far,
`landed` the tasks whose `commit_code` returned success, `background` the ones
whose commit thread was abandoned. `retries` and `attempt` are the counters of
`Pipeline` and of the two loops. `issued` is a history variable: the LLM calls
the current task has made, counted or not; `counted` is the number the session
knows. Research and edit tasks are one `Handler` step: they do not move the
pipeline.

Abstracted: the content of code, tests and prompts (each call answers, fails,
raises or times out), the number of seconds, the report, the judge and the
shadow gate, which change nothing the run reads back.

### GitCommit

What `EnginePipeline` takes as one call, `commit_code`, is here a worker thread
that issues git commands. `worker[r]` is the command the thread of run `r`
issues next (`Commands`: checkout, write, add, commit, push, the rev-parse and
origin queries, and three undo commands); a run is a sequence of code, research
and edit tasks, and `plans`, `task` and `tries` are its driver. `disk` and `index`
are the files of the work tree and the index, `head` the branch checked out,
`refs` the local branches and `remote` Gitea's. A commit is its SHA and the files
in its tree, a branch the sequence of its commits, so `reset --hard HEAD~1` and a
fast-forward check mean what they mean in git. `claims` are the results reported
in state COMMIT, `lastPushed` is what `record_push` recorded. A `setting` is chosen
at the start: the plans, the retries, whether the repository is empty, and which
commands can fail; `ack` is a push that arrives and whose answer does not.
`Abandon` is `_with_timeout` giving up on a code task's first attempt: the run
ends and its thread goes on beside the next run.

Abstracted: file contents (an item is a content; writing it twice stages
nothing), deletions, branch names. `git reset` fails only where `HEAD~1` or
`HEAD` does not exist.

### Orchestrator

A process drives one task, since the first failure ends a run; its steps are the
transactions it makes. Two processes started within a second have one id
(`engine.py:69`) and then share the session row, the counters, the lock, the
atoms and the checkpoint. `Replan` applies one of the four patches of
`patch.py` with its refusals (`Answers` has one answer for each reason);
`Escalate` is the oracle with the lock that is read over one connection and
written over another. `Die` ends a process anywhere; `Resume` is
`ace resume`, which is refused. Gaps are found in the rows a finished run left.

### Evidence, Memory and TaskHandlers

A verdict document is a record of what the validator tells apart: headings,
sections, claims, sources, citations and what each refers to. `Normalised` and
`Repaired` are what the handler does to it before the staged validator. `Memory`
has one action per connection, so that a claim may be approved between the
submission of another and its comparison. `TaskHandlers` runs research tasks
into that memory, and edit tasks over a file that counts occurrences of anchors.

### Stages and Prd

Both take every input of bounded size through the code once. `Stages`: a reply is
a sequence of blocks with names and contents; a file is empty, unparsable, an
untouched stub, or code with imports and what happens when it runs; the judge's
marks include some outside the scale. `Prd`: modules, stories, requirements, a
dependency order and sections with a list each.

### Intent

A run of the sandbox (`RunToCall`, `RunToEnd`) makes any sequence of calls:
`asked` is that of the last run, `answers` what is injected by position, `pending`
the calls the run left, which are answered together before the next. `steady` says
whether the generated code is deterministic, as the comment at `laneb.py:206-210`
takes for granted; then the next run repeats the calls up to the first that was
stopped (`sure`), since these hang on the same answers, and is free after it. Code
may catch the `StopIteration` that stops it and go on: `swallowed` remembers that it
did and `loose` the positions of the calls it then made. Their answers are injected
all the same, at positions where the next run may ask for something else.
`AnswersMatchCalls` promises deterministic code its own answers at all other
positions. Of code that is not deterministic it promises nothing, because there
is nothing the code could keep.

### EventStream

The server is one asyncio loop, and between two suspension points its code is
one step: storing an event, appending it to the ring buffer and queueing it for
every client is `Store`; checking the limit, registering and taking the replay
is `Connect`. A batch (`job`) keeps the loop until it is done. Beside the loop run the
producers (`Post`, `TimesOut`: the same body again up to `max_retries`), the
network (`Lose`; a request may be read after its producer stopped waiting) and
the fallback query (`Query`, in an executor thread). `log` is the history of
stored events, of which `live_events` holds all but the first `cleaned`;
`lastSeq` is `source_sequences`; `openTx` is the transaction a failed INSERT
leaves open. `pc`, `since`, `pending` and `queue` are a connection; `cursor` is
the dashboard's `lastEventId`. `owed`, `got`, `covered`, `slow`, `acked` and
`refused` are history variables the properties are about.

Abstracted: payloads, filters, authentication, heartbeats. Cleanup deletes
from the oldest row on, and no event whose request may still be retried, since
it deletes what is a day old. One producer stands for all of a source; its
requests overlap through retries.

### RalphLoop

A Ralph run lives in three tables of `engine.db` and outlives its processes:
`state` is `ralph_runs.state`, `rounds` the rows of `ralph_rounds` in the order
they were inserted, `spent` the sum of their wall clocks, `reports` the rows of
`ralph_reports`. Every helper of `round_driver.py` opens a connection of its own
and commits, so one action is one transaction (or one look at the stop-file, or
the gates of a round), and `pc[p]` is where process `p` is between two of them;
`conf`, `round`, `prev` and `outcome` are its locals. `Run` is `run_ralph`, `Lock`
to `Claim` are `resume_ralph`, `Check` to `Finalize` the loop both share. `Die`
is a process that ends at any place; `overlap` and `orphaned` remember whether
two processes were in the run at once and whether one died in the loop.

Abstracted: reports are a round and its state; ideation and prompts are text; of
the three caps only the wall clock is kept, since the loop records no LLM calls
and no tokens; the work tree, in which a round commits nothing (its engine run
is a scaffold). Any process may resume with any configuration, as `ralph resume`
does, which uses the default instead of the run's own.

### RalphRound and Patterns

`RalphRound` is the inside of the actions `Gates` and `Persist` of `RalphLoop`,
over several rounds: ideation, scoring, selection, the gates' mechanisms with
their crashes, the report as it is kept in memory and, cut when it is too large,
in the database, from which a resumed loop continues. Texts count by their
similarity. `Patterns` is the registry with its two-step proposals (count, then
insert), approvals, expiry, queries and exported documents.

### EngineService

Handlers run on one event loop. Those that call their subprocess synchronously
are one step, those that await an executor have a beginning and an end. A client
call is sent up to `MaxRetries` times and may give up on an attempt the service
still executes; `ran` counts executions. `_persist` truncates the state file, then
writes it, and swallows an `OSError` (`engine_service.py:97-105`): `Persist` writes the
file, leaves it as it was, or leaves it cut short (`Torn`), and so does a crash in
the middle of it (`End`). A torn file is ignored by `recover` (:116) and every error is
forgotten, as it is on purpose when the file says FAILED or STOPPED (`ForgetsAll`). Otherwise
`CrashForgetsAtMostOpen` bounds what is forgotten by `openAtSet`: the handlers that
were at work when the file was last written, or at an attempt since that failed.

### SessionLog, Archive, RepoMap

`SessionLog`: a call is made on the thread of the task or on a worker thread of
`_with_timeout`; its record is a line of the payload file and then a row.
`Archive`: processes copy reports and databases and prune over one directory.
The engine archives a run when it ends and then prunes its project; `ace archive`
(`cli.py:199-225`) archives any run again and prunes nothing. A report is open, and
empty, before it is written; one with no report, or one that is unreadable, counts
for every project or for none (`archive.py:136-153`), and one that `ace archive`
wrote names no project. Pruning can leave too little: one process judges
a snapshot old, another archives that run anew and prunes others in its favour,
and the first unlinks it without looking again (`archive.py:131-164`), so that
fewer than `Keep` stay, where `archive.py:8-9` has a retention of N per project.
`PruningKeepsEnough` says that this is the only way: the history `renewed` holds
the snapshots that were written anew while a process that had read their age was
still pruning, and these count as kept.
`RepoMap`: a walk stats, reads and parses file by file while files change. The map
that is held is the last `build()`, with every `incremental()` merged into it. `merge`
replaces the files the delta has definitions of (`repo_map.py:74-77`): a file that was
emptied or removed keeps its old definitions until the next `build()`, against the
docstring of `incremental` (:331-337). `MapIsCurrent` says of such a file that it has
the definitions it last had (`kept`, `LastNamed`), and of every other that it has
those of its text, unless its stamp hides an edit.

### Bench

One process over the database, killed or signalled between any two steps, up to
`MaxLives` times; a signal handler that finds the database locked raises into
the code it interrupted. The watchdog is a thread with an abort event.

### TaskQueue, CodeGenerator, WorkEngine

`TaskQueue` loads, works on a copy and saves; the lists, not the statuses,
decide what is ready. `CodeGenerator` keeps for each file the answer it was
written from, so that a property can say whether what was tested is what lies on
the disk, and derives the gates' verdict from what the four checks may report.
`WorkEngine` runs pipelines, benches and the operator's commands over a host they
share without locks: model, container names, work tree, index, branches, remote.

### DshAdapter, Transport, ServiceControl

`DshAdapter` has the adapter's task, the two streams, and the executor threads
that outlive a cancelled task. `Transport` has one call under way, what the
model server answered, and what the caller is left with. `ServiceControl` has
commands of two tools, each in its steps (check, spawn, write pid, write state),
and processes that start and exit slowly.

### Offload

A model is four layers with sizes; `Split`, the rules, the strategies and their
scores are computed exactly, in one unit; the latency and the memory a strategy
comes to are chosen.

## 3. Runs

| Run | Question | Bounds |
|---|---|---|
| `engine` | earned success, overshoot of the LLM-call cap, stop-file, every run ends, the engine implements its contract; no undo drops reported work, a reported SHA is at Gitea, main stays clean beside abandoned threads | every plan of at most two tasks and three-task plans of mixed kinds, 2 generate attempts, 2 test attempts, 1 commit retry, 2 re-plans, a cap of 6 calls; two runs of up to three tasks, three files, one retry or two, four settings: each loop runs zero, one and its last time |
| `streams` | no gap and no repetition inside the ring buffer, numbers only grow, what is acknowledged is stored | two readers for one place, or one over a restart, or two posting sources; ring of two, queues of one, three events, batches of two, two tries: eviction, overflow, resumption, a batch that fails half way |
| `ralph` | rounds without a gap, `completed` terminal, reports known to a resume, overshoot of the budget, every driver ends; repetition noticed | two processes, two resumes, one death, a cap of two rounds' cost; three rounds with three texts, one too large to store |
| `service` | answers agree with effects, healing, what a crash forgets; rows have payloads; pruning; nothing rejected is served; completed rows stay; the map is current | two calls that overlap (two inferences, two commits, a commit beside an invalid request) or one of every other kind, thresholds of two and three errors, one restart, a state file written, refused or cut short; three calls in two attempts on two threads; two archiving processes, three runs of two projects, three archivings in all; two proposing processes, two patterns, a cap of one; two configurations of two tasks, three lives; three files, two edits, one tick |
| `drivers` | the oracle lock has a holder, atoms can be ordered | two processes with one id or two, a cap of two calls, one re-plan, one escalation |
| `knowledge` | untold contradictions overlapped in time; claims come from valid verdicts; edits are whole | two runs, two desks, six documents; five answers of blocks |
| `legacy` | success is tested, only answers are published, validated code runs, tasks in order, execute-all ends | three tasks in three graphs and two commands; two files, one test, two retries; two pipelines and two session rows; two blocks; two modules |
| `bridges` | events once and in order; answers are the asked server's, and each the answer to its call; servers in reach; the recommendation fits | two sessions, three events, one break, one cancellation; two ports, two calls; four calls of a function in each run, a limit of two queries; three commands, two process ids; four layers |
| `finding_*` (four) | statements of the repository that the code does not keep | |

The bounds are chosen so that each loop runs out once and each failure hits the
first, a middle and the last attempt; every action of every module fires.
Deadlock is checked in `engine` and `ralph`, where what has ended stutters; in
the others processes, commands and readers may have nothing left to do, or the
bounds on calls, lives and events stop them. `streams`, `knowledge` and `drivers`
use the symmetry of their clients, sources, shells, tasks and processes, and check
safety only.

**Fairness.** `engine`: `WF(Driver)`, the driver thread is not starved and every
call it waits for returns, raises, or is timed out by `_with_timeout`, and weak
fairness of each commit thread, because the transport gives each command a
timeout. Nothing is assumed of the world: no SIGINT, stop-file or abandoned
thread need ever arrive. `ralph`: `WF(Step(p))` for each process: git and the
gates have timeouts, a transaction commits or raises. The stop-file and the
deaths are not assumed. `legacy`: `WF(Work)`, the execution of the queue's
current command; interruptions, kills and new commands are not assumed. The
other runs state safety only.

### Findings

Four runs show where the code differs from what the repository says of it;
each is quoted in `PROJECT.json` ("findings").

* `finding_sources`: a second source's events are refused, and the refused
  INSERT leaves its transaction open, which stops all ingestion until the next
  cleanup or restart (reproduced).
* `finding_ralph`: a run whose rounds all failed is recorded as completed, and so
  cannot be resumed (reproduced).
* `finding_resume`: the checkpoint of a run never holds the path of its PRD, so
  `ace resume` fails.
* `finding_log`: a model call answered on a worker thread, as every generation
  is, never gets its row in `session_logs`.

Other differences, which the models contain and no run singles out:

* Engine: code is committed after its tests failed, once the fix attempts are
  spent, where EPIC-ENGINE-UNIFICATION.md:292 has `| TEST → COMMIT | Tests
  passed |`; a SIGINT between two calls can end a run without its report; the
  LLM-call cap does not stop the re-plan ladder (`BudgetOvershootBounded` says by
  how much it is passed); handler tasks ignore the stop-file, and so do the retry
  edges of the test loop (engine.py:880-894), where stop.py:3-4 has it checked "at every stage
  transition"; a transport failure
  uses up an attempt of its ladder. HumanStop (G8) gaps are never reported
  (`toolgap_detector.py:475-500`).
* Committer: when the first push of a new project fails once, the retry reports a
  SHA that was never pushed (`committer.py:124`, reproduced); an edit is reported
  in state COMMIT whatever its commit did (`edit_ops/handler.py:288`); the
  research handler pushes without recording the SHA; an abandoned commit
  publishes after its run was reported as failed.
* Research: only the first source is looked at for circular evidence
  (`evidence.py:534`, against the docstring at :495); `verify_file_sources` stops
  at the first failure; a span that matches nothing is replaced by the source's
  first line, and a source without a citation always matches; a verdict without
  a position becomes "supported"; self-support is found only when the numbers are
  equal; claims are submitted before scoring and commit;
  `max_research_generate = 0` reads an unbound variable. The memory's recall takes
  the first claim although it is over the budget.
* Stages: a top-level `sys.exit()` in generated code makes `validate` raise
  `TypeError`; `check_imports` accepts a file at its first import of a sibling
  task, without looking at the rest; committed tasks are not terminal for the
  judge (`judge.py:57-58`), whose score stays at 0.8; no module and no files pass
  validation; of two blocks of one name the later replaces the earlier;
  `scored_state` says "test_failed" also when tests passed and the commit failed;
  code generated after the tests were given up is committed untested.
* PRD: every task gets the first module's specification (`prd_parser.py:485`
  against :386); bullets are read from boilerplate too (`prd.py:121`); numbered
  lists that restart lose tasks; modules without stories yield no task; the stem
  of `a.py` is `a_py`; import lists leave out the first module instead of the
  task's own.
* Intent: lane B runs behind lane A (`pipeline.py:129-133`); its depth limit makes
  the limit of four queries unreachable; errors raise past `execute` although it
  "Never raises" (`laneb.py:161`); the docstring of the harness
  (`laneb.py:505-512`) has unanswered calls `return None` and the result discarded, but
  they raise `StopIteration` (:538-555), and generated code that catches it returns a
  result that is dispatched, or is given another call's answer (section 2); nothing
  in the repository but tests builds the pipeline.
* Ralph: `_acquire_lock` ends its transaction before it returns, so two processes
  drive one run where EPIC.md:330 expects `RalphRunBusyError` (reproduced), and
  "database is locked" is not matched by "BUSY"; a run whose process died stays
  `running` and `resume_ralph` refuses it, where EPIC.md:178 has it resume
  (reproduced); `_git_revert_round` calls `recommits`, which does not exist, and
  never reverts anything; the wall-clock cap, "per round" in `config.py:41`, is
  cumulative; `ralph resume` uses the default number of rounds; work stashed by
  a resume is never restored; a code round always fails, because the Dev gate is
  handed the objective, a string, instead of generated code; a research round
  always fails too, because the Evidence gate passes keywords its callee does
  not have (`gates.py:184-191`).
* Ralph's parts: the driver gives ideation no transport, so every plan is a stub
  with the same features and collapse is found from the third round on;
  `forced_diversity` and the two model ports are read by nobody; a report over
  64 KB loses its plan, and eight patterns of 8192 characters break "the bound
  must hold"; `g12_consecutive_rounds` above 3 never fires;
  `propose_pattern_update` reads an attribute reports lack, so that the cap on
  patterns of a run is never applied; documents of expired patterns stay.
* Streaming: a stream resumed beyond the ring buffer loses what was dropped
  (`streaming_routes.py:360`); ids made by the server repeat within a
  millisecond, so that the second event is taken for a copy of the first; an
  event stored while the fallback query runs is delivered twice; the stream of a
  client given up on as slow stays open, silent, and outside the limit; the
  in-memory event count ignores the cleanup.
* Service: SIGTERM never sets the `shutdown_event` that streams wait for
  (`engine_service.py:1130`); `/exec` ignores its `cwd` and its blocklist refuses
  any command whose text has "shutdown", "halt" or "reboot" in it.
* Records: rows of one session id replace each other; calls that raise are not
  recorded; the archive copies `engine.db` without its WAL (`archive.py:85`) and
  truncates a report when it archives it again; a snapshot beside an unreadable
  report is never pruned; `ace archive` never prunes, and a run it archives
  again while another process prunes may lose its new snapshot to that process,
  and its report names no project any more (section 2). A merged repository map keeps
  the definitions of removed and of emptied files, although `repo_map.py:69-74` has a "full
  snapshot"; two builders over one cache hide changes from each other; a file that
  vanishes between listing and stat raises out of `build`.
* Embeddings: the store never loads the sqlite-vec extension into a connection, so
  the first vector it stores or asks for switches it off, and every later `query`
  and `ingest` of the process returns nothing, where `embeddings.py:115` warns of
  "Falling back to brute-force search" (read in the code, not modelled).
* Benchmark: 23 completed rows are taken for all (`orchestrate.py:135`); a failed
  run is never run again, because its row is there; a signal in the completing
  UPDATE records a completed run as failed; runs completed before an abort are
  never scored by a resume; `curl -s` makes an error body a complete, empty
  answer; without a checkpoint a resume marks nothing incomplete; the preflight
  never blocks.
* Legacy queue and generator: a task skipped by the quality gate is in no list;
  failures of generation, gates and tests are not in `failed`, so that nothing is
  skipped behind them and execute-all exits with 0; the commit is made after
  failures too; refused task lists are saved and executed. The generator works in
  its default directory instead of the queue's; any returned result counts as
  `ok`; the exit status of the tests is never read; failing code stays on disk.
* Work engine: an early abort leaves a row "destroyed"; a push that failed leaves
  it "completed"; sessions commit to each other's branch; a fallback swap accepts
  another profile's server; a bench is "completed" whatever its scripts answered;
  `destroy` and `cleanup` mark a session whose container docker did not remove.
* Transports: a raw call over HTTP loses the port and the tools and answers with
  flat content instead of the choices `transport.py:339-341` promises; tool-call
  answers (content null) become HTTP 500, null timings an `AttributeError`; an
  HTTP error behind `curl -s` is an empty answer; two routes the client asks for
  do not exist; `get_transport` never detects again.
* DSH: `_session_seqs` of the streaming adapter is never read; the backoff starts
  again at each connection; `stop()` on an idle connection takes effect at the
  next chunk; a cancellation is swallowed by three of the transports; the fallback
  poller starts without cursors; a batch the client lost is never sent again.
* Start and stop: overlapping or interrupted commands leave a server out of reach;
  the state file is written with a plain `open("w")` where `enginectl.py:227` says
  "Atomically write a JSON state file"; a reused process id is taken for the
  server; harness writes READY before the server runs.
* Calculators: embeddings and output tensors do not count in "fits"; one tool takes
  the first matching `-ot` rule and another the last; a rule's device is ignored by
  the optimizer; the `pipelined` strategy adds the time of the GPU twice
  (PACKAGE-README.md:48 expects it to help); `calculate_vram_budget` keeps no
  margin.

## 4. Proofs

The 49 listed theorems lie in eight modules and hold for every value of
the constants that the named assumptions allow. Each safety theorem follows the same three steps: an
inductive invariant holds initially, every step keeps it (one step of the proof
per action), and it implies the property. What follows says which invariant and
why the property alone is not inductive.

**`EngineProofs`** (`PlansAssumption`, `LimitsAssumption`: plans are sequences of
task kinds, at least one generate attempt). `IInv` gives `TypeOK`,
`SuccessIsEarned`, `StopsAtFirstFailure`, `StageMatchesDriver`,
`CommitAfterTestBudget`, `CallsPerTaskBounded` and `BudgetOvershootBounded`:
what the results say depends on the driver's position (`Position`), that a
commit lies behind a result on when it was recorded (`Landed`), the bounds on
where in which ladder the driver is (`Ladder`, `Calls`, `Counts`). The argument
turns on `TaskStep`: each action inside a task ends the task with a
failed result (`Fails`) or moves the pipeline to a stage that matches the
driver's new position (`Works`). The control invariants are then proved over
a handful of cases instead of one per action; the counters, which each action changes
in its own way, action by action. From the same invariant every step of the
engine is a step of `RunContract` or a stutter (`EngineImplementsContract`), and
at most one guarded stage is entered with the stop-file there (`StopBlocks`).
`raise_if_stopped` and the transition behind it are two calls, and the file may
come between them: `Stopped` says that once a stage was entered with the file there, the file is still
there and the driver in no such window (`Passed`), so that its next look is its last.

**`EngineProofs`**, second part: `GitCommit` (any number of runs, plans and retries). What may fail is
part of each property (its `setting`), because the code is not right under every
failure; `PlansAreTasks` says that plans are sequences of tasks:

* `MainIsOnlyRead` excludes a failing `git checkout`, and nothing else:
  `OffMain` says that a worker past its second checkout is on a run's branch.
  Workers that were abandoned take part.
* `ReportedCommitsStay` excludes an abandoned commit thread. `WorkInv`: only
  the current run's worker is under way, the branches of later runs do not exist yet
  (`RepoInv`), and a tip that may be undone was made by this attempt and not
  reported (`FreshInv`).
* `ReportedIsPublished` also needs a repository with a commit and a work tree that
  can be written and committed (faults within `Bearable`); with other failures it
  is false (section 3). `PublishedInv`: of the commits on the checked-out branch
  only the tip is perhaps not at Gitea, and only while a worker is pushing it.

**`TaskProofs`** extends `Orchestrator` and `Generation`.

* `Orchestrator` (`OrchestratorAssumption`). `LockIsHeld` follows the holder through the
  two transactions that take the lock. `AtomsOrdered`: a valid digest is closed and
  acyclic by itself, so laid over the older atoms it depends on none of them
  (`MergedOrder`). `EscalationOvershoot`: the count of a run plus the processes that
  have passed its check (`Passed`) is at most the cap and one less than the number of
  processes. `NoRunIsResumed` is the finding `finding_resume` for every run: no
  checkpoint names the PRD.
* `CodeGenerator`: `SuccessMeansTested`. `WorkEngine`: `PublishedWasAnswered`; whoever is
  about to add or push was answered, and the index, every branch and the remote hold
  only results of answered sessions (`RemoteInv`).
* `Stages`: `ValidatedRunsToItsEnd`; the files stay typed through the replacement of
  blocks of one name (`PutType`), and what each check of the validator passes leaves
  of a file is followed to the end (`MakingInv`).
* `Prd` (`ReadingAssumption`): `TasksAreInOrder`. Every strategy finds tasks there is a
  rank for: the number of a task's file in the document, which its dependencies' are
  below (`DependenciesComeEarlier`), or 0 where tasks have none (`Sortable`). By
  induction over the rank the recursive `visit` is a function (`SorterExists`,
  `SorterIsUnique`) and a visit keeps the order, leaves the tasks that wait for their
  dependencies as they were, all of greater rank, and has placed its own task when it
  returns (`OneVisitKeeps`).

**`EngineServiceProofs`**. `JobsInv` says which jobs can exist beside each other
and beside those that were at work when the state file was written, or could not be; `CallsInv`
counts, per client call, executions and queued attempts against attempts made,
so that no command runs more often than it was sent. `CrashForgets`,
`AnswersAreTrue` and `OnlySuccessHeals` follow.

**`EventStreamProofs`** (`SizesAssumption`: any sources, events, clients, tries,
restarts and buffer sizes).

* `SeqsAreNeverReused` needs the types of every request on its way (a body is a
  non-empty sequence of events of known sources, or `Head` of it means nothing)
  and `SeqsSpent`: a row's number is one that its source has already spent.
* `AcknowledgedStays`: what the loop has taken of a body is stored, the rest lies
  before it (`AckInv`).
* `NoStreamHasGaps`: `GapInv` says that the ring buffer is the end of the log and
  that for a covered stream what was sent, what will be replayed and what is
  queued, one after the other, is what it is owed, until it is slow. Because
  numbers increase along the log, the replay, which selects by number, is a suffix
  of it (lemmas `After...` and `Nth...`).
* `StreamsAreLimited`: a stream that is not slow is registered, and the registered
  are at most `MAX_SSE_CLIENTS`, because check and registration are one step.

**`RalphLoopProofs`** (`ConfigsAssumption`; any processes, resumes and deaths).

* `TypesAreRight` is not inductive without `HasLast`, because the round a resume
  starts with is a maximum.
* `OvershootPerProcess`: a process between the check and its row (`Spending`) has
  the cost of one round still to use (`BudgetInv`).
* `RoundsAreContiguous`: the rounds before the one a process is at are recorded,
  whether it counted up to it or found it in the table (`Reached`).
* `ResumeFindsReport` and `CompletedStays` hold while no two processes were in the
  run at once: `AloneInv` says, for each place of the one that is there, the state
  it finds and which completed rounds have their report.
* `RunningMeansDriven`.
* `RalphRound`: `CollapseIsNoticed`. What the loop has in memory and what it would
  read back from the database end in the plans just chosen (`Recalls`), cut or not,
  so that the newest `Needed` are among them (`LastAreKept`). It needs `Needed <= 3`,
  the number of reports the driver hands over; above that `_detect_collapse` never
  fires (section 3), so that the statement is false.

**`RecordsProofs`** extends `Records` and `TaskHandlers`.

* `SessionLog`: `RowsHavePayloads`; the payload comes first (`PayloadFirst`).
* `Patterns`: `OnlyApprovedIsServed`; ids are fresh, and what is in somebody's
  hands was decided (`Decided`), because status is only read over one connection
  and used later.
* `Bench` (`CorpusIsListed`): `CompleteRowsStay`; a process has before it only rows
  that are not complete (`Underway`), the judge only complete ones (`ToScore`).
* `TaskHandlers` with `Memory`: `ConflictsAreTold` (a command under way knows of
  every approved claim its own contradicts, or that claim was approved since it
  began, or its check failed: `Warned`). `OnlySoundVerdictsAreKept`: a claim keeps
  the task that said it, whose verdict no later stage changes (`SourceInv`).
  `EditsAreWhole` (`EditInv`). `DocumentsAssumption` and `EditsAssumption` only say
  what documents and answers are; what is computed of them is proved:
  * `RingsAreFound`: `_has_cycle_dfs` reports a ring wherever the reference
    definition (`Circular`) has one, in any finite graph. The search is a recursive
    function; it exists and is unique because each call is left with fewer white
    nodes (`Agree`, `SearchExists`, `SearchIsUnique`). By induction over their number
    a search that reports nothing leaves black nodes from which every edge leads to a
    black node and which lie on no ring (`Sane`, `Correct`), and in the end all are
    black.
  * `ApplyingIsWhole`: an answer's blocks, applied in turn, are all replaced or the
    attempt comes to no end; by induction over the blocks (`WholeUpTo`).
  * `RepairedIsDoc`: each repair of a document leaves a document.
* `Archive` (`RunsAreOrdered`): `PruningLeavesEnough`. The age that a pruning process
  has read of a snapshot is still its age, unless it was renewed (`AgesHold`). Before
  a snapshot that was judged old, or is gone, there are `Keep` others that every
  process reading now would also put before it, or that were renewed (`Ahead`,
  `Spared`): removing one ahead of it would take `Keep` ahead of that, which are
  ahead of both (`AheadOfAhead`).
* `RepoMap`: `HeldMapIsCurrent`. A file nobody has changed since a walk began is still
  to come, was read as it stands, or was skipped for a stamp that is its own
  (`NoneIsMissed`); a build reads every file whose stamp it saves, and the saved
  stamps are those last parsed (`CacheIsSeen`), so that what is skipped is held; of a
  file read without definitions the held ones are those it last had (`SeenIsHeld`).

**`CallsProofs`** extends `Calls`.

* `Intent`: `AnswersAreInjected`; the answers there are, and those still pending, lie
  at positions the next run repeats (`sure`) or at loose ones (`Injected`); what is
  pending is the rest of the last run (`Left`). `Transport`: `ChatAnswersAreTheServers`.
* `ServiceControl`: `ServersStayInReach`; the only command under way (as long as
  commands do not overlap) is in one of six phases, each with what the two files
  and the processes then say (`ControlInv`); between commands every server that was
  not told to stop is the one at `Home`.
* `Offload` (`CalculatorsAssumption`): `RecommendationFits`; the recommended strategy is
  the first of the greatest scores, what does not fit is worth 30 at most, and the naive
  strategy, which fits if any does, is worth more (sums of sizes, `Total`).
* `DshAdapter` (`DshAssumption`): `PollerHandsUpToCursor`. What a poller has handed over
  and still collects of a session are the events up to its cursor (`DshCursors`); a
  call that outlives its task is a stream's, never the poller's (`DshCalls`).

**`ListsProofs`**. The provers have no induction over data, but a set of numbers with 0
and every successor is `Nat` (`Induction`, from the well-foundedness of `<`), and that
set may be the numbers a formula holds of. `SeqInduction` is the same for sequences and
`Recursion` says that a loop (`IsLoop`) with typed steps has a solution. So the models
write the loops whose results proofs speak of as recursive functions of the place the
loop has come to (`Among`, `Total`, `VisitAll`, `Content`, `Items`) where the library has folds
and `SelectSeq`, and the laws of those functions are lemmas.

Theorems only, not repeated by a run: the engine's type invariant, `IInv`,
`StopsAtFirstFailure`, `StageMatchesDriver`, `CommitAfterTestBudget`,
`CallsPerTaskBounded`; `LimitedUnlessSlow`; `RunningIsDriven`; `EscalationsNearCap`;
`RingsAreFound`.

### Only model-checked

* `AllRunsEnd`, `EveryDriverEnds`, `ExecuteAllEnds`: liveness, which needs fairness
  and `ENABLED`.
* `GitCommit` beside abandoned threads or under the failures the theorems exclude.

## 5. Plan

Proved next: the types of `Orchestrator`'s and `Bench`'s rows as theorems; which
failures can leave a reported commit unpublished.

Modelled next: the engine handlers of `TaskHandlers` refined to the handler step
of `EnginePipeline`, the VRAM scheduler's swap and restore, the filters of the
event stream.

### Not modelled

The engine-side event bus and the readers of the records write or read what only
people look at. The VRAM scheduler swaps one model at a time and nothing reads
its outcome. Embeddings, prompts and the assembly of contexts are text. Intent
helpers, dashboards and the wrappers around ssh, git and Gitea are pure I/O. The
mutation harness and the mocks are test tooling. `workflow-state-machine.py` stops
at its first transition, because `transition()` compares the new state with the
names of events. The scripts run once.
