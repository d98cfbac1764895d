--------------------------- MODULE EnginePipeline ---------------------------
(***************************************************************************)
(* One run of the engine: the pipeline state machine (engine/state.py,     *)
(* engine/pipeline.py) driven by Engine.run and Engine._run_task           *)
(* (engine/engine.py), for a plan of code, research and edit tasks.        *)
(*                                                                         *)
(* `pipeline' is Pipeline.state; `pc' is where the driver thread is, so    *)
(* that a SIGINT (which runs Pipeline.cancel inside that thread) and a     *)
(* stop-file can arrive between any two calls, also between the look at    *)
(* the stop-file and the transition it allows.  An exception is part of    *)
(* the model: a transition VALID_TRANSITIONS forbids raises ValueError,    *)
(* and what catches it (or does not) decides how the run ends.             *)
(***************************************************************************)
EXTENDS Integers, Sequences

CONSTANTS
    Plans,              \* the task plans parse_prd may return
    MaxRetriesGenerate, \* EngineConfig.max_retries_generate
    MaxRetriesTest,     \* EngineConfig.max_retries_test
    MaxRetriesCommit,   \* EngineConfig.max_retries_commit
    MaxReplansPerTask,  \* EngineConfig.max_replans_per_task
    MaxLlmCalls,        \* EngineConfig.max_llm_calls, 0 = unbounded
    SideCalls           \* bound: oracle and judge calls a task may add

Kinds == {"code", "research", "edit"}

ASSUME PlansAssumption == Plans \subseteq Seq(Kinds)
ASSUME LimitsAssumption ==
    /\ MaxRetriesGenerate \in Nat \ {0}
    /\ MaxRetriesTest \in Nat
    /\ MaxRetriesCommit \in Nat
    /\ MaxReplansPerTask \in Nat
    /\ MaxLlmCalls \in Nat
    /\ SideCalls \in Nat

VARIABLES
    plan,       \* Pipeline.tasks, in topological order
    dryRun,     \* the dry_run argument
    pipeline,   \* Pipeline.state
    pc,         \* where the driver thread is
    idx,        \* index of the current task
    results,    \* task_results: the states of the TaskResults so far
    retries,    \* Pipeline.task_retries of the current task
    attempt,    \* the attempt of the generate or of the test loop
    rechecked,  \* transport_rechecked
    escalated,  \* reasoning_escalated
    replans,    \* _repl_count
    green,      \* test.passed of the last test run on the code on disk
    issued,     \* LLM calls the current code task has made (history)
    counted,    \* llm_calls in the orchestrator session
    stop,       \* the stop-file exists
    interrupted, \* a SIGINT cancelled the pipeline
    late,       \* guarded stages entered with the stop-file there (history)
    landed,     \* tasks whose commit_code returned success
    background, \* tasks whose commit thread _with_timeout abandoned
    verdict,    \* RunResult.success
    reported    \* the T7 report block was reached

taskVars == <<retries, attempt, rechecked, escalated, replans, green, issued>>
worldVars == <<stop, interrupted, late, landed, background>>
endVars == <<verdict, reported>>
planVars == <<plan, dryRun>>
vars == <<planVars, pipeline, pc, idx, results, taskVars, counted, worldVars,
          endVars>>

-----------------------------------------------------------------------------
(* The state machine of engine/state.py.                                   *)

States == {"IDLE", "PARSING", "QUEUED", "CONTEXT", "GENERATE", "VALIDATE",
           "TEST", "COMMIT", "NEXT", "DONE", "FAILED", "CANCELLED"}

Terminal == {"DONE", "FAILED", "CANCELLED"}

ValidTransitions == [s \in States |->
    CASE s = "IDLE"     -> {"PARSING", "CANCELLED"}
      [] s = "PARSING"  -> {"QUEUED", "FAILED", "CANCELLED"}
      [] s = "QUEUED"   -> {"CONTEXT", "DONE", "CANCELLED"}
      [] s = "CONTEXT"  -> {"GENERATE", "FAILED", "CANCELLED"}
      [] s = "GENERATE" -> {"VALIDATE", "FAILED", "CANCELLED"}
      [] s = "VALIDATE" -> {"TEST", "GENERATE", "FAILED", "CANCELLED"}
      [] s = "TEST"     -> {"COMMIT", "GENERATE", "FAILED", "CANCELLED"}
      [] s = "COMMIT"   -> {"NEXT", "QUEUED", "CANCELLED"}
      [] s = "NEXT"     -> {"QUEUED", "DONE", "CANCELLED"}
      [] s \in Terminal -> {}]

ResultStates == {"COMMIT", "FAILED", "CANCELLED"}

Ended == pc \in {"returned", "raised"}

\* Between raise_if_stopped and the transition behind it.
Passed == {"toContext", "toGenerate", "toTest", "toCommit"}

\* The points at which _run_task is on the stack of run().
InTask == Passed \cup
          {"handler", "context", "generate", "escalate", "validate",
           "exhausted", "brain", "regenerate", "revalidate", "giveup",
           "test", "fix", "fixcheck", "commit", "recommit"}

PCs == InTask \cup {"start", "enqueue", "loop", "next", "advance", "end",
                    "report", "returned", "raised"}

CanGo(s) == s \in ValidTransitions[pipeline]

\* check_budget: the LLM-call cap; a cap of 0 is unbounded.
OverBudget(calls) == MaxLlmCalls > 0 /\ calls >= MaxLlmCalls

NoRetries == [generate |-> 0, test |-> 0, commit |-> 0]

-----------------------------------------------------------------------------
(* How a task, and with it the run, ends.                                  *)

\* An exception leaves _run_task: run() records the task as s and tries the
\* matching transition; when that is illegal, ValueError leaves run() itself.
Escapes(s) ==
    /\ results' = Append(results, s)
    /\ IF CanGo(s) THEN pipeline' = s /\ pc' = "end"
                   ELSE pc' = "raised" /\ UNCHANGED pipeline

\* _run_task transitions to s and returns a TaskResult in state s.
Returns(s) ==
    IF CanGo(s) THEN /\ results' = Append(results, s)
                     /\ pipeline' = s
                     /\ pc' = "end"
                ELSE Escapes("FAILED")

\* A transition inside _run_task, then on to `next'.
Go(s, next) ==
    IF CanGo(s) THEN pipeline' = s /\ pc' = next /\ UNCHANGED results
                ELSE Escapes("FAILED")

\* raise_if_stopped: CancelledError when the stop-file exists, else on to the
\* transition, which is a call of its own.
RaiseIfStopped(next) ==
    IF stop THEN Escapes("CANCELLED")
            ELSE pc' = next /\ UNCHANGED <<pipeline, results>>

\* The transition that call has allowed.
Enter(s, next) ==
    /\ Go(s, next)
    /\ late' = IF stop /\ CanGo(s) THEN late + 1 ELSE late
    /\ UNCHANGED <<planVars, idx, counted, stop, interrupted, landed,
                   background, endVars>>

\* A transition of run() outside its try block.
RunGo(s, next) ==
    /\ UNCHANGED results
    /\ IF CanGo(s) THEN pipeline' = s /\ pc' = next
                   ELSE pc' = "raised" /\ UNCHANGED pipeline

-----------------------------------------------------------------------------
(* Engine.run up to the task loop.                                         *)

Init ==
    /\ plan \in Plans
    /\ dryRun \in BOOLEAN
    /\ pipeline = "IDLE"
    /\ pc = "start"
    /\ idx = 1
    /\ results = <<>>
    /\ retries = NoRetries
    /\ attempt = 0
    /\ rechecked = FALSE
    /\ escalated = FALSE
    /\ replans = 0
    /\ green = FALSE
    /\ issued = 0
    /\ counted = 0
    /\ stop = FALSE
    /\ interrupted = FALSE
    /\ late = 0
    /\ landed = {}
    /\ background = {}
    /\ verdict = "none"
    /\ reported = FALSE

\* bootstrap_project or parse_prd may raise; else IDLE -> PARSING.
Start ==
    /\ pc = "start"
    /\ \/ RunGo("PARSING", "enqueue")
       \/ pc' = "raised" /\ UNCHANGED <<pipeline, results>>
    /\ UNCHANGED <<planVars, idx, taskVars, counted, worldVars, endVars>>

\* PARSING -> QUEUED; a dry run returns success at once, a real one creates
\* the orchestrator session (counters at 0).
Enqueue ==
    /\ pc = "enqueue"
    /\ RunGo("QUEUED", IF dryRun THEN "returned" ELSE "loop")
    /\ verdict' = IF dryRun /\ CanGo("QUEUED") THEN "success" ELSE verdict
    /\ counted' = 0
    /\ UNCHANGED <<planVars, idx, taskVars, worldVars, reported>>

-----------------------------------------------------------------------------
(* The task loop.                                                          *)

ResetTask ==
    /\ retries' = NoRetries
    /\ attempt' = 0
    /\ rechecked' = FALSE
    /\ escalated' = FALSE
    /\ replans' = 0
    /\ green' = FALSE
    /\ issued' = 0

LoopDone ==
    /\ pc = "loop"
    /\ idx > Len(plan)
    /\ pc' = "end"
    /\ UNCHANGED <<planVars, pipeline, idx, results, taskVars, counted,
                   worldVars, endVars>>

\* T8: the budget check before each task.
BudgetAbort ==
    /\ pc = "loop"
    /\ idx <= Len(plan)
    /\ OverBudget(counted)
    /\ Escapes("CANCELLED")
    /\ UNCHANGED <<planVars, idx, taskVars, counted, worldVars, endVars>>

StartHandler ==
    /\ pc = "loop"
    /\ idx <= Len(plan)
    /\ ~OverBudget(counted)
    /\ plan[idx] # "code"
    /\ pc' = "handler"
    /\ ResetTask
    /\ UNCHANGED <<planVars, pipeline, idx, results, counted, worldVars,
                   endVars>>

StartCode ==
    /\ pc = "loop"
    /\ idx <= Len(plan)
    /\ ~OverBudget(counted)
    /\ plan[idx] = "code"
    /\ RaiseIfStopped("toContext")
    /\ ResetTask
    /\ UNCHANGED <<planVars, idx, counted, worldVars, endVars>>

EnterContext ==
    /\ pc = "toContext"
    /\ Enter("CONTEXT", "context")
    /\ UNCHANGED taskVars

\* ResearchTaskHandler and EditTaskHandler run the whole task without ever
\* moving the pipeline, counting a call or looking at the stop-file.  The
\* research handler returns COMMIT only for a successful commit; the edit
\* handler returns COMMIT whatever the commit returned, and its commit_code
\* call (given a string for a GeneratedCode) cannot succeed.
Handler ==
    /\ pc = "handler"
    /\ \/ /\ results' = Append(results, "COMMIT")
          /\ pc' = "next"
          /\ landed' = IF plan[idx] = "research" THEN landed \cup {idx}
                                                 ELSE landed
          /\ UNCHANGED pipeline
       \/ /\ results' = Append(results, "FAILED")
          /\ pc' = "end"
          /\ UNCHANGED <<pipeline, landed>>
       \/ Escapes("FAILED") /\ UNCHANGED landed
    /\ UNCHANGED <<planVars, idx, taskVars, counted, stop, interrupted, late,
                   background, endVars>>

\* Back in run() with a COMMIT result: a handler's task leaves the pipeline
\* QUEUED and the loop continues, a code task goes through NEXT.
TaskCommitted ==
    /\ pc = "next"
    /\ IF pipeline = "QUEUED"
       THEN pc' = "loop" /\ idx' = idx + 1 /\ UNCHANGED <<pipeline, results>>
       ELSE RunGo("NEXT", "advance") /\ UNCHANGED idx
    /\ UNCHANGED <<planVars, taskVars, counted, worldVars, endVars>>

Advance ==
    /\ pc = "advance"
    /\ IF idx < Len(plan)
       THEN RunGo("QUEUED", "loop")
       ELSE pc' = "loop" /\ UNCHANGED <<pipeline, results>>
    /\ idx' = idx + 1
    /\ UNCHANGED <<planVars, taskVars, counted, worldVars, endVars>>

-----------------------------------------------------------------------------
(* _run_task: CONTEXT and the generate loop.                               *)

Context ==
    /\ pc = "context"
    /\ Escapes("FAILED") \/ RaiseIfStopped("toGenerate")
    /\ UNCHANGED <<planVars, idx, taskVars, counted, worldVars, endVars>>

EnterGenerate ==
    /\ pc = "toGenerate"
    /\ Enter("GENERATE", "generate")
    /\ UNCHANGED taskVars

\* The end of a loop body that failed: the next attempt, or the block after
\* the loop.
NextAttempt == IF attempt + 1 < MaxRetriesGenerate THEN "generate"
                                                   ELSE "exhausted"

\* The cancel_check of _with_timeout saw the stop-file.
GenerateCancelled ==
    /\ pc = "generate"
    /\ stop
    /\ Returns("CANCELLED")
    /\ issued' = issued + 1
    /\ UNCHANGED <<planVars, idx, retries, attempt, rechecked, escalated,
                   replans, green, counted, worldVars, endVars>>

\* Timeout or transport failure: the first re-detects the transport and goes
\* on with the next attempt, the second ends the task.
GenerateFails ==
    /\ pc = "generate"
    /\ IF rechecked
       THEN Escapes("FAILED") /\ UNCHANGED <<attempt, rechecked>>
       ELSE /\ rechecked' = TRUE
            /\ attempt' = attempt + 1
            /\ pc' = NextAttempt
            /\ UNCHANGED <<pipeline, results>>
    /\ issued' = issued + 1
    /\ UNCHANGED <<planVars, idx, retries, escalated, replans, green, counted,
                   worldVars, endVars>>

\* Variant: the caps are not checked after a counted generation.
GeneratedUnchecked(exhausted) ==
    /\ pc = "generate"
    /\ issued' = issued + 1
    /\ counted' = counted + 1
    /\ IF exhausted THEN Returns("FAILED") ELSE Go("VALIDATE", "validate")
    /\ UNCHANGED <<planVars, idx, retries, attempt, rechecked, escalated,
                   replans, green, worldVars, endVars>>

\* The model answered: the call is counted and the caps are checked before
\* anything else; empty output is escalated once per task.
Generated(exhausted) ==
    /\ pc = "generate"
    /\ issued' = issued + 1
    /\ counted' = counted + 1
    /\ IF OverBudget(counted')
       THEN Returns("CANCELLED") /\ UNCHANGED escalated
       ELSE IF exhausted /\ ~escalated
       THEN escalated' = TRUE /\ pc' = "escalate"
            /\ UNCHANGED <<pipeline, results>>
       ELSE /\ IF exhausted THEN Returns("FAILED")
                            ELSE Go("VALIDATE", "validate")
            /\ UNCHANGED escalated
    /\ UNCHANGED <<planVars, idx, retries, attempt, rechecked, replans, green,
                   worldVars, endVars>>

\* The escalated call is not counted; its failures leave _run_task.
Escalate ==
    /\ pc = "escalate"
    /\ \/ stop /\ Escapes("CANCELLED")
       \/ Escapes("FAILED")
       \/ Returns("FAILED")
       \/ Go("VALIDATE", "validate")
    /\ issued' = issued + 1
    /\ UNCHANGED <<planVars, idx, retries, attempt, rechecked, escalated,
                   replans, green, counted, worldVars, endVars>>

\* The files are staged on disk and the stop-file is looked at.
ValidatePasses ==
    /\ pc = "validate"
    /\ RaiseIfStopped("toTest")
    /\ UNCHANGED <<planVars, idx, taskVars, counted, worldVars, endVars>>

ValidateFails ==
    /\ pc = "validate"
    /\ retries' = [retries EXCEPT !.generate = @ + 1]
    /\ attempt' = attempt + 1
    /\ Go("GENERATE", NextAttempt)
    /\ UNCHANGED <<planVars, idx, rechecked, escalated, replans, green, issued,
                   counted, worldVars, endVars>>

\* The validator, the sandbox or the staging of files may raise.
ValidateRaises ==
    /\ pc \in {"validate", "revalidate", "fixcheck"}
    /\ Escapes("FAILED")
    /\ UNCHANGED <<planVars, idx, taskVars, counted, worldVars, endVars>>

-----------------------------------------------------------------------------
(* Generation exhausted: re-plan, regenerate, or give up.                  *)

\* evaluate_trigger over a history of identical signatures, as _maybe_replan
\* calls it: one signature per validation failure plus one.
TriggerFires ==
    LET attempts == retries.generate + 1
    IN attempts >= 2 /\ attempts >= (MaxRetriesGenerate + 1) \div 2

\* Variant: without an amended task the old output is validated again, and
\* the turn is not counted.
ExhaustedRevalidates ==
    /\ pc = "exhausted"
    /\ IF retries.generate = 0
       THEN Escapes("FAILED")
       ELSE /\ pc' = IF replans = MaxReplansPerTask THEN "giveup"
                                                    ELSE "revalidate"
            /\ UNCHANGED <<pipeline, results>>
    /\ UNCHANGED <<planVars, idx, taskVars, counted, worldVars, endVars>>

\* One turn of the re-plan loop.  `result' is unbound when no attempt was
\* ever validated, which the block reads unconditionally.
Exhausted ==
    /\ pc = "exhausted"
    /\ IF retries.generate = 0
       THEN Escapes("FAILED") /\ UNCHANGED replans
       ELSE IF replans = MaxReplansPerTask
       THEN pc' = "giveup" /\ UNCHANGED <<pipeline, results, replans>>
       ELSE IF stop
       THEN Returns("CANCELLED") /\ UNCHANGED replans
       ELSE /\ replans' = replans + 1
            /\ pc' = IF TriggerFires THEN "brain" ELSE "giveup"
            /\ UNCHANGED <<pipeline, results>>
    /\ UNCHANGED <<planVars, idx, retries, attempt, rechecked, escalated,
                   green, issued, counted, worldVars, endVars>>

\* RePlanBrain.replan under _with_timeout.  _maybe_replan swallows a timeout
\* and a stop-file alike (not counted); an answer that does not parse,
\* validate or apply ends the ladder; what increment_and_check says is
\* ignored.
Brain ==
    /\ pc = "brain"
    /\ issued' = issued + 1
    /\ \/ /\ pc' = "giveup"
          /\ counted' \in {counted, counted + 1}
          /\ UNCHANGED <<pipeline, results>>
       \/ /\ counted' = counted + 1
          /\ IF pipeline # "GENERATE"
             THEN Go("GENERATE", "regenerate")
             ELSE pc' = "regenerate" /\ UNCHANGED <<pipeline, results>>
    /\ UNCHANGED <<planVars, idx, retries, attempt, rechecked, escalated,
                   replans, green, worldVars, endVars>>

\* Generation with the amended task; counted, but the caps are not checked.
Regenerate ==
    /\ pc = "regenerate"
    /\ issued' = issued + 1
    /\ \/ stop /\ Returns("CANCELLED") /\ UNCHANGED counted
       \/ Escapes("FAILED") /\ UNCHANGED counted
       \/ Go("VALIDATE", "revalidate") /\ counted' = counted + 1
    /\ UNCHANGED <<planVars, idx, retries, attempt, rechecked, escalated,
                   replans, green, worldVars, endVars>>

RevalidatePasses ==
    /\ pc = "revalidate"
    /\ RaiseIfStopped("toTest")
    /\ UNCHANGED <<planVars, idx, taskVars, counted, worldVars, endVars>>

RevalidateFails ==
    /\ pc = "revalidate"
    /\ pc' = "exhausted"
    /\ UNCHANGED <<planVars, pipeline, idx, results, taskVars, counted,
                   worldVars, endVars>>

\* Oracle escalation and judge scoring may add counted calls; then FAILED.
GiveUp ==
    /\ pc = "giveup"
    /\ \E n \in 0..SideCalls : counted' = counted + n
    /\ Returns("FAILED")
    /\ UNCHANGED <<planVars, idx, taskVars, worldVars, endVars>>

-----------------------------------------------------------------------------
(* TEST: run, fix, run again.                                              *)

\* The attempts of the test loop are counted from 0 again.
EnterTest ==
    /\ pc = "toTest"
    /\ Enter("TEST", "test")
    /\ attempt' = 0
    /\ UNCHANGED <<retries, rechecked, escalated, replans, green, issued>>

TestsRemain == attempt < MaxRetriesTest /\ ~green

TestPasses ==
    /\ pc = "test"
    /\ TestsRemain
    /\ green' = TRUE
    /\ UNCHANGED <<planVars, pipeline, pc, idx, results, retries, attempt,
                   rechecked, escalated, replans, issued, counted, worldVars,
                   endVars>>

TestFails ==
    /\ pc = "test"
    /\ TestsRemain
    /\ retries' = [retries EXCEPT !.test = @ + 1]
    /\ Go("GENERATE", "fix")
    /\ UNCHANGED <<planVars, idx, attempt, rechecked, escalated, replans,
                   green, issued, counted, worldVars, endVars>>

TestAborts ==
    /\ pc = "test"
    /\ TestsRemain
    /\ \/ stop /\ Escapes("CANCELLED")
       \/ Escapes("FAILED")
    /\ UNCHANGED <<planVars, idx, taskVars, counted, worldVars, endVars>>

\* The fix is generated without timeout, stop check or budget count.
Fix ==
    /\ pc = "fix"
    /\ issued' = issued + 1
    /\ \/ Escapes("FAILED")
       \/ Go("VALIDATE", "fixcheck")
    /\ UNCHANGED <<planVars, idx, retries, attempt, rechecked, escalated,
                   replans, green, counted, worldVars, endVars>>

\* The re-validation's result is dropped: TEST follows either way.
FixCheck ==
    /\ pc = "fixcheck"
    /\ Go("TEST", "test")
    /\ attempt' = attempt + 1
    /\ UNCHANGED <<planVars, idx, retries, rechecked, escalated, replans,
                   green, issued, counted, worldVars, endVars>>

-----------------------------------------------------------------------------
(* COMMIT.                                                                 *)

\* Variant: the stop-file is not looked at before COMMIT.
TestsEndUnstopped ==
    /\ pc = "test"
    /\ ~TestsRemain
    /\ pc' = "toCommit"
    /\ UNCHANGED <<planVars, pipeline, idx, results, taskVars, counted,
                   worldVars, endVars>>

\* Tests passed or their attempts are spent: on to COMMIT, unless stopped.
TestsEnd ==
    /\ pc = "test"
    /\ ~TestsRemain
    /\ RaiseIfStopped("toCommit")
    /\ UNCHANGED <<planVars, idx, taskVars, counted, worldVars, endVars>>

EnterCommit ==
    /\ pc = "toCommit"
    /\ Enter("COMMIT", "commit")
    /\ UNCHANGED taskVars

\* The first commit_code call can be abandoned by _with_timeout (stop-file or
\* timeout); its daemon thread goes on.
CommitAbandoned ==
    /\ pc = "commit"
    /\ \/ stop /\ Escapes("CANCELLED")
       \/ Escapes("FAILED")
    /\ background' = background \cup {idx}
    /\ UNCHANGED <<planVars, idx, taskVars, counted, stop, interrupted, late,
                   landed, endVars>>

\* commit_code returned; the retries run without timeout or stop check.
CommitSucceeds ==
    /\ pc \in {"commit", "recommit"}
    /\ landed' = landed \cup {idx}
    /\ results' = Append(results, "COMMIT")
    /\ pc' = "next"
    /\ \E n \in 0..SideCalls : counted' = counted + n
    /\ UNCHANGED <<planVars, pipeline, idx, taskVars, stop, interrupted, late,
                   background, endVars>>

CommitRetries ==
    /\ pc \in {"commit", "recommit"}
    /\ retries.commit < MaxRetriesCommit
    /\ retries' = [retries EXCEPT !.commit = @ + 1]
    /\ pc' = "recommit"
    /\ UNCHANGED <<planVars, pipeline, idx, results, attempt, rechecked,
                   escalated, replans, green, issued, counted, worldVars,
                   endVars>>

\* Variant: a failed commit goes on to the next task.
CommitFailsAndGoesOn(permanent) ==
    /\ pc \in {"commit", "recommit"}
    /\ permanent \/ retries.commit = MaxRetriesCommit
    /\ results' = Append(results, "FAILED")
    /\ pc' = "next"
    /\ \E n \in 0..SideCalls : counted' = counted + n
    /\ UNCHANGED <<planVars, pipeline, idx, taskVars, worldVars, endVars>>

\* A permanent failure, or the last retryable one.  The result is FAILED, the
\* pipeline stays in COMMIT, which has no FAILED edge.
CommitFails(permanent) ==
    /\ pc \in {"commit", "recommit"}
    /\ permanent \/ retries.commit = MaxRetriesCommit
    /\ results' = Append(results, "FAILED")
    /\ pc' = "end"
    /\ \E n \in 0..SideCalls : counted' = counted + n
    /\ UNCHANGED <<planVars, pipeline, idx, taskVars, worldVars, endVars>>

-----------------------------------------------------------------------------
(* The end of run().                                                       *)

AllCommitted == \A i \in 1..Len(results) : results[i] = "COMMIT"

\* Pipeline.transition's guard on QUEUED -> DONE: with results that are not
\* all terminal, or none for a non-empty plan, DONE becomes FAILED.
DoneTarget ==
    IF pipeline = "QUEUED" /\ plan # <<>> /\ results = <<>>
    THEN "FAILED" ELSE "DONE"

\* Variant: success is read off the pipeline state, as before the Epic-5 fix.
FinishByPipelineState ==
    /\ pc = "end"
    /\ pc' = "report"
    /\ verdict' = IF pipeline \in {"FAILED", "CANCELLED"} THEN "failure"
                                                          ELSE "success"
    /\ UNCHANGED <<planVars, pipeline, idx, results, taskVars, counted,
                   worldVars, reported>>

Finish ==
    /\ pc = "end"
    /\ IF AllCommitted /\ pipeline \notin {"FAILED", "CANCELLED"}
       THEN RunGo(DoneTarget, "report")
       ELSE pc' = "report" /\ UNCHANGED <<pipeline, results>>
    /\ verdict' = IF pc' = "raised" THEN verdict
                  ELSE IF pipeline' = "DONE" /\ AllCommitted THEN "success"
                                                             ELSE "failure"
    /\ UNCHANGED <<planVars, idx, taskVars, counted, worldVars, reported>>

\* T7 report, tool-gap scan, judge, archive: all best-effort.
Report ==
    /\ pc = "report"
    /\ reported' = TRUE
    /\ pc' = "returned"
    /\ UNCHANGED <<planVars, pipeline, idx, results, taskVars, counted,
                   worldVars, verdict>>

-----------------------------------------------------------------------------
(* The outside world.                                                      *)

\* SIGINT: Pipeline.cancel in the driver thread.  On a terminal pipeline it
\* raises ValueError into the call in flight, which those calls' own failure
\* outcomes cover.
Interrupt ==
    /\ ~Ended
    /\ CanGo("CANCELLED")
    /\ pipeline' = "CANCELLED"
    /\ interrupted' = TRUE
    /\ UNCHANGED <<planVars, pc, idx, results, taskVars, counted, stop, late,
                   landed, background, endVars>>

\* The operator touches the stop-file.
TouchStop ==
    /\ ~stop
    /\ ~Ended
    /\ stop' = TRUE
    /\ UNCHANGED <<planVars, pipeline, pc, idx, results, taskVars, counted,
                   interrupted, late, landed, background, endVars>>

\* An abandoned commit thread finishes while the process lives.
BackgroundCommit ==
    /\ ~Ended
    /\ \E i \in background :
        /\ background' = background \ {i}
        /\ landed' \in {landed, landed \cup {i}}
    /\ UNCHANGED <<planVars, pipeline, pc, idx, results, taskVars, counted,
                   stop, interrupted, late, endVars>>

Driver ==
    \/ Start \/ Enqueue
    \/ LoopDone \/ BudgetAbort \/ StartHandler \/ StartCode \/ EnterContext
    \/ Handler \/ TaskCommitted \/ Advance
    \/ Context \/ EnterGenerate
    \/ GenerateCancelled \/ GenerateFails
    \/ \E exhausted \in BOOLEAN : Generated(exhausted)
    \/ Escalate
    \/ ValidatePasses \/ ValidateFails \/ ValidateRaises
    \/ Exhausted \/ Brain \/ Regenerate \/ RevalidatePasses \/ RevalidateFails
    \/ GiveUp
    \/ EnterTest \/ TestPasses \/ TestFails \/ TestAborts \/ Fix \/ FixCheck
    \/ TestsEnd \/ EnterCommit \/ CommitAbandoned \/ CommitSucceeds \/ CommitRetries
    \/ \E permanent \in BOOLEAN : CommitFails(permanent)
    \/ Finish \/ Report

World == Interrupt \/ TouchStop \/ BackgroundCommit

Done == Ended /\ UNCHANGED vars

Next == Driver \/ World \/ Done

Spec == Init /\ [][Next]_vars

-----------------------------------------------------------------------------
(* Properties.                                                             *)

\* Types, with the retry counters within the limits of EngineConfig.
TypeOK ==
    /\ plan \in Seq(Kinds)
    /\ dryRun \in BOOLEAN
    /\ pipeline \in States
    /\ pc \in PCs
    /\ idx \in Nat \ {0}
    /\ results \in Seq(ResultStates)
    /\ retries \in [generate : 0..MaxRetriesGenerate,
                    test : 0..MaxRetriesTest,
                    commit : 0..MaxRetriesCommit]
    /\ attempt \in Nat
    /\ rechecked \in BOOLEAN
    /\ escalated \in BOOLEAN
    /\ replans \in 0..MaxReplansPerTask
    /\ green \in BOOLEAN
    /\ issued \in Nat
    /\ counted \in Nat
    /\ stop \in BOOLEAN
    /\ interrupted \in BOOLEAN
    /\ late \in Nat
    /\ landed \subseteq 1..Len(plan)
    /\ background \subseteq 1..Len(plan)
    /\ verdict \in {"none", "success", "failure"}
    /\ reported \in BOOLEAN

\* A run that reports success ran every task of its plan, in order, to COMMIT,
\* and every code or research task among them really has a successful commit
\* behind it (Engine.run derives success from the task results).
SuccessIsEarned ==
    (verdict = "success" /\ ~dryRun) =>
        /\ pipeline = "DONE"
        /\ Len(results) = Len(plan)
        /\ \A i \in 1..Len(plan) :
            /\ results[i] = "COMMIT"
            /\ plan[i] # "edit" => i \in landed

\* The run stops at the first task that did not commit: every task before the
\* last one reported committed, and has a commit behind it unless it is an
\* edit; nothing lands for a task not yet reached.
StopsAtFirstFailure ==
    /\ \A i \in 1..(Len(results) - 1) :
        results[i] = "COMMIT" /\ (plan[i] # "edit" => i \in landed)
    /\ landed \cup background \subseteq 1..idx

\* The state machine's states a driver at p may find itself in.
StagesAt(p) ==
    CASE p = "start"   -> {"IDLE"}
      [] p = "enqueue" -> {"PARSING"}
      [] p \in {"loop", "handler", "toContext"} -> {"QUEUED"}
      [] p = "next"    -> {"QUEUED", "COMMIT"}
      [] p = "advance" -> {"NEXT"}
      [] p \in {"context", "toGenerate"} -> {"CONTEXT"}
      [] p \in {"generate", "escalate", "regenerate", "fix"} -> {"GENERATE"}
      [] p \in {"validate", "revalidate", "fixcheck", "toTest"} -> {"VALIDATE"}
      [] p \in {"exhausted", "brain", "giveup"} -> {"GENERATE", "VALIDATE"}
      [] p \in {"test", "toCommit"} -> {"TEST"}
      [] p \in {"commit", "recommit"} -> {"COMMIT"}
      [] p = "end"     -> {"QUEUED", "NEXT", "COMMIT", "FAILED", "CANCELLED"}
      [] p = "report"  -> {"QUEUED", "COMMIT", "DONE", "FAILED", "CANCELLED"}
      [] p = "returned" -> {"QUEUED", "COMMIT", "DONE", "FAILED", "CANCELLED"}
      [] p = "raised"  -> {"IDLE", "QUEUED", "COMMIT"}

\* The driver and the state machine never drift apart, so no transition the
\* engine asks for is illegal, unless a SIGINT moved the pipeline under it; and
\* an exception can leave run() only from IDLE, QUEUED or COMMIT, the states
\* without a FAILED edge.
StageMatchesDriver ==
    \/ pipeline \in StagesAt(pc)
    \/ pc = "loop" /\ idx > Len(plan) /\ pipeline = "NEXT"
    \/ interrupted /\ pipeline = "CANCELLED"

\* Code enters COMMIT only with green tests or after every test attempt the
\* configuration allows has failed.
CommitAfterTestBudget ==
    pc \in {"commit", "recommit"} => green \/ retries.test = MaxRetriesTest

\* However the retry ladders nest (generate, escalate, re-plan, fix), a code
\* task makes at most this many LLM calls.
CallsPerTaskBounded ==
    issued <= MaxRetriesGenerate + 1 + 2 * MaxReplansPerTask + MaxRetriesTest

\* The call counter passes its cap by no more than one task's unchecked
\* increments (the re-plan ladder, the oracle, the judge).
BudgetOvershootBounded ==
    MaxLlmCalls > 0 =>
        \/ counted <= MaxLlmCalls
        \/ counted < MaxLlmCalls + 2 * MaxReplansPerTask + SideCalls

\* Once the stop-file exists at most one more of the stages it guards
\* (CONTEXT, GENERATE, TEST, COMMIT) is entered in the whole run, the one
\* whose look at the stop-file came just before; after it the driver gets past
\* no further look.  The retry edges between GENERATE, VALIDATE and TEST inside
\* the test loop are not guarded and not counted.
StopBlocksStages == late <= 1 /\ (late = 1 => pc \notin Passed)

-----------------------------------------------------------------------------
(* The engine's run implements RunContract. *)

StatusOf == CASE pc = "returned" -> "returned"
              [] pc = "raised"   -> "crashed"
              [] OTHER           -> "running"

Contract == INSTANCE RunContract WITH
    outcome <- results,
    status  <- StatusOf

\* The caller's view of Engine.run: results in plan order up to the first
\* failure, one verdict that tells the truth about them, none after a crash.
ImplementsContract == Contract!Spec

=============================================================================
