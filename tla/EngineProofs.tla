---------------------------- MODULE EngineProofs ----------------------------
(***************************************************************************)
(* Proofs about EnginePipeline for every plan and every value of the       *)
(* limits.  The invariant IInv is inductive; TypeOK and the safety         *)
(* invariants follow from it.  The control part of IInv rests on one fact  *)
(* about the steps of a task, TaskStep: each of them ends the task with a  *)
(* failed result or moves the state machine along with the driver.  Then   *)
(* two facts about the steps: the engine implements RunContract, and with  *)
(* a stop-file there it enters at most one more stage.                     *)
(*                                                                         *)
(* The second part is about GitCommit: nothing writes to main, and commits *)
(* a task was reported with stay and are published.                        *)
(***************************************************************************)
EXTENDS EnginePipeline, GitCommit, SequenceTheorems, TLAPS

-----------------------------------------------------------------------------
(* The invariant: what the driver's position says about the results, the   *)
(* state machine, the attempts and the two call counters.                  *)

AtEnd == {"end", "report", "returned", "raised"}

\* Tasks before the current one committed; the current one has a result only
\* once the driver has left it.
Position ==
    /\ pc \in {"start", "enqueue"} => results = <<>> /\ idx = 1
    /\ pc = "loop" =>
        idx <= Len(plan) + 1 /\ Len(results) = idx - 1 /\ AllCommitted
    /\ pc \in InTask =>
        idx <= Len(plan) /\ Len(results) = idx - 1 /\ AllCommitted
    /\ pc = "handler" => plan[idx] # "code"
    /\ pc \in {"next", "advance"} =>
        idx <= Len(plan) /\ Len(results) = idx /\ AllCommitted
    /\ pc \in AtEnd => idx <= Len(plan) + 1 /\ Len(results) <= Len(plan)
    /\ pc = "end" /\ AllCommitted =>
        /\ Len(results) = Len(plan)
        /\ pipeline \in {"QUEUED", "NEXT"} \/ interrupted
    /\ pc = "end" /\ pipeline = "NEXT" => AllCommitted

\* A committed result of a code or research task has a commit behind it.
Landed ==
    /\ \A i \in 1..(Len(results) - 1) : results[i] = "COMMIT"
    /\ \A i \in 1..Len(results) :
        results[i] = "COMMIT" /\ plan[i] # "edit" => i \in landed
    /\ landed \cup background \subseteq 1..idx

\* The verdict is given at the end and says what the results say.
Verdict ==
    /\ verdict # "none" => pc \in {"report", "returned"}
    /\ pc = "report" => verdict # "none"
    /\ verdict = "success" /\ ~dryRun =>
        pipeline = "DONE" /\ Len(results) = Len(plan) /\ AllCommitted

\* What the loops have counted so far.
Ladder ==
    /\ pc \in {"generate", "escalate", "validate"} =>
        attempt < MaxRetriesGenerate /\ retries.generate <= attempt
    /\ pc \in {"toContext", "context", "toGenerate"} =>
        attempt = 0 /\ retries.generate = 0 /\ replans = 0
    /\ pc \in {"toContext", "context", "toGenerate", "toTest", "generate", "escalate", "validate", "exhausted",
               "brain", "regenerate", "revalidate", "giveup"} =>
        retries.test = 0
    /\ pc = "toCommit" => green \/ retries.test = MaxRetriesTest
    /\ pc \in {"brain", "regenerate", "revalidate"} => replans >= 1
    /\ pc = "test" => retries.test = attempt /\ attempt <= MaxRetriesTest
    /\ pc \in {"fix", "fixcheck"} =>
        retries.test = attempt + 1 /\ attempt < MaxRetriesTest
    /\ CommitAfterTestBudget

Escalation == IF escalated THEN 1 ELSE 0

\* LLM calls of the task, by position.
Calls ==
    LET base == MaxRetriesGenerate + 1
        top  == base + 2 * MaxReplansPerTask
    IN  /\ pc \in {"toContext", "context", "toGenerate"} =>
            issued = 0 /\ ~escalated
        /\ pc = "generate" => issued <= attempt + Escalation
        /\ pc = "escalate" => issued <= attempt + 1 /\ escalated
        /\ pc = "validate" => issued <= attempt + 1 + Escalation
        /\ pc \in {"exhausted", "giveup", "revalidate"} =>
            issued <= base + 2 * replans
        /\ pc = "brain" => issued <= base + 2 * replans - 2
        /\ pc = "regenerate" => issued <= base + 2 * replans - 1
        /\ pc \in {"toTest", "test", "fixcheck"} => issued <= top + retries.test
        /\ pc = "fix" => issued <= top + retries.test - 1
        /\ CallsPerTaskBounded

\* The run's call counter under a cap, by position.
Counts ==
    MaxLlmCalls > 0 =>
        /\ pc \in {"handler", "toContext", "context", "toGenerate", "generate",
                   "escalate", "validate"} =>
            counted < MaxLlmCalls
        /\ pc \in {"exhausted", "giveup", "revalidate"} =>
            counted < MaxLlmCalls + 2 * replans
        /\ pc = "brain" => counted < MaxLlmCalls + 2 * replans - 2
        /\ pc = "regenerate" => counted < MaxLlmCalls + 2 * replans - 1
        /\ pc \in {"toTest", "test", "fix", "fixcheck", "toCommit", "commit",
                   "recommit"} =>
            counted < MaxLlmCalls + 2 * MaxReplansPerTask
        /\ BudgetOvershootBounded

\* A stage entered too late: the stop-file is there, and every look sees it.
Stopped == late <= 1 /\ (late = 1 => stop /\ pc \notin Passed)

\* The inductive invariant: TypeOK and the safety invariants follow from it.
IInv ==
    /\ TypeOK
    /\ Position
    /\ Landed
    /\ Verdict
    /\ StageMatchesDriver
    /\ Ladder
    /\ Calls
    /\ Counts
    /\ Stopped

-----------------------------------------------------------------------------
(* Types.                                                                  *)

\* TypeOK in two halves: what the driver steers by, and what it counts.
CounterTypes ==
    /\ retries \in [generate : 0..MaxRetriesGenerate,
                    test : 0..MaxRetriesTest,
                    commit : 0..MaxRetriesCommit]
    /\ attempt \in Nat
    /\ rechecked \in BOOLEAN
    /\ escalated \in BOOLEAN
    /\ replans \in 0..MaxReplansPerTask
    /\ green \in BOOLEAN
    /\ issued \in Nat
    /\ counted \in Nat

ControlTypes ==
    /\ plan \in Seq(Kinds)
    /\ dryRun \in BOOLEAN
    /\ pipeline \in States
    /\ pc \in PCs
    /\ idx \in Nat \ {0}
    /\ results \in Seq(ResultStates)
    /\ stop \in BOOLEAN
    /\ interrupted \in BOOLEAN
    /\ late \in Nat
    /\ landed \subseteq 1..Len(plan)
    /\ background \subseteq 1..Len(plan)
    /\ verdict \in {"none", "success", "failure"}
    /\ reported \in BOOLEAN

-----------------------------------------------------------------------------
(* The steps of a task.                                                    *)

\* The two results that end a run.
Bad == {"FAILED", "CANCELLED"}

\* The step gives the task a failed result, in run() or out of it.
Failing ==
    \E s \in Bad :
        /\ results' = Append(results, s)
        /\ \/ pc' = "end" /\ pipeline' = s
           \/ pc' = "raised" /\ pipeline' = pipeline /\ ~CanGo(s)

\* The step goes on with the task, pipeline and driver in step (or the
\* pipeline cancelled under the driver).
Works ==
    /\ results' = results
    /\ \E p \in InTask :
        /\ pc' = p
        /\ p = "handler" => plan[idx] # "code"
        /\ \/ pipeline' \in StagesAt(p) \cap States
           \/ interrupted /\ pipeline = "CANCELLED" /\ pipeline' = pipeline

\* What a step of the task leaves alone.
Frame ==
    /\ pc \in InTask \/ (pc = "loop" /\ idx <= Len(plan))
    /\ UNCHANGED <<plan, dryRun, idx, interrupted, landed, verdict, reported>>
    /\ stop' = stop
    /\ late' \in {late, late + 1}
    /\ background' \subseteq background \cup {idx}

\* How the control operators move: to a failed result, or to the stage named.
LEMMA EscapesFails == ASSUME NEW s \in Bad, Escapes(s) PROVE Failing
  BY DEF Escapes, Failing

LEMMA ReturnsFails == ASSUME NEW s \in Bad, Returns(s) PROVE Failing
  BY DEF Returns, Escapes, Failing, Bad

LEMMA GoFailsOrWorks ==
  ASSUME NEW next \in InTask \ {"handler"}, NEW s \in StagesAt(next) \cap
         States, Go(s, next)
  PROVE  Failing \/ Works
  BY DEF Go, Escapes, Failing, Works, Bad

\* A look at the stop-file leaves the state machine where it is.
LEMMA LookFailsOrWorks ==
  ASSUME NEW next \in InTask \ {"handler"}, RaiseIfStopped(next),
         \/ pipeline \in StagesAt(next) \cap States
         \/ interrupted' /\ pipeline = "CANCELLED",
         UNCHANGED interrupted
  PROVE  Failing \/ Works
  BY EscapesFails DEF RaiseIfStopped, Works, Bad

\* StagesAt and ValidTransitions, value by value.
LEMMA Stages ==
  /\ StagesAt("start") = {"IDLE"}
  /\ StagesAt("enqueue") = {"PARSING"}
  /\ StagesAt("loop") = {"QUEUED"}
  /\ \A p \in {"handler", "toContext"} : StagesAt(p) = {"QUEUED"}
  /\ StagesAt("next") = {"QUEUED", "COMMIT"}
  /\ StagesAt("advance") = {"NEXT"}
  /\ \A p \in {"context", "toGenerate"} : StagesAt(p) = {"CONTEXT"}
  /\ \A p \in {"generate", "escalate", "regenerate", "fix"} :
        StagesAt(p) = {"GENERATE"}
  /\ \A p \in {"validate", "revalidate", "fixcheck", "toTest"} :
        StagesAt(p) = {"VALIDATE"}
  /\ \A p \in {"exhausted", "brain", "giveup"} :
        StagesAt(p) = {"GENERATE", "VALIDATE"}
  /\ \A p \in {"test", "toCommit"} : StagesAt(p) = {"TEST"}
  /\ \A p \in {"commit", "recommit"} : StagesAt(p) = {"COMMIT"}
  BY DEF StagesAt
LEMMA EndStages ==
  /\ StagesAt("end") = {"QUEUED", "NEXT", "COMMIT", "FAILED", "CANCELLED"}
  /\ \A p \in {"report", "returned"} :
        StagesAt(p) = {"QUEUED", "COMMIT", "DONE", "FAILED", "CANCELLED"}
  /\ StagesAt("raised") = {"IDLE", "QUEUED", "COMMIT"}
  BY DEF StagesAt

LEMMA Edges ==
  /\ ValidTransitions["IDLE"] = {"PARSING", "CANCELLED"}
  /\ ValidTransitions["PARSING"] = {"QUEUED", "FAILED", "CANCELLED"}
  /\ ValidTransitions["QUEUED"] = {"CONTEXT", "DONE", "CANCELLED"}
  /\ ValidTransitions["CONTEXT"] = {"GENERATE", "FAILED", "CANCELLED"}
  /\ ValidTransitions["GENERATE"] = {"VALIDATE", "FAILED", "CANCELLED"}
  /\ ValidTransitions["VALIDATE"] =
        {"TEST", "GENERATE", "FAILED", "CANCELLED"}
  /\ ValidTransitions["TEST"] = {"COMMIT", "GENERATE", "FAILED", "CANCELLED"}
  /\ ValidTransitions["COMMIT"] = {"NEXT", "QUEUED", "CANCELLED"}
  /\ ValidTransitions["NEXT"] = {"QUEUED", "DONE", "CANCELLED"}
  /\ \A t \in Terminal : ValidTransitions[t] = {}
  BY DEF ValidTransitions, States, Terminal

\* The steps of a task up to its result, all but a handler's and a commit's.
TaskNext ==
    \/ BudgetAbort
    \/ StartHandler
    \/ StartCode
    \/ Context
    \/ GenerateCancelled
    \/ GenerateFails
    \/ \E exhausted \in BOOLEAN : Generated(exhausted)
    \/ Escalate
    \/ ValidatePasses
    \/ ValidateFails
    \/ ValidateRaises
    \/ Exhausted
    \/ Brain
    \/ Regenerate
    \/ RevalidatePasses
    \/ RevalidateFails
    \/ GiveUp
    \/ TestPasses
    \/ TestFails
    \/ TestAborts
    \/ Fix
    \/ FixCheck
    \/ TestsEnd
    \/ CommitAbandoned
    \/ CommitRetries
    \/ EnterContext
    \/ EnterGenerate
    \/ EnterTest
    \/ EnterCommit

\* Before a task starts the pipeline is QUEUED, unless a SIGINT cancelled it.
LEMMA LoopStage ==
  ASSUME ControlTypes, StageMatchesDriver, pc = "loop", idx <= Len(plan)
  PROVE  pipeline = "QUEUED" \/ (interrupted /\ pipeline = "CANCELLED")
<1>1. \/ pipeline \in StagesAt(pc)
      \/ idx > Len(plan)
      \/ interrupted /\ pipeline = "CANCELLED"
  BY DEF StageMatchesDriver
<1>2. CASE pipeline \in StagesAt(pc)
  <2>1. StagesAt("loop") = {"QUEUED"}
    BY DEF StagesAt
  <2> QED BY <1>2, <2>1
<1>3. CASE idx > Len(plan)
  BY <1>3 DEF ControlTypes
<1> QED BY <1>1, <1>2, <1>3

\* Every step of a task ends it with a failed result or keeps the driver in
\* step with the state machine.
LEMMA TaskStep ==
  ASSUME ControlTypes, StageMatchesDriver, pipeline \in States, TaskNext
  PROVE Failing \/ Works
<1> USE EscapesFails, ReturnsFails, GoFailsOrWorks, Stages DEF
        StageMatchesDriver, InTask, Passed, States, Bad
<1>1. CASE BudgetAbort
  BY <1>1 DEF BudgetAbort, Works
<1>2. CASE StartHandler
  <2>1. pc' = "handler" /\ results' = results /\ pipeline' = pipeline /\
        UNCHANGED interrupted
    BY <1>2 DEF StartHandler, worldVars
  <2>2. pc = "loop" /\ idx <= Len(plan) /\ plan[idx] # "code"
    BY <1>2 DEF StartHandler
  <2>4. pipeline = "QUEUED" \/ (interrupted /\ pipeline = "CANCELLED")
    BY <2>2, LoopStage
  <2> QED BY <2>1, <2>2, <2>4 DEF Works
<1>3. CASE StartCode
  <2>1. RaiseIfStopped("toContext") /\ UNCHANGED interrupted
    BY <1>3 DEF StartCode, worldVars
  <2>2. pc = "loop" /\ idx <= Len(plan)
    BY <1>3 DEF StartCode
  <2>3. pipeline = "QUEUED" \/ (interrupted /\ pipeline = "CANCELLED")
    BY <2>2, LoopStage
  <2> QED BY <2>1, <2>3, LookFailsOrWorks
<1>4. CASE Context
  BY <1>4, LookFailsOrWorks DEF Context, worldVars
<1>5. CASE GenerateCancelled
  BY <1>5 DEF GenerateCancelled, Works
<1>6. CASE GenerateFails
  BY <1>6 DEF GenerateFails, NextAttempt, Works
<1>7. CASE \E e \in BOOLEAN : Generated(e)
  <2>1. \/ Returns("CANCELLED") \/ Returns("FAILED")
        \/ Go("VALIDATE", "validate")
        \/ /\ pc = "generate" /\ pc' = "escalate"
           /\ UNCHANGED <<pipeline, results>>
    BY <1>7 DEF Generated
  <2> QED BY <2>1 DEF Works
<1>8. CASE Escalate
  BY <1>8 DEF Escalate
<1>9. CASE ValidatePasses
  BY <1>9, LookFailsOrWorks DEF ValidatePasses, worldVars
<1>10. CASE ValidateFails
  BY <1>10 DEF ValidateFails, NextAttempt
<1>11. CASE ValidateRaises
  BY <1>11 DEF ValidateRaises, Works
<1>12. CASE Exhausted
  BY <1>12 DEF Exhausted, Works
<1>13. CASE Brain
  BY <1>13 DEF Brain, Works
<1>14. CASE Regenerate
  BY <1>14 DEF Regenerate
<1>15. CASE RevalidatePasses
  BY <1>15, LookFailsOrWorks DEF RevalidatePasses, worldVars
<1>16. CASE RevalidateFails
  BY <1>16 DEF RevalidateFails, Works
<1>17. CASE GiveUp
  BY <1>17 DEF GiveUp, Works
<1>18. CASE TestPasses
  BY <1>18 DEF TestPasses, Works
<1>19. CASE TestFails
  BY <1>19 DEF TestFails
<1>20. CASE TestAborts
  BY <1>20 DEF TestAborts, Works
<1>21. CASE Fix
  BY <1>21 DEF Fix
<1>22. CASE FixCheck
  BY <1>22 DEF FixCheck
<1>23. CASE TestsEnd
  BY <1>23, LookFailsOrWorks DEF TestsEnd, worldVars
<1>24. CASE CommitAbandoned
  BY <1>24 DEF CommitAbandoned, Works
<1>25. CASE CommitRetries
  BY <1>25 DEF CommitRetries, Works
<1>26. CASE EnterContext
  BY <1>26 DEF EnterContext, Enter
<1>27. CASE EnterGenerate
  BY <1>27 DEF EnterGenerate, Enter
<1>28. CASE EnterTest
  BY <1>28 DEF EnterTest, Enter
<1>29. CASE EnterCommit
  BY <1>29 DEF EnterCommit, Enter
<1> QED BY <1>1, <1>2, <1>3, <1>4, <1>5, <1>6, <1>7, <1>8, <1>9, <1>10, <1>11,
           <1>12, <1>13, <1>14, <1>15, <1>16, <1>17, <1>18, <1>19, <1>20,
           <1>21, <1>22, <1>23, <1>24, <1>25, <1>26, <1>27, <1>28, <1>29 DEF TaskNext

\* No step of a task touches what earlier tasks achieved.
LEMMA TaskFrame ==
  ASSUME ControlTypes, TaskNext
  PROVE  Frame
<1> USE DEF ControlTypes, Frame, InTask, Passed, planVars, worldVars, endVars
<1>1. CASE BudgetAbort
  BY <1>1 DEF BudgetAbort
<1>2. CASE StartHandler
  BY <1>2 DEF StartHandler
<1>3. CASE StartCode
  BY <1>3 DEF StartCode
<1>4. CASE Context
  BY <1>4 DEF Context
<1>5. CASE GenerateCancelled
  BY <1>5 DEF GenerateCancelled
<1>6. CASE GenerateFails
  BY <1>6 DEF GenerateFails
<1>7. CASE \E e \in BOOLEAN : Generated(e)
  BY <1>7 DEF Generated
<1>8. CASE Escalate
  BY <1>8 DEF Escalate
<1>9. CASE ValidatePasses
  BY <1>9 DEF ValidatePasses
<1>10. CASE ValidateFails
  BY <1>10 DEF ValidateFails
<1>11. CASE ValidateRaises
  BY <1>11 DEF ValidateRaises
<1>12. CASE Exhausted
  BY <1>12 DEF Exhausted
<1>13. CASE Brain
  BY <1>13 DEF Brain
<1>14. CASE Regenerate
  BY <1>14 DEF Regenerate
<1>15. CASE RevalidatePasses
  BY <1>15 DEF RevalidatePasses
<1>16. CASE RevalidateFails
  BY <1>16 DEF RevalidateFails
<1>17. CASE GiveUp
  BY <1>17 DEF GiveUp
<1>18. CASE TestPasses
  BY <1>18 DEF TestPasses
<1>19. CASE TestFails
  BY <1>19 DEF TestFails
<1>20. CASE TestAborts
  BY <1>20 DEF TestAborts
<1>21. CASE Fix
  BY <1>21 DEF Fix
<1>22. CASE FixCheck
  BY <1>22 DEF FixCheck
<1>23. CASE TestsEnd
  BY <1>23 DEF TestsEnd
<1>24. CASE CommitAbandoned
  BY <1>24 DEF CommitAbandoned
<1>25. CASE CommitRetries
  BY <1>25 DEF CommitRetries
<1>26. CASE EnterContext
  BY <1>26 DEF EnterContext, Enter
<1>27. CASE EnterGenerate
  BY <1>27 DEF EnterGenerate, Enter
<1>28. CASE EnterTest
  BY <1>28 DEF EnterTest, Enter
<1>29. CASE EnterCommit
  BY <1>29 DEF EnterCommit, Enter
<1> QED BY <1>1, <1>2, <1>3, <1>4, <1>5, <1>6, <1>7, <1>8, <1>9, <1>10, <1>11,
           <1>12, <1>13, <1>14, <1>15, <1>16, <1>17, <1>18, <1>19, <1>20,
           <1>21, <1>22, <1>23, <1>24, <1>25, <1>26, <1>27, <1>28, <1>29 DEF TaskNext

\* What a research or edit handler may do, and what it leaves alone.
LEMMA HandlerMoves ==
  ASSUME Handler
  PROVE  \/ Failing /\ landed' = landed
         \/ /\ results' = Append(results, "COMMIT") /\ pc' = "next"
            /\ pipeline' = pipeline
            /\ landed' = IF plan[idx] = "research" THEN landed \cup {idx}
                                                   ELSE landed
         \/ /\ results' = Append(results, "FAILED") /\ pc' = "end"
            /\ pipeline' = pipeline
            /\ landed' = landed
  BY EscapesFails DEF Handler, Bad
LEMMA HandlerFrame ==
  ASSUME Handler
  PROVE  /\ pc = "handler"
         /\ UNCHANGED <<plan, dryRun, idx, stop, interrupted, late, background,
                        verdict, reported>>
  BY DEF Handler, planVars, endVars

\* The control variables keep their types.
LEMMA ControlTypesStep ==
  ASSUME ControlTypes, Position, StageMatchesDriver, [Next]_vars
  PROVE  ControlTypes'
<1> USE DEF ControlTypes, Position, States, PCs, InTask, Passed, ResultStates, Kinds,
        AtEnd
<1>1. CASE TaskNext
  <2>1. results' \in Seq(ResultStates) /\ pipeline' \in States /\ pc' \in PCs
    <3>1. CASE Failing
      BY <3>1 DEF Failing, Bad
    <3>2. CASE Works
      BY <3>2 DEF Works
    <3> QED BY <1>1, <3>1, <3>2, TaskStep
  <2>2. background' \subseteq 1..Len(plan)
    <3>1. idx \in 1..Len(plan)
      BY <1>1, TaskFrame DEF Frame
    <3> QED BY <1>1, <3>1, TaskFrame DEF Frame
  <2>3. late' \in Nat /\ stop' \in BOOLEAN
    BY <1>1, TaskFrame DEF Frame
  <2>4. UNCHANGED <<plan, dryRun, idx, interrupted, landed, verdict, reported>>
    BY <1>1, TaskFrame DEF Frame
  <2> QED BY <2>1, <2>2, <2>3, <2>4
<1>2. CASE Start
  <2>1. /\ pipeline' \in {pipeline, "PARSING"} /\ results' = results
        /\ pc' \in {"enqueue", "raised"}
    BY <1>2 DEF Start, RunGo
  <2>2. UNCHANGED <<plan, dryRun, idx, stop, interrupted, late, landed, background,
                    verdict, reported>>
    BY <1>2 DEF Start, endVars, planVars, worldVars
  <2> QED BY <2>1, <2>2
<1>3. CASE Enqueue
  BY <1>3, Edges DEF Enqueue, RunGo, planVars, worldVars, CanGo
<1>4. CASE LoopDone
  BY <1>4, Edges DEF LoopDone, endVars, planVars, worldVars
<1>5. CASE Handler
  <2>1. results' \in Seq(ResultStates) /\ pipeline' \in States /\ pc' \in PCs
    <3>1. CASE Failing
      BY <3>1 DEF Failing, Bad
    <3>2. CASE pipeline' = pipeline /\ pc' \in PCs /\ \E s \in ResultStates :
          results' = Append(results, s)
      BY <3>2
    <3> QED BY <1>5, <3>1, <3>2, HandlerMoves
  <2>2. landed' \subseteq 1..Len(plan)
    <3>1. idx \in 1..Len(plan)
      BY <1>5, HandlerFrame
    <3> QED BY <1>5, <3>1, HandlerMoves
  <2> QED BY <1>5, <2>1, <2>2, HandlerFrame
<1>6. CASE TaskCommitted
  BY <1>6, Edges DEF TaskCommitted, RunGo, endVars, planVars, worldVars, CanGo
<1>7. CASE Advance
  BY <1>7, Edges DEF Advance, RunGo, endVars, planVars, worldVars, CanGo
<1>8. CASE CommitSucceeds
  BY <1>8, Edges DEF CommitSucceeds, endVars, planVars
<1>9. CASE \E p \in BOOLEAN : CommitFails(p)
  BY <1>9, Edges DEF CommitFails, endVars, planVars, worldVars
<1>10. CASE Finish
  BY <1>10, Edges DEF Finish, RunGo, AllCommitted, DoneTarget, planVars,
     worldVars, CanGo
<1>11. CASE Report
  BY <1>11, Edges DEF Report, planVars, worldVars
<1>12. CASE Interrupt
  BY <1>12, Edges DEF Interrupt, endVars, planVars, CanGo
<1>13. CASE TouchStop
  BY <1>13, Edges DEF TouchStop, endVars, planVars
<1>14. CASE BackgroundCommit
  BY <1>14, Edges DEF BackgroundCommit, endVars, planVars
<1>15. CASE UNCHANGED vars
  BY <1>15 DEF vars, planVars, worldVars, endVars
<1> QED BY <1>1, <1>2, <1>3, <1>4, <1>5, <1>6, <1>7, <1>8, <1>9, <1>10, <1>11,
           <1>12, <1>13, <1>14, <1>15 DEF Next, Driver, World, Done, TaskNext

\* Results and task index stay in step with the driver's position.
LEMMA PositionStep ==
  ASSUME ControlTypes, Position, StageMatchesDriver, [Next]_vars
  PROVE  Position'
<1> USE DEF ControlTypes, Position, States, InTask, Passed, ResultStates,
        AllCommitted, AtEnd
<1>1. CASE TaskNext
  <2>1. idx \in 1..Len(plan) /\ Len(results) = idx - 1 /\ AllCommitted
    BY <1>1, TaskFrame DEF Frame
  <2>2. UNCHANGED <<plan, idx>>
    BY <1>1, TaskFrame DEF Frame
  <2>3. CASE Failing
    BY <2>1, <2>2, <2>3 DEF Failing, Bad
  <2>4. CASE Works
    BY <2>1, <2>2, <2>4 DEF Works
  <2> QED BY <1>1, <2>3, <2>4, TaskStep
<1>2. CASE Start
  BY <1>2, Edges DEF Start, RunGo, endVars, planVars, worldVars, CanGo
<1>3. CASE Enqueue
  BY <1>3, Edges DEF Enqueue, RunGo, planVars, worldVars, CanGo
<1>4. CASE LoopDone
  <2>1. pipeline \in {"QUEUED", "NEXT"} \/ interrupted
    BY <1>4, Stages DEF LoopDone, StageMatchesDriver
  <2>2. UNCHANGED <<plan, pipeline, idx, results, interrupted>>
    BY <1>4 DEF LoopDone, planVars, worldVars
  <2> QED BY <1>4, <2>1, <2>2 DEF LoopDone
<1>5. CASE Handler
  <2>1. idx \in 1..Len(plan) /\ Len(results) = idx - 1 /\ AllCommitted /\ pc
        = "handler"
    BY <1>5, HandlerFrame
  <2>2. UNCHANGED <<plan, idx>> /\ pipeline # "NEXT"
    BY <1>5, HandlerFrame, Stages DEF StageMatchesDriver
  <2>3. CASE Failing
    BY <2>1, <2>2, <2>3 DEF Failing, Bad
  <2>4. CASE results' = Append(results, "COMMIT") /\ pc' = "next" /\
        pipeline' = pipeline
    BY <2>1, <2>2, <2>4
  <2>5. CASE results' = Append(results, "FAILED") /\ pc' = "end" /\ pipeline'
        = pipeline
    BY <2>1, <2>2, <2>5
  <2> QED BY <1>5, <2>3, <2>4, <2>5, HandlerMoves
<1>6. CASE TaskCommitted
  BY <1>6, Edges DEF TaskCommitted, RunGo, endVars, planVars, worldVars, CanGo
<1>7. CASE Advance
  BY <1>7, Edges DEF Advance, RunGo, endVars, planVars, worldVars, CanGo
<1>8. CASE CommitSucceeds
  BY <1>8, Edges DEF CommitSucceeds, endVars, planVars
<1>9. CASE \E p \in BOOLEAN : CommitFails(p)
  <2>1. results' = Append(results, "FAILED") /\ pc' = "end" /\ pc \in InTask
    BY <1>9 DEF CommitFails
  <2>2. UNCHANGED <<plan, idx, pipeline>>
    BY <1>9 DEF CommitFails, planVars
  <2>3. pipeline # "NEXT"
    BY <1>9, Stages DEF CommitFails, StageMatchesDriver
  <2> QED BY <2>1, <2>2, <2>3
<1>10. CASE Finish
  BY <1>10, Edges DEF Finish, RunGo, AllCommitted, DoneTarget, planVars,
     worldVars, CanGo
<1>11. CASE Report
  BY <1>11, Edges DEF Report, planVars, worldVars
<1>12. CASE Interrupt
  BY <1>12, Edges DEF Interrupt, endVars, planVars, CanGo
<1>13. CASE TouchStop
  BY <1>13, Edges DEF TouchStop, endVars, planVars
<1>14. CASE BackgroundCommit
  BY <1>14, Edges DEF BackgroundCommit, endVars, planVars
<1>15. CASE UNCHANGED vars
  BY <1>15 DEF vars, planVars, worldVars, endVars
<1> QED BY <1>1, <1>2, <1>3, <1>4, <1>5, <1>6, <1>7, <1>8, <1>9, <1>10, <1>11,
           <1>12, <1>13, <1>14, <1>15 DEF Next, Driver, World, Done, TaskNext

\* A COMMIT result of a code or research task has its commit behind it.
LEMMA LandedStep ==
  ASSUME ControlTypes, Position, Landed, StageMatchesDriver, [Next]_vars
  PROVE  Landed'
<1> USE DEF ControlTypes, Position, Landed, InTask, Passed, AllCommitted, AtEnd, Kinds
<1>1. CASE TaskNext
  <2>1. idx \in 1..Len(plan) /\ Len(results) = idx - 1 /\ AllCommitted
    BY <1>1, TaskFrame DEF Frame
  <2>2. UNCHANGED <<plan, idx, landed>> /\ background' \subseteq background
        \cup {idx}
    BY <1>1, TaskFrame DEF Frame
  <2>3. CASE Failing
    BY <2>1, <2>2, <2>3 DEF Failing, Bad
  <2>4. CASE Works
    BY <2>1, <2>2, <2>4 DEF Works
  <2> QED BY <1>1, <2>3, <2>4, TaskStep
<1>2. CASE Start
  BY <1>2, Edges DEF Start, RunGo, endVars, planVars, worldVars, CanGo
<1>3. CASE Enqueue
  BY <1>3, Edges DEF Enqueue, RunGo, planVars, worldVars, CanGo
<1>4. CASE LoopDone
  BY <1>4, Edges DEF LoopDone, endVars, planVars, worldVars
<1>5. CASE Handler
  <2>1. idx \in 1..Len(plan) /\ Len(results) = idx - 1 /\ pc = "handler" /\
        AllCommitted
    BY <1>5, HandlerFrame
  <2>2. UNCHANGED <<plan, idx, background>>
    BY <1>5, HandlerFrame
  <2>3. landed \subseteq landed' /\ landed' \subseteq landed \cup {idx}
    BY <1>5, HandlerMoves
  <2>4. CASE Failing
    BY <2>1, <2>2, <2>3, <2>4 DEF Failing, Bad
  <2>5. CASE results' = Append(results, "FAILED")
    BY <2>1, <2>2, <2>3, <2>5
  <2>7. plan[idx] \in {"research", "edit"}
    BY <2>1
  <2>6. CASE results' = Append(results, "COMMIT") /\ (plan[idx] = "research"
        => idx \in landed')
    BY <2>7, <2>1, <2>2, <2>3, <2>6
  <2> QED BY <1>5, <2>4, <2>5, <2>6, HandlerMoves
<1>6. CASE TaskCommitted
  BY <1>6, Edges DEF TaskCommitted, RunGo, endVars, planVars, worldVars, CanGo
<1>7. CASE Advance
  BY <1>7, Edges DEF Advance, RunGo, endVars, planVars, worldVars, CanGo
<1>8. CASE CommitSucceeds
  BY <1>8, Edges DEF CommitSucceeds, endVars, planVars
<1>9. CASE \E p \in BOOLEAN : CommitFails(p)
  BY <1>9, Edges DEF CommitFails, endVars, planVars, worldVars
<1>10. CASE Finish
  BY <1>10, Edges DEF Finish, RunGo, AllCommitted, DoneTarget, planVars,
     worldVars, CanGo
<1>11. CASE Report
  BY <1>11, Edges DEF Report, planVars, worldVars
<1>12. CASE Interrupt
  BY <1>12, Edges DEF Interrupt, endVars, planVars, CanGo
<1>13. CASE TouchStop
  BY <1>13, Edges DEF TouchStop, endVars, planVars
<1>14. CASE BackgroundCommit
  BY <1>14, Edges DEF BackgroundCommit, endVars, planVars
<1>15. CASE UNCHANGED vars
  BY <1>15 DEF vars, planVars, worldVars, endVars
<1> QED BY <1>1, <1>2, <1>3, <1>4, <1>5, <1>6, <1>7, <1>8, <1>9, <1>10, <1>11,
           <1>12, <1>13, <1>14, <1>15 DEF Next, Driver, World, Done, TaskNext

\* The verdict is given once, and truthfully.
LEMMA VerdictStep ==
  ASSUME ControlTypes, Position, Verdict, StageMatchesDriver, [Next]_vars
  PROVE  Verdict'
<1> USE DEF ControlTypes, Position, Verdict, Terminal, InTask, Passed, AllCommitted,
        AtEnd
<1>1. CASE TaskNext
  BY <1>1, TaskStep, TaskFrame, Edges DEF Frame, Failing, Works, Bad
<1>2. CASE Start
  BY <1>2, Edges DEF Start, RunGo, endVars, planVars, worldVars, CanGo
<1>3. CASE Enqueue
  BY <1>3, Edges DEF Enqueue, RunGo, planVars, worldVars, CanGo
<1>4. CASE LoopDone
  BY <1>4, Edges DEF LoopDone, endVars, planVars, worldVars
<1>5. CASE Handler
  BY <1>5, Edges DEF Handler, Escapes, endVars, planVars, CanGo
<1>6. CASE TaskCommitted
  BY <1>6, Edges DEF TaskCommitted, RunGo, endVars, planVars, worldVars, CanGo
<1>7. CASE Advance
  BY <1>7, Edges DEF Advance, RunGo, endVars, planVars, worldVars, CanGo
<1>8. CASE CommitSucceeds
  BY <1>8, Edges DEF CommitSucceeds, endVars, planVars
<1>9. CASE \E p \in BOOLEAN : CommitFails(p)
  BY <1>9, Edges DEF CommitFails, endVars, planVars, worldVars
<1>10. CASE Finish
  BY <1>10, Edges DEF Finish, RunGo, AllCommitted, DoneTarget, planVars,
     worldVars, CanGo
<1>11. CASE Report
  BY <1>11, Edges DEF Report, planVars, worldVars
<1>12. CASE Interrupt
  BY <1>12, Edges DEF Interrupt, endVars, planVars, CanGo
<1>13. CASE TouchStop
  BY <1>13, Edges DEF TouchStop, endVars, planVars
<1>14. CASE BackgroundCommit
  BY <1>14, Edges DEF BackgroundCommit, endVars, planVars
<1>15. CASE UNCHANGED vars
  BY <1>15 DEF vars, planVars, worldVars, endVars
<1> QED BY <1>1, <1>2, <1>3, <1>4, <1>5, <1>6, <1>7, <1>8, <1>9, <1>10, <1>11,
           <1>12, <1>13, <1>14, <1>15 DEF Next, Driver, World, Done, TaskNext

\* Driver and state machine stay in step.
LEMMA StageStep ==
  ASSUME ControlTypes, Position, StageMatchesDriver, [Next]_vars
  PROVE  StageMatchesDriver'
<1> USE DEF ControlTypes, Position, StageMatchesDriver, InTask, Passed, AtEnd
<1>1. CASE TaskNext
  <2>1. CASE Works
    BY <1>1, <2>1, TaskFrame DEF Works, Frame
  <2>2. CASE Failing
    <3>1. pipeline' \in {"FAILED", "CANCELLED"} /\ pc' = "end" => pipeline'
          \in StagesAt(pc')
      BY EndStages
    <3>2. CASE pc' = "raised" /\ pipeline' = pipeline /\ pipeline \in
          StagesAt(pc)
      BY <1>1, <2>2, <3>2, TaskFrame, Stages, EndStages, Edges DEF Frame,
         Failing, Bad, CanGo
    <3> QED BY <1>1, <2>2, <3>1, <3>2, TaskFrame DEF Frame, Failing, Bad
  <2> QED BY <1>1, <2>1, <2>2, TaskStep
<1>2. CASE Start
  BY <1>2, Stages, EndStages, Edges DEF planVars, Start, RunGo, CanGo,
     worldVars
<1>3. CASE Enqueue
  BY <1>3, Stages, EndStages, Edges DEF planVars, Enqueue, RunGo, CanGo,
     worldVars
<1>4. CASE LoopDone
  BY <1>4, Stages, EndStages, Edges DEF planVars, LoopDone, worldVars
<1>5. CASE Handler
  BY <1>5, HandlerMoves, HandlerFrame, Stages, EndStages, Edges DEF Failing,
     Bad, CanGo
<1>6. CASE TaskCommitted
  BY <1>6, Stages, EndStages, Edges DEF planVars, TaskCommitted, RunGo,
     CanGo, worldVars
<1>7. CASE Advance
  BY <1>7, Stages, EndStages, Edges DEF planVars, Advance, RunGo, CanGo,
     worldVars
<1>8. CASE CommitSucceeds
  BY <1>8, Stages, EndStages, Edges DEF planVars, CommitSucceeds
<1>9. CASE \E p \in BOOLEAN : CommitFails(p)
  BY <1>9, Stages, EndStages, Edges DEF planVars, CommitFails, worldVars
<1>10. CASE Finish
  BY <1>10, Stages, EndStages, Edges DEF planVars, Finish, RunGo, CanGo,
     DoneTarget, AllCommitted, worldVars
<1>11. CASE Report
  BY <1>11, Stages, EndStages, Edges DEF planVars, Report, worldVars
<1>12. CASE Interrupt
  BY <1>12, Stages, EndStages, Edges DEF planVars, Interrupt
<1>13. CASE TouchStop
  BY <1>13, Stages, EndStages, Edges DEF planVars, TouchStop
<1>14. CASE BackgroundCommit
  BY <1>14, Stages, EndStages, Edges DEF planVars, BackgroundCommit
<1>15. CASE UNCHANGED vars
  BY <1>15 DEF vars, planVars, worldVars, endVars
<1> QED BY <1>1, <1>2, <1>3, <1>4, <1>5, <1>6, <1>7, <1>8, <1>9, <1>10, <1>11,
           <1>12, <1>13, <1>14, <1>15 DEF Next, Driver, World, Done, TaskNext

-----------------------------------------------------------------------------
(* Counters.                                                               *)

\* Where the control operators send the driver.
LEMMA EscapesPc == ASSUME NEW s, Escapes(s) PROVE pc' \in AtEnd
  BY DEF Escapes, AtEnd
LEMMA ReturnsPc == ASSUME NEW s, Returns(s) PROVE pc' \in AtEnd
  BY DEF Returns, Escapes, AtEnd
LEMMA GoPc == ASSUME NEW s, NEW next, Go(s, next) PROVE pc' = next \/ pc' \in
      AtEnd
  BY DEF Go, Escapes, AtEnd
LEMMA LookPc == ASSUME NEW next, RaiseIfStopped(next) PROVE pc' = next \/
      pc' \in AtEnd
  BY DEF RaiseIfStopped, Escapes, AtEnd
LEMMA EnterPc == ASSUME NEW s, NEW next, Enter(s, next) PROVE
      (pc' = next \/ pc' \in AtEnd) /\ counted' = counted
  BY GoPc DEF Enter
LEMMA RunGoPc == ASSUME NEW s, NEW next, RunGo(s, next) PROVE pc' = next \/
      pc' \in AtEnd
  BY DEF RunGo, AtEnd

\* A fresh task's counters are typed.
LEMMA ResetTypes ==
  ASSUME ResetTask, CounterTypes, counted' = counted
  PROVE  CounterTypes'
<1>1. retries' \in [generate : 0..MaxRetriesGenerate,
                    test : 0..MaxRetriesTest,
                    commit : 0..MaxRetriesCommit]
  BY LimitsAssumption DEF ResetTask, NoRetries
<1>2. /\ replans' \in 0..MaxReplansPerTask
      /\ attempt' \in Nat /\ issued' \in Nat /\ counted' \in Nat
  BY LimitsAssumption DEF ResetTask, CounterTypes
<1>3. rechecked' \in BOOLEAN /\ escalated' \in BOOLEAN /\ green' \in BOOLEAN
  BY DEF ResetTask
<1> QED BY <1>1, <1>2, <1>3 DEF CounterTypes
\* The counters keep their types: the retry counters never pass their limits.
LEMMA CounterStep ==
  ASSUME CounterTypes, Ladder, [Next]_vars
  PROVE  CounterTypes'
<1> USE LimitsAssumption, EscapesPc, ReturnsPc, GoPc, LookPc, EnterPc,
        RunGoPc DEF
        CounterTypes, AtEnd, Ladder
<1>1. CASE Start
  BY <1>1 DEF Start, taskVars
<1>2. CASE Enqueue
  BY <1>2 DEF Enqueue, taskVars
<1>3. CASE LoopDone
  BY <1>3 DEF LoopDone, endVars, taskVars, worldVars
<1>4. CASE BudgetAbort
  BY <1>4 DEF BudgetAbort, taskVars
<1>5. CASE StartHandler
  BY <1>5, ResetTypes DEF StartHandler
<1>6. CASE StartCode
  BY <1>6, ResetTypes DEF StartCode
<1>7. CASE Handler
  BY <1>7 DEF Handler, taskVars
<1>8. CASE TaskCommitted
  BY <1>8 DEF TaskCommitted, taskVars
<1>9. CASE Advance
  BY <1>9 DEF Advance, taskVars
<1>10. CASE Context
  BY <1>10 DEF Context, taskVars
<1>11. CASE GenerateCancelled
  BY <1>11 DEF GenerateCancelled
<1>12. CASE GenerateFails
  <2>1. /\ rechecked' \in BOOLEAN
        /\ UNCHANGED <<retries, escalated, replans, green, counted>>
    BY <1>12 DEF GenerateFails
  <2>2. attempt' \in Nat /\ issued' \in Nat
    BY <1>12 DEF GenerateFails
  <2> QED BY <2>1, <2>2
<1>13. CASE \E e \in BOOLEAN : Generated(e)
  <2>1. /\ escalated' \in BOOLEAN
        /\ UNCHANGED <<retries, attempt, rechecked, replans, green>>
    BY <1>13 DEF Generated
  <2>2. issued' \in Nat /\ counted' \in Nat
    BY <1>13 DEF Generated
  <2> QED BY <2>1, <2>2
<1>14. CASE Escalate
  BY <1>14 DEF Escalate
<1>15. CASE ValidatePasses
  BY <1>15 DEF ValidatePasses, taskVars
<1>16. CASE ValidateFails
  BY <1>16 DEF ValidateFails, NextAttempt
<1>17. CASE ValidateRaises
  BY <1>17 DEF ValidateRaises, taskVars
<1>18. CASE Exhausted
  BY <1>18 DEF Exhausted
<1>19. CASE Brain
  BY <1>19 DEF Brain
<1>20. CASE Regenerate
  BY <1>20 DEF Regenerate
<1>21. CASE RevalidatePasses
  BY <1>21 DEF RevalidatePasses, taskVars
<1>22. CASE RevalidateFails
  BY <1>22 DEF RevalidateFails, taskVars
<1>23. CASE GiveUp
  BY <1>23 DEF GiveUp, taskVars
<1>24. CASE TestPasses
  BY <1>24 DEF TestPasses, TestsRemain
<1>25. CASE TestFails
  BY <1>25 DEF TestFails, TestsRemain
<1>26. CASE TestAborts
  BY <1>26 DEF TestAborts, TestsRemain, taskVars
<1>27. CASE Fix
  BY <1>27 DEF Fix
<1>28. CASE FixCheck
  BY <1>28 DEF FixCheck
<1>29. CASE TestsEnd
  BY <1>29 DEF TestsEnd, TestsRemain, taskVars
<1>30. CASE CommitAbandoned
  BY <1>30 DEF CommitAbandoned, taskVars
<1>31. CASE CommitSucceeds
  BY <1>31 DEF CommitSucceeds, taskVars
<1>32. CASE CommitRetries
  BY <1>32 DEF CommitRetries
<1>33. CASE \E p \in BOOLEAN : CommitFails(p)
  BY <1>33 DEF CommitFails, taskVars
<1>34. CASE Finish
  BY <1>34 DEF Finish, taskVars
<1>35. CASE Report
  BY <1>35 DEF Report, taskVars
<1>36. CASE Interrupt
  BY <1>36 DEF Interrupt, taskVars
<1>37. CASE TouchStop
  BY <1>37 DEF TouchStop, taskVars
<1>38. CASE BackgroundCommit
  BY <1>38 DEF BackgroundCommit, taskVars
<1>39. CASE UNCHANGED vars
  BY <1>39 DEF vars, taskVars
<1>40. CASE EnterContext
  BY <1>40 DEF EnterContext, taskVars
<1>41. CASE EnterGenerate
  BY <1>41 DEF EnterGenerate, taskVars
<1>42. CASE EnterTest
  BY <1>42 DEF EnterTest
<1>43. CASE EnterCommit
  BY <1>43 DEF EnterCommit, taskVars
<1> QED BY <1>1, <1>2, <1>3, <1>4, <1>5, <1>6, <1>7, <1>8, <1>9, <1>10, <1>11,
           <1>12, <1>13, <1>14, <1>15, <1>16, <1>17, <1>18, <1>19, <1>20,
           <1>21, <1>22, <1>23, <1>24, <1>25, <1>26, <1>27, <1>28, <1>29,
           <1>30, <1>31, <1>32, <1>33, <1>34, <1>35, <1>36, <1>37, <1>38,
           <1>39, <1>40, <1>41, <1>42, <1>43 DEF Next, Driver, World, Done
\* The loops count as Ladder says.
LEMMA LadderStep ==
  ASSUME CounterTypes, Ladder, [Next]_vars
  PROVE  Ladder'
<1> USE LimitsAssumption, EscapesPc, ReturnsPc, GoPc, LookPc, EnterPc,
        RunGoPc DEF
        CounterTypes, AtEnd, Ladder, CommitAfterTestBudget
<1>1. CASE Start
  BY <1>1 DEF Start, taskVars
<1>2. CASE Enqueue
  BY <1>2 DEF Enqueue, taskVars
<1>3. CASE LoopDone
  BY <1>3 DEF LoopDone, endVars, taskVars, worldVars
<1>4. CASE BudgetAbort
  BY <1>4 DEF BudgetAbort, taskVars
<1>5. CASE StartHandler
  BY <1>5 DEF StartHandler, ResetTask, NoRetries
<1>6. CASE StartCode
  BY <1>6 DEF StartCode, ResetTask, NoRetries
<1>7. CASE Handler
  BY <1>7 DEF Handler, taskVars
<1>8. CASE TaskCommitted
  BY <1>8 DEF TaskCommitted, taskVars
<1>9. CASE Advance
  BY <1>9 DEF Advance, taskVars
<1>10. CASE Context
  BY <1>10 DEF Context, taskVars
<1>11. CASE GenerateCancelled
  BY <1>11 DEF GenerateCancelled
<1>12. CASE GenerateFails
  <2>1. \/ pc' = "generate" /\ attempt + 1 < MaxRetriesGenerate
        \/ pc' \in {"exhausted"} \cup AtEnd
    BY <1>12 DEF GenerateFails, NextAttempt
  <2>2. UNCHANGED <<retries, replans>> /\ attempt' \in {attempt, attempt + 1}
    BY <1>12 DEF GenerateFails
  <2> QED BY <1>12, <2>1, <2>2 DEF GenerateFails
<1>13. CASE \E e \in BOOLEAN : Generated(e)
  <2>1. pc' \in {"escalate", "validate"} \cup AtEnd
    BY <1>13 DEF Generated
  <2> QED BY <1>13, <2>1 DEF Generated
<1>14. CASE Escalate
  BY <1>14 DEF Escalate
<1>15. CASE ValidatePasses
  BY <1>15 DEF ValidatePasses, taskVars
<1>16. CASE ValidateFails
  BY <1>16 DEF ValidateFails, NextAttempt
<1>17. CASE ValidateRaises
  BY <1>17 DEF ValidateRaises, taskVars
<1>18. CASE Exhausted
  BY <1>18 DEF Exhausted
<1>19. CASE Brain
  BY <1>19 DEF Brain
<1>20. CASE Regenerate
  BY <1>20 DEF Regenerate
<1>21. CASE RevalidatePasses
  BY <1>21 DEF RevalidatePasses, taskVars
<1>22. CASE RevalidateFails
  BY <1>22 DEF RevalidateFails, taskVars
<1>23. CASE GiveUp
  BY <1>23 DEF GiveUp, taskVars
<1>24. CASE TestPasses
  BY <1>24 DEF TestPasses, TestsRemain
<1>25. CASE TestFails
  BY <1>25 DEF TestFails, TestsRemain
<1>26. CASE TestAborts
  BY <1>26 DEF TestAborts, TestsRemain, taskVars
<1>27. CASE Fix
  BY <1>27 DEF Fix
<1>28. CASE FixCheck
  BY <1>28 DEF FixCheck
<1>29. CASE TestsEnd
  BY <1>29 DEF TestsEnd, TestsRemain, taskVars
<1>30. CASE CommitAbandoned
  BY <1>30 DEF CommitAbandoned, taskVars
<1>31. CASE CommitSucceeds
  BY <1>31 DEF CommitSucceeds, taskVars
<1>32. CASE CommitRetries
  BY <1>32 DEF CommitRetries
<1>33. CASE \E p \in BOOLEAN : CommitFails(p)
  BY <1>33 DEF CommitFails, taskVars
<1>34. CASE Finish
  BY <1>34 DEF Finish, taskVars
<1>35. CASE Report
  BY <1>35 DEF Report, taskVars
<1>36. CASE Interrupt
  BY <1>36 DEF Interrupt, taskVars
<1>37. CASE TouchStop
  BY <1>37 DEF TouchStop, taskVars
<1>38. CASE BackgroundCommit
  BY <1>38 DEF BackgroundCommit, taskVars
<1>39. CASE UNCHANGED vars
  BY <1>39 DEF vars, taskVars
<1>40. CASE EnterContext
  BY <1>40 DEF EnterContext, taskVars
<1>41. CASE EnterGenerate
  BY <1>41 DEF EnterGenerate, taskVars
<1>42. CASE EnterTest
  BY <1>42 DEF EnterTest
<1>43. CASE EnterCommit
  BY <1>43 DEF EnterCommit, taskVars
<1> QED BY <1>1, <1>2, <1>3, <1>4, <1>5, <1>6, <1>7, <1>8, <1>9, <1>10, <1>11,
           <1>12, <1>13, <1>14, <1>15, <1>16, <1>17, <1>18, <1>19, <1>20,
           <1>21, <1>22, <1>23, <1>24, <1>25, <1>26, <1>27, <1>28, <1>29,
           <1>30, <1>31, <1>32, <1>33, <1>34, <1>35, <1>36, <1>37, <1>38,
           <1>39, <1>40, <1>41, <1>42, <1>43 DEF Next, Driver, World, Done
\* The calls of a task stay within what its position allows.
LEMMA CallsStep ==
  ASSUME CounterTypes, Ladder, Calls, [Next]_vars
  PROVE  Calls'
<1> USE LimitsAssumption, EscapesPc, ReturnsPc, GoPc, LookPc, EnterPc,
        RunGoPc DEF
        CounterTypes, AtEnd, Calls, Ladder, Escalation, CallsPerTaskBounded
<1>1. CASE Start
  BY <1>1 DEF Start, taskVars
<1>2. CASE Enqueue
  BY <1>2 DEF Enqueue, taskVars
<1>3. CASE LoopDone
  BY <1>3 DEF LoopDone, endVars, taskVars, worldVars
<1>4. CASE BudgetAbort
  BY <1>4 DEF BudgetAbort, taskVars
<1>5. CASE StartHandler
  BY <1>5 DEF StartHandler, ResetTask, NoRetries
<1>6. CASE StartCode
  BY <1>6 DEF StartCode, ResetTask, NoRetries
<1>7. CASE Handler
  BY <1>7 DEF Handler, taskVars
<1>8. CASE TaskCommitted
  BY <1>8 DEF TaskCommitted, taskVars
<1>9. CASE Advance
  BY <1>9 DEF Advance, taskVars
<1>10. CASE Context
  BY <1>10 DEF Context, taskVars
<1>11. CASE GenerateCancelled
  BY <1>11 DEF GenerateCancelled
<1>12. CASE GenerateFails
  BY <1>12 DEF GenerateFails, NextAttempt
<1>13. CASE \E e \in BOOLEAN : Generated(e)
  <2>1. pc' \in {"escalate", "validate"} \cup AtEnd
    BY <1>13 DEF Generated
  <2>2. pc' = "escalate" => escalated'
    BY <1>13 DEF Generated
  <2>3. pc' = "validate" => escalated' = escalated
    BY <1>13 DEF Generated
  <2> QED BY <1>13, <2>1, <2>2, <2>3 DEF Generated
<1>14. CASE Escalate
  BY <1>14 DEF Escalate
<1>15. CASE ValidatePasses
  BY <1>15 DEF ValidatePasses, taskVars
<1>16. CASE ValidateFails
  BY <1>16 DEF ValidateFails, NextAttempt
<1>17. CASE ValidateRaises
  BY <1>17 DEF ValidateRaises, taskVars
<1>18. CASE Exhausted
  BY <1>18 DEF Exhausted
<1>19. CASE Brain
  BY <1>19 DEF Brain
<1>20. CASE Regenerate
  BY <1>20 DEF Regenerate
<1>21. CASE RevalidatePasses
  BY <1>21 DEF RevalidatePasses, taskVars
<1>22. CASE RevalidateFails
  BY <1>22 DEF RevalidateFails, taskVars
<1>23. CASE GiveUp
  BY <1>23 DEF GiveUp, taskVars
<1>24. CASE TestPasses
  BY <1>24 DEF TestPasses, TestsRemain
<1>25. CASE TestFails
  BY <1>25 DEF TestFails, TestsRemain
<1>26. CASE TestAborts
  BY <1>26 DEF TestAborts, TestsRemain, taskVars
<1>27. CASE Fix
  BY <1>27 DEF Fix
<1>28. CASE FixCheck
  BY <1>28 DEF FixCheck
<1>29. CASE TestsEnd
  BY <1>29 DEF TestsEnd, TestsRemain, taskVars
<1>30. CASE CommitAbandoned
  BY <1>30 DEF CommitAbandoned, taskVars
<1>31. CASE CommitSucceeds
  BY <1>31 DEF CommitSucceeds, taskVars
<1>32. CASE CommitRetries
  BY <1>32 DEF CommitRetries
<1>33. CASE \E p \in BOOLEAN : CommitFails(p)
  BY <1>33 DEF CommitFails, taskVars
<1>34. CASE Finish
  BY <1>34 DEF Finish, taskVars
<1>35. CASE Report
  BY <1>35 DEF Report, taskVars
<1>36. CASE Interrupt
  BY <1>36 DEF Interrupt, taskVars
<1>37. CASE TouchStop
  BY <1>37 DEF TouchStop, taskVars
<1>38. CASE BackgroundCommit
  BY <1>38 DEF BackgroundCommit, taskVars
<1>39. CASE UNCHANGED vars
  BY <1>39 DEF vars, taskVars
<1>40. CASE EnterContext
  BY <1>40 DEF EnterContext, taskVars
<1>41. CASE EnterGenerate
  BY <1>41 DEF EnterGenerate, taskVars
<1>42. CASE EnterTest
  BY <1>42 DEF EnterTest
<1>43. CASE EnterCommit
  BY <1>43 DEF EnterCommit, taskVars
<1> QED BY <1>1, <1>2, <1>3, <1>4, <1>5, <1>6, <1>7, <1>8, <1>9, <1>10, <1>11,
           <1>12, <1>13, <1>14, <1>15, <1>16, <1>17, <1>18, <1>19, <1>20,
           <1>21, <1>22, <1>23, <1>24, <1>25, <1>26, <1>27, <1>28, <1>29,
           <1>30, <1>31, <1>32, <1>33, <1>34, <1>35, <1>36, <1>37, <1>38,
           <1>39, <1>40, <1>41, <1>42, <1>43 DEF Next, Driver, World, Done
\* The run's call counter stays within what the driver's position allows.
LEMMA CountsStep ==
  ASSUME CounterTypes, Ladder, Counts, [Next]_vars
  PROVE  Counts'
<1> USE LimitsAssumption, EscapesPc, ReturnsPc, GoPc, LookPc, EnterPc,
        RunGoPc DEF
        CounterTypes, AtEnd, Counts, BudgetOvershootBounded, OverBudget
<1>1. CASE Start
  BY <1>1 DEF Start, taskVars
<1>2. CASE Enqueue
  BY <1>2 DEF Enqueue, taskVars
<1>3. CASE LoopDone
  BY <1>3 DEF LoopDone, endVars, taskVars, worldVars
<1>4. CASE BudgetAbort
  BY <1>4 DEF BudgetAbort, taskVars
<1>5. CASE StartHandler
  BY <1>5 DEF StartHandler, ResetTask, NoRetries
<1>6. CASE StartCode
  BY <1>6 DEF StartCode, ResetTask, NoRetries
<1>7. CASE Handler
  BY <1>7 DEF Handler, taskVars
<1>8. CASE TaskCommitted
  BY <1>8 DEF TaskCommitted, taskVars
<1>9. CASE Advance
  BY <1>9 DEF Advance, taskVars
<1>10. CASE Context
  BY <1>10 DEF Context, taskVars
<1>11. CASE GenerateCancelled
  BY <1>11 DEF GenerateCancelled
<1>12. CASE GenerateFails
  BY <1>12 DEF GenerateFails, NextAttempt
<1>13. CASE \E e \in BOOLEAN : Generated(e)
  <2>1. pc' \in {"escalate", "validate"} \cup AtEnd
    BY <1>13 DEF Generated
  <2>2. pc = "generate" /\ counted' = counted + 1 /\ replans' = replans
    BY <1>13 DEF Generated
  <2>3. MaxLlmCalls > 0 /\ counted + 1 >= MaxLlmCalls => pc' \in AtEnd
    BY <1>13, <2>2 DEF Generated
  <2> QED BY <2>1, <2>2, <2>3
<1>14. CASE Escalate
  BY <1>14 DEF Escalate
<1>15. CASE ValidatePasses
  BY <1>15 DEF ValidatePasses, taskVars
<1>16. CASE ValidateFails
  BY <1>16 DEF ValidateFails, NextAttempt
<1>17. CASE ValidateRaises
  BY <1>17 DEF ValidateRaises, taskVars
<1>18. CASE Exhausted
  BY <1>18 DEF Exhausted
<1>19. CASE Brain
  BY <1>19 DEF Brain
<1>20. CASE Regenerate
  BY <1>20 DEF Regenerate
<1>21. CASE RevalidatePasses
  BY <1>21 DEF RevalidatePasses, taskVars
<1>22. CASE RevalidateFails
  BY <1>22 DEF RevalidateFails, taskVars
<1>23. CASE GiveUp
  BY <1>23 DEF GiveUp, taskVars
<1>24. CASE TestPasses
  BY <1>24 DEF TestPasses, TestsRemain
<1>25. CASE TestFails
  BY <1>25 DEF TestFails, TestsRemain
<1>26. CASE TestAborts
  BY <1>26 DEF TestAborts, TestsRemain, taskVars
<1>27. CASE Fix
  BY <1>27 DEF Fix
<1>28. CASE FixCheck
  BY <1>28 DEF FixCheck
<1>29. CASE TestsEnd
  BY <1>29 DEF TestsEnd, TestsRemain, taskVars
<1>30. CASE CommitAbandoned
  BY <1>30 DEF CommitAbandoned, taskVars
<1>31. CASE CommitSucceeds
  BY <1>31 DEF CommitSucceeds, taskVars
<1>32. CASE CommitRetries
  BY <1>32 DEF CommitRetries
<1>33. CASE \E p \in BOOLEAN : CommitFails(p)
  BY <1>33 DEF CommitFails, taskVars
<1>34. CASE Finish
  BY <1>34 DEF Finish, taskVars
<1>35. CASE Report
  BY <1>35 DEF Report, taskVars
<1>36. CASE Interrupt
  BY <1>36 DEF Interrupt, taskVars
<1>37. CASE TouchStop
  BY <1>37 DEF TouchStop, taskVars
<1>38. CASE BackgroundCommit
  BY <1>38 DEF BackgroundCommit, taskVars
<1>39. CASE UNCHANGED vars
  BY <1>39 DEF vars, taskVars
<1>40. CASE EnterContext
  BY <1>40 DEF EnterContext, taskVars
<1>41. CASE EnterGenerate
  BY <1>41 DEF EnterGenerate, taskVars
<1>42. CASE EnterTest
  BY <1>42 DEF EnterTest
<1>43. CASE EnterCommit
  BY <1>43 DEF EnterCommit, taskVars
<1> QED BY <1>1, <1>2, <1>3, <1>4, <1>5, <1>6, <1>7, <1>8, <1>9, <1>10, <1>11,
           <1>12, <1>13, <1>14, <1>15, <1>16, <1>17, <1>18, <1>19, <1>20,
           <1>21, <1>22, <1>23, <1>24, <1>25, <1>26, <1>27, <1>28, <1>29,
           <1>30, <1>31, <1>32, <1>33, <1>34, <1>35, <1>36, <1>37, <1>38,
           <1>39, <1>40, <1>41, <1>42, <1>43 DEF Next, Driver, World, Done

-----------------------------------------------------------------------------
(* The stop-file.                                                          *)

\* What a step does about the stop-file: it stays; a driver gets past a look
\* only without it; a stage is entered only from behind such a look.
Obeys ==
    /\ stop => stop'
    /\ pc' \in Passed => ~stop \/ pc' = pc
    /\ \/ late' = late
       \/ pc \in Passed /\ pc' \notin Passed /\ stop /\ late' = late + 1

LEMMA StepObeys ==
  ASSUME [Next]_vars
  PROVE  Obeys
<1> USE EscapesPc, ReturnsPc, GoPc, RunGoPc DEF Obeys, Passed, AtEnd, worldVars
<1>1. CASE Start
  BY <1>1 DEF Start
<1>2. CASE Enqueue
  BY <1>2 DEF Enqueue
<1>3. CASE LoopDone
  BY <1>3 DEF LoopDone
<1>4. CASE BudgetAbort
  BY <1>4 DEF BudgetAbort
<1>5. CASE StartHandler
  BY <1>5 DEF StartHandler
<1>6. CASE StartCode
  BY <1>6 DEF StartCode, RaiseIfStopped
<1>7. CASE Handler
  BY <1>7 DEF Handler
<1>8. CASE TaskCommitted
  BY <1>8 DEF TaskCommitted
<1>9. CASE Advance
  BY <1>9 DEF Advance
<1>10. CASE Context
  BY <1>10 DEF Context, RaiseIfStopped
<1>11. CASE GenerateCancelled
  BY <1>11 DEF GenerateCancelled
<1>12. CASE GenerateFails
  BY <1>12 DEF GenerateFails, NextAttempt
<1>13. CASE \E e \in BOOLEAN : Generated(e)
  BY <1>13 DEF Generated
<1>14. CASE Escalate
  BY <1>14 DEF Escalate
<1>15. CASE ValidatePasses
  BY <1>15 DEF ValidatePasses, RaiseIfStopped
<1>16. CASE ValidateFails
  BY <1>16 DEF ValidateFails, NextAttempt
<1>17. CASE ValidateRaises
  BY <1>17 DEF ValidateRaises
<1>18. CASE Exhausted
  BY <1>18 DEF Exhausted
<1>19. CASE Brain
  BY <1>19 DEF Brain
<1>20. CASE Regenerate
  BY <1>20 DEF Regenerate
<1>21. CASE RevalidatePasses
  BY <1>21 DEF RevalidatePasses, RaiseIfStopped
<1>22. CASE RevalidateFails
  BY <1>22 DEF RevalidateFails
<1>23. CASE GiveUp
  BY <1>23 DEF GiveUp
<1>24. CASE TestPasses
  BY <1>24 DEF TestPasses
<1>25. CASE TestFails
  BY <1>25 DEF TestFails
<1>26. CASE TestAborts
  BY <1>26 DEF TestAborts
<1>27. CASE Fix
  BY <1>27 DEF Fix
<1>28. CASE FixCheck
  BY <1>28 DEF FixCheck
<1>29. CASE TestsEnd
  BY <1>29 DEF TestsEnd, RaiseIfStopped
<1>30. CASE CommitAbandoned
  BY <1>30 DEF CommitAbandoned
<1>31. CASE CommitSucceeds
  BY <1>31 DEF CommitSucceeds
<1>32. CASE CommitRetries
  BY <1>32 DEF CommitRetries
<1>33. CASE \E p \in BOOLEAN : CommitFails(p)
  BY <1>33 DEF CommitFails
<1>34. CASE Finish
  BY <1>34 DEF Finish
<1>35. CASE Report
  BY <1>35 DEF Report
<1>36. CASE Interrupt
  BY <1>36 DEF Interrupt
<1>37. CASE TouchStop
  BY <1>37 DEF TouchStop
<1>38. CASE BackgroundCommit
  BY <1>38 DEF BackgroundCommit
<1>39. CASE UNCHANGED vars
  BY <1>39 DEF vars
<1>40. CASE EnterContext
  BY <1>40 DEF EnterContext, Enter
<1>41. CASE EnterGenerate
  BY <1>41 DEF EnterGenerate, Enter
<1>42. CASE EnterTest
  BY <1>42 DEF EnterTest, Enter
<1>43. CASE EnterCommit
  BY <1>43 DEF EnterCommit, Enter
<1> QED BY <1>1, <1>2, <1>3, <1>4, <1>5, <1>6, <1>7, <1>8, <1>9,
           <1>10, <1>11, <1>12, <1>13, <1>14, <1>15, <1>16, <1>17, <1>18,
           <1>19, <1>20, <1>21, <1>22, <1>23, <1>24, <1>25, <1>26, <1>27,
           <1>28, <1>29, <1>30, <1>31, <1>32, <1>33, <1>34, <1>35, <1>36,
           <1>37, <1>38, <1>39, <1>40, <1>41, <1>42, <1>43
        DEF Next, Driver, World, Done

\* At most one stage is entered late.
LEMMA StoppedStep ==
  ASSUME ControlTypes, Stopped, [Next]_vars
  PROVE  Stopped'
  BY StepObeys DEF Obeys, Stopped, ControlTypes

-----------------------------------------------------------------------------
(* The invariant and the theorems.                                         *)

\* TypeOK is the conjunction of its two halves.
LEMMA TypeHalves == TypeOK <=> ControlTypes /\ CounterTypes
  BY DEF TypeOK, ControlTypes, CounterTypes

\* Every run starts in the invariant.
LEMMA InitInvariant == Init => IInv
<1> SUFFICES ASSUME Init PROVE IInv
  OBVIOUS
<1> USE LimitsAssumption, PlansAssumption DEF Init
<1>1. CounterTypes
  <2>1. retries \in [generate : 0..MaxRetriesGenerate,
                     test : 0..MaxRetriesTest,
                     commit : 0..MaxRetriesCommit]
    BY DEF NoRetries
  <2>2. replans \in 0..MaxReplansPerTask
    OBVIOUS
  <2>3. /\ rechecked \in BOOLEAN /\ escalated \in BOOLEAN
        /\ green \in BOOLEAN
    OBVIOUS
  <2>4. attempt \in Nat /\ issued \in Nat /\ counted \in Nat
    OBVIOUS
  <2> QED BY <2>1, <2>2, <2>3, <2>4 DEF CounterTypes
<1>2. ControlTypes
  <2>1. plan \in Seq(Kinds)
    OBVIOUS
  <2>2. /\ dryRun \in BOOLEAN /\ stop \in BOOLEAN
        /\ interrupted \in BOOLEAN /\ reported \in BOOLEAN
    OBVIOUS
  <2>3. /\ pipeline \in States /\ pc \in PCs
        /\ verdict \in {"none", "success", "failure"}
    BY DEF States, PCs
  <2>4. /\ idx \in Nat \ {0} /\ late \in Nat /\ results \in Seq(ResultStates)
        /\ landed \subseteq 1..Len(plan) /\ background \subseteq 1..Len(plan)
    OBVIOUS
  <2> QED BY <2>1, <2>2, <2>3, <2>4 DEF ControlTypes
<1>3. Position /\ Landed /\ Verdict
  BY DEF Position, Landed, Verdict, InTask, Passed, AtEnd, AllCommitted
<1>4. StageMatchesDriver
  BY Stages DEF StageMatchesDriver
<1>5. Ladder
  BY DEF Ladder, CommitAfterTestBudget
<1>6. Calls
  BY DEF Calls, CallsPerTaskBounded
<1>7. Counts
  BY DEF Counts, BudgetOvershootBounded
<1>8. Stopped
  BY DEF Stopped
<1> QED BY <1>1, <1>2, <1>3, <1>4, <1>5, <1>6, <1>7, <1>8, TypeHalves DEF IInv

\* Every step keeps it.
LEMMA StepInvariant == IInv /\ [Next]_vars => IInv'
<1> SUFFICES ASSUME IInv, [Next]_vars PROVE IInv'
  OBVIOUS
<1>1. /\ ControlTypes /\ CounterTypes /\ Position /\ Landed /\ Verdict
      /\ StageMatchesDriver /\ Ladder /\ Calls /\ Counts /\ Stopped
  BY TypeHalves DEF IInv
<1>2. ControlTypes' /\ CounterTypes'
  BY <1>1, ControlTypesStep, CounterStep
<1>3. TypeOK'
  BY <1>2, TypeHalves, PTL
<1>4. Position' /\ Landed' /\ Verdict' /\ StageMatchesDriver'
  BY <1>1, PositionStep, LandedStep, VerdictStep, StageStep
<1>5. Ladder' /\ Calls' /\ Counts'
  BY <1>1, LadderStep, CallsStep, CountsStep
<1>6. Stopped'
  BY <1>1, StoppedStep
<1> QED BY <1>3, <1>4, <1>5, <1>6 DEF IInv

\* The inductive invariant holds in every reachable state.
THEOREM Invariant == Spec => []IInv
<1>1. Init => IInv
  BY InitInvariant
<1>2. IInv /\ [Next]_vars => IInv'
  BY StepInvariant
<1> QED BY <1>1, <1>2, PTL DEF Spec

\* Type correctness: no variable leaves its type and no retry counter of a
\* task passes the limit EngineConfig sets for it.
THEOREM TypeCorrect == Spec => []TypeOK
<1>1. IInv => TypeOK
  BY DEF IInv
<1> QED BY <1>1, Invariant, PTL

\* A success verdict means that every task of the plan committed, and that
\* every code and research task has a successful commit behind it.
THEOREM SuccessEarned == Spec => []SuccessIsEarned
<1>1. IInv => SuccessIsEarned
  BY DEF IInv, Landed, Verdict, SuccessIsEarned, AllCommitted
<1> QED BY <1>1, Invariant, PTL

\* Tasks run in order and the first one that fails is the last one.
THEOREM FirstFailureStops == Spec => []StopsAtFirstFailure
<1>1. IInv => StopsAtFirstFailure
  <2> SUFFICES ASSUME IInv PROVE StopsAtFirstFailure
    OBVIOUS
  <2>1. Len(results) \in Nat
    BY DEF IInv, TypeOK
  <2> QED BY <2>1 DEF IInv, Landed, StopsAtFirstFailure
<1> QED BY <1>1, Invariant, PTL

\* Driver and state machine never drift apart but by a SIGINT.
THEOREM StagesMatch == Spec => []StageMatchesDriver
<1>1. IInv => StageMatchesDriver
  BY DEF IInv
<1> QED BY <1>1, Invariant, PTL

\* Code reaches COMMIT with green tests or with its test attempts spent.
THEOREM TestBudgetSpent == Spec => []CommitAfterTestBudget
<1>1. IInv => CommitAfterTestBudget
  BY DEF IInv, Ladder
<1> QED BY <1>1, Invariant, PTL

\* The nested retry ladders of a task make a bounded number of LLM calls.
THEOREM TaskCallsBounded == Spec => []CallsPerTaskBounded
<1>1. IInv => CallsPerTaskBounded
  BY DEF IInv, Calls
<1> QED BY <1>1, Invariant, PTL

\* The call counter overshoots its cap by one task's unchecked calls at most.
THEOREM OvershootBounded == Spec => []BudgetOvershootBounded
<1>1. IInv => BudgetOvershootBounded
  BY DEF IInv, Counts, BudgetOvershootBounded
<1> QED BY <1>1, Invariant, PTL

\* With the stop-file there at most one more guarded stage is entered, by a
\* driver whose look at it came just before, and no further look is passed.
THEOREM StopBlocks == Spec => []StopBlocksStages
<1>1. IInv => StopBlocksStages
  BY DEF IInv, Stopped, StopBlocksStages
<1> QED BY <1>1, Invariant, PTL

-----------------------------------------------------------------------------
(* The steps, as the contract sees them. *)

Underway == pc \in InTask \/ (pc = "loop" /\ idx <= Len(plan))

CallerFrame == UNCHANGED <<plan, dryRun, interrupted, verdict>>

\* While a task is under way the caller has clean results, and too few.
LEMMA UnderwayClean ==
  ASSUME ControlTypes, Position, Verdict, Underway
  PROVE  /\ pc \notin {"returned", "raised"} /\ verdict = "none"
         /\ AllCommitted /\ Len(results) < Len(plan)
  BY DEF ControlTypes, Position, Verdict, Underway, InTask, Passed

\* What the contract sees of a task that ends: one more result.
LEMMA ResultEndsTask ==
  ASSUME ControlTypes, Position, Verdict, Underway, CallerFrame,
         NEW s \in Contract!Outcomes, results' = Append(results, s),
         \/ pc' \notin {"returned", "raised"}
         \/ pc' = "raised" /\ s # "COMMIT"
  PROVE  Contract!Next
<1>1. Contract!EndTask(s)
  BY UnderwayClean DEF Contract!EndTask, Contract!Clean, AllCommitted,
     StatusOf, CallerFrame
<1> QED BY <1>1 DEF Contract!Next

LEMMA FailsEndsTask ==
  ASSUME ControlTypes, Position, Verdict, Underway, CallerFrame, Failing
  PROVE  Contract!Next
<1>1. PICK s \in Bad :
        /\ results' = Append(results, s)
        /\ \/ pc' = "end" /\ pipeline' = s
           \/ pc' = "raised" /\ pipeline' = pipeline /\ ~CanGo(s)
  BY DEF Failing
<1>2. s \in Contract!Outcomes /\ s # "COMMIT"
  BY DEF Bad, Contract!Outcomes
<1>3. pc' \notin {"returned", "raised"} \/ (pc' = "raised" /\ s # "COMMIT")
  BY <1>1, <1>2
<1> QED BY <1>1, <1>2, <1>3, ResultEndsTask

\* What it sees of a task that goes on: nothing.
LEMMA WorksStutters ==
  ASSUME Underway, CallerFrame, Works
  PROVE  UNCHANGED Contract!vars
<1>1. pc \notin {"returned", "raised"} /\ pc' \notin {"returned", "raised"}
  BY DEF Underway, Works, InTask, Passed
<1> QED BY <1>1 DEF CallerFrame, Works, Contract!vars, StatusOf

\* Every step of the engine is one step of the contract, or none.
LEMMA StepContract ==
  ASSUME IInv, [Next]_vars
  PROVE  [Contract!Next]_(Contract!vars)
<1>1. /\ ControlTypes /\ Position /\ Verdict /\ StageMatchesDriver
  BY TypeHalves DEF IInv
<1>2. CASE TaskNext
  <2>1. pipeline \in States /\ Underway /\ CallerFrame
    BY <1>1, <1>2, TaskFrame DEF ControlTypes, Frame, Underway, CallerFrame
  <2> QED BY <1>1, <1>2, <2>1, TaskStep, FailsEndsTask, WorksStutters
<1>3. CASE Start
  BY <1>1, <1>3 DEF Start, RunGo, endVars, planVars, worldVars, Verdict,
     StatusOf, Contract!Next, Contract!Crash, Contract!vars
<1>4. CASE Enqueue
  BY <1>1, <1>4, Edges DEF Enqueue, RunGo, CanGo, planVars, worldVars,
     Verdict, Position, StatusOf, Contract!Next, Contract!Crash,
     Contract!DryRun, Contract!vars
<1>5. CASE LoopDone
  BY <1>5 DEF LoopDone, endVars, planVars, worldVars, StatusOf, Contract!vars
<1>6. CASE Handler
  <2>1. Underway /\ CallerFrame
    BY <1>6, HandlerFrame DEF Underway, CallerFrame, InTask, Passed
  <2>2. {"COMMIT", "FAILED"} \subseteq Contract!Outcomes
    BY DEF Contract!Outcomes
  <2>3. \/ Failing
        \/ results' = Append(results, "COMMIT") /\ pc' = "next"
        \/ results' = Append(results, "FAILED") /\ pc' = "end"
    BY <1>6, HandlerMoves
  <2> QED BY <1>1, <2>1, <2>2, <2>3, FailsEndsTask, ResultEndsTask
<1>7. CASE TaskCommitted
  BY <1>1, <1>7 DEF TaskCommitted, RunGo, endVars, planVars, worldVars,
     Verdict, StatusOf, Contract!Next, Contract!Crash, Contract!vars
<1>8. CASE Advance
  BY <1>1, <1>8 DEF Advance, RunGo, endVars, planVars, worldVars, Verdict,
     StatusOf, Contract!Next, Contract!Crash, Contract!vars
<1>9. CASE CommitSucceeds
  <2>1. Underway /\ CallerFrame
    BY <1>9 DEF CommitSucceeds, Underway, CallerFrame, InTask, Passed, planVars,
       endVars
  <2>2. "COMMIT" \in Contract!Outcomes
    BY DEF Contract!Outcomes
  <2>3. results' = Append(results, "COMMIT") /\ pc' = "next"
    BY <1>9 DEF CommitSucceeds
  <2> QED BY <1>1, <2>1, <2>2, <2>3, ResultEndsTask
<1>10. CASE \E p \in BOOLEAN : CommitFails(p)
  <2>1. Underway /\ CallerFrame
    BY <1>10 DEF CommitFails, Underway, CallerFrame, InTask, Passed, planVars,
       worldVars, endVars
  <2>2. "FAILED" \in Contract!Outcomes
    BY DEF Contract!Outcomes
  <2>3. results' = Append(results, "FAILED") /\ pc' = "end"
    BY <1>10 DEF CommitFails
  <2> QED BY <1>1, <2>1, <2>2, <2>3, ResultEndsTask
<1>11. CASE Finish
  <2>1. /\ pc = "end" /\ verdict = "none"
        /\ AllCommitted => Len(results) = Len(plan)
        /\ AllCommitted => pipeline \in {"QUEUED", "NEXT"} \/ interrupted
        /\ UNCHANGED <<plan, dryRun, results, interrupted>>
    BY <1>1, <1>11 DEF Finish, RunGo, Position, Verdict, planVars, worldVars
  <2>2. CASE pc' = "raised"
    BY <1>11, <2>1, <2>2 DEF Finish, Contract!Next, Contract!Crash, StatusOf
  <2>3. CASE pc' = "report"
    <3>1. verdict' = "success" => AllCommitted /\ Len(results) = Len(plan)
      BY <1>11, <2>1, <2>3 DEF Finish, AllCommitted
    <3>2. verdict' = "failure" => ~AllCommitted \/ interrupted
      <4>1. ASSUME AllCommitted, ~interrupted PROVE pipeline' = "DONE"
        <5>1. pipeline \in {"QUEUED", "NEXT"}
          BY <2>1, <4>1
        <5>2. DoneTarget = "DONE"
          BY <1>1, <2>1, <4>1 DEF DoneTarget, ControlTypes
        <5> QED BY <1>11, <2>3, <4>1, <5>1, <5>2 DEF Finish, RunGo
      <4>2. AllCommitted' = AllCommitted
        BY <2>1 DEF AllCommitted
      <4> QED BY <1>11, <2>1, <2>3, <4>1, <4>2 DEF Finish
    <3>3. verdict' \in {"success", "failure"}
      BY <1>11, <2>3 DEF Finish
    <3>4. Contract!Decide(verdict')
      BY <2>1, <2>3, <3>1, <3>2, <3>3 DEF Contract!Decide, Contract!Clean,
         AllCommitted, StatusOf
    <3> QED BY <3>3, <3>4 DEF Contract!Next
  <2>4. pc' \in {"raised", "report"}
    BY <1>11 DEF Finish, RunGo
  <2> QED BY <2>2, <2>3, <2>4
<1>12. CASE Report
  <2>1. verdict # "none"
    BY <1>1, <1>12 DEF Report, Verdict, Position
  <2> QED BY <1>12, <2>1 DEF Report, planVars, worldVars, StatusOf,
           Contract!Next, Contract!Return
<1>13. CASE Interrupt
  BY <1>13 DEF Interrupt, Ended, planVars, endVars, StatusOf, Contract!Next,
     Contract!Interrupt
<1>14. CASE TouchStop
  BY <1>14 DEF TouchStop, planVars, endVars, StatusOf, Contract!vars
<1>15. CASE BackgroundCommit
  BY <1>15 DEF BackgroundCommit, planVars, endVars, StatusOf, Contract!vars
<1>16. CASE UNCHANGED vars
  BY <1>16 DEF vars, planVars, worldVars, endVars, StatusOf, Contract!vars
<1> QED BY <1>2, <1>3, <1>4, <1>5, <1>6, <1>7, <1>8, <1>9, <1>10, <1>11,
           <1>12, <1>13, <1>14, <1>15, <1>16
        DEF Next, Driver, World, Done, TaskNext

\* Engine.run gives its caller what RunContract promises: results in plan
\* order up to the first failure, one verdict that tells the truth about
\* them, and none after a crash.
THEOREM EngineImplementsContract == Spec => ImplementsContract
<1>1. Init => Contract!Init
  BY DEF Init, Contract!Init, StatusOf
<1>2. IInv /\ [Next]_vars => [Contract!Next]_(Contract!vars)
  BY StepContract
<1> QED BY <1>1, <1>2, Invariant, PTL
        DEF Spec, ImplementsContract, Contract!Spec

-----------------------------------------------------------------------------
(***************************************************************************)
(* The commits of a sequence of engine runs, for any number of runs, plans *)
(* and retries.  Main stays clean while every checkout succeeds, abandoned *)
(* commit threads included.  Without abandoned threads one worker at a     *)
(* time works on the repository: then undoing an attempt drops only the    *)
(* commit it has made itself, and (with fewer faults) what is reported is  *)
(* at Gitea.                                                               *)
(***************************************************************************)

\* What may fail is settled before the first run.
LEMMA SettingStays ==
  ASSUME [RepoNext]_repo
  PROVE  setting' = setting
<1>1. CASE UNCHANGED repo
  BY <1>1 DEF repo, driverVars
<1>2. ASSUME NEW r \in RunIds, StartTask(r) \/ EndRun(r) \/ Abandon(r)
      PROVE  setting' = setting
  BY <1>2 DEF StartTask, StageCode, StageStopped, Research, Edit, EditGate, EndRun,
              Abandon, RunEnds, Claim, driverVars
<1>3. ASSUME NEW r \in RunIds, CommitStep(r) PROVE setting' = setting
  BY <1>3 DEF CommitStep, Checkout, WriteFiles, GitAdd, GitCommits, GitCommitFails,
              NothingStaged, RevParse, EnsureOrigin, Push, PushFails, UndoStaged,
              UndoCommit, Continue, Succeeds, Fails, Claim, RunEnds, driverVars
<1> QED
  BY <1>1, <1>2, <1>3 DEF RepoNext

-----------------------------------------------------------------------------
(* Main. *)

Early == {"none", "checkout", "write", "branch"}

\* Past its second checkout a worker is on the branch of some run.
OffMain ==
    /\ DOMAIN refs = 0 .. Runs /\ DOMAIN worker = RunIds
    /\ \A r \in RunIds : worker[r] \in Early \/ head # 0

\* What a step may do to the branches without touching main.
LEMMA OffMainKept ==
  ASSUME Runs \in Nat, OffMain, NEW r \in RunIds, NEW c,
         \/ worker' = worker
         \/ worker' = [worker EXCEPT ![r] = c] /\ (c \in Early \/ head' # 0),
         \/ UNCHANGED <<head, refs>>
         \/ CheckedOut(r)
         \/ head # 0 /\ head' = head /\ \E b : refs' = [refs EXCEPT ![head] = b]
  PROVE  OffMain' /\ MainKept
<1>1. r # 0 /\ (head # 0 => head' # 0)
  BY DEF RunIds, CheckedOut
<1>2. DOMAIN refs' = 0 .. Runs /\ refs'[0] = refs[0]
  BY <1>1 DEF OffMain, CheckedOut
<1>3. DOMAIN worker' = RunIds
  BY DEF OffMain
<1>4. ASSUME NEW q \in RunIds PROVE worker'[q] \in Early \/ head' # 0
  BY <1>1 DEF OffMain
<1> QED
  BY <1>2, <1>3, <1>4 DEF OffMain, MainKept

LEMMA OffMainStep ==
  ASSUME "checkout" \notin setting.faults, Runs \in Nat, OffMain, [RepoNext]_repo
  PROVE  OffMain' /\ MainKept
<1> USE DEF Early
<1>1. CASE UNCHANGED repo
  BY <1>1 DEF repo, driverVars, repoVars, OffMain, MainKept
<1>2. ASSUME NEW r \in RunIds, StartTask(r) PROVE OffMain' /\ MainKept
  <2>1. UNCHANGED <<head, refs>> \/ CheckedOut(r)
    BY <1>2 DEF StartTask, StageCode, StageStopped, Research, Edit, EditGate,
                repoVars, May
  <2>2. \/ worker' = worker \/ worker' = [worker EXCEPT ![r] = "checkout"]
        \/ worker' = [worker EXCEPT ![r] = "branch"]
    BY <1>2 DEF StartTask, StageCode, StageStopped, Research, Edit, EditGate
  <2> QED
    BY <2>1, <2>2, OffMainKept
<1>3. ASSUME NEW r \in RunIds, EndRun(r) \/ Abandon(r)
      PROVE  OffMain' /\ MainKept
  BY <1>3, OffMainKept DEF EndRun, Abandon, repoVars
<1>4. ASSUME NEW r \in RunIds, CommitStep(r) PROVE OffMain' /\ MainKept
  <2>1. CASE Checkout(r, "checkout", "write") \/ Checkout(r, "branch", "add")
    <3>1. CheckedOut(r) /\ head' # 0
      BY <2>1 DEF Checkout, CheckedOut, May, RunIds
    <3>2. \/ worker' = [worker EXCEPT ![r] = "write"]
          \/ worker' = [worker EXCEPT ![r] = "add"]
      BY <2>1 DEF Checkout, Continue
    <3> QED
      BY <3>1, <3>2, OffMainKept
  <2>2. CASE WriteFiles(r)
    BY <2>2, OffMainKept DEF WriteFiles, Continue
  <2>3. ASSUME worker[r] \notin Early, UNCHANGED <<head, refs>>,
               \E c : worker' = [worker EXCEPT ![r] = c]
        PROVE  OffMain' /\ MainKept
    BY <2>3, OffMainKept DEF OffMain
  <2>4. CASE GitAdd(r)
    BY <2>3, <2>4 DEF GitAdd, Continue, At
  <2>5. CASE NothingStaged(r) \/ EnsureOrigin(r) \/ PushFails(r)
    BY <2>3, <2>5 DEF NothingStaged, EnsureOrigin, PushFails, Continue, At,
                      repoVars
  <2>6. CASE RevParse(r)
    BY <2>3, <2>6 DEF RevParse, Succeeds, repoVars
  <2>7. CASE Push(r)
    BY <2>3, <2>7 DEF Push, Continue, At
  <2>8. ASSUME worker[r] \notin Early, head' = head,
               \E b : refs' = [refs EXCEPT ![head] = b],
               \E c : worker' = [worker EXCEPT ![r] = c]
        PROVE  OffMain' /\ MainKept
    BY <2>8, OffMainKept DEF OffMain
  <2>9. CASE GitCommits(r) \/ GitCommitFails(r)
    <3>1. worker[r] \notin Early /\ \E c : worker' = [worker EXCEPT ![r] = c]
      BY <2>9 DEF GitCommits, GitCommitFails, At, Continue
    <3>2. CASE AddCommit
      BY <3>1, <3>2, <2>8 DEF AddCommit
    <3>3. CASE UNCHANGED repoVars
      BY <3>1, <3>3, <2>3 DEF repoVars
    <3> QED
      BY <2>9, <3>2, <3>3 DEF GitCommits, GitCommitFails
  <2>10. CASE UndoStaged(r) \/ UndoCommit(r)
    <3>1. worker[r] \notin Early
      BY <2>10 DEF UndoStaged, UndoCommit, At
    <3>2. \E p : Fails(r, p)
      BY <2>10 DEF UndoStaged, UndoCommit
    <3>3. \E c : worker' = [worker EXCEPT ![r] = c]
      BY <3>2 DEF Fails
    <3>4. UNCHANGED repoVars \/ \E b : ResetTo(b)
      BY <2>10 DEF UndoStaged, UndoCommit
    <3>5. CASE UNCHANGED repoVars
      BY <3>1, <3>3, <3>5, <2>3 DEF repoVars
    <3>6. CASE \E b : ResetTo(b)
      BY <3>1, <3>3, <3>6, <2>8 DEF ResetTo
    <3> QED
      BY <3>4, <3>5, <3>6
  <2> QED
    BY <1>4, <2>1, <2>2, <2>4, <2>5, <2>6, <2>7, <2>9, <2>10 DEF CommitStep
<1> QED
  BY <1>1, <1>2, <1>3, <1>4 DEF RepoNext

\* Main never moves (the branches of a run are all that a run writes), for any
\* number of runs and threads, and whatever fails, as long as no checkout does.
THEOREM MainIsOnlyRead ==
  ASSUME Runs \in Nat
  PROVE  RepoSpec => MainStaysClean
<1> DEFINE Inv == "checkout" \notin setting.faults => OffMain
<1>1. RepoInit => Inv
  BY DEF RepoInit, OffMain, Early
<1>2. Inv /\ [RepoNext]_repo => Inv'
  BY OffMainStep, SettingStays
<1>3. Inv /\ [RepoNext]_repo => ("checkout" \notin setting.faults => MainKept)
  BY OffMainStep
<1> QED
  BY <1>1, <1>2, <1>3, PTL DEF RepoSpec, MainStaysClean

-----------------------------------------------------------------------------
(* One attempt at a time: no wait for a commit is given up.                *)

Tasks == [kind : TaskKinds, item : Items]
PlansAreTasks == \A s \in Settings : s.plans \subseteq Seq(Tasks)

Commit == [id : Nat, items : SUBSET Items]

\* Between the commit and the answer to its push.
Unpushed == {"origin", "push", "undoLast", "undoFinal"}

\* Only the current run works on the repository, for one of its tasks.
DriverInv ==
    /\ plans \in [RunIds -> Seq(Tasks)]
    /\ run \in 1 .. Runs + 1
    /\ task \in [RunIds -> Nat \ {0}]
    /\ detached = {}
    /\ worker \in [RunIds -> Commands \cup {"none"}]
    /\ \A r \in RunIds : worker[r] # "none" => r = run /\ task[r] <= Len(plans[r])

\* The branches of the runs that come are not made yet.
RepoInv ==
    /\ head \in 0 .. Runs /\ head <= run
    /\ refs \in [0 .. Runs -> Seq(Commit)]
    /\ \A b \in 0 .. Runs : head < b => refs[b] = <<>>
    /\ index \subseteq Items /\ disk \subseteq Items
    /\ serial \in Nat
    /\ \A b \in 0 .. Runs : \A i \in 1 .. Len(refs[b]) : refs[b][i].id <= serial

\* The tip of an attempt that has committed is its own commit, unclaimed.
FreshInv ==
    /\ \A c \in claims : c.sha \in 0 .. serial
    /\ \A r \in RunIds : worker[r] \in Unpushed =>
         /\ refs[head] # <<>> /\ Last(refs[head]).id = serial
         /\ \A c \in claims : c.sha # serial

WorkInv == DriverInv /\ RepoInv /\ FreshInv

LEMMA DriverGoesOn ==
  ASSUME Runs \in Nat, DriverInv, NEW r \in RunIds, r = run,
         plans' = plans, detached' = detached,
         \/ /\ task[r] <= Len(plans[r])
            /\ run' = run /\ task' = task
            /\ \E c \in Commands : worker' = [worker EXCEPT ![r] = c]
         \/ /\ worker' = [worker EXCEPT ![r] = "none"]
            /\ \/ run' = run + 1 /\ task' = task
               \/ run' = run /\ task' = [task EXCEPT ![r] = @ + 1]
  PROVE  DriverInv'
<1>1. run' \in 1 .. Runs + 1
  BY DEF DriverInv, RunIds
<1>4. task' \in [RunIds -> Nat \ {0}]
  <2>1. task[r] \in Nat \ {0} /\ task[r] + 1 \in Nat \ {0}
    BY DEF DriverInv
  <2> QED
    BY <2>1 DEF DriverInv
<1>2. worker' \in [RunIds -> Commands \cup {"none"}]
  BY DEF DriverInv
<1>3. ASSUME NEW q \in RunIds, worker'[q] # "none"
      PROVE  q = run' /\ task'[q] <= Len(plans'[q])
  BY <1>3 DEF DriverInv
<1> QED
  BY <1>1, <1>2, <1>3, <1>4 DEF DriverInv

LEMMA RepoGoesOn ==
  ASSUME Runs \in Nat, RepoInv, NEW r \in RunIds, r = run, run' \in {run, run + 1},
         \/ UNCHANGED <<head, refs>>
         \/ CheckedOut(r)
         \/ /\ head' = head
            /\ \E b \in Seq(Commit) :
                 /\ refs' = [refs EXCEPT ![head] = b]
                 /\ \A i \in 1 .. Len(b) : b[i].id <= serial',
         index' \subseteq Items, disk' \subseteq Items,
         serial' \in Nat, serial <= serial'
  PROVE  RepoInv'
<1>1. head' \in 0 .. Runs /\ head' <= run'
  BY DEF RepoInv, CheckedOut, RunIds
<1>2. refs' \in [0 .. Runs -> Seq(Commit)]
  BY DEF RepoInv, CheckedOut, RunIds
<1>3. ASSUME NEW b \in 0 .. Runs, head' < b PROVE refs'[b] = <<>>
  BY <1>3 DEF RepoInv, CheckedOut, RunIds
<1>4. ASSUME NEW b \in 0 .. Runs, NEW i \in 1 .. Len(refs'[b])
      PROVE  refs'[b][i].id <= serial'
  <2>1. \A a \in 0 .. Runs : \A j \in 1 .. Len(refs[a]) :
          refs[a] \in Seq(Commit) /\ refs[a][j].id \in Nat /\ refs[a][j].id <= serial
    <3> SUFFICES ASSUME NEW a \in 0 .. Runs, NEW j \in 1 .. Len(refs[a])
                 PROVE  refs[a] \in Seq(Commit) /\ refs[a][j].id \in Nat
                        /\ refs[a][j].id <= serial
      OBVIOUS
    <3>1. refs[a] \in Seq(Commit) /\ refs[a][j].id <= serial
      BY DEF RepoInv
    <3>2. refs[a][j] \in Commit
      BY <3>1
    <3> QED
      BY <3>1, <3>2 DEF Commit
  <2>2. serial \in Nat
    BY DEF RepoInv
  <2>3. CASE UNCHANGED <<head, refs>>
    BY <2>1, <2>2, <2>3
  <2>4. CASE CheckedOut(r)
    <3>1. head \in 0 .. Runs /\ refs'[b] \in {refs[b], refs[head]}
      BY <2>4 DEF RepoInv, CheckedOut, RunIds
    <3> QED
      BY <2>1, <2>2, <3>1
  <2>5. CASE \E s \in Seq(Commit) : /\ refs' = [refs EXCEPT ![head] = s]
                                    /\ \A j \in 1 .. Len(s) : s[j].id <= serial'
    <3>1. PICK s \in Seq(Commit) : /\ refs' = [refs EXCEPT ![head] = s]
                                   /\ \A j \in 1 .. Len(s) : s[j].id <= serial'
      BY <2>5
    <3>2. refs'[b] = s \/ refs'[b] = refs[b]
      BY <3>1 DEF RepoInv
    <3> QED
      BY <2>1, <2>2, <3>1, <3>2
  <2> QED
    BY <2>3, <2>4, <2>5
<1> QED
  BY <1>1, <1>2, <1>3, <1>4 DEF RepoInv

\* Steps that make no commit and no claim.
LEMMA FreshGoesOn ==
  ASSUME Runs \in Nat, FreshInv, UNCHANGED <<claims, serial>>,
         \A r \in RunIds : worker'[r] \in Unpushed =>
           worker[r] \in Unpushed /\ refs'[head'] = refs[head]
  PROVE  FreshInv'
BY DEF FreshInv

\* The commits of a branch, by their SHAs.
LEMMA ShasAre ==
  ASSUME NEW s \in Seq(Commit)
  PROVE  Shas(s) = {s[i].id : i \in 1 .. Len(s)}
BY DEF Shas, ToSet

\* What a claim may name stays where it is.
LEMMA WorkStays ==
  ASSUME Runs \in Nat, WorkInv, NEW r \in RunIds, r = run,
         \/ UNCHANGED refs
         \/ CheckedOut(r)
         \/ \E b \in Seq(Commit) :
              /\ refs' = [refs EXCEPT ![head] = b]
              /\ \A c \in claims : c.sha \in Shas(refs[head]) => c.sha \in Shas(b)
  PROVE  WorkKept
<1> SUFFICES ASSUME NEW c \in claims, NEW b \in 0 .. Runs, c.sha \in Shas(refs[b])
             PROVE  c.sha \in Shas(refs'[b])
  BY DEF WorkKept
<1>1. refs \in [0 .. Runs -> Seq(Commit)] /\ head \in 0 .. Runs /\ head <= r
  BY DEF WorkInv, RepoInv
<1>2. CASE UNCHANGED refs
  BY <1>2
<1>3. CASE CheckedOut(r)
  <2>1. CASE b = r
    <3>1. refs[r] # <<>>
      <4>1. CASE refs[r] = <<>>
        <5>1. Shas(refs[r]) = {}
          BY <4>1 DEF Shas, ToSet
        <5> QED
          BY <2>1, <5>1
      <4> QED
        BY <4>1
    <3>2. head = r
      BY <1>1, <3>1 DEF WorkInv, RepoInv, RunIds
    <3> QED
      BY <1>1, <1>3, <2>1, <3>2 DEF CheckedOut
  <2>2. CASE b # r
    BY <1>1, <1>3, <2>2 DEF CheckedOut
  <2> QED
    BY <2>1, <2>2
<1>4. CASE \E s \in Seq(Commit) :
             /\ refs' = [refs EXCEPT ![head] = s]
             /\ \A d \in claims : d.sha \in Shas(refs[head]) => d.sha \in Shas(s)
  BY <1>1, <1>4
<1> QED
  BY <1>2, <1>3, <1>4

\* The command a thread is at is the current run's.
LEMMA OneWorker ==
  ASSUME DriverInv, NEW r \in RunIds, worker[r] # "none"
  PROVE  /\ r = run /\ task[r] <= Len(plans[r])
         /\ Current(r) \in Tasks
         /\ \A q \in RunIds : q # r => worker[q] = "none"
<1>1. r = run /\ task[r] <= Len(plans[r]) /\ task[r] \in 1 .. Len(plans[r])
  BY DEF DriverInv
<1>2. plans[r] \in Seq(Tasks)
  BY DEF DriverInv
<1> QED
  BY <1>1, <1>2 DEF DriverInv, Current

LEMMA DriverIsIdle ==
  ASSUME DriverInv, NEW r \in RunIds, Driving(r)
  PROVE  r = run /\ \A q \in RunIds : worker[q] = "none"
BY DEF DriverInv, Driving, Working

LEMMA FailsDrives ==
  ASSUME Runs \in Nat, DriverInv, NEW r \in RunIds, NEW p,
         worker[r] # "none", Fails(r, p)
  PROVE  /\ DriverInv' /\ claims' = claims /\ run' \in {run, run + 1}
         /\ worker'[r] \in {"none", "checkout"} /\ task' = task
         /\ \A q \in RunIds : q # r => worker'[q] = "none"
<1>1. r = run /\ task[r] <= Len(plans[r]) /\ r \notin detached
  BY OneWorker DEF DriverInv
<1>2. \A q \in RunIds : q # r => worker[q] = "none"
  BY OneWorker
<1>3. CASE /\ worker' = [worker EXCEPT ![r] = "checkout"]
           /\ UNCHANGED <<plans, run, task, detached, claims>>
  <2>1. \E c \in Commands : worker' = [worker EXCEPT ![r] = c]
    BY <1>3 DEF Commands
  <2>2. DriverInv'
    BY <1>1, <1>3, <2>1, DriverGoesOn
  <2> QED
    BY <1>2, <1>3, <2>2 DEF DriverInv
<1>4. CASE /\ worker' = [worker EXCEPT ![r] = "none"]
           /\ run' = run + 1 /\ UNCHANGED <<plans, task, detached, claims>>
  <2>1. DriverInv'
    BY <1>1, <1>4, DriverGoesOn
  <2> QED
    BY <1>2, <1>4, <2>1 DEF DriverInv
<1> QED
  BY <1>1, <1>3, <1>4 DEF Fails, RunEnds

LEMMA ClaimDrives ==
  ASSUME Runs \in Nat, DriverInv, FreshInv, NEW r \in RunIds, r = run,
         \A q \in RunIds : q # r => worker[q] = "none",
         worker' = [worker EXCEPT ![r] = "none"],
         NEW n \in 0 .. serial, Claim(r, n), serial' = serial
  PROVE  DriverInv' /\ FreshInv' /\ run' = run
<1>1. DriverInv' /\ run' = run
  BY DriverGoesOn DEF Claim
<1>2. \A c \in claims' : c.sha \in 0 .. serial'
  BY DEF Claim, FreshInv
<1>3. \A q \in RunIds : worker'[q] = "none"
  BY DEF DriverInv
<1> QED
  BY <1>1, <1>2, <1>3 DEF FreshInv, Unpushed

\* The next command of an attempt.
LEMMA Continues ==
  ASSUME Runs \in Nat, DriverInv, NEW r \in RunIds, worker[r] # "none",
         NEW c \in Commands, Continue(r, c)
  PROVE  /\ DriverInv' /\ claims' = claims /\ run' = run /\ task' = task
         /\ plans' = plans /\ worker'[r] = c
         /\ \A q \in RunIds : q # r => worker'[q] = "none"
<1>1. r = run /\ task[r] <= Len(plans[r])
      /\ \A q \in RunIds : q # r => worker[q] = "none"
  BY OneWorker
<1>2. UNCHANGED <<plans, run, task, detached, claims>>
  BY DEF Continue, driverVars
<1>3. worker' = [worker EXCEPT ![r] = c]
  BY DEF Continue
<1>4. DriverInv'
  BY <1>1, <1>2, <1>3, DriverGoesOn
<1> QED
  BY <1>1, <1>2, <1>3, <1>4 DEF DriverInv

\* What git commit adds.
LEMMA CommitAdds ==
  ASSUME Runs \in Nat, RepoInv, AddCommit
  PROVE  /\ serial' = serial + 1 /\ head' = head
         /\ Append(refs[head], [id |-> serial + 1, items |-> index]) \in Seq(Commit)
         /\ refs'[head] = Append(refs[head], [id |-> serial + 1, items |-> index])
         /\ refs' = [refs EXCEPT ![head] = refs'[head]]
         /\ \A i \in 1 .. Len(refs'[head]) : refs'[head][i].id <= serial'
         /\ Shas(refs[head]) \subseteq Shas(refs'[head])
<1> DEFINE k == [id |-> serial + 1, items |-> index]
<1>1. k \in Commit
  BY DEF RepoInv, Commit
<1>2. head \in 0 .. Runs /\ refs[head] \in Seq(Commit) /\ serial \in Nat
  BY DEF RepoInv
<1>3. refs' = [refs EXCEPT ![head] = Append(refs[head], k)] /\ head' = head
      /\ serial' = serial + 1
  BY DEF AddCommit
<1>4. refs'[head] = Append(refs[head], k)
  BY <1>2, <1>3 DEF RepoInv
<1>5. Append(refs[head], k) \in Seq(Commit)
  BY <1>1, <1>2
<1>6. ASSUME NEW i \in 1 .. Len(refs[head]) + 1
      PROVE  /\ Append(refs[head], k)[i] = IF i <= Len(refs[head]) THEN refs[head][i] ELSE k
  BY <1>1, <1>2
<1>7. Len(Append(refs[head], k)) = Len(refs[head]) + 1
  BY <1>1, <1>2
<1>8. ASSUME NEW i \in 1 .. Len(refs'[head]) PROVE refs'[head][i].id <= serial'
  <2>1. i \in 1 .. Len(refs[head]) + 1
    BY <1>4, <1>7
  <2>2. CASE i <= Len(refs[head])
    <3>1. refs[head][i] \in Commit /\ refs[head][i].id <= serial
      BY <1>2, <2>1, <2>2 DEF RepoInv
    <3> QED
      BY <1>2, <1>3, <1>4, <1>6, <2>1, <2>2, <3>1 DEF Commit
  <2>3. CASE ~(i <= Len(refs[head]))
    BY <1>2, <1>3, <1>4, <1>6, <2>1, <2>3
  <2> QED
    BY <2>2, <2>3
<1>9. Shas(refs[head]) \subseteq Shas(refs'[head])
  <2> SUFFICES ASSUME NEW x \in Shas(refs[head]) PROVE x \in Shas(refs'[head])
    OBVIOUS
  <2>1. PICK i \in 1 .. Len(refs[head]) : x = refs[head][i].id
    BY <1>2, ShasAre
  <2>2. i \in 1 .. Len(refs'[head]) /\ refs'[head][i] = refs[head][i]
    BY <1>2, <1>4, <1>6, <1>7, <2>1
  <2> QED
    BY <1>4, <1>5, <2>1, <2>2, ShasAre
<1> QED
  BY <1>3, <1>4, <1>5, <1>8, <1>9

\* What git reset --hard leaves.
LEMMA ResetLeaves ==
  ASSUME Runs \in Nat, RepoInv, refs[head] # <<>>,
         NEW b \in {refs[head], Front(refs[head])}, ResetTo(b)
  PROVE  /\ b \in Seq(Commit) /\ refs' = [refs EXCEPT ![head] = b]
         /\ head' = head /\ serial' = serial
         /\ index' \subseteq Items /\ disk' \subseteq Items
         /\ \A i \in 1 .. Len(b) : b[i] = refs[head][i] /\ b[i].id <= serial'
         /\ Len(b) <= Len(refs[head])
         /\ \A x \in Shas(refs[head]) : x # Last(refs[head]).id => x \in Shas(b)
<1> DEFINE s == refs[head]
<1>1. s \in Seq(Commit) /\ head \in 0 .. Runs /\ Len(s) > 0
  BY DEF RepoInv
<1>4. /\ b \in Seq(Commit) /\ Len(b) <= Len(s)
      /\ \A i \in 1 .. Len(b) : b[i] = s[i]
      /\ \A x \in Shas(s) : x # Last(s).id => x \in Shas(b)
  <2>1. CASE b = Front(s)
    <3>1. /\ b \in Seq(Commit) /\ Len(b) = Len(s) - 1
          /\ \A i \in 1 .. Len(b) : b[i] = s[i]
      BY <1>1, <2>1 DEF Front
    <3>2. ASSUME NEW x \in Shas(s), x # Last(s).id PROVE x \in Shas(b)
      <4>1. PICK i \in 1 .. Len(s) : x = s[i].id
        BY <1>1, <3>2, ShasAre
      <4>2. i \in 1 .. Len(b)
        BY <1>1, <3>1, <3>2, <4>1 DEF Last
      <4> QED
        BY <3>1, <4>1, <4>2, ShasAre
    <3> QED
      BY <1>1, <3>1, <3>2
  <2>2. CASE b = s
    BY <1>1, <2>2
  <2> QED
    BY <2>1, <2>2
<1>5. refs' = [refs EXCEPT ![head] = b] /\ head' = head /\ serial' = serial
  BY DEF ResetTo
<1>6. index' \subseteq Items
  <2>1. CASE b = <<>>
    BY <2>1 DEF ResetTo
  <2>2. CASE b # <<>>
    <3>1. Last(b) \in Commit
      BY <1>4, <2>2 DEF Last
    <3> QED
      BY <2>2, <3>1 DEF ResetTo, Commit
  <2> QED
    BY <2>1, <2>2
<1>7. disk' \subseteq index' \cup disk
  BY DEF ResetTo
<1>8. \A i \in 1 .. Len(b) : b[i].id <= serial'
  BY <1>1, <1>4, <1>5 DEF RepoInv
<1> QED
  BY <1>4, <1>5, <1>6, <1>7, <1>8 DEF RepoInv

LEMMA TipIsKnown ==
  ASSUME Runs \in Nat, RepoInv
  PROVE  Sha(head) \in 0 .. serial
<1>1. head \in 0 .. Runs /\ refs[head] \in Seq(Commit) /\ serial \in Nat
  BY DEF RepoInv
<1>2. CASE refs[head] = <<>>
  BY <1>1, <1>2 DEF Sha, NoSha
<1>3. CASE refs[head] # <<>>
  <2>1. Len(refs[head]) \in 1 .. Len(refs[head])
    BY <1>1, <1>3
  <2>2. refs[head][Len(refs[head])] \in Commit
    BY <1>1, <2>1
  <2>3. refs[head][Len(refs[head])].id <= serial
    BY <1>1, <2>1 DEF RepoInv
  <2> QED
    BY <1>1, <1>3, <2>2, <2>3 DEF Sha, Last, Commit
<1> QED
  BY <1>2, <1>3

\* Steps that touch at most the files and the checked-out branch.
LEMMA FilesOnly ==
  ASSUME Runs \in Nat, WorkInv, NEW r \in RunIds, r = run, run' \in {run, run + 1},
         UNCHANGED <<head, refs>> \/ CheckedOut(r),
         serial' = serial, index' \subseteq Items, disk' \subseteq Items
  PROVE  RepoInv' /\ WorkKept
<1>1. serial' \in Nat /\ serial <= serial'
  BY DEF WorkInv, RepoInv
<1>2. RepoInv'
  BY <1>1, RepoGoesOn DEF WorkInv
<1>3. WorkKept
  BY WorkStays
<1> QED
  BY <1>2, <1>3

LEMMA StartTaskWorks ==
  ASSUME Runs \in Nat, WorkInv,
         NEW r \in RunIds, StartTask(r)
  PROVE  WorkInv' /\ WorkKept
<1>1. /\ DriverInv /\ RepoInv /\ FreshInv /\ r = run /\ task[r] <= Len(plans[r])
      /\ \A q \in RunIds : worker[q] = "none"
      /\ index \subseteq Items /\ disk \subseteq Items
  BY DriverIsIdle DEF StartTask, WorkInv, RepoInv
<1>2. Current(r).item \in Items
  <2>1. task[r] \in 1 .. Len(plans[r]) /\ plans[r] \in Seq(Tasks)
    BY <1>1 DEF DriverInv
  <2>2. plans[r][task[r]] \in Tasks
    BY <2>1
  <2> QED
    BY <2>2 DEF Current, Tasks
<1>3. worker = [worker EXCEPT ![r] = "none"]
  BY <1>1 DEF DriverInv
<1>4. CASE StageCode(r) \/ Research(r)
  <2>1. \/ worker' = [worker EXCEPT ![r] = "checkout"]
        \/ worker' = [worker EXCEPT ![r] = "branch"]
    BY <1>4 DEF StageCode, Research
  <2>2. /\ UNCHANGED driverVars /\ UNCHANGED <<head, refs, index, serial>>
        /\ disk' \subseteq disk \cup {Current(r).item}
    BY <1>4 DEF StageCode, Research
  <2>3. DriverInv'
    <3>1. \E c \in Commands : worker' = [worker EXCEPT ![r] = c]
      BY <2>1 DEF Commands
    <3> QED
      BY <1>1, <2>2, <3>1, DriverGoesOn DEF driverVars
  <2>4. RepoInv' /\ WorkKept
    BY <1>1, <1>2, <2>2, FilesOnly DEF driverVars
  <2>5. FreshInv'
    BY <1>1, <2>1, <2>2, FreshGoesOn DEF driverVars, Unpushed, DriverInv
  <2> QED
    BY <2>3, <2>4, <2>5 DEF WorkInv
<1>5. CASE StageStopped(r) \/ EditGate(r)
  <2>1. RunEnds /\ worker' = worker /\ UNCHANGED <<head, refs, index, serial>>
        /\ disk' \subseteq disk \cup {Current(r).item}
    BY <1>5 DEF StageStopped, EditGate, repoVars
  <2>2. DriverInv'
    BY <1>1, <1>3, <2>1, DriverGoesOn DEF RunEnds
  <2>3. RepoInv' /\ WorkKept
    BY <1>1, <1>2, <2>1, FilesOnly DEF RunEnds
  <2>4. FreshInv'
    BY <1>1, <2>1, FreshGoesOn DEF RunEnds, Unpushed
  <2> QED
    BY <2>2, <2>3, <2>4 DEF WorkInv
<1>6. CASE Edit(r)
  <2>1. /\ Claim(r, NoSha) /\ worker' = worker /\ index' = index /\ serial' = serial
        /\ disk' = disk \cup {Current(r).item}
        /\ CheckedOut(r) \/ UNCHANGED <<head, refs>>
    BY <1>6 DEF Edit
  <2>2. NoSha \in 0 .. serial
    BY <1>1 DEF NoSha, RepoInv
  <2>3. DriverInv' /\ FreshInv' /\ run' = run
    BY <1>1, <1>3, <2>1, <2>2, ClaimDrives
  <2>4. RepoInv' /\ WorkKept
    BY <1>1, <1>2, <2>1, <2>3, FilesOnly
  <2> QED
    BY <2>3, <2>4 DEF WorkInv
<1> QED
  BY <1>4, <1>5, <1>6 DEF StartTask

LEMMA CommitStepWorks ==
  ASSUME Runs \in Nat, WorkInv, NEW r \in RunIds, CommitStep(r)
  PROVE  WorkInv' /\ WorkKept
<1>1. /\ worker[r] # "none" /\ DriverInv /\ RepoInv /\ FreshInv
      /\ index \subseteq Items /\ disk \subseteq Items /\ head \in 0 .. Runs
      /\ refs[head] \in Seq(Commit) /\ serial \in Nat
  BY DEF CommitStep, Checkout, WriteFiles, GitAdd, GitCommits, GitCommitFails,
         NothingStaged, RevParse, EnsureOrigin, Push, PushFails, UndoStaged,
         UndoCommit, At, WorkInv, RepoInv
<1>2. /\ r = run /\ Current(r).item \in Items /\ r \notin detached
      /\ \A q \in RunIds : q # r => worker[q] = "none"
  BY <1>1, OneWorker DEF Tasks, DriverInv
<1>3. ASSUME NEW c \in Commands, Continue(r, c), c \notin Unpushed,
             UNCHANGED <<head, refs>> \/ CheckedOut(r),
             serial' = serial, index' \subseteq Items, disk' \subseteq Items
      PROVE  WorkInv' /\ WorkKept
  <2>1. /\ DriverInv' /\ claims' = claims /\ run' = run /\ worker'[r] = c
        /\ \A q \in RunIds : q # r => worker'[q] = "none"
    BY <1>1, <1>3, Continues
  <2>2. RepoInv' /\ WorkKept
    BY <1>2, <1>3, <2>1, FilesOnly
  <2>3. FreshInv'
    BY <1>1, <1>3, <2>1, FreshGoesOn DEF Unpushed
  <2> QED
    BY <2>1, <2>2, <2>3 DEF WorkInv
<1>4. ASSUME NEW c \in Commands, Continue(r, c), UNCHANGED <<head, refs, serial>>,
             c \in Unpushed => worker[r] \in Unpushed,
             index' \subseteq Items, disk' \subseteq Items
      PROVE  WorkInv' /\ WorkKept
  <2>1. /\ DriverInv' /\ claims' = claims /\ run' = run /\ worker'[r] = c
        /\ \A q \in RunIds : q # r => worker'[q] = "none"
    BY <1>1, <1>4, Continues
  <2>2. RepoInv' /\ WorkKept
    BY <1>2, <1>4, <2>1, FilesOnly
  <2>3. FreshInv'
    BY <1>1, <1>4, <2>1, FreshGoesOn DEF Unpushed
  <2> QED
    BY <2>1, <2>2, <2>3 DEF WorkInv
<1>5. CASE Checkout(r, "checkout", "write") \/ Checkout(r, "branch", "add")
  BY <1>1, <1>3, <1>5 DEF Checkout, Commands, Unpushed
<1>6. CASE WriteFiles(r)
  BY <1>1, <1>2, <1>3, <1>6 DEF WriteFiles, Commands, Unpushed
<1>7. CASE GitAdd(r)
  BY <1>1, <1>3, <1>7 DEF GitAdd, Commands, Unpushed
<1>8. CASE NothingStaged(r)
  <2>1. UNCHANGED <<head, refs, index, disk, serial>>
    BY <1>8 DEF NothingStaged, repoVars
  <2>2. Continue(r, "head") \/ Continue(r, "undoTip")
    BY <1>8 DEF NothingStaged
  <2> QED
    BY <1>1, <1>3, <2>1, <2>2 DEF Commands, Unpushed
<1>9. CASE EnsureOrigin(r)
  <2>1. UNCHANGED <<head, refs, index, disk, serial>> /\ worker[r] = "origin"
    BY <1>9 DEF EnsureOrigin, repoVars, At
  <2>2. Continue(r, "push") \/ Continue(r, "undoTip")
    BY <1>9 DEF EnsureOrigin
  <2> QED
    BY <1>1, <1>4, <2>1, <2>2 DEF Commands, Unpushed
<1>10. CASE Push(r)
  <2>1. UNCHANGED <<head, refs, index, disk, serial>> /\ worker[r] = "push"
    BY <1>10 DEF Push, At
  <2>2. Continue(r, "sha") \/ Continue(r, "undoLast")
    BY <1>10 DEF Push
  <2> QED
    BY <1>1, <1>4, <2>1, <2>2 DEF Commands, Unpushed
<1>11. CASE PushFails(r)
  <2>1. UNCHANGED <<head, refs, index, disk, serial>> /\ worker[r] = "push"
    BY <1>11 DEF PushFails, repoVars, At
  <2>2. Continue(r, "undoLast") \/ Continue(r, "undoFinal")
    BY <1>11 DEF PushFails
  <2> QED
    BY <1>1, <1>4, <2>1, <2>2 DEF Commands, Unpushed
<1>12. CASE RevParse(r)
  <2>1. /\ worker' = [worker EXCEPT ![r] = "none"] /\ Claim(r, Sha(head))
        /\ UNCHANGED <<head, refs, index, disk, serial>>
    BY <1>2, <1>12 DEF RevParse, Succeeds, repoVars
  <2>2. DriverInv' /\ FreshInv' /\ run' = run
    BY <1>1, <1>2, <2>1, TipIsKnown, ClaimDrives
  <2>3. RepoInv' /\ WorkKept
    BY <1>1, <1>2, <2>1, <2>2, FilesOnly
  <2> QED
    BY <2>2, <2>3 DEF WorkInv
<1>13. ASSUME AddCommit, NEW c \in {"origin", "undoTip"}, Continue(r, c)
       PROVE  WorkInv' /\ WorkKept
  <2>1. c \in Commands
    BY DEF Commands
  <2>2. /\ DriverInv' /\ claims' = claims /\ run' = run /\ worker'[r] = c
        /\ \A q \in RunIds : q # r => worker'[q] = "none"
    BY <1>1, <1>13, <2>1, Continues
  <2>3. /\ serial' = serial + 1 /\ head' = head /\ refs'[head] \in Seq(Commit)
        /\ refs'[head] = Append(refs[head], [id |-> serial + 1, items |-> index])
        /\ refs' = [refs EXCEPT ![head] = refs'[head]]
        /\ \A i \in 1 .. Len(refs'[head]) : refs'[head][i].id <= serial'
        /\ Shas(refs[head]) \subseteq Shas(refs'[head])
    BY <1>1, <1>13, CommitAdds
  <2>4. index' \subseteq Items /\ disk' \subseteq Items
    BY <1>1, <1>13 DEF AddCommit
  <2>5. serial' \in Nat /\ serial <= serial'
    BY <1>1, <2>3
  <2>6. RepoInv'
    <3>1. /\ head' = head
          /\ \E b \in Seq(Commit) :
               /\ refs' = [refs EXCEPT ![head] = b]
               /\ \A i \in 1 .. Len(b) : b[i].id <= serial'
      BY <2>3
    <3>2. run' \in {run, run + 1}
      BY <2>2
    <3> QED
      BY <1>1, <1>2, <2>4, <2>5, <3>1, <3>2, RepoGoesOn
  <2>7. WorkKept
    <3>1. \E b \in Seq(Commit) :
            /\ refs' = [refs EXCEPT ![head] = b]
            /\ \A d \in claims : d.sha \in Shas(refs[head]) => d.sha \in Shas(b)
      BY <2>3
    <3> QED
      BY <1>2, <3>1, WorkStays
  <2>8. FreshInv'
    <3>1. refs'[head] # <<>> /\ Last(refs'[head]).id = serial'
      BY <1>1, <2>3 DEF Last
    <3> QED
      BY <1>1, <2>2, <2>3, <2>5, <3>1 DEF FreshInv
  <2> QED
    BY <2>2, <2>6, <2>8, <2>7 DEF WorkInv
<1>14. CASE GitCommits(r)
  BY <1>13, <1>14 DEF GitCommits
<1>15. CASE GitCommitFails(r)
  <2>1. Continue(r, "undoTip") /\ (AddCommit \/ UNCHANGED repoVars)
    BY <1>15 DEF GitCommitFails
  <2>2. CASE AddCommit
    BY <1>13, <2>1, <2>2
  <2>3. CASE UNCHANGED repoVars
    BY <1>1, <1>3, <2>1, <2>3 DEF repoVars, Commands, Unpushed
  <2> QED
    BY <2>1, <2>2, <2>3
<1>16. ASSUME NEW p, Fails(r, p), UNCHANGED repoVars
       PROVE  WorkInv' /\ WorkKept
  <2>1. /\ DriverInv' /\ claims' = claims /\ run' \in {run, run + 1}
        /\ worker'[r] \in {"none", "checkout"}
        /\ \A q \in RunIds : q # r => worker'[q] = "none"
    BY <1>1, <1>16, FailsDrives
  <2>2. UNCHANGED <<head, refs, index, disk, serial>>
    BY <1>16 DEF repoVars
  <2>3. RepoInv' /\ WorkKept
    BY <1>1, <1>2, <2>1, <2>2, FilesOnly
  <2>4. FreshInv'
    BY <1>1, <2>1, <2>2, FreshGoesOn DEF Unpushed
  <2> QED
    BY <2>1, <2>3, <2>4 DEF WorkInv
<1>17. ASSUME NEW p, Fails(r, p), refs[head] # <<>>,
              NEW b \in {refs[head], Front(refs[head])}, ResetTo(b),
              b = refs[head] \/ worker[r] \in Unpushed
       PROVE  WorkInv' /\ WorkKept
  <2>1. /\ DriverInv' /\ claims' = claims /\ run' \in {run, run + 1}
        /\ worker'[r] \in {"none", "checkout"}
        /\ \A q \in RunIds : q # r => worker'[q] = "none"
    BY <1>1, <1>17, FailsDrives
  <2>2. /\ b \in Seq(Commit) /\ refs' = [refs EXCEPT ![head] = b]
        /\ head' = head /\ serial' = serial
        /\ index' \subseteq Items /\ disk' \subseteq Items
        /\ \A i \in 1 .. Len(b) : b[i].id <= serial'
        /\ \A x \in Shas(refs[head]) : x # Last(refs[head]).id => x \in Shas(b)
    BY <1>1, <1>17, ResetLeaves
  <2>3. RepoInv'
    <3>1. \E s \in Seq(Commit) :
            /\ refs' = [refs EXCEPT ![head] = s]
            /\ \A i \in 1 .. Len(s) : s[i].id <= serial'
      BY <2>2
    <3>2. /\ head' = head /\ index' \subseteq Items /\ disk' \subseteq Items
          /\ serial' \in Nat /\ serial <= serial'
      BY <1>1, <2>2
    <3>3. RepoInv /\ r = run /\ run' \in {run, run + 1}
      BY <1>1, <1>2, <2>1
    <3> QED
      BY <3>1, <3>2, <3>3, RepoGoesOn
  <2>4. WorkKept
    <3>1. ASSUME NEW c \in claims, c.sha \in Shas(refs[head])
          PROVE  c.sha \in Shas(b)
      <4>1. CASE b = refs[head]
        BY <3>1, <4>1
      <4>2. CASE worker[r] \in Unpushed
        BY <1>1, <2>2, <3>1, <4>2 DEF FreshInv
      <4> QED
        BY <1>17, <4>1, <4>2
    <3>2. \E s \in Seq(Commit) :
            /\ refs' = [refs EXCEPT ![head] = s]
            /\ \A c \in claims : c.sha \in Shas(refs[head]) => c.sha \in Shas(s)
      BY <2>2, <3>1
    <3> QED
      BY <1>2, <3>2, WorkStays
  <2>5. FreshInv'
    BY <1>1, <2>1, <2>2, FreshGoesOn DEF Unpushed
  <2> QED
    BY <2>1, <2>3, <2>4, <2>5 DEF WorkInv
<1>18. CASE UndoStaged(r)
  <2>1. CASE refs[head] = <<>>
    BY <1>16, <1>18, <2>1 DEF UndoStaged
  <2>2. CASE refs[head] # <<>>
    BY <1>17, <1>18, <2>2 DEF UndoStaged
  <2> QED
    BY <2>1, <2>2
<1>19. CASE UndoCommit(r)
  <2>1. worker[r] \in Unpushed
    BY <1>19 DEF UndoCommit, Unpushed
  <2>2. \E p : Fails(r, p)
    BY <1>19 DEF UndoCommit
  <2>3. CASE Len(refs[head]) < 2
    BY <1>16, <1>19, <2>2, <2>3 DEF UndoCommit
  <2>4. CASE ~(Len(refs[head]) < 2)
    <3>1. ResetTo(Front(refs[head])) /\ refs[head] # <<>>
      BY <1>19, <2>4 DEF UndoCommit
    <3> QED
      BY <1>17, <2>1, <2>2, <3>1
  <2> QED
    BY <2>3, <2>4
<1> QED
  BY <1>5, <1>6, <1>7, <1>8, <1>9, <1>10, <1>11, <1>12, <1>14, <1>15, <1>18, <1>19
     DEF CommitStep

LEMMA WorkStep ==
  ASSUME Runs \in Nat, "abandon" \notin setting.faults,
         WorkInv, [RepoNext]_repo
  PROVE  WorkInv' /\ WorkKept
<1>1. CASE UNCHANGED repo
  BY <1>1 DEF repo, driverVars, repoVars, WorkInv, DriverInv, RepoInv, FreshInv,
              WorkKept, Current
<1>2. ASSUME NEW r \in RunIds, EndRun(r) PROVE WorkInv' /\ WorkKept
  <2>1. /\ DriverInv /\ RepoInv /\ FreshInv /\ r = run
        /\ \A q \in RunIds : worker[q] = "none"
        /\ index \subseteq Items /\ disk \subseteq Items
    BY <1>2, DriverIsIdle DEF EndRun, WorkInv, RepoInv
  <2>2. RunEnds /\ UNCHANGED <<worker, head, refs, index, disk, serial>>
    BY <1>2 DEF EndRun, repoVars
  <2>3. worker' = [worker EXCEPT ![r] = "none"]
    BY <2>1, <2>2 DEF DriverInv
  <2>4. DriverInv'
    BY <2>1, <2>2, <2>3, DriverGoesOn DEF RunEnds
  <2>5. RepoInv' /\ WorkKept
    BY <2>1, <2>2, FilesOnly DEF RunEnds
  <2>6. FreshInv'
    BY <2>1, <2>2, FreshGoesOn DEF RunEnds, Unpushed
  <2> QED
    BY <2>4, <2>5, <2>6 DEF WorkInv
<1>3. ASSUME NEW r \in RunIds PROVE ~Abandon(r)
  BY DEF Abandon, May
<1> QED
  BY <1>1, <1>2, <1>3, StartTaskWorks, CommitStepWorks DEF RepoNext

LEMMA WorkInit ==
  ASSUME Runs \in Nat, PlansAreTasks, RepoInit
  PROVE  WorkInv
<1>1. DriverInv
  BY DEF RepoInit, DriverInv, RunIds, PlansAreTasks
<1>2. RepoInv
  <2>1. <<>> \in Seq(Commit) /\ <<[id |-> 1, items |-> {}]>> \in Seq(Commit)
    BY DEF Commit
  <2>2. serial \in Nat /\ \A b \in 0 .. Runs :
          \/ refs[b] = <<>>
          \/ b = 0 /\ refs[b] = <<[id |-> 1, items |-> {}]>> /\ serial = 1
    BY DEF RepoInit
  <2>3. refs \in [0 .. Runs -> Seq(Commit)]
    BY <2>1 DEF RepoInit
  <2>4. \A b \in 0 .. Runs : \A i \in 1 .. Len(refs[b]) : refs[b][i].id <= serial
    BY <2>2
  <2>5. \A b \in 0 .. Runs : head < b => refs[b] = <<>>
    BY <2>2 DEF RepoInit
  <2> QED
    BY <2>2, <2>3, <2>4, <2>5 DEF RepoInit, RepoInv
<1>3. FreshInv
  BY DEF RepoInit, FreshInv, Unpushed
<1> QED
  BY <1>1, <1>2, <1>3 DEF WorkInv

\* Undoing a failed attempt drops no commit that a task was reported with, for
\* any number of runs, plans and retries and whatever fails, as long as no
\* commit thread is left behind.
THEOREM ReportedCommitsStay ==
  ASSUME Runs \in Nat, PlansAreTasks
  PROVE  RepoSpec => ClaimedWorkStays
<1> DEFINE Inv == "abandon" \notin setting.faults => WorkInv
<1>1. RepoInit => Inv
  BY WorkInit
<1>2. Inv /\ [RepoNext]_repo => Inv'
  BY WorkStep, SettingStays
<1>3. Inv /\ [RepoNext]_repo => ("abandon" \notin setting.faults => WorkKept)
  BY WorkStep
<1> QED
  BY <1>1, <1>2, <1>3, PTL DEF RepoSpec, ClaimedWorkStays

-----------------------------------------------------------------------------
(* What is reported is at Gitea, when files are written, git commit works   *)
(* and Gitea answers, in a repository that has a first commit.             *)

\* Commit k has no content, or one of the first n runs has pushed it.
Reached(k, at, n) ==
    k.items = {} \/ \E q \in RunIds : q <= n /\ k \in ToSet(at[q])

Pushing == \E r \in RunIds : worker[r] \in Unpushed

\* Only the commit of the current attempt is not at Gitea yet; the task's work
\* is in the files before git add, and in the tip after git commit.
PublishedInv ==
    /\ remote \in [RunIds -> Seq(Commit)]
    /\ refs[head] # <<>>
    /\ Pushing => Len(refs[head]) >= 2
    /\ index = Tree(head) \/ (index = disk /\ \E r \in RunIds : worker[r] = "commit")
    /\ \A r \in RunIds :
         /\ worker[r] \in {"branch", "add", "commit"} => Current(r).item \in disk
         /\ worker[r] \in {"head", "origin", "push", "sha"} =>
              Current(r).item \in Tree(head)
    /\ \A i \in 1 .. Len(refs[head]) :
         Reached(refs[head][i], remote, run) \/ (i = Len(refs[head]) /\ Pushing)
    /\ \A c \in claims : c.run \in RunIds
    /\ Published

LEMMA ReachedStays ==
  ASSUME NEW k, NEW a, NEW b, NEW n \in Int, NEW m \in Int, n <= m,
         \A q \in RunIds : ToSet(a[q]) \subseteq ToSet(b[q]), Runs \in Nat,
         Reached(k, a, n)
  PROVE  Reached(k, b, m)
BY DEF Reached, RunIds

\* Claims of before the step.
LEMMA PublishedStays ==
  ASSUME Published, \A c \in claims : c.run \in RunIds, Runs \in Nat,
         \A q \in RunIds : ToSet(remote[q]) \subseteq ToSet(remote'[q]),
         \A c \in claims' : c \notin claims => c.sha = NoSha
  PROVE  Published'
<1> SUFFICES ASSUME NEW c \in claims', c.sha # NoSha
             PROVE  \E r \in 1 .. c.run : \E k \in ToSet(remote'[r]) :
                      k.id = c.sha /\ c.item \in k.items
  BY DEF Published
<1>1. c \in claims
  OBVIOUS
<1>2. PICK r \in 1 .. c.run : \E k \in ToSet(remote[r]) :
        k.id = c.sha /\ c.item \in k.items
  BY <1>1 DEF Published
<1>3. r \in RunIds
  BY <1>1, <1>2 DEF RunIds
<1> QED
  BY <1>2, <1>3

\* Steps that neither commit nor undo a commit.
LEMMA NothingCommitted ==
  ASSUME Runs \in Nat, WorkInv, PublishedInv, NEW r \in RunIds, r = run,
         UNCHANGED <<head, refs>> \/ CheckedOut(r),
         remote' = remote, run' \in {run, run + 1}, Pushing <=> Pushing',
         \A q \in RunIds : q # r => worker'[q] = "none",
         index' = Tree(head) \/ (index' = disk' /\ worker'[r] = "commit"),
         worker'[r] \in {"branch", "add", "commit"} => Current(r)'.item \in disk',
         worker'[r] \in {"head", "origin", "push", "sha"} =>
           Current(r)'.item \in Tree(head),
         \A c \in claims' : c.run \in RunIds,
         Published'
  PROVE  PublishedInv'
<1>1. refs'[head'] = refs[head] /\ Tree(head)' = Tree(head)
  <2>1. refs'[head'] = refs[head]
    BY DEF CheckedOut, WorkInv, RepoInv, RunIds
  <2> QED
    BY <2>1 DEF Tree
<1>2. run \in Int /\ run' \in Int /\ run <= run'
  BY DEF WorkInv, DriverInv
<1>3. ASSUME NEW i \in 1 .. Len(refs'[head'])
      PROVE  Reached(refs'[head'][i], remote', run')
             \/ (i = Len(refs'[head']) /\ Pushing')
  <2>1. Reached(refs[head][i], remote, run) \/ (i = Len(refs[head]) /\ Pushing)
    BY <1>1, <1>3 DEF PublishedInv
  <2>2. Reached(refs[head][i], remote, run) => Reached(refs[head][i], remote, run')
    BY <1>2, ReachedStays
  <2> QED
    BY <1>1, <2>1, <2>2
<1>4. \A q \in RunIds :
        /\ worker'[q] \in {"branch", "add", "commit"} => Current(q)'.item \in disk'
        /\ worker'[q] \in {"head", "origin", "push", "sha"} =>
             Current(q)'.item \in Tree(head)'
  BY <1>1
<1>5. remote' \in [RunIds -> Seq(Commit)] /\ refs'[head'] # <<>>
      /\ (Pushing' => Len(refs'[head']) >= 2)
  BY <1>1 DEF PublishedInv
<1>6. index' = Tree(head)' \/ (index' = disk' /\ \E q \in RunIds : worker'[q] = "commit")
  BY <1>1
<1> QED
  BY <1>3, <1>4, <1>5, <1>6 DEF PublishedInv

LEMMA StartTaskPublished ==
  ASSUME Runs \in Nat, setting.faults \subseteq Bearable,
         WorkInv, PublishedInv, NEW r \in RunIds, StartTask(r) \/ EndRun(r)
  PROVE  PublishedInv'
<1>1. /\ r = run /\ \A q \in RunIds : worker[q] = "none"
      /\ worker[r] = "none" /\ ~Pushing
      /\ index = Tree(head)
  BY DriverIsIdle DEF StartTask, EndRun, WorkInv, Pushing, Unpushed, PublishedInv
<1>2. Published /\ \A c \in claims : c.run \in RunIds
  BY DEF PublishedInv
<1>3. DOMAIN worker = RunIds
  BY DEF WorkInv, DriverInv
<1>4. CASE StageCode(r)
  <2>1. /\ worker' = [worker EXCEPT ![r] = "checkout"]
        /\ UNCHANGED <<plans, run, task, claims, head, refs, index, remote>>
    BY <1>4 DEF StageCode, driverVars
  <2>2. worker'[r] = "checkout" /\ (\A q \in RunIds : q # r => worker'[q] = "none")
        /\ ~Pushing'
    BY <1>1, <1>3, <2>1 DEF Pushing, Unpushed
  <2>3. Published'
    BY <1>2, <2>1 DEF Published
  <2> QED
    BY <1>1, <1>2, <2>1, <2>2, <2>3, NothingCommitted
<1>5. CASE Research(r)
  <2>1. /\ worker' = [worker EXCEPT ![r] = "branch"]
        /\ UNCHANGED <<plans, run, task, claims, head, refs, index, remote>>
        /\ Current(r).item \in disk'
    BY <1>5 DEF Research, driverVars
  <2>2. worker'[r] = "branch" /\ (\A q \in RunIds : q # r => worker'[q] = "none")
        /\ ~Pushing'
    BY <1>1, <1>3, <2>1 DEF Pushing, Unpushed
  <2>3. Published' /\ Current(r)' = Current(r)
    BY <1>2, <2>1 DEF Published, Current
  <2> QED
    BY <1>1, <1>2, <2>1, <2>2, <2>3, NothingCommitted
<1>6. CASE StageStopped(r) \/ EditGate(r) \/ EndRun(r)
  <2>1. /\ run' = run + 1
        /\ UNCHANGED <<worker, claims, head, refs, index, remote>>
    BY <1>6 DEF StageStopped, EditGate, EndRun, RunEnds, repoVars
  <2>2. (\A q \in RunIds : worker'[q] = "none") /\ ~Pushing'
    BY <1>1, <2>1 DEF Pushing, Unpushed
  <2>3. Published'
    BY <1>2, <2>1 DEF Published
  <2> QED
    BY <1>1, <1>2, <2>1, <2>2, <2>3, NothingCommitted
<1>7. CASE Edit(r)
  <2>1. /\ UNCHANGED <<worker, run, index, remote>>
        /\ CheckedOut(r) \/ UNCHANGED <<head, refs>>
        /\ claims' = claims \cup {[run |-> r, task |-> task[r],
                                   item |-> Current(r).item, sha |-> NoSha]}
    BY <1>7 DEF Edit, Claim
  <2>2. (\A q \in RunIds : worker'[q] = "none") /\ ~Pushing'
    BY <1>1, <2>1 DEF Pushing, Unpushed
  <2>3. \A c \in claims' : c.run \in RunIds /\ (c \notin claims => c.sha = NoSha)
    BY <1>2, <2>1
  <2>4. Published'
    BY <1>2, <2>1, <2>3, PublishedStays
  <2> QED
    BY <1>1, <2>1, <2>2, <2>3, <2>4, NothingCommitted
<1> QED
  BY <1>4, <1>5, <1>6, <1>7 DEF StartTask

\* The tip of a run branch that is about to be reported is at Gitea.
LEMMA ReportIsPublished ==
  ASSUME Runs \in Nat, WorkInv, PublishedInv, NEW r \in RunIds,
         worker[r] \in {"sha", "head"}, RevParse(r)
  PROVE  PublishedInv'
<1>1. /\ r = run /\ r \notin detached
      /\ \A q \in RunIds : q # r => worker[q] = "none"
  BY OneWorker DEF WorkInv, DriverInv
<1>2. ~Pushing
  BY <1>1 DEF Pushing, Unpushed
<1>3. /\ worker' = [worker EXCEPT ![r] = "none"] /\ run' = run
      /\ UNCHANGED <<head, refs, index, disk, remote>>
      /\ claims' = claims \cup {[run |-> r, task |-> task[r],
                                 item |-> Current(r).item, sha |-> Sha(head)]}
  BY <1>1 DEF RevParse, Succeeds, Claim, repoVars
<1>4. (\A q \in RunIds : worker'[q] = "none") /\ ~Pushing'
  BY <1>1, <1>3 DEF WorkInv, DriverInv, Pushing, Unpushed
<1>5. index = Tree(head)
  BY <1>1 DEF PublishedInv
<1>6. Published'
  <2> DEFINE s == refs[head]
             k == Last(refs[head])
  <2>1. s \in Seq(Commit) /\ s # <<>> /\ Len(s) \in 1 .. Len(s)
    BY DEF WorkInv, RepoInv, PublishedInv
  <2>2. Sha(head) = k.id /\ Current(r).item \in k.items
    BY <2>1 DEF Sha, Tree, PublishedInv
  <2>3. PICK q \in RunIds : q <= run /\ k \in ToSet(remote[q])
    BY <1>2, <2>1, <2>2 DEF PublishedInv, Reached, Last
  <2>4. q \in 1 .. r
    BY <1>1, <2>3 DEF RunIds
  <2>5. ASSUME NEW c \in claims', c.sha # NoSha
        PROVE  \E a \in 1 .. c.run : \E x \in ToSet(remote[a]) :
                 x.id = c.sha /\ c.item \in x.items
    <3>1. CASE c \in claims
      BY <2>5, <3>1 DEF PublishedInv, Published
    <3>2. CASE c \notin claims
      <4>1. c.run = r /\ c.sha = k.id /\ c.item = Current(r).item
        BY <1>3, <2>2, <3>2
      <4> QED
        BY <2>2, <2>3, <2>4, <4>1
    <3> QED
      BY <3>1, <3>2
  <2> QED
    BY <1>3, <2>5 DEF Published
<1>7. \A c \in claims' : c.run \in RunIds
  BY <1>3 DEF PublishedInv
<1> QED
  BY <1>1, <1>2, <1>3, <1>4, <1>5, <1>6, <1>7, NothingCommitted

LEMMA PushPublishes ==
  ASSUME Runs \in Nat, WorkInv, PublishedInv, NEW r \in RunIds, Push(r)
  PROVE  PublishedInv'
<1>1. /\ worker[r] = "push" /\ r = run /\ run \in Int
      /\ \A q \in RunIds : q # r => worker[q] = "none"
  BY OneWorker DEF WorkInv, DriverInv, Push, At
<1>2. head = r
  BY <1>1 DEF Push, CanPush, WorkInv, RepoInv, RunIds
<1>3. /\ remote' = [remote EXCEPT ![r] = refs[r]]
      /\ UNCHANGED <<plans, run, task, claims, head, refs, index, disk>>
      /\ worker' \in {[worker EXCEPT ![r] = "sha"], [worker EXCEPT ![r] = "undoLast"]}
  BY DEF Push, Continue, driverVars
<1>4. /\ worker'[r] \in {"sha", "undoLast"} /\ Current(r)' = Current(r)
      /\ \A q \in RunIds : q # r => worker'[q] = "none"
  BY <1>1, <1>3 DEF WorkInv, DriverInv, Current
<1>5. refs[head] \in Seq(Commit) /\ Len(refs[head]) >= 2
  BY <1>1 DEF WorkInv, RepoInv, PublishedInv, Pushing, Unpushed
<1>6. remote' \in [RunIds -> Seq(Commit)] /\ remote'[r] = refs[head]
  BY <1>2, <1>3, <1>5 DEF PublishedInv
<1>7. \A q \in RunIds : ToSet(remote[q]) \subseteq ToSet(remote'[q])
  <2>1. ToSet(remote[r]) \subseteq ToSet(refs[r])
    <3>1. /\ remote[r] \in Seq(Commit) /\ refs[r] \in Seq(Commit)
          /\ Len(remote[r]) <= Len(refs[r])
          /\ SubSeq(remote[r], 1, Len(remote[r])) = SubSeq(refs[r], 1, Len(remote[r]))
      BY <1>2, <1>5 DEF Push, CanPush, IsPrefix, PublishedInv
    <3>2. \A i \in 1 .. Len(remote[r]) : i \in 1 .. Len(refs[r])
                                         /\ remote[r][i] = refs[r][i]
      <4> SUFFICES ASSUME NEW i \in 1 .. Len(remote[r])
                   PROVE  i \in 1 .. Len(refs[r]) /\ remote[r][i] = refs[r][i]
        OBVIOUS
      <4>1. /\ SubSeq(remote[r], 1, Len(remote[r]))[i] = remote[r][i]
            /\ SubSeq(refs[r], 1, Len(remote[r]))[i] = refs[r][i]
        BY <3>1
      <4> QED
        BY <3>1, <4>1
    <3> QED
      BY <3>1, <3>2 DEF ToSet
  <2> QED
    BY <1>2, <1>3, <1>6, <2>1 DEF PublishedInv
<1>8. \A c \in claims' : c.run \in RunIds /\ (c \notin claims => c.sha = NoSha)
  BY <1>3 DEF PublishedInv
<1>9. Published'
  BY <1>3, <1>7, <1>8, PublishedStays DEF PublishedInv
<1>10. \A i \in 1 .. Len(refs'[head']) : Reached(refs'[head'][i], remote', run')
  <2>1. refs'[head'] = remote'[r] /\ r <= run'
    BY <1>1, <1>3, <1>6
  <2> QED
    BY <1>5, <1>6, <2>1 DEF Reached, ToSet
<1>11. index' = Tree(head)' /\ Tree(head)' = Tree(head)
       /\ Current(r)'.item \in Tree(head)'
  BY <1>1, <1>3, <1>4 DEF PublishedInv, Tree
<1>12. \A q \in RunIds :
        /\ worker'[q] \in {"branch", "add", "commit"} => Current(q)'.item \in disk'
        /\ worker'[q] \in {"head", "origin", "push", "sha"} =>
             Current(q)'.item \in Tree(head)'
  BY <1>4, <1>11
<1> QED
  BY <1>3, <1>5, <1>6, <1>8, <1>9, <1>10, <1>11, <1>12 DEF PublishedInv

LEMMA CommitHoldsWork ==
  ASSUME Runs \in Nat, WorkInv, PublishedInv, NEW r \in RunIds, GitCommits(r)
  PROVE  PublishedInv'
<1>1. /\ worker[r] = "commit" /\ r = run
      /\ \A q \in RunIds : q # r => worker[q] = "none"
  BY OneWorker DEF WorkInv, DriverInv, GitCommits, At
<1>2. ~Pushing /\ index = disk /\ Current(r).item \in index
  BY <1>1 DEF GitCommits, PublishedInv, Pushing, Unpushed
<1>3. /\ UNCHANGED <<plans, run, task, claims, head, index, disk, remote>>
      /\ worker' = [worker EXCEPT ![r] = "origin"]
  BY DEF GitCommits, AddCommit, Continue, driverVars
<1>4. /\ worker'[r] = "origin" /\ Current(r)' = Current(r)
      /\ \A q \in RunIds : q # r => worker'[q] = "none"
  BY <1>1, <1>3 DEF WorkInv, DriverInv, Current
<1>5. /\ refs[head] \in Seq(Commit) /\ Len(refs[head]) >= 1
      /\ refs'[head] = Append(refs[head], [id |-> serial + 1, items |-> index])
      /\ refs'[head] \in Seq(Commit)
  <2>1. RepoInv /\ AddCommit /\ refs[head] \in Seq(Commit) /\ refs[head] # <<>>
    BY DEF GitCommits, WorkInv, RepoInv, PublishedInv
  <2>2. /\ refs'[head] = Append(refs[head], [id |-> serial + 1, items |-> index])
        /\ Append(refs[head], [id |-> serial + 1, items |-> index]) \in Seq(Commit)
    BY <2>1, CommitAdds
  <2> QED
    BY <2>1, <2>2
<1>6. /\ Len(refs'[head']) = Len(refs[head]) + 1
      /\ refs'[head'][Len(refs'[head'])] = [id |-> serial + 1, items |-> index]
      /\ \A i \in 1 .. Len(refs[head]) : refs'[head'][i] = refs[head][i]
  BY <1>3, <1>5
<1>7. Tree(head)' = index /\ refs'[head'] # <<>> /\ Len(refs'[head']) >= 2
  <2>1. refs'[head'] # <<>> /\ Len(refs'[head']) >= 2
    BY <1>5, <1>6
  <2>2. Last(refs'[head']).items = index
    BY <1>6 DEF Last
  <2> QED
    BY <2>1, <2>2 DEF Tree
<1>8. Pushing'
  BY <1>4 DEF Pushing, Unpushed
<1>9. ASSUME NEW i \in 1 .. Len(refs'[head'])
      PROVE  Reached(refs'[head'][i], remote', run') \/ i = Len(refs'[head'])
  <2>1. CASE i \in 1 .. Len(refs[head])
    BY <1>2, <1>3, <1>6, <2>1 DEF PublishedInv
  <2>2. CASE i \notin 1 .. Len(refs[head])
    BY <1>5, <1>6, <2>2
  <2> QED
    BY <2>1, <2>2
<1>10. Published' /\ \A c \in claims' : c.run \in RunIds
  BY <1>3 DEF PublishedInv, Published
<1>11. \A q \in RunIds :
        /\ worker'[q] \in {"branch", "add", "commit"} => Current(q)'.item \in disk'
        /\ worker'[q] \in {"head", "origin", "push", "sha"} =>
             Current(q)'.item \in Tree(head)'
  BY <1>2, <1>3, <1>4, <1>7
<1> QED
  BY <1>3, <1>7, <1>8, <1>9, <1>10, <1>11 DEF PublishedInv

LEMMA UndoUnpublished ==
  ASSUME Runs \in Nat, WorkInv, PublishedInv, NEW r \in RunIds,
         UndoStaged(r) \/ UndoCommit(r)
  PROVE  PublishedInv'
<1>1. /\ worker[r] \in {"undoTip", "undoLast", "undoFinal"} /\ worker[r] # "none"
      /\ r = run /\ run \in Int
      /\ \A q \in RunIds : q # r => worker[q] = "none"
  <2>1. worker[r] \in {"undoTip", "undoLast", "undoFinal"}
    BY DEF UndoStaged, UndoCommit, At
  <2>2. run \in Int /\ DriverInv
    BY DEF WorkInv, DriverInv
  <2> QED
    BY <2>1, <2>2, OneWorker
<1>2. PICK p : Fails(r, p)
  BY DEF UndoStaged, UndoCommit
<1>3. /\ claims' = claims /\ run' \in {run, run + 1}
      /\ worker'[r] \in {"none", "checkout"}
      /\ \A q \in RunIds : q # r => worker'[q] = "none"
  BY <1>1, <1>2, FailsDrives DEF WorkInv
<1>4. ~Pushing' /\ \A q \in RunIds : worker'[q] \in {"none", "checkout"}
  BY <1>3 DEF Pushing, Unpushed
<1>5. refs[head] \in Seq(Commit) /\ refs[head] # <<>> /\ head \in 0 .. Runs
  BY DEF WorkInv, RepoInv, PublishedInv
<1>6. PICK b \in {refs[head], Front(refs[head])} :
        /\ ResetTo(b) /\ b # <<>>
        /\ Pushing => Len(b) < Len(refs[head])
  <2>1. CASE UndoStaged(r)
    <3>1. ResetTo(refs[head]) /\ ~Pushing
      BY <1>1, <1>5, <2>1 DEF UndoStaged, At, Pushing, Unpushed
    <3> QED
      BY <1>5, <3>1
  <2>2. CASE UndoCommit(r)
    <3>1. Pushing
      BY <2>2 DEF UndoCommit, Pushing, Unpushed
    <3>2. ResetTo(Front(refs[head])) /\ Len(refs[head]) >= 2
      BY <1>5, <2>2, <3>1 DEF UndoCommit, PublishedInv
    <3>3. Len(Front(refs[head])) = Len(refs[head]) - 1
      BY <1>5, <3>2 DEF Front
    <3> QED
      BY <1>5, <3>2, <3>3
  <2> QED
    BY <2>1, <2>2
<1>7. /\ b \in Seq(Commit) /\ refs' = [refs EXCEPT ![head] = b] /\ head' = head
      /\ \A i \in 1 .. Len(b) : b[i] = refs[head][i]
      /\ Len(b) <= Len(refs[head])
  BY <1>5, <1>6, ResetLeaves DEF WorkInv
<1>8. refs'[head'] = b /\ remote' = remote
  BY <1>5, <1>6, <1>7 DEF ResetTo, WorkInv, RepoInv
<1>9. index' = Tree(head)'
  BY <1>6, <1>8 DEF ResetTo, Tree
<1>10. ASSUME NEW i \in 1 .. Len(b) PROVE Reached(b[i], remote, run')
  <2>1. i \in 1 .. Len(refs[head]) /\ ~(i = Len(refs[head]) /\ Pushing)
    BY <1>5, <1>6, <1>7
  <2>2. Reached(refs[head][i], remote, run)
    BY <2>1 DEF PublishedInv
  <2>3. run <= run' /\ run' \in Int
    BY <1>1, <1>3
  <2>4. Reached(refs[head][i], remote, run')
    BY <1>1, <2>2, <2>3, ReachedStays
  <2> QED
    BY <1>7, <2>4
<1>11. Published' /\ \A c \in claims' : c.run \in RunIds
  BY <1>3, <1>8 DEF PublishedInv, Published
<1>12. remote' \in [RunIds -> Seq(Commit)] /\ refs'[head'] # <<>>
  BY <1>6, <1>8 DEF PublishedInv
<1>13. \A q \in RunIds :
        /\ worker'[q] \in {"branch", "add", "commit"} => Current(q)'.item \in disk'
        /\ worker'[q] \in {"head", "origin", "push", "sha"} =>
             Current(q)'.item \in Tree(head)'
  BY <1>4
<1> QED
  BY <1>4, <1>8, <1>9, <1>10, <1>11, <1>12, <1>13 DEF PublishedInv

LEMMA CommitStepPublished ==
  ASSUME Runs \in Nat, setting.faults \subseteq Bearable, WorkInv, PublishedInv,
         NEW r \in RunIds, CommitStep(r)
  PROVE  PublishedInv'
<1>1. ASSUME worker[r] # "none", NEW c \in Commands, Continue(r, c),
             UNCHANGED <<head, refs>> \/ CheckedOut(r), remote' = remote,
             worker[r] \in Unpushed <=> c \in Unpushed,
             index' = Tree(head) \/ (index' = disk' /\ c = "commit"),
             c \in {"branch", "add", "commit"} => Current(r).item \in disk',
             c \in {"head", "origin", "push", "sha"} =>
               Current(r).item \in Tree(head)
      PROVE  PublishedInv'
  <2>1. /\ r = run /\ run' = run /\ claims' = claims
        /\ Current(r)' = Current(r) /\ worker'[r] = c
        /\ \A q \in RunIds : q # r => worker[q] = "none" /\ worker'[q] = "none"
    BY <1>1, Continues, OneWorker DEF WorkInv, Current
  <2>2. Pushing <=> Pushing'
    BY <1>1, <2>1 DEF Pushing, Unpushed
  <2>3. Published' /\ \A d \in claims' : d.run \in RunIds
    BY <1>1, <2>1 DEF PublishedInv, Published
  <2> QED
    BY <1>1, <2>1, <2>2, <2>3, NothingCommitted
<1>2. worker[r] # "none" /\ worker[r] # "commit" => index = Tree(head)
  BY OneWorker DEF PublishedInv, WorkInv
<1>3. worker[r] = "commit" => index = Tree(head) \/ index = disk
  BY DEF PublishedInv
<1>4. CASE Checkout(r, "checkout", "write") \/ Checkout(r, "branch", "add")
  BY <1>1, <1>2, <1>4 DEF Checkout, At, Commands, Unpushed, PublishedInv
<1>5. CASE WriteFiles(r)
  <2>1. Current(r).item \in disk'
    BY <1>5 DEF WriteFiles, May, Bearable
  <2> QED
    BY <1>1, <1>2, <1>5, <2>1 DEF WriteFiles, At, Commands, Unpushed
<1>6. CASE GitAdd(r)
  BY <1>1, <1>2, <1>6 DEF GitAdd, At, Commands, Unpushed, PublishedInv
<1>7. CASE NothingStaged(r)
  <2>1. /\ worker[r] = "commit" /\ index = Tree(head)
        /\ UNCHANGED <<head, refs, index, disk, remote>>
    BY <1>7 DEF NothingStaged, At, repoVars
  <2>2. Current(r).item \in disk
    BY <2>1 DEF PublishedInv
  <2>3. (Continue(r, "head") /\ disk = index) \/ Continue(r, "undoTip")
    BY <1>7 DEF NothingStaged
  <2> QED
    BY <1>1, <2>1, <2>2, <2>3 DEF Commands, Unpushed
<1>8. CASE EnsureOrigin(r)
  <2>1. /\ worker[r] = "origin" /\ UNCHANGED <<head, refs, index, disk, remote>>
        /\ Continue(r, "push")
    BY <1>8 DEF EnsureOrigin, At, repoVars, May, Bearable
  <2>2. Current(r).item \in Tree(head)
    BY <2>1 DEF PublishedInv
  <2> QED
    BY <1>1, <1>2, <2>1, <2>2 DEF Commands, Unpushed
<1>9. CASE PushFails(r)
  <2>1. worker[r] = "push" /\ UNCHANGED <<head, refs, index, disk, remote>>
    BY <1>9 DEF PushFails, At, repoVars
  <2>2. Continue(r, "undoLast") \/ Continue(r, "undoFinal")
    BY <1>9 DEF PushFails
  <2> QED
    BY <1>1, <1>2, <2>1, <2>2 DEF Commands, Unpushed
<1>10. CASE RevParse(r)
  BY <1>10, ReportIsPublished DEF RevParse
<1>11. ~GitCommitFails(r)
  BY DEF GitCommitFails, May, Bearable
<1> QED
  BY <1>4, <1>5, <1>6, <1>7, <1>8, <1>9, <1>10, <1>11, CommitHoldsWork,
     PushPublishes, UndoUnpublished DEF CommitStep

LEMMA PublishedStep ==
  ASSUME Runs \in Nat, setting.faults \subseteq Bearable,
         WorkInv, PublishedInv, [RepoNext]_repo
  PROVE  PublishedInv'
<1>1. CASE UNCHANGED repo
  BY <1>1 DEF repo, driverVars, repoVars, PublishedInv, Tree, Current, Reached,
              Pushing, Published
<1>2. ASSUME NEW r \in RunIds PROVE ~Abandon(r)
  BY DEF Abandon, May, Bearable
<1> QED
  BY <1>1, <1>2, StartTaskPublished, CommitStepPublished DEF RepoNext

LEMMA PublishedInit ==
  ASSUME Runs \in Nat, ~setting.empty, RepoInit
  PROVE  PublishedInv
<1> DEFINE first == [id |-> 1, items |-> {}]
<1>1. refs[head] = <<first>> /\ Last(refs[head]) = first
  <2>1. head = 0 /\ refs[0] = <<first>>
    <3>1. 0 \in 0 .. Runs
      OBVIOUS
    <3>2. refs = [b \in 0 .. Runs |-> IF b = 0 /\ ~setting.empty THEN <<first>> ELSE <<>>]
      BY DEF RepoInit
    <3>3. head = 0
      BY DEF RepoInit
    <3>4. refs[0] = <<first>>
      BY <3>1, <3>2
    <3> QED
      BY <3>3, <3>4
  <2>2. Len(<<first>>) = 1 /\ <<first>>[1] = first
    OBVIOUS
  <2> QED
    BY <2>1, <2>2 DEF Last
<1>2. index = Tree(head)
  BY <1>1 DEF RepoInit, Tree
<1>3. remote \in [RunIds -> Seq(Commit)]
  BY DEF RepoInit
<1>4. ~Pushing
  BY DEF RepoInit, Pushing, Unpushed
<1>5. \A i \in 1 .. Len(refs[head]) : Reached(refs[head][i], remote, run)
  BY <1>1 DEF Reached
<1>6. \A r \in RunIds : worker[r] = "none"
  BY DEF RepoInit
<1>7. claims = {} /\ refs[head] # <<>>
  BY <1>1 DEF RepoInit
<1> QED
  BY <1>2, <1>3, <1>4, <1>5, <1>6, <1>7 DEF PublishedInv, Published

\* Every commit a code or research task is reported with is at Gitea and holds
\* the task's work, for any number of runs, plans and retries, whatever
\* checkouts, git adds and pushes fail or are applied without an answer.
THEOREM ReportedIsPublished ==
  ASSUME Runs \in Nat, PlansAreTasks
  PROVE  RepoSpec => []ClaimedIsPublished
<1> DEFINE Harmless == ~setting.empty /\ setting.faults \subseteq Bearable
           Inv == Harmless => WorkInv /\ PublishedInv
<1>1. RepoInit => Inv
  BY WorkInit, PublishedInit
<1>2. Inv /\ [RepoNext]_repo => Inv'
  <2> SUFFICES ASSUME Inv, [RepoNext]_repo, Harmless' PROVE (WorkInv /\ PublishedInv)'
    OBVIOUS
  <2>1. Harmless /\ "abandon" \notin setting.faults
    BY SettingStays DEF Bearable
  <2> QED
    BY <2>1, WorkStep, PublishedStep
<1>3. Inv => ClaimedIsPublished
  BY DEF ClaimedIsPublished, PublishedInv
<1> QED
  BY <1>1, <1>2, <1>3, PTL DEF RepoSpec
=============================================================================
