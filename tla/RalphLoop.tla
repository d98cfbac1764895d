----------------------------- MODULE RalphLoop -----------------------------
(***************************************************************************)
(* The outer Ralph loop: engine/workflows/ralph/round_driver.py, its gates *)
(* and cli.py's `ralph run' and `ralph resume'.                            *)
(*                                                                         *)
(* One Ralph run in engine.db, and the processes that run or resume it.    *)
(* Every helper opens a connection of its own and commits, so a step here  *)
(* is one transaction, or one look at the stop-file.  The driver makes no  *)
(* commit itself (its engine run is a scaffold), so the revert of a failed *)
(* round finds nothing to do and the work tree is left out.                *)
(*                                                                         *)
(* What a round is made of is RalphRound's: Inside, at the end.            *)
(***************************************************************************)
EXTENDS Integers, FiniteSets, Sequences

CONSTANTS
    Procs,        \* operating system processes
    Configs,      \* RalphConfigs: max_ralph_rounds and the kind of gates
    MaxWall,      \* max_wall_clock_s; 0 is unbounded
    MaxCost,      \* the longest a round's gates take
    MaxResumes,   \* bound on `ralph resume'
    MaxDeaths     \* bound on processes that die

CONSTANTS         \* of the inside of a round
    Texts, Big, Stub, Filler, Objective, Sim, Marks, Configured, Threshold, Needed, MaxRounds

GateKinds == {"code", "research"}

ASSUME ConfigsAssumption ==
    /\ Configs \subseteq [rounds : Nat \ {0}, gates : GateKinds]
    /\ {MaxWall, MaxCost, MaxResumes, MaxDeaths} \subseteq Nat
    /\ Configs # {} /\ IsFiniteSet(Procs)

VARIABLES
    state,     \* ralph_runs.state, "none" before the row exists
    rounds,    \* table ralph_rounds
    spent,     \* SUM(wall_clock_s) of ralph_rounds
    reports,   \* table ralph_reports, as a set
    stop,      \* the stop-file exists
    pc,        \* what each process does next
    conf,      \* its RalphConfig
    round,     \* its round_num
    prev,      \* its previous_reports, as a set
    outcome,   \* its RalphResult.state
    verdict,   \* what the gates said of its current round
    overlap,   \* history: two processes were in the run at the same time
    orphaned,  \* history: a process died in the loop
    resumes, deaths

\* The inside of a round.
VARIABLES setting, within, prior, stored, texts, scored, selected, facts, judged, chosen

dbVars == <<state, rounds, spent, reports>>
locals == <<conf, round, prev, outcome, verdict>>
procVars == <<pc, locals>>
histVars == <<overlap, orphaned, resumes, deaths>>
vars == <<dbVars, stop, procVars, histVars>>

Verdict == {"completed", "failed"}
Row == [round : Nat, state : Verdict]
NoConfig == CHOOSE c \in Configs : TRUE

\* The places of a process inside _run_loop.
Loop == {"check", "stopfile", "gates", "persist", "report", "cancel", "finalize"}
Resuming == {"load", "clean", "recheck", "find", "fetch", "claim"}

Goto(p, l) == pc' = [pc EXCEPT ![p] = l]

\* The call returns or raises; its locals are gone.
Leave(p) ==
    /\ Goto(p, "idle")
    /\ conf' = [conf EXCEPT ![p] = NoConfig]
    /\ round' = [round EXCEPT ![p] = 0]
    /\ prev' = [prev EXCEPT ![p] = {}]
    /\ outcome' = [outcome EXCEPT ![p] = "completed"]
    /\ verdict' = [verdict EXCEPT ![p] = "failed"]

Others(p) == {q \in Procs \ {p} : pc[q] # "idle"}

----------------------------------------------------------------------------
(* Starting and resuming. *)

\* run_ralph: INSERT of the row; an id that exists raises IntegrityError.
Run(p, c) ==
    /\ pc[p] = "idle" /\ state = "none"
    /\ state' = "running"
    /\ Goto(p, "check")
    /\ conf' = [conf EXCEPT ![p] = c]
    /\ round' = [round EXCEPT ![p] = 1]
    /\ prev' = [prev EXCEPT ![p] = {}]
    /\ outcome' = [outcome EXCEPT ![p] = "completed"]   \* the field's default
    /\ overlap' = (overlap \/ Others(p) # {})
    /\ UNCHANGED <<rounds, spent, reports, stop, verdict, orphaned, resumes, deaths>>

\* resume_ralph, _acquire_lock: BEGIN IMMEDIATE, a SELECT and COMMIT, which ends
\* the lock.  Without the row it raises RalphRunBusyError.
Lock(p, c) ==
    /\ pc[p] = "idle" /\ state # "none" /\ resumes < MaxResumes
    /\ resumes' = resumes + 1
    /\ Goto(p, "load")
    /\ conf' = [conf EXCEPT ![p] = c]
    /\ overlap' = (overlap \/ Others(p) # {})
    /\ UNCHANGED <<dbVars, stop, round, prev, outcome, verdict, orphaned, deaths>>

\* (variant) A run whose driver died may be resumed as well.
AnyUnfinished == {"failed", "cancelled", "running"}

\* (variant) A completed run may be given more rounds.
AnyEnded == {"failed", "cancelled", "completed"}

Resumable == {"failed", "cancelled"}

\* The state of the run: a RalphError unless it failed or was cancelled.
Load(p) ==
    /\ pc[p] = "load"
    /\ IF state \in Resumable
       THEN Goto(p, "clean") /\ UNCHANGED locals
       ELSE Leave(p)
    /\ UNCHANGED <<dbVars, stop, histVars>>

\* A dirty work tree is stashed; DirtyWorktreeError when that fails.
Clean(p) ==
    /\ pc[p] = "clean"
    /\ \/ Goto(p, "recheck") /\ UNCHANGED locals
       \/ Leave(p)
    /\ UNCHANGED <<dbVars, stop, histVars>>

\* (variant) The cap itself may still be spent.
PastCap == MaxWall > 0 /\ spent > MaxWall

\* _check_budget_exhausted.  The loop makes no LLM call it counts, so the wall
\* clock is the only cap that can be reached.
Exhausted == MaxWall > 0 /\ spent >= MaxWall

\* BudgetExhaustedError leaves resume_ralph.
Recheck(p) ==
    /\ pc[p] = "recheck"
    /\ IF Exhausted THEN Leave(p) ELSE Goto(p, "find") /\ UNCHANGED locals
    /\ UNCHANGED <<dbVars, stop, histVars>>

CompletedIds == {rounds[i].round : i \in {j \in DOMAIN rounds : rounds[j].state = "completed"}}

LastCompleted == CHOOSE n \in CompletedIds : \A m \in CompletedIds : m <= n

\* _last_completed_round, and the round after it.
StartRound == IF CompletedIds = {} THEN 1 ELSE LastCompleted + 1

FindLast(p) ==
    /\ pc[p] = "find"
    /\ round' = [round EXCEPT ![p] = StartRound]
    /\ prev' = [prev EXCEPT ![p] = {}]
    /\ Goto(p, IF CompletedIds = {} THEN "claim" ELSE "fetch")
    /\ UNCHANGED <<dbVars, stop, conf, outcome, verdict, histVars>>

\* _load_reports, up to the last completed round.
Fetch(p) ==
    /\ pc[p] = "fetch"
    /\ prev' = [prev EXCEPT ![p] = {r \in reports : r.round < round[p]}]
    /\ Goto(p, "claim")
    /\ UNCHANGED <<dbVars, stop, conf, round, outcome, verdict, histVars>>

Claim(p) ==
    /\ pc[p] = "claim"
    /\ state' = "running"
    /\ outcome' = [outcome EXCEPT ![p] = "completed"]
    /\ Goto(p, "check")
    /\ UNCHANGED <<rounds, spent, reports, stop, conf, round, prev, verdict, histVars>>

----------------------------------------------------------------------------
(* _run_loop and _execute_round. *)

Cancelled(p) ==
    /\ outcome' = [outcome EXCEPT ![p] = "cancelled"]
    /\ Goto(p, "cancel")

\* The head of the for loop: the round limit, then the budget.
Check(p) ==
    /\ pc[p] = "check"
    /\ IF round[p] > conf[p].rounds THEN Goto(p, "finalize") /\ UNCHANGED outcome
       ELSE IF Exhausted THEN Cancelled(p)
       ELSE Goto(p, "stopfile") /\ UNCHANGED outcome
    /\ UNCHANGED <<dbVars, stop, conf, round, prev, verdict, histVars>>

\* (variant) The stop-file pauses the loop.
StopFilePauses(p) ==
    /\ pc[p] = "stopfile" /\ ~stop
    /\ Goto(p, "gates")
    /\ UNCHANGED <<dbVars, stop, locals, histVars>>

StopFile(p) ==
    /\ pc[p] = "stopfile"
    /\ IF stop THEN Cancelled(p) ELSE Goto(p, "gates") /\ UNCHANGED outcome
    /\ UNCHANGED <<dbVars, stop, conf, round, prev, verdict, histVars>>

\* evaluate_gate_sequence stops at the first gate that fails or raises.  The
\* code sequence begins with the Dev gate, which is handed the objective, a
\* string, where it expects generated code, and so always fails.  The research
\* sequence fails as the Evidence gate stands (RalphRound); it is left open here,
\* as the tests replace the gates.
Verdicts(kind) == IF kind = "code" THEN {"failed"} ELSE {"completed", "failed"}

\* Ideation, whose failure is ignored, and the gates; an exception is a failure.
Gates(p) ==
    /\ pc[p] = "gates"
    /\ \E v \in Verdicts(conf[p].gates) : verdict' = [verdict EXCEPT ![p] = v]
    /\ Goto(p, "persist")
    /\ UNCHANGED <<dbVars, stop, conf, round, prev, outcome, histVars>>

RowOf(p) == [round |-> round[p], state |-> verdict[p]]

\* (variant) Only a round that passed its gates is recorded.
PersistCompleted(p) ==
    /\ pc[p] = "persist"
    /\ rounds' = IF verdict[p] = "completed" THEN Append(rounds, RowOf(p)) ELSE rounds
    /\ \E cost \in 0 .. MaxCost : spent' = spent + cost
    /\ Goto(p, "report")
    /\ UNCHANGED <<state, reports, stop, locals, histVars>>

\* _persist_round, with the time the gates took.
Persist(p) ==
    /\ pc[p] = "persist"
    /\ rounds' = Append(rounds, RowOf(p))
    /\ \E cost \in 0 .. MaxCost : spent' = spent + cost
    /\ Goto(p, "report")
    /\ UNCHANGED <<state, reports, stop, locals, histVars>>

\* _persist_report, and on to the next round.
PersistReport(p) ==
    /\ pc[p] = "report"
    /\ reports' = reports \cup {RowOf(p)}
    /\ prev' = [prev EXCEPT ![p] = @ \cup {RowOf(p)}]
    /\ round' = [round EXCEPT ![p] = @ + 1]
    /\ verdict' = [verdict EXCEPT ![p] = "failed"]
    /\ Goto(p, "check")
    /\ UNCHANGED <<state, rounds, spent, stop, conf, outcome, histVars>>

\* The except clauses of the loop record the cancellation ...
Cancel(p) ==
    /\ pc[p] = "cancel"
    /\ state' = "cancelled"
    /\ Goto(p, "finalize")
    /\ UNCHANGED <<rounds, spent, reports, stop, locals, histVars>>

\* ... and the end of _run_loop records the result, again.  The result starts
\* out as "completed", so the branch for "running" is never taken.
Finalize(p) ==
    /\ pc[p] = "finalize"
    /\ state' = outcome[p]
    /\ Leave(p)
    /\ UNCHANGED <<rounds, spent, reports, stop, histVars>>

----------------------------------------------------------------------------
(* The world. *)

\* A process dies: a signal, or a `database is locked' that nothing catches.
Die(p) ==
    /\ pc[p] # "idle" /\ deaths < MaxDeaths
    /\ deaths' = deaths + 1
    /\ orphaned' = (orphaned \/ pc[p] \in Loop)
    /\ Leave(p)
    /\ UNCHANGED <<dbVars, stop, overlap, resumes>>

\* The operator makes or removes the stop-file.
TurnStop ==
    /\ stop' = ~stop
    /\ UNCHANGED <<dbVars, procVars, histVars>>

----------------------------------------------------------------------------
Init ==
    /\ state = "none" /\ rounds = <<>> /\ spent = 0 /\ reports = {}
    /\ stop = FALSE
    /\ pc = [p \in Procs |-> "idle"]
    /\ conf = [p \in Procs |-> NoConfig]
    /\ round = [p \in Procs |-> 0]
    /\ prev = [p \in Procs |-> {}]
    /\ outcome = [p \in Procs |-> "completed"]
    /\ verdict = [p \in Procs |-> "failed"]
    /\ overlap = FALSE /\ orphaned = FALSE
    /\ resumes = 0 /\ deaths = 0

Step(p) ==
    \/ Load(p) \/ Clean(p) \/ Recheck(p) \/ FindLast(p) \/ Fetch(p) \/ Claim(p)
    \/ Check(p) \/ StopFile(p) \/ Gates(p) \/ Persist(p) \/ PersistReport(p)
    \/ Cancel(p) \/ Finalize(p)

Next ==
    \/ \E p \in Procs, c \in Configs : Run(p, c) \/ Lock(p, c)
    \/ \E p \in Procs : Step(p) \/ Die(p)
    \/ TurnStop

Spec == Init /\ [][Next]_vars

----------------------------------------------------------------------------
(* Properties. *)

TypeOK ==
    /\ state \in {"none", "running", "completed", "failed", "cancelled"}
    /\ rounds \in Seq(Row) /\ reports \in SUBSET Row /\ spent \in Nat
    /\ stop \in BOOLEAN
    /\ pc \in [Procs -> Loop \cup Resuming \cup {"idle"}]
    /\ conf \in [Procs -> Configs]
    /\ round \in [Procs -> Nat] /\ prev \in [Procs -> SUBSET Row]
    /\ outcome \in [Procs -> {"completed", "cancelled"}]
    /\ verdict \in [Procs -> Verdict]
    /\ overlap \in BOOLEAN /\ orphaned \in BOOLEAN
    /\ resumes \in Nat /\ deaths \in Nat

Ids == {rounds[i].round : i \in DOMAIN rounds}

\* However often a run is stopped, resumed, resumed by two processes at once or
\* left by a process that dies, its rounds are 1 .. n without a gap
\* (_last_completed_round, _run_loop).
NoRoundSkipped == \A n \in Ids : 1 .. n \subseteq Ids

\* The time spent passes the cap by less than one round of each process: no
\* round starts on a spent budget, and a check does not see the rounds that are
\* under way elsewhere (_check_budget_exhausted, _persist_round).
BudgetOvershoot ==
    MaxWall > 0 => spent <= MaxWall - 1 + MaxCost * Cardinality(Procs)

\* A run is recorded as running only while a process drives it, unless one died
\* in the loop: no refused or failed resume leaves it that way, and nobody could
\* resume it then (resume_ralph, _run_loop).
RunningIsDriven == state = "running" /\ ~orphaned => \E p \in Procs : pc[p] \in Loop

\* As long as no two processes were in the run at once, a resumed loop begins
\* with the report of the last completed round, although the row and the report
\* are two transactions: a process that dies in between leaves a run that cannot
\* be resumed (_persist_round, _persist_report, _load_reports).
ResumeKnowsLastRound ==
    ~overlap => \A p \in Procs : pc[p] = "claim" /\ round[p] > 1 =>
        [round |-> round[p] - 1, state |-> "completed"] \in prev[p]

\* As long as no two processes were in the run at once, `completed' is terminal
\* (resume_ralph).
CompletedIsTerminal == [][state = "completed" /\ ~overlap' => state' = "completed"]_vars

\* Every `ralph run' and `ralph resume' ends.
EveryDriverEnds == \A p \in Procs : pc[p] # "idle" ~> pc[p] = "idle"

----------------------------------------------------------------------------
(* The inside of a round. *)

roundVars == <<setting, within, prior, stored, texts, scored, selected, facts, judged, chosen>>

Inside == INSTANCE RalphRound WITH
    conf <- setting, pc <- within, round <- selected, verdict <- judged

\* No plan is that of a report that had to be shrunk; similarities, scores and
\* RalphConfig's numbers are numbers, and it asks for at least one round (config.py:81).
ASSUME RoundAssumption ==
    /\ Inside!Lost \notin Inside!Plans
    /\ Sim \in [Inside!Plans \X Inside!Plans -> 0 .. 10]
    /\ Marks \subseteq Int /\ Configured \in Int /\ Needed \in Nat \ {0}

\* G12: a plan close to those of the last rounds is noticed as a collapse, by a
\* resumed loop as well.
RepetitionIsNoticed == Inside!RepetitionIsNoticed

----------------------------------------------------------------------------
(* What the repository says and the code does not keep. *)

\* A run ends as "completed" (objective achieved) only if its rounds are.
FailedRoundFailsRun ==
    \A p \in Procs : pc[p] = "finalize" /\ outcome[p] = "completed" =>
        \A r \in prev[p] : r.state = "completed"
=============================================================================
