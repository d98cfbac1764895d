---------------------------- MODULE RunContract ----------------------------
(***************************************************************************)
(* What a caller of Engine.run may rely on, whatever happens inside: tasks *)
(* are reported in plan order, one result each; the first result that is   *)
(* not COMMIT is the last; the verdict is given once, is success only for  *)
(* a fully committed plan, and is failure only after a failed result or a  *)
(* SIGINT; a crashed run gives no verdict.                                 *)
(***************************************************************************)
EXTENDS Integers, Sequences

CONSTANTS Plans

VARIABLES
    plan,        \* the tasks of the run
    dryRun,      \* parse only
    outcome,     \* the results so far
    interrupted, \* a SIGINT was delivered
    verdict,     \* RunResult.success
    status       \* the run as its caller sees it

vars == <<plan, dryRun, outcome, interrupted, verdict, status>>

Outcomes == {"COMMIT", "FAILED", "CANCELLED"}

Clean == \A i \in 1..Len(outcome) : outcome[i] = "COMMIT"

Init ==
    /\ plan \in Plans
    /\ dryRun \in BOOLEAN
    /\ outcome = <<>>
    /\ interrupted = FALSE
    /\ verdict = "none"
    /\ status = "running"

\* A task ends, while none before it failed and tasks remain.  The step that
\* records a failed task may be the one that crashes the run.
EndTask(s) ==
    /\ status = "running"
    /\ verdict = "none"
    /\ Clean
    /\ Len(outcome) < Len(plan)
    /\ outcome' = Append(outcome, s)
    /\ status' \in IF s = "COMMIT" THEN {"running"} ELSE {"running", "crashed"}
    /\ UNCHANGED <<plan, dryRun, interrupted, verdict>>

Decide(v) ==
    /\ status = "running"
    /\ verdict = "none"
    /\ v = "success" => Clean /\ Len(outcome) = Len(plan)
    /\ v = "failure" => ~Clean \/ interrupted
    /\ verdict' = v
    /\ UNCHANGED <<plan, dryRun, outcome, interrupted, status>>

\* A dry run succeeds without running a task.
DryRun ==
    /\ status = "running"
    /\ dryRun
    /\ outcome = <<>>
    /\ verdict' = "success"
    /\ status' = "returned"
    /\ UNCHANGED <<plan, dryRun, outcome, interrupted>>

Return ==
    /\ status = "running"
    /\ verdict # "none"
    /\ status' = "returned"
    /\ UNCHANGED <<plan, dryRun, outcome, interrupted, verdict>>

Crash ==
    /\ status = "running"
    /\ verdict = "none"
    /\ status' = "crashed"
    /\ UNCHANGED <<plan, dryRun, outcome, interrupted, verdict>>

Interrupt ==
    /\ status = "running"
    /\ interrupted' = TRUE
    /\ UNCHANGED <<plan, dryRun, outcome, verdict, status>>

Next ==
    \/ \E s \in Outcomes : EndTask(s)
    \/ \E v \in {"success", "failure"} : Decide(v)
    \/ DryRun \/ Return \/ Crash \/ Interrupt

Spec == Init /\ [][Next]_vars
=============================================================================
