---------------------------- MODULE Orchestrator ----------------------------
(***************************************************************************)
(* What an engine run leaves in engine.db beside its pipeline: the session  *)
(* row with its counters and the oracle lock, the re-plan records, the      *)
(* oracle's atoms, the checkpoint, the report and the capability gaps       *)
(* (engine/orchestrator/*.py, engine/state.py), and what `ace resume' makes *)
(* of it.                                                                   *)
(*                                                                          *)
(* Every helper opens a connection of its own, so one action is one         *)
(* transaction.  A run's id is the second it started in (engine.py:69): two *)
(* processes may have the same one, and then share every row.  The task     *)
(* loop is EnginePipeline's; here a process drives one task, since the      *)
(* first failure ends a run, and a step `generate' is all its attempts.     *)
(***************************************************************************)
EXTENDS Integers, FiniteSets, TLC

CONSTANTS
    Procs,       \* engine processes, one Engine.run each
    Ids,         \* run ids, in the order of time
    MaxCalls,    \* max_llm_calls; 0 is unbounded
    MaxReplans,  \* max_replans_per_task
    Cap,         \* max_oracle_escalations_per_run
    Attempts,    \* max_retries_generate
    AtomIds,     \* names the oracle may give its atoms
    Answers      \* the patches the brain's model may answer

ASSUME OrchestratorAssumption ==
    /\ IsFiniteSet(Procs) /\ Ids \subseteq Nat
    /\ {MaxCalls, MaxReplans, Cap, Attempts} \subseteq Nat

VARIABLES
    pc,        \* pc[p]: the next step of process p
    id,        \* id[p]: its run id
    task,      \* task[p]: its task's definition, as patches have changed it
    tries,     \* re-plans of the task so far
    outcome,   \* outcome[p]: the state of its task result
    row,       \* orchestrator_session
    replans,   \* orchestrator_replans
    failures,  \* failures[r]: equal signatures among the VALIDATE rows of engine_task_results
    atoms,     \* atoms[r]: oracle_atoms, from atom_id to depends_on
    saved,     \* saved[r]: the row of engine_runs
    reports,   \* orchestrator_reports
    gaps       \* gaps[r]: signals in capability_gaps

local == <<id, task, tries, outcome>>
records == <<replans, failures, atoms, reports, gaps>>
vars == <<pc, local, row, saved, records>>

NoRow == [calls |-> -1]
NoProc == "nobody"
NotSaved == [state |-> "none"]

Goto(p, l) == pc' = [pc EXCEPT ![p] = l]
At(p, l) == pc[p] = l
Row(p) == row[id[p]]

\* transition() saves the whole row again, tasks with every attribute they
\* have, but neither prd_path nor project_path nor an error message.
Checkpoint(p, s) ==
    saved' = [saved EXCEPT ![id[p]] =
                [state |-> s, prd |-> "", patched |-> task[p].patched, error |-> ""]]

\* The task ends in state s, and the run with it.
Ends(p, s) ==
    /\ outcome' = [outcome EXCEPT ![p] = s] /\ Checkpoint(p, s) /\ Goto(p, "report")
    /\ UNCHANGED <<id, task, tries>>

----------------------------------------------------------------------------
(* The session row. *)

\* create_session: INSERT OR REPLACE, and the columns it does not name --
\* counters, last pushed SHA, oracle lock and count -- are new again.
FreshRow == [calls |-> 0, pushed |-> NoProc, lock |-> NoProc, escalations |-> 0]

Start(p) ==
    /\ At(p, "off")
    /\ \E r \in Ids :
          /\ \A q \in Procs : pc[q] # "off" => id[q] <= r
          /\ id' = [id EXCEPT ![p] = r]
          /\ row' = [row EXCEPT ![r] = FreshRow]
          /\ saved' = [saved EXCEPT ![r] = [state |-> "QUEUED", prd |-> "",
                                            patched |-> FALSE, error |-> ""]]
    /\ Goto(p, "generate")
    /\ UNCHANGED <<task, tries, outcome, records>>

\* increment_and_check: one UPDATE, then a read of the row it belongs to.
Exhausted(r) == MaxCalls > 0 /\ row[r].calls + 1 >= MaxCalls
Counted(p) == row' = [row EXCEPT ![id[p]].calls = @ + 1]

\* The attempts of the generate stage: stopped by the stop-file or the
\* budget; tested and pushed; or all failed validation, which leaves a row
\* for each attempt.  Nothing else is written to engine_task_results:
\* _save_terminal_result has no caller.
GenerateStopped(p) ==
    /\ At(p, "generate") /\ Ends(p, "CANCELLED")
    /\ (UNCHANGED row \/ (Exhausted(id[p]) /\ Counted(p)))
    /\ UNCHANGED records

GeneratePasses(p) ==
    /\ At(p, "generate") /\ ~Exhausted(id[p]) /\ Ends(p, "COMMIT")
    /\ row' = [row EXCEPT ![id[p]].calls = @ + 1, ![id[p]].pushed = p]
    /\ UNCHANGED records

GenerateFails(p) ==
    /\ At(p, "generate") /\ ~Exhausted(id[p]) /\ Counted(p) /\ Goto(p, "replan")
    /\ \E n \in {1, Attempts} :
          failures' = [failures EXCEPT ![id[p]] = IF n > @ THEN n ELSE @]
    /\ Checkpoint(p, "GENERATE")
    /\ UNCHANGED <<local, replans, atoms, reports, gaps>>

----------------------------------------------------------------------------
(* The re-plan brain. *)

Actions == {"re-spec", "reorder", "escalate-model", "fail", "create-stub", "swap-targeting"}

\* A parsed answer: `keys' when all keys are known, `code' when some string
\* looks like code, what its acceptance amendments do, and whether it adds
\* dependencies.
Patches == [action : Actions \union {"other"}, target : {"own", "other", "unknown"},
            keys : BOOLEAN, code : BOOLEAN,
            amends : {"none", "weakens", "strengthens", "both"}, adds : BOOLEAN]
ASSUME AnswersAssumption == Answers \subseteq Patches

Tightens(x) == x.amends = "strengthens"

\* _validate_structure, and validate_patch, which knows the tasks of the run.
ValidStructure(x) == x.keys /\ x.action \in Actions /\ ~x.code /\ ~Tightens(x)
ValidPatch(x) == ValidStructure(x) /\ x.target \in {"own", "other"}

Applicable(x) == ValidStructure(x) /\ x.target = "own"

NewState(x) ==
    CASE x.action = "fail" -> "FAILED"
      [] x.action = "reorder" -> "REORDERED"
      [] x.action = "escalate-model" -> "ESCALATED"
      [] x.action = "create-stub" -> "CREATE_STUB"
      [] x.action = "swap-targeting" -> "SWAP_TARGETING"
      [] OTHER -> "RE_SPEC"

\* Only a re-spec looks at dependencies and amendments.  orchestrator_state
\* is no field of Task, so a patched task cannot be made from its saved
\* attributes again.
Apply(t, x) ==
    [state |-> NewState(x), patched |-> TRUE,
     amended |-> IF x.action = "re-spec" THEN t.amended \union {x.amends} ELSE t.amended,
     deps |-> t.deps \/ (x.action = "re-spec" /\ x.adds)]

\* record_replan.  The raw response of a patch that was refused is kept too.
Record(p, validated, applied, own, adds) ==
    replans' = replans \union {[run |-> id[p], proc |-> p, validated |-> validated,
                                applied |-> applied, own |-> own, adds |-> adds]}

\* _maybe_replan: the trigger does not fire; the call is timed out or cut off
\* by the stop-file, which counts nothing; the transport or the parser fails;
\* the patch is refused, by validate_patch or when it is applied; or it is
\* applied.  The answer of increment_and_check is ignored here.
NoReplan(p) ==
    /\ At(p, "replan") /\ Goto(p, "flight")
    /\ \/ UNCHANGED <<row, replans>>
       \/ tries[p] < MaxReplans /\ Record(p, FALSE, FALSE, FALSE, FALSE)
                                /\ (UNCHANGED row \/ Counted(p))
    /\ UNCHANGED <<local, saved, failures, atoms, reports, gaps>>

RefusedReplan(p) ==
    /\ At(p, "replan") /\ tries[p] < MaxReplans /\ Goto(p, "flight") /\ Counted(p)
    /\ \E x \in Answers :
          /\ ~(ValidPatch(x) /\ Applicable(x))
          /\ Record(p, ValidPatch(x), FALSE, x.target = "own", x.adds)
    /\ UNCHANGED <<local, saved, failures, atoms, reports, gaps>>

AppliedReplan(p) ==
    /\ At(p, "replan") /\ tries[p] < MaxReplans /\ Goto(p, "again") /\ Counted(p)
    /\ tries' = [tries EXCEPT ![p] = @ + 1]
    /\ \E x \in Answers :
          /\ ValidPatch(x) /\ Applicable(x)
          /\ task' = [task EXCEPT ![p] = Apply(@, x)]
          /\ Record(p, TRUE, TRUE, x.target = "own", x.adds)
    /\ UNCHANGED <<id, outcome, saved, failures, atoms, reports, gaps>>

\* The amended task is generated and validated once more.
Again(p) ==
    /\ At(p, "again")
    /\ \/ /\ Ends(p, "COMMIT")
          /\ row' = [row EXCEPT ![id[p]].calls = @ + 1, ![id[p]].pushed = p]
       \/ Counted(p) /\ Goto(p, "replan") /\ Checkpoint(p, "VALIDATE") /\ UNCHANGED local
    /\ UNCHANGED records

----------------------------------------------------------------------------
(* The oracle. *)

\* should_escalate_to_oracle and acquire_oracle_lock look at the lock twice
\* and write it in a third transaction.
IfFree(p, here, next) ==
    /\ At(p, here)
    /\ IF Row(p).lock = NoProc
       THEN Goto(p, next) /\ UNCHANGED <<local, saved>> ELSE Ends(p, "FAILED")
    /\ UNCHANGED <<row, records>>
InFlight(p) == IfFree(p, "flight", "count")
ReadLock(p) == IfFree(p, "lock", "setLock")

BelowCap(p) ==
    /\ At(p, "count")
    /\ IF Row(p).escalations < Cap
       THEN Goto(p, "lock") /\ UNCHANGED <<local, saved>> ELSE Ends(p, "FAILED")
    /\ UNCHANGED <<row, records>>

SetLock(p) ==
    /\ At(p, "setLock") /\ Goto(p, "digest")
    /\ row' = [row EXCEPT ![id[p]].lock = p]
    /\ UNCHANGED <<local, saved, records>>

\* A digest maps the atoms it names to the ones they depend on.
Digests == UNION {[A -> SUBSET AtomIds] : A \in (SUBSET AtomIds) \ {{}}}
Closed(d) == \A a \in DOMAIN d : d[a] \subseteq DOMAIN d
Acyclic(d) ==
    \A A \in SUBSET DOMAIN d : A # {} => \E a \in A : d[a] \intersect A = {}

\* validate_digest; fields, sizes, coverage and code tokens refuse some digest
\* or other and no particular graph.
AnyGraph(d) == Closed(d)
ValidDigest(d) == Closed(d) /\ Acyclic(d)

\* The atoms of a digest replace those of the same name.
Replacing(d, old) ==
    [a \in DOMAIN d \union DOMAIN old |-> IF a \in DOMAIN d THEN d[a] ELSE old[a]]

\* digest_prd: the oracle's answer or, when it is unreachable or invalid, the
\* fallback model's.
Digest(p) ==
    /\ At(p, "digest") /\ Goto(p, "tally")
    /\ \E d \in Digests :
          ValidDigest(d) /\ atoms' = [atoms EXCEPT ![id[p]] = Replacing(d, @)]
    /\ UNCHANGED <<local, row, saved, replans, failures, reports, gaps>>

\* Both answers failed: one call is counted all the same.  Or something
\* raised.
NoDigest(p) ==
    /\ At(p, "digest") /\ Goto(p, "release")
    /\ (Counted(p) \/ UNCHANGED row)
    /\ UNCHANGED <<local, saved, records>>

\* increment_and_check, and then the count of escalations.
Tally(p) ==
    /\ At(p, "tally") /\ Goto(p, "escalated") /\ Counted(p)
    /\ UNCHANGED <<local, saved, records>>
Escalated(p) ==
    /\ At(p, "escalated") /\ Goto(p, "release")
    /\ row' = [row EXCEPT ![id[p]].escalations = @ + 1]
    /\ UNCHANGED <<local, saved, records>>

\* As Release, if the lock were only cleared by a counted escalation.
KeepsLock(p) ==
    /\ At(p, "release") /\ Ends(p, "FAILED")
    /\ row' = [row EXCEPT ![id[p]].lock = IF Row(p).escalations > 0 THEN NoProc ELSE @]
    /\ UNCHANGED records

\* The finally clause clears the lock, whoever holds it.  The atoms are never
\* run: the task fails.
Release(p) ==
    /\ At(p, "release") /\ Ends(p, "FAILED")
    /\ row' = [row EXCEPT ![id[p]].lock = NoProc]
    /\ UNCHANGED records

----------------------------------------------------------------------------
(* The end of a run. *)

\* build_run_report reads the rows of the run id; a criterion is met if its
\* task reached COMMIT.
Report(p) ==
    /\ At(p, "report") /\ Goto(p, "scan")
    /\ \/ reports' = reports \union {[run |-> id[p], proc |-> p, state |-> outcome[p]]}
       \/ UNCHANGED reports
    /\ UNCHANGED <<local, row, saved, replans, failures, atoms, gaps>>

\* The extractors.  G2 matches trigger reasons, which evaluate_trigger words
\* and which never mention missing information; G3 wants a FAILED row.
G1(r) == failures[r] >= 3
G2(r) == FALSE
G3(r) == FALSE
G6(r) == \E x \in replans : x.run = r /\ x.adds
G8(r) == saved[r].state = "CANCELLED" /\ saved[r].error # ""
Signals(r) ==
    {s \in {"G1", "G2", "G3", "G6", "G8"} :
        CASE s = "G1" -> G1(r) [] s = "G2" -> G2(r) [] s = "G3" -> G3(r)
          [] s = "G6" -> G6(r) [] OTHER -> G8(r)}

\* scan_run and persist_gap_report, in one transaction; what they raise is
\* logged.
Scan(p) ==
    /\ At(p, "scan") /\ Goto(p, "done")
    /\ gaps' = [gaps EXCEPT ![id[p]] = @ \union Signals(id[p])]
    /\ UNCHANGED <<local, row, saved, replans, failures, atoms, reports>>
ScanFails(p) ==
    /\ At(p, "scan") /\ Goto(p, "done")
    /\ UNCHANGED <<local, row, saved, records>>

\* The process dies between any two steps.
Die(p) ==
    /\ pc[p] \notin {"off", "done", "dead", "resumed", "refused"} /\ Goto(p, "dead")
    /\ UNCHANGED <<local, row, saved, records>>

\* `ace resume' of a dead run: Pipeline.resume makes the tasks again, which
\* fails for a patched one, and Engine.run starts over with the saved paths.
\* parse_prd opens the empty path.
Resume(p) ==
    /\ At(p, "dead")
    /\ Goto(p, IF saved[id[p]].patched \/ saved[id[p]].prd = "" THEN "refused" ELSE "resumed")
    /\ UNCHANGED <<local, row, saved, records>>

----------------------------------------------------------------------------
(* The whole. *)

Init ==
    /\ pc = [p \in Procs |-> "off"] /\ id = [p \in Procs |-> 0]
    /\ task = [p \in Procs |-> [state |-> "PENDING", patched |-> FALSE, amended |-> {},
                                deps |-> FALSE]]
    /\ tries = [p \in Procs |-> 0] /\ outcome = [p \in Procs |-> "none"]
    /\ row = [r \in Ids |-> NoRow] /\ saved = [r \in Ids |-> NotSaved]
    /\ replans = {} /\ failures = [r \in Ids |-> 0]
    /\ atoms = [r \in Ids |-> <<>>] /\ reports = {} /\ gaps = [r \in Ids |-> {}]

Escalate(p) ==
    \/ InFlight(p) \/ BelowCap(p) \/ ReadLock(p) \/ SetLock(p)
    \/ Digest(p) \/ NoDigest(p) \/ Tally(p) \/ Escalated(p) \/ Release(p)

Step(p) ==
    \/ Start(p) \/ GenerateStopped(p) \/ GeneratePasses(p) \/ GenerateFails(p)
    \/ NoReplan(p) \/ RefusedReplan(p) \/ AppliedReplan(p) \/ Again(p)
    \/ Escalate(p) \/ Report(p) \/ Scan(p) \/ ScanFails(p)

Next == \E p \in Procs : Step(p) \/ Die(p) \/ Resume(p)

Spec == Init /\ [][Next]_vars

----------------------------------------------------------------------------
(* Properties. *)

Escalating == {"digest", "tally", "escalated", "release"}

\* A lock that nobody holds any more would bar every later escalation of the
\* run: a set oracle lock belongs to an escalation under way, or to a process
\* that died in one (oracle_escalate.py:258, 318).
LockHasHolder ==
    \A r \in Ids : row[r] # NoRow /\ row[r].lock # NoProc =>
        LET p == row[r].lock IN id[p] = r /\ pc[p] \in Escalating \union {"dead", "refused"}

\* Digests of several escalations overwrite each other's atoms by name in
\* oracle_atoms; what is there can still be run in some order
\* (oracle_digest.py:154, 357).
AtomsCanBeOrdered == \A r \in Ids : Closed(atoms[r]) /\ Acyclic(atoms[r])

\* "`python3 cli.py ace resume --run <id>` to recover from a crash by loading the
\* last checkpoint from SQLite" (design_drafts/EPICS.md:66): the resume of a run
\* that died is not refused.
DeadRunsResume == \A p \in Procs : pc[p] # "refused"

=============================================================================
