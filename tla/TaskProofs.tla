---------------------------- MODULE TaskProofs -----------------------------
(***************************************************************************)
(* Proofs about what becomes of a task: what a run records of it in        *)
(* engine.db (Orchestrator), for any number of engine processes, run ids,  *)
(* limits, atoms and model answers; how the legacy tools and the stages of *)
(* the engine make its files (CodeGenerator, WorkEngine, Stages); and how  *)
(* a PRD becomes tasks at all (Prd).                                       *)
(***************************************************************************)
EXTENDS Orchestrator, Generation, ListsProofs, SequenceTheorems, FiniteSetTheorems, TLAPS

-----------------------------------------------------------------------------
(* The inductive invariant. *)

Ended == {"report", "scan", "done"}
Places == {"off", "generate", "replan", "again", "flight", "count", "lock", "setLock",
           "dead", "resumed", "refused"} \union Escalating \union Ended

TaskStates == {"PENDING", "FAILED", "REORDERED", "ESCALATED", "CREATE_STUB",
               "SWAP_TARGETING", "RE_SPEC"}
Tasks == [state : TaskStates, patched : BOOLEAN, deps : BOOLEAN,
          amended : SUBSET {"none", "weakens", "strengthens", "both"}]
Rows == [calls : Nat, pushed : Procs \union {NoProc}, lock : Procs \union {NoProc},
         escalations : Nat]
RunStates == {"QUEUED", "GENERATE", "VALIDATE", "COMMIT", "FAILED", "CANCELLED"}
Saves == [state : RunStates, prd : {""}, patched : BOOLEAN, error : {""}]

TypeOK ==
    /\ pc \in [Procs -> Places] /\ id \in [Procs -> Ids \union {0}]
    /\ task \in [Procs -> Tasks] /\ tries \in [Procs -> 0 .. MaxReplans]
    /\ row \in [Ids -> Rows \union {NoRow}] /\ saved \in [Ids -> Saves \union {NotSaved}]
    /\ DOMAIN atoms = Ids

\* A process that has started has its row and its checkpoint.
Started == \A p \in Procs : pc[p] # "off" =>
              id[p] \in Ids /\ row[id[p]] \in Rows /\ saved[id[p]] \in Saves

\* No checkpoint names a PRD, so no resume gets past the empty path.
NeverResumed == \A p \in Procs : pc[p] # "resumed"

Inv == TypeOK /\ Started /\ NeverResumed /\ LockHasHolder

-----------------------------------------------------------------------------
(* Rows and checkpoints. *)

\* A row that is not there is no row of the session table.
LEMMA NoRowIsNone == NoRow \notin Rows /\ NotSaved \notin Saves
<1>1. \A x \in Rows : x.calls \in Nat
  BY DEF Rows
<1>2. \A x \in Saves : x.state \in RunStates
  BY DEF Saves
<1>3. NoRow.calls \notin Nat /\ NotSaved.state \notin RunStates
  BY DEF NoRow, NotSaved, RunStates
<1> QED  BY <1>1, <1>2, <1>3

\* What a step does to the row of its own run leaves the others' alone; the
\* row stays one, and so do those of the processes that have started.
RowsStay == row' \in [Ids -> Rows \union {NoRow}] /\ \A r \in Ids : row[r] \in Rows => row'[r] \in Rows
TalliesStay == \A r \in Ids : (row'[r] # NoRow <=> row[r] # NoRow)
                               /\ row'[r].escalations = row[r].escalations
LocksStay == \A r \in Ids : (row'[r] # NoRow <=> row[r] # NoRow) /\ row'[r].lock = row[r].lock

LEMMA CountedKeeps ==
    ASSUME TypeOK, Started, NEW p \in Procs, pc[p] # "off", Counted(p)
    PROVE  RowsStay /\ LocksStay /\ TalliesStay
<1> DEFINE r == id[p]
<1>1. r \in Ids /\ row[r] \in Rows
  BY DEF Started
<1>2. row' = [row EXCEPT ![r] = [row[r] EXCEPT !.calls = row[r].calls + 1]]
  BY DEF Counted
<1>3. [row[r] EXCEPT !.calls = row[r].calls + 1] \in Rows
      /\ [row[r] EXCEPT !.calls = row[r].calls + 1].lock = row[r].lock
      /\ [row[r] EXCEPT !.calls = row[r].calls + 1].escalations = row[r].escalations
  BY <1>1 DEF Rows
<1> HIDE DEF r
<1> QED  BY <1>1, <1>2, <1>3, NoRowIsNone DEF RowsStay, LocksStay, TalliesStay, TypeOK

LEMMA PushedKeeps ==
    ASSUME TypeOK, Started, NEW p \in Procs, pc[p] # "off",
           row' = [row EXCEPT ![id[p]].calls = @ + 1, ![id[p]].pushed = p]
    PROVE  RowsStay /\ LocksStay /\ TalliesStay
<1> DEFINE r == id[p]
           x == [calls |-> row[r].calls + 1, pushed |-> p, lock |-> row[r].lock,
                 escalations |-> row[r].escalations]
<1>1. r \in Ids /\ row[r] \in Rows
  BY DEF Started
<1>2. row'[r] = x /\ DOMAIN row' = Ids /\ \A i \in Ids \ {r} : row'[i] = row[i]
  <2>1. DOMAIN row' = Ids /\ \A i \in Ids \ {r} : row'[i] = row[i]
    BY <1>1 DEF TypeOK
  <2>2. row'[r] = [[row[r] EXCEPT !.calls = @ + 1] EXCEPT !.pushed = p]
    BY <1>1 DEF TypeOK
  <2> QED  BY <1>1, <2>1, <2>2 DEF Rows
<1>3. x \in Rows /\ x.lock = row[r].lock /\ x.escalations = row[r].escalations
  BY <1>1 DEF Rows
<1>4. row' = [i \in Ids |-> row'[i]]
  BY DEF TypeOK
<1>5. \A i \in Ids : row[i] \in Rows \union {NoRow}
  BY DEF TypeOK
<1> HIDE DEF r, x
<1>6. \A i \in Ids : row'[i] \in Rows \union {NoRow} /\ (row[i] \in Rows => row'[i] \in Rows)
  BY <1>2, <1>3, <1>5
<1>7. RowsStay
  BY <1>4, <1>6 DEF RowsStay
<1>8. LocksStay /\ TalliesStay
  BY <1>1, <1>2, <1>3, NoRowIsNone DEF LocksStay, TalliesStay
<1> QED  BY <1>7, <1>8

LEMMA EscalatedKeeps ==
    ASSUME TypeOK, Started, NEW p \in Procs, pc[p] # "off",
           row' = [row EXCEPT ![id[p]].escalations = @ + 1]
    PROVE  RowsStay /\ LocksStay
<1> DEFINE r == id[p]
           x == [row[r] EXCEPT !.escalations = row[r].escalations + 1]
<1>1. r \in Ids /\ row[r] \in Rows
  BY DEF Started
<1>2. row' = [row EXCEPT ![r] = x]
  BY <1>1 DEF TypeOK, Rows
<1>3. x \in Rows /\ x.lock = row[r].lock
  BY <1>1 DEF Rows
<1> HIDE DEF r, x
<1> QED  BY <1>1, <1>2, <1>3, NoRowIsNone DEF RowsStay, LocksStay, TypeOK

\* The lock column set to v, a process or nobody.
LEMMA LockSet ==
    ASSUME TypeOK, Started, NEW p \in Procs, pc[p] # "off",
           NEW v \in Procs \union {NoProc}, row' = [row EXCEPT ![id[p]].lock = v]
    PROVE  /\ RowsStay /\ TalliesStay
           /\ row'[id[p]].lock = v
           /\ \A r \in Ids \ {id[p]} : row'[r] = row[r]
<1> DEFINE r == id[p]
           x == [row[r] EXCEPT !.lock = v]
<1>1. r \in Ids /\ row[r] \in Rows
  BY DEF Started
<1>2. row' = [row EXCEPT ![r] = x]
  BY <1>1 DEF TypeOK, Rows
<1>3. x \in Rows /\ x.lock = v /\ x.escalations = row[r].escalations
  BY <1>1 DEF Rows
<1> HIDE DEF x
<1> QED  BY <1>1, <1>2, <1>3, NoRowIsNone DEF RowsStay, TalliesStay, TypeOK

LEMMA SameRow == ASSUME TypeOK, row' = row PROVE RowsStay /\ LocksStay /\ TalliesStay
BY DEF TypeOK, RowsStay, LocksStay, TalliesStay

\* Every checkpoint after the first is written without the paths.
SavesStay == saved' \in [Ids -> Saves \union {NotSaved}]
             /\ \A r \in Ids : saved[r] \in Saves => saved'[r] \in Saves

LEMMA CheckpointSaves ==
    ASSUME TypeOK, Started, NEW p \in Procs, pc[p] # "off",
           NEW s \in RunStates, Checkpoint(p, s)
    PROVE  SavesStay
<1>1. id[p] \in Ids /\ task[p].patched \in BOOLEAN
  BY DEF TypeOK, Started, Tasks
<1>2. [state |-> s, prd |-> "", patched |-> task[p].patched, error |-> ""] \in Saves
  BY <1>1 DEF Saves
<1> QED  BY <1>1, <1>2 DEF Checkpoint, SavesStay, TypeOK

LEMMA SameSaves == ASSUME TypeOK, saved' = saved PROVE SavesStay
BY DEF TypeOK, SavesStay

-----------------------------------------------------------------------------
(* Types.  A step of a process that has started goes to a place of the      *)
(* engine, keeps rows rows and checkpoints checkpoints.                     *)

Moves(p) ==
    /\ pc[p] # "off" /\ \E l \in Places \ {"off", "resumed"} : Goto(p, l)
    /\ id' = id /\ task' \in [Procs -> Tasks] /\ tries' \in [Procs -> 0 .. MaxReplans]
    /\ DOMAIN atoms' = Ids /\ RowsStay /\ SavesStay

LEMMA MovesKeep ==
    ASSUME TypeOK, Started, NeverResumed, NEW p \in Procs, Moves(p)
    PROVE  TypeOK' /\ Started' /\ NeverResumed'
<1>1. PICK l \in Places \ {"off", "resumed"} : pc' = [pc EXCEPT ![p] = l]
  BY DEF Moves, Goto
<1>2. /\ pc' \in [Procs -> Places]
      /\ \A q \in Procs : pc'[q] # "off" => pc[q] # "off"
      /\ \A q \in Procs : pc'[q] = "resumed" => pc[q] = "resumed"
  BY <1>1 DEF TypeOK, Moves
<1>3. TypeOK'
  BY <1>2 DEF TypeOK, Moves, RowsStay, SavesStay
<1>4. Started'
  BY <1>2 DEF TypeOK, Started, Moves, RowsStay, SavesStay
<1> QED  BY <1>2, <1>3, <1>4 DEF NeverResumed

\* A task that ends takes its process to the report.
LEMMA EndsMoves ==
    ASSUME TypeOK, Started, NEW p \in Procs, pc[p] # "off", NEW s \in RunStates,
           Ends(p, s), RowsStay, DOMAIN atoms' = Ids
    PROVE  Moves(p)
<1>1. SavesStay
  BY CheckpointSaves DEF Ends
<1>2. Goto(p, "report") /\ UNCHANGED <<id, task, tries>>
  BY DEF Ends
<1> QED  BY <1>1, <1>2 DEF Moves, TypeOK, Places, Ended

\* A step that keeps its locals and the checkpoints.
LEMMA PlainMoves ==
    ASSUME TypeOK, Started, NEW p \in Procs, pc[p] # "off",
           NEW l \in Places \ {"off", "resumed"}, Goto(p, l),
           UNCHANGED <<local, saved>>, RowsStay, DOMAIN atoms' = Ids
    PROVE  Moves(p)
BY SameSaves DEF Moves, TypeOK, local

LEMMA AppliedTask ==
    ASSUME NEW t \in Tasks, NEW x \in Patches
    PROVE  Apply(t, x) \in Tasks
<1>1. NewState(x) \in TaskStates
  BY DEF NewState, TaskStates
<1>2. x.amends \in {"none", "weakens", "strengthens", "both"} /\ x.adds \in BOOLEAN
  BY DEF Patches
<1>3. (IF x.action = "re-spec" THEN t.amended \union {x.amends} ELSE t.amended)
         \in SUBSET {"none", "weakens", "strengthens", "both"}
  BY <1>2 DEF Tasks
<1>4. (t.deps \/ (x.action = "re-spec" /\ x.adds)) \in BOOLEAN
  OBVIOUS
<1> QED  BY <1>1, <1>3, <1>4 DEF Apply, Tasks

\* The stages, the re-plans and the end of a run.
LEMMA RunMoves ==
    ASSUME TypeOK, Started, NEW p \in Procs,
           \/ GenerateStopped(p) \/ GeneratePasses(p) \/ GenerateFails(p)
           \/ NoReplan(p) \/ RefusedReplan(p) \/ AppliedReplan(p) \/ Again(p)
           \/ Report(p) \/ Scan(p) \/ ScanFails(p) \/ Die(p)
    PROVE  Moves(p) /\ LocksStay
<1> USE DEF At
<1>0. /\ {"CANCELLED", "COMMIT", "GENERATE", "VALIDATE"} \subseteq RunStates
      /\ {"replan", "again", "flight", "report", "scan", "done", "dead"}
            \subseteq Places \ {"off", "resumed"}
  BY DEF RunStates, Places, Ended
<1>1. CASE GenerateStopped(p)
  <2>1. RowsStay /\ LocksStay
    BY <1>1, CountedKeeps, SameRow DEF GenerateStopped
  <2> QED  BY <1>0, <1>1, <2>1, EndsMoves DEF GenerateStopped, records, TypeOK
<1>2. CASE GeneratePasses(p)
  <2>1. RowsStay /\ LocksStay
    BY <1>2, PushedKeeps DEF GeneratePasses
  <2> QED  BY <1>0, <1>2, <2>1, EndsMoves DEF GeneratePasses, records, TypeOK
<1>3. CASE GenerateFails(p)
  <2>1. RowsStay /\ LocksStay
    BY <1>3, CountedKeeps DEF GenerateFails
  <2>2. SavesStay
    BY <1>0, <1>3, CheckpointSaves DEF GenerateFails
  <2>3. pc[p] # "off" /\ Goto(p, "replan") /\ UNCHANGED <<local, atoms>>
    BY <1>3 DEF GenerateFails
  <2> QED  BY <1>0, <2>1, <2>2, <2>3 DEF Moves, local, TypeOK
<1>4. CASE NoReplan(p)
  <2>1. RowsStay /\ LocksStay
    BY <1>4, CountedKeeps, SameRow DEF NoReplan
  <2> QED  BY <1>0, <1>4, <2>1, PlainMoves DEF NoReplan, TypeOK
<1>5. CASE RefusedReplan(p)
  <2>1. RowsStay /\ LocksStay
    BY <1>5, CountedKeeps DEF RefusedReplan
  <2> QED  BY <1>0, <1>5, <2>1, PlainMoves DEF RefusedReplan, TypeOK
<1>6. CASE AppliedReplan(p)
  <2>1. RowsStay /\ LocksStay /\ SavesStay
    BY <1>6, CountedKeeps, SameSaves DEF AppliedReplan
  <2>2. PICK x \in Answers : task' = [task EXCEPT ![p] = Apply(@, x)]
    BY <1>6 DEF AppliedReplan
  <2>3. task' \in [Procs -> Tasks]
    BY <2>2, AppliedTask, AnswersAssumption DEF TypeOK
  <2>4. tries' \in [Procs -> 0 .. MaxReplans]
    BY <1>6, OrchestratorAssumption DEF AppliedReplan, TypeOK
  <2>5. pc[p] # "off" /\ Goto(p, "again") /\ UNCHANGED <<id, atoms>>
    BY <1>6 DEF AppliedReplan
  <2> QED  BY <1>0, <2>1, <2>3, <2>4, <2>5 DEF Moves, TypeOK
<1>7. CASE Again(p)
  <2>1. CASE Ends(p, "COMMIT") /\ row' = [row EXCEPT ![id[p]].calls = @ + 1, ![id[p]].pushed = p]
    <3>1. RowsStay /\ LocksStay
      BY <1>7, <2>1, PushedKeeps DEF Again
    <3> QED  BY <1>0, <1>7, <2>1, <3>1, EndsMoves DEF Again, records, TypeOK
  <2>2. CASE Counted(p) /\ Goto(p, "replan") /\ Checkpoint(p, "VALIDATE") /\ UNCHANGED local
    <3>1. RowsStay /\ LocksStay /\ SavesStay
      BY <1>0, <1>7, <2>2, CountedKeeps, CheckpointSaves DEF Again
    <3>2. pc[p] # "off" /\ UNCHANGED atoms
      BY <1>7 DEF Again, records
    <3> QED  BY <1>0, <2>2, <3>1, <3>2 DEF Moves, local, TypeOK
  <2> QED  BY <1>7, <2>1, <2>2 DEF Again
<1>8. CASE Report(p)
  BY <1>0, <1>8, SameRow, PlainMoves DEF Report, TypeOK
<1>9. CASE Scan(p)
  BY <1>0, <1>9, SameRow, PlainMoves DEF Scan, TypeOK
<1>10. CASE ScanFails(p)
  BY <1>0, <1>10, SameRow, PlainMoves DEF ScanFails, records, TypeOK
<1>11. CASE Die(p)
  BY <1>0, <1>11, SameRow, PlainMoves DEF Die, records, TypeOK
<1> QED  BY <1>1, <1>2, <1>3, <1>4, <1>5, <1>6, <1>7, <1>8, <1>9, <1>10, <1>11

\* The escalation.  Only SetLock and Release write the lock.
LEMMA EscalateMoves ==
    ASSUME TypeOK, Started, NEW p \in Procs, Escalate(p)
    PROVE  Moves(p) /\ (LocksStay \/ SetLock(p) \/ Release(p))
<1> USE DEF At
<1>0. /\ "FAILED" \in RunStates
      /\ {"count", "lock", "setLock", "digest", "tally", "escalated", "release"}
            \subseteq Places \ {"off", "resumed"}
  BY DEF RunStates, Places, Escalating
<1>1. ASSUME NEW here \in {"flight", "lock"}, NEW next \in {"count", "setLock"},
             IfFree(p, here, next)
      PROVE  Moves(p) /\ LocksStay
  <2>1. RowsStay /\ LocksStay /\ pc[p] # "off" /\ UNCHANGED atoms
    BY <1>1, SameRow DEF IfFree, records
  <2>2. CASE Goto(p, next) /\ UNCHANGED <<local, saved>>
    BY <1>0, <2>1, <2>2, PlainMoves DEF TypeOK
  <2>3. CASE Ends(p, "FAILED")
    BY <1>0, <2>1, <2>3, EndsMoves DEF TypeOK
  <2> QED  BY <1>1, <2>1, <2>2, <2>3 DEF IfFree
<1>2. CASE InFlight(p)
  BY <1>1, <1>2 DEF InFlight
<1>3. CASE ReadLock(p)
  BY <1>1, <1>3 DEF ReadLock
<1>4. CASE BelowCap(p)
  <2>1. RowsStay /\ LocksStay /\ pc[p] # "off" /\ UNCHANGED atoms
    BY <1>4, SameRow DEF BelowCap, records
  <2>2. CASE Goto(p, "lock") /\ UNCHANGED <<local, saved>>
    BY <1>0, <2>1, <2>2, PlainMoves DEF TypeOK
  <2>3. CASE Ends(p, "FAILED")
    BY <1>0, <2>1, <2>3, EndsMoves DEF TypeOK
  <2> QED  BY <1>4, <2>2, <2>3 DEF BelowCap
<1>5. CASE SetLock(p)
  <2>1. RowsStay
    BY <1>5, LockSet DEF SetLock
  <2> QED  BY <1>0, <1>5, <2>1, PlainMoves DEF SetLock, records, TypeOK
<1>6. CASE Digest(p)
  <2>1. RowsStay /\ LocksStay
    BY <1>6, SameRow DEF Digest
  <2>2. DOMAIN atoms' = Ids /\ pc[p] # "off" /\ Goto(p, "tally") /\ UNCHANGED <<local, saved>>
    BY <1>6 DEF Digest, TypeOK
  <2> QED  BY <1>0, <2>1, <2>2, PlainMoves
<1>7. CASE NoDigest(p)
  <2>1. RowsStay /\ LocksStay
    BY <1>7, CountedKeeps, SameRow DEF NoDigest
  <2> QED  BY <1>0, <1>7, <2>1, PlainMoves DEF NoDigest, records, TypeOK
<1>8. CASE Tally(p)
  <2>1. RowsStay /\ LocksStay
    BY <1>8, CountedKeeps DEF Tally
  <2> QED  BY <1>0, <1>8, <2>1, PlainMoves DEF Tally, records, TypeOK
<1>9. CASE Escalated(p)
  <2>1. RowsStay /\ LocksStay
    BY <1>9, EscalatedKeeps DEF Escalated
  <2> QED  BY <1>0, <1>9, <2>1, PlainMoves DEF Escalated, records, TypeOK
<1>10. CASE Release(p)
  <2>1. RowsStay
    BY <1>10, LockSet DEF Release
  <2> QED  BY <1>0, <1>10, <2>1, EndsMoves DEF Release, records, TypeOK
<1> QED  BY <1>2, <1>3, <1>4, <1>5, <1>6, <1>7, <1>8, <1>9, <1>10 DEF Escalate

\* A run that starts has a new row and a new checkpoint.
LEMMA StartKeeps ==
    ASSUME TypeOK, Started, NeverResumed, NEW p \in Procs, Start(p)
    PROVE  TypeOK' /\ Started' /\ NeverResumed'
<1>1. PICK r \in Ids :
         /\ id' = [id EXCEPT ![p] = r] /\ row' = [row EXCEPT ![r] = FreshRow]
         /\ saved' = [saved EXCEPT ![r] = [state |-> "QUEUED", prd |-> "",
                                          patched |-> FALSE, error |-> ""]]
  BY DEF Start
<1>2. FreshRow \in Rows
  BY DEF FreshRow, Rows
<1>3. [state |-> "QUEUED", prd |-> "", patched |-> FALSE, error |-> ""] \in Saves
  BY DEF Saves, RunStates
<1>4. pc[p] = "off" /\ pc' = [pc EXCEPT ![p] = "generate"] /\ UNCHANGED <<task, tries, atoms>>
  BY DEF Start, At, Goto, records
<1>5. "generate" \in Places
  BY DEF Places
<1>6. TypeOK'
  BY <1>1, <1>2, <1>3, <1>4, <1>5 DEF TypeOK
<1>7. Started'
  BY <1>1, <1>2, <1>3, <1>4 DEF TypeOK, Started
<1>8. NeverResumed'
  BY <1>4 DEF TypeOK, NeverResumed
<1> QED  BY <1>6, <1>7, <1>8

\* The resume of a dead run.
LEMMA ResumeRefused ==
    ASSUME TypeOK, Started, NEW p \in Procs, Resume(p)
    PROVE  Goto(p, "refused") /\ Moves(p) /\ LocksStay
<1>1. saved[id[p]].prd = ""
  BY DEF Resume, At, Started, Saves
<1>2. Goto(p, "refused") /\ pc[p] # "off" /\ UNCHANGED <<local, saved, row, atoms>>
  BY <1>1 DEF Resume, At, records
<1>3. "refused" \in Places \ {"off", "resumed"}
  BY DEF Places
<1> QED  BY <1>2, <1>3, SameRow, PlainMoves DEF TypeOK

-----------------------------------------------------------------------------
(* The oracle lock. *)

Holding == Escalating \union {"dead", "refused"}

\* The lock columns stay, and p does not leave the places a holder is at.
LEMMA LockKept ==
    ASSUME TypeOK, LockHasHolder, NEW p \in Procs, Moves(p), LocksStay,
           pc[p] \in Holding => pc'[p] \in Holding
    PROVE  LockHasHolder'
<1> SUFFICES ASSUME NEW r \in Ids, row'[r] # NoRow, row'[r].lock # NoProc
             PROVE  id'[row'[r].lock] = r /\ pc'[row'[r].lock] \in Holding
  BY DEF LockHasHolder, Holding
<1>1. row[r] # NoRow /\ row[r].lock = row'[r].lock
  BY DEF LocksStay
<1>2. row[r].lock \in Procs
  BY <1>1 DEF TypeOK, Rows
<1>3. id[row[r].lock] = r /\ pc[row[r].lock] \in Holding
  BY <1>1 DEF LockHasHolder, Holding
<1>4. \A q \in Procs : pc[q] \in Holding => pc'[q] \in Holding
  BY DEF Moves, Goto, TypeOK
<1> QED  BY <1>1, <1>2, <1>3, <1>4 DEF Moves

LEMMA LockStep ==
    ASSUME TypeOK, Started, NeverResumed, LockHasHolder, NEW p \in Procs,
           Step(p) \/ Die(p) \/ Resume(p)
    PROVE  LockHasHolder'
<1> USE DEF At
<1>0. \A l : Goto(p, l) => pc'[p] = l /\ \A q \in Procs \ {p} : pc'[q] = pc[q]
  BY DEF Goto, TypeOK
<1>1. CASE Start(p)
  <2>1. PICK r \in Ids : id' = [id EXCEPT ![p] = r] /\ row' = [row EXCEPT ![r] = FreshRow]
    BY <1>1 DEF Start
  <2>2. pc[p] = "off" /\ Goto(p, "generate")
    BY <1>1 DEF Start
  <2> SUFFICES ASSUME NEW i \in Ids, row'[i] # NoRow, row'[i].lock # NoProc
               PROVE  id'[row'[i].lock] = i /\ pc'[row'[i].lock] \in Holding
    BY DEF LockHasHolder, Holding
  <2>3. i # r /\ row'[i] = row[i]
    BY <2>1 DEF TypeOK, FreshRow
  <2>4. row[i].lock \in Procs /\ id[row[i].lock] = i /\ pc[row[i].lock] \in Holding
    BY <2>3 DEF TypeOK, Rows, LockHasHolder, Holding
  <2>5. row[i].lock # p
    BY <2>2, <2>4 DEF Holding, Escalating
  <2> QED  BY <1>0, <2>1, <2>2, <2>3, <2>4, <2>5 DEF TypeOK
<1>2. CASE \/ GenerateStopped(p) \/ GeneratePasses(p) \/ GenerateFails(p)
           \/ NoReplan(p) \/ RefusedReplan(p) \/ AppliedReplan(p) \/ Again(p)
           \/ Report(p) \/ Scan(p) \/ ScanFails(p)
  <2>1. pc[p] \notin Holding
    BY <1>2 DEF GenerateStopped, GeneratePasses, GenerateFails, NoReplan, RefusedReplan,
                AppliedReplan, Again, Report, Scan, ScanFails, Holding, Escalating
  <2> QED  BY <1>2, <2>1, RunMoves, LockKept
<1>3. CASE Die(p)
  <2>1. pc'[p] \in Holding
    BY <1>0, <1>3 DEF Die, Holding
  <2> QED  BY <1>3, <2>1, RunMoves, LockKept
<1>4. CASE Resume(p)
  <2>1. pc'[p] \in Holding
    BY <1>0, <1>4, ResumeRefused DEF Holding
  <2> QED  BY <1>4, <2>1, ResumeRefused, LockKept
<1>5. CASE SetLock(p)
  <2>1. /\ row'[id[p]].lock = p /\ \A r \in Ids \ {id[p]} : row'[r] = row[r]
        /\ pc'[p] = "digest" /\ id' = id /\ \A q \in Procs \ {p} : pc'[q] = pc[q]
    BY <1>0, <1>5, LockSet DEF SetLock, local
  <2>2. \A r \in Ids : row[r] # NoRow /\ row[r].lock # NoProc =>
            row[r].lock \in Procs /\ id[row[r].lock] = r /\ pc[row[r].lock] \in Holding
    BY DEF TypeOK, Rows, LockHasHolder, Holding
  <2>3. "digest" \in Holding
    BY DEF Holding, Escalating
  <2> QED  BY <2>1, <2>2, <2>3 DEF LockHasHolder, Holding
<1>6. CASE Release(p)
  <2>1. /\ row'[id[p]].lock = NoProc /\ \A r \in Ids \ {id[p]} : row'[r] = row[r]
        /\ id' = id /\ \A q \in Procs \ {p} : pc'[q] = pc[q]
    BY <1>0, <1>6, LockSet DEF Release, Ends
  <2>2. \A r \in Ids : row[r] # NoRow /\ row[r].lock # NoProc =>
            row[r].lock \in Procs /\ id[row[r].lock] = r /\ pc[row[r].lock] \in Holding
    BY DEF TypeOK, Rows, LockHasHolder, Holding
  <2> SUFFICES ASSUME NEW r \in Ids, row'[r] # NoRow, row'[r].lock # NoProc
               PROVE  id'[row'[r].lock] = r /\ pc'[row'[r].lock] \in Holding
    BY DEF LockHasHolder, Holding
  <2>3. r # id[p] /\ row'[r] = row[r]
    BY <2>1
  <2>4. row[r].lock \in Procs /\ row[r].lock # p
    BY <2>2, <2>3
  <2> QED  BY <2>1, <2>2, <2>3, <2>4
<1>7. CASE Escalate(p) /\ ~SetLock(p) /\ ~Release(p)
  <2>1. Moves(p) /\ LocksStay
    BY <1>7, EscalateMoves
  <2>2. pc[p] \in Holding => pc'[p] \in Holding
    BY <1>0, <1>7 DEF Escalate, InFlight, ReadLock, IfFree, BelowCap, Digest, NoDigest, Tally,
                      Escalated, Holding, Escalating
  <2> QED  BY <2>1, <2>2, LockKept
<1> QED  BY <1>1, <1>2, <1>3, <1>4, <1>5, <1>6, <1>7 DEF Step

-----------------------------------------------------------------------------
(* The atoms of a run. *)

\* A digest merged over another: each is closed and acyclic by itself, and
\* the upper one's atoms never depend on the lower one's.
LEMMA MergedOrder ==
    ASSUME NEW d, NEW old, Closed(d), Acyclic(d), Closed(old), Acyclic(old)
    PROVE  Closed(Replacing(d, old)) /\ Acyclic(Replacing(d, old))
<1> DEFINE m == Replacing(d, old)
<1>1. DOMAIN m = DOMAIN d \union DOMAIN old
      /\ \A a \in DOMAIN m : m[a] = IF a \in DOMAIN d THEN d[a] ELSE old[a]
  BY DEF Replacing
<1> HIDE DEF m
<1>2. Closed(m)
  BY <1>1 DEF Closed
<1>3. ASSUME NEW A \in SUBSET DOMAIN m, A # {}
      PROVE  \E a \in A : m[a] \intersect A = {}
  <2>1. CASE A \intersect DOMAIN d # {}
    <3>1. PICK a \in A \intersect DOMAIN d : d[a] \intersect (A \intersect DOMAIN d) = {}
      BY <2>1 DEF Acyclic
    <3>2. d[a] \subseteq DOMAIN d
      BY <3>1 DEF Closed
    <3> QED  BY <1>1, <3>1, <3>2
  <2>2. CASE A \intersect DOMAIN d = {}
    <3>1. A \in SUBSET DOMAIN old
      BY <1>1, <1>3, <2>2
    <3>2. PICK a \in A : old[a] \intersect A = {}
      BY <1>3, <3>1 DEF Acyclic
    <3> QED  BY <1>1, <2>2, <3>2
  <2> QED  BY <2>1, <2>2
<1>4. Acyclic(m)
  BY <1>3 DEF Acyclic
<1> QED  BY <1>2, <1>4 DEF m

LEMMA AtomsStep ==
    ASSUME DOMAIN atoms = Ids, AtomsCanBeOrdered, NEW p \in Procs,
           Step(p) \/ Die(p) \/ Resume(p)
    PROVE  AtomsCanBeOrdered'
<1>1. CASE Digest(p)
  <2>1. PICK d \in Digests : ValidDigest(d) /\ atoms' = [atoms EXCEPT ![id[p]] = Replacing(d, @)]
    BY <1>1 DEF Digest
  <2>2. ASSUME NEW r \in Ids
        PROVE  Closed(atoms'[r]) /\ Acyclic(atoms'[r])
    <3>1. Closed(atoms[r]) /\ Acyclic(atoms[r])
      BY DEF AtomsCanBeOrdered
    <3>2. CASE r = id[p]
      <4>1. atoms'[r] = Replacing(d, atoms[r])
        BY <2>1, <3>2
      <4> QED  BY <2>1, <3>1, <4>1, MergedOrder DEF ValidDigest
    <3>3. CASE r # id[p]
      <4>1. atoms'[r] = atoms[r]
        BY <2>1, <3>3
      <4> QED  BY <3>1, <4>1
    <3> QED  BY <3>2, <3>3
  <2> QED  BY <2>2 DEF AtomsCanBeOrdered
<1>2. CASE ~Digest(p)
  <2>1. atoms' = atoms
    BY <1>2 DEF Step, Die, Resume, Start, GenerateStopped, GeneratePasses, GenerateFails,
                NoReplan, RefusedReplan, AppliedReplan, Again, Report, Scan, ScanFails,
                Escalate, InFlight, ReadLock, IfFree, BelowCap, SetLock, NoDigest, Tally,
                Escalated, Release, records
  <2> QED  BY <2>1 DEF AtomsCanBeOrdered
<1> QED  BY <1>1, <1>2

-----------------------------------------------------------------------------
(* The cap on escalations. *)

\* The processes that have passed the cap's check and may still be counted.
Passed(r) == {p \in Procs : /\ id[p] = r
                            /\ pc[p] \in {"lock", "setLock", "digest", "tally", "escalated"}}

\* The cap is checked by one transaction and counted by another: each process
\* but one may be between the two.
CapOvershoot == \A r \in Ids : row[r] # NoRow =>
    row[r].escalations + Cardinality(Passed(r)) <= Cap + Cardinality(Procs) - 1

LEMMA PassedFinite ==
    \A r : /\ IsFiniteSet(Passed(r)) /\ Cardinality(Passed(r)) \in Nat
          /\ Cardinality(Passed(r)) <= Cardinality(Procs) /\ Cardinality(Procs) \in Nat
<1> SUFFICES ASSUME NEW r PROVE /\ IsFiniteSet(Passed(r)) /\ Cardinality(Passed(r)) \in Nat
                                /\ Cardinality(Passed(r)) <= Cardinality(Procs)
                                /\ Cardinality(Procs) \in Nat
  OBVIOUS
<1>1. Passed(r) \subseteq Procs /\ IsFiniteSet(Procs)
  BY OrchestratorAssumption DEF Passed
<1> QED  BY <1>1, FS_Subset, FS_CardinalityType

\* Nobody passes the check and no count changes.
LEMMA OvershootKept ==
    ASSUME TypeOK, CapOvershoot, RowsStay, TalliesStay,
           \A r \in Ids : Passed(r)' \subseteq Passed(r)
    PROVE  CapOvershoot'
<1> SUFFICES ASSUME NEW r \in Ids, row'[r] # NoRow
             PROVE  row'[r].escalations + Cardinality(Passed(r)') <= Cap + Cardinality(Procs) - 1
  BY DEF CapOvershoot
<1>1. row[r] # NoRow /\ row'[r].escalations = row[r].escalations
  BY DEF TalliesStay
<1>2. row[r].escalations \in Nat
  BY <1>1 DEF TypeOK, Rows
<1>3. Cardinality(Passed(r)') <= Cardinality(Passed(r)) /\ Cardinality(Passed(r)') \in Nat
  BY PassedFinite, FS_Subset, FS_CardinalityType
<1>4. row[r].escalations + Cardinality(Passed(r)) <= Cap + Cardinality(Procs) - 1
  BY <1>1 DEF CapOvershoot
<1> QED  BY <1>1, <1>2, <1>3, <1>4, PassedFinite, OrchestratorAssumption

LEMMA OvershootStep ==
    ASSUME TypeOK, Started, CapOvershoot, NEW p \in Procs, Step(p) \/ Die(p) \/ Resume(p)
    PROVE  CapOvershoot'
<1> USE DEF At
<1>0. \A l : Goto(p, l) => pc'[p] = l /\ \A q \in Procs \ {p} : pc'[q] = pc[q]
  BY DEF Goto, TypeOK
<1>1. CASE Start(p)
  <2>1. PICK i \in Ids : id' = [id EXCEPT ![p] = i] /\ row' = [row EXCEPT ![i] = FreshRow]
    BY <1>1 DEF Start
  <2>2. pc'[p] = "generate" /\ \A q \in Procs \ {p} : pc'[q] = pc[q] /\ id'[q] = id[q]
    BY <1>0, <1>1, <2>1 DEF Start, TypeOK
  <2>3. \A r : p \notin Passed(r)'
    BY <2>2 DEF Passed
  <2> SUFFICES ASSUME NEW r \in Ids, row'[r] # NoRow
               PROVE  row'[r].escalations + Cardinality(Passed(r)') <= Cap + Cardinality(Procs) - 1
    BY DEF CapOvershoot
  <2>4. CASE r = i
    <3>1. row'[r].escalations = 0
      BY <2>1, <2>4 DEF TypeOK, FreshRow
    <3>2. Passed(r)' \subseteq Procs \ {p}
      BY <2>3 DEF Passed
    <3>3. IsFiniteSet(Procs \ {p}) /\ Cardinality(Procs \ {p}) = Cardinality(Procs) - 1
      BY OrchestratorAssumption, FS_RemoveElement
    <3>4. Cardinality(Passed(r)') <= Cardinality(Procs) - 1 /\ Cardinality(Passed(r)') \in Nat
      BY <3>2, <3>3, FS_Subset, FS_CardinalityType
    <3> QED  BY <3>1, <3>4, PassedFinite, OrchestratorAssumption
  <2>5. CASE r # i
    <3>1. row'[r] = row[r] /\ row[r].escalations \in Nat
      BY <2>1, <2>5 DEF TypeOK, Rows
    <3>2. Passed(r)' \subseteq Passed(r)
      BY <2>2, <2>3 DEF Passed
    <3>3. Cardinality(Passed(r)') <= Cardinality(Passed(r)) /\ Cardinality(Passed(r)') \in Nat
      BY <3>2, PassedFinite, FS_Subset, FS_CardinalityType
    <3>4. row[r].escalations + Cardinality(Passed(r)) <= Cap + Cardinality(Procs) - 1
      BY <3>1 DEF CapOvershoot
    <3> QED  BY <3>1, <3>3, <3>4, PassedFinite, OrchestratorAssumption
  <2> QED  BY <2>4, <2>5
<1>2. CASE BelowCap(p) /\ Row(p).escalations < Cap
  <2>1. Goto(p, "lock") /\ UNCHANGED <<id, row>>
    BY <1>2 DEF BelowCap, local
  <2> SUFFICES ASSUME NEW r \in Ids, row'[r] # NoRow
               PROVE  row'[r].escalations + Cardinality(Passed(r)') <= Cap + Cardinality(Procs) - 1
    BY DEF CapOvershoot
  <2>2. row[r].escalations \in Nat /\ row' = row
    BY <2>1 DEF TypeOK, Rows
  <2>3. CASE r = id[p]
    <3>1. Passed(r)' \subseteq Procs /\ IsFiniteSet(Procs)
      BY OrchestratorAssumption DEF Passed
    <3>2. Cardinality(Passed(r)') <= Cardinality(Procs) /\ Cardinality(Passed(r)') \in Nat
      BY <3>1, FS_Subset, FS_CardinalityType
    <3>3. row'[r].escalations < Cap /\ row'[r].escalations \in Nat
      BY <1>2, <2>2, <2>3 DEF Row
    <3>4. Cardinality(Procs) \in Nat /\ Cap \in Nat
      BY OrchestratorAssumption, FS_CardinalityType
    <3> QED  BY <3>2, <3>3, <3>4
  <2>4. CASE r # id[p]
    <3>1. Passed(r)' \subseteq Passed(r)
      BY <1>0, <2>1, <2>4 DEF Passed
    <3>2. Cardinality(Passed(r)') <= Cardinality(Passed(r)) /\ Cardinality(Passed(r)') \in Nat
      BY <3>1, PassedFinite, FS_Subset, FS_CardinalityType
    <3>3. row[r].escalations + Cardinality(Passed(r)) <= Cap + Cardinality(Procs) - 1
      BY <2>2 DEF CapOvershoot
    <3> QED  BY <2>2, <3>2, <3>3, PassedFinite, OrchestratorAssumption
  <2> QED  BY <2>3, <2>4
<1>3. CASE Escalated(p)
  <2>1. /\ row' = [row EXCEPT ![id[p]].escalations = @ + 1] /\ id' = id
        /\ pc[p] = "escalated" /\ Goto(p, "release")
    BY <1>3 DEF Escalated, local
  <2>2. id[p] \in Ids /\ row[id[p]] \in Rows
    BY <2>1 DEF Started
  <2> SUFFICES ASSUME NEW r \in Ids, row'[r] # NoRow
               PROVE  row'[r].escalations + Cardinality(Passed(r)') <= Cap + Cardinality(Procs) - 1
    BY DEF CapOvershoot
  <2>3. CASE r = id[p]
    <3>1. row'[r].escalations = row[r].escalations + 1 /\ row[r].escalations \in Nat
      BY <2>1, <2>2, <2>3 DEF TypeOK, Rows
    <3>2. Passed(r)' \subseteq Passed(r) \ {p} /\ p \in Passed(r)
      BY <1>0, <2>1, <2>3 DEF Passed
    <3>3. IsFiniteSet(Passed(r) \ {p}) /\ Cardinality(Passed(r) \ {p}) = Cardinality(Passed(r)) - 1
      BY <3>2, PassedFinite, FS_RemoveElement
    <3>4. Cardinality(Passed(r)') <= Cardinality(Passed(r)) - 1 /\ Cardinality(Passed(r)') \in Nat
      BY <3>2, <3>3, FS_Subset, FS_CardinalityType
    <3>5. row[r].escalations + Cardinality(Passed(r)) <= Cap + Cardinality(Procs) - 1
      BY <2>2, <2>3, NoRowIsNone DEF CapOvershoot
    <3> QED  BY <3>1, <3>4, <3>5, PassedFinite, OrchestratorAssumption
  <2>4. CASE r # id[p]
    <3>1. row'[r] = row[r] /\ row[r].escalations \in Nat
      BY <2>1, <2>4 DEF TypeOK, Rows
    <3>2. Passed(r)' \subseteq Passed(r)
      BY <1>0, <2>1, <2>4 DEF Passed
    <3>3. Cardinality(Passed(r)') <= Cardinality(Passed(r)) /\ Cardinality(Passed(r)') \in Nat
      BY <3>2, PassedFinite, FS_Subset, FS_CardinalityType
    <3>4. row[r].escalations + Cardinality(Passed(r)) <= Cap + Cardinality(Procs) - 1
      BY <3>1 DEF CapOvershoot
    <3> QED  BY <3>1, <3>3, <3>4, PassedFinite, OrchestratorAssumption
  <2> QED  BY <2>3, <2>4
<1>4. CASE ~Start(p) /\ ~(BelowCap(p) /\ Row(p).escalations < Cap) /\ ~Escalated(p)
  <2>1. RowsStay /\ TalliesStay
    <3>1. \/ row' = row \/ (pc[p] # "off" /\ Counted(p))
          \/ pc[p] # "off" /\ row' = [row EXCEPT ![id[p]].calls = @ + 1, ![id[p]].pushed = p]
          \/ pc[p] # "off" /\ \E v \in Procs \union {NoProc} : row' = [row EXCEPT ![id[p]].lock = v]
      BY <1>4 DEF Step, Die, Resume, GenerateStopped, GeneratePasses, GenerateFails,
                  NoReplan, RefusedReplan, AppliedReplan, Again, Report, Scan, ScanFails,
                  Escalate, InFlight, ReadLock, IfFree, BelowCap, SetLock, Digest, NoDigest,
                  Tally, Release
    <3> QED  BY <3>1, SameRow, CountedKeeps, PushedKeeps, LockSet
  <2>2. id' = id
    BY <1>4 DEF Step, Die, Resume, GenerateStopped, GeneratePasses, GenerateFails,
                NoReplan, RefusedReplan, AppliedReplan, Again, Report, Scan, ScanFails,
                Escalate, InFlight, ReadLock, IfFree, BelowCap, SetLock, Digest, NoDigest,
                Tally, Release, Ends, local
  <2>3. \/ pc'[p] \notin {"lock", "setLock", "digest", "tally", "escalated"}
        \/ pc[p] \in {"lock", "setLock", "digest", "tally", "escalated"}
    <3>1. CASE Die(p) \/ Resume(p)
      BY <3>1 DEF Die, Resume, Goto, TypeOK
    <3>2. CASE \/ GenerateStopped(p) \/ GeneratePasses(p) \/ GenerateFails(p) \/ NoReplan(p)
               \/ RefusedReplan(p) \/ AppliedReplan(p) \/ Again(p)
               \/ Report(p) \/ Scan(p) \/ ScanFails(p)
      BY <3>2 DEF GenerateStopped, GeneratePasses, GenerateFails, NoReplan, RefusedReplan,
                  AppliedReplan, Again, Report, Scan, ScanFails, Ends, Goto, TypeOK
    <3>3. CASE InFlight(p) \/ BelowCap(p)
      BY <1>0, <1>4, <3>3 DEF InFlight, IfFree, BelowCap, Ends
    <3>4. CASE ReadLock(p) \/ SetLock(p) \/ Digest(p) \/ NoDigest(p) \/ Tally(p) \/ Release(p)
      BY <3>4 DEF ReadLock, IfFree, SetLock, Digest, NoDigest, Tally, Release, Ends, Goto, TypeOK
    <3> QED  BY <1>4, <3>1, <3>2, <3>3, <3>4 DEF Step, Escalate
  <2>4. \A q \in Procs \ {p} : pc'[q] = pc[q]
    BY <1>0, <1>4 DEF Step, Die, Resume, GenerateStopped, GeneratePasses, GenerateFails,
                NoReplan, RefusedReplan, AppliedReplan, Again, Report, Scan, ScanFails,
                Escalate, InFlight, ReadLock, IfFree, BelowCap, SetLock, Digest, NoDigest,
                Tally, Release, Ends
  <2>5. \A r \in Ids : Passed(r)' \subseteq Passed(r)
    BY <2>2, <2>3, <2>4 DEF Passed
  <2> QED  BY <2>1, <2>5, OvershootKept
<1> QED  BY <1>1, <1>2, <1>3, <1>4

-----------------------------------------------------------------------------
(* The theorems. *)

\* The whole inductive invariant.
IInv == Inv /\ AtomsCanBeOrdered /\ CapOvershoot

LEMMA InitInv == Init => IInv
<1> SUFFICES ASSUME Init PROVE IInv
  OBVIOUS
<1> USE DEF Init
<1>1. [state |-> "PENDING", patched |-> FALSE, amended |-> {}, deps |-> FALSE] \in Tasks
  BY DEF Tasks, TaskStates
<1>2. 0 \in 0 .. MaxReplans /\ "off" \in Places
  BY OrchestratorAssumption DEF Places
<1>3. TypeOK
  BY <1>1, <1>2 DEF TypeOK
<1>4. Started /\ NeverResumed /\ LockHasHolder
  BY DEF Started, NeverResumed, LockHasHolder
<1>5. AtomsCanBeOrdered
  <2>1. DOMAIN <<>> = {}
    OBVIOUS
  <2> QED  BY <2>1 DEF AtomsCanBeOrdered, Closed, Acyclic
<1>6. CapOvershoot
  BY DEF CapOvershoot
<1> QED  BY <1>3, <1>4, <1>5, <1>6 DEF Inv, IInv

LEMMA NextInv == IInv /\ [Next]_vars => IInv'
<1> SUFFICES ASSUME IInv, [Next]_vars PROVE IInv'
  OBVIOUS
<1> USE DEF Inv, IInv
<1>1. ASSUME NEW p \in Procs, Step(p) \/ Die(p) \/ Resume(p)
      PROVE  IInv'
  <2>1. LockHasHolder'
    BY <1>1, LockStep
  <2>2. AtomsCanBeOrdered' /\ CapOvershoot'
    BY <1>1, AtomsStep, OvershootStep DEF TypeOK
  <2>3. TypeOK' /\ Started' /\ NeverResumed'
    <3>1. CASE Start(p)
      BY <3>1, StartKeeps
    <3>2. CASE ~Start(p)
      BY <1>1, <3>2, RunMoves, EscalateMoves, ResumeRefused, MovesKeep DEF Step
    <3> QED  BY <3>1, <3>2
  <2> QED  BY <2>1, <2>2, <2>3
<1>2. CASE UNCHANGED vars
  BY <1>2 DEF vars, local, records, TypeOK, Started, NeverResumed, LockHasHolder,
              AtomsCanBeOrdered, CapOvershoot, Passed
<1> QED  BY <1>1, <1>2 DEF Next

\* A set oracle lock belongs to an escalation under way of that run, or to a
\* process that died in one, for any number of processes that share run ids
\* (oracle_escalate.py:258, 318).
THEOREM LockIsHeld == Spec => []LockHasHolder
<1>1. Spec => []IInv
  BY InitInv, NextInv, PTL DEF Spec
<1>2. IInv => LockHasHolder
  BY DEF IInv, Inv
<1> QED  BY <1>1, <1>2, PTL

\* However many digests overwrite each other's atoms by name, whatever the
\* atoms, what oracle_atoms holds can be run in some order
\* (oracle_digest.py:154, 357).
THEOREM AtomsOrdered == Spec => []AtomsCanBeOrdered
<1>1. Spec => []IInv
  BY InitInv, NextInv, PTL DEF Spec
<1>2. IInv => AtomsCanBeOrdered
  BY DEF IInv
<1> QED  BY <1>1, <1>2, PTL

\* A run's count of escalations passes max_oracle_escalations_per_run by less
\* than the number of processes that share it: its check and its increment are
\* two transactions (oracle_escalate.py:112, 126).
EscalationsNearCap == \A r \in Ids : row[r] # NoRow =>
    row[r].escalations <= Cap + Cardinality(Procs) - 1

THEOREM EscalationOvershoot == Spec => []EscalationsNearCap
<1>1. Spec => []IInv
  BY InitInv, NextInv, PTL DEF Spec
<1>2. IInv => EscalationsNearCap
  <2> SUFFICES ASSUME IInv, NEW r \in Ids, row[r] # NoRow
               PROVE  row[r].escalations <= Cap + Cardinality(Procs) - 1
    BY DEF EscalationsNearCap
  <2>1. row[r].escalations \in Nat /\ Cap \in Nat
    BY OrchestratorAssumption DEF IInv, Inv, TypeOK, Rows
  <2>2. row[r].escalations + Cardinality(Passed(r)) <= Cap + Cardinality(Procs) - 1
    BY DEF IInv, CapOvershoot
  <2>3. Cardinality(Passed(r)) \in Nat /\ Cardinality(Procs) \in Nat
    BY PassedFinite
  <2> QED  BY <2>1, <2>2, <2>3
<1> QED  BY <1>1, <1>2, PTL

\* No resume of a dead run is ever carried out: every checkpoint after a run's
\* first step is written without the PRD's path (engine/state.py, cli.py).
THEOREM NoRunIsResumed == Spec => []NeverResumed
<1>1. Spec => []IInv
  BY InitInv, NextInv, PTL DEF Spec
<1>2. IInv => NeverResumed
  BY DEF IInv, Inv
<1> QED  BY <1>1, <1>2, PTL

-----------------------------------------------------------------------------
(* The code generator. *)

GenTypes ==
    /\ DOMAIN gen = {"call", "answer", "pc", "attempt", "files", "error", "result"}
    /\ gen.files \subseteq Paths
    /\ DOMAIN tree = Generator!Dirs /\ \A d \in Generator!Dirs : DOMAIN tree[d] = Paths

\* What is tested is what was written, and what was found good is not touched again.
GenInv ==
    /\ GenTypes
    /\ gen.pc \in {"ask", "write", "test"} => gen.result = "none"
    /\ gen.pc = "test" => \A f \in gen.files : tree["default"][f] = gen.answer
    /\ Generator!SuccessIsTested

\* An answer that was found good had a run without failures and errors.
LEMMA PassedHasNoFailures ==
  ASSUME IsFiniteSet(Tests), NEW run \in Generator!TestRun, Generator!Status(run) = "passed"
  PROVE  \A t \in run.seen : run.outcome[t] \notin {"failed", "error"}
<1> DEFINE Failed == {t \in run.seen : run.outcome[t] = "failed"}
           Errors == {t \in run.seen : run.outcome[t] = "error"}
<1>1. Failed \subseteq Tests /\ Errors \subseteq Tests
  BY DEF Generator!TestRun
<1>2. IsFiniteSet(Failed) /\ IsFiniteSet(Errors)
  BY <1>1, FS_Subset
<1>3. Cardinality(Failed) \in Nat /\ Cardinality(Errors) \in Nat
  BY <1>2, FS_CardinalityType
<1>4. Generator!Count(run, "failed") = Cardinality(Failed)
  BY DEF Generator!Count, Generator!Cardinality, Cardinality
<1>5. Generator!Count(run, "error") = Cardinality(Errors)
  BY DEF Generator!Count, Generator!Cardinality, Cardinality
<1>6. Cardinality(Failed) = 0 /\ Cardinality(Errors) = 0
  <2> HIDE DEF Failed, Errors
  <2> QED BY <1>3, <1>4, <1>5 DEF Generator!Status
<1>7. Failed = {} /\ Errors = {}
  <2> HIDE DEF Failed, Errors
  <2> QED BY <1>2, <1>6, FS_EmptySet
<1> QED BY <1>7

LEMMA GenInit == Generator!Init => GenInv
BY DEF Generator!Init, Generator!NewCall, Generator!NoRun, Generator!Dirs, GenInv, GenTypes,
       Generator!SuccessIsTested

TreeKept == DOMAIN tree' = Generator!Dirs /\ \A d \in Generator!Dirs : DOMAIN tree'[d] = Paths

\* The ways an attempt ends without success leave nothing to be claimed.
LEMMA AttemptFails ==
  ASSUME GenInv, gen.result = "none", TreeKept,
         \/ \E error : Generator!TryAgain(error, gen.files)
         \/ Generator!Return("failed", {})
         \/ Generator!Raise
  PROVE  GenInv'
<1> USE DEF GenInv, GenTypes, TreeKept, Generator!SuccessIsTested
<1>1. CASE \E error : Generator!TryAgain(error, gen.files)
  <2>1. PICK error : Generator!TryAgain(error, gen.files)
    BY <1>1
  <2>2. CASE gen.attempt < MaxAttempts
    BY <2>1, <2>2 DEF Generator!TryAgain
  <2>3. CASE ~(gen.attempt < MaxAttempts)
    BY <2>1, <2>3 DEF Generator!TryAgain, Generator!Return
  <2> QED BY <2>2, <2>3
<1>2. CASE Generator!Return("failed", {})
  BY <1>2 DEF Generator!Return
<1>3. CASE Generator!Raise
  <2>1. CASE gen.call < MaxAttempts
    BY <1>3, <2>1 DEF Generator!Raise, Generator!NewCall
  <2>2. CASE ~(gen.call < MaxAttempts)
    BY <1>3, <2>2 DEF Generator!Raise
  <2> QED BY <2>1, <2>2
<1> QED BY <1>1, <1>2, <1>3

LEMMA GenStep ==
  ASSUME IsFiniteSet(Tests), GenInv, [Generator!Next]_(Generator!vars)
  PROVE  GenInv'
<1> USE DEF Generator!At
<1>1. CASE Generator!Ask \/ Generator!Retry
  <2>1. /\ gen.pc = "ask" /\ gen.result = "none" /\ tree' = tree /\ tested' = tested
        /\ \/ \E fs \in Generator!Extracted : Generator!Answer(fs)
           \/ \E error : Generator!TryAgain(error, gen.files)
           \/ Generator!Return("failed", {})
           \/ Generator!Raise
    <3>1. CASE Generator!Ask
      BY <3>1 DEF Generator!Ask, GenInv
    <3>2. CASE Generator!Retry
      BY <3>2 DEF Generator!Retry, GenInv
    <3> QED BY <1>1, <3>1, <3>2
  <2>2. CASE \E fs \in Generator!Extracted : Generator!Answer(fs)
    BY <2>1, <2>2 DEF Generator!Answer, Generator!Extracted, GenInv, GenTypes,
       Generator!SuccessIsTested
  <2>3. TreeKept
    BY <2>1 DEF GenInv, GenTypes, TreeKept
  <2> QED BY <2>1, <2>2, <2>3, AttemptFails
<1>2. CASE Generator!WriteFiles
  <2>1. PICK written \in SUBSET gen.files :
          /\ tree' = [tree EXCEPT !["default"] =
                        [f \in Paths |-> IF f \in written THEN gen.answer ELSE @[f]]]
          /\ \/ written = gen.files /\ gen' = [gen EXCEPT !.pc = "test"]
             \/ written # gen.files /\ Generator!TryAgain("write", gen.files)
             \/ Generator!Raise
    BY <1>2 DEF Generator!WriteFiles
  <2>2. tested' = tested /\ gen.pc = "write" /\ gen.result = "none"
    BY <1>2 DEF Generator!WriteFiles, GenInv
  <2>3. TreeKept
    BY <2>1 DEF GenInv, GenTypes, TreeKept, Generator!Dirs
  <2>4. CASE written = gen.files /\ gen' = [gen EXCEPT !.pc = "test"]
    BY <2>1, <2>2, <2>3, <2>4 DEF GenInv, GenTypes, TreeKept, Generator!Dirs, Generator!SuccessIsTested
  <2> QED BY <2>1, <2>2, <2>3, <2>4, AttemptFails
<1>3. CASE Generator!RunTests
  <2>1. gen.pc = "test" /\ gen.result = "none" /\ tree' = tree
    BY <1>3 DEF Generator!RunTests, GenInv
  <2>2. TreeKept
    BY <2>1 DEF GenInv, GenTypes, TreeKept
  <2>3. CASE Generator!Raise /\ UNCHANGED tested
    BY <2>1, <2>2, <2>3, AttemptFails
  <2>4. ASSUME NEW run \in Generator!TestRun,
               tested' = [seen |-> run.seen, outcome |-> run.outcome, on |-> tree["default"]],
               Generator!Status(run) = "passed", Generator!Return("success", gen.files)
        PROVE  GenInv'
    <3>1. \A t \in run.seen : run.outcome[t] \notin {"failed", "error"}
      BY <2>4, PassedHasNoFailures
    <3> QED BY <2>1, <2>4, <3>1 DEF GenInv, GenTypes, Generator!Return, Generator!SuccessIsTested
  <2>5. ASSUME Generator!TryAgain("tests", gen.files) PROVE GenInv'
    BY <2>1, <2>2, <2>5, AttemptFails
  <2> QED BY <1>3, <2>3, <2>4, <2>5 DEF Generator!RunTests
<1>4. CASE Generator!QualityCheck \/ Generator!StepTests \/ Generator!StepCommit \/ Generator!Verdict
  <2>1. /\ tree' = tree /\ tested' = tested
        /\ \E l \in {"run_tests", "commit", "verdict", "done"} : gen' = [gen EXCEPT !.pc = l]
    BY <1>4 DEF Generator!QualityCheck, Generator!StepTests, Generator!StepCommit, Generator!Verdict
  <2> QED BY <2>1 DEF GenInv, GenTypes, Generator!SuccessIsTested
<1>5. CASE UNCHANGED Generator!vars
  BY <1>5 DEF GenInv, GenTypes, Generator!SuccessIsTested, Generator!vars
<1> QED BY <1>1, <1>2, <1>3, <1>4, <1>5 DEF Generator!Next

\* When generate() of the legacy tools reports success, the reported files are in the
\* directory as the answer had them, and the tests were run on exactly that directory
\* without a failure (code_generator.py).
THEOREM SuccessMeansTested ==
  ASSUME IsFiniteSet(Tests)
  PROVE  Generator!Spec => []SuccessIsTested
<1>1. GenInv => Generator!SuccessIsTested
  BY DEF GenInv
<1>2. GenInv /\ [Generator!Next]_(Generator!vars) => GenInv'
  BY GenStep
<1> QED BY <1>1, <1>2, GenInit, PTL DEF Generator!Spec, SuccessIsTested

-----------------------------------------------------------------------------
(* The remote pipelines. *)

\* Every one of these names is of a session with a run that got an answer.
Inferred(names) == \A n \in names : \E r \in Runs : NameOf[r] = n /\ proc[r].inferred

RemoteTypes ==
    /\ DOMAIN proc = Runs
    /\ \A r \in Runs : DOMAIN proc[r] = {"pc", "id", "result", "inferred"}
    /\ DOMAIN host = {"model", "containers", "head", "files", "index", "branches", "remote"}
    /\ {host.head, Remote!Main} \subseteq DOMAIN host.branches

Pushing == {"push", "add", "commit", "publish", "back"}

\* On the way to the remote (index, branch, remote) are only results of such sessions,
\* for only their runs push.
RemoteInv ==
    /\ RemoteTypes
    /\ \A r \in Runs : proc[r].pc \in Pushing => proc[r].inferred
    /\ Inferred(host.index)
    /\ \A b \in DOMAIN host.branches : Inferred(host.branches[b])
    /\ \A b \in DOMAIN host.remote : Inferred(host.remote[b])

LEMMA RemoteInit == Remote!Init => RemoteInv
BY DEF Remote!Init, Remote!NewProc, Remote!Main, RemoteInv, RemoteTypes, Inferred, Pushing

\* What a process does beside its push: it may get an answer, and starts to push only
\* with one.
ProcKept ==
    /\ DOMAIN proc' = Runs
    /\ \A r \in Runs :
         /\ DOMAIN proc'[r] = {"pc", "id", "result", "inferred"}
         /\ proc[r].inferred => proc'[r].inferred
         /\ proc'[r].pc \in Pushing => proc'[r].inferred

\* What the host keeps of the project.
HostKept ==
    /\ DOMAIN host' = DOMAIN host
    /\ host'.head = host.head /\ host'.branches = host.branches
    /\ host'.index = host.index /\ host'.remote = host.remote

LEMMA KeptIsEnough == RemoteInv /\ ProcKept /\ HostKept => RemoteInv'
BY DEF RemoteInv, RemoteTypes, ProcKept, HostKept, Inferred

LEMMA HostUntouched ==
  ASSUME RemoteInv,
         \/ host' = host
         \/ \E m : host' = [host EXCEPT !.model = m]
         \/ \E f : host' = [host EXCEPT !.files = f]
         \/ \E n, b : host' = [host EXCEPT !.containers[n] = b]
  PROVE  HostKept
BY DEF RemoteInv, RemoteTypes, HostKept

LEMMA ProcUntouched == RemoteInv /\ proc' = proc => ProcKept
BY DEF RemoteInv, RemoteTypes, ProcKept

\* One process goes on, with what it changes beside its place.
LEMMA OneGoesOn ==
  ASSUME RemoteInv, NEW r \in Runs, DOMAIN proc' = Runs, DOMAIN proc'[r] = DOMAIN proc[r],
         \A q \in Runs \ {r} : proc'[q] = proc[q],
         proc[r].inferred => proc'[r].inferred,
         proc'[r].pc \in Pushing => proc'[r].inferred
  PROVE  ProcKept
BY DEF RemoteInv, RemoteTypes, ProcKept

LEMMA GoToKeeps ==
  ASSUME RemoteInv, NEW r \in Runs, NEW l, Remote!GoTo(r, l), l \in Pushing => proc[r].inferred
  PROVE  ProcKept
<1>1. /\ DOMAIN proc' = Runs /\ proc'[r] = [proc[r] EXCEPT !.pc = l]
      /\ \A q \in Runs \ {r} : proc'[q] = proc[q]
  BY DEF Remote!GoTo, RemoteInv, RemoteTypes
<1>2. DOMAIN proc[r] = {"pc", "id", "result", "inferred"}
  BY DEF RemoteInv, RemoteTypes
<1> QED BY <1>1, <1>2, OneGoesOn

LEMMA EndsKeep ==
  ASSUME RemoteInv, NEW r \in Runs, NEW l, l \notin Pushing, NEW out,
         proc' = [proc EXCEPT ![r].pc = l, ![r].result = out]
  PROVE  ProcKept
<1>1. /\ DOMAIN proc' = Runs
      /\ proc'[r] = [[proc[r] EXCEPT !.pc = l] EXCEPT !.result = out]
      /\ \A q \in Runs \ {r} : proc'[q] = proc[q]
  BY DEF RemoteInv, RemoteTypes
<1>2. DOMAIN proc[r] = {"pc", "id", "result", "inferred"}
  BY DEF RemoteInv, RemoteTypes
<1> QED BY <1>1, <1>2, OneGoesOn

LEMMA AnsweredKeeps ==
  ASSUME RemoteInv, NEW r \in Runs, NEW next,
         \/ proc' = [proc EXCEPT ![r].pc = next, ![r].inferred = TRUE]
         \/ next \notin Pushing /\ Remote!Unanswered(r, next)
  PROVE  ProcKept
<1>1. CASE proc' = [proc EXCEPT ![r].pc = next, ![r].inferred = TRUE]
  <2>1. /\ DOMAIN proc' = Runs
        /\ proc'[r] = [[proc[r] EXCEPT !.pc = next] EXCEPT !.inferred = TRUE]
        /\ \A q \in Runs \ {r} : proc'[q] = proc[q]
    BY <1>1 DEF RemoteInv, RemoteTypes
  <2>2. DOMAIN proc[r] = {"pc", "id", "result", "inferred"}
    BY DEF RemoteInv, RemoteTypes
  <2> QED BY <2>1, <2>2, OneGoesOn
<1>2. CASE next \notin Pushing /\ Remote!Unanswered(r, next)
  BY <1>2, EndsKeep DEF Remote!Unanswered
<1> QED BY <1>1, <1>2

\* The steps before and after the push.
LEMMA PipelineKeeps ==
  ASSUME RemoteInv, NEW r \in Runs,
         \/ Remote!Begin(r) \/ Remote!Swap(r) \/ Remote!SwapSimple(r) \/ Remote!CreateSandbox(r)
         \/ Remote!PrepareProject(r) \/ Remote!Infer(r) \/ Remote!InferSimple(r)
         \/ Remote!CollectResults(r) \/ Remote!Raise(r) \/ Remote!Destroy(r)
         \/ Remote!Finalize(r) \/ Remote!Kill(r)
  PROVE  RemoteInv'
<1> USE DEF Pushing
<1>1. ASSUME Remote!Abort(r) PROVE ProcKept
  <2>1. PICK l \in {"clean", "ended"} :
          proc' = [proc EXCEPT ![r].pc = l, ![r].result = "aborted"]
    BY <1>1 DEF Remote!Abort
  <2> QED BY <2>1, EndsKeep
<1>2. CASE Remote!Begin(r)
  <2>1. /\ DOMAIN proc' = Runs
        /\ proc'[r] = [[proc[r] EXCEPT !.pc = "swap"] EXCEPT !.id = Len(rows) + 1]
        /\ \A q \in Runs \ {r} : proc'[q] = proc[q]
    BY <1>2 DEF RemoteInv, RemoteTypes, Remote!Begin
  <2>2. DOMAIN proc[r] = {"pc", "id", "result", "inferred"}
    BY DEF RemoteInv, RemoteTypes
  <2>3. ProcKept
    BY <2>1, <2>2, OneGoesOn
  <2> QED BY <1>2, <2>3, HostUntouched, KeptIsEnough DEF Remote!Begin
<1>3. ASSUME NEW next \in {"create", "infer"},
             \/ Remote!Swapped(r, next)
             \/ Remote!GoTo(r, next) /\ UNCHANGED host
      PROVE  RemoteInv'
  <2>1. ProcKept
    BY <1>1, <1>3, GoToKeeps DEF Remote!Swapped
  <2>2. HostKept
    BY <1>3, HostUntouched DEF Remote!Swapped
  <2> QED BY <2>1, <2>2, KeptIsEnough
<1>4. CASE Remote!Swap(r) \/ Remote!SwapSimple(r)
  BY <1>3, <1>4 DEF Remote!Swap, Remote!SwapSimple
<1>5. CASE Remote!CreateSandbox(r) \/ Remote!PrepareProject(r)
  <2>1. ProcKept
    BY <1>1, <1>5, GoToKeeps DEF Remote!CreateSandbox, Remote!PrepareProject
  <2>2. HostKept
    BY <1>5, HostUntouched DEF Remote!CreateSandbox, Remote!PrepareProject
  <2> QED BY <2>1, <2>2, KeptIsEnough
<1>6. CASE Remote!Infer(r) \/ Remote!InferSimple(r)
  <2>1. ProcKept
    BY <1>6, AnsweredKeeps DEF Remote!Infer, Remote!InferSimple, Remote!Answered
  <2>2. HostKept
    BY <1>6, HostUntouched DEF Remote!Infer, Remote!InferSimple
  <2> QED BY <2>1, <2>2, KeptIsEnough
<1>7. CASE Remote!CollectResults(r)
  <2>1. ProcKept
    BY <1>7, GoToKeeps DEF Remote!CollectResults
  <2>2. HostKept
    BY <1>7, HostUntouched DEF Remote!CollectResults
  <2> QED BY <2>1, <2>2, KeptIsEnough
<1>8. CASE Remote!Raise(r)
  <2>1. ProcKept
    <3>1. PICK l \in {"clean", "final"} :
            proc' = [proc EXCEPT ![r].pc = l, ![r].result = "failed"]
      BY <1>8 DEF Remote!Raise
    <3> QED BY <3>1, EndsKeep
  <2> QED BY <1>8, <2>1, HostUntouched, KeptIsEnough DEF Remote!Raise
<1>9. CASE Remote!Destroy(r)
  <2>1. ProcKept
    BY <1>9, GoToKeeps DEF Remote!Destroy
  <2>2. HostKept
    BY <1>9, HostUntouched DEF Remote!Destroy
  <2> QED BY <2>1, <2>2, KeptIsEnough
<1>10. CASE Remote!Finalize(r) \/ Remote!Kill(r)
  <2>1. ProcKept
    BY <1>10, EndsKeep DEF Remote!Finalize, Remote!Kill
  <2> QED BY <1>10, <2>1, HostUntouched, KeptIsEnough DEF Remote!Finalize, Remote!Kill
<1> QED BY <1>2, <1>4, <1>5, <1>6, <1>7, <1>8, <1>9, <1>10

\* The five commands of the push.
LEMMA PushKeeps ==
  ASSUME RemoteInv, NEW r \in Runs, Remote!Push(r)
  PROVE  RemoteInv'
<1> USE DEF Pushing
<1>1. ProcKept /\ proc[r].inferred
  BY GoToKeeps DEF RemoteInv, Remote!At, Remote!Push, Remote!CheckoutBranch, Remote!Add,
     Remote!Commit, Remote!Publish, Remote!CheckoutBack
<1> DEFINE Later(names) == \A n \in names : \E q \in Runs : NameOf[q] = n /\ proc'[q].inferred
<1>2. \A names : Inferred(names) => Later(names)
  BY <1>1 DEF ProcKept, Inferred
<1>3. Later({NameOf[r]})
  BY <1>1 DEF ProcKept
<1>4. /\ DOMAIN host = {"model", "containers", "head", "files", "index", "branches", "remote"}
      /\ {host.head, Remote!Main} \subseteq DOMAIN host.branches
      /\ Later(host.index)
      /\ \A b \in DOMAIN host.branches : Later(host.branches[b])
      /\ \A b \in DOMAIN host.remote : Later(host.remote[b])
  BY <1>2 DEF RemoteInv, RemoteTypes
<1> HIDE DEF Later
<1>5. ASSUME /\ DOMAIN host' = DOMAIN host
             /\ {host'.head, Remote!Main} \subseteq DOMAIN host'.branches
             /\ Later(host'.index)
             /\ \A b \in DOMAIN host'.branches : Later(host'.branches[b])
             /\ \A b \in DOMAIN host'.remote : Later(host'.remote[b])
      PROVE  RemoteInv'
  BY <1>1, <1>4, <1>5 DEF Later, RemoteInv, RemoteTypes, ProcKept, Inferred
<1>6. CASE Remote!CheckoutBranch(r)
  <2> DEFINE more == host.files \cup {NameOf[r]}
             old == host.branches
             new == [b \in DOMAIN old \cup {Remote!Branch(r)} |->
                       IF b = Remote!Branch(r) THEN old[host.head] ELSE old[b]]
  <2>1. \/ host' = [[[host EXCEPT !.files = more] EXCEPT !.head = Remote!Branch(r)]
                      EXCEPT !.branches = new]
        \/ host' = [host EXCEPT !.files = more]
        \/ /\ Remote!Branch(r) \in DOMAIN old
           /\ host' = [[host EXCEPT !.files = more] EXCEPT !.head = Remote!Branch(r)]
    BY <1>4, <1>6 DEF Remote!CheckoutBranch
  <2>2. \A b \in DOMAIN new : Later(new[b])
    BY <1>4
  <2>3. DOMAIN new = DOMAIN old \cup {Remote!Branch(r)}
    OBVIOUS
  <2> HIDE DEF new
  <2> QED BY <1>4, <1>5, <2>1, <2>2, <2>3
<1>7. CASE Remote!Add(r)
  <2>1. \/ host' = host
        \/ host' = [host EXCEPT !.index = host.index \cup {NameOf[r]}]
    BY <1>7 DEF Remote!Add
  <2>2. Later(host.index \cup {NameOf[r]})
    BY <1>3, <1>4 DEF Later
  <2> QED BY <1>4, <1>5, <2>1, <2>2
<1>8. CASE Remote!Commit(r)
  <2> DEFINE new == [host.branches EXCEPT ![host.head] = host.branches[host.head] \cup host.index]
             left == host.files \ host.index
  <2>1. host' = [[[host EXCEPT !.branches = new] EXCEPT !.files = left] EXCEPT !.index = {}]
    BY <1>4, <1>8 DEF Remote!Commit
  <2>2. Later({}) /\ Later(host.branches[host.head] \cup host.index)
    BY <1>4 DEF Later
  <2>3. DOMAIN new = DOMAIN host.branches /\ \A b \in DOMAIN new : Later(new[b])
    BY <1>4, <2>2
  <2> HIDE DEF new, left
  <2> QED BY <1>4, <1>5, <2>1, <2>2, <2>3
<1>9. CASE Remote!Publish(r)
  <2> DEFINE new == [b \in DOMAIN host.remote \cup {Remote!Branch(r)} |->
                       IF b = Remote!Branch(r) THEN host.branches[b] ELSE host.remote[b]]
  <2>1. \/ host' = host
        \/ Remote!Branch(r) \in DOMAIN host.branches /\ host' = [host EXCEPT !.remote = new]
    BY <1>9 DEF Remote!Publish
  <2>2. Remote!Branch(r) \in DOMAIN host.branches => \A b \in DOMAIN new : Later(new[b])
    BY <1>4
  <2> HIDE DEF new
  <2> QED BY <1>4, <1>5, <2>1, <2>2
<1>10. CASE Remote!CheckoutBack(r)
  <2>1. host' = [host EXCEPT !.head = Remote!Main]
    BY <1>10 DEF Remote!CheckoutBack
  <2> QED BY <1>4, <1>5, <2>1
<1> QED BY <1>6, <1>7, <1>8, <1>9, <1>10 DEF Remote!Push

LEMMA OperatorKeeps ==
  ASSUME RemoteInv, NEW n,
         \/ Remote!MakeSandbox(n) \/ Remote!DestroySandbox(n) \/ Remote!RemoveContainer(n)
         \/ Remote!Cleanup(n) \/ Remote!BeginBench(n) \/ Remote!EndBench(n) \/ Remote!SwapModel(n)
  PROVE  RemoteInv'
<1> USE DEF Remote!MakeSandbox, Remote!DestroySandbox, Remote!RemoveContainer, Remote!Cleanup,
            Remote!BeginBench, Remote!EndBench, Remote!SwapModel
<1>1. ProcKept
  BY ProcUntouched
<1>2. HostKept
  BY HostUntouched
<1> QED BY <1>1, <1>2, KeptIsEnough

LEMMA RemoteStep ==
  ASSUME Sandboxed \subseteq Runs, RemoteInv, [Remote!Next]_(Remote!vars)
  PROVE  RemoteInv'
<1>1. ASSUME NEW r \in Runs, Remote!RunPipeline(r) \/ Remote!RunSimplePipeline(r)
      PROVE  RemoteInv'
  BY <1>1, PipelineKeeps, PushKeeps DEF Remote!RunPipeline, Remote!RunSimplePipeline
<1>2. CASE UNCHANGED Remote!vars
  BY <1>2, ProcUntouched, HostUntouched, KeptIsEnough DEF Remote!vars
<1> QED BY <1>1, <1>2, OperatorKeeps DEF Remote!Next

\* Whatever the runs share on the host, and whichever of them fail, are killed or leave
\* partial results, a published branch holds only results of sessions in which the model
\* answered (work_engine.py).
THEOREM PublishedWasAnswered ==
  ASSUME Sandboxed \subseteq Runs
  PROVE  Remote!Spec => []OnlyAnswersArePublished
<1>1. RemoteInv => Remote!OnlyAnswersArePublished
  BY DEF RemoteInv, Inferred, Remote!OnlyAnswersArePublished
<1>2. RemoteInv /\ [Remote!Next]_(Remote!vars) => RemoteInv'
  BY RemoteStep
<1> QED BY <1>1, <1>2, RemoteInit, PTL DEF Remote!Spec, OnlyAnswersArePublished

-----------------------------------------------------------------------------
(* The stages of an engine task. *)

\* A generated file.
MadeFile == [name : Making!Names, content : Making!Contents]

\* What was validated is generated only before.
MakingInv ==
    /\ made \in Seq(MadeFile)
    /\ stage = "generate" => valid = "none"
    /\ ValidatedCodeRuns

\* A block put among the files makes files.
LEMMA PutType ==
  ASSUME NEW seq \in Seq(MadeFile), NEW name \in Making!Names, NEW content \in Making!Contents
  PROVE  Making!Put(seq, name, content) \in Seq(MadeFile)
<1> DEFINE file == [name |-> name, content |-> content]
           new == [i \in DOMAIN seq |-> IF seq[i].name = name THEN file ELSE seq[i]]
<1>1. file \in MadeFile
  BY DEF MadeFile
<1> HIDE DEF file
<1>2. new \in Seq(MadeFile)
  <2>1. DOMAIN seq = 1 .. Len(seq) /\ Len(seq) \in Nat /\ \A i \in 1 .. Len(seq) : seq[i] \in MadeFile
    BY ElementOfSeq
  <2>2. new \in [1 .. Len(seq) -> MadeFile]
    BY <1>1, <2>1
  <2> QED BY <2>1, <2>2, SeqDef
<1>3. Append(seq, file) \in Seq(MadeFile)
  BY <1>1
<1>4. Making!Put(seq, name, content) =
        IF \E i \in DOMAIN seq : seq[i].name = name THEN new ELSE Append(seq, file)
  BY DEF Making!Put, file
<1> HIDE DEF new
<1> QED BY <1>2, <1>3, <1>4

\* The blocks of a reply make files.
LEMMA FilesOfType ==
  ASSUME NEW blocks \in Making!Blocks
  PROVE  Making!FilesOf(blocks) \in Seq(MadeFile)
<1> DEFINE puts == [n \in 1 .. Len(blocks) |-> [t \in Seq(MadeFile) |->
                      Making!Put(t, Making!FileName(blocks[n], n), blocks[n].content)]]
           after == CHOOSE after :
             after = [n \in 0 .. Len(blocks) |->
               IF n = 0 THEN <<>>
               ELSE Making!Put(after[n - 1], Making!FileName(blocks[n], n), blocks[n].content)]
<1>1. Len(blocks) \in Nat
      /\ \A n \in 1 .. Len(blocks) : /\ blocks[n].name \in {"none", Making!Module, Making!Other}
                                     /\ blocks[n].content \in Making!Contents
  <2>1. PICK k \in 1 .. MaxBlocks :
          blocks \in [1 .. k -> [name : {"none", Making!Module, Making!Other}, content : Making!Contents]]
    BY DEF Making!Blocks, Making!None
  <2>2. k \in Nat
    OBVIOUS
  <2>3. Len(blocks) = k
    BY <2>1, <2>2
  <2> QED BY <2>1, <2>2, <2>3
<1>2. \A n \in 1 .. Len(blocks) : Making!FileName(blocks[n], n) \in Making!Names
  BY <1>1 DEF Making!FileName, Making!Names, Making!None
<1>3. puts \in [1 .. Len(blocks) -> [Seq(MadeFile) -> Seq(MadeFile)]] /\ <<>> \in Seq(MadeFile)
  BY <1>1, <1>2, PutType
<1>4. PICK f \in [0 .. Len(blocks) -> Seq(MadeFile)] :
        f[0] = <<>> /\ \A i \in 1 .. Len(blocks) : f[i] = puts[i][f[i - 1]]
  <2> HIDE DEF puts, after
  <2>1. \E f : IsLoop(f, Len(blocks), Seq(MadeFile), <<>>, puts)
    BY <1>1, <1>3, Recursion
  <2> QED BY <2>1 DEF IsLoop
<1>5. \A i \in 1 .. Len(blocks) :
        f[i] = Making!Put(f[i - 1], Making!FileName(blocks[i], i), blocks[i].content)
  <2> TAKE i \in 1 .. Len(blocks)
  <2>1. f[i - 1] \in Seq(MadeFile)
    BY <1>1
  <2> QED BY <1>4, <2>1
<1>6. f = [n \in 0 .. Len(blocks) |->
             IF n = 0 THEN <<>>
             ELSE Making!Put(f[n - 1], Making!FileName(blocks[n], n), blocks[n].content)]
  <2> HIDE DEF puts, after
  <2>1. \A n \in 0 .. Len(blocks) : f[n] =
             IF n = 0 THEN <<>>
             ELSE Making!Put(f[n - 1], Making!FileName(blocks[n], n), blocks[n].content)
    <3> TAKE n \in 0 .. Len(blocks)
    <3>1. CASE n = 0
      BY <1>4, <3>1
    <3>2. CASE n \in 1 .. Len(blocks)
      <4>1. n # 0
        BY <3>2
      <4> QED BY <1>5, <3>2, <4>1, Zenon
    <3> QED BY <1>1, <3>1, <3>2
  <2> QED BY <2>1
<1>7. after = [n \in 0 .. Len(blocks) |->
               IF n = 0 THEN <<>>
               ELSE Making!Put(after[n - 1], Making!FileName(blocks[n], n), blocks[n].content)]
  BY <1>6, Zenon
<1>8. after[Len(blocks)] \in Seq(MadeFile)
  <2> HIDE DEF after, puts
  <2> DEFINE N == {n \in Nat : n <= Len(blocks) => after[n] \in Seq(MadeFile)}
  <2>0. \A n \in 0 .. Len(blocks) : after[n] =
          IF n = 0 THEN <<>>
          ELSE Making!Put(after[n - 1], Making!FileName(blocks[n], n), blocks[n].content)
    BY <1>7, Zenon
  <2>1. 0 \in N
    <3>1. after[0] = <<>>
      BY <1>1, <2>0
    <3> QED BY <1>3, <3>1
  <2>2. ASSUME NEW n \in Nat, n \in N PROVE n + 1 \in N
    <3> SUFFICES ASSUME n + 1 <= Len(blocks) PROVE after[n + 1] \in Seq(MadeFile)
      OBVIOUS
    <3>1. after[n] \in Seq(MadeFile) /\ n + 1 \in 1 .. Len(blocks)
      BY <1>1, <2>2
    <3>2. after[n + 1] = Making!Put(after[n], Making!FileName(blocks[n + 1], n + 1), blocks[n + 1].content)
      BY <1>1, <2>0, <3>1
    <3> QED BY <1>1, <1>2, <3>1, <3>2, PutType
  <2> HIDE DEF N
  <2>3. Nat \subseteq N
    BY <2>1, <2>2, Induction
  <2> QED BY <1>1, <2>3 DEF N
<1>9. Making!FilesOf(blocks) = after[Len(blocks)]
  BY Zenon DEF Making!FilesOf
<1> QED BY <1>8, <1>9

\* What validate lets through passed file by file, and its targeting rail.
LEMMA ValidatedRuns ==
  ASSUME NEW fs \in Seq(MadeFile), Making!Validate(fs) = "passed"
  PROVE  /\ \A i \in DOMAIN fs : fs[i].content.runs = "ends" /\ fs[i].content.text \in {"code", "stub"}
         /\ \A d \in job.declared : \E i \in DOMAIN fs : fs[i].name = d /\ fs[i].content.text # "stub"
<1>1. Making!Targeting(fs) /\ \A i \in DOMAIN fs : Making!FileVerdict(fs[i].content) = "passes"
  BY DEF Making!Validate
<1>2. \A i \in DOMAIN fs : fs[i].content \in Making!Contents
  <2>1. DOMAIN fs = 1 .. Len(fs) /\ \A i \in 1 .. Len(fs) : fs[i] \in MadeFile
    BY ElementOfSeq
  <2> QED BY <2>1 DEF MadeFile
<1>3. \A c \in Making!Contents : /\ c.runs \in {"ends", "raises", "exits", "hangs"}
                                 /\ c.text \in {"empty", "unparsable", "stub", "code"}
  BY DEF Making!Contents, Making!Odd, Making!Code
<1>4. \A c \in Making!Contents : Making!FileVerdict(c) = "passes" => c.runs = "ends" /\ c.text \in {"code", "stub"}
  BY <1>3 DEF Making!FileVerdict, Making!Execution
<1>5. \A d \in job.declared : \E i \in DOMAIN fs : fs[i].name = d /\ fs[i].content.text # "stub"
  BY <1>1 DEF Making!Targeting
<1> QED BY <1>1, <1>2, <1>4, <1>5

LEMMA MakingInit == Making!Init => MakingInv
BY DEF Making!Init, Making!None, MakingInv, ValidatedCodeRuns, Making!ValidatedCodeRuns

\* What is not touched stays as it was.
LEMMA MadeKept ==
  ASSUME MakingInv, UNCHANGED <<job, made, valid>>, stage' = "generate" => stage = "generate"
  PROVE  MakingInv'
BY DEF MakingInv, ValidatedCodeRuns, Making!ValidatedCodeRuns

LEMMA MakingStep == MakingInv /\ [Making!Next]_stageVars => MakingInv'
<1> SUFFICES ASSUME MakingInv, [Making!Next]_stageVars PROVE MakingInv'
  OBVIOUS
<1>1. CASE Making!Generate
  <2>1. valid = "none" /\ job' = job
    BY <1>1 DEF Making!Generate, MakingInv
  <2>2. made' \in Seq(MadeFile)
    <3>1. CASE \E b \in Making!Blocks : made' = IF job.module THEN Making!FilesOf(b) ELSE <<>>
      BY <3>1, FilesOfType
    <3>2. CASE \E a \in Making!Answer : made' = IF job.module THEN Making!Whole(a) ELSE <<>>
      <4>1. PICK a \in Making!Answer : made' = IF job.module THEN Making!Whole(a) ELSE <<>>
        BY <3>2
      <4>2. Making!Odd("empty") \in Making!Contents /\ Making!Odd("unparsable") \in Making!Contents
        BY DEF Making!Contents
      <4>3. Making!Whole(a) \in Seq(MadeFile)
        <5>1. ASSUME NEW c \in Making!Contents PROVE <<[name |-> Making!Module, content |-> c]>> \in Seq(MadeFile)
          <6>1. [name |-> Making!Module, content |-> c] \in MadeFile
            BY DEF MadeFile, Making!Names
          <6> QED BY <6>1
        <5>2. <<>> \in Seq(MadeFile)
          OBVIOUS
        <5> QED BY <4>2, <5>1, <5>2 DEF Making!Whole
      <4> QED BY <4>1, <4>3
    <3> QED BY <1>1, <3>1, <3>2 DEF Making!Generate
  <2>3. stage' # "generate" /\ valid' \in {"none", "exhausted"}
    BY <1>1, <2>1 DEF Making!Generate
  <2> QED BY <2>2, <2>3 DEF MakingInv, ValidatedCodeRuns, Making!ValidatedCodeRuns
<1>2. CASE Making!ValidateFiles
  <2>1. valid' = Making!Validate(made) /\ made' = made /\ job' = job /\ stage' # "generate"
    BY <1>2 DEF Making!ValidateFiles
  <2>2. made' \in Seq(MadeFile)
    BY <2>1 DEF MakingInv
  <2>3. ValidatedCodeRuns'
    BY <2>1, ValidatedRuns DEF MakingInv, ValidatedCodeRuns, Making!ValidatedCodeRuns
  <2> QED BY <2>1, <2>2, <2>3 DEF MakingInv
<1>3. CASE Making!RunTests
  BY <1>3, MadeKept DEF Making!RunTests
<1>4. CASE Making!Commit
  BY <1>4, MadeKept DEF Making!Commit
<1>5. ASSUME NEW r, Making!Call(r), stage # "generate" PROVE stage' # "generate"
  BY <1>5 DEF Making!Call
<1>6. CASE Making!ScoreTask
  BY <1>5, <1>6, MadeKept DEF Making!ScoreTask
<1>7. CASE Making!Unscored
  BY <1>7, MadeKept DEF Making!Unscored
<1>8. CASE Making!ScoreVerdict
  BY <1>5, <1>8, MadeKept DEF Making!ScoreVerdict
<1>9. CASE Making!JudgeRun
  BY <1>9, MadeKept DEF Making!JudgeRun
<1>10. CASE UNCHANGED stageVars
  BY <1>10, MadeKept DEF stageVars
<1> QED BY <1>1, <1>2, <1>3, <1>4, <1>6, <1>7, <1>8, <1>9, <1>10 DEF Making!Next

\* What validation let through was executed to its end, file by file, parses, and
\* leaves no declared file missing or an untouched stub, for any imports and any
\* number of blocks that replace one another.
THEOREM ValidatedRunsToItsEnd == Making!Spec => []ValidatedCodeRuns
<1>1. MakingInv => ValidatedCodeRuns
  BY DEF MakingInv
<1> QED BY <1>1, MakingInit, MakingStep, PTL DEF Making!Spec, Making!vars, stageVars

-----------------------------------------------------------------------------
(* The tasks of a PRD. *)

LEMMA ReadingToSet == ASSUME NEW s PROVE Reading!ToSet(s) = Elements(s)
BY DEF Reading!ToSet, Elements

LEMMA ReadingAmong == ASSUME NEW s, NEW T PROVE Reading!Among(s, T) = Among(s, T)
BY DEF Reading!Among, Among

\* The greatest of some of the places of a list is one of them, and so is the least.
LEMMA PlacesHaveEnds ==
  ASSUME NEW n \in Nat, NEW T, T \subseteq 1 .. n, T # {}
  PROVE  Reading!Max(T) \in T /\ Reading!Min(T) \in T
<1>1. \E x \in T : \A y \in T : x >= y
  <2> DEFINE S == {n - x : x \in T}
  <2>0. \A x \in T : x \in Nat /\ x <= n
    OBVIOUS
  <2>1. S \subseteq Nat /\ S # {}
    <3>1. \A x \in T : n - x \in Nat
      BY <2>0
    <3> QED BY <3>1
  <2>2. PICK m \in S : \A y \in S : m <= y
    <3> HIDE DEF S
    <3> QED BY <2>1, Least
  <2>3. PICK x \in T : m = n - x
    BY <2>2
  <2>4. ASSUME NEW y \in T PROVE x >= y
    <3>1. n - y \in S
      OBVIOUS
    <3>2. m <= n - y
      BY <2>2, <3>1
    <3> HIDE DEF S
    <3> QED BY <2>0, <2>3, <3>2
  <2> QED BY <2>4
<1>2. \E x \in T : \A y \in T : x <= y
  <2>1. T \subseteq Nat
    OBVIOUS
  <2> QED BY <2>1, Least
<1> QED BY <1>1, <1>2 DEF Reading!Max, Reading!Min

\* A list of tasks, with ids and dependencies that have a rank.
IsTasks(found) ==
    /\ found \in Seq(Reading!ToSet(found))
    /\ \A i \in DOMAIN found : found[i].deps \in Seq(Reading!Ids(found))
Ranked(found, rank, K) ==
    /\ rank \in [Reading!Ids(found) -> 0 .. K]
    /\ \A i \in DOMAIN found : \A j \in 1 .. Len(found[i].deps) :
          rank[found[i].deps[j]] < rank[found[i].id]

\* What task_map has of a known key.
LEMMA TaskOfKnown ==
  ASSUME NEW found, IsTasks(found), NEW key \in Reading!Known(found)
  PROVE  LET t == Reading!TaskOf(found, key) IN
         /\ t \in Reading!ToSet(found) /\ t.id = key /\ t.deps \in Seq(Reading!Ids(found))
         /\ \A rank, K : Ranked(found, rank, K) => \A j \in 1 .. Len(t.deps) : rank[t.deps[j]] < rank[key]
<1> DEFINE T == {i \in DOMAIN found : found[i].id = key}
<1>1. DOMAIN found = 1 .. Len(found) /\ Len(found) \in Nat
  BY DEF IsTasks
<1>2. T # {} /\ T \subseteq 1 .. Len(found)
  BY <1>1 DEF Reading!Known
<1>3. PICK m : m = Reading!Max(T)
  OBVIOUS
<1>4. m \in T
  <2> HIDE DEF T
  <2> QED BY <1>1, <1>2, <1>3, PlacesHaveEnds
<1>5. Reading!TaskOf(found, key) = found[m]
  BY <1>3 DEF Reading!TaskOf
<1>6. m \in DOMAIN found /\ found[m].id = key
  BY <1>4
<1> HIDE DEF T
<1>7. found[m] \in Reading!ToSet(found)
  BY <1>6 DEF Reading!ToSet
<1> QED BY <1>5, <1>6, <1>7 DEF IsTasks, Ranked

LEMMA KnownIsId ==
  ASSUME NEW found PROVE Reading!Known(found) \subseteq Reading!Ids(found)
BY DEF Reading!Ids

-----------------------------------------------------------------------------
(* The visits of some ids, one after the other. *)

\* What visit makes of every state it may find.
Sorters(found) == [Reading!Ids(found) -> [Reading!Sorts(found) -> Reading!Sorts(found)]]

\* The loop behind VisitAll.
OneByOne(g, acc, ids, after) ==
    after[0] = acc /\ \A n \in 1 .. Len(ids) : after[n] = g[ids[n]][after[n - 1]]

LEMMA AllVisited ==
  ASSUME NEW g, NEW acc, NEW ids, Len(ids) \in Nat, NEW D, NEW after \in [0 .. Len(ids) -> D],
         OneByOne(g, acc, ids, after)
  PROVE  Reading!VisitAll(g, acc, ids) = after[Len(ids)]
<1> DEFINE loop == CHOOSE f : f = [n \in 0 .. Len(ids) |->
                                     IF n = 0 THEN acc ELSE g[ids[n]][f[n - 1]]]
<1>1. after = [n \in 0 .. Len(ids) |-> IF n = 0 THEN acc ELSE g[ids[n]][after[n - 1]]]
  <2> HIDE DEF loop
  <2>1. \A n \in 0 .. Len(ids) : after[n] = IF n = 0 THEN acc ELSE g[ids[n]][after[n - 1]]
    <3> TAKE n \in 0 .. Len(ids)
    <3>1. CASE n = 0
      BY <3>1 DEF OneByOne
    <3>2. CASE n \in 1 .. Len(ids)
      <4>1. n # 0
        BY <3>2
      <4>2. after[n] = g[ids[n]][after[n - 1]]
        BY <3>2 DEF OneByOne
      <4> QED BY <4>1, <4>2, Zenon
    <3> QED BY <3>1, <3>2
  <2> QED BY <2>1
<1>2. loop = [n \in 0 .. Len(ids) |-> IF n = 0 THEN acc ELSE g[ids[n]][loop[n - 1]]]
  BY <1>1, Zenon
<1>3. Reading!VisitAll(g, acc, ids) = loop[Len(ids)]
  BY Zenon DEF Reading!VisitAll
<1> HIDE DEF loop
<1>4. \A n \in 0 .. Len(ids) : loop[n] = IF n = 0 THEN acc ELSE g[ids[n]][loop[n - 1]]
  BY <1>2, Zenon
<1> DEFINE N == {n \in Nat : n <= Len(ids) => loop[n] = after[n]}
<1>5. 0 \in N
  BY <1>4 DEF OneByOne
<1>6. ASSUME NEW n \in Nat, n \in N PROVE n + 1 \in N
  <2> SUFFICES ASSUME n + 1 <= Len(ids) PROVE loop[n + 1] = after[n + 1]
    OBVIOUS
  <2>1. n + 1 \in 1 .. Len(ids) /\ n + 1 \in 0 .. Len(ids) /\ n + 1 # 0 /\ (n + 1) - 1 = n
    OBVIOUS
  <2>2. loop[n] = after[n]
    BY <1>6
  <2>3. loop[n + 1] = g[ids[n + 1]][loop[n]]
    BY <1>4, <2>1, Zenon
  <2>4. after[n + 1] = g[ids[n + 1]][after[n]]
    BY <2>1 DEF OneByOne
  <2> QED BY <2>2, <2>3, <2>4, Zenon
<1> HIDE DEF N
<1>7. Len(ids) \in N
  BY <1>5, <1>6, Induction
<1> QED BY <1>3, <1>7 DEF N

LEMMA AllVisitedLoop ==
  ASSUME NEW found, NEW h \in Sorters(found), NEW acc \in Reading!Sorts(found),
         NEW ids \in Seq(Reading!Ids(found))
  PROVE  \E after \in [0 .. Len(ids) -> Reading!Sorts(found)] :
            OneByOne(h, acc, ids, after) /\ Reading!VisitAll(h, acc, ids) = after[Len(ids)]
<1> DEFINE D == Reading!Sorts(found)
           turn == [i \in 1 .. Len(ids) |-> h[ids[i]]]
<1>1. Len(ids) \in Nat /\ \A i \in 1 .. Len(ids) : ids[i] \in Reading!Ids(found)
  BY LenProperties, ElementOfSeq
<1>2. turn \in [1 .. Len(ids) -> [D -> D]]
  BY <1>1 DEF Sorters
<1>3. PICK f : f \in [0 .. Len(ids) -> D] /\ f[0] = acc /\ \A i \in 1 .. Len(ids) : f[i] = turn[i][f[i - 1]]
  <2>0. acc \in D
    OBVIOUS
  <2> HIDE DEF turn, D
  <2>1. \E f : IsLoop(f, Len(ids), D, acc, turn)
    BY <1>1, <1>2, <2>0, Recursion
  <2> QED BY <2>1 DEF IsLoop
<1>4. OneByOne(h, acc, ids, f)
  <2> HIDE DEF D
  <2>1. \A i \in 1 .. Len(ids) : turn[i] = h[ids[i]]
    OBVIOUS
  <2> HIDE DEF turn
  <2> QED BY <1>3, <2>1 DEF OneByOne
<1>4a. f \in [0 .. Len(ids) -> Reading!Sorts(found)]
  BY <1>3
<1> HIDE DEF turn
<1>5. Reading!VisitAll(h, acc, ids) = f[Len(ids)]
  <2> HIDE DEF D
  <2> QED BY <1>1, <1>4a, <1>4, AllVisited
<1> QED BY <1>4a, <1>4, <1>5

-----------------------------------------------------------------------------
(* The recursion of visit has one solution. *)

Alike(found, rank, g, h, n) ==
    \A key \in Reading!Ids(found), acc \in Reading!Sorts(found) : rank[key] < n => g[key][acc] = h[key][acc]
Marked(acc, key) == [acc EXCEPT !.visited = @ \cup {key}]

LEMMA MarkedType ==
  ASSUME NEW found, NEW acc \in Reading!Sorts(found), NEW key \in Reading!Ids(found)
  PROVE  /\ Marked(acc, key) \in Reading!Sorts(found)
         /\ Marked(acc, key).visited = acc.visited \cup {key} /\ Marked(acc, key).result = acc.result
BY DEF Marked, Reading!Sorts

LEMMA OneVisitType ==
  ASSUME NEW found, IsTasks(found), NEW h \in Sorters(found),
         NEW key \in Reading!Ids(found), NEW acc \in Reading!Sorts(found)
  PROVE  Reading!Visit(found, h, key, acc) \in Reading!Sorts(found)
<1>1. CASE key \in acc.visited
  BY <1>1 DEF Reading!Visit
<1>2. CASE key \notin acc.visited /\ key \notin Reading!Known(found)
  BY <1>2, MarkedType DEF Reading!Visit, Marked
<1>3. CASE key \notin acc.visited /\ key \in Reading!Known(found)
  <2> DEFINE t == Reading!TaskOf(found, key)
             end == Reading!VisitAll(h, Marked(acc, key), t.deps)
  <2>1. Reading!Visit(found, h, key, acc) = [end EXCEPT !.result = Append(@, t)]
    BY <1>3 DEF Reading!Visit, Marked
  <2>2. t \in Reading!ToSet(found) /\ t.deps \in Seq(Reading!Ids(found))
    BY <1>3, TaskOfKnown
  <2>3. Marked(acc, key) \in Reading!Sorts(found)
    BY MarkedType
  <2> HIDE DEF t
  <2>4. end \in Reading!Sorts(found)
    <3>1. PICK after \in [0 .. Len(t.deps) -> Reading!Sorts(found)] : end = after[Len(t.deps)]
      BY <2>2, <2>3, AllVisitedLoop
    <3>2. Len(t.deps) \in Nat
      BY <2>2, LenProperties
    <3> QED BY <3>1, <3>2
  <2> HIDE DEF end
  <2>5. end.result \in Seq(Reading!ToSet(found))
    BY <2>4 DEF Reading!Sorts
  <2>6. Append(end.result, t) \in Seq(Reading!ToSet(found))
    BY <2>2, <2>5, AppendProperties
  <2> QED BY <2>1, <2>4, <2>6 DEF Reading!Sorts
<1> QED BY <1>1, <1>2, <1>3

LEMMA VisitIsLocal ==
  ASSUME NEW found, IsTasks(found), NEW rank, NEW K \in Nat, Ranked(found, rank, K),
         NEW h \in Sorters(found), NEW g, NEW n \in Nat, Alike(found, rank, g, h, n),
         NEW key \in Reading!Ids(found), NEW acc \in Reading!Sorts(found), rank[key] <= n
  PROVE  Reading!Visit(found, g, key, acc) = Reading!Visit(found, h, key, acc)
<1>1. CASE key \in acc.visited \/ key \notin Reading!Known(found)
  BY <1>1 DEF Reading!Visit
<1>2. CASE key \notin acc.visited /\ key \in Reading!Known(found)
  <2> DEFINE t == Reading!TaskOf(found, key)
             m == Marked(acc, key)
             ids == t.deps
  <2>1. /\ Reading!Visit(found, g, key, acc) = [Reading!VisitAll(g, m, ids) EXCEPT !.result = Append(@, t)]
        /\ Reading!Visit(found, h, key, acc) = [Reading!VisitAll(h, m, ids) EXCEPT !.result = Append(@, t)]
    BY <1>2 DEF Reading!Visit, Marked
  <2>2. ids \in Seq(Reading!Ids(found)) /\ \A j \in 1 .. Len(ids) : rank[ids[j]] < rank[key]
    BY <1>2, TaskOfKnown
  <2>3. m \in Reading!Sorts(found)
    BY MarkedType
  <2>4. rank[key] \in Nat
    BY DEF Ranked
  <2> HIDE DEF t, m, ids
  <2>5. Len(ids) \in Nat /\ \A j \in 1 .. Len(ids) : ids[j] \in Reading!Ids(found) /\ rank[ids[j]] \in Nat
    <3>1. Len(ids) \in Nat /\ \A j \in 1 .. Len(ids) : ids[j] \in Reading!Ids(found)
      BY <2>2, LenProperties, ElementOfSeq
    <3> QED BY <3>1 DEF Ranked
  <2>6. PICK after \in [0 .. Len(ids) -> Reading!Sorts(found)] :
          OneByOne(h, m, ids, after) /\ Reading!VisitAll(h, m, ids) = after[Len(ids)]
    BY <2>2, <2>3, AllVisitedLoop
  <2>7. ASSUME NEW k \in 1 .. Len(ids) PROVE g[ids[k]][after[k - 1]] = h[ids[k]][after[k - 1]]
    <3>1. after[k - 1] \in Reading!Sorts(found) /\ ids[k] \in Reading!Ids(found)
      BY <2>5, <2>6
    <3>2. rank[ids[k]] < n
      BY <2>2, <2>4, <2>5
    <3> QED BY <3>1, <3>2 DEF Alike
  <2>8. OneByOne(g, m, ids, after)
    BY <2>6, <2>7 DEF OneByOne
  <2>9. Reading!VisitAll(g, m, ids) = after[Len(ids)]
    BY <2>5, <2>6, <2>8, AllVisited, Zenon
  <2> QED BY <2>1, <2>6, <2>9
<1> QED BY <1>1, <1>2

Sorting(found, h) ==
    [key \in Reading!Ids(found) |-> [acc \in Reading!Sorts(found) |-> Reading!Visit(found, h, key, acc)]]

LEMMA SorterExists ==
  ASSUME NEW found, IsTasks(found), NEW rank, NEW K \in Nat, Ranked(found, rank, K)
  PROVE  \E h \in Sorters(found) : h = Sorting(found, h)
<1> DEFINE D == Sorters(found)
           start == [key \in Reading!Ids(found) |-> [acc \in Reading!Sorts(found) |-> acc]]
           L == K + 2
           turn == [i \in 1 .. L |-> [h \in D |-> Sorting(found, h)]]
<1>1. L \in Nat
  OBVIOUS
<1>2. start \in D
  BY DEF Sorters
<1>3. \A h \in D : Sorting(found, h) \in D
  <2> TAKE h \in D
  <2>1. \A key \in Reading!Ids(found), acc \in Reading!Sorts(found) :
          Reading!Visit(found, h, key, acc) \in Reading!Sorts(found)
    BY OneVisitType
  <2> QED BY <2>1 DEF Sorting, Sorters
<1>4. turn \in [1 .. L -> [D -> D]]
  <2> HIDE DEF D, L
  <2> QED BY <1>3
<1>5. PICK f : f \in [0 .. L -> D] /\ f[0] = start /\ \A i \in 1 .. L : f[i] = turn[i][f[i - 1]]
  <2> HIDE DEF D, L, start, turn
  <2>1. \E f : IsLoop(f, L, D, start, turn)
    BY <1>1, <1>2, <1>4, Recursion
  <2> QED BY <2>1 DEF IsLoop
<1>6. \A i \in 1 .. L : f[i] = Sorting(found, f[i - 1])
  <2> TAKE i \in 1 .. L
  <2>1. f[i - 1] \in D
    <3> HIDE DEF D, L, turn
    <3> QED BY <1>1, <1>5
  <2> HIDE DEF D, L
  <2> QED BY <1>5, <2>1
<1>7. \A i \in 0 .. L : f[i] \in Sorters(found)
  BY <1>5
<1> HIDE DEF D, start, turn
<1>0. \A key \in Reading!Ids(found) : rank[key] \in 0 .. K
  BY DEF Ranked
<1> DEFINE N == {n \in Nat : n + 1 <= L => Alike(found, rank, f[n], f[n + 1], n)}
<1>8. 0 \in N
  <2>1. \A key \in Reading!Ids(found) : ~(rank[key] < 0)
    BY <1>0
  <2> QED BY <2>1 DEF Alike
<1>9. ASSUME NEW n \in Nat, n \in N PROVE n + 1 \in N
  <2> SUFFICES ASSUME n + 2 <= L, NEW key \in Reading!Ids(found), NEW acc \in Reading!Sorts(found),
                      rank[key] < n + 1
               PROVE  f[n + 1][key][acc] = f[n + 2][key][acc]
    BY DEF Alike
  <2>1. /\ n + 1 \in 1 .. L /\ n + 2 \in 1 .. L /\ n + 1 \in 0 .. L
        /\ (n + 1) - 1 = n /\ (n + 2) - 1 = n + 1
    BY <1>1
  <2>2. Alike(found, rank, f[n], f[n + 1], n)
    BY <1>1, <1>9
  <2>3. rank[key] <= n
    BY <1>0
  <2>4. f[n + 1] \in Sorters(found)
    BY <1>7, <2>1
  <2>5. Reading!Visit(found, f[n], key, acc) = Reading!Visit(found, f[n + 1], key, acc)
    BY <2>2, <2>3, <2>4, VisitIsLocal
  <2>6. /\ f[n + 1][key][acc] = Reading!Visit(found, f[n], key, acc)
        /\ f[n + 2][key][acc] = Reading!Visit(found, f[n + 1], key, acc)
    <3>1. f[n + 1] = Sorting(found, f[n]) /\ f[n + 2] = Sorting(found, f[n + 1])
      BY <1>6, <2>1
    <3> QED BY <3>1 DEF Sorting
  <2> QED BY <2>5, <2>6
<1> HIDE DEF N
<1>10. K + 1 \in N
  BY <1>8, <1>9, Induction
<1>11. K + 1 \in 0 .. L /\ K + 2 \in 1 .. L /\ (K + 2) - 1 = K + 1 /\ (K + 1) + 1 = K + 2 /\ K + 2 \in 0 .. L
  OBVIOUS
<1>12. Alike(found, rank, f[K + 1], f[K + 2], K + 1)
  BY <1>10, <1>11 DEF N
<1>13. \A key \in Reading!Ids(found), acc \in Reading!Sorts(found) : f[K + 1][key][acc] = f[K + 2][key][acc]
  <2> TAKE key \in Reading!Ids(found), acc \in Reading!Sorts(found)
  <2>1. rank[key] < K + 1
    BY <1>0
  <2> QED BY <1>12, <2>1 DEF Alike
<1>14. f[K + 2] = Sorting(found, f[K + 1])
  BY <1>6, <1>11
<1>15. f[K + 1] = f[K + 2]
  BY <1>7, <1>11, <1>13 DEF Sorters
<1> QED BY <1>7, <1>11, <1>14, <1>15

\* Whatever solves the equation is that one.
LEMMA SorterIsUnique ==
  ASSUME NEW found, IsTasks(found), NEW rank, NEW K \in Nat, Ranked(found, rank, K),
         NEW h \in Sorters(found), h = Sorting(found, h), NEW g, g = Sorting(found, g)
  PROVE  g = h
<1> DEFINE N == {n \in Nat : Alike(found, rank, g, h, n)}
<1>0. \A key \in Reading!Ids(found) : rank[key] \in 0 .. K
  BY DEF Ranked
<1>1. 0 \in N
  BY <1>0 DEF Alike
<1>2. ASSUME NEW n \in Nat, n \in N PROVE n + 1 \in N
  <2> SUFFICES ASSUME NEW key \in Reading!Ids(found), NEW acc \in Reading!Sorts(found), rank[key] < n + 1
               PROVE  g[key][acc] = h[key][acc]
    BY DEF Alike
  <2>1. rank[key] <= n
    BY <1>0
  <2>2. Reading!Visit(found, g, key, acc) = Reading!Visit(found, h, key, acc)
    BY <1>2, <2>1, VisitIsLocal
  <2>3. g[key][acc] = Reading!Visit(found, g, key, acc)
    <3>1. Sorting(found, g)[key][acc] = Reading!Visit(found, g, key, acc)
      BY DEF Sorting
    <3> QED BY <3>1, Zenon
  <2>4. h[key][acc] = Reading!Visit(found, h, key, acc)
    <3>1. Sorting(found, h)[key][acc] = Reading!Visit(found, h, key, acc)
      BY DEF Sorting
    <3> QED BY <3>1, Zenon
  <2> QED BY <2>2, <2>3, <2>4
<1> HIDE DEF N
<1>4. K + 1 \in N
  BY <1>1, <1>2, Induction
<1>5. \A key \in Reading!Ids(found), acc \in Reading!Sorts(found) : g[key][acc] = h[key][acc]
  BY <1>0, <1>4 DEF N, Alike
<1>6. g = [key \in Reading!Ids(found) |-> [acc \in Reading!Sorts(found) |-> g[key][acc]]]
  <2>1. DOMAIN g = Reading!Ids(found) /\ g = [key \in Reading!Ids(found) |-> g[key]]
    BY DEF Sorting
  <2>2. \A key \in Reading!Ids(found) : g[key] = [acc \in Reading!Sorts(found) |-> g[key][acc]]
    BY DEF Sorting
  <2> QED BY <2>1, <2>2
<1>7. h = [key \in Reading!Ids(found) |-> [acc \in Reading!Sorts(found) |-> h[key][acc]]]
  BY DEF Sorters
<1> QED BY <1>5, <1>6, <1>7

-----------------------------------------------------------------------------
(* A visit keeps the order, and returns with its task in it. *)

Sorted(acc) == {acc.result[i].id : i \in DOMAIN acc.result}

\* The tasks whose dependencies are being visited.
Waiting(found, acc) == (acc.visited \cap Reading!Known(found)) \ Sorted(acc)

InOrder(found, s) ==
    \A i \in DOMAIN s :
        /\ \A k \in DOMAIN s \ {i} : s[k].id # s[i].id
        /\ \A j \in 1 .. Len(s[i].deps) :
              s[i].deps[j] \in Reading!Known(found) => \E k \in 1 .. i - 1 : s[k].id = s[i].deps[j]

Sane(found, acc) ==
    acc \in Reading!Sorts(found) /\ Sorted(acc) \subseteq acc.visited /\ InOrder(found, acc.result)
Keeping(found, a, b) ==
    Sane(found, b) /\ Waiting(found, b) = Waiting(found, a) /\ Sorted(a) \subseteq Sorted(b)

Correct(found, rank, h, n) ==
    \A key \in Reading!Ids(found), acc \in Reading!Sorts(found) :
        rank[key] < n /\ Sane(found, acc) /\ (\A w \in Waiting(found, acc) : rank[key] < rank[w])
        => /\ Keeping(found, acc, h[key][acc])
           /\ key \in Reading!Known(found) => key \in Sorted(h[key][acc])

LEMMA VisitsKeep ==
  ASSUME NEW found, IsTasks(found), NEW rank, NEW n, NEW h \in Sorters(found), Correct(found, rank, h, n),
         NEW acc, Sane(found, acc), NEW ids \in Seq(Reading!Ids(found)),
         \A j \in 1 .. Len(ids) : rank[ids[j]] < n,
         \A j \in 1 .. Len(ids) : \A w \in Waiting(found, acc) : rank[ids[j]] < rank[w]
  PROVE  LET end == Reading!VisitAll(h, acc, ids) IN
         /\ Keeping(found, acc, end)
         /\ \A j \in 1 .. Len(ids) : ids[j] \in Reading!Known(found) => ids[j] \in Sorted(end)
<1>1. Len(ids) \in Nat /\ \A j \in 1 .. Len(ids) : ids[j] \in Reading!Ids(found)
  BY LenProperties, ElementOfSeq
<1>2. acc \in Reading!Sorts(found)
  BY DEF Sane
<1>3. PICK after \in [0 .. Len(ids) -> Reading!Sorts(found)] :
        OneByOne(h, acc, ids, after) /\ Reading!VisitAll(h, acc, ids) = after[Len(ids)]
  BY <1>2, AllVisitedLoop
<1> DEFINE Good(k) == /\ Keeping(found, acc, after[k])
                      /\ \A j \in 1 .. k : ids[j] \in Reading!Known(found) => ids[j] \in Sorted(after[k])
           N == {k \in Nat : k <= Len(ids) => Good(k)}
<1>4. 0 \in N
  <2>1. after[0] = acc
    BY <1>3 DEF OneByOne
  <2>2. Keeping(found, acc, acc)
    BY DEF Keeping
  <2> QED BY <2>1, <2>2
<1>5. ASSUME NEW k \in Nat, k \in N PROVE k + 1 \in N
  <2> SUFFICES ASSUME k + 1 <= Len(ids) PROVE Good(k + 1)
    OBVIOUS
  <2> DEFINE key == ids[k + 1]
             a == after[k]
             b == after[k + 1]
  <2>1. k + 1 \in 1 .. Len(ids) /\ (k + 1) - 1 = k /\ k \in 0 .. Len(ids)
    BY <1>1
  <2>2. key \in Reading!Ids(found) /\ a \in Reading!Sorts(found) /\ rank[key] < n
    BY <1>1, <1>3, <2>1
  <2>3. b = h[key][a]
    BY <1>3, <2>1 DEF OneByOne
  <2>4. Good(k)
    BY <1>1, <1>5
  <2>5. Keeping(found, acc, a)
    BY <2>4
  <2>6. \A w \in Waiting(found, acc) : rank[key] < rank[w]
    BY <2>1
  <2>7. \A j \in 1 .. k : ids[j] \in Reading!Known(found) => ids[j] \in Sorted(a)
    BY <2>4
  <2> HIDE DEF key, a, b
  <2>8. Sane(found, a) /\ \A w \in Waiting(found, a) : rank[key] < rank[w]
    BY <2>5, <2>6 DEF Keeping
  <2>9. Keeping(found, a, b) /\ (key \in Reading!Known(found) => key \in Sorted(b))
    BY <2>2, <2>3, <2>8 DEF Correct
  <2>10. Keeping(found, acc, b)
    BY <2>5, <2>9 DEF Keeping
  <2>11. Sorted(a) \subseteq Sorted(b)
    BY <2>9 DEF Keeping
  <2>12. ASSUME NEW j \in 1 .. k + 1, ids[j] \in Reading!Known(found) PROVE ids[j] \in Sorted(b)
    <3>1. CASE j = k + 1
      BY <2>9, <2>12, <3>1 DEF key
    <3>2. CASE j \in 1 .. k
      BY <2>7, <2>11, <2>12, <3>2
    <3> QED BY <3>1, <3>2
  <2> QED BY <2>10, <2>12 DEF b
<1> HIDE DEF N
<1>6. Len(ids) \in N
  BY <1>1, <1>4, <1>5, Induction
<1>7. Good(Len(ids))
  BY <1>1, <1>6 DEF N
<1> QED BY <1>3, <1>7

\* A task more at the end of an order.
LEMMA SortedAppend ==
  ASSUME NEW found, IsTasks(found), NEW acc \in Reading!Sorts(found), NEW t \in Reading!ToSet(found)
  PROVE  LET r == [acc EXCEPT !.result = Append(@, t)] IN
         /\ r \in Reading!Sorts(found) /\ r.visited = acc.visited /\ r.result = Append(acc.result, t)
         /\ Sorted(r) = Sorted(acc) \cup {t.id}
<1> DEFINE l == Append(acc.result, t)
           r == [acc EXCEPT !.result = l]
<1>1. acc.result \in Seq(Reading!ToSet(found)) /\ acc.visited \in SUBSET Reading!Ids(found)
  BY DEF Reading!Sorts
<1>2. /\ l \in Seq(Reading!ToSet(found)) /\ DOMAIN acc.result = 1 .. Len(acc.result)
      /\ DOMAIN l = 1 .. Len(acc.result) + 1 /\ Len(acc.result) \in Nat
      /\ \A i \in 1 .. Len(acc.result) : l[i] = acc.result[i]
      /\ l[Len(acc.result) + 1] = t
  BY <1>1, AppendProperties
<1> HIDE DEF l
<1>3. r \in Reading!Sorts(found) /\ r.visited = acc.visited /\ r.result = l
  BY <1>1, <1>2 DEF Reading!Sorts
<1> HIDE DEF r
<1>4. Sorted(r) = Sorted(acc) \cup {t.id}
  <2>1. ASSUME NEW i \in DOMAIN l PROVE l[i].id \in Sorted(acc) \cup {t.id}
    <3>1. CASE i = Len(acc.result) + 1
      BY <1>2, <3>1
    <3>2. CASE i \in 1 .. Len(acc.result)
      BY <1>2, <3>2 DEF Sorted
    <3> QED BY <1>2, <3>1, <3>2
  <2>2. ASSUME NEW i \in DOMAIN acc.result PROVE acc.result[i].id \in Sorted(r)
    <3>1. i \in DOMAIN l /\ l[i] = acc.result[i]
      BY <1>2
    <3> QED BY <1>3, <3>1 DEF Sorted
  <2>3. t.id \in Sorted(r)
    <3>1. Len(acc.result) + 1 \in DOMAIN l
      BY <1>2
    <3> QED BY <1>2, <1>3, <3>1 DEF Sorted
  <2> QED BY <1>3, <2>1, <2>2, <2>3 DEF Sorted
<1> QED BY <1>3, <1>4 DEF r, l

LEMMA InOrderAppend ==
  ASSUME NEW found, IsTasks(found), NEW s \in Seq(Reading!ToSet(found)), InOrder(found, s),
         NEW t \in Reading!ToSet(found),
         t.id \notin {s[i].id : i \in DOMAIN s},
         \A j \in 1 .. Len(t.deps) :
            t.deps[j] \in Reading!Known(found) => t.deps[j] \in {s[i].id : i \in DOMAIN s}
  PROVE  InOrder(found, Append(s, t))
<1> DEFINE l == Append(s, t)
<1>1. /\ DOMAIN s = 1 .. Len(s) /\ DOMAIN l = 1 .. Len(s) + 1 /\ Len(s) \in Nat
      /\ \A i \in 1 .. Len(s) : l[i] = s[i]
      /\ l[Len(s) + 1] = t
  BY AppendProperties
<1> HIDE DEF l
<1>2. ASSUME NEW i \in DOMAIN l
      PROVE  /\ \A k \in DOMAIN l \ {i} : l[k].id # l[i].id
             /\ \A j \in 1 .. Len(l[i].deps) :
                   l[i].deps[j] \in Reading!Known(found) => \E k \in 1 .. i - 1 : l[k].id = l[i].deps[j]
  <2>1. CASE i = Len(s) + 1
    <3>1. l[i] = t /\ \A k \in DOMAIN l \ {i} : k \in DOMAIN s /\ l[k] = s[k]
      BY <1>1, <2>1
    <3>2. \A k \in DOMAIN s : k \in 1 .. i - 1 /\ l[k] = s[k]
      BY <1>1, <2>1
    <3> QED BY <3>1, <3>2
  <2>2. CASE i \in 1 .. Len(s)
    <3>1. i \in DOMAIN s /\ l[i] = s[i]
      BY <1>1, <2>2
    <3>2. /\ \A k \in DOMAIN s \ {i} : s[k].id # s[i].id
          /\ \A j \in 1 .. Len(s[i].deps) :
                s[i].deps[j] \in Reading!Known(found) => \E k \in 1 .. i - 1 : s[k].id = s[i].deps[j]
      BY <3>1 DEF InOrder
    <3>3. ASSUME NEW k \in DOMAIN l \ {i} PROVE l[k].id # s[i].id
      <4>1. CASE k = Len(s) + 1
        BY <1>1, <3>1, <4>1
      <4>2. CASE k \in 1 .. Len(s)
        <5>1. k \in DOMAIN s \ {i} /\ l[k] = s[k]
          BY <1>1, <4>2
        <5> QED BY <3>2, <5>1
      <4> QED BY <1>1, <4>1, <4>2
    <3>4. \A k \in 1 .. i - 1 : l[k] = s[k]
      BY <1>1, <2>2
    <3> QED BY <3>1, <3>2, <3>3, <3>4
  <2> QED BY <1>1, <2>1, <2>2
<1> QED BY <1>2 DEF InOrder, l

LEMMA OneVisitKeeps ==
  ASSUME NEW found, IsTasks(found), NEW rank, NEW K \in Nat, Ranked(found, rank, K),
         NEW h \in Sorters(found), NEW n \in Nat, Correct(found, rank, h, n),
         NEW key \in Reading!Ids(found), rank[key] <= n, NEW acc, Sane(found, acc),
         \A w \in Waiting(found, acc) : rank[key] < rank[w]
  PROVE  LET r == Reading!Visit(found, h, key, acc) IN
         Keeping(found, acc, r) /\ (key \in Reading!Known(found) => key \in Sorted(r))
<1>0. rank[key] \in Nat /\ acc \in Reading!Sorts(found)
  BY DEF Ranked, Sane
<1>1. CASE key \in acc.visited
  <2>1. Reading!Visit(found, h, key, acc) = acc
    BY <1>1 DEF Reading!Visit
  <2>2. key \notin Waiting(found, acc)
    BY <1>0
  <2>3. key \in Reading!Known(found) => key \in Sorted(acc)
    BY <1>1, <2>2 DEF Waiting
  <2>4. Keeping(found, acc, acc)
    BY DEF Keeping
  <2> QED BY <2>1, <2>3, <2>4
<1> DEFINE m == Marked(acc, key)
<1>2. m \in Reading!Sorts(found) /\ m.visited = acc.visited \cup {key} /\ m.result = acc.result
  BY <1>0, MarkedType
<1> HIDE DEF m
<1>3. Sorted(m) = Sorted(acc) /\ Sane(found, m)
  BY <1>2 DEF Sane, Sorted
<1>4. CASE key \notin acc.visited /\ key \notin Reading!Known(found)
  <2>1. Reading!Visit(found, h, key, acc) = m
    BY <1>4 DEF Reading!Visit, m, Marked
  <2>2. Waiting(found, m) = Waiting(found, acc)
    BY <1>2, <1>3, <1>4 DEF Waiting
  <2> QED BY <1>3, <1>4, <2>1, <2>2 DEF Keeping
<1>5. CASE key \notin acc.visited /\ key \in Reading!Known(found)
  <2> DEFINE t == Reading!TaskOf(found, key)
             ids == t.deps
             end == Reading!VisitAll(h, m, ids)
             r == [end EXCEPT !.result = Append(@, t)]
  <2>1. Reading!Visit(found, h, key, acc) = r
    BY <1>5 DEF Reading!Visit, m, Marked
  <2>2. /\ t \in Reading!ToSet(found) /\ t.id = key /\ ids \in Seq(Reading!Ids(found))
        /\ \A j \in 1 .. Len(ids) : rank[ids[j]] < rank[key]
    BY <1>5, TaskOfKnown
  <2> HIDE DEF t
  <2>3. key \notin Sorted(acc)
    BY <1>5 DEF Sane
  <2>4. Waiting(found, m) = Waiting(found, acc) \cup {key}
    BY <1>2, <1>3, <1>5, <2>3 DEF Waiting
  <2>5. Len(ids) \in Nat /\ \A j \in 1 .. Len(ids) : ids[j] \in Reading!Ids(found) /\ rank[ids[j]] \in Nat
    <3>1. Len(ids) \in Nat /\ \A j \in 1 .. Len(ids) : ids[j] \in Reading!Ids(found)
      BY <2>2, LenProperties, ElementOfSeq
    <3> QED BY <3>1 DEF Ranked
  <2>6. \A j \in 1 .. Len(ids) : rank[ids[j]] < n
    BY <1>0, <2>2, <2>5
  <2>7. ASSUME NEW j \in 1 .. Len(ids), NEW w \in Waiting(found, m) PROVE rank[ids[j]] < rank[w]
    <3>1. CASE w = key
      BY <2>2, <3>1
    <3>2. CASE w \in Waiting(found, acc)
      <4>1. rank[w] \in Nat
        BY <3>2, KnownIsId DEF Waiting, Ranked
      <4> QED BY <1>0, <2>2, <2>5, <3>2, <4>1
    <3> QED BY <2>4, <3>1, <3>2
  <2>8. /\ Keeping(found, m, end)
        /\ \A j \in 1 .. Len(ids) : ids[j] \in Reading!Known(found) => ids[j] \in Sorted(end)
    <3> HIDE DEF ids, end
    <3>1. LET e == Reading!VisitAll(h, m, ids) IN
          /\ Keeping(found, m, e)
          /\ \A j \in 1 .. Len(ids) : ids[j] \in Reading!Known(found) => ids[j] \in Sorted(e)
      BY <1>3, <2>2, <2>6, <2>7, VisitsKeep
    <3> QED BY <3>1 DEF end
  <2> HIDE DEF end
  <2>9. /\ Sane(found, end) /\ Waiting(found, end) = Waiting(found, acc) \cup {key}
        /\ Sorted(acc) \subseteq Sorted(end)
    BY <1>3, <2>4, <2>8 DEF Keeping
  <2>10. end \in Reading!Sorts(found) /\ Sorted(end) \subseteq end.visited /\ InOrder(found, end.result)
    BY <2>9 DEF Sane
  <2>11. /\ r \in Reading!Sorts(found) /\ r.visited = end.visited /\ r.result = Append(end.result, t)
         /\ Sorted(r) = Sorted(end) \cup {key}
    BY <2>2, <2>10, SortedAppend
  <2> HIDE DEF r
  <2>12. key \in end.visited /\ key \notin Sorted(end)
    BY <2>9 DEF Waiting
  <2>13. InOrder(found, r.result)
    <3> DEFINE s == end.result
    <3>1. s \in Seq(Reading!ToSet(found)) /\ InOrder(found, s)
      BY <2>10 DEF Reading!Sorts
    <3>2. t.id \notin {s[i].id : i \in DOMAIN s}
      BY <2>2, <2>12 DEF Sorted
    <3>3. \A j \in 1 .. Len(t.deps) :
            t.deps[j] \in Reading!Known(found) => t.deps[j] \in {s[i].id : i \in DOMAIN s}
      BY <2>8 DEF Sorted
    <3> HIDE DEF s
    <3>4. InOrder(found, Append(s, t))
      BY <2>2, <3>1, <3>2, <3>3, InOrderAppend
    <3> QED BY <2>11, <3>4 DEF s
  <2>14. Sane(found, r)
    BY <2>10, <2>11, <2>12, <2>13 DEF Sane
  <2>15. Waiting(found, r) = Waiting(found, end) \ {key}
    BY <2>11 DEF Waiting
  <2>16. key \notin Waiting(found, acc)
    BY <1>5 DEF Waiting
  <2> QED BY <2>1, <2>9, <2>11, <2>14, <2>15, <2>16 DEF Keeping
<1> QED BY <1>1, <1>4, <1>5

LEMMA SorterIsCorrect ==
  ASSUME NEW found, IsTasks(found), NEW rank, NEW K \in Nat, Ranked(found, rank, K),
         NEW h \in Sorters(found), h = Sorting(found, h)
  PROVE  Correct(found, rank, h, K + 1)
<1> DEFINE N == {n \in Nat : Correct(found, rank, h, n)}
<1>0. \A key \in Reading!Ids(found) : rank[key] \in 0 .. K
  BY DEF Ranked
<1>1. 0 \in N
  BY <1>0 DEF Correct
<1>2. ASSUME NEW n \in Nat, n \in N PROVE n + 1 \in N
  <2> SUFFICES ASSUME NEW key \in Reading!Ids(found), NEW acc \in Reading!Sorts(found),
                      rank[key] < n + 1, Sane(found, acc),
                      \A w \in Waiting(found, acc) : rank[key] < rank[w]
               PROVE  /\ Keeping(found, acc, h[key][acc])
                      /\ key \in Reading!Known(found) => key \in Sorted(h[key][acc])
    BY DEF Correct
  <2>1. rank[key] <= n
    BY <1>0
  <2>2. h[key][acc] = Reading!Visit(found, h, key, acc)
    <3>1. Sorting(found, h)[key][acc] = Reading!Visit(found, h, key, acc)
      BY DEF Sorting
    <3> QED BY <3>1, Zenon
  <2>3. Correct(found, rank, h, n)
    BY <1>2
  <2>4. LET r == Reading!Visit(found, h, key, acc) IN
        Keeping(found, acc, r) /\ (key \in Reading!Known(found) => key \in Sorted(r))
    BY <2>1, <2>3, OneVisitKeeps
  <2> QED BY <2>2, <2>4
<1> HIDE DEF N
<1>3. K + 1 \in N
  BY <1>1, <1>2, Induction
<1> QED BY <1>3 DEF N

LEMMA SortIsRight ==
  ASSUME NEW found, IsTasks(found), NEW rank, NEW K \in Nat, Ranked(found, rank, K)
  PROVE  LET s == Reading!TopologicalSort(found) IN
         s \in Seq(Reading!ToSet(found)) /\ InOrder(found, s)
<1> DEFINE visit == CHOOSE g : g = [key \in Reading!Ids(found) |->
                        [acc \in Reading!Sorts(found) |-> Reading!Visit(found, g, key, acc)]]
           start == [visited |-> {}, result |-> <<>>]
           ids == [i \in DOMAIN found |-> found[i].id]
<1>1. PICK h \in Sorters(found) : h = Sorting(found, h)
  BY SorterExists
<1>2. visit = Sorting(found, visit)
  <2>1. \E g : g = [key \in Reading!Ids(found) |->
                  [acc \in Reading!Sorts(found) |-> Reading!Visit(found, g, key, acc)]]
    BY <1>1, Zenon DEF Sorting
  <2>2. visit = [key \in Reading!Ids(found) |->
                  [acc \in Reading!Sorts(found) |-> Reading!Visit(found, visit, key, acc)]]
    BY <2>1, Zenon
  <2> HIDE DEF visit
  <2> QED BY <2>2, Zenon DEF Sorting
<1>3. Reading!TopologicalSort(found) = Reading!VisitAll(visit, start, ids).result
  BY Zenon DEF Reading!TopologicalSort
<1> HIDE DEF visit
<1>4. visit = h
  BY <1>1, <1>2, SorterIsUnique
<1>5. start \in Reading!Sorts(found) /\ start.visited = {} /\ start.result = <<>>
  BY EmptySeq DEF Reading!Sorts
<1>6. DOMAIN found = 1 .. Len(found) /\ Len(found) \in Nat
  BY DEF IsTasks
<1>7. ids \in Seq(Reading!Ids(found)) /\ Len(ids) = Len(found) /\ \A j \in 1 .. Len(ids) : ids[j] \in Reading!Known(found)
  <2>1. \A i \in DOMAIN found : found[i].id \in Reading!Known(found)
    BY DEF Reading!Known
  <2>2. ids \in [1 .. Len(found) -> Reading!Ids(found)]
    BY <1>6, <2>1, KnownIsId
  <2>3. ids \in Seq(Reading!Ids(found)) /\ Len(ids) = Len(found)
    <3> HIDE DEF ids
    <3> QED BY <1>6, <2>2, SeqDef, LenProperties
  <2> QED BY <1>6, <2>1, <2>3
<1> HIDE DEF start, ids
<1>8. Sane(found, start) /\ Waiting(found, start) = {}
  <2>1. DOMAIN start.result = {}
    BY <1>5, EmptySeq
  <2>2. Sorted(start) = {} /\ InOrder(found, start.result)
    BY <2>1 DEF Sorted, InOrder
  <2> QED BY <1>5, <2>2 DEF Sane, Waiting
<1>9. Correct(found, rank, h, K + 1)
  BY <1>1, SorterIsCorrect
<1>10. \A j \in 1 .. Len(ids) : rank[ids[j]] < K + 1
  <2>1. \A j \in 1 .. Len(ids) : ids[j] \in Reading!Ids(found)
    BY <1>7, KnownIsId
  <2> QED BY <2>1 DEF Ranked
<1>11. LET end == Reading!VisitAll(h, start, ids) IN
       /\ Keeping(found, start, end)
       /\ \A j \in 1 .. Len(ids) : ids[j] \in Reading!Known(found) => ids[j] \in Sorted(end)
  BY <1>7, <1>8, <1>9, <1>10, VisitsKeep
<1>12. Sane(found, Reading!VisitAll(h, start, ids))
  BY <1>11 DEF Keeping
<1> QED BY <1>3, <1>4, <1>12 DEF Sane, Reading!Sorts

-----------------------------------------------------------------------------
(* What the strategies find in a document. *)

LEMMA SeqsAreSequences ==
  ASSUME NEW S, NEW n \in Nat, NEW q \in Reading!Seqs(S, n)
  PROVE  q \in Seq(S)
<1>1. PICK k \in 0 .. n : q \in [1 .. k -> S]
  BY DEF Reading!Seqs
<1> QED BY <1>1, SeqDef

\* A document's parts are lists.
IsDocument(d) ==
    /\ d.modules \in Seq(Modules)
    /\ Len(d.stories) \in Nat /\ Len(d.reqs) \in Nat
    /\ d.order \in Seq([num : 1 .. MaxOrder, file : Modules])
    /\ d.sections \in Seq(Reading!Section)

LEMMA DocumentsHaveLists ==
  ASSUME NEW d \in Reading!Listed \cup Reading!Structured
  PROVE  IsDocument(d)
<1>1. MaxStories \in Nat /\ MaxReqs \in Nat /\ MaxSections \in Nat /\ MaxOrder \in Nat
      /\ Cardinality(Modules) \in Nat
  BY ReadingAssumption, FS_CardinalityType
<1>2. CASE d \in Reading!Listed
  <2>1. PICK s \in Reading!Seqs(Reading!Section, MaxSections) :
          d = [modules |-> <<>>, stories |-> <<>>, reqs |-> <<>>, order |-> <<>>, sections |-> s]
    BY <1>2 DEF Reading!Listed
  <2>2. s \in Seq(Reading!Section)
    BY <1>1, SeqsAreSequences
  <2> QED BY <2>1, <2>2, EmptySeq DEF IsDocument
<1>3. CASE d \in Reading!Structured
  <2>1. PICK m \in Reading!ModuleLists, s \in Reading!StoryLists, r \in Reading!ReqLists, o \in Reading!Orders :
          d = [modules |-> m, stories |-> s, reqs |-> r, order |-> o, sections |-> <<>>]
    BY <1>3 DEF Reading!Structured
  <2>2. m \in Seq(Modules)
    <3>1. m \in Reading!Seqs(Modules, Cardinality(Modules))
      BY DEF Reading!ModuleLists, Reading!Cardinality, Cardinality
    <3> QED BY <1>1, <3>1, SeqsAreSequences
  <2>3. s \in Seq(Reading!Matches)
    BY <1>1, SeqsAreSequences DEF Reading!StoryLists
  <2>4. r \in Seq([Modules -> {0, Reading!Enough}])
    BY <1>1, SeqsAreSequences DEF Reading!ReqLists
  <2>5. o \in Seq([num : 1 .. MaxOrder, file : Modules])
    BY <1>1, SeqsAreSequences DEF Reading!Orders
  <2>6. Len(s) \in Nat /\ Len(r) \in Nat
    BY <2>3, <2>4, LenProperties
  <2> QED BY <2>1, <2>2, <2>5, <2>6, EmptySeq DEF IsDocument
<1> QED BY <1>2, <1>3

\* Tasks in an order there is a rank for.
Sortable(found) == IsTasks(found) /\ \E rank : Ranked(found, rank, MaxOrder)

LEMMA TasksWithoutDependencies ==
  ASSUME NEW n \in Nat, NEW found, found = [i \in 1 .. n |-> found[i]],
         \A i \in 1 .. n : found[i].deps = <<>>
  PROVE  Sortable(found)
<1>1. MaxOrder \in Nat
  BY ReadingAssumption
<1>2. DOMAIN found = 1 .. n
  OBVIOUS
<1>3. found \in [1 .. n -> Reading!ToSet(found)]
  BY <1>2 DEF Reading!ToSet
<1>4. found \in Seq(Reading!ToSet(found))
  BY <1>3, SeqDef
<1>5. IsTasks(found)
  BY <1>2, <1>4, EmptySeq DEF IsTasks
<1> DEFINE rank == [key \in Reading!Ids(found) |-> 0]
<1>6. rank \in [Reading!Ids(found) -> 0 .. MaxOrder]
  BY <1>1
<1>7. \A i \in DOMAIN found : 1 .. Len(found[i].deps) = {}
  BY <1>2, EmptySeq
<1> HIDE DEF rank
<1>8. Ranked(found, rank, MaxOrder)
  BY <1>6, <1>7 DEF Ranked
<1> QED BY <1>5, <1>8 DEF Sortable

\* The items of all sections are a list.
LEMMA ItemsAreListed ==
  ASSUME NEW kind, NEW sections \in Seq(Reading!Section)
  PROVE  \E n \in Nat : DOMAIN Reading!Items(sections, kind) = 1 .. n
<1> DEFINE T == [item : Reading!Item, in : Reading!Section]
           L == Len(sections)
           More(i) == [j \in DOMAIN sections[i].items |-> [item |-> sections[i].items[j], in |-> sections[i]]]
           Turn(t, i) == IF sections[i].list # kind THEN t ELSE t \o More(i)
           turn == [i \in 1 .. L |-> [t \in Seq(T) |-> Turn(t, i)]]
           loop == CHOOSE f : f = [n \in 0 .. L |-> IF n = 0 THEN <<>> ELSE
                                     IF sections[n].list # kind THEN f[n - 1] ELSE f[n - 1] \o More(n)]
<1>1. L \in Nat /\ \A i \in 1 .. L : sections[i] \in Reading!Section
  BY LenProperties, ElementOfSeq
<1>2. ASSUME NEW i \in 1 .. L PROVE More(i) \in Seq(T)
  <2>1. sections[i].items \in Seq(Reading!Item)
    BY <1>1, ReadingAssumption DEF Reading!Section
  <2>2. PICK k \in Nat : sections[i].items \in [1 .. k -> Reading!Item]
    BY <2>1, SeqDef
  <2>3. More(i) \in [1 .. k -> T]
    BY <1>1, <2>2
  <2> HIDE DEF More, T
  <2> QED BY <2>2, <2>3, SeqDef
<1>3. ASSUME NEW i \in 1 .. L, NEW t \in Seq(T) PROVE Turn(t, i) \in Seq(T)
  <2> HIDE DEF T, More
  <2>1. t \o More(i) \in Seq(T)
    BY <1>2, ConcatProperties
  <2> QED BY <2>1
<1>4. PICK f : f \in [0 .. L -> Seq(T)] /\ f[0] = <<>> /\ \A i \in 1 .. L : f[i] = Turn(f[i - 1], i)
  <2> HIDE DEF L, T, Turn, loop
  <2>1. turn \in [1 .. L -> [Seq(T) -> Seq(T)]]
    BY <1>3
  <2>2. <<>> \in Seq(T)
    BY EmptySeq
  <2> HIDE DEF turn
  <2>3. PICK f : IsLoop(f, L, Seq(T), <<>>, turn)
    BY <1>1, <2>1, <2>2, Recursion
  <2>4. f \in [0 .. L -> Seq(T)] /\ f[0] = <<>> /\ \A i \in 1 .. L : f[i] = turn[i][f[i - 1]]
    BY <2>3 DEF IsLoop
  <2>5. ASSUME NEW i \in 1 .. L PROVE f[i] = Turn(f[i - 1], i)
    <3>1. f[i - 1] \in Seq(T)
      BY <1>1, <2>4
    <3>2. turn[i][f[i - 1]] = Turn(f[i - 1], i)
      BY <3>1 DEF turn
    <3> QED BY <2>4, <3>2
  <2> QED BY <2>4, <2>5
<1>5. f = [n \in 0 .. L |-> IF n = 0 THEN <<>> ELSE
                                IF sections[n].list # kind THEN f[n - 1] ELSE f[n - 1] \o More(n)]
  <2>1. \A n \in 0 .. L : f[n] = IF n = 0 THEN <<>> ELSE Turn(f[n - 1], n)
    <3> HIDE DEF Turn, T, loop, turn
    <3> TAKE n \in 0 .. L
    <3>1. CASE n = 0
      BY <1>4, <3>1
    <3>2. CASE n \in 1 .. L
      <4>1. n # 0 /\ f[n] = Turn(f[n - 1], n)
        BY <1>4, <3>2
      <4> QED BY <4>1, Zenon
    <3> QED BY <1>1, <3>1, <3>2
  <2>2. f = [n \in 0 .. L |-> f[n]]
    BY <1>4
  <2> HIDE DEF More, L, T, loop, turn
  <2>3. [n \in 0 .. L |-> f[n]] = [n \in 0 .. L |-> IF n = 0 THEN <<>> ELSE
                                IF sections[n].list # kind THEN f[n - 1] ELSE f[n - 1] \o More(n)]
    BY <2>1
  <2> QED BY <2>2, <2>3
<1>6. loop = [n \in 0 .. L |-> IF n = 0 THEN <<>> ELSE
                                IF sections[n].list # kind THEN loop[n - 1] ELSE loop[n - 1] \o More(n)]
  BY <1>5, Zenon
<1>7. Reading!Items(sections, kind) = loop[L]
  BY Zenon DEF Reading!Items
<1> HIDE DEF loop
<1>8. \A n \in 0 .. L : loop[n] = IF n = 0 THEN <<>> ELSE Turn(loop[n - 1], n)
  BY <1>6, Zenon
<1> HIDE DEF Turn, More, T, L, turn
<1> DEFINE N == {n \in Nat : n <= L => loop[n] \in Seq(T)}
<1>9. 0 \in N
  <2>1. 0 \in 0 .. L
    BY <1>1
  <2>2. loop[0] = <<>>
    BY <1>8, <2>1, Zenon
  <2>3. <<>> \in Seq(T)
    BY EmptySeq
  <2> QED BY <2>2, <2>3
<1>10. ASSUME NEW n \in Nat, n \in N PROVE n + 1 \in N
  <2> SUFFICES ASSUME n + 1 <= L PROVE loop[n + 1] \in Seq(T)
    OBVIOUS
  <2>1. n + 1 \in 1 .. L /\ n + 1 \in 0 .. L /\ n + 1 # 0 /\ (n + 1) - 1 = n
    BY <1>1
  <2>2. loop[n + 1] = Turn(loop[n], n + 1)
    BY <1>8, <2>1, Zenon
  <2>3. loop[n] \in Seq(T)
    BY <1>1, <1>10
  <2> QED BY <1>3, <2>1, <2>2, <2>3
<1> HIDE DEF N
<1>11. L \in N
  BY <1>1, <1>9, <1>10, Induction
<1>12. loop[L] \in Seq(T)
  BY <1>1, <1>11 DEF N
<1>13. PICK s \in Seq(T) : Reading!Items(sections, kind) = s
  BY <1>7, <1>12
<1>14. Len(s) \in Nat /\ DOMAIN s = 1 .. Len(s)
  BY LenProperties
<1> QED BY <1>13, <1>14

-----------------------------------------------------------------------------
(* The tasks of the modules depend on those the document puts before theirs. *)

LEMMA SetToSeqListsIds ==
  ASSUME NEW S, IsFiniteSet(S)
  PROVE  Reading!SetToSeq(S) \in Seq(S)
<1> DEFINE n == Cardinality(S)
           s == Reading!SetToSeq(S)
<1>1. n \in Nat /\ ExistsBijection(1 .. n, S)
  BY FS_CardinalityType
<1>2. PICK f \in [1 .. n -> S] : \A a, b \in 1 .. n : f[a] = f[b] => a = b
  BY <1>1 DEF ExistsBijection, Bijection, Injection, Surjection, IsInjective
<1>3. f \in [1 .. n -> S] /\ Reading!IsInjective(f)
  BY <1>2 DEF Reading!IsInjective
<1>4. s \in [1 .. n -> S]
  <2>1. n = Reading!Cardinality(S)
    BY DEF Reading!Cardinality, Cardinality
  <2>2. s = CHOOSE g \in [1 .. n -> S] : Reading!IsInjective(g)
    BY <2>1, Zenon DEF Reading!SetToSeq
  <2> HIDE DEF s, n
  <2> QED BY <1>3, <2>2, Zenon
<1> QED BY <1>1, <1>4, SeqDef

LEMMA NumbersHaveABound ==
  ASSUME IsDocument(prd), NEW g, Reading!Numbered(g)
  PROVE  Reading!NumOf(g) \in 0 .. MaxOrder
<1> DEFINE T == {i \in DOMAIN prd.order : prd.order[i].file = g}
<1>0. MaxOrder \in Nat
  BY ReadingAssumption
<1>1. /\ DOMAIN prd.order = 1 .. Len(prd.order) /\ Len(prd.order) \in Nat
      /\ \A i \in 1 .. Len(prd.order) : prd.order[i] \in [num : 1 .. MaxOrder, file : Modules]
  BY LenProperties, ElementOfSeq DEF IsDocument
<1>2. T # {} /\ T \subseteq 1 .. Len(prd.order)
  BY <1>1 DEF Reading!Numbered
<1>3. PICK m : m = Reading!Max(T)
  OBVIOUS
<1>4. m \in T
  <2> HIDE DEF T
  <2> QED BY <1>1, <1>2, <1>3, PlacesHaveEnds
<1>5. Reading!NumOf(g) = prd.order[m].num
  BY <1>3 DEF Reading!NumOf
<1>6. prd.order[m] \in [num : 1 .. MaxOrder, file : Modules]
  BY <1>1, <1>4
<1> QED BY <1>0, <1>5, <1>6

LEMMA GroupsAreListed ==
  ASSUME IsDocument(prd)
  PROVE  \E n \in Nat : DOMAIN Reading!Grouped = 1 .. n
<1> DEFINE S == Modules \cup {Reading!General}
           T == {g \in Reading!ToSet(Reading!Groups) : Reading!StoriesOf(g) # {} \/ Reading!ReqsOf(g) # {}}
<1>1. prd.modules \in Seq(S)
  BY InMore DEF IsDocument
<1>2. <<Reading!General>> \in Seq(S)
  OBVIOUS
<1>3. Reading!Groups \in Seq(S)
  BY <1>1, <1>2, ConcatProperties DEF Reading!Groups
<1>4. Reading!Grouped = Among(Reading!Groups, T)
  BY ReadingAmong DEF Reading!Grouped
<1> HIDE DEF S, T
<1>5. Reading!Grouped \in Seq(S)
  BY <1>3, <1>4, AmongType
<1> QED BY <1>5, LenProperties

LEMMA DependenciesComeEarlier ==
  ASSUME IsDocument(prd), NEW g
  PROVE  /\ Reading!DependenciesOf(g) \in Seq({i \in DOMAIN Reading!Grouped : Reading!Grouped[i] \in Reading!Earlier(g)})
         /\ Reading!DependenciesOf(g) # <<>> => Reading!Numbered(g)
<1> DEFINE T == {i \in DOMAIN Reading!Grouped : Reading!Grouped[i] \in Reading!Earlier(g)}
           L == Len(prd.order)
           New(n, t) == {i \in DOMAIN Reading!Grouped : /\ Reading!Grouped[i] = prd.order[n].file
                                                        /\ Reading!Grouped[i] \in Reading!Earlier(g)
                                                        /\ i \notin Reading!ToSet(t)}
           Turn(t, n) == t \o Reading!SetToSeq(New(n, t))
           turn == [i \in 1 .. L |-> [t \in Seq(T) |-> Turn(t, i)]]
           loop == CHOOSE f : f = [n \in 0 .. L |-> IF n = 0 THEN <<>> ELSE
                                     f[n - 1] \o Reading!SetToSeq(New(n, f[n - 1]))]
<1>1. L \in Nat
  BY LenProperties DEF IsDocument
<1>2. <<>> \in Seq(T)
  <2> HIDE DEF T
  <2> QED BY EmptySeq
<1>3. ASSUME NEW n, NEW t \in Seq(T) PROVE Turn(t, n) \in Seq(T)
  <2>1. New(n, t) \subseteq T /\ New(n, t) \subseteq DOMAIN Reading!Grouped
    OBVIOUS
  <2>2. IsFiniteSet(New(n, t))
    <3>1. PICK m \in Nat : DOMAIN Reading!Grouped = 1 .. m
      BY GroupsAreListed
    <3>2. IsFiniteSet(1 .. m)
      BY FS_Interval
    <3> HIDE DEF New
    <3> QED BY <2>1, <3>1, <3>2, FS_Subset
  <2> HIDE DEF T, New
  <2>3. Reading!SetToSeq(New(n, t)) \in Seq(New(n, t))
    BY <2>2, SetToSeqListsIds
  <2>4. Reading!SetToSeq(New(n, t)) \in Seq(T)
    BY <2>1, <2>3, InMore
  <2> QED BY <2>4, ConcatProperties
<1>4. PICK f : f \in [0 .. L -> Seq(T)] /\ f[0] = <<>> /\ \A i \in 1 .. L : f[i] = Turn(f[i - 1], i)
  <2> HIDE DEF L, T, Turn, New, loop
  <2>1. turn \in [1 .. L -> [Seq(T) -> Seq(T)]]
    BY <1>3
  <2> HIDE DEF turn
  <2>3. PICK f : IsLoop(f, L, Seq(T), <<>>, turn)
    BY <1>1, <1>2, <2>1, Recursion
  <2>4. f \in [0 .. L -> Seq(T)] /\ f[0] = <<>> /\ \A i \in 1 .. L : f[i] = turn[i][f[i - 1]]
    BY <2>3 DEF IsLoop
  <2>5. ASSUME NEW i \in 1 .. L PROVE f[i] = Turn(f[i - 1], i)
    <3>1. f[i - 1] \in Seq(T)
      BY <1>1, <2>4
    <3>2. turn[i][f[i - 1]] = Turn(f[i - 1], i)
      BY <3>1 DEF turn
    <3> QED BY <2>4, <3>2
  <2> QED BY <2>4, <2>5
<1>5. f = [n \in 0 .. L |-> IF n = 0 THEN <<>> ELSE f[n - 1] \o Reading!SetToSeq(New(n, f[n - 1]))]
  <2>1. \A n \in 0 .. L : f[n] = IF n = 0 THEN <<>> ELSE Turn(f[n - 1], n)
    <3> HIDE DEF Turn, New, T, loop, turn
    <3> TAKE n \in 0 .. L
    <3>1. CASE n = 0
      BY <1>4, <3>1
    <3>2. CASE n \in 1 .. L
      <4>1. n # 0 /\ f[n] = Turn(f[n - 1], n)
        BY <1>4, <3>2
      <4> QED BY <4>1, Zenon
    <3> QED BY <1>1, <3>1, <3>2
  <2>2. f = [n \in 0 .. L |-> f[n]]
    BY <1>4
  <2> HIDE DEF New, L, T, loop, turn
  <2>3. [n \in 0 .. L |-> f[n]] =
          [n \in 0 .. L |-> IF n = 0 THEN <<>> ELSE f[n - 1] \o Reading!SetToSeq(New(n, f[n - 1]))]
    BY <2>1
  <2> QED BY <2>2, <2>3
<1>6. loop = [n \in 0 .. L |-> IF n = 0 THEN <<>> ELSE
                                loop[n - 1] \o Reading!SetToSeq(New(n, loop[n - 1]))]
  BY <1>5, Zenon
<1>7. Reading!DependenciesOf(g) = IF g = Reading!General \/ ~Reading!Numbered(g) THEN <<>> ELSE loop[L]
  BY Zenon DEF Reading!DependenciesOf
<1> HIDE DEF loop
<1>8. \A n \in 0 .. L : loop[n] = IF n = 0 THEN <<>> ELSE Turn(loop[n - 1], n)
  BY <1>6, Zenon
<1> HIDE DEF Turn, New, T, L, turn
<1> DEFINE N == {n \in Nat : n <= L => loop[n] \in Seq(T)}
<1>9. 0 \in N
  <2>1. 0 \in 0 .. L
    BY <1>1
  <2>2. loop[0] = <<>>
    BY <1>8, <2>1, Zenon
  <2> QED BY <1>2, <2>2
<1>10. ASSUME NEW n \in Nat, n \in N PROVE n + 1 \in N
  <2> SUFFICES ASSUME n + 1 <= L PROVE loop[n + 1] \in Seq(T)
    OBVIOUS
  <2>1. n + 1 \in 0 .. L /\ n + 1 # 0 /\ (n + 1) - 1 = n
    BY <1>1
  <2>2. loop[n + 1] = Turn(loop[n], n + 1)
    BY <1>8, <2>1, Zenon
  <2>3. loop[n] \in Seq(T)
    BY <1>1, <1>10
  <2> QED BY <1>3, <2>2, <2>3
<1> HIDE DEF N
<1>11. L \in N
  BY <1>1, <1>9, <1>10, Induction
<1>12. loop[L] \in Seq(T)
  BY <1>1, <1>11 DEF N
<1>13. /\ Reading!DependenciesOf(g) \in Seq(T)
       /\ Reading!DependenciesOf(g) # <<>> => Reading!Numbered(g)
  BY <1>2, <1>7, <1>12
<1> QED BY <1>13 DEF T

LEMMA GroupedTasksAreSortable ==
  ASSUME IsDocument(prd)
  PROVE  Sortable(Reading!GroupedTasks)
<1> DEFINE G == Reading!GroupedTasks
           rank == [i \in DOMAIN Reading!Grouped |->
                      IF Reading!Numbered(Reading!Grouped[i]) THEN Reading!NumOf(Reading!Grouped[i]) ELSE 0]
<1>0. MaxOrder \in Nat
  BY ReadingAssumption
<1>1. PICK n \in Nat : DOMAIN Reading!Grouped = 1 .. n
  BY GroupsAreListed
<1>2. /\ DOMAIN G = 1 .. n /\ G = [i \in 1 .. n |-> G[i]]
      /\ \A i \in 1 .. n : G[i].id = i /\ G[i].deps = Reading!DependenciesOf(Reading!Grouped[i])
  BY <1>1 DEF Reading!GroupedTasks
<1>3. \A i \in 1 .. n : G[i].deps \in Seq({k \in 1 .. n : Reading!Grouped[k] \in Reading!Earlier(Reading!Grouped[i])})
  BY <1>1, <1>2, DependenciesComeEarlier
<1>4. \A i \in 1 .. n : G[i].deps # <<>> => Reading!Numbered(Reading!Grouped[i])
  BY <1>2, DependenciesComeEarlier
<1> HIDE DEF G
<1>5. G \in Seq(Reading!ToSet(G))
  <2>1. G \in [1 .. n -> Reading!ToSet(G)]
    BY <1>2 DEF Reading!ToSet
  <2> QED BY <2>1, SeqDef
<1>6. ASSUME NEW i \in 1 .. n, NEW j \in 1 .. Len(G[i].deps)
      PROVE  G[i].deps[j] \in 1 .. n /\ Reading!Grouped[G[i].deps[j]] \in Reading!Earlier(Reading!Grouped[i])
  <2> DEFINE T == {k \in 1 .. n : Reading!Grouped[k] \in Reading!Earlier(Reading!Grouped[i])}
             d == G[i].deps
  <2>1. d \in Seq(T)
    BY <1>3
  <2> HIDE DEF T
  <2>2. d[j] \in T
    <3>1. j \in 1 .. Len(d)
      OBVIOUS
    <3> HIDE DEF d
    <3> QED BY <2>1, <3>1, ElementOfSeq
  <2> QED BY <2>2 DEF T
<1>7. ASSUME NEW i \in 1 .. n PROVE G[i].deps \in Seq(1 .. n)
  <2> DEFINE T == {k \in 1 .. n : Reading!Grouped[k] \in Reading!Earlier(Reading!Grouped[i])}
             d == G[i].deps
  <2>1. d \in Seq(T) /\ T \subseteq 1 .. n
    BY <1>3
  <2> HIDE DEF T, d
  <2>2. d \in Seq(1 .. n)
    BY <2>1, InMore
  <2> QED BY <2>2 DEF d
<1>8. Reading!Ids(G) = 1 .. n
  <2>1. Reading!Known(G) = 1 .. n
    BY <1>2 DEF Reading!Known
  <2>2. ASSUME NEW i \in DOMAIN G PROVE Reading!ToSet(G[i].deps) \subseteq 1 .. n
    <3>1. G[i].deps \in Seq(1 .. n)
      BY <1>2, <1>7
    <3> QED BY <3>1, LenProperties, ElementOfSeq DEF Reading!ToSet
  <2> QED BY <2>1, <2>2 DEF Reading!Ids
<1>9. IsTasks(G)
  BY <1>2, <1>5, <1>7, <1>8 DEF IsTasks
<1>10. rank \in [1 .. n -> 0 .. MaxOrder]
  <2>1. \A i \in 1 .. n : Reading!Numbered(Reading!Grouped[i]) => Reading!NumOf(Reading!Grouped[i]) \in 0 .. MaxOrder
    BY NumbersHaveABound
  <2> QED BY <1>0, <1>1, <2>1
<1>11. ASSUME NEW i \in 1 .. n, NEW j \in 1 .. Len(G[i].deps) PROVE rank[G[i].deps[j]] < rank[i]
  <2> DEFINE f == Reading!Grouped[G[i].deps[j]]
  <2>1. Reading!Numbered(Reading!Grouped[i])
    <3>1. G[i].deps # <<>>
      BY EmptySeq
    <3> QED BY <1>4, <3>1
  <2>2. f \in Reading!Earlier(Reading!Grouped[i]) /\ G[i].deps[j] \in 1 .. n
    BY <1>6
  <2>3. Reading!Numbered(f) /\ Reading!NumOf(f) < Reading!NumOf(Reading!Grouped[i])
    BY <2>2 DEF Reading!Earlier
  <2>4. rank[i] = Reading!NumOf(Reading!Grouped[i])
    BY <1>1, <2>1
  <2>5. rank[G[i].deps[j]] = Reading!NumOf(f)
    BY <1>1, <2>2, <2>3
  <2> QED BY <2>3, <2>4, <2>5
<1> HIDE DEF rank
<1>12. Ranked(G, rank, MaxOrder)
  BY <1>2, <1>8, <1>10, <1>11 DEF Ranked
<1> QED BY <1>9, <1>12 DEF Sortable, G

-----------------------------------------------------------------------------
(* Whatever strategy finds the tasks, they can be sorted. *)

\* Tasks made one by one of a list, without dependencies.
LEMMA PlainTasksAreSortable ==
  ASSUME NEW found, NEW n \in Nat, DOMAIN found = 1 .. n, found = [i \in DOMAIN found |-> found[i]],
         \A i \in DOMAIN found : found[i].deps = <<>>
  PROVE  Sortable(found)
BY TasksWithoutDependencies

LEMMA StrategiesFindTasks ==
  ASSUME IsDocument(prd)
  PROVE  /\ Sortable(Reading!ParserTasks) /\ Sortable(Reading!TableTasks) /\ Sortable(Reading!NumberedTasks)
         /\ Sortable(Reading!BulletTasks) /\ Sortable(Reading!HeaderTasks) /\ Sortable(<<>>)
<1>0. prd.sections \in Seq(Reading!Section)
  BY DEF IsDocument
<1>1. Sortable(<<>>)
  <2>1. <<>> = [i \in 1 .. 0 |-> <<>>[i]]
    BY EmptySeq
  <2>2. DOMAIN <<>> = 1 .. 0 /\ <<>> = [i \in DOMAIN <<>> |-> <<>>[i]]
    BY <2>1
  <2>3. \A i \in DOMAIN <<>> : <<>>[i].deps = <<>>
    BY <2>2
  <2> QED BY <2>2, <2>3, PlainTasksAreSortable
<1>2. Sortable(Reading!FlatTasks)
  <2> DEFINE F == Reading!FlatTasks
             n == Len(prd.stories) + Len(prd.reqs)
  <2>1. n \in Nat
    <3>1. Len(prd.stories) \in Nat /\ Len(prd.reqs) \in Nat
      BY DEF IsDocument
    <3>2. \A a, b \in Nat : a + b \in Nat
      OBVIOUS
    <3> QED BY <3>1, <3>2, Zenon
  <2>2. DOMAIN F = 1 .. n /\ F = [i \in DOMAIN F |-> F[i]] /\ \A i \in DOMAIN F : F[i].deps = <<>>
    BY DEF Reading!FlatTasks
  <2> HIDE DEF F, n
  <2>3. Sortable(F)
    BY <2>1, <2>2, PlainTasksAreSortable
  <2> QED BY <2>3 DEF F
<1>3. Sortable(Reading!ParserTasks)
  BY <1>2, GroupedTasksAreSortable DEF Reading!ParserTasks
<1>4. Sortable(Reading!TableTasks)
  <2> DEFINE F == Reading!TableTasks
             items == Reading!Items(prd.sections, "table")
  <2>1. PICK n \in Nat : DOMAIN items = 1 .. n
    BY <1>0, ItemsAreListed
  <2>2. F = [i \in DOMAIN items |-> Reading!ListTask(items[i].item.num, items[i].item.mention, items[i].in)]
    BY DEF Reading!TableTasks
  <2> HIDE DEF F, items
  <2>3. DOMAIN F = 1 .. n /\ F = [i \in DOMAIN F |-> F[i]] /\ \A i \in DOMAIN F : F[i].deps = <<>>
    BY <2>1, <2>2 DEF Reading!ListTask
  <2>4. Sortable(F)
    BY <2>3, PlainTasksAreSortable
  <2> QED BY <2>4 DEF F
<1>5. Sortable(Reading!BulletTasks)
  <2> DEFINE F == Reading!BulletTasks
             items == Reading!Items(prd.sections, "bullets")
  <2>1. PICK n \in Nat : DOMAIN items = 1 .. n
    BY <1>0, ItemsAreListed
  <2>2. F = [i \in DOMAIN items |-> Reading!ListTask(i, Reading!Sanitized(items[i].item.mention), items[i].in)]
    BY DEF Reading!BulletTasks
  <2> HIDE DEF F, items
  <2>3. DOMAIN F = 1 .. n /\ F = [i \in DOMAIN F |-> F[i]] /\ \A i \in DOMAIN F : F[i].deps = <<>>
    BY <2>1, <2>2 DEF Reading!ListTask
  <2>4. Sortable(F)
    BY <2>3, PlainTasksAreSortable
  <2> QED BY <2>4 DEF F
<1>6. Sortable(Reading!NumberedTasks)
  <2> DEFINE T == {s \in Reading!Section : s.head # "boilerplate"}
             F == Reading!NumberedTasks
             items == IF Reading!Items(Reading!Filtered, "numbered") = <<>>
                      THEN <<>> ELSE Reading!Items(Reading!Kept, "numbered")
  <2>1. Reading!Kept \in Seq(Reading!Section)
    <3>1. Reading!Kept = Among(prd.sections, T)
      BY ReadingAmong DEF Reading!Kept
    <3> HIDE DEF T
    <3> QED BY <1>0, <3>1, AmongType
  <2>2. \E n \in Nat : DOMAIN items = 1 .. n
    <3>1. DOMAIN <<>> = 1 .. 0
      BY EmptySeq
    <3>2. \E n \in Nat : DOMAIN Reading!Items(Reading!Kept, "numbered") = 1 .. n
      BY <2>1, ItemsAreListed
    <3> QED BY <3>1, <3>2
  <2>3. F = [i \in DOMAIN items |->
               Reading!ListTask(items[i].item.num, Reading!Sanitized(items[i].item.mention), items[i].in)]
    BY DEF Reading!NumberedTasks
  <2> HIDE DEF F, items
  <2>4. PICK n \in Nat : DOMAIN items = 1 .. n
    BY <2>2
  <2>5. DOMAIN F = 1 .. n /\ F = [i \in DOMAIN F |-> F[i]] /\ \A i \in DOMAIN F : F[i].deps = <<>>
    BY <2>3, <2>4 DEF Reading!ListTask
  <2>6. Sortable(F)
    BY <2>5, PlainTasksAreSortable
  <2> QED BY <2>6 DEF F
<1>7. Sortable(Reading!HeaderTasks)
  <2> DEFINE T == {s \in Reading!Section : s.head = "task"}
             F == Reading!HeaderTasks
             heads == Reading!Among(prd.sections, T)
  <2>1. heads \in Seq(Reading!Section)
    <3>1. heads = Among(prd.sections, T)
      BY ReadingAmong
    <3> HIDE DEF T, heads
    <3> QED BY <1>0, <3>1, AmongType
  <2>2. F = [i \in DOMAIN heads |->
               Reading!ListTask(heads[i].items[1].num,
                                IF heads[i].items[1].mention = Reading!None THEN Reading!Own ELSE "plain", heads[i])]
    BY DEF Reading!HeaderTasks
  <2> HIDE DEF F, heads
  <2>3. DOMAIN heads = 1 .. Len(heads) /\ Len(heads) \in Nat
    BY <2>1, LenProperties
  <2>4. DOMAIN F = 1 .. Len(heads) /\ F = [i \in DOMAIN F |-> F[i]] /\ \A i \in DOMAIN F : F[i].deps = <<>>
    BY <2>2, <2>3 DEF Reading!ListTask
  <2>5. Sortable(F)
    BY <2>3, <2>4, PlainTasksAreSortable
  <2> QED BY <2>5 DEF F
<1> QED BY <1>1, <1>3, <1>4, <1>5, <1>6, <1>7

LEMMA FoundIsSortable ==
  ASSUME IsDocument(prd)
  PROVE  Sortable(Reading!Found)
<1> DEFINE strategies == <<IF parser THEN Reading!ParserTasks ELSE <<>>,
                           Reading!TableTasks, Reading!NumberedTasks, Reading!BulletTasks, Reading!HeaderTasks>>
           useful == {i \in DOMAIN strategies : strategies[i] # <<>>}
<1>1. Reading!Found = IF useful = {} THEN <<>> ELSE strategies[Reading!Min(useful)]
  BY DEF Reading!Found
<1>2. DOMAIN strategies = 1 .. 5
  OBVIOUS
<1>3. \A i \in 1 .. 5 : Sortable(strategies[i])
  <2>1. /\ strategies[1] = (IF parser THEN Reading!ParserTasks ELSE <<>>)
        /\ strategies[2] = Reading!TableTasks /\ strategies[3] = Reading!NumberedTasks
        /\ strategies[4] = Reading!BulletTasks /\ strategies[5] = Reading!HeaderTasks
    OBVIOUS
  <2> HIDE DEF strategies
  <2>2. Sortable(strategies[1])
    BY <2>1, StrategiesFindTasks, Zenon
  <2>3. Sortable(strategies[2]) /\ Sortable(strategies[3]) /\ Sortable(strategies[4]) /\ Sortable(strategies[5])
    BY <2>1, StrategiesFindTasks, Zenon
  <2>4. \A i \in 1 .. 5 : i = 1 \/ i = 2 \/ i = 3 \/ i = 4 \/ i = 5
    OBVIOUS
  <2> QED BY <2>2, <2>3, <2>4, Zenon
<1> HIDE DEF strategies
<1>4. useful # {} => Reading!Min(useful) \in 1 .. 5
  <2>1. useful \subseteq 1 .. 5
    BY <1>2
  <2> HIDE DEF useful
  <2> QED BY <2>1, PlacesHaveEnds
<1>5. Sortable(<<>>)
  BY StrategiesFindTasks
<1> HIDE DEF useful
<1> QED BY <1>1, <1>3, <1>4, <1>5

\* The tasks a PRD is read into come after those they depend on, each once and
\* with an key of its own: prd.py:94, _topological_sort.
THEOREM TasksAreInOrder == Reading!Spec => []OrderRespectsDependencies
<1> DEFINE PrdInv == IsDocument(prd) /\ Reading!OrderRespectsDependencies
<1>1. Reading!Init => PrdInv
  <2> SUFFICES ASSUME Reading!Init PROVE PrdInv
    OBVIOUS
  <2>1. prd \in Reading!Listed \cup Reading!Structured /\ tasks = <<>>
    BY DEF Reading!Init
  <2>2. IsDocument(prd)
    BY <2>1, DocumentsHaveLists
  <2>3. DOMAIN tasks = {}
    BY <2>1, EmptySeq
  <2> QED BY <2>2, <2>3 DEF Reading!OrderRespectsDependencies
<1>2. PrdInv /\ [Reading!Next]_(Reading!vars) => PrdInv'
  <2> SUFFICES ASSUME PrdInv, [Reading!Next]_(Reading!vars) PROVE PrdInv'
    OBVIOUS
  <2>1. prd' = prd /\ (UNCHANGED tasks \/ tasks' = Reading!TopologicalSort(Reading!Found))
    BY DEF Reading!Next, Reading!Parse, Reading!vars
  <2>2. IsDocument(prd)'
    BY <2>1 DEF IsDocument
  <2>3. CASE UNCHANGED tasks
    BY <2>2, <2>3 DEF Reading!OrderRespectsDependencies
  <2>4. CASE tasks' = Reading!TopologicalSort(Reading!Found)
    <3> DEFINE found == Reading!Found
               s == Reading!TopologicalSort(found)
    <3>1. MaxOrder \in Nat /\ Sortable(found)
      BY ReadingAssumption, FoundIsSortable
    <3> HIDE DEF found
    <3>2. s \in Seq(Reading!ToSet(found)) /\ InOrder(found, s)
      BY <3>1, SortIsRight DEF Sortable
    <3> HIDE DEF s
    <3>3. \A i \in DOMAIN s : s[i].id \in Reading!Known(found)
      <4>1. \A i \in DOMAIN s : s[i] \in Reading!ToSet(found)
        BY <3>2, LenProperties, ElementOfSeq
      <4> QED BY <4>1 DEF Reading!ToSet, Reading!Known
    <3>4. ASSUME NEW i \in DOMAIN s
          PROVE  /\ \A k \in DOMAIN s \ {i} : s[k].id # s[i].id
                 /\ \A d \in Reading!ToSet(s[i].deps) :
                       (\E k \in DOMAIN s : s[k].id = d) => \E k \in 1 .. i - 1 : s[k].id = d
      <4>1. s[i] \in Reading!ToSet(found)
        BY <3>2, LenProperties, ElementOfSeq
      <4>2. s[i].deps \in Seq(Reading!Ids(found))
        BY <3>1, <4>1 DEF Sortable, IsTasks, Reading!ToSet
      <4>3. DOMAIN s[i].deps = 1 .. Len(s[i].deps)
        BY <4>2, LenProperties
      <4>4. /\ \A k \in DOMAIN s \ {i} : s[k].id # s[i].id
            /\ \A j \in 1 .. Len(s[i].deps) :
                  s[i].deps[j] \in Reading!Known(found) => \E k \in 1 .. i - 1 : s[k].id = s[i].deps[j]
        BY <3>2 DEF InOrder
      <4> QED BY <3>3, <4>3, <4>4 DEF Reading!ToSet
    <3>5. tasks' = s
      BY <2>4 DEF s, found
    <3>6. Reading!OrderRespectsDependencies'
      BY <3>4, <3>5 DEF Reading!OrderRespectsDependencies
    <3> QED BY <2>2, <3>6
  <2> QED BY <2>1, <2>3, <2>4
<1>3. PrdInv => OrderRespectsDependencies
  BY DEF OrderRespectsDependencies
<1> QED BY <1>1, <1>2, <1>3, PTL DEF Reading!Spec
=============================================================================
