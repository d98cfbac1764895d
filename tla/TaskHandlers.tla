---------------------------- MODULE TaskHandlers ----------------------------
(***************************************************************************)
(* The handlers of research and edit tasks (engine/research,                *)
(* engine/edit_ops), which the engine calls once per task: from the model's *)
(* answer to a task result, with the claims a research task leaves in the   *)
(* memory on its way and the file an edit task changes.  Texts are reduced  *)
(* to what the stages of the validators tell apart.                         *)
(***************************************************************************)
EXTENDS Memory

CONSTANTS
    Research,     \* research tasks
    Edits,        \* edit tasks
    Run(_),       \* the run a task belongs to
    Atom(_),      \* its id in the plan of that run
    Documents,    \* verdict documents the model may write
    Blocks,       \* sequences of edit blocks it may answer
    Original,     \* the file an edit task edits: occurrences of each anchor
    MaxGenerate,  \* max_research_generate
    MaxEdits      \* max_retries of EditTaskHandler.run

ASSUME HandlersAssumption == MaxGenerate \in Nat \ {0} /\ MaxEdits \in Nat \ {0}
ASSUME DocumentsAssumption == Documents \subseteq VerdictDocument
ASSUME EditsAssumption ==
    /\ Original \in [DOMAIN Original -> Int]
    /\ Blocks \subseteq Seq([old : DOMAIN Original, new : DOMAIN Original])

VARIABLES
    pc,       \* pc[t]: the stage task t is at, or its result
    attempt,  \* attempts made
    doc,      \* doc[t]: the verdict a research task has accepted
    found,    \* found[t]: contradictions the check of its claims has read
    file,     \* file[t]: the file of an edit task on disk
    applied,  \* applied[t]: the answer whose blocks were applied
    rows      \* edit_op_results

handlers == <<pc, attempt, doc, found, file, applied, rows>>
vars == <<memory, handlers>>
Tasks == Research \union Edits

NoDoc == [heading |-> "missing"]
Goto(t, l) == pc' = [pc EXCEPT ![t] = l]
At(t, l) == pc[t] = l

----------------------------------------------------------------------------
(* ResearchTaskHandler.run. *)

\* The guard: the task must name a source file that exists.
Guard(t) ==
    /\ At(t, "guard")
    /\ (Goto(t, "generate") \/ Goto(t, "FAILED"))
    /\ UNCHANGED <<memory, attempt, doc, found, file, applied, rows>>

\* An attempt: the transport fails and the task with it; or a document comes,
\* is normalised, repaired and validated.
GenerateRaises(t) ==
    /\ At(t, "generate") /\ t \in Research /\ Goto(t, "FAILED")
    /\ UNCHANGED <<memory, attempt, doc, found, file, applied, rows>>
\* As Accepted, if the last attempt were taken as it is.
LastIsGood(n, d) == Valid(d) \/ n = MaxGenerate
Accepted(n, d) == Valid(d)
\* The results of later stages say that there was one attempt.
Generate(t) ==
    /\ At(t, "generate") /\ t \in Research
    /\ \E x \in Documents :
         LET d == Repaired(Normalized(x))  n == attempt[t] + 1 IN
          IF Accepted(n, d)
          THEN /\ doc' = [doc EXCEPT ![t] = d] /\ Goto(t, "verify")
               /\ attempt' = [attempt EXCEPT ![t] = 1]
          ELSE /\ Goto(t, IF n < MaxGenerate THEN "generate" ELSE "FAILED")
               /\ attempt' = [attempt EXCEPT ![t] = n] /\ UNCHANGED doc
    /\ UNCHANGED <<memory, found, file, applied, rows>>

VerifySources(t) ==
    /\ At(t, "verify")
    /\ Goto(t, IF Verified(doc[t]) THEN "submit" ELSE "FAILED")
    /\ UNCHANGED <<memory, attempt, doc, found, file, applied, rows>>

\* The claims are submitted before the verdict is scored and committed; a
\* memory that fails never breaks the task.
SubmitClaims(t) ==
    /\ At(t, "submit")
    /\ \/ /\ Submit(Run(t), Atom(t), doc[t].position,
                   [i \in DOMAIN doc[t].claims |-> doc[t].claims[i].text]) /\ Goto(t, "compare")
       \/ /\ UNCHANGED memory /\ Goto(t, "score")
    /\ UNCHANGED <<attempt, doc, found, file, applied, rows>>

Compare(t) ==
    /\ At(t, "compare") /\ Goto(t, "persist")
    /\ \/ found' = [found EXCEPT ![t] =
                      Found({c \in Ids : claims[c].atom = Atom(t) /\ claims[c].run = Run(t)})]
       \/ UNCHANGED found
    /\ UNCHANGED <<memory, attempt, doc, file, applied, rows>>

PersistFound(t) ==
    /\ At(t, "persist") /\ Goto(t, "score")
    /\ (Persist(found[t]) \/ UNCHANGED memory)
    /\ UNCHANGED <<attempt, doc, found, file, applied, rows>>

\* EvidenceScorer.score, which scores 0 when the judge cannot be read, the
\* threshold, and commit_research_artifacts: any of them may fail the task.
ScoreAndCommit(t) ==
    /\ At(t, "score") /\ (Goto(t, "COMMIT") \/ Goto(t, "FAILED"))
    /\ UNCHANGED <<memory, attempt, doc, found, file, applied, rows>>

ResearchNext(t) ==
    \/ Guard(t) \/ GenerateRaises(t) \/ Generate(t) \/ VerifySources(t) \/ SubmitClaims(t)
    \/ Compare(t) \/ PersistFound(t) \/ ScoreAndCommit(t)

----------------------------------------------------------------------------
(* EditTaskHandler. *)

\* apply_blocks: each block must match exactly once in what the blocks before
\* it have made; the first that does not ends it.  A file is given by how
\* often each anchor occurs.
Torn == [torn |-> TRUE]
Replaced(f, b) == [f EXCEPT ![b.old] = @ - 1, ![b.new] = @ + 1]
SkipsBad(f, b) == IF f[b.old] = 1 THEN Replaced(f, b) ELSE f
ApplyBlock(f, b) == IF f # Torn /\ f[b.old] = 1 THEN Replaced(f, b) ELSE Torn
Content(bs) ==
    LET made[n \in 0 .. Len(bs)] == IF n = 0 THEN Original ELSE ApplyBlock(made[n - 1], bs[n])
    IN made[Len(bs)]

\* Every attempt that may be made again leaves a row with applied = 0; the
\* writing of a row may fail.
Retries(t) ==
    /\ Goto(t, IF attempt[t] + 1 < MaxEdits THEN "generate" ELSE "FAILED")
    /\ attempt' = [attempt EXCEPT ![t] = @ + 1]
    /\ (rows' = rows \union {[task |-> t, attempt |-> attempt[t] + 1, applied |-> FALSE]}
        \/ UNCHANGED rows)
    /\ UNCHANGED <<memory, doc, found, file, applied>>

\* An answer without blocks (the transport failed, or nothing was extracted),
\* or blocks that do not apply, or a result that does not parse.
Rejected(t) == At(t, "generate") /\ t \in Edits /\ Retries(t)

\* A path out of the project, or a file that is not there.
Refused(t) ==
    /\ At(t, "generate") /\ t \in Edits /\ Goto(t, "FAILED")
    /\ UNCHANGED <<memory, attempt, doc, found, file, applied, rows>>

\* The blocks apply and the new content is written, or only part of it.
Write(t) ==
    /\ At(t, "generate") /\ t \in Edits
    /\ \E bs \in Blocks :
          /\ Content(bs) # Torn
          /\ applied' = [applied EXCEPT ![t] = bs]
          /\ \/ file' = [file EXCEPT ![t] = Content(bs)] /\ Goto(t, "readback")
             \/ file' = [file EXCEPT ![t] = Torn] /\ (Goto(t, "readback") \/ Goto(t, "FAILED"))
    /\ UNCHANGED <<memory, attempt, doc, found, rows>>

\* The commit gate: the file is read again; a read that fails is logged.
WholeOnly(t) == file[t] = Content(applied[t])
ReadBack(t) ==
    /\ At(t, "readback")
    /\ \/ Goto(t, IF WholeOnly(t) THEN "commitEdit" ELSE "FAILED")
       \/ Goto(t, "commitUnread")
    /\ UNCHANGED <<memory, attempt, doc, found, file, applied, rows>>

\* commit_code writes the content once more; whatever becomes of the commit,
\* the attempt counts as applied.
CommitEdit(t) ==
    /\ pc[t] \in {"commitEdit", "commitUnread"} /\ Goto(t, "COMMIT")
    /\ attempt' = [attempt EXCEPT ![t] = @ + 1]
    /\ (rows' = rows \union {[task |-> t, attempt |-> attempt[t] + 1, applied |-> TRUE]}
        \/ UNCHANGED rows)
    /\ (file' = [file EXCEPT ![t] = Content(applied[t])] \/ UNCHANGED file)
    /\ UNCHANGED <<memory, doc, found, applied>>

EditNext(t) == Rejected(t) \/ Refused(t) \/ Write(t) \/ ReadBack(t) \/ CommitEdit(t)

----------------------------------------------------------------------------
(* The whole. *)

\* Only the tasks ts are run.
InitOf(ts) ==
    /\ MemoryInit
    /\ pc = [t \in Tasks |-> IF t \notin ts THEN "idle"
                             ELSE IF t \in Research THEN "guard" ELSE "generate"]
    /\ attempt = [t \in Tasks |-> 0] /\ doc = [t \in Tasks |-> NoDoc]
    /\ found = [t \in Tasks |-> {}] /\ file = [t \in Tasks |-> Original]
    /\ applied = [t \in Tasks |-> <<>>] /\ rows = {}
Init == InitOf(Tasks)

Next ==
    \/ MemoryNext /\ UNCHANGED handlers
    \/ \E t \in Tasks : ResearchNext(t) \/ EditNext(t)

----------------------------------------------------------------------------
(* Properties. *)

\* Whatever is in the memory, and may one day be recalled into a prompt, was
\* said by a verdict that is sound: no claim without a source, no citation
\* ring, no contradiction passed over, no unreadable file among those sampled
\* (research/__init__.py:165, 175, 199, evidence.py:173).
SoundVerdicts == {d \in {Repaired(Normalized(x)) : x \in Documents} : Sound(d)}
ClaimsComeFromValidVerdicts ==
    \A c \in Ids : \E t \in Research :
        /\ Run(t) = claims[c].run /\ Atom(t) = claims[c].atom
        /\ doc[t] \in SoundVerdicts
        /\ \E i \in DOMAIN doc[t].claims : doc[t].claims[i].text = claims[c].text

\* An edit is all or nothing: the file is as it was, or has every block of
\* one answer replaced once, or its write was cut short -- and then the gate
\* lets no commit through that has read it back (apply.py:63, handler.py:276).
Whole(f, bs) ==
    \A a \in DOMAIN Original :
        f[a] = Original[a] + Cardinality({i \in DOMAIN bs : bs[i].new = a})
                           - Cardinality({i \in DOMAIN bs : bs[i].old = a})
EditIsAllOrNothing ==
    \A t \in Edits :
        /\ file[t] \in {Original, Torn} \/ Whole(file[t], applied[t])
        /\ pc[t] = "commitEdit" => file[t] # Torn
=============================================================================
