-------------------------------- MODULE Bench --------------------------------
(***************************************************************************)
(* The benchmark platform: `orchestrate.py' (phase 1 and a single config), *)
(* the runner that claims a row of benchmark_runs, infers and records the  *)
(* answer, the checkpoint manager, the GPU watchdog thread, the judge and  *)
(* the methodology pilot.  One process at a time works on the database;    *)
(* it may be killed or signalled between any two steps, and started again. *)
(*                                                                         *)
(* The handlers of SIGINT and SIGTERM save a checkpoint over a connection  *)
(* of their own: while the runner or the judge holds an uncommitted write, *)
(* that save fails with `database is locked' and the exception surfaces in *)
(* the code that was interrupted.                                          *)
(***************************************************************************)
EXTENDS Naturals, Sequences, FiniteSets, SequencesExt

CONSTANTS
  Configs,        \* the configurations, in the order they are run
  Tasks,          \* the tasks of the corpus, in order
  Checked,        \* the coder tasks with an automated check
  Reps,           \* repetitions per task: 3 in the code
  DoneThreshold,  \* the completed runs that make --resume skip a config: 23
  MaxLives        \* bound on the processes started

VARIABLES
  runs,       \* benchmark_runs: the status of each row, "none" without a row
  scores,     \* judge_scores: "none", "null" (overall is NULL) or "full"
  saved,      \* the runs of the latest checkpoint: <<>> or <<a set of rows>>
  proc,       \* the benchmark process
  dog,        \* the watchdog: is its thread on, is the abort event set
  lives       \* processes started

vars == <<runs, scores, saved, proc, dog, lives>>

Keys == ToSet(Configs) \X ToSet(Tasks) \X (1 .. Reps)
NoCheckpoint == <<>>
Modes == {"phase1", "resume", "single", "pilot", "judge"}

Off == [pc |-> "off", mode |-> "phase1", todo |-> <<>>, left |-> <<>>,
        done |-> <<>>, stopping |-> FALSE, connected |-> FALSE]

Complete == {k \in Keys : runs[k] = "complete"}
Running == {k \in Keys : runs[k] = "running"}
CompletedOf(c) == {k \in Complete : k[1] = c}
Unscored == {k \in Complete : scores[k] = "none"}

\* The rows of a batch in the order run_batch visits them.
BatchOf(c) ==
  FoldLeft(LAMBDA acc, t : acc \o [r \in 1 .. Reps |-> <<c, t, r>>], <<>>, Tasks)

-----------------------------------------------------------------------------

Init ==
  /\ runs = [k \in Keys |-> "none"]
  /\ scores = [k \in Keys |-> "none"]
  /\ saved = NoCheckpoint
  /\ proc = Off
  /\ dog = [on |-> FALSE, abort |-> FALSE]
  /\ lives = 0

At(pc) == proc.pc = pc
GoTo(pc) == proc' = [proc EXCEPT !.pc = pc]
WatchdogStop == dog' = [dog EXCEPT !.on = FALSE]

SaveCheckpoint == saved' = <<Complete>>

\* A process starts: the tables exist already, the result of the three
\* connection attempts is not looked at, the pre-flight checks block nothing.
Start(mode) ==
  /\ At("off") /\ lives < MaxLives
  /\ lives' = lives + 1
  /\ \E connected \in BOOLEAN :
       proc' = [Off EXCEPT !.mode = mode, !.connected = connected,
                  !.pc = CASE mode = "resume" -> "resume"
                           [] mode = "phase1" -> "configs"
                           [] mode = "judge" -> "scoring"
                           [] OTHER -> "batch",
                  !.todo = IF mode \in {"phase1", "resume"} THEN Configs ELSE <<>>,
                  !.left = CASE mode = "single" -> BatchOf(Configs[1])
                             [] mode = "pilot" -> FlattenSeq([i \in DOMAIN Configs |-> BatchOf(Configs[i])])
                             [] OTHER -> <<>>,
                  !.done = IF mode = "judge" THEN SetToSeq(Unscored) ELSE <<>>]
  /\ dog' = [on |-> mode \in {"phase1", "single"}, abort |-> FALSE]
  /\ UNCHANGED <<runs, scores, saved>>

\* Variant: resume keeps only the runs the checkpoint lists.
ResumeTrustsCheckpoint ==
  /\ At("resume")
  /\ GoTo("configs")
  /\ dog' = [dog EXCEPT !.on = TRUE]
  /\ runs' = IF saved = NoCheckpoint THEN runs
             ELSE [k \in Keys |-> IF runs[k] # "none" /\ k \notin saved[1] THEN "incomplete" ELSE runs[k]]
  /\ UNCHANGED <<scores, saved, lives>>

\* resume_from_checkpoint: without any checkpoint it returns before it looks
\* at the rows a crash left `running'.  The watchdog starts after it.
ResumeFromCheckpoint ==
  /\ At("resume")
  /\ GoTo("configs")
  /\ dog' = [dog EXCEPT !.on = TRUE]
  /\ runs' = IF saved = NoCheckpoint THEN runs
             ELSE [k \in Keys |-> IF k \in Running THEN "incomplete" ELSE runs[k]]
  /\ UNCHANGED <<scores, saved, lives>>

\* The end of the process: the finally clauses stop the watchdog.
Exit ==
  /\ proc' = Off
  /\ WatchdogStop
  /\ UNCHANGED <<saved, lives>>

SkipConfig(c) == proc.mode = "resume" /\ Cardinality(CompletedOf(c)) >= DoneThreshold

\* The head of the loop over the configurations.
NextConfig ==
  /\ At("configs")
  /\ UNCHANGED <<runs, scores>>
  /\ \/ /\ proc.stopping \/ proc.todo = <<>>
        /\ Exit
     \/ /\ ~proc.stopping /\ proc.todo # <<>>
        /\ UNCHANGED <<saved, lives, dog>>
        /\ LET c == Head(proc.todo) IN
           IF SkipConfig(c)
           THEN proc' = [proc EXCEPT !.todo = Tail(@)]
           ELSE proc' = [proc EXCEPT !.pc = "batch", !.todo = Tail(@),
                                     !.left = BatchOf(c), !.done = <<>>]

-----------------------------------------------------------------------------
(* run_single *)

Claimable(k) == runs[k] = "none"

\* The row is inserted as `running'; the UNIQUE constraint on (config, task,
\* turn, repetition) turns any existing row into a SKIP.
Claim ==
  /\ At("batch") /\ proc.left # <<>>
  /\ proc' = IF Claimable(Head(proc.left)) THEN [proc EXCEPT !.pc = "inserting"]
             ELSE [proc EXCEPT !.left = Tail(@)]
  /\ UNCHANGED <<runs, scores, saved, dog, lives>>

CommitClaim ==
  /\ At("inserting")
  /\ runs' = [runs EXCEPT ![Head(proc.left)] = "running"]
  /\ GoTo("infer")
  /\ UNCHANGED <<scores, saved, dog, lives>>

\* The answer arrives, or the command fails; without a connection it always
\* fails.  The row is updated and, a step later, committed.
Infer ==
  /\ At("infer")
  /\ \/ proc.connected /\ GoTo("completing")
     \/ GoTo("failing")
  /\ UNCHANGED <<runs, scores, saved, dog, lives>>

Record(status) ==
  /\ runs' = [runs EXCEPT ![Head(proc.left)] = status]
  /\ proc' = [proc EXCEPT !.pc = "batch", !.left = Tail(@),
                !.done = IF status = "complete" THEN Append(@, Head(proc.left)) ELSE @]

CommitResult ==
  /\ \/ At("completing") /\ Record("complete")
     \/ At("failing") /\ Record("failed")
  /\ UNCHANGED <<scores, saved, dog, lives>>

-----------------------------------------------------------------------------
(* The end of a batch, and the judge *)

\* Phase 1 looks at the abort event first, and then scores only the runs this
\* batch completed; the pilot scores every complete run without a score.
EndBatch ==
  /\ At("batch") /\ proc.left = <<>>
  /\ UNCHANGED <<runs, scores>>
  /\ IF proc.mode \in {"phase1", "resume"} /\ dog.abort
     THEN /\ proc' = Off
          /\ WatchdogStop
          /\ SaveCheckpoint
          /\ UNCHANGED <<lives>>
     ELSE /\ proc' = [proc EXCEPT !.pc = "scoring",
                        !.done = IF proc.mode = "pilot" THEN SetToSeq(Unscored) ELSE @]
          /\ UNCHANGED <<saved, dog, lives>>

\* score_run: the code test (coder tasks only) gives the correctness, the judge
\* the other four; a missing one leaves `overall' NULL.  A score above ten
\* breaks the CHECK of both INSERTs: the run is reported, not scored.
Score ==
  /\ At("scoring") /\ proc.done # <<>>
  /\ \/ GoTo("judging")
     \/ proc' = [proc EXCEPT !.done = Tail(@)]
  /\ UNCHANGED <<runs, scores, saved, dog, lives>>

Judgement(k) == {"null"} \cup (IF k[2] \in Checked THEN {"full"} ELSE {})

RecordScore ==
  /\ \E s \in Judgement(Head(proc.done)) : scores' = [scores EXCEPT ![Head(proc.done)] = s]
  /\ proc' = [proc EXCEPT !.pc = "scoring", !.done = Tail(@)]

CommitScore ==
  /\ At("judging")
  /\ RecordScore
  /\ UNCHANGED <<runs, saved, dog, lives>>

\* After the scores: phase 1 saves a checkpoint and takes the next config, the
\* others end (the pilot with its report).
EndScoring ==
  /\ At("scoring") /\ proc.done = <<>>
  /\ UNCHANGED <<runs, scores>>
  /\ IF proc.mode \in {"phase1", "resume"}
     THEN GoTo("configs") /\ SaveCheckpoint /\ UNCHANGED <<dog, lives>>
     ELSE Exit

-----------------------------------------------------------------------------
(* The watchdog, signals and crashes *)

\* One poll of nvidia-smi: a vanished GPU, a temperature above the threshold
\* and a failed query (there is none without a connection) all set the event.
Poll ==
  /\ dog.on /\ ~dog.abort
  /\ dog' = [dog EXCEPT !.abort = TRUE]
  /\ UNCHANGED <<runs, scores, saved, proc, lives>>

Handles == proc.mode \in {"phase1", "resume", "single"}
Locked == proc.pc \in {"inserting", "completing", "failing", "judging"}

\* SIGINT or SIGTERM outside a write: checkpoint, SystemExit, finally clauses.
Signal ==
  /\ ~At("off") /\ Handles /\ ~Locked
  /\ SaveCheckpoint
  /\ proc' = Off
  /\ WatchdogStop
  /\ UNCHANGED <<runs, scores, lives>>

\* The same inside a write.  An INSERT or the failure UPDATE rolls back and the
\* exception ends the process; the completion UPDATE lands in run_single's own
\* handler, which records a failure and goes on; the judge inserts again.
SignalInWrite ==
  /\ Handles /\ Locked
  /\ UNCHANGED <<saved, lives>>
  /\ WatchdogStop
  /\ \/ /\ proc.pc \in {"inserting", "failing"}
        /\ proc' = Off
        /\ UNCHANGED <<runs, scores>>
     \/ /\ At("completing")
        /\ runs' = [runs EXCEPT ![Head(proc.left)] = "failed"]
        /\ proc' = [proc EXCEPT !.pc = "batch", !.left = Tail(@), !.stopping = TRUE]
        /\ UNCHANGED scores
     \/ /\ At("judging")
        /\ \E s \in Judgement(Head(proc.done)) :
             scores' = [scores EXCEPT ![Head(proc.done)] = s]
        /\ proc' = [proc EXCEPT !.pc = "scoring", !.done = Tail(@), !.stopping = TRUE]
        /\ UNCHANGED runs

\* The process is killed: an uncommitted write is rolled back, the rest stays.
Crash ==
  /\ ~At("off")
  /\ proc' = Off
  /\ WatchdogStop
  /\ UNCHANGED <<runs, scores, saved, lives>>

Next ==
  \/ \E mode \in Modes : Start(mode)
  \/ ResumeFromCheckpoint \/ NextConfig
  \/ Claim \/ CommitClaim \/ Infer \/ CommitResult
  \/ EndBatch \/ Score \/ CommitScore \/ EndScoring
  \/ Poll \/ Signal \/ SignalInWrite \/ Crash

Spec == Init /\ [][Next]_vars

-----------------------------------------------------------------------------
(* Properties *)

\* Whatever is started, signalled or killed in between, a row that was
\* recorded complete keeps its status, and a row with a score is a complete
\* one: judge_scores never describes a run that a later resume or a signal in
\* the middle of a write declared failed or incomplete.
CompleteIsFinal ==
  [][\A k \in Keys : (runs[k] = "complete" \/ scores[k] # "none") => runs'[k] = "complete"]_vars

=============================================================================
