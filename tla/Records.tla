------------------------------ MODULE Records -------------------------------
(***************************************************************************)
(* What the engine keeps for later readers: the rows and payloads of the   *)
(* session log, the results archive, the registry of Ralph's patterns, the *)
(* rows of a benchmark and the map of the repository.  They share nothing  *)
(* with each other.                                                        *)
(***************************************************************************)
EXTENDS Sequences

CONSTANTS
    LoggedCalls, Attempts,                              \* the session log
    Archivers, Archived, ProjectOf, Keep, MaxClock,                 \* the archive
    PatternIds, Writers, RalphRuns, Namespaces, Scores, Limit, Cap, \* the patterns
    Configs, Corpus, Checked, Reps, DoneThreshold, MaxLives,        \* the benchmark
    Walk, Rules, Contents, Size, Budget, MaxTicks, MapEdits         \* the map

VARIABLES recorder, asked, sidecar, sessions, telemetry,
          dir, job, archivings, renewed,
          patterns, writer, proposal, docs, served, rejected,
          runs, scores, checkpoint, pilot, dog, lives,
          tree, cache, held, walk, seen, rendered, touched, time, edits

logVars == <<recorder, asked, sidecar, sessions, telemetry>>
archiveVars == <<dir, job, archivings, renewed>>
patternVars == <<patterns, writer, proposal, docs, served, rejected>>
benchVars == <<runs, scores, checkpoint, pilot, dog, lives>>
mapVars == <<tree, cache, held, walk, seen, rendered, touched, time, edits>>

Log == INSTANCE SessionLog WITH Calls <- LoggedCalls, state <- recorder, call <- asked
Results == INSTANCE Archive WITH
    Procs <- Archivers, Runs <- Archived, clock <- archivings
Registry == INSTANCE Patterns WITH
    Ids <- PatternIds, Runs <- RalphRuns, rows <- patterns, pc <- writer
Benchmark == INSTANCE Bench WITH Tasks <- Corpus, saved <- checkpoint, proc <- pilot
Repository == INSTANCE RepoMap WITH
    Texts <- Contents, MaxClock <- MaxTicks, MaxEdits <- MapEdits,
    disk <- tree, clock <- time

\* A walk meets each file once; a text is a sequence of names.
ASSUME WalkAssumption ==
    /\ Walk \in Seq(Repository!FileNames)
    /\ \A i, j \in DOMAIN Walk : Walk[i] = Walk[j] => i = j
ASSUME ContentsAssumption == Contents \subseteq Seq(Repository!Names)

\* Whatever dies or is closed between the two halves of a record, and on
\* whichever thread it was made, a recorded row has its payload.
RowsCanBeReplayed == Log!RowsCanBeReplayed

\* session_log.py:1: every model call that was answered is persisted.
EveryCallLogged == Log!EveryCallLogged

\* A snapshot is pruned only while Keep others of its own project stay, or were
\* rewritten after a process still pruning had read their age.
PruningKeepsEnough == Results!PruningKeepsEnough

\* What a prompt was given had been approved, and nothing of it was ever
\* rejected.
RejectedIsNeverServed == Registry!RejectedIsNeverServed

\* A benchmark row recorded complete, or scored, stays complete.
CompleteIsFinal == Benchmark!CompleteIsFinal

\* Between walks the held map has every unchanged file as it stands on disk, or, when
\* nothing is left of it, as it last stood.
MapIsCurrent == Repository!MapIsCurrent
=============================================================================
