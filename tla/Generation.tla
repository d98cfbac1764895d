----------------------------- MODULE Generation -----------------------------
(***************************************************************************)
(* How answers of a model become files: the pipeline of one task of the    *)
(* legacy tools, their remote pipelines on the shared host, the stages of  *)
(* a task of the engine, and the reading of a PRD before them.  They share *)
(* nothing with each other.                                                *)
(***************************************************************************)
EXTENDS Naturals, Sequences, FiniteSets

CONSTANTS
    Paths, Tests, MaxAttempts,                          \* the code generator
    Runs, NameOf, Profile, NoProfile, Sandboxed, MaxRows, \* the remote pipelines
    Imports, MaxBlocks, Marks,                          \* the stages of a task
    Modules, ItemLists, MaxStories, MaxReqs, MaxSections, MaxOrder \* the reading of a PRD

VARIABLES gen, tree, tested, step,
          rows, proc, host,
          stage, job, made, valid, results, ended, budget, replies, score, judged,
          reading, parser, prd, tasks

generatorVars == <<gen, tree, tested, step>>
hostVars == <<rows, proc, host>>
stageVars == <<stage, job, made, valid, results, ended, budget, replies, score, judged>>
prdVars == <<reading, parser, prd, tasks>>

Generator == INSTANCE CodeGenerator WITH MaxRetries <- MaxAttempts
Remote == INSTANCE WorkEngine WITH None <- NoProfile
Making == INSTANCE Stages WITH pc <- stage, task <- job, files <- made, tests <- results, run <- judged
Reading == INSTANCE Prd WITH Files <- Modules, pc <- reading

\* The items of a section are a list of items; there are finitely many modules.
ASSUME ReadingAssumption ==
    /\ IsFiniteSet(Modules) /\ ItemLists \subseteq Seq(Reading!Item)
    /\ {MaxStories, MaxReqs, MaxSections, MaxOrder} \subseteq Nat

\* A generation reported as a success was tested as it lies on the disk.
SuccessIsTested == Generator!SuccessIsTested

\* Only results files of sessions whose model answered are on the remote.
OnlyAnswersArePublished == Remote!OnlyAnswersArePublished

\* What validation let through ran to its end, and no declared file is a stub
\* (validator.py).
ValidatedCodeRuns == Making!ValidatedCodeRuns

\* The tasks of a PRD come after what they depend on, each with its own id (prd.py).
OrderRespectsDependencies == Reading!OrderRespectsDependencies
=============================================================================
