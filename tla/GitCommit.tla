------------------------------ MODULE GitCommit ------------------------------
(***************************************************************************)
(* Committing the work of a sequence of engine runs to one project         *)
(* repository: engine/committer.py, its callers in engine/engine.py, the   *)
(* research and edit handlers, and run-ralph-loop-2.py, which starts one   *)
(* Engine.run after the other in one process and one workspace.            *)
(*                                                                         *)
(* A commit attempt is a sequence of git commands, one action each,        *)
(* because the thread that issues them outlives the wait of _with_timeout  *)
(* (`Abandon'), and then shares the repository with the runs that follow.  *)
(* No command raises: run_git answers a return code, which most callers    *)
(* ignore.                                                                 *)
(***************************************************************************)
EXTENDS Integers, Sequences, SequencesExt

CONSTANTS
    Runs,       \* number of engine runs
    Items,      \* file contents a task may produce
    NewFiles,   \* those of Items that are files no commit has yet
    Settings    \* what a sequence of runs may meet: [plans, retries, empty, faults]

TaskKinds == {"code", "research", "edit"}
FaultKinds == {"stop", "checkout", "write", "add", "commit", "gitea", "push",
               "ack", "abandon"}
RunIds == 1..Runs

\* plans: the task lists of a run, sequences of [kind, item]; retries:
\* EngineConfig.max_retries_commit; empty: bootstrap_project just ran `git
\* init'; faults: the failures the environment may inject.
VARIABLES
    setting,    \* one of Settings
    plans,      \* plans[r]: the tasks of run r
    run,        \* the run being executed; Runs + 1 when all are over
    task,       \* task[r]: index of run r's current task
    tries,      \* task_retries[task.id]["commit"] of the current task
    worker,     \* worker[r]: the next command of run r's commit attempt
    detached,   \* runs whose commit thread _with_timeout gave up on
    head,       \* the checked-out branch: a run, or 0 for main
    refs,       \* local branches, sequences of commits
    index,      \* the staged tree
    disk,       \* the working tree
    remote,     \* the run branches at Gitea
    serial,     \* commits made so far (their SHAs)
    claims,     \* tasks reported in state COMMIT, with their commit_sha
    lastPushed  \* orchestrator_session.last_pushed_sha of each run

driverVars == <<setting, plans, run, task, tries, detached, claims, lastPushed>>
repoVars == <<head, refs, index, disk, remote, serial>>
repo == <<driverVars, worker, repoVars>>

NoSha == 0
Commands == {"checkout", "write", "branch", "add", "commit", "head", "origin",
             "push", "sha", "undoTip", "undoLast", "undoFinal"}

Current(r) == plans[r][task[r]]
Tree(b) == IF refs[b] = <<>> THEN {} ELSE Last(refs[b]).items
Sha(b) == IF refs[b] = <<>> THEN NoSha ELSE Last(refs[b]).id
Shas(branch) == {c.id : c \in ToSet(branch)}

May(f) == f \in setting.faults
At(r, c) == worker[r] = c
Continue(r, c) == worker' = [worker EXCEPT ![r] = c] /\ UNCHANGED driverVars
Working(r) == worker[r] \in Commands
Driving(r) == r = run /\ ~Working(r)

-----------------------------------------------------------------------------
(* What the driver makes of a task.                                        *)

RepoInit ==
    /\ setting \in Settings
    /\ plans \in [RunIds -> setting.plans]
    /\ run = 1
    /\ task = [r \in RunIds |-> 1]
    /\ tries = 0
    /\ worker = [r \in RunIds |-> "none"]
    /\ detached = {}
    /\ head = 0
    /\ serial = IF setting.empty THEN 0 ELSE 1
    /\ refs = [b \in 0..Runs |->
                 IF b = 0 /\ ~setting.empty THEN <<[id |-> 1, items |-> {}]>>
                                        ELSE <<>>]
    /\ index = {}
    /\ disk = {}
    /\ remote = [r \in RunIds |-> <<>>]
    /\ claims = {}
    /\ lastPushed = [r \in RunIds |-> NoSha]

\* The task is reported in state COMMIT with commit_sha s.
Claim(r, s) ==
    /\ claims' = claims \cup {[run |-> r, task |-> task[r],
                               item |-> Current(r).item, sha |-> s]}
    /\ task' = [task EXCEPT ![r] = @ + 1]
    /\ tries' = 0
    /\ lastPushed' = IF Current(r).kind = "code" /\ s # NoSha
                     THEN [lastPushed EXCEPT ![r] = s] ELSE lastPushed
    /\ UNCHANGED <<setting, plans, run, detached>>

\* A task that does not reach COMMIT ends its run.
RunEnds ==
    /\ run' = run + 1
    /\ tries' = 0
    /\ UNCHANGED <<setting, plans, task, detached, claims, lastPushed>>

\* A code task passed its tests on the files the stage wrote to disk ...
StageCode(r) ==
    /\ Current(r).kind = "code"
    /\ \/ disk' = disk \cup {Current(r).item}
       \/ May("write") /\ UNCHANGED disk
    /\ worker' = [worker EXCEPT ![r] = "checkout"]
    /\ UNCHANGED <<driverVars, head, refs, index, remote, serial>>

\* ... or is stopped there, with the files left behind.
StageStopped(r) ==
    /\ May("stop") /\ Current(r).kind = "code"
    /\ disk' = disk \cup {Current(r).item}
    /\ RunEnds
    /\ UNCHANGED <<worker, head, refs, index, remote, serial>>

\* The research handler writes its artifacts and enters _commit_git.
Research(r) ==
    /\ Current(r).kind = "research"
    /\ disk' = disk \cup {Current(r).item}
    /\ worker' = [worker EXCEPT ![r] = "branch"]
    /\ UNCHANGED <<driverVars, head, refs, index, remote, serial>>

\* (variant) The branch is made without being checked out.
OnlyBranched(r) == refs' = [refs EXCEPT ![r] = refs[head]] /\ UNCHANGED head

CheckedOut(r) == head' = r /\ refs' = [refs EXCEPT ![r] = refs[head]]

\* The edit handler writes the file, reads it back and calls commit_code
\* with the text itself: `code.files' raises after the checkout, and the
\* failed CommitResult is only asked for its sha.
Edit(r) ==
    /\ Current(r).kind = "edit"
    /\ disk' = disk \cup {Current(r).item}
    /\ CheckedOut(r) \/ (May("checkout") /\ UNCHANGED <<head, refs>>)
    /\ Claim(r, NoSha)
    /\ UNCHANGED <<worker, index, remote, serial>>

\* The read-back differs from what was to be written.
EditGate(r) ==
    /\ May("write") /\ Current(r).kind = "edit"
    /\ RunEnds
    /\ UNCHANGED <<worker, repoVars>>

StartTask(r) ==
    /\ Driving(r) /\ task[r] <= Len(plans[r])
    /\ \/ StageCode(r) \/ StageStopped(r)
       \/ Research(r)
       \/ Edit(r) \/ EditGate(r)

EndRun(r) ==
    /\ Driving(r) /\ task[r] > Len(plans[r])
    /\ RunEnds
    /\ UNCHANGED <<worker, repoVars>>

\* The wait for commit_code times out, or sees the stop-file; only the first
\* attempt of a code task runs under _with_timeout.  The thread goes on.
Abandon(r) ==
    /\ May("abandon")
    /\ r = run /\ Working(r)
    /\ Current(r).kind = "code" /\ tries = 0
    /\ detached' = detached \cup {r}
    /\ run' = run + 1
    /\ UNCHANGED <<setting, plans, task, tries, claims, lastPushed, worker, repoVars>>

\* What the caller does with the CommitResult.
Succeeds(r) ==
    /\ worker' = [worker EXCEPT ![r] = "none"]
    /\ IF r \in detached THEN UNCHANGED driverVars
                         ELSE Claim(r, Sha(head))

\* The retry loop after a failure that is not permanent.
Retry(r) == Current(r).kind = "code" /\ tries < setting.retries

Fails(r, permanent) ==
    IF r \in detached
    THEN worker' = [worker EXCEPT ![r] = "none"] /\ UNCHANGED driverVars
    ELSE IF Retry(r) /\ ~permanent
    THEN /\ worker' = [worker EXCEPT ![r] = "checkout"]
         /\ tries' = tries + 1
         /\ UNCHANGED <<setting, plans, run, task, detached, claims, lastPushed>>
    ELSE worker' = [worker EXCEPT ![r] = "none"] /\ RunEnds

-----------------------------------------------------------------------------
(* commit_code and _commit_git.                                            *)

\* git checkout -B: the branch is made to point where HEAD points.
Checkout(r, from, to) ==
    /\ At(r, from)
    /\ \/ CheckedOut(r)
       \/ May("checkout") /\ UNCHANGED <<head, refs>>
    /\ Continue(r, to)
    /\ UNCHANGED <<index, disk, remote, serial>>

WriteFiles(r) ==
    /\ At(r, "write")
    /\ \/ disk' = disk \cup {Current(r).item}
       \/ May("write") /\ UNCHANGED disk
    /\ Continue(r, "branch")
    /\ UNCHANGED <<head, refs, index, remote, serial>>

GitAdd(r) ==
    /\ At(r, "add")
    /\ \/ index' = disk
       \/ May("add") /\ UNCHANGED index
    /\ Continue(r, "commit")
    /\ UNCHANGED <<head, refs, disk, remote, serial>>

AddCommit ==
    /\ serial' = serial + 1
    /\ refs' = [refs EXCEPT ![head] =
                  Append(@, [id |-> serial + 1, items |-> index])]
    /\ UNCHANGED <<head, index, disk, remote>>

GitCommits(r) ==
    /\ At(r, "commit") /\ index # Tree(head)
    /\ AddCommit
    /\ Continue(r, "origin")

\* rc # 0; a command that timed out may have made the commit all the same.
GitCommitFails(r) ==
    /\ At(r, "commit") /\ May("commit") /\ index # Tree(head)
    /\ AddCommit \/ UNCHANGED repoVars
    /\ Continue(r, "undoTip")

\* (variant) Nothing to commit, but push all the same.
PushAnyway(r) ==
    /\ At(r, "commit") /\ index = Tree(head)
    /\ Continue(r, IF disk = index THEN "origin" ELSE "undoTip")
    /\ UNCHANGED repoVars

\* Nothing staged: `nothing to commit' when the working tree is clean too,
\* and another message, so a failure, when it is not.
NothingStaged(r) ==
    /\ At(r, "commit") /\ index = Tree(head)
    /\ Continue(r, IF disk = index THEN "head" ELSE "undoTip")
    /\ UNCHANGED repoVars

\* rev-parse HEAD, after a push or after `nothing to commit'.
RevParse(r) ==
    /\ worker[r] \in {"sha", "head"}
    /\ Succeeds(r)
    /\ UNCHANGED repoVars

\* _ensure_repo_exists raises, or a remote named origin is set.
EnsureOrigin(r) ==
    /\ At(r, "origin")
    /\ Continue(r, "push") \/ (May("gitea") /\ Continue(r, "undoTip"))
    /\ UNCHANGED repoVars

CanPush(r) == refs[r] # <<>> /\ IsPrefix(remote[r], refs[r])

Push(r) ==
    /\ At(r, "push") /\ CanPush(r)
    /\ remote' = [remote EXCEPT ![r] = refs[r]]
    /\ Continue(r, "sha") \/ (May("ack") /\ Continue(r, "undoLast"))
    /\ UNCHANGED <<head, refs, index, disk, serial>>

\* (variant) A failed push is repeated in place, without a limit.
PushRepeats(r) ==
    /\ At(r, "push")
    /\ ~CanPush(r) \/ May("push")
    /\ Continue(r, "origin")
    /\ UNCHANGED repoVars

\* Rejected, or refused with or without a permanent error message.
PushFails(r) ==
    /\ At(r, "push")
    /\ \/ ~CanPush(r) /\ Continue(r, "undoLast")
       \/ May("push") /\ \E c \in {"undoLast", "undoFinal"} : Continue(r, c)
    /\ UNCHANGED repoVars

\* git reset --hard to branch b of the checked-out ref: tracked files take
\* the state of its tip, untracked ones stay.
ResetTo(b) ==
    LET tree == IF b = <<>> THEN {} ELSE Last(b).items
        untracked == (disk \cap NewFiles) \ (index \cup Tree(head))
    IN  /\ refs' = [refs EXCEPT ![head] = b]
        /\ index' = tree
        /\ disk' = tree \cup untracked
        /\ UNCHANGED <<head, remote, serial>>

\* reset --hard HEAD, after a failed commit or an exception; an unborn HEAD
\* resolves to nothing.
UndoStaged(r) ==
    /\ At(r, "undoTip")
    /\ IF refs[head] = <<>> THEN UNCHANGED repoVars ELSE ResetTo(refs[head])
    /\ Fails(r, FALSE)

\* (variant) A failed push resets the files and keeps the commit.
KeepCommit(r) ==
    /\ worker[r] \in {"undoLast", "undoFinal"}
    /\ IF refs[head] = <<>> THEN UNCHANGED repoVars ELSE ResetTo(refs[head])
    /\ Fails(r, At(r, "undoFinal"))

\* reset --hard HEAD~1, after a failed push; the first commit has no parent.
UndoCommit(r) ==
    /\ worker[r] \in {"undoLast", "undoFinal"}
    /\ IF Len(refs[head]) < 2 THEN UNCHANGED repoVars
                              ELSE ResetTo(Front(refs[head]))
    /\ Fails(r, At(r, "undoFinal"))

CommitStep(r) ==
    \/ Checkout(r, "checkout", "write") \/ WriteFiles(r)
    \/ Checkout(r, "branch", "add") \/ GitAdd(r)
    \/ GitCommits(r) \/ GitCommitFails(r) \/ NothingStaged(r)
    \/ RevParse(r) \/ EnsureOrigin(r) \/ Push(r) \/ PushFails(r)
    \/ UndoStaged(r) \/ UndoCommit(r)

AllOver == run > Runs /\ \A r \in RunIds : ~Working(r)

RepoNext ==
    \/ \E r \in RunIds : StartTask(r) \/ EndRun(r) \/ Abandon(r) \/ CommitStep(r)
    \/ AllOver /\ UNCHANGED repo

RepoSpec == RepoInit /\ [][RepoNext]_repo

\* Each thread goes on as long as it has a next command.
Goes(r) == StartTask(r) \/ EndRun(r) \/ CommitStep(r)
-----------------------------------------------------------------------------
(* Properties.                                                             *)

\* A commit that a task was reported with is never dropped by the undoing of
\* a later attempt (reset --hard HEAD or HEAD~1, committer.py:108, 124, 145), as
\* long as no commit thread outlives the wait for it.
WorkKept ==
    \A c \in claims : \A b \in 0..Runs :
        c.sha \in Shas(refs[b]) => c.sha \in Shas(refs'[b])

ClaimedWorkStays == []["abandon" \notin setting.faults => WorkKept]_repo

\* main never moves (prd-engine-unification-01-core.md:45) as long as every
\* checkout succeeds, abandoned commit threads included.
MainKept == refs'[0] = refs[0]

MainStaysClean == []["checkout" \notin setting.faults => MainKept]_repo

\* Every commit_sha reported by a code or research task is that of a commit
\* that holds the task's work ("nothing to commit", committer.py:99, included)
\* and is on a run branch at Gitea, an earlier run's when it already had the
\* same content, whatever pushes failed and were retried: in a repository that
\* has a commit, as long as Gitea answers, files are written and `git commit'
\* succeeds.
Bearable == {"stop", "checkout", "add", "push", "ack"}

Published ==
    \A c \in claims : c.sha # NoSha =>
        \E r \in 1..c.run : \E k \in ToSet(remote[r]) :
            k.id = c.sha /\ c.item \in k.items

ClaimedIsPublished ==
    ~setting.empty /\ setting.faults \subseteq Bearable => Published
=============================================================================
