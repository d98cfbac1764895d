------------------------------- MODULE Archive -------------------------------
(***************************************************************************)
(* The results archive (src/engine/archive.py): the engine archives a run  *)
(* when it ends, and prunes the old snapshots of the run's project; `ace   *)
(* archive' archives any run again, and prunes nothing.  Several processes *)
(* share the directory, and may archive one run at the same time.          *)
(***************************************************************************)
EXTENDS Integers, FiniteSetsExt

CONSTANTS
    Procs,          \* processes that archive
    Runs,           \* their runs, numbers in the order of their names
    ProjectOf,      \* and the projects of these
    Keep,           \* archive_keep
    MaxClock        \* bound on the archivings

VARIABLES
    dir,        \* each run's directory: its report (none, unreadable, naming the
                \* run's project or not), the newest time of its files, and
                \* whether the copy of the database is there
    job,        \* what each process is doing, for which run, the directories it
                \* has left to look at, and the snapshots and times it has read
    clock,
    renewed     \* history: snapshots written anew while processes that had read
                \* their age were pruning, until none prunes

vars == <<dir, job, clock, renewed>>

NoDir == [report |-> "none", newest |-> 0, snap |-> FALSE]
NoJob == [pc |-> "idle", run |-> 0, prune |-> FALSE, left |-> {}, seen |-> {}]

-----------------------------------------------------------------------------
\* (variant) The snapshots of every project.
AnyCandidates(p) == {r \in Runs : dir[r].snap /\ dir[r].report # "unreadable"}

\* The project's snapshots: a directory without a report is everybody's, one
\* whose report cannot be read is nobody's.
Candidates(p) ==
    {r \in Runs : dir[r].snap /\ \/ dir[r].report = "none"
                                 \/ dir[r].report = "naming" /\ ProjectOf[r] = p}

\* Somebody who is still pruning has read the age of r's snapshot.
Read(r) == \E v \in Procs : \E x \in job[v].seen : x.run = r

\* A file of r's directory is written.
Put(r, d) ==
    /\ dir' = [dir EXCEPT ![r] = d]
    /\ renewed' = IF Read(r) /\ d.snap /\ d.report = "naming"
                  THEN renewed \union {r} ELSE renewed

NewReport(d, report, t) == [d EXCEPT !.report = report, !.newest = t]
NewCopy(d, t) == [d EXCEPT !.snap = TRUE, !.newest = t]

\* archive_run opens the report, which truncates it.
Start(w, r, prune) ==
    /\ job[w].pc = "idle" /\ clock < MaxClock
    /\ Put(r, NewReport(dir[r], "unreadable", clock + 1))
    /\ job' = [job EXCEPT ![w] = [NoJob EXCEPT !.pc = "report", !.run = r, !.prune = prune]]
    /\ clock' = clock + 1

\* The engine's report names the project.  That of `ace archive' takes it from
\* the checkpoint, which never holds it.  Two that write one file may spoil it.
WriteReport(w) ==
    LET r == job[w].run IN
    /\ job[w].pc = "report"
    /\ \E report \in {IF job[w].prune THEN "naming" ELSE "nameless", "unreadable"} :
          /\ report = "unreadable" => \E v \in Procs \ {w} : job[v].run = r
          /\ Put(r, NewReport(dir[r], report, clock))
    /\ job' = [job EXCEPT ![w].pc = "copy"]
    /\ UNCHANGED clock

\* copy2 keeps the time of the database's own file, which may be older than the
\* report's; there may be no database.  Commit and push are best-effort and
\* change nothing here.
CopyDb(w) ==
    LET r == job[w].run IN
    /\ job[w].pc = "copy"
    /\ \/ \E t \in dir[r].newest .. clock : Put(r, NewCopy(dir[r], t))
       \/ UNCHANGED <<dir, renewed>>
    /\ job' = [job EXCEPT ![w] = IF @.prune THEN [@ EXCEPT !.pc = "list"] ELSE NoJob]
    /\ UNCHANGED clock

\* prune_archives: the directories there are ...
List(w) ==
    /\ job[w].pc = "list"
    /\ job' = [job EXCEPT ![w].pc = "look", ![w].left = {r \in Runs : dir[r].report # "none"}]
    /\ UNCHANGED <<dir, clock, renewed>>

\* ... one after the other ...
Look(w) ==
    /\ job[w].pc = "look"
    /\ \E r \in job[w].left :
          /\ \A q \in job[w].left : r <= q
          /\ job' = [job EXCEPT ![w].left = @ \ {r},
                        ![w].seen = IF r \in Candidates(ProjectOf[job[w].run])
                                    THEN @ \union {[run |-> r, at |-> dir[r].newest]} ELSE @]
    /\ UNCHANGED <<dir, clock, renewed>>

\* ... sorted by age, which keeps the order of the names among those of one age;
Before(x, y) == x.at > y.at \/ (x.at = y.at /\ x.run < y.run)

\* all but the first Keep ...
Old(S) == {y \in S : Cardinality({x \in S : Before(x, y)}) >= Keep}

Sort(w) ==
    /\ job[w].pc = "look" /\ job[w].left = {}
    /\ job' = [job EXCEPT ![w].pc = "unlink", ![w].seen = Old(@)]
    /\ UNCHANGED <<dir, clock, renewed>>

\* ... are removed one by one; one that is gone, or cannot be removed, is
\* passed over.
Unlink(w) ==
    /\ job[w].pc = "unlink"
    /\ \E x \in job[w].seen :
          /\ (dir' = [dir EXCEPT ![x.run].snap = FALSE] \/ UNCHANGED dir)
          /\ job' = [job EXCEPT ![w].seen = @ \ {x}]
    /\ UNCHANGED <<clock, renewed>>

\* archive_run returns, or the process dies on its way.
End(w) ==
    /\ job[w].pc # "idle"
    /\ job' = [job EXCEPT ![w] = NoJob]
    /\ renewed' = IF \E v \in Procs \ {w} : job[v].seen # {} THEN renewed ELSE {}
    /\ UNCHANGED <<dir, clock>>

Init ==
    /\ dir = [r \in Runs |-> NoDir] /\ clock = 0 /\ renewed = {}
    /\ job = [w \in Procs |-> NoJob]

Next ==
    \E w \in Procs :
        \/ \E r \in Runs, prune \in BOOLEAN : Start(w, r, prune)
        \/ WriteReport(w) \/ CopyDb(w) \/ List(w) \/ Look(w) \/ Sort(w) \/ Unlink(w) \/ End(w)

Spec == Init /\ [][Next]_vars

-----------------------------------------------------------------------------
\* archive.py:8-9: pruning leaves each project its newest snapshots, up to Keep
\* of them: whichever processes archive runs, for the first time or again, prune or
\* die at the same time, a snapshot is removed only while Keep others of its
\* project stay.  Among them count those that were written anew, as the project's
\* snapshots, after a process still pruning had read their age: nothing looks
\* again before the unlink, and that process may remove them.
PruningKeepsEnough ==
    [][\A r \in Runs :
          dir[r].snap /\ ~dir'[r].snap =>
            Cardinality({q \in Runs : /\ dir'[q].snap \/ q \in renewed
                                      /\ ProjectOf[q] = ProjectOf[r]}) >= Keep]_vars

=============================================================================
