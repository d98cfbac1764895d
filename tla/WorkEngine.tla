----------------------------- MODULE WorkEngine ------------------------------
(***************************************************************************)
(* The legacy remote pipelines: WorkEngine.run (model swap, sandbox,       *)
(* inference, results, push, clean-up), the simple pipeline without a      *)
(* sandbox, the benches, and the operator's commands, on one shared host.  *)
(*                                                                         *)
(* Nothing on the host is locked: the runs share the model server, the     *)
(* container names, the project's work tree with its index, and the table  *)
(* of work sessions in the local telemetry database.                       *)
(***************************************************************************)
EXTENDS Naturals, Sequences, FiniteSets

CONSTANTS
  Runs,      \* the pipelines that may be started
  NameOf,    \* the session name each is given; two may share one
  Profile,   \* the model profile each asks for, or None (the 3070)
  Sandboxed, \* the runs of WorkEngine; the others are simple pipelines
  None,      \* no model profile, no pipeline
  MaxRows    \* bound on the session rows

Names == {NameOf[r] : r \in Runs}
Profiles == {Profile[r] : r \in Runs} \ {None}
Main == <<"main">>

VARIABLES
  rows,   \* work_sessions, in the order of the ids, with whose the session is
  proc,   \* the processes
  host    \* model, containers, work tree and index, branches, remote

vars == <<rows, proc, host>>

NewProc == [pc |-> "new", id |-> 0, result |-> "none", inferred |-> FALSE]

Init ==
  /\ rows = <<>>
  /\ proc = [r \in Runs |-> NewProc]
  /\ host = [model |-> "down", containers |-> [n \in Names |-> FALSE],
             head |-> Main, files |-> {}, index |-> {},
             branches |-> [b \in {Main} |-> {}], remote |-> [b \in {} |-> {}]]

At(r, pc) == proc[r].pc = pc
GoTo(r, pc) == proc' = [proc EXCEPT ![r].pc = pc]
UpdateSession(id, status) == rows' = [rows EXCEPT ![id].status = status]
Mark(r, status) == UpdateSession(proc[r].id, status)

-----------------------------------------------------------------------------

Begin(r) ==
  /\ At(r, "new") /\ Len(rows) < MaxRows
  /\ rows' = Append(rows, [name |-> NameOf[r], run |-> r, status |-> "created"])
  /\ proc' = [proc EXCEPT ![r].pc = "swap", ![r].id = Len(rows) + 1]
  /\ UNCHANGED host

\* A step failed: the row says so; the sandboxed pipeline runs its finally
\* clause, the simple one returns from where it is.
Abort(r) ==
  /\ proc' = [proc EXCEPT ![r].pc = IF r \in Sandboxed THEN "clean" ELSE "ended",
                          ![r].result = "aborted"]
  /\ Mark(r, "failed")

\* The outcomes of a swap: the profile is loaded; the server is not healthy in
\* 180 seconds; or the fallback finds another profile's server healthy on the
\* port and takes it for its own.
Loaded(profile) == {profile} \cup ({host.model} \ {"down"})

Swapped(r, next) ==
  \/ \E model \in Loaded(Profile[r]) :
       host' = [host EXCEPT !.model = model] /\ GoTo(r, next) /\ Mark(r, "swapping")
  \/ host' = [host EXCEPT !.model = "down"] /\ Abort(r)

\* The 3070 needs no swap.
Swap(r) ==
  /\ At(r, "swap")
  /\ IF Profile[r] = None THEN GoTo(r, "create") /\ Mark(r, "swapping") /\ UNCHANGED host
                          ELSE Swapped(r, "create")

SwapSimple(r) ==
  /\ At(r, "swap")
  /\ IF Profile[r] = None THEN GoTo(r, "infer") /\ Mark(r, "swapping") /\ UNCHANGED host
                          ELSE Swapped(r, "infer")

\* docker run fails when the name is taken.
CreateSandbox(r) ==
  /\ At(r, "create")
  /\ \/ /\ ~host.containers[NameOf[r]]
        /\ host' = [host EXCEPT !.containers[NameOf[r]] = TRUE]
        /\ GoTo(r, "prepare")
        /\ Mark(r, "sandbox_ready")
     \/ Abort(r) /\ UNCHANGED host

PrepareProject(r) ==
  /\ At(r, "prepare")
  /\ UNCHANGED host
  /\ \/ GoTo(r, "infer") /\ UNCHANGED rows
     \/ Abort(r)

Answered(r, next) ==
  /\ Profile[r] = None \/ host.model # "down"
  /\ proc' = [proc EXCEPT ![r].pc = next, ![r].inferred = TRUE]
  /\ Mark(r, "inferencing")

Unanswered(r, next) ==
  /\ proc' = [proc EXCEPT ![r].pc = next, ![r].result = "failed"]
  /\ Mark(r, "failed")

\* The request goes to the port, whatever model is behind it by now.  After a
\* failure the sandboxed pipeline still writes the partial results.
Infer(r) ==
  /\ At(r, "infer")
  /\ UNCHANGED host
  /\ Answered(r, "collect") \/ Unanswered(r, "collect")

InferSimple(r) ==
  /\ At(r, "infer")
  /\ UNCHANGED host
  /\ Answered(r, "push") \/ Unanswered(r, "final")

\* A step raises (the database is locked, say): the handler marks the row and
\* the pipeline goes on to its clean-up and its final status.
Raise(r) ==
  /\ proc[r].pc \notin {"new", "clean", "final", "ended"}
  /\ proc' = [proc EXCEPT ![r].pc = IF r \in Sandboxed THEN "clean" ELSE "final",
                          ![r].result = "failed"]
  /\ Mark(r, "failed")
  /\ UNCHANGED host

\* Variant: what was collected is pushed, whether the model answered or not.
PushWhatWasCollected(r) ==
  /\ At(r, "collect")
  /\ host' = [host EXCEPT !.files = @ \cup {NameOf[r]}]
  /\ GoTo(r, "push")
  /\ UNCHANGED rows

CollectResults(r) ==
  /\ At(r, "collect")
  /\ host' = [host EXCEPT !.files = @ \cup {NameOf[r]}]
  /\ GoTo(r, IF proc[r].inferred THEN "push" ELSE "clean")
  /\ UNCHANGED rows

-----------------------------------------------------------------------------
(* push_results: five git commands over the shared work tree; only the status of
   the push is looked at, and the result of that not by the pipeline *)

Branch(r) == <<"results", NameOf[r]>>

\* git checkout -b, else git checkout: the latter refuses to overwrite an
\* untracked results file, and leaves the tree on the branch it is on.
CheckoutBranch(r) ==
  /\ At(r, "push")
  /\ Mark(r, "pushing")
  /\ GoTo(r, "add")
  /\ LET files == host.files \cup {NameOf[r]} IN
     host' = IF Branch(r) \notin DOMAIN host.branches
             THEN [host EXCEPT !.files = files, !.head = Branch(r),
                     !.branches = [b \in DOMAIN @ \cup {Branch(r)} |->
                                     IF b = Branch(r) THEN @[host.head] ELSE @[b]]]
             ELSE IF files \cap host.branches[Branch(r)] # {}
             THEN [host EXCEPT !.files = files]
             ELSE [host EXCEPT !.files = files, !.head = Branch(r)]

Add(r) ==
  /\ At(r, "add")
  /\ host' = IF NameOf[r] \in host.files THEN [host EXCEPT !.index = @ \cup {NameOf[r]}] ELSE host
  /\ GoTo(r, "commit")
  /\ UNCHANGED rows

\* The commit takes the whole index, to the branch that is checked out.
Commit(r) ==
  /\ At(r, "commit")
  /\ host' = [host EXCEPT !.branches[host.head] = @ \cup host.index,
                          !.files = @ \ host.index, !.index = {}]
  /\ GoTo(r, "publish")
  /\ UNCHANGED rows

Publish(r) ==
  /\ At(r, "publish")
  /\ \/ Branch(r) \in DOMAIN host.branches
        /\ host' = [host EXCEPT !.remote = [b \in DOMAIN @ \cup {Branch(r)} |->
                      IF b = Branch(r) THEN host.branches[b] ELSE @[b]]]
     \/ UNCHANGED host
  /\ GoTo(r, "back")
  /\ UNCHANGED rows

CheckoutBack(r) ==
  /\ At(r, "back")
  /\ host' = [host EXCEPT !.head = Main]
  /\ GoTo(r, IF r \in Sandboxed THEN "clean" ELSE "final")
  /\ UNCHANGED rows

-----------------------------------------------------------------------------
(* The end of a pipeline, and the operator's commands *)

\* The finally clause removes the container of that name, whoever made it.  A
\* pipeline that returned early ends here with its row `destroyed'; the others
\* go on to the final status.
Destroy(r) ==
  /\ At(r, "clean")
  /\ \E gone \in BOOLEAN :
       host' = IF gone THEN [host EXCEPT !.containers[NameOf[r]] = FALSE] ELSE host
  /\ Mark(r, "destroyed")
  /\ GoTo(r, IF proc[r].result = "aborted" THEN "ended" ELSE "final")

Outcome(r) == IF proc[r].result = "none" THEN "completed" ELSE "failed"

Finalize(r) ==
  /\ At(r, "final")
  /\ Mark(r, Outcome(r))
  /\ proc' = [proc EXCEPT ![r].pc = "ended", ![r].result = Outcome(r)]
  /\ UNCHANGED host

\* sandbox create, by hand: a row, then the container if the name is free.
MakeSandbox(n) ==
  /\ Len(rows) < MaxRows
  /\ IF ~host.containers[n]
     THEN /\ rows' = Append(rows, [name |-> n, run |-> None, status |-> "created"])
          /\ host' = [host EXCEPT !.containers[n] = TRUE]
     ELSE /\ rows' = Append(rows, [name |-> n, run |-> None, status |-> "failed"])
          /\ UNCHANGED host
  /\ UNCHANGED proc

\* The latest row of that name is marked, whichever run it belongs to.
MarkLatest(n) ==
  LET ids == {i \in DOMAIN rows : rows[i].name = n} IN
  IF ids = {} THEN UNCHANGED rows
  ELSE UpdateSession(CHOOSE i \in ids : \A j \in ids : j <= i, "destroyed")

\* destroy, of one name or of every listed one: the row is marked even when
\* docker could not remove the container.
DestroySandbox(n) ==
  /\ \E gone \in BOOLEAN :
       host' = IF gone THEN [host EXCEPT !.containers[n] = FALSE] ELSE host
  /\ MarkLatest(n)
  /\ UNCHANGED proc

\* cleanup, for each container it has listed.
Cleanup(n) == host.containers[n] /\ DestroySandbox(n)

\* bench: scripts on the host between the two writes of a row, which ends as
\* `completed' whatever they answered.  A bench that is killed never ends.
BeginBench(n) ==
  /\ Len(rows) < MaxRows
  /\ rows' = Append(rows, [name |-> n, run |-> "bench", status |-> "created"])
  /\ UNCHANGED <<proc, host>>

EndBench(i) ==
  /\ rows[i].run = "bench"
  /\ rows' = [rows EXCEPT ![i] = [@ EXCEPT !.run = None, !.status = "completed"]]
  /\ UNCHANGED <<proc, host>>

\* docker rm by the remote control, which marks no row.
RemoveContainer(n) ==
  /\ host' = [host EXCEPT !.containers[n] = FALSE]
  /\ UNCHANGED <<rows, proc>>

\* model swap, by hand, under the running pipelines.
SwapModel(p) ==
  /\ \E model \in Loaded(p) \cup {"down"} : host' = [host EXCEPT !.model = model]
  /\ UNCHANGED <<rows, proc>>

\* The local process is killed.
Kill(r) ==
  /\ proc[r].pc \notin {"new", "ended"}
  /\ proc' = [proc EXCEPT ![r].pc = "ended", ![r].result = "killed"]
  /\ UNCHANGED <<rows, host>>

Push(r) == CheckoutBranch(r) \/ Add(r) \/ Commit(r) \/ Publish(r) \/ CheckoutBack(r)

RunPipeline(r) ==
  \/ Begin(r) \/ Swap(r) \/ CreateSandbox(r) \/ PrepareProject(r) \/ Infer(r)
  \/ CollectResults(r) \/ Push(r) \/ Raise(r) \/ Destroy(r) \/ Finalize(r) \/ Kill(r)

RunSimplePipeline(r) ==
  \/ Begin(r) \/ SwapSimple(r) \/ InferSimple(r) \/ Push(r) \/ Raise(r)
  \/ Finalize(r) \/ Kill(r)

Next ==
  \/ \E r \in Sandboxed : RunPipeline(r)
  \/ \E r \in Runs \ Sandboxed : RunSimplePipeline(r)
  \/ \E n \in Names :
       \/ MakeSandbox(n) \/ DestroySandbox(n) \/ RemoveContainer(n) \/ Cleanup(n)
       \/ BeginBench(n)
  \/ \E i \in DOMAIN rows : EndBench(i)
  \/ \E p \in Profiles : SwapModel(p)

Spec == Init /\ [][Next]_vars

-----------------------------------------------------------------------------
(* Properties *)

\* No branch on the remote holds the results file of a session none of whose
\* runs got an answer, though the index and the work tree are shared and the
\* partial results of failed runs lie in it.
OnlyAnswersArePublished ==
  \A b \in DOMAIN host.remote : \A n \in host.remote[b] :
    \E r \in Runs : NameOf[r] = n /\ proc[r].inferred

=============================================================================
