------------------------------ MODULE MCEngine ------------------------------
(***************************************************************************)
(* Instances of EnginePipeline and GitCommit for TLC.  The initial state   *)
(* picks what is explored (`part'): a run of the engine, or a sequence of  *)
(* runs that commit to one repository, under one of four settings.  The    *)
(* two do not interact here: EnginePipeline has the outcomes of a commit   *)
(* attempt as its own choices.                                             *)
(***************************************************************************)
EXTENDS EnginePipeline, GitCommit

VARIABLE part

\* Every plan of at most two tasks; one with every kind of task, and one
\* that ends in two code tasks.
ShortPlans == UNION {[1..n -> Kinds] : n \in 0..2}
MixedPlans == {<<"code", "research", "code">>, <<"edit", "code", "code">>}
EngPlans == ShortPlans \cup MixedPlans

\* "a" and "b" are new files, "c" changes a tracked one; two tasks may
\* produce the same content.
Code(i) == [kind |-> "code", item |-> i]
Doc(i) == [kind |-> "research", item |-> i]
Patch(i) == [kind |-> "edit", item |-> i]
RepoPlans == {<<Code("a"), Code("b")>>, <<Code("a"), Patch("c"), Code("a")>>,
              <<Doc("b"), Code("c")>>}
CodePlans == {<<Code("a"), Code("b")>>, <<Code("c"), Code("a")>>, <<Code("b")>>}

\* Every failure of one attempt; a repository that has no commit yet; one more
\* retry, with fewer failures; a commit thread that outlives the wait for it.
Faulty == [plans |-> RepoPlans, retries |-> 1, empty |-> FALSE,
           faults |-> {"stop", "checkout", "write", "add", "commit", "gitea", "push", "ack"}]
Unborn == [plans |-> CodePlans, retries |-> 1, empty |-> TRUE,
           faults |-> {"checkout", "commit", "gitea", "push"}]
Retried == [plans |-> RepoPlans, retries |-> 2, empty |-> FALSE, faults |-> Bearable]
Outlived == [plans |-> CodePlans, retries |-> 1, empty |-> FALSE,
             faults |-> {"abandon", "push", "gitea"}]
RepoSettings == {Faulty, Unborn, Retried, Outlived}

\* The part that is not explored stands still, in one of its initial states.
MCInit ==
  /\ part \in {"engine", "repo"}
  /\ Init /\ RepoInit
  /\ part = "engine" =>
       setting = Faulty /\ \A r \in DOMAIN plans : plans[r] = <<Doc("b"), Code("c")>>
  /\ part = "repo" => plan = <<>> /\ ~dryRun

Engine == part = "engine" /\ UNCHANGED <<part, repo>>
Repo == part = "repo" /\ UNCHANGED <<part, vars>>

MCNext ==
  \/ Engine /\ Next
  \/ Repo /\ RepoNext

\* The driver goes on as long as it can, and so does a commit thread.
Outliving == part = "repo" /\ setting = Outlived
MCSpec ==
  /\ MCInit /\ [][MCNext]_<<part, repo, vars>>
  /\ WF_<<part, repo, vars>>(Engine /\ Driver)
  /\ \A r \in RunIds : WF_<<part, repo, vars>>(Outliving /\ Repo /\ Goes(r))

\* Every run of the engine ends, and so does every sequence of runs, with no
\* commit thread left.
AllRunsEnd == <>CASE part = "engine" -> Ended
                  [] Outliving       -> AllOver
                  [] OTHER           -> TRUE
=============================================================================
