------------------------------ MODULE TaskQueue ------------------------------
(***************************************************************************)
(* The legacy task queue (legacy/task_queue.py): each command loads the    *)
(* queue from its state file, works on the copy in memory and saves it.    *)
(* The tasks form a graph of dependencies; execute-all runs what is ready, *)
(* round after round, through generation, quality gates, tests and commit. *)
(*                                                                         *)
(* The lists `completed', `failed' and `skipped' decide what is ready, not *)
(* the tasks' status.  Commands may be interrupted (the queue is saved) or *)
(* killed (it is not).                                                     *)
(***************************************************************************)
EXTENDS Naturals, Sequences, SequencesExt

CONSTANTS
  Order,        \* the task ids, in the order of their numbers
  Graphs,       \* the dependency functions that may be loaded
  MaxCommands   \* bound on the commands given

VARIABLES
  disk,      \* the state file
  queue,     \* the queue in the memory of the command that runs
  cmd,       \* the command: where it is, the round, what is left of the round
  commands   \* commands given so far

vars == <<disk, queue, cmd, commands>>

Ids == ToSet(Order)
Idle == [pc |-> "idle", all |-> FALSE, round |-> 0, ready |-> <<>>, files |-> FALSE]

Loaded(deps) == [deps |-> deps, status |-> [t \in Ids |-> "pending"],
                 completed |-> {}, failed |-> {}, skipped |-> {}]
Done(q) == q.completed \cup q.failed \cup q.skipped

\* get_ready_tasks and get_blocked_tasks
IsReady(q, t) == t \notin Done(q) /\ q.deps[t] \subseteq q.completed

Ready(q) == SelectSeq(Order, LAMBDA t : IsReady(q, t))
Blocked(q) == {t \in Ids \ Done(q) : ~(q.deps[t] \subseteq q.completed)}

\* Unknown names, and cycles as the depth-first search finds them.
HasCycle(deps) == \E S \in SUBSET Ids : S # {} /\ \A t \in S : deps[t] \cap S # {}
IsValid(deps) == (\A t \in Ids : deps[t] \subseteq Ids) /\ ~HasCycle(deps)

-----------------------------------------------------------------------------

Init ==
  /\ \E deps \in Graphs : IsValid(deps) /\ disk = Loaded(deps)
  /\ queue = disk
  /\ cmd = Idle
  /\ commands = 0

Command == cmd.pc = "idle" /\ commands < MaxCommands /\ commands' = commands + 1

\* load: a graph that is refused is already in the queue when load_tasks
\* raises, and the handler of the exception saves the queue all the same.
Load(deps) ==
  /\ Command
  /\ disk' = Loaded(deps)
  /\ queue' = Loaded(deps)
  /\ UNCHANGED cmd

\* execute --task: only the dependencies are looked at, so a task that is
\* completed or failed may run again.
Execute(t) ==
  /\ Command
  /\ disk.deps[t] \subseteq disk.completed
  /\ queue' = disk
  /\ cmd' = [Idle EXCEPT !.pc = "task", !.ready = <<t>>]
  /\ UNCHANGED disk

ExecuteAll ==
  /\ Command
  /\ queue' = disk
  /\ cmd' = [Idle EXCEPT !.pc = "round", !.all = TRUE]
  /\ UNCHANGED disk

End(q) ==
  /\ cmd' = Idle
  /\ disk' = q
  /\ queue' = q

\* Variant: rounds go on while there is something ready.
RoundsForever == TRUE

RoundsLeft == cmd.round < 2 * Len(Order)

Round == [cmd EXCEPT !.pc = "task", !.round = Min({@ + 1, 2 * Len(Order)}), !.ready = Ready(queue)]

\* The head of execute_all's loop: no round left, a round of ready tasks, or
\* the end, where everything that is blocked is skipped.
NextRound ==
  /\ cmd.pc = "round"
  /\ UNCHANGED commands
  /\ \/ ~RoundsLeft /\ End(queue)
     \/ /\ RoundsLeft /\ Ready(queue) # <<>>
        /\ cmd' = Round
        /\ UNCHANGED <<disk, queue>>
     \/ /\ RoundsLeft /\ Ready(queue) = <<>>
        /\ End([queue EXCEPT !.status = [t \in Ids |-> IF t \in Blocked(queue) THEN "skipped" ELSE @[t]],
                             !.skipped = @ \cup Blocked(queue)])

-----------------------------------------------------------------------------
(* execute_task *)

Task == Head(cmd.ready)

StartTask ==
  /\ cmd.pc = "task" /\ cmd.ready # <<>>
  /\ queue' = [queue EXCEPT !.status[Task] = "running"]
  /\ cmd' = [cmd EXCEPT !.pc = "generate"]
  /\ UNCHANGED <<disk, commands>>

EndRound ==
  /\ cmd.pc = "task" /\ cmd.ready = <<>>
  /\ IF cmd.all THEN cmd' = [cmd EXCEPT !.pc = "round"] /\ UNCHANGED <<disk, queue>>
                ELSE End(queue)
  /\ UNCHANGED commands

\* The context and up to three attempts at the code.
Generate ==
  /\ cmd.pc = "generate"
  /\ \E files \in BOOLEAN : cmd' = [cmd EXCEPT !.pc = "check", !.files = files]
  /\ UNCHANGED <<disk, queue, commands>>

\* _propagate_failure: only a task in the list `failed' makes others fail, and
\* only those all of whose dependencies are in it; skipped ones do not count.
Propagate(q, t) ==
  LET lost == {u \in Ids \ q.failed : t \in q.deps[u] /\ q.deps[u] \subseteq q.failed}
  IN [q EXCEPT !.skipped = @ \cup lost,
               !.status = [u \in Ids |-> IF u \in lost THEN "skipped" ELSE @[u]]]

Finish(q) ==
  /\ cmd' = [cmd EXCEPT !.pc = "task", !.ready = Tail(@)]
  /\ queue' = q

\* Quality gates, tests and commit, and the verdict.  Without files the gates
\* are skipped and the task stays in none of the lists, like one whose gates or
\* tests fail; an exception puts it in `failed'.  The commit is made anyway.
Check ==
  /\ cmd.pc = "check"
  /\ \/ /\ cmd.files
        /\ Finish([queue EXCEPT !.completed = @ \cup {Task}, !.status[Task] = "complete"])
     \/ Finish(IF cmd.all THEN Propagate(queue, Task) ELSE queue)
     \/ ~cmd.files /\ Finish(queue)
     \/ LET q == [queue EXCEPT !.failed = @ \cup {Task}, !.status[Task] = "failed"] IN
        Finish(IF cmd.all THEN Propagate(q, Task) ELSE q)
  /\ UNCHANGED <<disk, commands>>

\* Control-C saves the queue as it is, the task still `running'.
Interrupt ==
  /\ cmd.pc # "idle"
  /\ End(queue)
  /\ UNCHANGED commands

Kill ==
  /\ cmd.pc # "idle"
  /\ cmd' = Idle
  /\ queue' = disk
  /\ UNCHANGED <<disk, commands>>

Work == NextRound \/ StartTask \/ EndRound \/ Generate \/ Check

Next ==
  \/ \E deps \in Graphs : Load(deps)
  \/ \E t \in Ids : Execute(t)
  \/ ExecuteAll
  \/ Work
  \/ Interrupt \/ Kill

\* A command that runs goes on by itself.
Spec == Init /\ [][Next]_vars /\ WF_vars(Work)

-----------------------------------------------------------------------------
(* Properties *)

\* execute-all ends: a task whose generation, gates or tests fail stays ready
\* and is run again in every round, so only the bound on rounds ends it.
ExecuteAllEnds == (cmd.pc # "idle") ~> (cmd.pc = "idle")

=============================================================================
