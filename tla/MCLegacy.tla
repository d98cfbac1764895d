------------------------------ MODULE MCLegacy -------------------------------
(***************************************************************************)
(* How code is planned, made and tested, in the engine and in the legacy   *)
(* tools.  The initial state picks what is explored (`part'): the task     *)
(* queue, the pipeline of one of its tasks, the remote pipelines on the    *)
(* shared host, the stages of an engine task, or the reading of a PRD.     *)
(***************************************************************************)
EXTENDS Naturals, FiniteSets, Generation

CONSTANTS t1, t2, t3, r1, r2, a, b, profile1, profile2

VARIABLES part,
          disk, queue, cmd, commands

queueVars == <<disk, queue, cmd, commands>>

\* Independent tasks, a chain, and two that wait for a third.
Order == <<t1, t2, t3>>
G(d1, d2, d3) == [t \in {t1, t2, t3} |-> CASE t = t1 -> d1 [] t = t2 -> d2 [] OTHER -> d3]
Graphs == {G({}, {t1}, {t2}), G({}, {}, {t1, t2}), G({}, {t3}, {t2})}

Queue == INSTANCE TaskQueue WITH MaxCommands <- 2

\* Two runs of their own names and hardware profiles.
MCNameOf == [r \in Runs |-> IF r = r2 THEN b ELSE a]
MCProfile == [r \in Runs |-> IF r = r1 THEN profile1 ELSE profile2]

\* Marks outside the scale on both sides; imports that hide a missing one.
MCMarks == {0 - 1, 11}
MCImports == {<<>>, <<"known", "missing">>, <<"sibling", "missing">>}

\* Lists of one item and of two, with the same number or with two.
Entry(n, m) == [num |-> n, mention |-> m]
MCItemLists == {<<Entry(1, "plain")>>, <<Entry(1, "up"), Entry(2, "absolute")>>,
                <<Entry(1, "none"), Entry(1, "plain")>>}

\* The documents and tasks of the parts that are not explored.
NoPrd == [modules |-> <<>>, stories |-> <<>>, reqs |-> <<>>, order |-> <<>>, sections |-> <<>>]

Init ==
  /\ part \in {"queue", "generator", "host", "stages", "prd"}
  /\ Queue!Init /\ Generator!Init /\ Remote!Init /\ Making!Init /\ Reading!Init
  /\ part # "queue" => disk.deps = G({}, {}, {t1, t2})
  /\ part # "generator" => step.dir = "project"
  /\ part # "stages" => job.kind = "research"
  /\ part # "prd" => parser /\ prd = NoPrd

QueueOnly == part = "queue" /\ UNCHANGED <<part, generatorVars, hostVars, stageVars, prdVars>>
GeneratorOnly == part = "generator" /\ UNCHANGED <<part, queueVars, hostVars, stageVars, prdVars>>
HostOnly == part = "host" /\ UNCHANGED <<part, queueVars, generatorVars, stageVars, prdVars>>
StagesOnly == part = "stages" /\ UNCHANGED <<part, queueVars, generatorVars, hostVars, prdVars>>
PrdOnly == part = "prd" /\ UNCHANGED <<part, queueVars, generatorVars, hostVars, stageVars>>

Next ==
  \/ QueueOnly /\ Queue!Next
  \/ GeneratorOnly /\ Generator!Next
  \/ HostOnly /\ Remote!Next
  \/ StagesOnly /\ Making!Next
  \/ PrdOnly /\ Reading!Next

vars == <<part, queueVars, generatorVars, hostVars, stageVars, prdVars>>
Spec == Init /\ [][Next]_vars /\ WF_vars(QueueOnly /\ Queue!Work)

\* execute-all ends, by the bound on its rounds.
ExecuteAllEnds == Queue!ExecuteAllEnds

=============================================================================
