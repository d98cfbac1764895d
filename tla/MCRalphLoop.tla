---------------------------- MODULE MCRalphLoop ----------------------------
(***************************************************************************)
(* Instances of RalphLoop for TLC, and of what its rounds are made of.     *)
(* The initial state picks what is explored (`part'): the loop or the      *)
(* inside of its rounds.                                                   *)
(***************************************************************************)
EXTENDS RalphLoop

VARIABLE part

\* A run of research tasks, and one of code tasks with fewer rounds.
MCConfigs == {[rounds |-> 2, gates |-> "research"], [rounds |-> 1, gates |-> "code"]}

\* "a" and "b" are close to each other; the report of "c" is too large to keep.
MCSim == [p \in {"a", "b", "c", "stub", "filler", "objective"}
                     \X {"a", "b", "c", "stub", "filler", "objective"} |->
                 IF p[1] = p[2] THEN 10 ELSE IF {p[1], p[2]} = {"a", "b"} THEN 8 ELSE 2]

MCInit ==
    /\ part \in {"loop", "rounds"}
    /\ Init /\ Inside!Init
    /\ part # "loop" => \A p \in Procs : conf[p].gates = "code"
    /\ part # "rounds" => setting = [model |-> TRUE, kind |-> "code", escalate |-> FALSE,
                                     generated |-> FALSE]

LoopOnly == part = "loop" /\ UNCHANGED <<part, roundVars>>
RoundsOnly == part = "rounds" /\ UNCHANGED <<part, vars>>

MCNext ==
    \/ LoopOnly /\ Next
    \/ RoundsOnly /\ Inside!Next

allVars == <<part, vars, roundVars>>
MCSpec == MCInit /\ [][MCNext]_allVars /\ \A p \in Procs : WF_allVars(LoopOnly /\ Step(p))
============================================================================
