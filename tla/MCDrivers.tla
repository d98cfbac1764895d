----------------------------- MODULE MCDrivers -----------------------------
(***************************************************************************)
(* Instances of Orchestrator for TLC: processes with one run id over one   *)
(* engine.db.                                                              *)
(***************************************************************************)
EXTENDS Orchestrator

CONSTANTS p1, p2

Patch(action, target, keys, code, amends, adds) ==
    [action |-> action, target |-> target, keys |-> keys, code |-> code,
     amends |-> amends, adds |-> adds]

\* One answer for each reason to refuse a patch, and two that are applied.
MCAnswers == {
    Patch("re-spec", "own", TRUE, FALSE, "weakens", TRUE),
    Patch("re-spec", "own", TRUE, FALSE, "strengthens", FALSE),
    Patch("re-spec", "own", TRUE, TRUE, "both", FALSE),
    Patch("fail", "other", TRUE, FALSE, "none", FALSE),
    Patch("reorder", "unknown", TRUE, FALSE, "none", FALSE),
    Patch("other", "own", TRUE, FALSE, "none", FALSE),
    Patch("create-stub", "own", FALSE, FALSE, "none", FALSE),
    Patch("swap-targeting", "own", TRUE, FALSE, "both", FALSE)}

Symmetry == Permutations(Procs)
============================================================================
