----------------------------- MODULE RalphRound -----------------------------
(***************************************************************************)
(* One round of the Ralph loop from the inside                             *)
(* (src/engine/workflows/ralph/ideation.py, gates.py, report_types.py):    *)
(* candidate plans are generated and scored, one is selected, the gates    *)
(* judge the round and its report is kept in memory and in the database,   *)
(* from which a resumed loop reads it back.  RalphLoop models the loop     *)
(* around it.                                                              *)
(*                                                                         *)
(* A plan is a text of Texts; what counts of two texts is their            *)
(* similarity, in tenths.  Scores are on the judges' 0 .. 10 scale.        *)
(***************************************************************************)
EXTENDS Integers, FiniteSetsExt, SequencesExt, Lists

CONSTANTS
    Texts,          \* the plans the ideation model may propose
    Big,            \* those whose report is over MAX_SERIALIZED
    Stub, Filler,   \* the plans made up without a model, and after its failure
    Objective,      \* the plan of a round whose ideation raised
    Sim,            \* plan_similarity, in tenths, of two plans
    Marks,          \* the scores a model may give
    Configured,     \* RalphConfig.ideation_candidates
    Threshold,      \* g12_similarity_threshold, in tenths
    Needed,         \* g12_consecutive_rounds
    MaxRounds       \* bound on the rounds of a run

MaxN == 8
Default == 5            \* the score of a candidate nobody scored
Lost == "lost"          \* the plan of a report that had to be shrunk
Raised == 0 - 1         \* the score of a mechanism that raised

Plans == Texts \cup {Stub, Filler, Objective}

VARIABLES
    conf,       \* has a model, kind of the gate sequence, oracle escalation,
                \* and whether the gates are handed generated code
    pc,         \* ideate, score, rescore, select, gates, judged, report
    prior,      \* the reports the loop holds
    stored,     \* the reports of the database
    texts,      \* the candidates of this round
    scored,     \* and their scores
    round,      \* what was selected: plan, collapse
    facts,      \* what the gates' mechanisms answered
    verdict,    \* the GateVerdict
    chosen      \* history: the plan of every round

vars == <<conf, pc, prior, stored, texts, scored, round, facts, verdict, chosen>>

-----------------------------------------------------------------------------
(* Ideation. *)

Candidates == Max({1, Min({Configured, MaxN})})

\* _generate_texts and _call_ideation_model: without a transport the stubs;
\* with one, the array or the lines of the answer, cut to n, possibly none;
\* fillers when there is no line or the call fails.
GeneratedTexts ==
    IF conf.model
    THEN {[i \in 1 .. Candidates |-> Filler]}
             \cup UNION {[1 .. k -> Texts] : k \in 0 .. Candidates}
    ELSE {[i \in 1 .. Candidates |-> Stub]}

\* _collect_prior_plans, _extract_selected_plan: a report without a plan is skipped.
PlansOf(reports) == Among([i \in DOMAIN reports |-> reports[i].plan], Plans)

\* The mechanical novelty, in _score_candidates.
Novelty(t, priors) ==
    IF priors = <<>> THEN Default ELSE 10 - Max({Sim[<<t, u>>] : u \in ToSet(priors)})

Ideate ==
    /\ pc = "ideate" /\ Len(chosen) < MaxRounds
    /\ texts' \in GeneratedTexts
    /\ pc' = IF conf.model /\ texts' # <<>> THEN "score" ELSE "select"
    /\ scored' = [i \in DOMAIN texts' |->
                    [feasibility |-> Default, alignment |-> Default,
                     novelty |-> Novelty(texts'[i], PlansOf(prior))]]
    /\ UNCHANGED <<conf, prior, stored, round, facts, verdict, chosen>>

\* The answer is a list, its missing items at the default.
TakeScores ==
    /\ \E f, a \in [DOMAIN texts -> Marks] :
          scored' = [i \in DOMAIN texts |->
                       [scored[i] EXCEPT !.feasibility = f[i], !.alignment = a[i]]]
    /\ pc' = "select"

\* No list: once more, then the defaults.
Unscored == pc' = (IF pc = "score" THEN "rescore" ELSE "select") /\ UNCHANGED scored

\* _call_scoring_model, _score_candidates.
Score ==
    /\ pc \in {"score", "rescore"}
    /\ TakeScores \/ Unscored
    /\ UNCHANGED <<conf, prior, stored, texts, round, facts, verdict, chosen>>

\* The transport raises, or an item is no object or no number: nothing below
\* _execute_round catches it, and the plan is the objective.
ScoringRaises ==
    /\ pc \in {"score", "rescore"}
    /\ round' = [plan |-> Objective, collapse |-> FALSE, idx |-> 0]
    /\ texts' = <<>> /\ scored' = <<>>
    /\ pc' = "gates"
    /\ UNCHANGED <<conf, prior, stored, facts, verdict, chosen>>

\* ScoredPlan.total
TotalOf(s) == s.feasibility * 100 + s.alignment * 10 + s.novelty

\* _select: the first of the highest totals.
Selected ==
    CHOOSE i \in DOMAIN scored :
        /\ \A j \in DOMAIN scored : TotalOf(scored[j]) <= TotalOf(scored[i])
        /\ \A j \in 1 .. i - 1 : TotalOf(scored[j]) < TotalOf(scored[i])

\* The plans of the last three rounds, oldest first.
Recent(reports) == PlansOf(SubSeq(reports, Max({1, Len(reports) - 2}), Len(reports)))

\* (variant) Closer than the threshold.
CollapsedAbove(t) ==
    /\ prior # <<>>
    /\ Len(Recent(prior)) >= Needed
    /\ \A k \in 0 .. Needed - 1 : Sim[<<t, Recent(prior)[Len(Recent(prior)) - k]>>] > Threshold

\* _detect_collapse: the newest Needed of them are all close to the selected one.
Collapsed(t) ==
    /\ prior # <<>>
    /\ Len(Recent(prior)) >= Needed
    /\ \A k \in 0 .. Needed - 1 : Sim[<<t, Recent(prior)[Len(Recent(prior)) - k]>>] >= Threshold

\* generate_candidate_plans' end and _execute_round's choice of the plan.
Select ==
    /\ pc = "select"
    /\ round' = IF scored = <<>> THEN [plan |-> Objective, collapse |-> FALSE, idx |-> 0]
                ELSE [plan |-> texts[Selected], collapse |-> Collapsed(texts[Selected]),
                      idx |-> Selected]
    /\ pc' = "gates"
    /\ UNCHANGED <<conf, prior, stored, texts, scored, facts, verdict, chosen>>

-----------------------------------------------------------------------------
(* Gates. *)

Pass == 5           \* REVIEW_PASS_THRESHOLD, REDTEAM_PASS_THRESHOLD
EvidencePass == 6   \* EVIDENCE_PASS_THRESHOLD

\* What the mechanisms behind the gates of a sequence answer when they are asked;
\* a validator, a test run or a floor that crashes or cannot be imported does not pass.
Answers == {"passes", "does not"}
CodeFacts == [validator : Answers, tests : Answers, oracle : Answers,
              review : {Raised, Pass - 1, Pass}, redteam : {Raised, Pass - 1, Pass}]
ResearchFacts == [floor : Answers, review : {Raised, Pass - 1, Pass},
                  entailed : {Raised, EvidencePass - 1, EvidencePass}]

\* A Python call with keywords the callee does not know, or without one it
\* requires, raises TypeError.
Fits(given, required, optional) == required \subseteq given /\ given \subseteq required \cup optional

\* dev_gate: the validator's answer, FALSE when it cannot be imported or crashes,
\* as it does on the objective, which is no generated code.
DevGate(f) == conf.generated /\ f.validator = "passes"

\* _judge_gate (review_gate, redteam_gate): the judge's score.
JudgeGate(score) == score >= Pass

TestGate(f) == f.tests = "passes"

\* _oracle_redteam calls escalate_task_to_oracle with keywords of score_task.
OracleGate(f) ==
    /\ Fits({"run_id", "task_id", "task_title", "code_text", "transport"},
            {"task", "pipeline", "cfg", "transport", "original_task_ids"}, {})
    /\ f.oracle = "passes"

\* redteam_gate: the oracle overrides a judge who failed the code.
RedteamGate(f) == JudgeGate(f.redteam) \/ (conf.escalate /\ OracleGate(f))

\* EvidenceScorer.score knows neither task_id nor verdict_text nor evidence_result.
EntailmentScore(f) ==
    IF Fits({"run_id", "task_id", "verdict_text", "evidence_result", "transport"},
            {"verdict"}, {"task", "transport", "run_id", "save"})
    THEN f.entailed ELSE Raised

\* evidence_gate: the deterministic floor, then the score.
EvidenceGate(f) == f.floor = "passes" /\ EntailmentScore(f) >= EvidencePass

CodeSequence == <<"dev", "review", "test", "redteam">>
ResearchSequence == <<"evidence", "review">>
GateSequence == IF conf.kind = "research" THEN ResearchSequence ELSE CodeSequence

Passes(g, f) ==
    CASE g = "dev" -> DevGate(f)
      [] g = "review" -> JudgeGate(f.review)
      [] g = "test" -> TestGate(f)
      [] g = "redteam" -> RedteamGate(f)
      [] g = "evidence" -> EvidenceGate(f)

\* The gates of the sequence that fail: the first one ends it.
Failing(f) == {i \in DOMAIN GateSequence : ~Passes(GateSequence[i], f)}

\* _evaluate_code_sequence, _evaluate_research_sequence
VerdictOf(f) ==
    IF Failing(f) = {} THEN [pass |-> TRUE, asked |-> GateSequence, retry |-> FALSE]
    ELSE LET i == Min(Failing(f))
         IN [pass |-> FALSE, asked |-> SubSeq(GateSequence, 1, i),
             retry |-> GateSequence[i] # "redteam"]

Gates ==
    /\ pc = "gates"
    /\ facts' \in IF conf.kind = "research" THEN ResearchFacts ELSE CodeFacts
    /\ verdict' = VerdictOf(facts')
    /\ pc' = "report" /\ texts' = <<>> /\ scored' = <<>>
    /\ UNCHANGED <<conf, prior, stored, round, chosen>>

-----------------------------------------------------------------------------
(* The report. *)

NoRound == [plan |-> Objective, collapse |-> FALSE, idx |-> 0]
NoFacts == [validator |-> "unasked"]
NoVerdict == [pass |-> FALSE, asked |-> <<>>, retry |-> FALSE]

\* RoundReport.to_json: a report that is too large loses its plan first, which is
\* enough for the driver's reports, without tasks and patterns.
ToJson(r) == IF r.plan \in Big THEN [r EXCEPT !.plan = Lost] ELSE r

\* The report is built, stored and kept; the next round begins.
Report ==
    /\ pc = "report"
    /\ LET r == [plan |-> round.plan]
       IN prior' = Append(prior, r) /\ stored' = Append(stored, ToJson(r))
    /\ chosen' = Append(chosen, round.plan)
    /\ pc' = "ideate" /\ round' = NoRound /\ facts' = NoFacts /\ verdict' = NoVerdict
    /\ UNCHANGED <<conf, texts, scored>>

\* Another process resumes the loop: RoundReport.from_json of what was stored.
Resume ==
    /\ pc = "ideate"
    /\ prior' = stored
    /\ UNCHANGED <<conf, pc, stored, texts, scored, round, facts, verdict, chosen>>

Init ==
    /\ conf \in [model : BOOLEAN, kind : {"code", "research"}, escalate : BOOLEAN,
                 generated : BOOLEAN]
    /\ conf.kind = "research" => ~conf.escalate /\ ~conf.generated
    /\ pc = "ideate" /\ prior = <<>> /\ stored = <<>> /\ texts = <<>> /\ scored = <<>>
    /\ round = NoRound /\ facts = NoFacts /\ verdict = NoVerdict /\ chosen = <<>>

Next == Ideate \/ Score \/ ScoringRaises \/ Select \/ Gates \/ Report \/ Resume

Spec == Init /\ [][Next]_vars

-----------------------------------------------------------------------------

\* G12: when the plan just selected is close to the plans of the last Needed
\* rounds, the collapse is noticed, also by a loop that was resumed in between
\* and knows those rounds from their stored reports only.
RepetitionIsNoticed ==
    LET last == {Len(chosen) - k : k \in 0 .. Needed - 1}
    IN /\ pc = "gates" /\ round.idx # 0 /\ Len(chosen) >= Needed
       /\ \A i \in last : chosen[i] \notin Big /\ Sim[<<round.plan, chosen[i]>>] >= Threshold
       => round.collapse

=============================================================================
