------------------------------ MODULE Patterns ------------------------------
(***************************************************************************)
(* The pattern registry of the Ralph loop                                  *)
(* (src/engine/workflows/ralph/pattern_gate.py, pattern_query.py and the   *)
(* approve-pattern and reject-pattern commands): rows of ralph_patterns,   *)
(* each statement over a connection of its own, so that what one call      *)
(* counts another may have changed before it inserts.                      *)
(*                                                                         *)
(* Several processes propose patterns while an owner approves and rejects, *)
(* patterns expire, prompts are built and skill-docs exported.             *)
(***************************************************************************)
EXTENDS Integers, FiniteSetsExt, SequencesExt

CONSTANTS
    Ids,            \* the uuids a run can draw
    Writers,        \* processes that propose and persist
    Runs,           \* the Ralph runs they work for
    Namespaces,     \* project_namespace
    Scores,         \* the score of a pattern
    Limit,          \* rows a query returns
    Cap             \* max_patterns_per_run; 0: no cap

NoRun == "none"     \* source_ralph_run_id is NULL
Nobody == "nobody"  \* approved_by is NULL

VARIABLES
    rows,       \* ralph_patterns: id -> row
    pc,         \* each writer: idle, count, insert
    proposal,   \* its PatternProposal
    docs,       \* the skill-docs on disk: pattern ids
    served,     \* history: ids a query gave to a prompt or an export
    rejected    \* history: ids the owner rejected

vars == <<rows, pc, proposal, docs, served, rejected>>

Statuses == {"proposed", "approved", "rejected", "expired"}     \* VALID_STATUSES
Row == [ns : Namespaces, run : Runs \cup {NoRun}, score : Scores, status : Statuses,
        by : {Nobody, "auto", "owner"}]
Used == DOMAIN rows \cup {proposal[w].id : w \in {v \in Writers : pc[v] # "idle"}}

-----------------------------------------------------------------------------
NoProposal == [id |-> "none", ns |-> "none", run |-> NoRun, score |-> 0]

\* propose_pattern_update: a RoundReport has no ralph_run_id, so a proposal made
\* from one names no run; one that is built directly (the tests) may.
Propose(w) ==
    /\ pc[w] = "idle"
    /\ \E id \in Ids \ Used, ns \in Namespaces, run \in Runs \cup {NoRun}, s \in Scores :
          proposal' = [proposal EXCEPT ![w] = [id |-> id, ns |-> ns, run |-> run, score |-> s]]
    /\ pc' = [pc EXCEPT ![w] = "count"]
    /\ UNCHANGED <<rows, docs, served, rejected>>

OfRun(run) == {id \in DOMAIN rows : rows[id].run = run}

\* The cap counts a run's rows of any status, and only if the run is known.
AtCap(run) == Cap > 0 /\ run # NoRun /\ Cardinality(OfRun(run)) >= Cap

\* persist_pattern's count: PatternCapHit, or on to the insert.
Count(w) ==
    /\ pc[w] = "count"
    /\ IF AtCap(proposal[w].run)
       THEN /\ pc' = [pc EXCEPT ![w] = "idle"]
            /\ proposal' = [proposal EXCEPT ![w] = NoProposal]
       ELSE pc' = [pc EXCEPT ![w] = "insert"] /\ UNCHANGED proposal
    /\ UNCHANGED <<rows, docs, served, rejected>>

NewRow(p, status, by) == [ns |-> p.ns, run |-> p.run, score |-> p.score, status |-> status, by |-> by]

\* persist_pattern's INSERT: proposed, or approved by `auto' when no approval is
\* required.
Insert(w) ==
    /\ pc[w] = "insert"
    /\ \E new \in {NewRow(proposal[w], "proposed", Nobody), NewRow(proposal[w], "approved", "auto")} :
          rows' = [id \in DOMAIN rows \cup {proposal[w].id} |->
                     IF id = proposal[w].id THEN new ELSE rows[id]]
    /\ pc' = [pc EXCEPT ![w] = "idle"]
    /\ proposal' = [proposal EXCEPT ![w] = NoProposal]
    /\ UNCHANGED <<docs, served, rejected>>

Move(id, from, to, by) ==
    /\ id \in DOMAIN rows /\ rows[id].status \in from
    /\ rows' = [rows EXCEPT ![id].status = to, ![id].by = by]

\* (variant) Any row of that id.
ApproveAny(id) ==
    /\ Move(id, Statuses, "approved", "owner")
    /\ UNCHANGED <<pc, proposal, docs, served, rejected>>

\* approve_pattern, from the command line.
Approve(id) ==
    /\ Move(id, {"proposed"}, "approved", "owner")
    /\ UNCHANGED <<pc, proposal, docs, served, rejected>>

\* reject_pattern
Reject(id) ==
    /\ Move(id, {"proposed"}, "rejected", "owner")
    /\ rejected' = rejected \cup {id}
    /\ UNCHANGED <<pc, proposal, docs, served>>

\* expire_pattern
Expire(id) ==
    /\ id \in DOMAIN rows /\ Move(id, {"approved"}, "expired", rows[id].by)
    /\ UNCHANGED <<pc, proposal, docs, served, rejected>>

\* query_patterns: the approved rows of a namespace, at most Limit of them, the
\* best scores first; which of equal ones is the order of their creation.
Answers(ns) ==
    LET match == {id \in DOMAIN rows : rows[id].ns = ns /\ rows[id].status = "approved"}
        k == Min({Limit, Cardinality(match)})
    IN {S \in SUBSET match : Cardinality(S) = k /\
            \A i \in S, j \in match \ S : rows[j].score <= rows[i].score}

\* A prompt is built from the answer.
Query(ns) ==
    /\ \E S \in Answers(ns) : served' = served \cup S
    /\ UNCHANGED <<rows, pc, proposal, docs, rejected>>

\* export_approved_patterns: a file for each row of the answer; files of rows that
\* expired since are left where they are.
Export(ns) ==
    /\ \E S \in Answers(ns) : docs' = docs \cup S /\ served' = served \cup S
    /\ UNCHANGED <<rows, pc, proposal, rejected>>

Init ==
    /\ rows = [id \in {} |-> NoProposal]
    /\ pc = [w \in Writers |-> "idle"]
    /\ proposal = [w \in Writers |-> NoProposal]
    /\ docs = {} /\ served = {} /\ rejected = {}

Next ==
    \/ \E w \in Writers : Propose(w) \/ Count(w) \/ Insert(w)
    \/ \E id \in Ids : Approve(id) \/ Reject(id) \/ Expire(id)
    \/ \E ns \in Namespaces : Query(ns) \/ Export(ns)

Spec == Init /\ [][Next]_vars

-----------------------------------------------------------------------------
\* ADR-0002, R2: what a prompt or a skill-doc was given had been approved by the
\* owner or by the kill-switch, and is nothing the owner ever rejected.
RejectedIsNeverServed ==
    /\ served \cap rejected = {}
    /\ \A id \in served : rows[id].by # Nobody /\ rows[id].status \in {"approved", "expired"}

=============================================================================
