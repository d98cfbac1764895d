------------------------------- MODULE Intent -------------------------------
(***************************************************************************)
(* The dispatch of an intent (engine/intent/pipeline.py): the TF-IDF router, *)
(* the native lane A for what it is uncertain about, and lane B+ (laneb.py), *)
(* which lets a model write a function and runs it in a sandbox.  The        *)
(* function never waits for what it asks of the host: it is stopped at the   *)
(* first call without an answer, and run again, from its start, with the     *)
(* answers so far.                                                           *)
(***************************************************************************)
EXTENDS Integers, Sequences, SequencesExt

CONSTANTS
    Questions,       \* what a function may ask the judge
    Tools,           \* tools with a host-side dispatch that fits the call
    Misfits,         \* registry tools: their callables want the request too
    Unknown,         \* names without a dispatch
    MaxQueries,      \* max_llm_queries
    MaxDepth,        \* max_depth
    MaxRetries,      \* max_code_gen_retries
    MaxAsked         \* bound: calls a function makes in a run

VARIABLES
    at,        \* where dispatch, or the executor, is
    result,    \* [lane, verdict]
    complex,   \* _is_complex_intent
    docker,    \* the sandbox has its docker backend
    attempt,   \* code generations
    steady,    \* the function is deterministic, as the comment at line 206 has it
    asked,     \* the calls of the last run, in the order of the function
    sure,      \* how many of them a deterministic function makes again
    answers,   \* the answers to inject, each with the call it was given for
    pending,   \* calls the last run stopped at, not fulfilled yet
    queries,   \* query_count
    swallowed, \* history: the function has caught what stops it
    loose,     \* history: positions of the calls it made in that run after that
    late       \* the deadline has passed

function == <<steady, asked, sure, swallowed, loose>>
lane == <<docker, attempt, answers, pending, queries, late, function>>
vars == <<at, result, complex, lane>>

Calls == Questions \union Tools \union Misfits \union Unknown
None == [lane |-> "none", verdict |-> "none"]
Depth == Len(SelectSeq(asked, LAMBDA c : c \in Questions))

Init ==
    /\ at = "route" /\ result = None /\ complex \in BOOLEAN /\ docker \in BOOLEAN
    /\ steady \in BOOLEAN /\ asked = <<>> /\ sure = 0 /\ swallowed = FALSE /\ loose = {}
    /\ attempt = 0 /\ answers = <<>> /\ pending = <<>> /\ queries = 0 /\ late = FALSE

Decide(l, v) == result' = [lane |-> l, verdict |-> v]

----------------------------------------------------------------------------
(* IntentPipeline.dispatch. *)

\* The router: a hit, nothing at all, or the uncertain band.
Route ==
    /\ at = "route"
    /\ \/ Decide("router", "dispatch") /\ at' = "emit"
       \/ Decide("none", "reject") /\ at' = "emit"
       \/ UNCHANGED result /\ at' = "native"
    /\ UNCHANGED <<complex, lane>>

\* Lane A; what it has resolved is marked as escalated, and so never counts as
\* dispatched when lane B+ is considered.
Native ==
    /\ at = "native"
    /\ (Decide("native", "escalate") \/ Decide("native", "reject"))
    /\ at' = IF complex THEN "laneb" ELSE "emit"
    /\ UNCHANGED <<complex, lane>>

\* The executor is done; its result counts if it is ok.
Finish(ok) ==
    /\ at' = "emit"
    /\ IF ok THEN Decide("bplus", "dispatch") ELSE UNCHANGED result

\* An exception that is no LaneBError leaves execute and dispatch.
Raise == at' = "raised" /\ UNCHANGED result

Emit ==
    /\ at = "emit" /\ at' = "done"
    /\ UNCHANGED <<result, complex, lane>>

----------------------------------------------------------------------------
(* LaneBExecutor.execute. *)

Refuse ==
    /\ at = "laneb" /\ ~docker /\ Finish(FALSE)
    /\ UNCHANGED <<complex, lane>>

Start ==
    /\ at = "laneb" /\ docker /\ at' = "codegen"
    /\ UNCHANGED <<result, complex, lane>>

\* A response without exactly one run() is asked for again.  A transport that
\* fails raises something else than the LaneBError that would be retried.
Generate ==
    /\ at = "codegen" /\ attempt' = attempt + 1
    /\ \/ at' = "run" /\ UNCHANGED result
       \/ attempt' <= MaxRetries /\ UNCHANGED <<at, result>>
       \/ attempt' > MaxRetries /\ Finish(FALSE)
       \/ Raise
    /\ UNCHANGED <<complex, docker, answers, pending, queries, late, function>>

\* The clock is read before and after each run, and not between the calls that
\* a run has left to fulfil.
Expire ==
    /\ at \in {"codegen", "run", "fulfil"} /\ ~late /\ late' = TRUE
    /\ UNCHANGED <<at, result, complex, docker, attempt, answers, pending, queries, function>>
TooLate ==
    /\ at = "run" /\ late /\ Finish(FALSE)
    /\ UNCHANGED <<complex, lane>>
SandboxFails ==
    /\ at = "run" /\ ~late /\ Finish(FALSE)
    /\ UNCHANGED <<complex, lane>>

\* A run makes calls from the start again.  The first ones return the answers, by
\* position; each call beyond those stops the function, unless it catches that (it
\* is an Exception) and goes on without an answer.  The code has no more to go by
\* than the answers, so a deterministic one makes the same calls up to the first
\* that was stopped; whatever else it did hung on the stop it caught.
Paths == UNION {[1 .. n -> Calls] : n \in 0 .. MaxAsked}
Takes(p) ==
    /\ steady => Len(p) >= sure /\ \A i \in 1 .. sure : p[i] = asked[i]
    /\ asked' = p
RunToEnd ==
    /\ at = "run" /\ ~late
    /\ \E p \in Paths :
          /\ Takes(p)
          /\ swallowed' = (swallowed \/ Len(p) > Len(answers))
    /\ Finish(TRUE)
    /\ UNCHANGED <<complex, docker, attempt, answers, pending, queries, late, steady, sure, loose>>
RunToCall ==
    /\ at = "run" /\ ~late
    /\ \E p \in Paths :
          /\ Takes(p) /\ Len(p) > Len(answers)
          /\ pending' = SubSeq(p, Len(answers) + 1, Len(p))
          /\ sure' = Len(answers) + 1
          /\ swallowed' = (swallowed \/ Len(p) > sure')
          /\ loose' = loose \union (sure' + 1 .. Len(p))
    /\ at' = "fulfil"
    /\ UNCHANGED <<result, complex, docker, attempt, answers, queries, late, steady>>

\* As AnswerTo, if results were kept of the judge only.
QueriesOnly(c) == IF c \in Questions THEN Append(answers, c) ELSE answers
AnswerTo(c) == Append(answers, c)

Exceeded(n) == n > MaxDepth \/ queries >= MaxQueries

Fulfil(c) ==
    /\ answers' = AnswerTo(c)
    /\ queries' = IF c \in Questions THEN queries + 1 ELSE queries
    /\ pending' = Tail(pending) /\ at' = IF Len(pending) = 1 THEN "run" ELSE "fulfil"
    /\ UNCHANGED result
Query ==
    /\ at = "fulfil" /\ Head(pending) \in Questions
    /\ IF Exceeded(Depth)
       THEN Finish(FALSE) /\ UNCHANGED <<answers, queries, pending>>
       ELSE Fulfil(Head(pending)) \/ (Raise /\ UNCHANGED <<answers, queries, pending>>)
    /\ UNCHANGED <<complex, docker, attempt, late, function>>
CallTool ==
    /\ at = "fulfil"
    /\ \/ Head(pending) \in Tools /\ Fulfil(Head(pending))
       \/ Head(pending) \in Tools \union Misfits /\ Raise /\ UNCHANGED <<answers, queries, pending>>
       \/ Head(pending) \in Unknown /\ Finish(FALSE) /\ UNCHANGED <<answers, queries, pending>>
    /\ UNCHANGED <<complex, docker, attempt, late, function>>

Next ==
    \/ Route \/ Native \/ Emit \/ Refuse \/ Start \/ Generate \/ Expire \/ TooLate
    \/ SandboxFails \/ RunToEnd \/ RunToCall \/ Query \/ CallTool
Spec == Init /\ [][Next]_vars

----------------------------------------------------------------------------
(* Properties. *)

\* What a deterministic function is given for its n-th call is the answer to that
\* call, however often it is run, as the comment at laneb.py:206 promises, and what
\* it returns is dispatched with all its calls answered.  A function that catches
\* what stops it is the exception, and no further than this: the calls it made
\* after that, which it need not make again, leave their answers to whatever it
\* calls at their positions.
AnswersMatchCalls ==
    steady =>
      /\ \A i \in DOMAIN answers \ loose : i <= Len(asked) /\ answers[i] = asked[i]
      /\ result.lane = "bplus" /\ ~swallowed => Len(answers) = Len(asked)

=============================================================================
