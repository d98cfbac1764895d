------------------------------- MODULE Stages -------------------------------
(***************************************************************************)
(* What the stages of a task compute                                       *)
(* (src/engine/generator.py, validator.py, tester.py, llm_judge.py,        *)
(* research/scoring.py, judge.py); EnginePipeline takes their answers      *)
(* nondeterministically.                                                   *)
(*                                                                         *)
(* One task goes once through generation, validation, tests, its commit,   *)
(* the judge model and, at the end of its run, the deterministic judge; a  *)
(* research task only has its verdict scored.  Of a file counts whether it *)
(* is empty, parses, is an untouched stub, what it imports and what        *)
(* happens when it is executed.                                            *)
(***************************************************************************)
EXTENDS Integers, Sequences, FiniteSetsExt, SequencesExt

CONSTANTS
    Imports,        \* the sequences of imports a file may have
    MaxBlocks,      \* code blocks in a reply
    Marks           \* the integers a judge may give for a dimension

None == "none"
Module == "module"          \* task.module
Second == "module_2"        \* the name of its second unnamed block
Other == "other"            \* a file a block names itself
Names == {Module, Second, Other}

Code(imports, runs) == [text |-> "code", imports |-> imports, runs |-> runs]
Odd(text) == [text |-> text, imports |-> <<>>, runs |-> "ends"]
Contents ==
    {Odd("empty"), Odd("unparsable"), Odd("stub")}
    \cup {Code(i, "ends") : i \in Imports}
    \cup {Code(<<>>, r) : r \in {"raises", "exits", "hangs"}}

VARIABLES
    pc,         \* generate, validate, test, commit, score, rescore, end, judged
    task,       \* kind, has a module, and the files it declares
    files,      \* GeneratedCode.files: a sequence of names with contents
    valid,      \* none, exhausted, passed, failed, raised
    tests,      \* TestResult of the task
    ended,      \* TaskResult.state, once the task has one
    budget,     \* tokens the judge may use, in multiples of _MAX_TOKENS_JUDGE
    replies,    \* history: what the judge answered, call by call
    score,      \* the judge's overall, error and scored_state
    run         \* what judge_run is given, and its verdict

vars == <<pc, task, files, valid, tests, ended, budget, replies, score, run>>

-----------------------------------------------------------------------------
(* generate_code *)

Blocks == UNION {[1 .. n -> [name : {None, Module, Other}, content : Contents]] : n \in 1 .. MaxBlocks}

\* A response without code blocks: its text, whether there was reasoning, and
\* the finish_reason, which some servers leave out.
Answer == [text : {"prose", "blank", "nothing"}, reasoning : BOOLEAN, finish : {"length", "stop", None}]

\* _is_reasoning_exhaustion
Exhausted(a) == a.text # "prose" /\ a.reasoning /\ a.finish \in {"length", None}

\* The name a block's file gets: its own, or one made from the module.
FileName(b, i) ==
    CASE b.name # None -> b.name
      [] b.name = None /\ i = 1 -> Module
      [] OTHER -> Second

\* files[fname] = block: a later block of the same name replaces the earlier.
Put(seq, name, content) ==
    IF \E i \in DOMAIN seq : seq[i].name = name
    THEN [i \in DOMAIN seq |-> IF seq[i].name = name THEN [name |-> name, content |-> content] ELSE seq[i]]
    ELSE Append(seq, [name |-> name, content |-> content])

FilesOf(blocks) ==
    LET after[n \in 0 .. Len(blocks)] ==
          IF n = 0 THEN <<>> ELSE Put(after[n - 1], FileName(blocks[n], n), blocks[n].content)
    IN after[Len(blocks)]

\* Without blocks the whole response becomes the module, blank or not.
Whole(a) ==
    IF a.text = "nothing" THEN <<>>
    ELSE <<[name |-> Module, content |-> Odd(IF a.text = "blank" THEN "empty" ELSE "unparsable")]>>

\* Without a module there are no files.  An exhausted answer, the escalated
\* one's as well, ends the task; it is scored if there are files.
Generate ==
    /\ pc = "generate"
    /\ \/ /\ \E b \in Blocks : files' = IF task.module THEN FilesOf(b) ELSE <<>>
          /\ pc' = "validate" /\ UNCHANGED <<valid, ended, score>>
       \/ \E a \in Answer :
             /\ files' = IF task.module THEN Whole(a) ELSE <<>>
             /\ IF Exhausted(a)
                THEN /\ valid' = "exhausted" /\ ended' = "FAILED"
                     /\ pc' = "score" /\ score' = [score EXCEPT !.of = "validation_failed"]
                ELSE pc' = "validate" /\ UNCHANGED <<valid, ended, score>>
    /\ UNCHANGED <<task, tests, budget, replies, run>>

-----------------------------------------------------------------------------
(* validate *)

\* check_imports returns at the first import that is neither known nor
\* allowlisted: with FALSE, or, for a file of the task DAG, with TRUE.
CheckImports(imports) ==
    LET strange == SelectSeq(imports, LAMBDA i : i # "known")
    IN strange = <<>> \/ strange[1] = "sibling"

\* check_execution under _with_timeout: an exception and a timeout fail the
\* stage; SystemExit ends the thread without a result, and unpacking None raises.
Execution(c) ==
    CASE c.runs = "ends" -> "passes"
      [] c.runs \in {"raises", "hangs"} -> "fails"
      [] c.runs = "exits" -> "raises"

\* The stages of one file: the first four end the validation when they fail.
FileVerdict(c) ==
    IF c.text \in {"empty", "unparsable"} \/ ~CheckImports(c.imports) THEN "stops" ELSE Execution(c)

\* check_targeting: every declared file is generated and is no untouched stub.
Targeting(fs) ==
    LET declared == IF task.declared # {} THEN task.declared
                    ELSE IF task.module THEN {Module} ELSE {}
    IN \A d \in declared : \E i \in DOMAIN fs : fs[i].name = d /\ fs[i].content.text # "stub"

\* (variant) The last file decides.
ValidateLast(fs) ==
    IF fs = <<>> THEN IF Targeting(fs) THEN "passed" ELSE "failed"
    ELSE CASE FileVerdict(Last(fs).content) = "raises" -> "raised"
           [] FileVerdict(Last(fs).content) = "passes" /\ Targeting(fs) -> "passed"
           [] OTHER -> "failed"

\* validate: file by file up to one that ends it, then the targeting rail.
Validate(fs) ==
    LET verdict(i) == FileVerdict(fs[i].content)
        ending == {i \in DOMAIN fs : verdict(i) \in {"stops", "raises"}}
    IN IF ending # {} THEN IF verdict(Min(ending)) = "raises" THEN "raised" ELSE "failed"
       ELSE IF (\A i \in DOMAIN fs : verdict(i) = "passes") /\ Targeting(fs)
            THEN "passed" ELSE "failed"

\* A validation that raises ends the run.
ValidateFiles ==
    /\ pc = "validate"
    /\ valid' = Validate(files)
    /\ pc' = CASE valid' = "passed" -> "test" [] valid' = "failed" -> "score" [] OTHER -> "end"
    /\ score' = IF valid' = "failed" THEN [score EXCEPT !.of = "validation_failed"] ELSE score
    /\ ended' = IF valid' = "failed" THEN "FAILED" ELSE ended
    /\ UNCHANGED <<task, files, tests, budget, replies, run>>

-----------------------------------------------------------------------------
(* run_tests *)

NoTests == [passed |-> FALSE, ok |-> 0, bad |-> 0]

\* The exit code, and the numbers of passed, failed and erroneous tests of the output.
TestResult(rc, ok, bad) ==
    IF rc = 5 THEN NoTests ELSE [passed |-> rc = 0 /\ bad = 0, ok |-> ok, bad |-> bad]

\* pytest answers 0 when all passed, 5 when there were none, others otherwise.
RunTests ==
    /\ pc = "test"
    /\ \E rc \in {0, 1, 2, 5}, ok, bad \in 0 .. 2 :
          /\ rc = 0 => ok > 0 /\ bad = 0
          /\ rc = 5 => ok = 0 /\ bad = 0
          /\ rc = 1 => bad > 0
          /\ tests' = TestResult(rc, ok, bad)
    /\ pc' = "commit"
    /\ UNCHANGED <<task, files, valid, ended, budget, replies, score, run>>

\* _run_task's end, whatever the tests said.
Commit ==
    /\ pc = "commit"
    /\ \E success \in BOOLEAN :
          /\ ended' = IF success THEN "COMMIT" ELSE "FAILED"
          /\ score' = [score EXCEPT !.of = IF success THEN "committed" ELSE "test_failed"]
    /\ pc' = "score"
    /\ UNCHANGED <<task, files, valid, tests, budget, replies, run>>

-----------------------------------------------------------------------------
(* score_task and EvidenceScorer.score *)

Ceiling == 8                \* _JUDGE_REASONING_CEILING, in the same multiples

\* What a call gives: two of the judge's dimensions, of which one may be missing;
\* an empty answer; or an exception.
Missing == 99
Reply ==
    [kind : {"marks"}, a : Marks, b : Marks] \cup [kind : {"marks"}, a : Marks, b : {Missing}]
    \cup [kind : {"empty"}, reasoning : BOOLEAN, finish : {"length", None}]
    \cup [kind : {"raised"}]

Parses(r) == r.kind = "marks" /\ r.b # Missing
Clamp(v) == Max({0, Min({10, v})})

\* _parse_scores, and the overall its dimensions add up to.
ParseScores(r) == Clamp(r.a) + Clamp(r.b)

\* _judge_reasoning_exhausted: here a missing finish_reason is no exhaustion.
JudgeExhausted(r) == r.kind = "empty" /\ r.reasoning /\ r.finish = "length"

\* _zero_scores
Unanswered == [overall |-> 0, error |-> TRUE]

\* One of the two calls: its scores; or once more, with twice the tokens when it
\* spent them all on reasoning; or the zeros and the error.
Call(r) ==
    /\ replies' = Append(replies, r)
    /\ IF Parses(r)
       THEN /\ score' = [score EXCEPT !.overall = ParseScores(r), !.error = FALSE]
            /\ pc' = "end" /\ UNCHANGED budget
       ELSE /\ budget' = IF JudgeExhausted(r) /\ pc = "score" THEN Min({budget * 2, Ceiling}) ELSE budget
            /\ pc' = IF pc = "score" THEN "rescore" ELSE "end"
            /\ score' = IF pc = "score" THEN score
                        ELSE [score EXCEPT !.overall = Unanswered.overall, !.error = Unanswered.error]

\* score_task: code that failed its validation is scored only if there is some.
ScoreTask ==
    /\ pc \in {"score", "rescore"} /\ task.kind = "code"
    /\ score.of = "validation_failed" => files # <<>>
    /\ \E r \in Reply : Call(r)
    /\ UNCHANGED <<task, files, valid, tests, ended, run>>

\* judge_mode is deterministic, or there is no code.
Unscored ==
    /\ pc = "score" /\ task.kind = "code"
    /\ pc' = "end"
    /\ UNCHANGED <<task, files, valid, tests, ended, budget, replies, score, run>>

\* EvidenceScorer.score
ScoreVerdict ==
    /\ pc \in {"score", "rescore"} /\ task.kind = "research"
    /\ \E r \in Reply : Call(r)
    /\ UNCHANGED <<task, files, valid, tests, ended, run>>

-----------------------------------------------------------------------------
(* judge_run *)

\* judge.py's terminal states are written in lower case and compared so.
Terminal(state) == state \in {"DONE", "FAILED", "CANCELLED"}

NoRun == [state |-> None, tokens |-> FALSE, error |-> FALSE, passed |-> {}, pass |-> FALSE]

\* The weighted dimensions that hold of the run.
Dimensions(state, tokens, error) ==
    {d \in {"success", "tasks", "commit", "tokens", "error_free"} :
        CASE d = "success" -> state = "COMMIT"
          [] d = "tasks" -> Terminal(state)
          [] d = "commit" -> state = "COMMIT"
          [] d = "tokens" -> tokens
          [] d = "error_free" -> ~error}

Weight(d) ==
    CASE d = "success" -> 30
      [] d \in {"tasks", "commit"} -> 20
      [] d \in {"tokens", "error_free"} -> 15

\* judge_run, PASS_THRESHOLD in hundredths
OverallPass(dims) == MapThenSumSet(Weight, dims) >= 80

\* The run of this one task; a task without a result was stopped.
JudgeRun ==
    /\ pc = "end"
    /\ \E state \in {IF ended # None THEN ended ELSE "CANCELLED"}, tokens, error \in BOOLEAN :
          /\ state = "COMMIT" => ~error
          /\ run' = [state |-> state, tokens |-> tokens, error |-> error,
                     passed |-> Dimensions(state, tokens, error),
                     pass |-> OverallPass(Dimensions(state, tokens, error))]
    /\ pc' = "judged"
    /\ UNCHANGED <<task, files, valid, tests, ended, budget, replies, score>>

Init ==
    /\ task \in [kind : {"code"}, module : BOOLEAN, declared : SUBSET {Module, Other}]
                \cup [kind : {"research"}, module : {FALSE}, declared : {{}}]
    /\ pc = IF task.kind = "code" THEN "generate" ELSE "score"
    /\ files = <<>> /\ valid = None /\ tests = NoTests /\ ended = None
    /\ budget = 1 /\ replies = <<>> /\ run = NoRun
    /\ score = [overall |-> 0, error |-> TRUE, of |-> None]

Next == Generate \/ ValidateFiles \/ RunTests \/ Commit \/ ScoreTask \/ Unscored \/ ScoreVerdict \/ JudgeRun

Spec == Init /\ [][Next]_vars

-----------------------------------------------------------------------------
\* What validation let through was executed to its end, file by file, parses, and
\* leaves no declared file missing or an untouched stub, whatever the order of
\* the files and the blocks that replaced one another.
ValidatedCodeRuns ==
    valid = "passed" =>
        /\ \A i \in DOMAIN files :
              files[i].content.runs = "ends" /\ files[i].content.text \in {"code", "stub"}
        /\ \A d \in task.declared :
              \E i \in DOMAIN files : files[i].name = d /\ files[i].content.text # "stub"

=============================================================================
