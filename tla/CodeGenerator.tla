---------------------------- MODULE CodeGenerator -----------------------------
(***************************************************************************)
(* One task of the legacy queue through its five steps: context, code      *)
(* generation, quality gates, tests and commit (legacy/task_queue.py,      *)
(* execute_task), with the generator's own loop of attempts                *)
(* (legacy/code_generator.py) inside the queue's loop of calls.            *)
(*                                                                         *)
(* generate() is called without a project path and writes and tests in its *)
(* default directory; the gates, the tests and the commit of the queue     *)
(* work in the directory the queue was given.                              *)
(***************************************************************************)
EXTENDS Naturals, FiniteSets

CONSTANTS
  Paths,       \* the files the model may write
  Tests,       \* the tests of the project
  MaxRetries   \* MAX_RETRIES of the queue and max_retries of the generator

VARIABLES
  gen,      \* the generator: where it is, its loops, files and last error
  tree,     \* for each directory, the answer each file was written from
  tested,   \* the directory as the generator's last tests saw it, and they
  step      \* the queue's steps: directory, quality, tests, commit, verdict

vars == <<gen, tree, tested, step>>

Dirs == {"default", "project"}
Outcomes == {"passed", "failed", "error", "skipped"}

NewCall(n, answer) ==
  [call |-> n, answer |-> answer, pc |-> "ask", attempt |-> 1, files |-> {}, error |-> "none",
   result |-> "none"]
NoRun == [seen |-> {}, outcome |-> [t \in Tests |-> "skipped"], on |-> [f \in Paths |-> 0]]

Init ==
  /\ gen = NewCall(1, 0)
  /\ tree = [d \in Dirs |-> [f \in Paths |-> 0]]
  /\ tested = NoRun
  /\ \E d \in Dirs : step = [dir |-> d, quality |-> "none", tests |-> "none",
                             committed |-> [f \in Paths |-> 0], verdict |-> "none"]

At(pc) == gen.pc = pc

\* generate() returns: the queue calls any returned result `ok'.
Return(result, files) ==
  gen' = [gen EXCEPT !.pc = "quality", !.result = result, !.files = files]

\* The attempt failed with this error.
TryAgain(error, files) ==
  IF gen.attempt < MaxRetries
  THEN gen' = [gen EXCEPT !.pc = "ask", !.attempt = @ + 1, !.error = error, !.files = files]
  ELSE Return("failed", files)

\* An exception leaves generate(): the queue makes another generator.
Raise ==
  IF gen.call < MaxRetries
  THEN gen' = NewCall(gen.call + 1, gen.answer)
  ELSE gen' = [gen EXCEPT !.pc = "quality", !.result = "error", !.files = {}]

-----------------------------------------------------------------------------
(* The attempts *)

\* extract_code: the blocks of the answer, under the paths it names or invented
\* ones; none is no code.
Extracted == (SUBSET Paths) \ {{}}

Answer(files) == gen' = [gen EXCEPT !.pc = "write", !.files = files, !.answer = @ + 1]

\* The first attempt catches the errors of the request and, like an answer
\* without code, goes on to the next.
Ask ==
  /\ At("ask") /\ gen.attempt = 1
  /\ UNCHANGED <<tree, tested, step>>
  /\ \/ \E files \in Extracted : Answer(files)
     \/ TryAgain("inference", gen.files)
     \/ TryAgain("no_code", gen.files)
     \/ Raise

\* In a retry an error of the request leaves generate(), and an answer without
\* code ends it, attempts left or not.
Retry ==
  /\ At("ask") /\ gen.attempt > 1
  /\ UNCHANGED <<tree, tested, step>>
  /\ \/ \E files \in Extracted : Answer(files)
     \/ Return("failed", {})
     \/ Raise

\* Variant: files that cannot be written are reported and the tests run.
WriteAnyway ==
  /\ At("write")
  /\ UNCHANGED <<tested, step>>
  /\ \E written \in SUBSET gen.files :
       /\ tree' = [tree EXCEPT !["default"] =
                     [f \in Paths |-> IF f \in written THEN gen.answer ELSE @[f]]]
       /\ gen' = [gen EXCEPT !.pc = "test"]

\* Each file is replaced as a whole or not at all; the ones that could be
\* written stay when others could not.
WriteFiles ==
  /\ At("write")
  /\ UNCHANGED <<tested, step>>
  /\ \E written \in SUBSET gen.files :
       /\ tree' = [tree EXCEPT !["default"] =
                     [f \in Paths |-> IF f \in written THEN gen.answer ELSE @[f]]]
       /\ \/ written = gen.files /\ gen' = [gen EXCEPT !.pc = "test"]
          \/ written # gen.files /\ TryAgain("write", gen.files)
          \/ Raise

\* A run of the tests: which ones its output has a line for (not all of them
\* when the process dies, and the exit status is not looked at) and how they end.
TestRun == [seen : SUBSET Tests, outcome : [Tests -> Outcomes]]

\* Both parsers count the lines of each outcome; the totals they read at the end
\* of the output agree with the lines.
Count(run, outcome) == Cardinality({t \in run.seen : run.outcome[t] = outcome})

\* The generator's verdict on a run, with the status of a run without tests.
Status(run) ==
  CASE Count(run, "failed") + Count(run, "error") > 0 -> "failed"
    [] run.seen = {} -> "error"
    [] OTHER -> "passed"

RunTests ==
  /\ At("test")
  /\ UNCHANGED <<tree, step>>
  /\ \/ \E run \in TestRun :
          /\ tested' = [seen |-> run.seen, outcome |-> run.outcome, on |-> tree["default"]]
          /\ IF Status(run) = "passed" THEN Return("success", gen.files)
                                       ELSE TryAgain("tests", gen.files)
     \/ Raise /\ UNCHANGED tested

-----------------------------------------------------------------------------
(* The queue's other steps *)

\* What the four checks may report over the files that are there.  A file that
\* does not compile has no imports to be missing; an issue of a check that could
\* not read its file has no severity, and counts as the least.
SyntaxIssues == SUBSET {"error"}
ImportIssues(found, syntax) ==
  IF syntax # {} /\ Cardinality(found) = 1 THEN {{}} ELSE SUBSET {"missing"}
StyleIssues == SUBSET {"warning", "info"}
SecurityIssues == SUBSET {"high", "medium", "low"}

Overall(syntax, imports, style, security) ==
  IF syntax # {} \/ imports # {} \/ "high" \in security THEN "fail"
  ELSE IF "warning" \in style \/ security # {} THEN "warn" ELSE "pass"

\* check_all over the generated files that exist in the queue's directory: none
\* of them there is a pass.
GateVerdicts(found) ==
  IF found = {} THEN {"pass"}
  ELSE UNION {{Overall(syntax, imports, style, security) :
                  imports \in ImportIssues(found, syntax), style \in StyleIssues,
                  security \in SecurityIssues} : syntax \in SyntaxIssues}

\* A gate that raises is a warning; without files there is nothing to check.
QualityCheck ==
  /\ At("quality")
  /\ LET found == {f \in gen.files : tree[step.dir][f] # 0}
         verdicts == IF gen.files = {} THEN {"skip"} ELSE GateVerdicts(found) \cup {"warn"}
     IN \E v \in verdicts : step' = [step EXCEPT !.quality = v]
  /\ gen' = [gen EXCEPT !.pc = "run_tests"]
  /\ UNCHANGED <<tree, tested>>

\* The test runner's number of failures, without the errors.
Failures(run) == Count(run, "failed")

\* Only failed tests count: errors, and no tests at all, are a pass.
StepTests ==
  /\ At("run_tests")
  /\ \/ \E run \in TestRun :
          step' = [step EXCEPT !.tests = IF Failures(run) = 0 THEN "pass" ELSE "fail"]
     \/ step' = [step EXCEPT !.tests = "warn"]
  /\ gen' = [gen EXCEPT !.pc = "commit"]
  /\ UNCHANGED <<tree, tested>>

\* git add -A and commit, whatever the steps before said; its result is not
\* part of the verdict.
StepCommit ==
  /\ At("commit")
  /\ \/ step' = [step EXCEPT !.committed = tree[step.dir]]
     \/ UNCHANGED step
  /\ gen' = [gen EXCEPT !.pc = "verdict"]
  /\ UNCHANGED <<tree, tested>>

Verdict ==
  /\ At("verdict")
  /\ step' = [step EXCEPT !.verdict =
       IF gen.result = "error" \/ step.quality = "fail" THEN "failed"
       ELSE IF step.quality = "skip" THEN "skipped"
       ELSE IF step.tests = "fail" THEN "failed" ELSE "complete"]
  /\ gen' = [gen EXCEPT !.pc = "done"]
  /\ UNCHANGED <<tree, tested>>

Next == Ask \/ Retry \/ WriteFiles \/ RunTests \/ QualityCheck \/ StepTests \/ StepCommit \/ Verdict

Spec == Init /\ [][Next]_vars

-----------------------------------------------------------------------------
(* Properties *)

\* When generate() reports success, the tests of the whole project were run to
\* the end without a failure (unless the test process died) on exactly the files
\* that are in the directory now, with every file of the reported answer in it.
SuccessIsTested ==
  gen.result = "success" =>
    /\ tested.on = tree["default"]
    /\ \A f \in gen.files : tree["default"][f] = gen.answer
    /\ tested.seen = Tests => \A t \in Tests : tested.outcome[t] \notin {"failed", "error"}

=============================================================================
