---------------------------- MODULE RecordsProofs ----------------------------
(***************************************************************************)
(* Proofs about what the engine keeps for later readers: the rows of the   *)
(* session log, the registry of patterns, the rows of a benchmark, the     *)
(* claim memory and the results archive.  Each invariant relates a record  *)
(* to the steps, of another thread or process, it was made in.             *)
(***************************************************************************)
EXTENDS Records, TaskHandlers, ListsProofs, SequenceTheorems, FiniteSetTheorems, TLAPS

-----------------------------------------------------------------------------
(* The session log. *)

LogTypes ==
    /\ asked \in [LoggedCalls -> [pc : {"idle", "asked", "payload", "done"},
                           thread : {Log!Home, Log!Worker}, attempt : Attempts \cup {1}]]
    /\ DOMAIN sessions \subseteq Attempts \cup {1}

\* Between the halves of a record its payload is in the sidecar.
PayloadFirst == \A c \in LoggedCalls : asked[c].pc = "payload" => c \in sidecar

LogInv == LogTypes /\ PayloadFirst /\ Log!RowsCanBeReplayed

LEMMA LogInit == Log!Init => LogInv
BY DEF Log!Init, LogInv, LogTypes, PayloadFirst, Log!RowsCanBeReplayed, Log!Logged,
       Log!Idle, Log!Home, Log!Worker

\* An insert adds both rows of its call, or none.
LEMMA InsertKeepsPayloads ==
  ASSUME LogInv, NEW c \in LoggedCalls, c \in sidecar, Log!Insert(c)
  PROVE  /\ telemetry' \subseteq sidecar /\ Log!Logged' \subseteq telemetry'
         /\ DOMAIN sessions' \subseteq Attempts \cup {1}
<1>1. CASE UNCHANGED <<sessions, telemetry>>
  BY <1>1 DEF LogInv, LogTypes, Log!RowsCanBeReplayed, Log!Logged
<1>2. CASE /\ sessions' = [a \in DOMAIN sessions \cup {asked[c].attempt} |->
                             IF a = asked[c].attempt THEN c ELSE sessions[a]]
           /\ telemetry' = telemetry \cup {c}
  <2>1. asked[c].attempt \in Attempts \cup {1}
    BY DEF LogInv, LogTypes
  <2>2. \A a \in DOMAIN sessions' :
          sessions'[a] = c \/ (a \in DOMAIN sessions /\ sessions'[a] = sessions[a])
    BY <1>2
  <2>3. DOMAIN sessions' = DOMAIN sessions \cup {asked[c].attempt} /\ telemetry' = telemetry \cup {c}
    BY <1>2
  <2>4. telemetry \subseteq sidecar /\ \A a \in DOMAIN sessions : sessions[a] \in telemetry
    BY DEF LogInv, Log!RowsCanBeReplayed, Log!Logged
  <2>5. Log!Logged' \subseteq telemetry'
    BY <2>2, <2>3, <2>4 DEF Log!Logged
  <2> QED BY <2>1, <2>3, <2>4, <2>5 DEF LogInv, LogTypes
<1> QED BY <1>1, <1>2 DEF Log!Insert

LEMMA LogStep == LogInv /\ [Log!Next]_(Log!vars) => LogInv'
<1> SUFFICES ASSUME LogInv, [Log!Next]_(Log!vars) PROVE LogInv'
  OBVIOUS
<1> USE DEF Log!Home, Log!Worker
<1>1. ASSUME NEW c \in LoggedCalls, NEW thread \in {Log!Home, Log!Worker}, NEW a \in Attempts,
             Log!Ask(c, thread, a)
      PROVE  LogInv'
  BY <1>1 DEF LogInv, LogTypes, PayloadFirst, Log!RowsCanBeReplayed, Log!Logged, Log!Ask
<1>2. ASSUME NEW c \in LoggedCalls, Log!Fail(c) PROVE LogInv'
  BY <1>2 DEF LogInv, LogTypes, PayloadFirst, Log!RowsCanBeReplayed, Log!Logged, Log!Fail
<1>3. ASSUME NEW c \in LoggedCalls, Log!Payload(c) PROVE LogInv'
  BY <1>3 DEF LogInv, LogTypes, PayloadFirst, Log!RowsCanBeReplayed, Log!Logged, Log!Payload
<1>4. ASSUME NEW c \in LoggedCalls, Log!Rows(c) PROVE LogInv'
  <2>1. c \in sidecar
    BY <1>4 DEF LogInv, PayloadFirst, Log!Rows
  <2>2. /\ telemetry' \subseteq sidecar /\ Log!Logged' \subseteq telemetry'
        /\ DOMAIN sessions' \subseteq Attempts \cup {1}
    BY <1>4, <2>1, InsertKeepsPayloads DEF Log!Rows
  <2> QED BY <1>4, <2>2 DEF LogInv, LogTypes, PayloadFirst, Log!RowsCanBeReplayed, Log!Rows
<1>5. CASE Log!Close
  BY <1>5 DEF LogInv, LogTypes, PayloadFirst, Log!RowsCanBeReplayed, Log!Logged, Log!Close
<1>6. CASE Log!Die
  BY <1>6 DEF LogInv, LogTypes, PayloadFirst, Log!RowsCanBeReplayed, Log!Logged, Log!Die
<1>7. CASE UNCHANGED Log!vars
  BY <1>7 DEF LogInv, LogTypes, PayloadFirst, Log!RowsCanBeReplayed, Log!Logged, Log!vars
<1> QED BY <1>1, <1>2, <1>3, <1>4, <1>5, <1>6, <1>7 DEF Log!Next

\* Whatever dies or is closed between the two halves of a record, and on whichever
\* thread the call was made, a row has its payload, and a session row its telemetry
\* (session_log.py).
THEOREM RowsHavePayloads == Log!Spec => []RowsCanBeReplayed
<1>1. LogInv => Log!RowsCanBeReplayed
  BY DEF LogInv
<1> QED BY <1>1, LogInit, LogStep, PTL DEF Log!Spec, RowsCanBeReplayed

-----------------------------------------------------------------------------
(* The registry of patterns. *)

Proposals == [id : PatternIds, ns : Namespaces, run : RalphRuns \cup {Registry!NoRun}, score : Scores]

RegistryTypes ==
    /\ writer \in [Writers -> {"idle", "count", "insert"}]
    /\ DOMAIN proposal = Writers
    /\ \A w \in Writers : writer[w] # "idle" => proposal[w] \in Proposals
    /\ patterns \in [DOMAIN patterns -> Registry!Row] /\ DOMAIN patterns \subseteq PatternIds
    /\ served \subseteq DOMAIN patterns /\ rejected \subseteq DOMAIN patterns

\* A proposal under way has an id that no row and no other proposal has.
IdsAreFresh ==
    \A w \in Writers : writer[w] # "idle" =>
        /\ proposal[w].id \notin DOMAIN patterns
        /\ \A v \in Writers \ {w} : writer[v] # "idle" => proposal[v].id # proposal[w].id

\* Approval comes with a name, rejection is for good, and what is served was
\* approved.
Decided ==
    /\ \A id \in DOMAIN patterns :
          patterns[id].status \in {"approved", "expired"} => patterns[id].by # Registry!Nobody
    /\ \A id \in rejected : patterns[id].status = "rejected"
    /\ \A id \in served : patterns[id].status \in {"approved", "expired"}

RegistryInv == RegistryTypes /\ IdsAreFresh /\ Decided

LEMMA RegistryInit == Registry!Init => RegistryInv
BY DEF Registry!Init, RegistryInv, RegistryTypes, IdsAreFresh, Decided

LEMMA ProposeKeeps ==
  ASSUME RegistryInv, NEW w \in Writers, Registry!Propose(w)
  PROVE  RegistryInv'
<1>1. PICK id \in PatternIds \ Registry!Used, ns \in Namespaces, run \in RalphRuns \cup {Registry!NoRun},
           s \in Scores :
        proposal' = [proposal EXCEPT ![w] = [id |-> id, ns |-> ns, run |-> run, score |-> s]]
  BY DEF Registry!Propose
<1>2. /\ id \notin DOMAIN patterns
      /\ \A v \in Writers : writer[v] # "idle" => proposal[v].id # id
  BY <1>1 DEF Registry!Used
<1>3. /\ writer[w] = "idle" /\ writer' = [writer EXCEPT ![w] = "count"]
      /\ patterns' = patterns /\ served' = served /\ rejected' = rejected
  BY DEF Registry!Propose
<1>4. RegistryTypes'
  BY <1>1, <1>3 DEF RegistryInv, RegistryTypes, Proposals
<1>5. IdsAreFresh'
  BY <1>1, <1>2, <1>3 DEF RegistryInv, RegistryTypes, IdsAreFresh
<1> QED BY <1>3, <1>4, <1>5 DEF RegistryInv, Decided

LEMMA CountKeeps ==
  ASSUME RegistryInv, NEW w \in Writers, Registry!Count(w)
  PROVE  RegistryInv'
<1>1. /\ writer[w] = "count" /\ patterns' = patterns /\ served' = served /\ rejected' = rejected
      /\ \/ /\ writer' = [writer EXCEPT ![w] = "idle"]
            /\ proposal' = [proposal EXCEPT ![w] = Registry!NoProposal]
         \/ writer' = [writer EXCEPT ![w] = "insert"] /\ proposal' = proposal
  BY DEF Registry!Count
<1>2. RegistryTypes'
  BY <1>1 DEF RegistryInv, RegistryTypes
<1>3. IdsAreFresh'
  BY <1>1 DEF RegistryInv, RegistryTypes, IdsAreFresh
<1> QED BY <1>1, <1>2, <1>3 DEF RegistryInv, Decided

LEMMA InsertKeeps ==
  ASSUME RegistryInv, NEW w \in Writers, Registry!Insert(w)
  PROVE  RegistryInv'
<1> DEFINE p == proposal[w]
<1>1. PICK new \in {Registry!NewRow(p, "proposed", Registry!Nobody),
                    Registry!NewRow(p, "approved", "auto")} :
        patterns' = [id \in DOMAIN patterns \cup {p.id} |-> IF id = p.id THEN new ELSE patterns[id]]
  BY DEF Registry!Insert
<1>2. /\ writer[w] = "insert" /\ writer' = [writer EXCEPT ![w] = "idle"]
      /\ proposal' = [proposal EXCEPT ![w] = Registry!NoProposal]
      /\ served' = served /\ rejected' = rejected
  BY DEF Registry!Insert
<1>3. p \in Proposals /\ p.id \in PatternIds \ DOMAIN patterns
  BY <1>2 DEF RegistryInv, RegistryTypes, IdsAreFresh, Proposals
<1>4. new \in Registry!Row /\ (new.status = "proposed" \/ new.by # Registry!Nobody)
                           /\ new.status \in {"proposed", "approved"}
  BY <1>1, <1>3 DEF Proposals, Registry!Row, Registry!NewRow, Registry!Statuses, Registry!Nobody
<1> HIDE DEF p
<1>5. /\ DOMAIN patterns' = DOMAIN patterns \cup {p.id} /\ patterns'[p.id] = new
      /\ \A id \in DOMAIN patterns : patterns'[id] = patterns[id]
  BY <1>1, <1>3
<1>6. RegistryTypes'
  <2>1. patterns' \in [DOMAIN patterns' -> Registry!Row]
    BY <1>1, <1>4, <1>5 DEF RegistryInv, RegistryTypes
  <2> QED BY <2>1, <1>2, <1>3, <1>5 DEF RegistryInv, RegistryTypes
<1>7. IdsAreFresh'
  BY <1>2, <1>5 DEF RegistryInv, RegistryTypes, IdsAreFresh, p
<1>8. Decided'
  BY <1>2, <1>4, <1>5 DEF RegistryInv, RegistryTypes, Decided
<1> QED BY <1>6, <1>7, <1>8 DEF RegistryInv

\* An update of two fields leaves the others of a row alone.
LEMMA TwoFields ==
  ASSUME NEW r \in Registry!Row, NEW s, NEW b
  PROVE  [[r EXCEPT !.status = s] EXCEPT !.by = b]
           = [ns |-> r.ns, run |-> r.run, score |-> r.score, status |-> s, by |-> b]
<1>1. r = [ns |-> r.ns, run |-> r.run, score |-> r.score, status |-> r.status, by |-> r.by]
  BY DEF Registry!Row
<1> DEFINE q == [ns |-> r.ns, run |-> r.run, score |-> r.score, status |-> s, by |-> r.by]
<1>2. [r EXCEPT !.status = s] = q
  BY <1>1
<1>3. [q EXCEPT !.by = b]
        = [ns |-> r.ns, run |-> r.run, score |-> r.score, status |-> s, by |-> b]
  OBVIOUS
<1> HIDE DEF q
<1> QED BY <1>2, <1>3

\* Approve, Reject and Expire: one row moves on, and is decided as it should.
LEMMA MoveKeeps ==
  ASSUME RegistryInv, NEW id, NEW from, NEW to, NEW by, Registry!Move(id, from, to, by),
         by \in {Registry!Nobody, "auto", "owner"},
         \/ from = {"proposed"} /\ to = "approved" /\ by = "owner" /\ rejected' = rejected
         \/ from = {"proposed"} /\ to = "rejected" /\ rejected' = rejected \cup {id}
         \/ from = {"approved"} /\ to = "expired" /\ by = patterns[id].by /\ rejected' = rejected,
         UNCHANGED <<writer, proposal, served>>
  PROVE  RegistryInv'
<1>1. /\ id \in DOMAIN patterns /\ patterns[id].status \in from
      /\ patterns' = [patterns EXCEPT ![id].status = to, ![id].by = by]
  BY DEF Registry!Move
<1> DEFINE moved == [ns |-> patterns[id].ns, run |-> patterns[id].run, score |-> patterns[id].score,
                     status |-> to, by |-> by]
<1>2. patterns[id] \in Registry!Row
  BY <1>1 DEF RegistryInv, RegistryTypes
<1>3. patterns' = [patterns EXCEPT ![id] = moved]
  <2>1. patterns' = [patterns EXCEPT ![id] = [[patterns[id] EXCEPT !.status = to] EXCEPT !.by = by]]
    BY <1>1 DEF RegistryInv, RegistryTypes
  <2>2. [[patterns[id] EXCEPT !.status = to] EXCEPT !.by = by] = moved
    BY <1>2, TwoFields
  <2> QED BY <2>1, <2>2
<1>4. moved \in Registry!Row /\ moved.status = to /\ moved.by = by
  BY <1>2 DEF Registry!Row, Registry!Statuses
<1> HIDE DEF moved
<1>5. /\ DOMAIN patterns' = DOMAIN patterns /\ patterns'[id] = moved
      /\ \A i \in DOMAIN patterns \ {id} : patterns'[i] = patterns[i]
  BY <1>1, <1>3
<1>6. RegistryTypes'
  <2>1. patterns' \in [DOMAIN patterns' -> Registry!Row]
    BY <1>3, <1>4, <1>5 DEF RegistryInv, RegistryTypes
  <2> QED BY <2>1, <1>1, <1>5 DEF RegistryInv, RegistryTypes
<1>7. IdsAreFresh'
  BY <1>5 DEF RegistryInv, IdsAreFresh
<1>8. Decided'
  BY <1>1, <1>4, <1>5 DEF RegistryInv, RegistryTypes, Decided, Registry!Nobody
<1> QED BY <1>6, <1>7, <1>8 DEF RegistryInv

\* A query answers with approved rows.
LEMMA AnswersAreApproved ==
  ASSUME RegistryInv, NEW ns, NEW S \in Registry!Answers(ns), served' = served \cup S,
         UNCHANGED <<patterns, writer, proposal, rejected>>
  PROVE  RegistryInv'
<1>1. \A id \in S : id \in DOMAIN patterns /\ patterns[id].status = "approved"
  BY DEF Registry!Answers
<1> QED BY <1>1 DEF RegistryInv, RegistryTypes, IdsAreFresh, Decided

LEMMA RegistryStep == RegistryInv /\ [Registry!Next]_(Registry!vars) => RegistryInv'
<1> SUFFICES ASSUME RegistryInv, [Registry!Next]_(Registry!vars) PROVE RegistryInv'
  OBVIOUS
<1>1. ASSUME NEW w \in Writers, Registry!Propose(w) PROVE RegistryInv'
  BY <1>1, ProposeKeeps
<1>2. ASSUME NEW w \in Writers, Registry!Count(w) PROVE RegistryInv'
  BY <1>2, CountKeeps
<1>3. ASSUME NEW w \in Writers, Registry!Insert(w) PROVE RegistryInv'
  BY <1>3, InsertKeeps
<1>4. ASSUME NEW id \in PatternIds, Registry!Approve(id) PROVE RegistryInv'
  BY <1>4, MoveKeeps DEF Registry!Approve
<1>5. ASSUME NEW id \in PatternIds, Registry!Reject(id) PROVE RegistryInv'
  BY <1>5, MoveKeeps DEF Registry!Reject
<1>6. ASSUME NEW id \in PatternIds, Registry!Expire(id) PROVE RegistryInv'
  <2>1. patterns[id].by \in {Registry!Nobody, "auto", "owner"}
    BY <1>6 DEF Registry!Expire, RegistryInv, RegistryTypes, Registry!Row
  <2> QED BY <1>6, <2>1, MoveKeeps DEF Registry!Expire
<1>7. ASSUME NEW ns \in Namespaces, Registry!Query(ns) \/ Registry!Export(ns) PROVE RegistryInv'
  <2>1. PICK S \in Registry!Answers(ns) : served' = served \cup S
    BY <1>7 DEF Registry!Query, Registry!Export
  <2> QED BY <1>7, <2>1, AnswersAreApproved DEF Registry!Query, Registry!Export
<1>8. CASE UNCHANGED Registry!vars
  BY <1>8 DEF RegistryInv, RegistryTypes, IdsAreFresh, Decided, Registry!vars
<1> QED BY <1>1, <1>2, <1>3, <1>4, <1>5, <1>6, <1>7, <1>8 DEF Registry!Next

\* ADR-0002, R2: what a prompt or a skill-doc was given had been approved by somebody
\* and was never rejected, whatever else the other processes and the owner did
\* meanwhile (pattern_gate.py, pattern_query.py).
THEOREM OnlyApprovedIsServed == Registry!Spec => []RejectedIsNeverServed
<1>1. RegistryInv => Registry!RejectedIsNeverServed
  BY DEF RegistryInv, RegistryTypes, Decided, Registry!RejectedIsNeverServed
<1> QED BY <1>1, RegistryInit, RegistryStep, PTL DEF Registry!Spec, RejectedIsNeverServed

-----------------------------------------------------------------------------
(* The rows of the benchmark. *)

ProcFields == {"pc", "mode", "todo", "left", "done", "stopping", "connected"}

BenchTypes ==
    /\ DOMAIN runs = Benchmark!Keys /\ DOMAIN scores = Benchmark!Keys
    /\ DOMAIN pilot = ProcFields

\* The row under way is the one that was claimed, and nobody has completed it.
Underway ==
    LET k == Head(pilot.left) IN
    /\ pilot.pc = "inserting" /\ k \in Benchmark!Keys => runs[k] = "none"
    /\ pilot.pc \in {"infer", "completing", "failing"} /\ k \in Benchmark!Keys => runs[k] = "running"

\* What the judge is given to score is complete, and so is what has a score.
ToScore ==
    /\ \E S : pilot.done \in Seq(S) /\ \A k \in S \cap Benchmark!Keys : runs[k] = "complete"
    /\ pilot.pc = "judging" => pilot.done # <<>>
    /\ \A k \in Benchmark!Keys : scores[k] # "none" => runs[k] = "complete"

BenchInv == BenchTypes /\ Underway /\ ToScore

LEMMA BenchInit == Benchmark!Init => BenchInv
<1>1. <<>> \in Seq({})
  OBVIOUS
<1> QED BY <1>1 DEF Benchmark!Init, Benchmark!Off, BenchInv, BenchTypes, ProcFields, Underway, ToScore

CorpusIsListed ==
    /\ Configs \in Seq(Benchmark!ToSet(Configs)) /\ Corpus \in Seq(Benchmark!ToSet(Corpus))
    /\ Reps \in Nat

LEMMA KeysAreFinite ==
  ASSUME CorpusIsListed
  PROVE  IsFiniteSet(Benchmark!Keys)
<1> DEFINE places == ((1 .. Len(Configs)) \X (1 .. Len(Corpus))) \X (1 .. Reps)
           f == [p \in places |-> <<Configs[p[1][1]], Corpus[p[1][2]], p[2]>>]
<1>1. IsFiniteSet(1 .. Len(Configs)) /\ IsFiniteSet(1 .. Len(Corpus)) /\ IsFiniteSet(1 .. Reps)
  BY FS_Interval DEF CorpusIsListed
<1>2. IsFiniteSet((1 .. Len(Configs)) \X (1 .. Len(Corpus)))
  BY <1>1, FS_Product
<1>3. IsFiniteSet(places)
  BY <1>1, <1>2, FS_Product
<1>4. f \in [places -> Benchmark!Keys]
  BY DEF CorpusIsListed, Benchmark!Keys, Benchmark!ToSet
<1>5. ASSUME NEW k \in Benchmark!Keys PROVE \E p \in places : f[p] = k
  <2>1. PICK i \in 1 .. Len(Configs), j \in 1 .. Len(Corpus), r \in 1 .. Reps :
          k = <<Configs[i], Corpus[j], r>>
    <3>1. PICK c \in Benchmark!ToSet(Configs), t \in Benchmark!ToSet(Corpus), r \in 1 .. Reps :
            k = <<c, t, r>>
      BY DEF Benchmark!Keys
    <3>2. (\E i \in 1 .. Len(Configs) : c = Configs[i]) /\ (\E j \in 1 .. Len(Corpus) : t = Corpus[j])
      BY DEF Benchmark!ToSet, CorpusIsListed
    <3> QED BY <3>1, <3>2
  <2>2. <<<<i, j>>, r>> \in places
    OBVIOUS
  <2> QED BY <2>1, <2>2
<1>6. f \in Surjection(places, Benchmark!Keys)
  BY <1>4, <1>5 DEF Surjection
<1> HIDE DEF f, places
<1> QED BY <1>3, <1>6, FS_Surjection

LEMMA SetToSeqListsTheSet ==
  ASSUME NEW S, IsFiniteSet(S)
  PROVE  Benchmark!SetToSeq(S) \in Seq(S)
<1>1. Benchmark!Cardinality(S) = Cardinality(S)
  BY DEF Benchmark!Cardinality, Cardinality
<1>2. Cardinality(S) \in Nat /\ ExistsBijection(1 .. Cardinality(S), S)
  BY FS_CardinalityType
<1>3. PICK f \in Bijection(1 .. Cardinality(S), S) : TRUE
  BY <1>2 DEF ExistsBijection
<1>4. f \in [1 .. Cardinality(S) -> S] /\ Benchmark!IsInjective(f)
  BY <1>3 DEF Bijection, Injection, IsInjective, Benchmark!IsInjective
<1>5. Benchmark!SetToSeq(S) \in [1 .. Cardinality(S) -> S]
  BY <1>1, <1>4 DEF Benchmark!SetToSeq
<1> QED BY <1>2, <1>5

\* What a step does to the rows, for those who read what is complete.
RowsGoOn ==
    /\ DOMAIN runs' = Benchmark!Keys /\ DOMAIN scores' = Benchmark!Keys
    /\ \A k \in Benchmark!Keys : runs[k] = "complete" => runs'[k] = "complete"
    /\ \A k \in Benchmark!Keys : scores'[k] # "none" => scores[k] # "none" \/ runs'[k] = "complete"

\* A list of complete rows stays one, shortened or handed on.
LEMMA ListsGoOn ==
  ASSUME BenchInv, RowsGoOn, DOMAIN pilot' = ProcFields,
         \/ pilot'.done = pilot.done
         \/ pilot'.done = <<>>
         \/ pilot.done # <<>> /\ pilot'.done = Tail(pilot.done),
         pilot'.pc = "judging" => pilot'.done = pilot.done /\ pilot.done # <<>>,
         Underway'
  PROVE  BenchInv'
<1>1. PICK S : pilot.done \in Seq(S) /\ \A k \in S \cap Benchmark!Keys : runs[k] = "complete"
  BY DEF BenchInv, ToScore
<1>2. pilot'.done \in Seq(S)
  <2>1. <<>> \in Seq(S)
    OBVIOUS
  <2>2. pilot.done # <<>> => Tail(pilot.done) \in Seq(S)
    BY <1>1
  <2> QED BY <1>1, <2>1, <2>2
<1>3. \A k \in S \cap Benchmark!Keys : runs'[k] = "complete"
  BY <1>1 DEF RowsGoOn
<1>4. \A k \in Benchmark!Keys : scores'[k] # "none" => runs'[k] = "complete"
  BY DEF BenchInv, ToScore, RowsGoOn
<1>5. ToScore'
  BY <1>2, <1>3, <1>4 DEF ToScore
<1> QED BY <1>5 DEF BenchInv, BenchTypes, RowsGoOn

LEMMA RowsUntouched ==
  ASSUME BenchInv, runs' = runs, scores' = scores
  PROVE  RowsGoOn
BY DEF BenchInv, BenchTypes, RowsGoOn

\* A list that is new holds the complete rows.
LEMMA ListsBegin ==
  ASSUME BenchInv, RowsGoOn, DOMAIN pilot' = ProcFields, Underway', pilot'.pc # "judging",
         NEW S, pilot'.done \in Seq(S), \A k \in S \cap Benchmark!Keys : runs'[k] = "complete"
  PROVE  BenchInv'
<1>1. \A k \in Benchmark!Keys : scores'[k] # "none" => runs'[k] = "complete"
  BY DEF BenchInv, ToScore, RowsGoOn
<1> QED BY <1>1 DEF BenchInv, BenchTypes, ToScore, RowsGoOn

LEMMA BenchStep ==
  ASSUME IsFiniteSet(Benchmark!Keys), BenchInv, [Benchmark!Next]_(Benchmark!vars)
  PROVE  BenchInv' /\ RowsGoOn
<1> USE DEF Benchmark!At, Benchmark!GoTo
<1>0. /\ DOMAIN runs = Benchmark!Keys /\ DOMAIN scores = Benchmark!Keys
      /\ DOMAIN pilot = ProcFields
  BY DEF BenchInv, BenchTypes
<1>a. ASSUME NEW T, T \subseteq Benchmark!Keys PROVE Benchmark!SetToSeq(T) \in Seq(T)
  BY <1>a, FS_Subset, SetToSeqListsTheSet
<1>b. Benchmark!Unscored \subseteq Benchmark!Keys /\ \A k \in Benchmark!Unscored : runs[k] = "complete"
  BY DEF Benchmark!Unscored, Benchmark!Complete
<1>c. <<>> \in Seq({})
  OBVIOUS
<1>1. ASSUME NEW mode \in Benchmark!Modes, Benchmark!Start(mode) PROVE BenchInv' /\ RowsGoOn
  <2>1. runs' = runs /\ scores' = scores
    BY <1>1 DEF Benchmark!Start
  <2>2. /\ DOMAIN pilot' = ProcFields
        /\ pilot'.pc \in {"resume", "configs", "scoring", "batch"}
        /\ pilot'.done = <<>> \/ pilot'.done = Benchmark!SetToSeq(Benchmark!Unscored)
    BY <1>1 DEF Benchmark!Start, Benchmark!Off, ProcFields
  <2>3. RowsGoOn
    BY <2>1, RowsUntouched
  <2>4. Underway'
    BY <2>2 DEF Underway
  <2>5. CASE pilot'.done = <<>>
    <3>1. \A k \in {} \cap Benchmark!Keys : runs'[k] = "complete"
      OBVIOUS
    <3> QED BY <1>c, <2>2, <2>3, <2>4, <2>5, <3>1, ListsBegin
  <2>6. CASE pilot'.done = Benchmark!SetToSeq(Benchmark!Unscored)
    BY <1>a, <1>b, <2>1, <2>2, <2>3, <2>4, <2>6, ListsBegin
  <2> QED BY <2>2, <2>3, <2>5, <2>6
<1>2. CASE Benchmark!ResumeFromCheckpoint
  <2>1. /\ pilot' = [pilot EXCEPT !.pc = "configs"] /\ scores' = scores
        /\ \/ runs' = runs
           \/ runs' = [k \in Benchmark!Keys |-> IF k \in Benchmark!Running THEN "incomplete" ELSE runs[k]]
    BY <1>2 DEF Benchmark!ResumeFromCheckpoint
  <2>2. RowsGoOn
    BY <1>0, <2>1 DEF RowsGoOn, Benchmark!Running
  <2>3. Underway' /\ DOMAIN pilot' = ProcFields /\ pilot'.done = pilot.done /\ pilot'.pc = "configs"
    BY <1>0, <2>1 DEF Underway, ProcFields
  <2> QED BY <2>2, <2>3, ListsGoOn
<1>3. CASE Benchmark!Claim
  <2>1. /\ runs' = runs /\ scores' = scores
        /\ \/ runs[Head(pilot.left)] = "none" /\ pilot' = [pilot EXCEPT !.pc = "inserting"]
           \/ pilot' = [pilot EXCEPT !.left = Tail(pilot.left)] /\ pilot.pc = "batch"
    BY <1>0, <1>3 DEF Benchmark!Claim, Benchmark!Claimable, ProcFields
  <2>2. RowsGoOn
    BY <2>1, RowsUntouched
  <2>3. /\ Underway' /\ DOMAIN pilot' = ProcFields /\ pilot'.done = pilot.done
        /\ pilot'.pc \in {"batch", "inserting"}
    BY <1>0, <2>1 DEF Underway, ProcFields
  <2> QED BY <2>2, <2>3, ListsGoOn
<1>4. CASE Benchmark!CommitClaim
  <2>1. /\ runs' = [runs EXCEPT ![Head(pilot.left)] = "running"] /\ scores' = scores
        /\ pilot.pc = "inserting" /\ pilot' = [pilot EXCEPT !.pc = "infer"]
    BY <1>4 DEF Benchmark!CommitClaim
  <2>2. RowsGoOn
    BY <1>0, <2>1 DEF RowsGoOn, BenchInv, Underway
  <2>3. /\ Underway' /\ DOMAIN pilot' = ProcFields /\ pilot'.done = pilot.done
        /\ pilot'.pc = "infer"
    BY <1>0, <2>1 DEF Underway, ProcFields
  <2> QED BY <2>2, <2>3, ListsGoOn
<1>5. CASE Benchmark!Infer
  <2>1. /\ runs' = runs /\ scores' = scores /\ pilot.pc = "infer"
        /\ \E l \in {"completing", "failing"} : pilot' = [pilot EXCEPT !.pc = l]
    BY <1>5 DEF Benchmark!Infer
  <2>2. RowsGoOn
    BY <2>1, RowsUntouched
  <2>3. /\ Underway' /\ DOMAIN pilot' = ProcFields /\ pilot'.done = pilot.done
        /\ pilot'.pc \in {"completing", "failing"}
    BY <1>0, <2>1 DEF BenchInv, Underway, ProcFields
  <2> QED BY <2>2, <2>3, ListsGoOn
<1>6. CASE Benchmark!CommitResult
  <2>1. PICK status \in {"complete", "failed"} :
          /\ runs' = [runs EXCEPT ![Head(pilot.left)] = status] /\ scores' = scores
          /\ pilot.pc \in {"completing", "failing"}
          /\ pilot' = [pilot EXCEPT !.pc = "batch", !.left = Tail(@),
                        !.done = IF status = "complete" THEN Append(@, Head(pilot.left)) ELSE @]
    BY <1>6 DEF Benchmark!CommitResult, Benchmark!Record
  <2>2. RowsGoOn
    BY <1>0, <2>1 DEF RowsGoOn, BenchInv, Underway
  <2>3. /\ Underway' /\ DOMAIN pilot' = ProcFields /\ pilot'.pc = "batch"
        /\ pilot'.done = (IF status = "complete" THEN Append(pilot.done, Head(pilot.left)) ELSE pilot.done)
    BY <1>0, <2>1 DEF Underway, ProcFields
  <2>4. CASE status = "failed"
    BY <2>2, <2>3, <2>4, ListsGoOn
  <2>5. CASE status = "complete"
    <3>1. PICK S : pilot.done \in Seq(S) /\ \A k \in S \cap Benchmark!Keys : runs[k] = "complete"
      BY DEF BenchInv, ToScore
    <3> DEFINE T == S \cup {Head(pilot.left)}
    <3>2. pilot'.done \in Seq(T)
      BY <2>3, <2>5, <3>1
    <3>3. \A k \in T \cap Benchmark!Keys : runs'[k] = "complete"
      BY <1>0, <2>1, <2>5, <3>1
    <3> HIDE DEF T
    <3> QED BY <2>2, <2>3, <3>2, <3>3, ListsBegin
  <2> QED BY <2>1, <2>2, <2>4, <2>5
<1>7. CASE Benchmark!NextConfig
  <2>1. runs' = runs /\ scores' = scores /\ pilot.pc = "configs"
    BY <1>7 DEF Benchmark!NextConfig
  <2>2. /\ DOMAIN pilot' = ProcFields /\ pilot'.pc \in {"off", "configs", "batch"}
        /\ pilot'.done = <<>> \/ pilot'.done = pilot.done
    <3>1. CASE pilot' = Benchmark!Off
      BY <3>1 DEF Benchmark!Off, ProcFields
    <3>2. CASE pilot' = [pilot EXCEPT !.todo = Tail(@)]
      BY <1>0, <2>1, <3>2 DEF ProcFields
    <3>3. CASE pilot' = [pilot EXCEPT !.pc = "batch", !.todo = Tail(@),
                          !.left = Benchmark!BatchOf(Head(pilot.todo)), !.done = <<>>]
      BY <1>0, <3>3 DEF ProcFields
    <3> QED BY <1>7, <3>1, <3>2, <3>3 DEF Benchmark!NextConfig, Benchmark!Exit
  <2>3. RowsGoOn
    BY <2>1, RowsUntouched
  <2>4. Underway'
    BY <2>2 DEF Underway
  <2> QED BY <2>2, <2>3, <2>4, ListsGoOn
<1>8. CASE Benchmark!EndBatch
  <2>1. runs' = runs /\ scores' = scores
    BY <1>8 DEF Benchmark!EndBatch
  <2>2. /\ DOMAIN pilot' = ProcFields /\ pilot'.pc \in {"off", "scoring"}
        /\ \/ pilot'.done = <<>>
           \/ pilot'.done = pilot.done
           \/ pilot'.done = Benchmark!SetToSeq(Benchmark!Unscored)
    <3>1. CASE pilot' = Benchmark!Off
      BY <3>1 DEF Benchmark!Off, ProcFields
    <3>2. CASE pilot' = [pilot EXCEPT !.pc = "scoring",
                          !.done = IF pilot.mode = "pilot"
                                   THEN Benchmark!SetToSeq(Benchmark!Unscored) ELSE @]
      BY <1>0, <3>2 DEF ProcFields
    <3> QED BY <1>8, <3>1, <3>2 DEF Benchmark!EndBatch
  <2>3. RowsGoOn
    BY <2>1, RowsUntouched
  <2>4. Underway'
    BY <2>2 DEF Underway
  <2>5. CASE pilot'.done = <<>> \/ pilot'.done = pilot.done
    BY <2>2, <2>3, <2>4, <2>5, ListsGoOn
  <2>6. CASE pilot'.done = Benchmark!SetToSeq(Benchmark!Unscored)
    BY <1>a, <1>b, <2>1, <2>2, <2>3, <2>4, <2>6, ListsBegin
  <2> QED BY <2>2, <2>3, <2>5, <2>6
<1>9. CASE Benchmark!Score
  <2>1. /\ runs' = runs /\ scores' = scores /\ pilot.pc = "scoring" /\ pilot.done # <<>>
        /\ \/ pilot' = [pilot EXCEPT !.pc = "judging"]
           \/ pilot' = [pilot EXCEPT !.done = Tail(pilot.done)]
    BY <1>0, <1>9 DEF Benchmark!Score, ProcFields
  <2>2. /\ DOMAIN pilot' = ProcFields
        /\ \/ pilot'.pc = "judging" /\ pilot'.done = pilot.done
           \/ pilot'.pc = "scoring" /\ pilot'.done = Tail(pilot.done)
    BY <1>0, <2>1 DEF ProcFields
  <2>3. RowsGoOn
    BY <2>1, RowsUntouched
  <2>4. Underway'
    BY <2>2 DEF Underway
  <2> QED BY <2>1, <2>2, <2>3, <2>4, ListsGoOn
<1>d. ASSUME pilot.pc = "judging", runs' = runs, NEW s,
             scores' = [scores EXCEPT ![Head(pilot.done)] = s]
      PROVE  RowsGoOn /\ pilot.done # <<>>
  <2>1. PICK S : pilot.done \in Seq(S) /\ \A k \in S \cap Benchmark!Keys : runs[k] = "complete"
    BY DEF BenchInv, ToScore
  <2>2. pilot.done # <<>> /\ Head(pilot.done) \in S
    BY <1>d, <2>1 DEF BenchInv, ToScore
  <2> QED BY <1>0, <1>d, <2>1, <2>2 DEF RowsGoOn
<1>10. CASE Benchmark!CommitScore
  <2>1. /\ pilot.pc = "judging" /\ runs' = runs
        /\ \E s : scores' = [scores EXCEPT ![Head(pilot.done)] = s]
        /\ pilot' = [pilot EXCEPT !.pc = "scoring", !.done = Tail(@)]
    BY <1>10 DEF Benchmark!CommitScore, Benchmark!RecordScore
  <2>2. RowsGoOn /\ pilot.done # <<>>
    BY <1>d, <2>1
  <2>3. /\ Underway' /\ DOMAIN pilot' = ProcFields /\ pilot'.pc = "scoring"
        /\ pilot'.done = Tail(pilot.done)
    BY <1>0, <2>1 DEF Underway, ProcFields
  <2> QED BY <2>2, <2>3, ListsGoOn
<1>11. CASE Benchmark!EndScoring
  <2>1. runs' = runs /\ scores' = scores
    BY <1>11 DEF Benchmark!EndScoring
  <2>2. /\ DOMAIN pilot' = ProcFields /\ pilot'.pc \in {"off", "configs"}
        /\ pilot'.done = <<>> \/ pilot'.done = pilot.done
    BY <1>0, <1>11 DEF Benchmark!EndScoring, Benchmark!Exit, Benchmark!Off, ProcFields
  <2>3. RowsGoOn
    BY <2>1, RowsUntouched
  <2>4. Underway'
    BY <2>2 DEF Underway
  <2> QED BY <2>2, <2>3, <2>4, ListsGoOn
<1>12. CASE Benchmark!Poll \/ UNCHANGED Benchmark!vars
  <2>1. runs' = runs /\ scores' = scores /\ pilot' = pilot
    BY <1>12 DEF Benchmark!Poll, Benchmark!vars
  <2>2. RowsGoOn
    BY <2>1, RowsUntouched
  <2>3. Underway' /\ DOMAIN pilot' = ProcFields /\ (pilot'.pc = "judging" => pilot.done # <<>>)
    BY <1>0, <2>1 DEF BenchInv, Underway, ToScore
  <2> QED BY <2>1, <2>2, <2>3, ListsGoOn
<1>13. CASE Benchmark!Signal \/ Benchmark!Crash
  <2>1. runs' = runs /\ scores' = scores /\ pilot' = Benchmark!Off
    BY <1>13 DEF Benchmark!Signal, Benchmark!Crash
  <2>2. RowsGoOn
    BY <2>1, RowsUntouched
  <2>3. Underway' /\ DOMAIN pilot' = ProcFields /\ pilot'.done = <<>> /\ pilot'.pc = "off"
    BY <2>1 DEF Underway, Benchmark!Off, ProcFields
  <2> QED BY <2>2, <2>3, ListsGoOn
<1>14. CASE Benchmark!SignalInWrite
  <2>1. CASE pilot' = Benchmark!Off /\ runs' = runs /\ scores' = scores
    <3>1. RowsGoOn
      BY <2>1, RowsUntouched
    <3>2. Underway' /\ DOMAIN pilot' = ProcFields /\ pilot'.done = <<>> /\ pilot'.pc = "off"
      BY <2>1 DEF Underway, Benchmark!Off, ProcFields
    <3> QED BY <3>1, <3>2, ListsGoOn
  <2>2. CASE /\ pilot.pc = "completing" /\ scores' = scores
             /\ runs' = [runs EXCEPT ![Head(pilot.left)] = "failed"]
             /\ pilot' = [pilot EXCEPT !.pc = "batch", !.left = Tail(@), !.stopping = TRUE]
    <3>1. RowsGoOn
      BY <1>0, <2>2 DEF RowsGoOn, BenchInv, Underway
    <3>2. Underway' /\ DOMAIN pilot' = ProcFields /\ pilot'.done = pilot.done /\ pilot'.pc = "batch"
      BY <1>0, <2>2 DEF Underway, ProcFields
    <3> QED BY <3>1, <3>2, ListsGoOn
  <2>3. CASE /\ pilot.pc = "judging" /\ runs' = runs
             /\ \E s : scores' = [scores EXCEPT ![Head(pilot.done)] = s]
             /\ pilot' = [pilot EXCEPT !.pc = "scoring", !.done = Tail(@), !.stopping = TRUE]
    <3>1. RowsGoOn /\ pilot.done # <<>>
      BY <1>d, <2>3
    <3>2. /\ Underway' /\ DOMAIN pilot' = ProcFields /\ pilot'.pc = "scoring"
          /\ pilot'.done = Tail(pilot.done)
      BY <1>0, <2>3 DEF Underway, ProcFields
    <3> QED BY <3>1, <3>2, ListsGoOn
  <2> QED BY <1>14, <2>1, <2>2, <2>3 DEF Benchmark!SignalInWrite
<1> QED BY <1>1, <1>2, <1>3, <1>4, <1>5, <1>6, <1>7, <1>8, <1>9, <1>10, <1>11, <1>12, <1>13, <1>14
        DEF Benchmark!Next

\* Whatever is started, signalled or killed in between, a row that is complete, or has a
\* score, is complete after the next step too: no resume and no signal in the middle of a
\* write takes back what the judge has scored.
THEOREM CompleteRowsStay ==
  ASSUME CorpusIsListed
  PROVE  Benchmark!Spec => CompleteIsFinal
<1>1. IsFiniteSet(Benchmark!Keys)
  BY KeysAreFinite
<1>2. BenchInv /\ [Benchmark!Next]_(Benchmark!vars) => BenchInv'
  BY <1>1, BenchStep
<1>3. BenchInv /\ [Benchmark!Next]_(Benchmark!vars) =>
        [\A k \in Benchmark!Keys : (runs[k] = "complete" \/ scores[k] # "none")
            => runs'[k] = "complete"]_(Benchmark!vars)
  BY <1>1, BenchStep DEF BenchInv, ToScore, RowsGoOn
<1> QED BY <1>2, <1>3, BenchInit, PTL DEF Benchmark!Spec, Benchmark!CompleteIsFinal, CompleteIsFinal

-----------------------------------------------------------------------------
(* The claim memory. *)

Listed(s) == \E n \in Nat : s = [i \in 1 .. n |-> s[i]]

LEMMA ListedIsSeq ==
  ASSUME NEW s
  PROVE  Listed(s) <=> \E S : s \in Seq(S)
<1>1. ASSUME Listed(s) PROVE \E S : s \in Seq(S)
  <2>1. PICK n \in Nat : s = [i \in 1 .. n |-> s[i]]
    BY <1>1 DEF Listed
  <2>2. s \in [1 .. n -> {s[i] : i \in 1 .. n}]
    BY <2>1
  <2>3. s \in Seq({s[i] : i \in 1 .. n})
    BY <2>2, SeqDef
  <2> QED BY <2>3
<1>2. ASSUME NEW S, s \in Seq(S) PROVE Listed(s)
  <2>1. Len(s) \in Nat /\ s = [i \in 1 .. Len(s) |-> s[i]]
    BY <1>2
  <2> QED BY <2>1 DEF Listed
<1> QED BY <1>1, <1>2

ClaimFields == {"run", "atom", "position", "text", "status"}
Commands == {"id", "blind", "found", "during"}

\* A command under way knows of every approved claim its own contradicts, or
\* that claim was approved since the command began, or its pre-check failed.
Warned(a) ==
    LET c == desk[a].id IN
    /\ DOMAIN desk[a] = Commands /\ c \in Ids
    /\ \A d \in Approved : d # c /\ Contradict(claims[c], claims[d]) =>
         desk[a].blind \/ d \in desk[a].during
         \/ \E f \in desk[a].found : Names(f, c, d)

GateInv ==
    /\ Listed(claims) /\ \A c \in Ids : DOMAIN claims[c] = ClaimFields
    /\ DOMAIN desk = Desks
    /\ \A a \in Desks : desk[a] = AtRest \/ Warned(a)
    /\ DOMAIN pc = Tasks /\ DOMAIN doc = Tasks
    /\ \A t \in Tasks : pc[t] \in {"verify", "submit"} => Listed(doc[t].claims)
    /\ UntoldConflictsOverlapped

LEMMA ContradictIsSymmetric ==
  ASSUME NEW c, NEW d, Contradict(c, d) PROVE Contradict(d, c)
<1>1. \A R, x, y : Either(R, x, y) => Either(R, y, x)
  BY DEF Either
<1>2. Opposite(c.position, d.position) => Opposite(d.position, c.position)
  <2>1. {c.position, d.position} = {d.position, c.position}
    OBVIOUS
  <2> QED BY <2>1 DEF Opposite
<1> QED BY <1>1, <1>2 DEF Contradict

\* The comparator finds every contradiction.
LEMMA PreCheckFinds ==
  ASSUME NEW c \in Ids, NEW d \in Approved,
         Contradict(claims[c], claims[d])
  PROVE  \E f \in Found({c}) : Names(f, c, d)
<1>1. Kind(claims[c], claims[d]) # "none"
  BY DEF Kind, Contradict
<1>2. <<c, d>> \in {x \in {c} \X Approved :
                       Kind(claims[x[1]], claims[x[2]]) # "none"}
  BY <1>1
<1>3. [a |-> c, b |-> d, kind |-> Kind(claims[c], claims[d])] \in Found({c})
  BY <1>2 DEF Found
<1> QED BY <1>3 DEF Names

LEMMA GateInit == ASSUME NEW ts, InitOf(ts) PROVE GateInv
<1>1. claims = <<>> /\ Listed(claims)
  <2>1. claims = <<>>
    BY DEF InitOf, MemoryInit
  <2>2. claims \in Seq({})
    BY <2>1
  <2> QED BY <2>1, <2>2, ListedIsSeq
<1>2. \A a \in Desks : desk[a] = AtRest
  BY DEF InitOf, MemoryInit
<1>3. /\ DOMAIN pc = Tasks /\ DOMAIN doc = Tasks
      /\ \A t \in Tasks : pc[t] \notin {"verify", "submit"}
  BY DEF InitOf, Tasks
<1>4. DOMAIN desk = Desks
  BY DEF InitOf, MemoryInit
<1> QED BY <1>1, <1>2, <1>3, <1>4
        DEF GateInv, Ids, Approved, UntoldConflictsOverlapped

\* No step changes what a claim says.
Said ==
    \A c \in Ids :
        /\ c \in Ids'
        /\ claims'[c].run = claims[c].run /\ claims'[c].atom = claims[c].atom
        /\ claims'[c].position = claims[c].position /\ claims'[c].text = claims[c].text

LEMMA StillContradict ==
  ASSUME Said, NEW c \in Ids, NEW d \in Ids
  PROVE  Contradict(claims'[c], claims'[d]) <=> Contradict(claims[c], claims[d])
BY DEF Said, Contradict

LEMMA SubmitKeeps ==
  ASSUME GateInv, NEW run, NEW atom, NEW position, NEW texts, Listed(texts),
         Submit(run, atom, position, texts)
  PROVE  /\ Listed(claims)' /\ \A c \in Ids' : DOMAIN claims'[c] = ClaimFields
         /\ Said /\ Approved' = Approved
         /\ \A c \in Ids' \ Ids :
              /\ claims'[c].run = run /\ claims'[c].atom = atom
              /\ \E i \in DOMAIN texts : claims'[c].text = texts[i]
<1> DEFINE row(i) == [run |-> run, atom |-> atom, position |-> position,
                      text |-> texts[i], status |-> "pending"]
           new == [i \in DOMAIN texts |-> row(i)]
<1>1. PICK n \in Nat : claims = [i \in 1 .. n |-> claims[i]]
  BY DEF GateInv, Listed
<1>2. PICK m \in Nat : texts = [i \in 1 .. m |-> texts[i]]
  BY DEF Listed
<1>3. DOMAIN texts = 1 .. m
  BY <1>2
<1>4. new = [i \in 1 .. m |-> row(i)]
  BY <1>3
<1>5. \E S : claims \in Seq(S)
  BY ListedIsSeq DEF GateInv
<1>6. \E S : new \in Seq(S)
  <2>1. new = [i \in 1 .. m |-> new[i]]
    BY <1>4
  <2>2. Listed(new)
    BY <2>1 DEF Listed
  <2> HIDE DEF new
  <2> QED BY <2>2, ListedIsSeq
<1>7. claims' = claims \o new
  BY DEF Submit
<1> HIDE DEF new
<1>8. PICK S : claims \in Seq(S)
  BY <1>5
<1>9. PICK T : new \in Seq(T)
  BY <1>6
<1>10. claims \in Seq(S \cup T) /\ new \in Seq(S \cup T)
  BY <1>8, <1>9, SeqMonotonic
<1>11. Len(claims) = n /\ Len(new) = m
  BY <1>1, <1>4, <1>8, <1>9
<1>12. /\ claims' \in Seq(S \cup T) /\ Len(claims') = n + m
       /\ \A i \in 1 .. n + m : claims'[i] = IF i <= n THEN claims[i] ELSE new[i - n]
  BY <1>7, <1>10, <1>11, ConcatProperties
<1>13. Listed(claims)'
  BY <1>12, ListedIsSeq
<1>14. Ids = 1 .. n /\ Ids' = 1 .. n + m
  BY <1>1, <1>12 DEF Ids
<1>15. ASSUME NEW i \in 1 .. n + m, ~(i <= n)
       PROVE  /\ claims'[i].status = "pending" /\ DOMAIN claims'[i] = ClaimFields
              /\ claims'[i].run = run /\ claims'[i].atom = atom
              /\ \E j \in DOMAIN texts : claims'[i].text = texts[j]
  <2>1. i - n \in 1 .. m
    BY <1>15
  <2>2. claims'[i] = row(i - n)
    BY <1>4, <1>12, <1>15, <2>1
  <2> QED BY <1>3, <2>1, <2>2 DEF ClaimFields
<1>16. \A i \in 1 .. n : i \in 1 .. n + m /\ claims'[i] = claims[i]
  BY <1>12
<1>17. Said
  BY <1>14, <1>16 DEF Said
<1>18. \A c \in Ids' : DOMAIN claims'[c] = ClaimFields
  <2> SUFFICES ASSUME NEW c \in 1 .. n + m PROVE DOMAIN claims'[c] = ClaimFields
    BY <1>14
  <2>1. CASE c <= n
    BY <1>14, <1>16, <2>1 DEF GateInv
  <2>2. CASE ~(c <= n)
    BY <1>15, <2>2
  <2> QED BY <2>1, <2>2
<1>19. Approved' = Approved
  <2>1. Approved' = {d \in 1 .. n + m : claims'[d].status = "approved"}
    BY <1>14 DEF Approved
  <2>2. Approved = {d \in 1 .. n : claims[d].status = "approved"}
    BY <1>14 DEF Approved
  <2>3. ASSUME NEW d \in 1 .. n + m, claims'[d].status = "approved" PROVE d \in 1 .. n
    BY <1>15, <2>3
  <2> QED BY <1>16, <2>1, <2>2, <2>3
<1>20. \A c \in Ids' \ Ids : c \in 1 .. n + m /\ ~(c <= n)
  BY <1>14
<1> QED BY <1>13, <1>15, <1>17, <1>18, <1>19, <1>20

LEMMA UpdateKeeps ==
  ASSUME GateInv, NEW c \in Ids, NEW to \in {"approved", "rejected"},
         claims' = Update(c, to)
  PROVE  /\ Listed(claims)' /\ \A d \in Ids' : DOMAIN claims'[d] = ClaimFields
         /\ Said
         /\ Approved' = IF claims[c].status = "pending" /\ to = "approved"
                             THEN Approved \cup {c} ELSE Approved
<1> DEFINE v == IF claims[c].status = "pending" THEN to ELSE claims[c].status
<1>1. claims' = [claims EXCEPT ![c] = [claims[c] EXCEPT !.status = v]]
  BY DEF Update
<1>2. PICK n \in Nat : claims = [i \in 1 .. n |-> claims[i]]
  BY DEF GateInv, Listed
<1>3. Ids = 1 .. n /\ Ids' = 1 .. n
  BY <1>1, <1>2 DEF Ids
<1> HIDE DEF v
<1>4. /\ claims'[c] = [claims[c] EXCEPT !.status = v]
      /\ \A d \in 1 .. n : d # c => claims'[d] = claims[d]
  BY <1>1, <1>3 DEF Ids
<1>5. DOMAIN claims[c] = ClaimFields
  BY DEF GateInv
<1>6. /\ DOMAIN claims'[c] = ClaimFields /\ claims'[c].status = v
      /\ claims'[c].run = claims[c].run /\ claims'[c].atom = claims[c].atom
      /\ claims'[c].position = claims[c].position /\ claims'[c].text = claims[c].text
  BY <1>4, <1>5 DEF ClaimFields
<1>7. Listed(claims)'
  <2>1. claims' = [i \in 1 .. n |-> claims'[i]]
    BY <1>1, <1>3 DEF Ids
  <2> QED BY <2>1 DEF Listed
<1>8. Said
  BY <1>3, <1>4, <1>6 DEF Said
<1>9. \A d \in Ids' : DOMAIN claims'[d] = ClaimFields
  BY <1>3, <1>4, <1>6 DEF GateInv
<1>10. Approved' = {d \in 1 .. n : claims'[d].status = "approved"}
       /\ Approved = {d \in 1 .. n : claims[d].status = "approved"}
  BY <1>3 DEF Approved
<1>11. CASE claims[c].status = "pending" /\ to = "approved"
  <2>1. claims'[c].status = "approved"
    BY <1>6, <1>11 DEF v
  <2> QED BY <1>3, <1>4, <1>7, <1>8, <1>9, <1>10, <1>11, <2>1
<1>12. CASE ~(claims[c].status = "pending" /\ to = "approved")
  <2>1. claims'[c].status = "approved" <=> claims[c].status = "approved"
    BY <1>6, <1>12 DEF v
  <2> QED BY <1>3, <1>4, <1>7, <1>8, <1>9, <1>10, <1>12, <2>1
<1> QED BY <1>11, <1>12

LEMMA WarnedStays ==
  ASSUME GateInv, Said, Approved' = Approved, NEW a \in Desks,
         desk'[a] = desk[a]
  PROVE  (desk[a] = AtRest \/ Warned(a))'
<1>1. CASE desk[a] = AtRest
  BY <1>1 DEF AtRest
<1>2. CASE Warned(a)
  <2> DEFINE c == desk[a].id
  <2>1. DOMAIN desk'[a] = Commands /\ c \in Ids' /\ c \in Ids
    BY <1>2 DEF Warned, Said
  <2>2. ASSUME NEW d \in Approved', d # c, Contradict(claims'[c], claims'[d])
        PROVE  desk[a].blind \/ d \in desk[a].during
               \/ \E f \in desk[a].found : Names(f, c, d)
    <3>1. d \in Approved /\ d \in Ids
      BY <2>2 DEF Approved
    <3>2. Contradict(claims[c], claims[d])
      BY <2>1, <2>2, <3>1, StillContradict
    <3> QED BY <1>2, <2>2, <3>1, <3>2 DEF Warned
  <2> QED BY <2>1, <2>2 DEF Warned, Names
<1> QED BY <1>1, <1>2 DEF GateInv

LEMMA ToldStays ==
  ASSUME GateInv, Said, Approved' = Approved,
         told \subseteq told', conflicts \subseteq conflicts'
  PROVE  UntoldConflictsOverlapped'
<1> SUFFICES ASSUME NEW c \in Approved', NEW d \in Approved', c # d,
                    Contradict(claims'[c], claims'[d])
             PROVE  \/ \E x \in conflicts' : Names(x.x, c, d)
                    \/ \E t \in told' :
                         \/ \E f \in t.found : Names(f, c, d)
                         \/ t.id \in {c, d} /\ (t.blind \/ t.during \cap {c, d} # {})
  BY DEF UntoldConflictsOverlapped, Names
<1>1. c \in Approved /\ d \in Approved /\ c \in Ids /\ d \in Ids
  BY DEF Approved
<1>2. Contradict(claims[c], claims[d])
  BY <1>1, StillContradict
<1>3. \/ \E x \in conflicts : Names(x.x, c, d)
      \/ \E t \in told :
           \/ \E f \in t.found : Names(f, c, d)
           \/ t.id \in {c, d} /\ (t.blind \/ t.during \cap {c, d} # {})
  BY <1>1, <1>2 DEF GateInv, UntoldConflictsOverlapped
<1> QED BY <1>3

DocFields == {"heading", "position", "confidence", "sections", "literal", "malformed",
              "claims", "sources", "cites", "contradictions", "dense", "answers"}
SourceFields == {"id", "kind", "names", "cites"}
\* Each names finitely many claims.
AreSources(ss) ==
    Listed(ss) /\ \A i \in DOMAIN ss : DOMAIN ss[i] = SourceFields /\ IsFiniteSet(ss[i].names)
IsDoc(d) ==
    /\ DOMAIN d = DocFields /\ Listed(d.claims) /\ AreSources(d.sources) /\ Listed(d.cites)
    /\ d.position \in {"absent", "supported", "refuted", "inconclusive"}

LEMMA DocumentsAreWritten ==
  ASSUME NEW x \in Documents
  PROVE  IsDoc(x)
<1> DEFINE S == [id : Nat, kind : {"web", "file", "gone"},
                 names : {ns \in SUBSET Nat : IsFiniteSet(ns)}, cites : Nat]
<1>1. x \in VerdictDocument
  BY DocumentsAssumption
<1>2. DOMAIN x = DocFields /\ x.position \in {"absent", "supported", "refuted", "inconclusive"}
  BY <1>1 DEF VerdictDocument, DocFields
<1>3. /\ x.claims \in Seq([id : Nat, text : Texts, srcs : SUBSET Nat])
      /\ x.sources \in Seq(S) /\ x.cites \in Seq([claim : Nat, src : Nat, span : STRING])
  BY <1>1 DEF VerdictDocument
<1>4. \A s \in S : DOMAIN s = SourceFields /\ IsFiniteSet(s.names)
  BY DEF SourceFields
<1> HIDE DEF S
<1>5. \A i \in DOMAIN x.sources : x.sources[i] \in S
  BY <1>3, LenProperties, ElementOfSeq
<1>6. Listed(x.claims) /\ Listed(x.sources) /\ Listed(x.cites)
  BY <1>3, ListedIsSeq
<1> QED BY <1>2, <1>4, <1>5, <1>6 DEF IsDoc, AreSources

\* Lists stay lists when their entries are rewritten.
LEMMA RewrittenIsListed ==
  ASSUME NEW s, Listed(s), NEW new, DOMAIN new = DOMAIN s,
         new = [i \in DOMAIN s |-> new[i]]
  PROVE  Listed(new)
<1>1. PICK n \in Nat : s = [i \in 1 .. n |-> s[i]]
  BY DEF Listed
<1>2. DOMAIN s = 1 .. n
  BY <1>1
<1> QED BY <1>2 DEF Listed

LEMMA RepairedIsDoc ==
  ASSUME NEW x, IsDoc(x)
  PROVE  IsDoc(Repaired(Normalized(x)))
<1> USE DEF IsDoc, DocFields
<1>1. IsDoc(Normalized(x))
  BY DEF Normalized
<1>2. ASSUME NEW d, IsDoc(d) PROVE IsDoc(Renumbered(d))
  <2> DEFINE src == [i \in DOMAIN d.sources |-> [d.sources[i] EXCEPT !.id = i]]
             said == [i \in DOMAIN d.claims |->
                        [d.claims[i] EXCEPT !.id = i,
                           !.srcs = IF @ = {} THEN {} ELSE {Len(d.sources) + i}]]
             cit == [i \in DOMAIN d.cites |-> [d.cites[i] EXCEPT !.claim = i, !.src = i]]
  <2>1. CASE d.literal
    <3>1. Renumbered(d) = [d EXCEPT !.literal = FALSE, !.sources = src,
                                         !.claims = said, !.cites = cit]
      BY <2>1 DEF Renumbered
    <3>2. Listed(said)
      <4>1. DOMAIN said = DOMAIN d.claims /\ said = [i \in DOMAIN d.claims |-> said[i]]
        OBVIOUS
      <4> HIDE DEF said
      <4> QED BY <1>2, <4>1, RewrittenIsListed
    <3>3. AreSources(src)
      <4>1. DOMAIN src = DOMAIN d.sources /\ src = [i \in DOMAIN d.sources |-> src[i]]
        OBVIOUS
      <4>2. ASSUME NEW i \in DOMAIN src
            PROVE  DOMAIN src[i] = SourceFields /\ src[i].names = d.sources[i].names
        <5>1. i \in DOMAIN d.sources /\ DOMAIN d.sources[i] = SourceFields
          BY <1>2 DEF AreSources
        <5>2. src[i] = [d.sources[i] EXCEPT !.id = i]
          BY <5>1
        <5> HIDE DEF src
        <5> QED BY <5>1, <5>2 DEF SourceFields
      <4> HIDE DEF src
      <4>3. Listed(src)
        BY <1>2, <4>1, RewrittenIsListed DEF AreSources
      <4> QED BY <1>2, <4>1, <4>2, <4>3 DEF AreSources
    <3>4. Listed(cit)
      <4>1. DOMAIN cit = DOMAIN d.cites /\ cit = [i \in DOMAIN d.cites |-> cit[i]]
        OBVIOUS
      <4> HIDE DEF cit
      <4> QED BY <1>2, <4>1, RewrittenIsListed
    <3> HIDE DEF src, said, cit
    <3> QED BY <1>2, <3>1, <3>2, <3>3, <3>4
  <2>2. CASE ~d.literal
    BY <1>2, <2>2 DEF Renumbered
  <2> QED BY <2>1, <2>2
<1>3. ASSUME NEW d, IsDoc(d) PROVE IsDoc(WithLines(d))
  BY <1>3 DEF WithLines
<1>4. ASSUME NEW d, IsDoc(d) PROVE IsDoc(WithSections(d))
  <2>1. \E src, new, con, cit :
          /\ WithSections(d) = [d EXCEPT !.sections = Sections, !.sources = src,
                                       !.claims = new, !.contradictions = con, !.cites = cit]
          /\ Listed(new) /\ AreSources(src) /\ Listed(cit)
    <3> DEFINE lacks(s) == s \notin d.sections
               old == IF lacks("Sources") THEN <<>> ELSE d.sources
               cited == IF old = <<>> THEN {1} ELSE IdsOf(old)
               web == [id |-> 1, kind |-> "web", names |-> {}, cites |-> 0]
               first == Files([d EXCEPT !.sources = old])
               src == IF lacks("Sources") THEN <<web>> ELSE d.sources
               one == [id |-> 1, text |-> "placeholder", srcs |-> cited]
               new == IF lacks("Claims") THEN <<one>> ELSE d.claims
               con == IF lacks("Contradictions") THEN {} ELSE d.contradictions
               cit == IF ~lacks("Citations") THEN d.cites
                      ELSE Append(d.cites,
                             IF first = <<>> THEN [claim |-> 1, src |-> 1, span |-> "placeholder"]
                             ELSE [claim |-> 1, src |-> first[1].id, span |-> "placeholder"])
    <3>1. WithSections(d) = [d EXCEPT !.sections = Sections, !.sources = src,
                                     !.claims = new, !.contradictions = con, !.cites = cit]
      BY DEF WithSections
    <3>2. Listed(new)
      <4>1. <<one>> \in Seq({one})
        OBVIOUS
      <4>2. Listed(<<one>>)
        BY <4>1, ListedIsSeq
      <4> QED BY <1>4, <4>2
    <3>3. AreSources(src)
      <4>1. <<web>> \in Seq({web}) /\ DOMAIN <<web>> = {1} /\ <<web>>[1] = web
        OBVIOUS
      <4>2. Listed(<<web>>)
        BY <4>1, ListedIsSeq
      <4>3. IsFiniteSet({})
        BY FS_EmptySet
      <4>4. DOMAIN web = SourceFields /\ web.names = {}
        BY DEF SourceFields
      <4> HIDE DEF web
      <4>5. AreSources(<<web>>)
        BY <4>1, <4>2, <4>3, <4>4 DEF AreSources
      <4> QED BY <1>4, <4>5
    <3>4. Listed(cit)
      <4> DEFINE line == IF first = <<>> THEN [claim |-> 1, src |-> 1, span |-> "placeholder"]
                         ELSE [claim |-> 1, src |-> first[1].id, span |-> "placeholder"]
      <4>1. PICK S : d.cites \in Seq(S)
        BY <1>4, ListedIsSeq
      <4> HIDE DEF line
      <4>2. d.cites \in Seq(S \cup {line})
        BY <4>1, InMore
      <4>3. Append(d.cites, line) \in Seq(S \cup {line})
        BY <4>2
      <4>4. Listed(Append(d.cites, line))
        BY <4>3, ListedIsSeq
      <4> QED BY <1>4, <4>4 DEF line
    <3> HIDE DEF src, new, con, cit
    <3> QED BY <3>1, <3>2, <3>3, <3>4
  <2> QED BY <1>4, <2>1
<1>5. ASSUME NEW d, IsDoc(d) PROVE IsDoc(WithSpans(d))
  <2> DEFINE readable(s) == \E i \in DOMAIN d.sources : d.sources[i].id = s /\ d.sources[i].kind = "file"
             cit == [i \in DOMAIN d.cites |->
                       IF readable(d.cites[i].src) THEN [d.cites[i] EXCEPT !.span = "matching"] ELSE d.cites[i]]
  <2>1. WithSpans(d) = [d EXCEPT !.cites = cit]
    BY DEF WithSpans
  <2>2. DOMAIN cit = DOMAIN d.cites /\ cit = [i \in DOMAIN d.cites |-> cit[i]]
    OBVIOUS
  <2> HIDE DEF cit
  <2>3. Listed(cit)
    BY <1>5, <2>2, RewrittenIsListed
  <2> QED BY <1>5, <2>1, <2>3
<1> QED BY <1>1, <1>2, <1>3, <1>4, <1>5 DEF Repaired

\* What a list is mapped to is finite.

LEMMA ApproveWarns ==
  ASSUME GateInv, NEW a \in Desks, Approve(a)
  PROVE  /\ Listed(claims)' /\ \A c \in Ids' : DOMAIN claims'[c] = ClaimFields
         /\ DOMAIN desk' = Desks
         /\ \A b \in Desks : (desk[b] = AtRest \/ Warned(b))'
         /\ UntoldConflictsOverlapped'
<1> DEFINE c == desk[a].id
           ok == claims[c].status = "pending"
<1>1. Warned(a) /\ c \in Ids
  BY DEF GateInv, Approve, Warned
<1>2. /\ claims' = Update(c, "approved")
      /\ told' = IF ok THEN told \cup {desk[a]} ELSE told
      /\ desk' = [b \in Desks |->
                    IF b = a THEN AtRest
                    ELSE IF ok /\ desk[b] # AtRest
                         THEN [desk[b] EXCEPT !.during = @ \cup {c}] ELSE desk[b]]
      /\ conflicts' = conflicts
  BY DEF Approve
<1>3. /\ Listed(claims)' /\ \A d \in Ids' : DOMAIN claims'[d] = ClaimFields
      /\ Said
      /\ Approved' = IF ok THEN Approved \cup {c} ELSE Approved
  BY <1>1, <1>2, UpdateKeeps
<1>4. ASSUME NEW b \in Desks PROVE (desk[b] = AtRest \/ Warned(b))'
  <2>1. CASE b = a
    BY <1>2, <2>1 DEF AtRest
  <2>2. CASE b # a /\ (~ok \/ desk[b] = AtRest)
    <3>1. desk'[b] = desk[b]
      BY <1>2, <2>2
    <3>2. CASE ~ok
      BY <1>3, <3>1, <3>2, WarnedStays
    <3>3. CASE desk[b] = AtRest
      BY <3>1, <3>3 DEF AtRest
    <3> QED BY <2>2, <3>2, <3>3
  <2>3. CASE b # a /\ ok /\ desk[b] # AtRest
    <3> DEFINE e == desk[b].id
    <3>1. desk'[b] = [desk[b] EXCEPT !.during = @ \cup {c}]
      BY <1>2, <2>3
    <3>2. Warned(b) /\ e \in Ids /\ e \in Ids'
      BY <1>3, <2>3 DEF GateInv, Warned, Said
    <3>3. /\ DOMAIN desk'[b] = Commands /\ desk'[b].id = e
          /\ desk'[b].blind = desk[b].blind /\ desk'[b].found = desk[b].found
          /\ desk'[b].during = desk[b].during \cup {c}
      BY <3>1, <3>2 DEF Warned, Commands
    <3>4. ASSUME NEW d \in Approved', d # e, Contradict(claims'[e], claims'[d])
          PROVE  desk[b].blind \/ d \in desk[b].during \cup {c}
                 \/ \E f \in desk[b].found : Names(f, e, d)
      <4>1. CASE d = c
        BY <4>1
      <4>2. CASE d # c
        <5>1. d \in Approved /\ d \in Ids
          BY <1>3, <2>3, <3>4, <4>2 DEF Approved
        <5>2. Contradict(claims[e], claims[d])
          BY <1>3, <3>2, <3>4, <5>1, StillContradict
        <5> QED BY <3>2, <3>4, <5>1, <5>2 DEF Warned
      <4> QED BY <4>1, <4>2
    <3> QED BY <3>2, <3>3, <3>4 DEF Warned, Names
  <2> QED BY <2>1, <2>2, <2>3
<1>5. UntoldConflictsOverlapped'
  <2>1. CASE ~ok
    BY <1>2, <1>3, <2>1, ToldStays
  <2>2. CASE ok
    <3> DEFINE Told(p, q) ==
          \/ \E x \in conflicts' : Names(x.x, p, q)
          \/ \E t \in told' :
               \/ \E f \in t.found : Names(f, p, q)
               \/ t.id \in {p, q} /\ (t.blind \/ t.during \cap {p, q} # {})
    <3>1. ASSUME NEW d \in Approved, d # c, Contradict(claims[c], claims[d])
          PROVE  Told(c, d) /\ Told(d, c)
      <4>1. desk[a] \in told' /\ desk[a].id = c
        BY <1>2, <2>2
      <4>2. desk[a].blind \/ d \in desk[a].during
            \/ \E f \in desk[a].found : Names(f, c, d)
        BY <1>1, <3>1 DEF Warned
      <4>3. \A f : Names(f, c, d) => Names(f, d, c)
        BY DEF Names
      <4> QED BY <4>1, <4>2, <4>3
    <3>2. ASSUME NEW p \in Approved, NEW q \in Approved, p # q,
                 Contradict(claims[p], claims[q])
          PROVE  Told(p, q)
      <4>1. \/ \E x \in conflicts : Names(x.x, p, q)
            \/ \E t \in told :
                 \/ \E f \in t.found : Names(f, p, q)
                 \/ t.id \in {p, q} /\ (t.blind \/ t.during \cap {p, q} # {})
        BY <3>2 DEF GateInv, UntoldConflictsOverlapped
      <4>2. told \subseteq told' /\ conflicts' = conflicts
        BY <1>2
      <4> QED BY <4>1, <4>2
    <3> HIDE DEF Told
    <3>3. ASSUME NEW p \in Approved', NEW q \in Approved', p # q,
                 Contradict(claims'[p], claims'[q])
          PROVE  Told(p, q)
      <4>1. /\ p \in Approved \cup {c} /\ q \in Approved \cup {c}
            /\ p \in Ids /\ q \in Ids
        BY <1>1, <1>3, <2>2, <3>3 DEF Approved
      <4>2. Contradict(claims[p], claims[q]) /\ Contradict(claims[q], claims[p])
        BY <1>3, <3>3, <4>1, StillContradict, ContradictIsSymmetric
      <4>3. CASE p = c
        BY <3>1, <3>3, <4>1, <4>2, <4>3
      <4>4. CASE q = c
        BY <3>1, <3>3, <4>1, <4>2, <4>4
      <4>5. CASE p # c /\ q # c
        BY <3>2, <3>3, <4>1, <4>2, <4>5
      <4> QED BY <4>3, <4>4, <4>5
    <3> QED BY <3>3 DEF Told, UntoldConflictsOverlapped, Names
  <2> QED BY <2>1, <2>2
<1>6. DOMAIN desk' = Desks
  BY <1>2
<1> QED BY <1>3, <1>4, <1>5, <1>6

\* The part of the invariant about the tasks, and the part about the memory.
TasksGoOn ==
    /\ DOMAIN pc = Tasks /\ DOMAIN doc = Tasks
    /\ \A t \in Tasks : pc[t] \in {"verify", "submit"} => Listed(doc[t].claims)

MemoryGoesOn ==
    /\ Listed(claims) /\ \A c \in Ids : DOMAIN claims[c] = ClaimFields
    /\ DOMAIN desk = Desks
    /\ \A a \in Desks : desk[a] = AtRest \/ Warned(a)
    /\ UntoldConflictsOverlapped

LEMMA MemoryRests ==
  ASSUME GateInv, UNCHANGED memory PROVE MemoryGoesOn'
BY DEF GateInv, MemoryGoesOn, memory, Ids, Approved, Warned,
       UntoldConflictsOverlapped

LEMMA MemoryStep ==
  ASSUME GateInv, MemoryNext PROVE MemoryGoesOn'
<1>1. ASSUME NEW a \in Desks, NEW c \in Ids, PreCheck(a, c)
      PROVE  MemoryGoesOn'
  <2>1. PICK blind \in BOOLEAN :
          desk' = [desk EXCEPT ![a] = [id |-> c, blind |-> blind,
                     found |-> IF blind THEN {} ELSE Found({c}), during |-> {}]]
    BY <1>1 DEF PreCheck
  <2>2. UNCHANGED <<claims, conflicts, told>> /\ DOMAIN desk = Desks
    BY <1>1 DEF PreCheck, GateInv
  <2>3. Said /\ Approved' = Approved /\ Ids' = Ids
    BY <2>2 DEF Said, Approved, Ids
  <2>4. UntoldConflictsOverlapped'
    BY <2>2, <2>3, ToldStays
  <2>5. Warned(a)'
    <3>1. /\ DOMAIN desk'[a] = Commands /\ desk'[a].id = c /\ desk'[a].blind = blind
          /\ (~blind => desk'[a].found = Found({c}))
      BY <2>1, <2>2 DEF Commands
    <3>2. ASSUME NEW d \in Approved, Contradict(claims[c], claims[d]), ~blind
          PROVE  \E f \in desk'[a].found : Names(f, c, d)
      BY <3>1, <3>2, PreCheckFinds
    <3> QED BY <2>2, <2>3, <3>1, <3>2 DEF Warned, Names
  <2>6. ASSUME NEW b \in Desks, b # a PROVE (desk[b] = AtRest \/ Warned(b))'
    <3>1. desk'[b] = desk[b]
      BY <2>1, <2>6
    <3> QED BY <2>3, <3>1, WarnedStays
  <2> QED BY <2>1, <2>2, <2>3, <2>4, <2>5, <2>6 DEF MemoryGoesOn, GateInv
<1>2. ASSUME NEW a \in Desks, NEW c \in Ids, Reject(a, c)
      PROVE  MemoryGoesOn'
  <2>1. /\ claims' = Update(c, "rejected") /\ UNCHANGED <<conflicts, desk, told>>
    BY <1>2 DEF Reject
  <2>2. /\ Listed(claims)' /\ \A d \in Ids' : DOMAIN claims'[d] = ClaimFields
        /\ Said /\ Approved' = Approved
    BY <2>1, UpdateKeeps
  <2>3. UntoldConflictsOverlapped'
    BY <2>1, <2>2, ToldStays
  <2>4. \A b \in Desks : (desk[b] = AtRest \/ Warned(b))'
    BY <2>1, <2>2, WarnedStays
  <2> QED BY <2>1, <2>2, <2>3, <2>4 DEF MemoryGoesOn, GateInv
<1>3. ASSUME NEW a \in Desks, Approve(a) PROVE MemoryGoesOn'
  BY <1>3, ApproveWarns DEF MemoryGoesOn
<1>4. ASSUME NEW a \in Desks, Interrupt(a) PROVE MemoryGoesOn'
  <2>1. desk' = [desk EXCEPT ![a] = AtRest] /\ UNCHANGED <<claims, conflicts, told>>
        /\ DOMAIN desk = Desks
    BY <1>4 DEF Interrupt, GateInv
  <2>2. Said /\ Approved' = Approved /\ Ids' = Ids
    BY <2>1 DEF Said, Approved, Ids
  <2>3. UntoldConflictsOverlapped'
    BY <2>1, <2>2, ToldStays
  <2>4. ASSUME NEW b \in Desks PROVE (desk[b] = AtRest \/ Warned(b))'
    <3>1. CASE b = a
      BY <2>1, <3>1 DEF AtRest
    <3>2. CASE b # a
      BY <2>1, <2>2, <3>2, WarnedStays
    <3> QED BY <3>1, <3>2
  <2> QED BY <2>1, <2>2, <2>3, <2>4 DEF MemoryGoesOn, GateInv
<1> QED BY <1>1, <1>2, <1>3, <1>4 DEF MemoryNext

\* A step that adds claims or findings, and leaves the commands alone.
LEMMA MemoryGrows ==
  ASSUME GateInv, Listed(claims)', \A c \in Ids' : DOMAIN claims'[c] = ClaimFields,
         Said, Approved' = Approved, UNCHANGED <<desk, told>>,
         conflicts \subseteq conflicts'
  PROVE  MemoryGoesOn'
<1>1. UntoldConflictsOverlapped'
  BY ToldStays
<1>2. \A b \in Desks : (desk[b] = AtRest \/ Warned(b))'
  BY WarnedStays
<1> QED BY <1>1, <1>2 DEF MemoryGoesOn, GateInv

LEMMA TaskMoves ==
  ASSUME GateInv, NEW t \in Tasks, NEW l, Goto(t, l),
         l \notin {"verify", "submit"} \/ pc[t] = "verify", doc' = doc
  PROVE  TasksGoOn'
BY DEF GateInv, TasksGoOn, Goto

LEMMA HandlerStep ==
  ASSUME GateInv, NEW t \in Tasks,
         ResearchNext(t) \/ EditNext(t)
  PROVE  GateInv'
<1>1. MemoryGoesOn' /\ TasksGoOn' => GateInv'
  BY DEF MemoryGoesOn, TasksGoOn, GateInv
<1>2. CASE Guard(t) \/ GenerateRaises(t) \/ ScoreAndCommit(t)
           \/ Refused(t)
  <2>1. \E l \in {"generate", "FAILED", "COMMIT"} : Goto(t, l)
    BY <1>2 DEF Guard, GenerateRaises, ScoreAndCommit, Refused
  <2>2. UNCHANGED memory /\ doc' = doc
    BY <1>2 DEF Guard, GenerateRaises, ScoreAndCommit, Refused
  <2> QED BY <1>1, <2>1, <2>2, MemoryRests, TaskMoves
<1>3. CASE Generate(t)
  <2>1. PICK x \in Documents :
          LET d == Repaired(Normalized(x))  n == attempt[t] + 1 IN
           IF Accepted(n, d)
           THEN doc' = [doc EXCEPT ![t] = d] /\ Goto(t, "verify")
           ELSE /\ Goto(t, IF n < MaxGenerate THEN "generate" ELSE "FAILED")
                /\ doc' = doc
    BY <1>3 DEF Generate
  <2> DEFINE d == Repaired(Normalized(x))
  <2>2. IsDoc(d)
    BY RepairedIsDoc, DocumentsAreWritten
  <2>3. UNCHANGED memory
    BY <1>3 DEF Generate
  <2> HIDE DEF d
  <2>4. CASE doc' = [doc EXCEPT ![t] = d] /\ Goto(t, "verify")
    <3>1. TasksGoOn'
      BY <2>2, <2>4 DEF GateInv, TasksGoOn, Goto, IsDoc
    <3> QED BY <1>1, <2>3, <3>1, MemoryRests
  <2>5. CASE doc' = doc /\ \E l \in {"generate", "FAILED"} : Goto(t, l)
    BY <1>1, <2>3, <2>5, MemoryRests, TaskMoves
  <2> QED BY <2>1, <2>4, <2>5 DEF d
<1>4. CASE VerifySources(t)
  <2>1. pc[t] = "verify" /\ doc' = doc /\ UNCHANGED memory
        /\ \E l : Goto(t, l)
    BY <1>4 DEF VerifySources, At
  <2> QED BY <1>1, <2>1, MemoryRests, TaskMoves
<1>5. CASE SubmitClaims(t)
  <2>1. pc[t] = "submit" /\ doc' = doc
        /\ \E l \in {"compare", "score"} : Goto(t, l)
    BY <1>5 DEF SubmitClaims, At
  <2>2. TasksGoOn'
    BY <2>1, TaskMoves
  <2>3. CASE UNCHANGED memory
    BY <1>1, <2>2, <2>3, MemoryRests
  <2>4. CASE Submit(Run(t), Atom(t), doc[t].position,
                         [i \in DOMAIN doc[t].claims |-> doc[t].claims[i].text])
    <3> DEFINE said == [i \in DOMAIN doc[t].claims |-> doc[t].claims[i].text]
    <3>1. Listed(said)
      <4>1. Listed(doc[t].claims)
        BY <2>1 DEF GateInv
      <4>2. DOMAIN said = DOMAIN doc[t].claims
            /\ said = [i \in DOMAIN doc[t].claims |-> said[i]]
        OBVIOUS
      <4> HIDE DEF said
      <4> QED BY <4>1, <4>2, RewrittenIsListed
    <3>2. UNCHANGED <<conflicts, desk, told>>
      BY <2>4 DEF Submit
    <3>3. \E run, atom, position : Submit(run, atom, position, said)
      BY <2>4
    <3> HIDE DEF said
    <3>4. /\ Listed(claims)' /\ \A c \in Ids' : DOMAIN claims'[c] = ClaimFields
          /\ Said /\ Approved' = Approved
      BY <3>1, <3>3, SubmitKeeps
    <3> QED BY <1>1, <2>2, <3>2, <3>4, MemoryGrows
  <2> QED BY <1>5, <2>3, <2>4 DEF SubmitClaims
<1>6. CASE Compare(t)
  <2>1. doc' = doc /\ UNCHANGED memory /\ Goto(t, "persist")
    BY <1>6 DEF Compare
  <2> QED BY <1>1, <2>1, MemoryRests, TaskMoves
<1>7. CASE PersistFound(t)
  <2>1. doc' = doc /\ Goto(t, "score")
    BY <1>7 DEF PersistFound
  <2>2. TasksGoOn'
    BY <2>1, TaskMoves
  <2>3. CASE UNCHANGED memory
    BY <1>1, <2>2, <2>3, MemoryRests
  <2>4. CASE Persist(found[t])
    <3>1. UNCHANGED <<claims, desk, told>> /\ conflicts \subseteq conflicts'
      BY <2>4 DEF Persist
    <3>2. /\ Listed(claims)' /\ \A c \in Ids' : DOMAIN claims'[c] = ClaimFields
          /\ Said /\ Approved' = Approved
      BY <3>1 DEF GateInv, Ids, Said, Approved
    <3> QED BY <1>1, <2>2, <3>1, <3>2, MemoryGrows
  <2> QED BY <1>7, <2>3, <2>4 DEF PersistFound
<1>8. CASE Rejected(t) \/ Write(t) \/ ReadBack(t) \/ CommitEdit(t)
  <2>1. doc' = doc /\ UNCHANGED memory
    BY <1>8 DEF Rejected, Retries, Write, ReadBack, CommitEdit
  <2>2. \E l \in {"generate", "FAILED", "readback", "commitEdit", "commitUnread", "COMMIT"} :
          Goto(t, l)
    BY <1>8 DEF Rejected, Retries, Write, ReadBack, CommitEdit
  <2> QED BY <1>1, <2>1, <2>2, MemoryRests, TaskMoves
<1> QED BY <1>2, <1>3, <1>4, <1>5, <1>6, <1>7, <1>8
        DEF ResearchNext, EditNext

LEMMA GateStep ==
  ASSUME GateInv, [Next]_vars
  PROVE  GateInv'
<1>1. MemoryGoesOn' /\ TasksGoOn' => GateInv'
  BY DEF MemoryGoesOn, TasksGoOn, GateInv
<1>2. CASE UNCHANGED vars
  <2>1. UNCHANGED memory /\ UNCHANGED <<pc, doc>>
    BY <1>2 DEF vars, handlers
  <2>2. TasksGoOn'
    BY <2>1 DEF GateInv, TasksGoOn
  <2> QED BY <1>1, <2>1, <2>2, MemoryRests
<1>3. CASE MemoryNext /\ UNCHANGED handlers
  <2>1. TasksGoOn'
    BY <1>3 DEF GateInv, TasksGoOn, handlers
  <2> QED BY <1>1, <1>3, <2>1, MemoryStep
<1> QED BY <1>2, <1>3, HandlerStep DEF Next

\* Whichever tasks run and in however many shells people decide on claims: of
\* two approved claims that contradict each other someone was told, or the two
\* approvals overlapped, or the check before one of them failed.
THEOREM ConflictsAreTold ==
  ASSUME NEW ts \in SUBSET Tasks
  PROVE  InitOf(ts) /\ [][Next]_vars => []UntoldConflictsOverlapped
<1>1. InitOf(ts) => GateInv
  BY GateInit
<1>2. GateInv /\ [Next]_vars => GateInv'
  BY GateStep
<1>3. GateInv => UntoldConflictsOverlapped
  BY DEF GateInv
<1> QED BY <1>1, <1>2, <1>3, PTL

-----------------------------------------------------------------------------
(* The depth-first search for a ring of citations. *)

\* A finite set as a list has each of its elements.
LEMMA SetToSeqLists ==
  ASSUME NEW S, IsFiniteSet(S)
  PROVE  /\ SetToSeq(S) \in Seq(S)
         /\ \A x \in S : \E i \in 1 .. Len(SetToSeq(S)) : SetToSeq(S)[i] = x
<1> DEFINE n == Cardinality(S)
           s == SetToSeq(S)
<1>1. n \in Nat /\ ExistsBijection(1 .. n, S)
  BY FS_CardinalityType
<1>2. PICK f \in [1 .. n -> S] : \A a, b \in 1 .. n : f[a] = f[b] => a = b
  BY <1>1 DEF ExistsBijection, Bijection, Injection, Surjection, IsInjective
<1>3. f \in [1 .. n -> S] /\ IsInjective(f)
  BY <1>2 DEF IsInjective
<1>4. s \in [1 .. n -> S] /\ IsInjective(s)
  BY <1>3, Zenon DEF SetToSeq
<1> HIDE DEF n, s
<1>5. s \in Injection(1 .. n, S)
  BY <1>4 DEF Injection, IsInjective
<1>6. IsFiniteSet(1 .. n) /\ Cardinality(1 .. n) = n
  BY <1>1, FS_Interval
<1>7. s \in Surjection(1 .. n, S)
  BY <1>5, <1>6, FS_Injection DEF n
<1>8. s \in Seq(S) /\ Len(s) = n
  BY <1>1, <1>4, SeqDef, LenProperties
<1> QED BY <1>7, <1>8 DEF Surjection, s

-----------------------------------------------------------------------------
(* The search, given what it does on each node. *)

Whites(ns, a) == {v \in ns : a.color[v] = "white"}
Grays(ns, a) == {v \in ns : a.color[v] = "gray"}
Blacks(ns, a) == {v \in ns : a.color[v] = "black"}

\* What a search makes of every state it may find.
Searchers(ns) == [ns -> [Searches(ns) -> Searches(ns)]]

\* The loop behind VisitAll.
Visits(g, acc, vs, after) ==
    after[0] = acc /\ \A n \in 1 .. Len(vs) : after[n] = Visit(g, after[n - 1], vs[n])

LEMMA VisitAllIs ==
  ASSUME NEW g, NEW acc, NEW vs, Len(vs) \in Nat, NEW D, NEW after \in [0 .. Len(vs) -> D],
         Visits(g, acc, vs, after)
  PROVE  VisitAll(g, acc, vs) = after[Len(vs)]
<1> DEFINE loop == CHOOSE f : f = [n \in 0 .. Len(vs) |->
                                     IF n = 0 THEN acc ELSE Visit(g, f[n - 1], vs[n])]
<1>1. after = [n \in 0 .. Len(vs) |-> IF n = 0 THEN acc ELSE Visit(g, after[n - 1], vs[n])]
  <2> HIDE DEF loop
  <2>1. \A n \in 0 .. Len(vs) : after[n] = IF n = 0 THEN acc ELSE Visit(g, after[n - 1], vs[n])
    <3> TAKE n \in 0 .. Len(vs)
    <3>1. CASE n = 0
      BY <3>1 DEF Visits
    <3>2. CASE n \in 1 .. Len(vs)
      <4>1. n # 0
        BY <3>2
      <4>2. after[n] = Visit(g, after[n - 1], vs[n])
        BY <3>2 DEF Visits
      <4> QED BY <4>1, <4>2, Zenon
    <3> QED BY <3>1, <3>2
  <2> QED BY <2>1
<1>2. loop = [n \in 0 .. Len(vs) |-> IF n = 0 THEN acc ELSE Visit(g, loop[n - 1], vs[n])]
  BY <1>1, Zenon
<1>3. VisitAll(g, acc, vs) = loop[Len(vs)]
  BY Zenon DEF VisitAll
<1> HIDE DEF loop
<1>4. \A n \in 0 .. Len(vs) : loop[n] = IF n = 0 THEN acc ELSE Visit(g, loop[n - 1], vs[n])
  BY <1>2, Zenon
<1> DEFINE N == {n \in Nat : n <= Len(vs) => loop[n] = after[n]}
<1>5. 0 \in N
  BY <1>4 DEF Visits
<1>6. ASSUME NEW n \in Nat, n \in N PROVE n + 1 \in N
  <2> SUFFICES ASSUME n + 1 <= Len(vs) PROVE loop[n + 1] = after[n + 1]
    OBVIOUS
  <2>1. n + 1 \in 1 .. Len(vs) /\ n + 1 \in 0 .. Len(vs) /\ n + 1 # 0 /\ (n + 1) - 1 = n
    OBVIOUS
  <2>2. loop[n] = after[n]
    BY <1>6
  <2>3. loop[n + 1] = Visit(g, loop[n], vs[n + 1])
    BY <1>4, <2>1, Zenon
  <2>4. after[n + 1] = Visit(g, after[n], vs[n + 1])
    BY <2>1 DEF Visits
  <2> QED BY <2>2, <2>3, <2>4, Zenon
<1> HIDE DEF N
<1>7. Len(vs) \in N
  BY <1>5, <1>6, Induction
<1> QED BY <1>3, <1>7 DEF N

LEMMA VisitType ==
  ASSUME NEW ns, NEW h \in Searchers(ns), NEW a \in Searches(ns), NEW v \in ns
  PROVE  Visit(h, a, v) \in Searches(ns)
<1>1. a.cyclic \in BOOLEAN /\ a.color[v] \in {"white", "gray", "black"}
  BY DEF Searches
<1>2. CASE a.cyclic \/ a.color[v] = "black"
  BY <1>1, <1>2 DEF Visit
<1>3. CASE ~a.cyclic /\ a.color[v] = "gray"
  <2>1. Visit(h, a, v) = [a EXCEPT !.cyclic = TRUE]
    BY <1>3 DEF Visit
  <2> QED BY <2>1 DEF Searches
<1>4. CASE ~a.cyclic /\ a.color[v] = "white"
  <2>1. Visit(h, a, v) = h[v][a]
    BY <1>4 DEF Visit
  <2> QED BY <2>1 DEF Searchers
<1> QED BY <1>1, <1>2, <1>3, <1>4

LEMMA VisitAllLoop ==
  ASSUME NEW ns, NEW h \in Searchers(ns), NEW acc \in Searches(ns), NEW vs \in Seq(ns)
  PROVE  \E after \in [0 .. Len(vs) -> Searches(ns)] :
            Visits(h, acc, vs, after) /\ VisitAll(h, acc, vs) = after[Len(vs)]
<1> DEFINE D == Searches(ns)
           step == [i \in 1 .. Len(vs) |-> [a \in D |-> Visit(h, a, vs[i])]]
<1>1. Len(vs) \in Nat /\ \A i \in 1 .. Len(vs) : vs[i] \in ns
  BY LenProperties, ElementOfSeq
<1>2. step \in [1 .. Len(vs) -> [D -> D]]
  <2>1. \A i \in 1 .. Len(vs), a \in D : Visit(h, a, vs[i]) \in D
    BY <1>1, VisitType
  <2> HIDE DEF D
  <2> QED BY <2>1
<1>3. PICK f : f \in [0 .. Len(vs) -> D] /\ f[0] = acc /\ \A i \in 1 .. Len(vs) : f[i] = step[i][f[i - 1]]
  <2>0. acc \in D
    OBVIOUS
  <2> HIDE DEF step, D
  <2>1. \E f : IsLoop(f, Len(vs), D, acc, step)
    BY <1>1, <1>2, <2>0, Recursion
  <2> QED BY <2>1 DEF IsLoop
<1>4. \A i \in 1 .. Len(vs) : f[i] = Visit(h, f[i - 1], vs[i])
  <2> TAKE i \in 1 .. Len(vs)
  <2>1. f[i - 1] \in D
    <3> HIDE DEF D, step
    <3> QED BY <1>1, <1>3
  <2> HIDE DEF D
  <2> QED BY <1>3, <2>1
<1>5. Visits(h, acc, vs, f)
  BY <1>3, <1>4 DEF Visits
<1> HIDE DEF step
<1>6. VisitAll(h, acc, vs) = f[Len(vs)]
  <2>1. f \in [0 .. Len(vs) -> Searches(ns)]
    BY <1>3
  <2> HIDE DEF D
  <2> QED BY <1>1, <1>5, <2>1, VisitAllIs, Zenon
<1> QED BY <1>3, <1>5, <1>6

\* A search makes no node white again.
Paints(ns, h) == \A u \in ns, a \in Searches(ns) : Whites(ns, h[u][a]) \subseteq Whites(ns, a)

LEMMA VisitPaints ==
  ASSUME NEW ns, NEW h \in Searchers(ns), Paints(ns, h), NEW a \in Searches(ns), NEW v \in ns
  PROVE  Whites(ns, Visit(h, a, v)) \subseteq Whites(ns, a)
<1>1. a.cyclic \in BOOLEAN /\ a.color[v] \in {"white", "gray", "black"}
  BY DEF Searches
<1>2. CASE a.cyclic \/ a.color[v] = "black"
  BY <1>1, <1>2 DEF Visit
<1>3. CASE ~a.cyclic /\ a.color[v] = "gray"
  <2>1. Visit(h, a, v) = [a EXCEPT !.cyclic = TRUE]
    BY <1>3 DEF Visit
  <2>2. Visit(h, a, v).color = a.color
    BY <2>1 DEF Searches
  <2> QED BY <2>2 DEF Whites
<1>4. CASE ~a.cyclic /\ a.color[v] = "white"
  <2>1. Visit(h, a, v) = h[v][a]
    BY <1>4 DEF Visit
  <2> QED BY <2>1 DEF Paints
<1> QED BY <1>1, <1>2, <1>3, <1>4

LEMMA VisitsPaint ==
  ASSUME NEW ns, NEW h \in Searchers(ns), Paints(ns, h), NEW acc \in Searches(ns), NEW vs \in Seq(ns),
         NEW after \in [0 .. Len(vs) -> Searches(ns)], Visits(h, acc, vs, after)
  PROVE  \A n \in 0 .. Len(vs) : Whites(ns, after[n]) \subseteq Whites(ns, acc)
<1> DEFINE N == {n \in Nat : n <= Len(vs) => Whites(ns, after[n]) \subseteq Whites(ns, acc)}
<1>1. Len(vs) \in Nat /\ \A i \in 1 .. Len(vs) : vs[i] \in ns
  BY LenProperties, ElementOfSeq
<1>2. 0 \in N
  BY DEF Visits
<1>3. ASSUME NEW n \in Nat, n \in N PROVE n + 1 \in N
  <2> SUFFICES ASSUME n + 1 <= Len(vs) PROVE Whites(ns, after[n + 1]) \subseteq Whites(ns, acc)
    OBVIOUS
  <2>1. n + 1 \in 1 .. Len(vs) /\ n \in 0 .. Len(vs) /\ (n + 1) - 1 = n
    BY <1>1
  <2>2. after[n + 1] = Visit(h, after[n], vs[n + 1])
    BY <2>1 DEF Visits
  <2>3. after[n] \in Searches(ns) /\ vs[n + 1] \in ns
    BY <1>1, <2>1
  <2>4. Whites(ns, after[n + 1]) \subseteq Whites(ns, after[n])
    BY <2>2, <2>3, VisitPaints
  <2>5. Whites(ns, after[n]) \subseteq Whites(ns, acc)
    BY <1>1, <1>3
  <2> QED BY <2>4, <2>5
<1> HIDE DEF N
<1>4. Nat \subseteq N
  BY <1>2, <1>3, Induction
<1> QED BY <1>1, <1>4 DEF N

-----------------------------------------------------------------------------
(* There is one search, since each call has fewer white nodes before it. *)

\* A graph over finitely many nodes.
IsGraph(G, ns) == IsFiniteSet(ns) /\ \A e \in G : e[1] \in ns /\ e[2] \in ns

LEMMA TargetsAreListed ==
  ASSUME NEW G, NEW ns, IsGraph(G, ns), NEW u
  PROVE  /\ Targets(G, u) \in Seq(ns)
         /\ \A e \in G : e[1] = u => \E i \in 1 .. Len(Targets(G, u)) : Targets(G, u)[i] = e[2]
<1> DEFINE T == {e[2] : e \in {x \in G : x[1] = u}}
<1>1. T \in SUBSET ns
  BY DEF IsGraph
<1>2. Targets(G, u) = SetToSeq(T)
  BY DEF Targets
<1>3. \A e \in G : e[1] = u => e[2] \in T
  OBVIOUS
<1> HIDE DEF T
<1>4. IsFiniteSet(T)
  BY <1>1, FS_Subset DEF IsGraph
<1>5. SetToSeq(T) \in Seq(T) /\ \A x \in T : \E i \in 1 .. Len(SetToSeq(T)) : SetToSeq(T)[i] = x
  BY <1>4, SetToSeqLists
<1>6. SetToSeq(T) \in Seq(ns)
  BY <1>1, <1>5, InMore
<1> QED BY <1>2, <1>3, <1>5, <1>6

\* What calls with fewer than n white nodes beside their own return.
Fewer(ns, a, u) == Cardinality(Whites(ns, a) \ {u})
Agree(ns, g, h, n) ==
    \A u \in ns, a \in Searches(ns) : Fewer(ns, a, u) < n => g[u][a] = h[u][a]

Grayed(acc, u) == [acc EXCEPT !.color[u] = "gray"]

LEMMA GrayedColor ==
  ASSUME NEW ns, NEW acc \in Searches(ns), NEW u \in ns
  PROVE  /\ Grayed(acc, u) \in Searches(ns)
         /\ Grayed(acc, u).cyclic = acc.cyclic
         /\ Grayed(acc, u).color = [acc.color EXCEPT ![u] = "gray"]
<1> DEFINE new == [acc.color EXCEPT ![u] = "gray"]
<1>1. acc \in [cyclic : BOOLEAN, color : [ns -> {"white", "gray", "black"}]]
  BY DEF Searches
<1>2. Grayed(acc, u) = [acc EXCEPT !.color = new]
  BY DEF Grayed
<1>3. new \in [ns -> {"white", "gray", "black"}]
  BY <1>1
<1> HIDE DEF new
<1>4. Grayed(acc, u) \in Searches(ns) /\ Grayed(acc, u).cyclic = acc.cyclic /\ Grayed(acc, u).color = new
  BY <1>1, <1>2, <1>3 DEF Searches
<1> QED BY <1>4 DEF new

LEMMA GrayedIsNotWhite ==
  ASSUME NEW ns, NEW acc \in Searches(ns), NEW u \in ns
  PROVE  Grayed(acc, u) \in Searches(ns) /\ Whites(ns, Grayed(acc, u)) = Whites(ns, acc) \ {u}
<1> DEFINE new == [acc.color EXCEPT ![u] = "gray"]
<1>1. acc.color \in [ns -> {"white", "gray", "black"}]
  BY DEF Searches
<1>2. Grayed(acc, u) \in Searches(ns) /\ Grayed(acc, u).color = new
  BY GrayedColor
<1>3. \A v \in ns : new[v] = "white" <=> acc.color[v] = "white" /\ v # u
  BY <1>1
<1> HIDE DEF new
<1> QED BY <1>2, <1>3 DEF Whites

LEMMA SearchAgrees ==
  ASSUME NEW G, NEW ns, IsGraph(G, ns), NEW h \in Searchers(ns), Paints(ns, h), NEW g,
         NEW n \in Nat, Agree(ns, g, h, n),
         NEW u \in ns, NEW acc \in Searches(ns), Fewer(ns, acc, u) <= n
  PROVE  Search(G, g, u, acc) = Search(G, h, u, acc)
<1> DEFINE vs == Targets(G, u)
           a0 == Grayed(acc, u)
<1>1. /\ vs \in Seq(ns) /\ Len(vs) \in Nat /\ \A i \in 1 .. Len(vs) : vs[i] \in ns
  <2>1. vs \in Seq(ns)
    BY TargetsAreListed
  <2> HIDE DEF vs
  <2> QED BY <2>1, LenProperties, ElementOfSeq
<1>2. a0 \in Searches(ns) /\ Whites(ns, a0) = Whites(ns, acc) \ {u}
  <2>1. Grayed(acc, u) \in Searches(ns) /\ Whites(ns, Grayed(acc, u)) = Whites(ns, acc) \ {u}
    BY GrayedIsNotWhite
  <2> QED BY <2>1
<1>3. /\ Search(G, g, u, acc) = LET after == VisitAll(g, a0, vs)
                             IN IF after.cyclic THEN after ELSE [after EXCEPT !.color[u] = "black"]
      /\ Search(G, h, u, acc) = LET after == VisitAll(h, a0, vs)
                             IN IF after.cyclic THEN after ELSE [after EXCEPT !.color[u] = "black"]
  BY DEF Search, Grayed
<1>4. Cardinality(Whites(ns, a0)) <= n
  BY <1>2 DEF Fewer
<1> HIDE DEF vs, a0
<1>5. PICK after \in [0 .. Len(vs) -> Searches(ns)] :
        Visits(h, a0, vs, after) /\ VisitAll(h, a0, vs) = after[Len(vs)]
  BY <1>1, <1>2, VisitAllLoop
<1>6. \A k \in 0 .. Len(vs) : Whites(ns, after[k]) \subseteq Whites(ns, a0)
  BY <1>1, <1>2, <1>5, VisitsPaint
<1>7. ASSUME NEW k \in 1 .. Len(vs)
      PROVE  Visit(g, after[k - 1], vs[k]) = Visit(h, after[k - 1], vs[k])
  <2> DEFINE a == after[k - 1]
             v == vs[k]
  <2>1. k - 1 \in 0 .. Len(vs)
    BY <1>1
  <2>2. a \in Searches(ns) /\ v \in ns /\ Whites(ns, a) \subseteq Whites(ns, a0)
    BY <1>1, <1>6, <2>1
  <2> SUFFICES Visit(g, a, v) = Visit(h, a, v)
    OBVIOUS
  <2> HIDE DEF a, v
  <2>3. a.cyclic \in BOOLEAN /\ a.color[v] \in {"white", "gray", "black"}
    BY <2>2 DEF Searches
  <2>4. CASE ~(~a.cyclic /\ a.color[v] = "white")
    BY <2>3, <2>4 DEF Visit
  <2>5. CASE ~a.cyclic /\ a.color[v] = "white"
    <3>1. v \in Whites(ns, a) /\ Whites(ns, a0) \in SUBSET ns
      BY <2>2, <2>5 DEF Whites
    <3>2. /\ IsFiniteSet(Whites(ns, a0)) /\ IsFiniteSet(Whites(ns, a))
          /\ Cardinality(Whites(ns, a)) <= Cardinality(Whites(ns, a0))
      <4>1. IsFiniteSet(Whites(ns, a0))
        BY <3>1, FS_Subset DEF IsGraph
      <4> QED BY <2>2, <4>1, FS_Subset
    <3>3. /\ Cardinality(Whites(ns, a)) \in Nat /\ Cardinality(Whites(ns, a0)) \in Nat
          /\ Cardinality(Whites(ns, a) \ {v}) = Cardinality(Whites(ns, a)) - 1
      BY <3>1, <3>2, FS_CardinalityType, FS_RemoveElement
    <3>4. Fewer(ns, a, v) < n
      BY <1>4, <3>2, <3>3 DEF Fewer
    <3>5. g[v][a] = h[v][a]
      BY <2>2, <3>4 DEF Agree
    <3>6. Visit(g, a, v) = g[v][a] /\ Visit(h, a, v) = h[v][a]
      BY <2>5 DEF Visit
    <3> QED BY <3>5, <3>6
  <2> QED BY <2>4, <2>5
<1>8. Visits(g, a0, vs, after)
  BY <1>5, <1>7 DEF Visits
<1>9. VisitAll(g, a0, vs) = after[Len(vs)]
  BY <1>1, <1>8, VisitAllIs, Zenon
<1> QED BY <1>3, <1>5, <1>9

LEMMA SearchPaints ==
  ASSUME NEW G, NEW ns, IsGraph(G, ns), NEW h \in Searchers(ns), Paints(ns, h),
         NEW u \in ns, NEW acc \in Searches(ns)
  PROVE  /\ Search(G, h, u, acc) \in Searches(ns)
         /\ Whites(ns, Search(G, h, u, acc)) \subseteq Whites(ns, acc)
<1> DEFINE vs == Targets(G, u)
           a0 == Grayed(acc, u)
           end == VisitAll(h, a0, vs)
           new == [end.color EXCEPT ![u] = "black"]
<1>1. vs \in Seq(ns)
  BY TargetsAreListed
<1>2. a0 \in Searches(ns) /\ Whites(ns, a0) \subseteq Whites(ns, acc)
  <2>1. Grayed(acc, u) \in Searches(ns) /\ Whites(ns, Grayed(acc, u)) = Whites(ns, acc) \ {u}
    BY GrayedIsNotWhite
  <2> QED BY <2>1
<1>3. Search(G, h, u, acc) = IF end.cyclic THEN end ELSE [end EXCEPT !.color[u] = "black"]
  BY DEF Search, Grayed
<1>4. end \in Searches(ns) /\ Whites(ns, end) \subseteq Whites(ns, a0)
  <2> HIDE DEF vs, a0
  <2>1. PICK after \in [0 .. Len(vs) -> Searches(ns)] : Visits(h, a0, vs, after) /\ end = after[Len(vs)]
    BY <1>1, <1>2, VisitAllLoop
  <2>2. Len(vs) \in 0 .. Len(vs)
    BY <1>1, LenProperties
  <2>3. Whites(ns, after[Len(vs)]) \subseteq Whites(ns, a0)
    BY <1>1, <1>2, <2>1, <2>2, VisitsPaint
  <2> QED BY <2>1, <2>2, <2>3
<1> HIDE DEF vs, a0, end
<1>5. end \in [cyclic : BOOLEAN, color : [ns -> {"white", "gray", "black"}]]
  BY <1>4 DEF Searches
<1>6. [end EXCEPT !.color[u] = "black"] = [end EXCEPT !.color = new]
  OBVIOUS
<1>7. new \in [ns -> {"white", "gray", "black"}] /\ \A v \in ns : new[v] = "white" => end.color[v] = "white"
  BY <1>5
<1> HIDE DEF new
<1>8. [end EXCEPT !.color = new] \in Searches(ns) /\ [end EXCEPT !.color = new].color = new
  BY <1>5, <1>7 DEF Searches
<1>9. Whites(ns, [end EXCEPT !.color = new]) \subseteq Whites(ns, end)
  BY <1>7, <1>8 DEF Whites
<1> QED BY <1>2, <1>3, <1>4, <1>6, <1>8, <1>9

\* What makes a search of the searches it calls.
Searching(G, ns, h) == [u \in ns |-> [a \in Searches(ns) |-> Search(G, h, u, a)]]

LEMMA SearchExists ==
  ASSUME NEW G, NEW ns, IsGraph(G, ns)
  PROVE  \E h \in Searchers(ns) : Paints(ns, h) /\ h = Searching(G, ns, h)
<1> DEFINE D == {h \in Searchers(ns) : Paints(ns, h)}
           start == [u \in ns |-> [a \in Searches(ns) |-> a]]
           K == Cardinality(ns) + 2
           step == [i \in 1 .. K |-> [h \in D |-> Searching(G, ns, h)]]
<1>1. K \in Nat /\ Cardinality(ns) \in Nat
  BY FS_CardinalityType DEF IsGraph
<1>2. start \in D
  BY DEF Searchers, Paints
<1>3. \A h \in D : Searching(G, ns, h) \in D
  <2> TAKE h \in D
  <2>1. h \in Searchers(ns) /\ Paints(ns, h)
    OBVIOUS
  <2>2. \A u \in ns, a \in Searches(ns) :
          /\ Search(G, h, u, a) \in Searches(ns)
          /\ Whites(ns, Search(G, h, u, a)) \subseteq Whites(ns, a)
    BY <2>1, SearchPaints
  <2>3. Searching(G, ns, h) \in Searchers(ns)
    BY <2>2 DEF Searching, Searchers
  <2>4. Paints(ns, Searching(G, ns, h))
    BY <2>2 DEF Searching, Paints
  <2> QED BY <2>3, <2>4
<1>4. step \in [1 .. K -> [D -> D]]
  <2> HIDE DEF D, K
  <2> QED BY <1>3
<1>5. PICK f : f \in [0 .. K -> D] /\ f[0] = start /\ \A i \in 1 .. K : f[i] = step[i][f[i - 1]]
  <2> HIDE DEF D, K, start, step
  <2>1. \E f : IsLoop(f, K, D, start, step)
    BY <1>1, <1>2, <1>4, Recursion
  <2> QED BY <2>1 DEF IsLoop
<1>6. \A i \in 1 .. K : f[i] = Searching(G, ns, f[i - 1])
  <2> TAKE i \in 1 .. K
  <2>1. f[i - 1] \in D
    <3> HIDE DEF D, K, step
    <3> QED BY <1>1, <1>5
  <2> HIDE DEF D, K
  <2> QED BY <1>5, <2>1
<1>7. \A i \in 0 .. K : f[i] \in Searchers(ns) /\ Paints(ns, f[i])
  BY <1>5
<1> HIDE DEF D, start, step
<1> DEFINE N == {n \in Nat : n + 1 <= K => Agree(ns, f[n], f[n + 1], n)}
<1>8. 0 \in N
  <2>1. \A u \in ns, a \in Searches(ns) : ~(Fewer(ns, a, u) < 0)
    <3> TAKE u \in ns, a \in Searches(ns)
    <3>1. IsFiniteSet(Whites(ns, a) \ {u})
      <4>1. Whites(ns, a) \ {u} \in SUBSET ns
        BY DEF Whites
      <4> QED BY <4>1, FS_Subset DEF IsGraph
    <3> QED BY <3>1, FS_CardinalityType DEF Fewer
  <2> QED BY <2>1 DEF Agree
<1>9. ASSUME NEW n \in Nat, n \in N PROVE n + 1 \in N
  <2> SUFFICES ASSUME n + 2 <= K, NEW u \in ns, NEW a \in Searches(ns), Fewer(ns, a, u) < n + 1
               PROVE  f[n + 1][u][a] = f[n + 2][u][a]
    BY DEF Agree
  <2>1. /\ n + 1 \in 1 .. K /\ n + 2 \in 1 .. K /\ n + 1 \in 0 .. K
        /\ (n + 1) - 1 = n /\ (n + 2) - 1 = n + 1
    BY <1>1
  <2>2. Agree(ns, f[n], f[n + 1], n)
    BY <1>1, <1>9
  <2>3. Fewer(ns, a, u) <= n
    <3>1. IsFiniteSet(Whites(ns, a) \ {u})
      <4>1. Whites(ns, a) \ {u} \in SUBSET ns
        BY DEF Whites
      <4> QED BY <4>1, FS_Subset DEF IsGraph
    <3>2. Fewer(ns, a, u) \in Nat
      BY <3>1, FS_CardinalityType DEF Fewer
    <3> QED BY <3>2
  <2>4. f[n + 1] \in Searchers(ns) /\ Paints(ns, f[n + 1])
    BY <1>7, <2>1
  <2>5. Search(G, f[n], u, a) = Search(G, f[n + 1], u, a)
    BY <2>2, <2>3, <2>4, SearchAgrees
  <2>6. f[n + 1][u][a] = Search(G, f[n], u, a) /\ f[n + 2][u][a] = Search(G, f[n + 1], u, a)
    <3>1. f[n + 1] = Searching(G, ns, f[n]) /\ f[n + 2] = Searching(G, ns, f[n + 1])
      BY <1>6, <2>1
    <3> QED BY <3>1 DEF Searching
  <2> QED BY <2>5, <2>6
<1> HIDE DEF N
<1>10. K - 1 \in N
  BY <1>1, <1>8, <1>9, Induction
<1>11. K - 1 \in 0 .. K /\ K \in 1 .. K /\ (K - 1) + 1 = K
  BY <1>1
<1>12. Agree(ns, f[K - 1], f[K], K - 1)
  BY <1>10, <1>11 DEF N
<1>13. \A u \in ns, a \in Searches(ns) : f[K - 1][u][a] = f[K][u][a]
  <2> TAKE u \in ns, a \in Searches(ns)
  <2>1. Whites(ns, a) \ {u} \in SUBSET ns
    BY DEF Whites
  <2>2. Fewer(ns, a, u) <= Cardinality(ns) /\ Fewer(ns, a, u) \in Nat
    BY <2>1, FS_Subset, FS_CardinalityType DEF IsGraph, Fewer
  <2> QED BY <1>1, <1>12, <2>2 DEF Agree
<1>14. f[K] = Searching(G, ns, f[K - 1])
  BY <1>6, <1>11
<1>15. f[K - 1] = f[K]
  BY <1>7, <1>11, <1>13 DEF Searchers
<1> QED BY <1>7, <1>11, <1>14, <1>15

\* Whatever search solves the equation is that one.
LEMMA SearchIsUnique ==
  ASSUME NEW G, NEW ns, IsGraph(G, ns), NEW h \in Searchers(ns), Paints(ns, h),
         h = Searching(G, ns, h), NEW g, g = Searching(G, ns, g)
  PROVE  g = h
<1> DEFINE N == {n \in Nat : Agree(ns, g, h, n)}
<1>0. \A u \in ns, a \in Searches(ns) : Fewer(ns, a, u) \in Nat /\ Fewer(ns, a, u) <= Cardinality(ns)
  <2> TAKE u \in ns, a \in Searches(ns)
  <2>1. Whites(ns, a) \ {u} \in SUBSET ns
    BY DEF Whites
  <2> QED BY <2>1, FS_Subset, FS_CardinalityType DEF IsGraph, Fewer
<1>1. 0 \in N
  BY <1>0 DEF Agree
<1>2. ASSUME NEW n \in Nat, n \in N PROVE n + 1 \in N
  <2> SUFFICES ASSUME NEW u \in ns, NEW a \in Searches(ns), Fewer(ns, a, u) < n + 1
               PROVE  g[u][a] = h[u][a]
    BY DEF Agree
  <2>1. Fewer(ns, a, u) <= n
    BY <1>0
  <2>2. Search(G, g, u, a) = Search(G, h, u, a)
    BY <1>2, <2>1, SearchAgrees
  <2>3. g[u][a] = Search(G, g, u, a)
    <3>1. Searching(G, ns, g)[u][a] = Search(G, g, u, a)
      BY DEF Searching
    <3> QED BY <3>1, Zenon
  <2>4. h[u][a] = Search(G, h, u, a)
    <3>1. Searching(G, ns, h)[u][a] = Search(G, h, u, a)
      BY DEF Searching
    <3> QED BY <3>1, Zenon
  <2> QED BY <2>2, <2>3, <2>4
<1> HIDE DEF N
<1>3. Cardinality(ns) + 1 \in Nat /\ Cardinality(ns) \in Nat
  BY FS_CardinalityType DEF IsGraph
<1>4. Cardinality(ns) + 1 \in N
  BY <1>1, <1>2, <1>3, Induction
<1>5. \A u \in ns, a \in Searches(ns) : g[u][a] = h[u][a]
  BY <1>0, <1>3, <1>4 DEF N, Agree
<1>6. g = [u \in ns |-> [a \in Searches(ns) |-> g[u][a]]]
  <2>1. DOMAIN g = ns /\ g = [u \in ns |-> g[u]]
    BY DEF Searching
  <2>2. \A u \in ns : g[u] = [a \in Searches(ns) |-> g[u][a]]
    BY DEF Searching
  <2> QED BY <2>1, <2>2
<1>7. h = [u \in ns |-> [a \in Searches(ns) |-> h[u][a]]]
  BY DEF Searchers
<1> QED BY <1>5, <1>6, <1>7

-----------------------------------------------------------------------------
(* The search finds what rings there are. *)

\* One step of Reaches.
Onward(G, X) == X \union {e[2] : e \in {x \in G : x[1] \in X}}

\* From u one stays in every set the edges do not leave, once one is there.
LEMMA ReachesWithin ==
  ASSUME NEW G, IsFiniteSet(G), NEW X, \A e \in G : e[1] \in X => e[2] \in X,
         NEW u, \A e \in G : e[1] = u => e[2] \in X
  PROVE  Reaches(G, u) \subseteq X
<1> DEFINE K == Cardinality(G)
           D == SUBSET {e[2] : e \in G}
           first == {e[2] : e \in {x \in G : x[1] = u}}
           step == [i \in 1 .. K |-> [Y \in D |-> Onward(G, Y)]]
           loop == CHOOSE steps : steps = [n \in 0 .. K |->
                     IF n = 0 THEN {e[2] : e \in {x \in G : x[1] = u}}
                     ELSE steps[n - 1] \union {e[2] : e \in {x \in G : x[1] \in steps[n - 1]}}]
<1>1. K \in Nat
  BY FS_CardinalityType
<1>2. first \in D /\ step \in [1 .. K -> [D -> D]]
  <2>1. \A Y \in D : Onward(G, Y) \in D
    BY DEF Onward
  <2> HIDE DEF K
  <2> QED BY <2>1
<1>3. PICK f : f \in [0 .. K -> D] /\ f[0] = first /\ \A i \in 1 .. K : f[i] = step[i][f[i - 1]]
  <2> HIDE DEF D, K, first, step
  <2>1. \E f : IsLoop(f, K, D, first, step)
    BY <1>1, <1>2, Recursion
  <2> QED BY <2>1 DEF IsLoop
<1>4. \A i \in 1 .. K : f[i] = Onward(G, f[i - 1])
  <2> TAKE i \in 1 .. K
  <2>1. f[i - 1] \in D
    <3> HIDE DEF D, K, step, first
    <3> QED BY <1>1, <1>3
  <2> HIDE DEF D, K, first
  <2> QED BY <1>3, <2>1
<1>5. f = [n \in 0 .. K |-> IF n = 0 THEN first
                           ELSE f[n - 1] \union {e[2] : e \in {x \in G : x[1] \in f[n - 1]}}]
  <2> HIDE DEF step, loop, D, first, K
  <2>1. \A n \in 0 .. K : f[n] = IF n = 0 THEN first
                           ELSE f[n - 1] \union {e[2] : e \in {x \in G : x[1] \in f[n - 1]}}
    <3> TAKE n \in 0 .. K
    <3>1. CASE n = 0
      BY <1>3, <3>1
    <3>2. CASE n \in 1 .. K
      <4>1. n # 0
        BY <3>2
      <4>2. f[n] = f[n - 1] \union {e[2] : e \in {x \in G : x[1] \in f[n - 1]}}
        BY <1>4, <3>2, Zenon DEF Onward
      <4> QED BY <4>1, <4>2, Zenon
    <3> QED BY <1>1, <3>1, <3>2
  <2> QED BY <1>3, <2>1
<1>6. loop = [n \in 0 .. K |-> IF n = 0 THEN first
                           ELSE loop[n - 1] \union {e[2] : e \in {x \in G : x[1] \in loop[n - 1]}}]
  <2> HIDE DEF K
  <2> QED BY <1>5, Zenon
<1>7. Reaches(G, u) = loop[K]
  BY Zenon DEF Reaches
<1>8. \A n \in 0 .. K : loop[n] = IF n = 0 THEN first ELSE Onward(G, loop[n - 1])
  <2> HIDE DEF loop, K, first
  <2> QED BY <1>6, Zenon DEF Onward
<1>9. first \subseteq X /\ \A Y \in SUBSET X : Onward(G, Y) \in SUBSET X
  BY DEF Onward
<1> HIDE DEF loop, first, K
<1> DEFINE N == {n \in Nat : n <= K => loop[n] \subseteq X}
<1>10. 0 \in N
  BY <1>1, <1>8, <1>9
<1>11. ASSUME NEW n \in Nat, n \in N PROVE n + 1 \in N
  <2> SUFFICES ASSUME n + 1 <= K PROVE loop[n + 1] \subseteq X
    OBVIOUS
  <2>1. n + 1 \in 0 .. K /\ n + 1 # 0 /\ (n + 1) - 1 = n
    BY <1>1
  <2>2. loop[n + 1] = Onward(G, loop[n])
    BY <1>8, <2>1
  <2>3. loop[n] \in SUBSET X
    BY <1>1, <1>11
  <2> QED BY <1>9, <2>2, <2>3
<1> HIDE DEF N
<1>12. K \in N
  BY <1>1, <1>10, <1>11, Induction
<1> QED BY <1>1, <1>7, <1>12 DEF N

\* The black nodes lie on no ring, and no edge leaves them.
Sane(G, ns, a) ==
    /\ \A e \in G : e[1] \in Blacks(ns, a) => e[2] \in Blacks(ns, a)
    /\ \A x \in Blacks(ns, a) : x \notin Reaches(G, x)

\* From a to b a ring was found, or only black nodes have come to those of a.
Kept(G, ns, a, b) ==
    b.cyclic \/ /\ Sane(G, ns, b) /\ Grays(ns, b) = Grays(ns, a)
                /\ Blacks(ns, a) \subseteq Blacks(ns, b)

\* What calls with fewer than n white nodes beside their own do.
Correct(G, ns, h, n) ==
    \A u \in ns, a \in Searches(ns) :
       Fewer(ns, a, u) < n /\ ~a.cyclic /\ a.color[u] = "white" /\ Sane(G, ns, a)
         => Kept(G, ns, a, h[u][a]) /\ (h[u][a].cyclic \/ u \in Blacks(ns, h[u][a]))

LEMMA VisitKeeps ==
  ASSUME NEW G, NEW ns, IsGraph(G, ns), NEW h \in Searchers(ns), NEW n \in Nat, Correct(G, ns, h, n),
         NEW a \in Searches(ns), Sane(G, ns, a), ~a.cyclic, NEW v \in ns,
         Cardinality(Whites(ns, a)) <= n
  PROVE  LET b == Visit(h, a, v) IN Kept(G, ns, a, b) /\ (b.cyclic \/ v \in Blacks(ns, b))
<1>1. a.color[v] \in {"white", "gray", "black"}
  BY DEF Searches
<1>2. CASE a.color[v] = "black"
  <2>1. Visit(h, a, v) = a
    BY <1>2 DEF Visit
  <2> QED BY <1>2, <2>1 DEF Kept, Blacks
<1>3. CASE a.color[v] = "gray"
  <2>1. Visit(h, a, v) = [a EXCEPT !.cyclic = TRUE]
    BY <1>3 DEF Visit
  <2>2. Visit(h, a, v).cyclic
    BY <2>1 DEF Searches
  <2> QED BY <2>2 DEF Kept
<1>4. CASE a.color[v] = "white"
  <2>1. Visit(h, a, v) = h[v][a]
    BY <1>4 DEF Visit
  <2>2. v \in Whites(ns, a) /\ Whites(ns, a) \in SUBSET ns
    BY <1>4 DEF Whites
  <2>3. IsFiniteSet(Whites(ns, a))
    BY <2>2, FS_Subset DEF IsGraph
  <2>4. /\ Cardinality(Whites(ns, a)) \in Nat
        /\ Cardinality(Whites(ns, a) \ {v}) = Cardinality(Whites(ns, a)) - 1
    BY <2>2, <2>3, FS_CardinalityType, FS_RemoveElement
  <2>5. Fewer(ns, a, v) < n
    BY <2>4 DEF Fewer
  <2> QED BY <1>4, <2>1, <2>5 DEF Correct
<1> QED BY <1>1, <1>2, <1>3, <1>4

LEMMA VisitsKeep ==
  ASSUME NEW G, NEW ns, IsGraph(G, ns), NEW h \in Searchers(ns), Paints(ns, h),
         NEW n \in Nat, Correct(G, ns, h, n),
         NEW acc \in Searches(ns), Sane(G, ns, acc), ~acc.cyclic, Cardinality(Whites(ns, acc)) <= n,
         NEW vs \in Seq(ns)
  PROVE  LET end == VisitAll(h, acc, vs) IN
         /\ end \in Searches(ns) /\ Kept(G, ns, acc, end)
         /\ end.cyclic \/ \A j \in 1 .. Len(vs) : vs[j] \in Blacks(ns, end)
<1>1. Len(vs) \in Nat /\ \A i \in 1 .. Len(vs) : vs[i] \in ns
  BY LenProperties, ElementOfSeq
<1>2. PICK after \in [0 .. Len(vs) -> Searches(ns)] :
        Visits(h, acc, vs, after) /\ VisitAll(h, acc, vs) = after[Len(vs)]
  BY VisitAllLoop
<1>3. \A k \in 0 .. Len(vs) : Whites(ns, after[k]) \subseteq Whites(ns, acc)
  BY <1>2, VisitsPaint
<1> DEFINE Done(k) == /\ Kept(G, ns, acc, after[k])
                      /\ after[k].cyclic \/ \A j \in 1 .. k : vs[j] \in Blacks(ns, after[k])
           N == {k \in Nat : k <= Len(vs) => Done(k)}
<1>4. 0 \in N
  BY <1>2 DEF Visits, Kept
<1>5. ASSUME NEW k \in Nat, k \in N PROVE k + 1 \in N
  <2> SUFFICES ASSUME k + 1 <= Len(vs) PROVE Done(k + 1)
    OBVIOUS
  <2> DEFINE a == after[k]
             b == after[k + 1]
             v == vs[k + 1]
  <2>1. k + 1 \in 1 .. Len(vs) /\ k \in 0 .. Len(vs) /\ (k + 1) - 1 = k
    BY <1>1
  <2>2. b = Visit(h, a, v) /\ a \in Searches(ns) /\ v \in ns
    BY <1>1, <1>2, <2>1 DEF Visits
  <2>3. Kept(G, ns, acc, a) /\ (a.cyclic \/ \A j \in 1 .. k : vs[j] \in Blacks(ns, a))
    BY <1>1, <1>5
  <2>4. Cardinality(Whites(ns, a)) <= n
    <3>1. Whites(ns, a) \subseteq Whites(ns, acc)
      BY <1>3, <2>1
    <3>2. Whites(ns, acc) \in SUBSET ns
      BY DEF Whites
    <3>3. IsFiniteSet(Whites(ns, acc))
      BY <3>2, FS_Subset DEF IsGraph
    <3> HIDE DEF a
    <3>4. /\ Cardinality(Whites(ns, a)) <= Cardinality(Whites(ns, acc))
          /\ Cardinality(Whites(ns, a)) \in Nat /\ Cardinality(Whites(ns, acc)) \in Nat
      BY <3>1, <3>3, FS_Subset, FS_CardinalityType
    <3> QED BY <3>4
  <2>5. /\ Kept(G, ns, acc, b)
        /\ b.cyclic \/ \A j \in 1 .. k : vs[j] \in Blacks(ns, b)
        /\ b.cyclic \/ v \in Blacks(ns, b)
    <3> HIDE DEF a, b, v
    <3>1. CASE a.cyclic
      <4>1. b = a
        BY <2>2, <3>1 DEF Visit
      <4> QED BY <3>1, <4>1 DEF Kept
    <3>2. CASE ~a.cyclic
      <4>1. /\ Sane(G, ns, a) /\ Grays(ns, a) = Grays(ns, acc) /\ Blacks(ns, acc) \subseteq Blacks(ns, a)
            /\ \A j \in 1 .. k : vs[j] \in Blacks(ns, a)
        BY <2>3, <3>2 DEF Kept
      <4>2. Kept(G, ns, a, b) /\ (b.cyclic \/ v \in Blacks(ns, b))
        BY <2>2, <2>4, <3>2, <4>1, VisitKeeps
      <4> QED BY <4>1, <4>2 DEF Kept
    <3> QED BY <3>1, <3>2
  <2> QED BY <2>5
<1> HIDE DEF N
<1>6. Len(vs) \in N
  BY <1>1, <1>4, <1>5, Induction
<1>7. Done(Len(vs)) /\ after[Len(vs)] \in Searches(ns)
  BY <1>1, <1>6 DEF N
<1> QED BY <1>2, <1>7

LEMMA SearchKeeps ==
  ASSUME NEW G, NEW ns, IsGraph(G, ns), IsFiniteSet(G), NEW h \in Searchers(ns), Paints(ns, h),
         NEW n \in Nat, Correct(G, ns, h, n),
         NEW u \in ns, NEW acc \in Searches(ns), Fewer(ns, acc, u) <= n,
         ~acc.cyclic, acc.color[u] = "white", Sane(G, ns, acc)
  PROVE  LET r == Search(G, h, u, acc) IN
         Kept(G, ns, acc, r) /\ (r.cyclic \/ u \in Blacks(ns, r))
<1> DEFINE vs == Targets(G, u)
           a0 == Grayed(acc, u)
           end == VisitAll(h, a0, vs)
           new == [end.color EXCEPT ![u] = "black"]
           r == [end EXCEPT !.color = new]
<1>1. vs \in Seq(ns) /\ \A e \in G : e[1] = u => \E i \in 1 .. Len(vs) : vs[i] = e[2]
  BY TargetsAreListed
<1>2. /\ a0 \in Searches(ns) /\ a0.color = [acc.color EXCEPT ![u] = "gray"] /\ ~a0.cyclic
      /\ Whites(ns, a0) = Whites(ns, acc) \ {u}
  <2>1. a0 \in Searches(ns) /\ Whites(ns, a0) = Whites(ns, acc) \ {u}
    BY GrayedIsNotWhite
  <2>2. a0.color = [acc.color EXCEPT ![u] = "gray"] /\ a0.cyclic = acc.cyclic
    BY GrayedColor
  <2> HIDE DEF a0
  <2> QED BY <2>1, <2>2
<1>3. Search(G, h, u, acc) = IF end.cyclic THEN end ELSE [end EXCEPT !.color[u] = "black"]
  BY DEF Search, Grayed
<1> HIDE DEF vs, a0
<1>4. acc.color \in [ns -> {"white", "gray", "black"}]
  BY DEF Searches
<1>5. Blacks(ns, a0) = Blacks(ns, acc) /\ Grays(ns, a0) = Grays(ns, acc) \cup {u} /\ u \notin Grays(ns, acc)
      /\ u \notin Blacks(ns, acc)
  BY <1>2, <1>4 DEF Blacks, Grays
<1>6. Sane(G, ns, a0) /\ Cardinality(Whites(ns, a0)) <= n
  BY <1>2, <1>5 DEF Sane, Fewer
<1>7. /\ end \in Searches(ns) /\ Kept(G, ns, a0, end)
      /\ end.cyclic \/ \A j \in 1 .. Len(vs) : vs[j] \in Blacks(ns, end)
  BY <1>1, <1>2, <1>6, VisitsKeep
<1> HIDE DEF end
<1>8. CASE end.cyclic
  BY <1>3, <1>8 DEF Kept
<1>9. CASE ~end.cyclic
  <2>1. Search(G, h, u, acc) = r
    BY <1>3, <1>9
  <2>2. end \in [cyclic : BOOLEAN, color : [ns -> {"white", "gray", "black"}]]
    BY <1>7 DEF Searches
  <2>3. new \in [ns -> {"white", "gray", "black"}] /\ new[u] = "black"
        /\ \A v \in ns : v # u => new[v] = end.color[v]
    BY <2>2
  <2> HIDE DEF new
  <2>4. r.color = new
    BY <2>2
  <2>5. /\ Sane(G, ns, end) /\ Grays(ns, end) = Grays(ns, a0) /\ Blacks(ns, a0) \subseteq Blacks(ns, end)
        /\ \A j \in 1 .. Len(vs) : vs[j] \in Blacks(ns, end)
    BY <1>7, <1>9 DEF Kept
  <2> HIDE DEF r
  <2>6. u \notin Blacks(ns, end)
    BY <1>5, <2>5 DEF Blacks, Grays
  <2>7. Blacks(ns, r) = Blacks(ns, end) \cup {u} /\ Grays(ns, r) = Grays(ns, end) \ {u}
    BY <2>3, <2>4 DEF Blacks, Grays
  <2>8. \A e \in G : e[1] = u => e[2] \in Blacks(ns, end)
    BY <1>1, <2>5
  <2>9. Reaches(G, u) \subseteq Blacks(ns, end)
    BY <2>5, <2>8, ReachesWithin DEF Sane
  <2>10. Sane(G, ns, r)
    BY <2>5, <2>6, <2>7, <2>8, <2>9 DEF Sane
  <2>11. Grays(ns, r) = Grays(ns, acc) /\ Blacks(ns, acc) \subseteq Blacks(ns, r)
    BY <1>5, <2>5, <2>7
  <2> QED BY <2>1, <2>7, <2>10, <2>11 DEF Kept
<1> QED BY <1>8, <1>9

LEMMA SearchIsCorrect ==
  ASSUME NEW G, NEW ns, IsGraph(G, ns), IsFiniteSet(G), NEW h \in Searchers(ns), Paints(ns, h),
         h = Searching(G, ns, h)
  PROVE  \A n \in Nat : Correct(G, ns, h, n)
<1> DEFINE N == {n \in Nat : Correct(G, ns, h, n)}
<1>1. \A u \in ns, a \in Searches(ns) : Fewer(ns, a, u) \in Nat
  <2> TAKE u \in ns, a \in Searches(ns)
  <2>1. Whites(ns, a) \ {u} \in SUBSET ns
    BY DEF Whites
  <2> QED BY <2>1, FS_Subset, FS_CardinalityType DEF IsGraph, Fewer
<1>2. 0 \in N
  BY <1>1 DEF Correct
<1>3. ASSUME NEW n \in Nat, n \in N PROVE n + 1 \in N
  <2> SUFFICES ASSUME NEW u \in ns, NEW a \in Searches(ns), Fewer(ns, a, u) < n + 1,
                      ~a.cyclic, a.color[u] = "white", Sane(G, ns, a)
               PROVE  Kept(G, ns, a, h[u][a]) /\ (h[u][a].cyclic \/ u \in Blacks(ns, h[u][a]))
    BY DEF Correct
  <2>1. Fewer(ns, a, u) <= n
    BY <1>1
  <2>2. h[u][a] = Search(G, h, u, a)
    <3>1. Searching(G, ns, h)[u][a] = Search(G, h, u, a)
      BY DEF Searching
    <3> QED BY <3>1, Zenon
  <2> QED BY <1>3, <2>1, <2>2, SearchKeeps
<1> HIDE DEF N
<1>4. Nat \subseteq N
  BY <1>2, <1>3, Induction
<1> QED BY <1>4 DEF N

LEMMA EndsAreFinite ==
  ASSUME NEW G, IsFiniteSet(G)
  PROVE  IsFiniteSet({e[1] : e \in G}) /\ IsFiniteSet({e[2] : e \in G})
<1>1. [e \in G |-> e[1]] \in Surjection(G, {e[1] : e \in G})
  BY DEF Surjection
<1>2. [e \in G |-> e[2]] \in Surjection(G, {e[2] : e \in G})
  BY DEF Surjection
<1> QED BY <1>1, <1>2, FS_Surjection

\* Where citations form a ring, the depth-first search (_has_cycle_dfs) reports one,
\* in whatever order it takes the nodes: for every finite graph.
THEOREM RingsAreFound ==
  ASSUME NEW G, NEW ns, IsFiniteSet(G), IsFiniteSet(ns), Circular(G)
  PROVE  HasCycle(G, ns)
<1> DEFINE all == ns \union {e[1] : e \in G} \union {e[2] : e \in G}
           dfs == CHOOSE f : f = [u \in all |-> [acc \in Searches(all) |-> Search(G, f, u, acc)]]
           white == [cyclic |-> FALSE, color |-> [n \in all |-> "white"]]
           end == VisitAll(dfs, white, SetToSeq(all))
<1>1. IsGraph(G, all)
  <2>1. IsFiniteSet({e[1] : e \in G}) /\ IsFiniteSet({e[2] : e \in G})
    BY EndsAreFinite
  <2>2. IsFiniteSet(all)
    BY <2>1, FS_Union
  <2>3. \A e \in G : e[1] \in all /\ e[2] \in all
    OBVIOUS
  <2> HIDE DEF all
  <2> QED BY <2>2, <2>3 DEF IsGraph
<1>2. HasCycle(G, ns) = end.cyclic
  BY Zenon DEF HasCycle
<1>3. \A e \in G : e[1] \in all
  OBVIOUS
<1> HIDE DEF all
<1>4. PICK h \in Searchers(all) : Paints(all, h) /\ h = Searching(G, all, h)
  BY <1>1, SearchExists
<1>5. dfs = Searching(G, all, dfs)
  BY <1>4, Zenon DEF Searching
<1> HIDE DEF dfs
<1>6. dfs = h
  BY <1>1, <1>4, <1>5, SearchIsUnique
<1>7. /\ white \in Searches(all) /\ ~white.cyclic
      /\ Blacks(all, white) = {} /\ Whites(all, white) = all
  BY DEF Searches, Blacks, Whites
<1>8. SetToSeq(all) \in Seq(all)
      /\ \A x \in all : \E i \in 1 .. Len(SetToSeq(all)) : SetToSeq(all)[i] = x
  BY <1>1, SetToSeqLists DEF IsGraph
<1> HIDE DEF white
<1>9. Cardinality(all) \in Nat
  BY <1>1, FS_CardinalityType DEF IsGraph
<1>10. Correct(G, all, h, Cardinality(all)) /\ Sane(G, all, white)
  BY <1>1, <1>4, <1>7, <1>9, SearchIsCorrect DEF Sane
<1>11. Cardinality(Whites(all, white)) <= Cardinality(all)
  BY <1>7, <1>9
<1>12. /\ end \in Searches(all) /\ Kept(G, all, white, end)
       /\ end.cyclic \/ \A j \in 1 .. Len(SetToSeq(all)) : SetToSeq(all)[j] \in Blacks(all, end)
  BY <1>1, <1>4, <1>6, <1>7, <1>8, <1>9, <1>10, <1>11, VisitsKeep
<1> HIDE DEF end
<1>13. SUFFICES ASSUME ~end.cyclic PROVE FALSE
  BY <1>2, <1>12 DEF Searches
<1>14. \A x \in all : x \in Blacks(all, end)
  BY <1>8, <1>12, <1>13
<1>15. \A x \in all : x \notin Reaches(G, x)
  BY <1>12, <1>13, <1>14 DEF Kept, Sane
<1> QED BY <1>3, <1>15 DEF Circular

LEMMA ListedIsFinite ==
  ASSUME NEW s, Listed(s), NEW f, DOMAIN f = DOMAIN s
  PROVE  IsFiniteSet(DOMAIN s) /\ IsFiniteSet({f[i] : i \in DOMAIN s})
<1>1. PICK n \in Nat : s = [i \in 1 .. n |-> s[i]]
  BY DEF Listed
<1>2. DOMAIN s = 1 .. n
  BY <1>1
<1>3. IsFiniteSet(1 .. n)
  BY FS_Interval
<1>4. [i \in 1 .. n |-> f[i]] \in Surjection(1 .. n, {f[i] : i \in 1 .. n})
  BY DEF Surjection
<1>5. IsFiniteSet({f[i] : i \in 1 .. n})
  BY <1>3, <1>4, FS_Surjection
<1> QED BY <1>2, <1>3, <1>5

LEMMA GraphsAreFinite ==
  ASSUME NEW d, IsDoc(d)
  PROVE  IsFiniteSet(CitationGraph(d)) /\ IsFiniteSet(Nodes(d)) /\ IsFiniteSet(SourceGraph(d))
<1>1. Listed(d.claims) /\ Listed(d.sources) /\ Listed(d.cites)
      /\ \A i \in DOMAIN d.sources : IsFiniteSet(d.sources[i].names)
  BY DEF IsDoc, AreSources
<1>2. IsFiniteSet({ClaimNode(i) : i \in IdsOf(d.claims)})
  <2> DEFINE f == [i \in DOMAIN d.claims |-> ClaimNode(d.claims[i].id)]
  <2>1. {ClaimNode(i) : i \in IdsOf(d.claims)} = {f[i] : i \in DOMAIN d.claims} /\ DOMAIN f = DOMAIN d.claims
    BY DEF IdsOf
  <2> HIDE DEF f
  <2> QED BY <1>1, <2>1, ListedIsFinite
<1>3. IsFiniteSet({SourceNode(i) : i \in IdsOf(d.sources)})
  <2> DEFINE f == [i \in DOMAIN d.sources |-> SourceNode(d.sources[i].id)]
  <2>1. {SourceNode(i) : i \in IdsOf(d.sources)} = {f[i] : i \in DOMAIN d.sources} /\ DOMAIN f = DOMAIN d.sources
    BY DEF IdsOf
  <2> HIDE DEF f
  <2> QED BY <1>1, <2>1, ListedIsFinite
<1>4. IsFiniteSet(Nodes(d))
  BY <1>2, <1>3, FS_Union DEF Nodes
<1>5. IsFiniteSet({<<ClaimNode(d.cites[i].claim), SourceNode(d.cites[i].src)>> : i \in DOMAIN d.cites})
  <2> DEFINE f == [i \in DOMAIN d.cites |-> <<ClaimNode(d.cites[i].claim), SourceNode(d.cites[i].src)>>]
  <2>1. {<<ClaimNode(d.cites[i].claim), SourceNode(d.cites[i].src)>> : i \in DOMAIN d.cites}
          = {f[i] : i \in DOMAIN d.cites} /\ DOMAIN f = DOMAIN d.cites
    OBVIOUS
  <2> HIDE DEF f
  <2> QED BY <1>1, <2>1, ListedIsFinite
<1>6. IsFiniteSet(Named(d))
  <2> DEFINE f == [i \in DOMAIN d.sources |-> d.sources[i].names]
             F == {f[i] : i \in DOMAIN d.sources}
             U == UNION {d.sources[i].names : i \in DOMAIN d.sources}
             one == SourceNode(d.sources[1].id)
             T == {<<one, ClaimNode(c)>> : c \in U}
  <2>1. U = UNION F /\ DOMAIN f = DOMAIN d.sources /\ \A T1 \in F : IsFiniteSet(T1)
    BY <1>1
  <2>2. IsFiniteSet(F)
    <3> HIDE DEF f
    <3> QED BY <1>1, <2>1, ListedIsFinite
  <2>3. IsFiniteSet(U)
    <3> HIDE DEF F, U
    <3> QED BY <2>1, <2>2, FS_UNION
  <2>4. Named(d) = {} \/ Named(d) = T
    BY DEF Named
  <2> HIDE DEF U, one
  <2>5. [c \in U |-> <<one, ClaimNode(c)>>] \in Surjection(U, T)
    BY DEF Surjection
  <2>6. IsFiniteSet(T)
    <3> HIDE DEF T
    <3> QED BY <2>3, <2>5, FS_Surjection
  <2> QED BY <2>4, <2>6, FS_EmptySet
<1>7. IsFiniteSet(CitationGraph(d))
  BY <1>5, <1>6, FS_Union DEF CitationGraph
<1>8. IsFiniteSet(SourceGraph(d))
  <2> DEFINE citing == {i \in DOMAIN d.sources : d.sources[i].cites # 0}
             from(i) == CHOOSE k \in 1 .. i : k - 1 \in citing \union {0}
                                             /\ \A j \in citing : j < i => j < k
             f == [i \in DOMAIN d.sources |->
                     <<SourceNode(d.sources[from(i)].id), SourceNode(d.sources[i].cites)>>]
             T == {f[i] : i \in DOMAIN d.sources}
  <2>1. SourceGraph(d) = {<<SourceNode(d.sources[from(i)].id), SourceNode(d.sources[i].cites)>> : i \in citing}
    BY DEF SourceGraph
  <2>2. SourceGraph(d) \in SUBSET T /\ DOMAIN f = DOMAIN d.sources
    <3> HIDE DEF from
    <3> QED BY <2>1
  <2> HIDE DEF f
  <2>3. IsFiniteSet(T)
    BY <1>1, <2>2, ListedIsFinite
  <2> HIDE DEF T
  <2> QED BY <2>2, <2>3, FS_Subset
<1> QED BY <1>4, <1>7, <1>8

LEMMA FilesAreListed ==
  ASSUME NEW d, IsDoc(d)
  PROVE  Listed(Files(d))
<1>1. PICK S : d.sources \in Seq(S)
  BY ListedIsSeq DEF IsDoc, AreSources
<1>2. Files(d) \in Seq(S)
  BY <1>1, AmongType DEF Files
<1> QED BY <1>2, ListedIsSeq

\* Of a document, repaired or not, the search finds what rings there are.
LEMMA SearchesAreRight ==
  ASSUME NEW d, IsDoc(d)
  PROVE  /\ Circular(CitationGraph(d)) => HasCycle(CitationGraph(d), Nodes(d))
         /\ Circular(SourceGraph(d)) => HasCycle(SourceGraph(d), {})
BY GraphsAreFinite, RingsAreFound, FS_EmptySet

-----------------------------------------------------------------------------
(* What the claims in the memory were said by. *)

\* The stages of a task whose verdict no step changes any more.
Later == {"compare", "persist", "score", "COMMIT", "FAILED"}

SaidBy(c, t) ==
    /\ Run(t) = claims[c].run /\ Atom(t) = claims[c].atom
    /\ doc[t] \in SoundVerdicts /\ pc[t] \in Later
    /\ \E i \in DOMAIN doc[t].claims : doc[t].claims[i].text = claims[c].text

Judged(t) ==
    /\ pc[t] = "verify" =>
         t \in Research /\ \E x \in Documents : /\ doc[t] = Repaired(Normalized(x))
                                               /\ Valid(doc[t])
    /\ pc[t] = "submit" => t \in Research /\ doc[t] \in SoundVerdicts

SourceInv ==
    /\ \A c \in Ids : \E t \in Research : SaidBy(c, t)
    /\ \A t \in Tasks : Judged(t)

\* The validator's stages and the look at the files leave nothing unsound through.
LEMMA ValidIsSound ==
  ASSUME NEW x \in Documents,
         Valid(Repaired(Normalized(x))),
         Verified(Repaired(Normalized(x)))
  PROVE  Repaired(Normalized(x)) \in SoundVerdicts
<1>1. PICK d : d = Repaired(Normalized(x))
  OBVIOUS
<1>2. /\ Structured(d) /\ Covered(d) /\ Sourced(d) /\ Verified(d)
  BY <1>1 DEF Valid
<1>3. d.position \in {"supported", "refuted", "inconclusive"}
  BY <1>1, <1>2, RepairedIsDoc, DocumentsAreWritten DEF IsDoc, Structured
<1>4. \A c \in IdsOf(d.claims) : SourcesOf(d, c) # {}
  BY <1>2 DEF Covered
<1>5. \A s \in IdsOf(d.sources) : \E c \in IdsOf(d.claims) : s \in SourcesOf(d, c)
  BY <1>2 DEF Sourced, NoOrphans
<1>6. ~Circular(CitationGraph(d)) /\ ~Circular(SourceGraph(d))
  BY <1>1, <1>2, RepairedIsDoc, DocumentsAreWritten, SearchesAreRight DEF Sourced
<1>7. \A i, j \in DOMAIN d.claims :
        Either(Negations, d.claims[i].text, d.claims[j].text) => "resolved" \in d.contradictions
  BY <1>2 DEF Sourced, Resolved, NotSilent
<1>8. ASSUME Files(d) # <<>> PROVE Files(d)[1].kind = "file"
  <2>1. PICK S : Files(d) \in Seq(S)
    <3>1. Listed(Files(d))
      BY <1>1, RepairedIsDoc, DocumentsAreWritten, FilesAreListed
    <3> QED BY <3>1, ListedIsSeq
  <2>2. PICK n \in Nat : n = Len(Files(d))
    BY <2>1
  <2>3. 1 \in 1 .. Sample(n)
    BY <2>2 DEF Sample
  <2> QED BY <1>2, <1>8, <2>2, <2>3 DEF Verified, Matches
<1>9. Sound(d)
  BY <1>3, <1>4, <1>5, <1>6, <1>7, <1>8 DEF Sound
<1> QED BY <1>1, <1>9 DEF SoundVerdicts

\* What a person decides changes no claim's words.
LEMMA DecidingChangesNoWords ==
  ASSUME GateInv, MemoryNext PROVE Said /\ Ids' = Ids
<1>1. ASSUME NEW a \in Desks, NEW c \in Ids, PreCheck(a, c)
      PROVE  Said /\ Ids' = Ids
  BY <1>1 DEF PreCheck, Said, Ids
<1>2. ASSUME NEW a \in Desks, NEW c \in Ids, Reject(a, c)
      PROVE  Said /\ Ids' = Ids
  <2>1. claims' = Update(c, "rejected")
    BY <1>2 DEF Reject
  <2> QED BY <2>1, UpdateKeeps DEF Update, Ids
<1>3. ASSUME NEW a \in Desks, Approve(a) PROVE Said /\ Ids' = Ids
  <2>1. /\ claims' = Update(desk[a].id, "approved") /\ desk[a] # AtRest
    BY <1>3 DEF Approve
  <2>2. desk[a].id \in Ids
    BY <2>1 DEF GateInv, Warned
  <2> QED BY <2>1, <2>2, UpdateKeeps DEF Update, Ids
<1>4. ASSUME NEW a \in Desks, Interrupt(a) PROVE Said /\ Ids' = Ids
  BY <1>4 DEF Interrupt, Said, Ids
<1> QED BY <1>1, <1>2, <1>3, <1>4 DEF MemoryNext

LEMMA ClaimsKeepTheirSources ==
  ASSUME SourceInv, Said, Ids' = Ids,
         \A t \in Tasks : pc[t] \in Later => pc'[t] \in Later /\ doc'[t] = doc[t]
  PROVE  \A c \in Ids' : \E t \in Research : SaidBy(c, t)'
<1> SUFFICES ASSUME NEW c \in Ids PROVE \E t \in Research : SaidBy(c, t)'
  OBVIOUS
<1>1. PICK t \in Research : SaidBy(c, t)
  BY DEF SourceInv
<1>2. pc'[t] \in Later /\ doc'[t] = doc[t]
  BY <1>1 DEF SaidBy, Tasks
<1>3. SaidBy(c, t)'
  BY <1>1, <1>2 DEF SaidBy, Said, SoundVerdicts
<1> QED BY <1>3

\* The step of one task, seen from its stage.
LEMMA VerdictMoves ==
  ASSUME GateInv, SourceInv, NEW t \in Tasks,
         ResearchNext(t) \/ EditNext(t)
  PROVE  /\ pc[t] \in Later => pc'[t] \in Later /\ doc'[t] = doc[t]
         /\ Judged(t)'
         /\ \A u \in Tasks \ {t} : pc'[u] = pc[u] /\ doc'[u] = doc[u]
<1> USE DEF Later
<1>1. CASE Guard(t) \/ GenerateRaises(t) \/ Refused(t) \/ Rejected(t)
           \/ Write(t) \/ ReadBack(t) \/ CommitEdit(t)
  <2>1. doc' = doc /\ pc[t] \notin Later
    BY <1>1 DEF Guard, GenerateRaises, Refused, Rejected, Retries,
                Write, ReadBack, CommitEdit, At
  <2>2. \E l \in {"generate", "FAILED", "readback", "commitEdit", "commitUnread", "COMMIT"} :
          Goto(t, l)
    BY <1>1 DEF Guard, GenerateRaises, Refused, Rejected, Retries,
                Write, ReadBack, CommitEdit
  <2> QED BY <2>1, <2>2 DEF Goto, GateInv, Judged
<1>2. CASE Generate(t)
  <2>1. pc[t] = "generate" /\ t \in Research
    BY <1>2 DEF Generate, At
  <2>2. PICK x \in Documents :
          LET d == Repaired(Normalized(x))  n == attempt[t] + 1 IN
           IF Accepted(n, d)
           THEN doc' = [doc EXCEPT ![t] = d] /\ Goto(t, "verify")
           ELSE /\ Goto(t, IF n < MaxGenerate THEN "generate" ELSE "FAILED")
                /\ doc' = doc
    BY <1>2 DEF Generate
  <2>3. PICK d : d = Repaired(Normalized(x))
    OBVIOUS
  <2>4. CASE Valid(d)
    <3>1. doc' = [doc EXCEPT ![t] = d] /\ Goto(t, "verify")
      BY <2>2, <2>3, <2>4 DEF Accepted
    <3>2. /\ pc'[t] = "verify" /\ doc'[t] = d
          /\ \A u \in Tasks \ {t} : pc'[u] = pc[u] /\ doc'[u] = doc[u]
      BY <3>1 DEF GateInv, Goto
    <3>3. Judged(t)'
      BY <2>1, <2>3, <2>4, <3>2 DEF Judged
    <3> QED BY <2>1, <3>2, <3>3
  <2>5. CASE ~Valid(d)
    <3>1. doc' = doc /\ \E l \in {"generate", "FAILED"} : Goto(t, l)
      BY <2>2, <2>3, <2>5 DEF Accepted
    <3> QED BY <2>1, <3>1 DEF Goto, GateInv, Judged
  <2> QED BY <2>4, <2>5
<1>3. CASE VerifySources(t)
  <2>1. /\ pc[t] = "verify" /\ doc' = doc
        /\ Goto(t, IF Verified(doc[t]) THEN "submit" ELSE "FAILED")
    BY <1>3 DEF VerifySources, At
  <2>2. t \in Research /\ (Verified(doc[t]) => doc[t] \in SoundVerdicts)
    <3>1. PICK x \in Documents : /\ doc[t] = Repaired(Normalized(x))
                                  /\ Valid(doc[t])
      BY <2>1 DEF SourceInv, Judged
    <3> QED BY <2>1, <3>1, ValidIsSound DEF SourceInv, Judged
  <2>3. /\ pc'[t] = IF Verified(doc[t]) THEN "submit" ELSE "FAILED"
        /\ \A u \in Tasks \ {t} : pc'[u] = pc[u]
    BY <2>1 DEF Goto, GateInv
  <2>4. Judged(t)'
    BY <2>1, <2>2, <2>3 DEF Judged, SoundVerdicts
  <2> QED BY <2>1, <2>3, <2>4
<1>4. CASE SubmitClaims(t) \/ Compare(t) \/ PersistFound(t) \/ ScoreAndCommit(t)
  <2>1. doc' = doc /\ \E l \in Later : Goto(t, l)
    BY <1>4 DEF SubmitClaims, Compare, PersistFound, ScoreAndCommit
  <2> QED BY <2>1 DEF Goto, GateInv, Judged
<1> QED BY <1>1, <1>2, <1>3, <1>4 DEF ResearchNext, EditNext

LEMMA SourceStep ==
  ASSUME GateInv, SourceInv, [Next]_vars
  PROVE  SourceInv'
<1>1. CASE UNCHANGED vars
  <2>1. UNCHANGED <<claims, pc, doc>>
    BY <1>1 DEF vars, handlers, memory
  <2> QED BY <2>1 DEF SourceInv, SaidBy, Judged, Ids, SoundVerdicts
<1>2. CASE MemoryNext /\ UNCHANGED handlers
  <2>1. UNCHANGED <<pc, doc>>
    BY <1>2 DEF handlers
  <2>2. \A c \in Ids' : \E t \in Research : SaidBy(c, t)'
    BY <1>2, <2>1, DecidingChangesNoWords, ClaimsKeepTheirSources
  <2> QED BY <2>1, <2>2 DEF SourceInv, Judged, SoundVerdicts
<1>3. ASSUME NEW t \in Tasks, ResearchNext(t) \/ EditNext(t)
      PROVE  SourceInv'
  <2>1. /\ \A u \in Tasks : pc[u] \in Later => pc'[u] \in Later /\ doc'[u] = doc[u]
        /\ \A u \in Tasks : Judged(u)'
    <3>1. /\ pc[t] \in Later => pc'[t] \in Later /\ doc'[t] = doc[t]
          /\ Judged(t)'
          /\ \A u \in Tasks \ {t} : pc'[u] = pc[u] /\ doc'[u] = doc[u]
      BY <1>3, VerdictMoves
    <3>2. \A u \in Tasks \ {t} : Judged(u)'
      BY <3>1 DEF SourceInv, Judged, SoundVerdicts
    <3> QED BY <3>1, <3>2
  <2>2. CASE claims' = claims
    <3>1. Said /\ Ids' = Ids
      BY <2>2 DEF Said, Ids
    <3>2. \A c \in Ids' : \E u \in Research : SaidBy(c, u)'
      BY <2>1, <3>1, ClaimsKeepTheirSources
    <3> QED BY <2>1, <3>2 DEF SourceInv
  <2>3. CASE claims' # claims
    <3>1. SubmitClaims(t)
      BY <1>3, <2>3 DEF ResearchNext, EditNext, Guard, GenerateRaises,
           Generate, VerifySources, Compare, PersistFound, Persist,
           ScoreAndCommit, Rejected, Retries, Refused, Write,
           ReadBack, CommitEdit, memory
    <3> DEFINE said == [i \in DOMAIN doc[t].claims |-> doc[t].claims[i].text]
    <3>2. /\ Submit(Run(t), Atom(t), doc[t].position, said)
          /\ pc[t] = "submit" /\ doc' = doc /\ Goto(t, "compare")
      BY <2>3, <3>1 DEF SubmitClaims, memory, At
    <3>3. t \in Research /\ doc[t] \in SoundVerdicts /\ pc'[t] = "compare"
      BY <3>2 DEF SourceInv, Judged, Goto, GateInv
    <3>4. Listed(said)
      <4>1. Listed(doc[t].claims)
        BY <3>2 DEF GateInv
      <4>2. DOMAIN said = DOMAIN doc[t].claims
            /\ said = [i \in DOMAIN doc[t].claims |-> said[i]]
        OBVIOUS
      <4> HIDE DEF said
      <4> QED BY <4>1, <4>2, RewrittenIsListed
    <3>5. PICK p : p = said
      OBVIOUS
    <3>6. /\ Said
          /\ \A c \in Ids' \ Ids :
               /\ claims'[c].run = Run(t) /\ claims'[c].atom = Atom(t)
               /\ \E i \in DOMAIN p : claims'[c].text = p[i]
      <4>1. \E position : Submit(Run(t), Atom(t), position, p)
        BY <3>2, <3>5
      <4>2. Listed(p)
        BY <3>4, <3>5
      <4> QED BY <4>1, <4>2, SubmitKeeps
    <3>7. DOMAIN p = DOMAIN doc[t].claims /\ \A i \in DOMAIN p : p[i] = doc[t].claims[i].text
      BY <3>5
    <3> HIDE DEF said
    <3>8. ASSUME NEW c \in Ids' PROVE \E u \in Research : SaidBy(c, u)'
      <4>1. CASE c \in Ids
        <5>1. PICK u \in Research : SaidBy(c, u)
          BY <4>1 DEF SourceInv
        <5>2. pc'[u] \in Later /\ doc'[u] = doc[u]
          BY <2>1, <5>1 DEF SaidBy, Tasks
        <5>3. SaidBy(c, u)'
          BY <3>6, <4>1, <5>1, <5>2 DEF SaidBy, Said, SoundVerdicts
        <5> QED BY <5>3
      <4>2. CASE c \notin Ids
        <5>1. SaidBy(c, t)'
          BY <3>2, <3>3, <3>6, <3>7, <3>8, <4>2 DEF SaidBy, Later, SoundVerdicts
        <5> QED BY <3>3, <5>1
      <4> QED BY <4>1, <4>2
    <3> QED BY <2>1, <3>8 DEF SourceInv
  <2> QED BY <2>2, <2>3
<1> QED BY <1>1, <1>2, <1>3 DEF Next

\* Whatever is in the memory was said by a sound verdict of a research task of its
\* run, whichever tasks run, fail or are decided on, for any documents: the searches
\* for rings, and the look at the files, miss nothing in them.
THEOREM OnlySoundVerdictsAreKept ==
  ASSUME NEW ts \in SUBSET Tasks
  PROVE  InitOf(ts) /\ [][Next]_vars => []ClaimsComeFromValidVerdicts
<1>1. InitOf(ts) => GateInv /\ SourceInv
  <2> SUFFICES ASSUME InitOf(ts) PROVE GateInv /\ SourceInv
    OBVIOUS
  <2>1. Ids = {} /\ \A t \in Tasks : pc[t] \in {"idle", "guard", "generate"}
    BY DEF InitOf, MemoryInit, Ids
  <2> QED BY <2>1, GateInit DEF SourceInv, Judged
<1>2. GateInv /\ SourceInv /\ [Next]_vars => GateInv' /\ SourceInv'
  BY GateStep, SourceStep
<1>3. SourceInv => ClaimsComeFromValidVerdicts
  BY DEF SourceInv, SaidBy, ClaimsComeFromValidVerdicts
<1> QED BY <1>1, <1>2, <1>3, PTL

-----------------------------------------------------------------------------
(* The file of an edit task. *)

\* Counting the numbers up to n that are in T, and one more.
LEMMA CountNext ==
  ASSUME NEW n \in Nat, NEW T
  PROVE  /\ Cardinality({i \in 1 .. n : i \in T}) \in Nat
         /\ Cardinality({i \in 1 .. n + 1 : i \in T})
              = Cardinality({i \in 1 .. n : i \in T}) + (IF n + 1 \in T THEN 1 ELSE 0)
<1> DEFINE C == {i \in 1 .. n : i \in T}
<1>1. IsFiniteSet(1 .. n) /\ C \in SUBSET (1 .. n)
  BY FS_Interval
<1>2. IsFiniteSet(C)
  <2> HIDE DEF C
  <2> QED BY <1>1, FS_Subset
<1>3. Cardinality(C) \in Nat
  <2> HIDE DEF C
  <2> QED BY <1>2, FS_CardinalityType
<1>4. CASE n + 1 \in T
  <2>1. {i \in 1 .. n + 1 : i \in T} = C \cup {n + 1} /\ n + 1 \notin C
    BY <1>4
  <2>2. Cardinality(C \cup {n + 1}) = Cardinality(C) + 1
    <3> HIDE DEF C
    <3> QED BY <1>2, <2>1, FS_AddElement
  <2> QED BY <1>3, <1>4, <2>1, <2>2
<1>5. CASE n + 1 \notin T
  <2>1. {i \in 1 .. n + 1 : i \in T} = C
    BY <1>5
  <2> QED BY <1>3, <1>5, <2>1
<1> QED BY <1>3, <1>4, <1>5

\* The loop behind Content.
Makes(bs, made) ==
    made[0] = Original /\ \A n \in 1 .. Len(bs) : made[n] = ApplyBlock(made[n - 1], bs[n])

Counts == [DOMAIN Original -> Int]

LEMMA ApplyType ==
  ASSUME NEW f \in Counts \cup {Torn}, NEW b \in [old : DOMAIN Original, new : DOMAIN Original]
  PROVE  /\ ApplyBlock(f, b) \in Counts \cup {Torn}
         /\ ApplyBlock(f, b) # Torn => f # Torn /\ ApplyBlock(f, b) = Replaced(f, b)
<1>1. CASE f = Torn \/ f[b.old] # 1
  BY <1>1 DEF ApplyBlock
<1>2. CASE f # Torn /\ f[b.old] = 1
  <2>1. f \in Counts
    BY <1>2
  <2>2. Replaced(f, b) \in Counts
    BY <2>1 DEF Replaced, Counts
  <2> QED BY <1>2, <2>2 DEF ApplyBlock
<1> QED BY <1>1, <1>2

LEMMA ContentLoop ==
  ASSUME NEW bs \in Blocks
  PROVE  \E made : Makes(bs, made) /\ Content(bs) = made[Len(bs)]
<1> DEFINE D == Counts \cup {Torn}
           B == [old : DOMAIN Original, new : DOMAIN Original]
           step == [i \in 1 .. Len(bs) |-> [f \in D |-> ApplyBlock(f, bs[i])]]
           loop == CHOOSE made :
                     made = [n \in 0 .. Len(bs) |->
                               IF n = 0 THEN Original ELSE ApplyBlock(made[n - 1], bs[n])]
<1>0. bs \in Seq(B) /\ Original \in Counts
  BY EditsAssumption DEF Counts
<1>1. Len(bs) \in Nat /\ Original \in D /\ \A i \in 1 .. Len(bs) : bs[i] \in B
  <2> HIDE DEF B
  <2> QED BY <1>0, LenProperties, ElementOfSeq
<1>2. step \in [1 .. Len(bs) -> [D -> D]]
  <2>1. \A i \in 1 .. Len(bs), f \in D : ApplyBlock(f, bs[i]) \in D
    BY <1>1, ApplyType
  <2> HIDE DEF D
  <2> QED BY <2>1
<1>3. PICK f : f \in [0 .. Len(bs) -> D] /\ f[0] = Original /\ \A i \in 1 .. Len(bs) : f[i] = step[i][f[i - 1]]
  <2> HIDE DEF step, loop, D
  <2>1. \E f : IsLoop(f, Len(bs), D, Original, step)
    BY <1>1, <1>2, Recursion
  <2> QED BY <2>1 DEF IsLoop
<1>4. \A i \in 1 .. Len(bs) : f[i] = ApplyBlock(f[i - 1], bs[i])
  <2> TAKE i \in 1 .. Len(bs)
  <2>1. f[i - 1] \in D
    <3> HIDE DEF D, step, loop
    <3> QED BY <1>1, <1>3
  <2> HIDE DEF D
  <2> QED BY <1>3, <2>1
<1>5. f = [n \in 0 .. Len(bs) |-> IF n = 0 THEN Original ELSE ApplyBlock(f[n - 1], bs[n])]
  <2> HIDE DEF step, loop, D
  <2>1. \A n \in 0 .. Len(bs) : f[n] = IF n = 0 THEN Original ELSE ApplyBlock(f[n - 1], bs[n])
    <3> TAKE n \in 0 .. Len(bs)
    <3>1. CASE n = 0
      BY <1>3, <3>1
    <3>2. CASE n \in 1 .. Len(bs)
      <4>1. n # 0
        BY <3>2
      <4> QED BY <1>4, <3>2, <4>1, Zenon
    <3> QED BY <1>1, <3>1, <3>2
  <2> QED BY <1>3, <2>1
<1>6. loop = [n \in 0 .. Len(bs) |-> IF n = 0 THEN Original ELSE ApplyBlock(loop[n - 1], bs[n])]
  BY <1>5, Zenon
<1>7. Content(bs) = loop[Len(bs)]
  BY Zenon DEF Content
<1>8. loop[0] = Original
  <2> HIDE DEF loop
  <2> QED BY <1>1, <1>6
<1>9. \A n \in 1 .. Len(bs) : loop[n] = ApplyBlock(loop[n - 1], bs[n])
  <2> HIDE DEF loop
  <2>1. \A n \in 0 .. Len(bs) : loop[n] = IF n = 0 THEN Original ELSE ApplyBlock(loop[n - 1], bs[n])
    BY <1>6, Zenon
  <2> QED BY <1>1, <2>1
<1> HIDE DEF loop
<1> QED BY <1>7, <1>8, <1>9 DEF Makes

\* How often anchor a is the new, or the old, one of the first n blocks.
News(bs, n, a) == {i \in 1 .. n : i \in {j \in DOMAIN bs : bs[j].new = a}}
Olds(bs, n, a) == {i \in 1 .. n : i \in {j \in DOMAIN bs : bs[j].old = a}}

\* What comes of the first n blocks has each of them replaced once.
WholeUpTo(f, bs, n) ==
    /\ f \in Counts
    /\ \A a \in DOMAIN Original :
          f[a] = Original[a] + Cardinality(News(bs, n, a)) - Cardinality(Olds(bs, n, a))

LEMMA OneMoreBlock ==
  ASSUME NEW bs \in Blocks, NEW n \in Nat, n + 1 \in 1 .. Len(bs), NEW f, WholeUpTo(f, bs, n)
  PROVE  WholeUpTo(Replaced(f, bs[n + 1]), bs, n + 1)
<1> DEFINE o == bs[n + 1].old
           w == bs[n + 1].new
           g == Replaced(f, bs[n + 1])
<1> DEFINE B == [old : DOMAIN Original, new : DOMAIN Original]
<1>1. o \in DOMAIN Original /\ w \in DOMAIN Original /\ n + 1 \in DOMAIN bs
  <2>1. bs \in Seq(B)
    BY EditsAssumption
  <2> HIDE DEF B
  <2>2. bs[n + 1] \in B /\ n + 1 \in DOMAIN bs
    BY <2>1, ElementOfSeq, LenProperties
  <2> QED BY <2>2 DEF B
<1>2. g = [f EXCEPT ![o] = @ - 1, ![w] = @ + 1]
  BY DEF Replaced
<1>3. f \in [DOMAIN Original -> Int] /\ Original \in [DOMAIN Original -> Int]
  BY EditsAssumption DEF WholeUpTo, Counts
<1> HIDE DEF g
<1>4. g \in Counts
  <2> HIDE DEF o, w
  <2> QED BY <1>1, <1>2, <1>3 DEF Counts
<1>5. ASSUME NEW a \in DOMAIN Original
      PROVE  g[a] = Original[a] + Cardinality(News(bs, n + 1, a)) - Cardinality(Olds(bs, n + 1, a))
  <2>1. g[a] = f[a] + (IF w = a THEN 1 ELSE 0) - (IF o = a THEN 1 ELSE 0)
    <3> HIDE DEF o, w
    <3> QED BY <1>1, <1>2, <1>3
  <2>2. /\ Cardinality(News(bs, n, a)) \in Nat
        /\ Cardinality(News(bs, n + 1, a)) = Cardinality(News(bs, n, a)) + (IF w = a THEN 1 ELSE 0)
    <3> DEFINE T == {j \in DOMAIN bs : bs[j].new = a}
    <3>1. n + 1 \in T <=> w = a
      BY <1>1
    <3> HIDE DEF T, w
    <3>2. /\ Cardinality({i \in 1 .. n : i \in T}) \in Nat
          /\ Cardinality({i \in 1 .. n + 1 : i \in T})
              = Cardinality({i \in 1 .. n : i \in T}) + (IF n + 1 \in T THEN 1 ELSE 0)
      BY CountNext
    <3> QED BY <3>1, <3>2 DEF News, T
  <2>3. /\ Cardinality(Olds(bs, n, a)) \in Nat
        /\ Cardinality(Olds(bs, n + 1, a)) = Cardinality(Olds(bs, n, a)) + (IF o = a THEN 1 ELSE 0)
    <3> DEFINE T == {j \in DOMAIN bs : bs[j].old = a}
    <3>1. n + 1 \in T <=> o = a
      BY <1>1
    <3> HIDE DEF T, o
    <3>2. /\ Cardinality({i \in 1 .. n : i \in T}) \in Nat
          /\ Cardinality({i \in 1 .. n + 1 : i \in T})
              = Cardinality({i \in 1 .. n : i \in T}) + (IF n + 1 \in T THEN 1 ELSE 0)
      BY CountNext
    <3> QED BY <3>1, <3>2 DEF Olds, T
  <2>4. f[a] = Original[a] + Cardinality(News(bs, n, a)) - Cardinality(Olds(bs, n, a))
    BY DEF WholeUpTo
  <2>5. Original[a] \in Int /\ f[a] \in Int
    BY <1>3
  <2> HIDE DEF o, w
  <2> QED BY <2>1, <2>2, <2>3, <2>4, <2>5
<1> QED BY <1>4, <1>5 DEF WholeUpTo, g

\* Applying the blocks of an answer in turn replaces each once, or is refused.
LEMMA ApplyingIsWhole ==
  ASSUME NEW bs \in Blocks, Content(bs) # Torn
  PROVE  Whole(Content(bs), bs)
<1>1. PICK made : Makes(bs, made) /\ Content(bs) = made[Len(bs)]
  BY ContentLoop
<1>2. Len(bs) \in Nat /\ DOMAIN bs = 1 .. Len(bs)
      /\ \A i \in 1 .. Len(bs) : bs[i] \in [old : DOMAIN Original, new : DOMAIN Original]
  <2> DEFINE B == [old : DOMAIN Original, new : DOMAIN Original]
  <2>1. bs \in Seq(B)
    BY EditsAssumption
  <2> HIDE DEF B
  <2>2. Len(bs) \in Nat /\ DOMAIN bs = 1 .. Len(bs) /\ \A i \in 1 .. Len(bs) : bs[i] \in B
    BY <2>1, ElementOfSeq, LenProperties
  <2> QED BY <2>2 DEF B
<1> DEFINE N == {n \in Nat : n <= Len(bs) => made[n] = Torn \/ WholeUpTo(made[n], bs, n)}
<1>3. 0 \in N
  <2>1. made[0] = Original /\ Original \in [DOMAIN Original -> Int]
    BY <1>1, EditsAssumption DEF Makes
  <2>2. \A a \in DOMAIN Original : News(bs, 0, a) = {} /\ Olds(bs, 0, a) = {}
    BY DEF News, Olds
  <2>3. Cardinality({}) = 0
    BY FS_EmptySet
  <2>4. \A a \in DOMAIN Original : Original[a] = Original[a] + 0 - 0
    BY <2>1
  <2>5. WholeUpTo(Original, bs, 0)
    BY <2>1, <2>2, <2>3, <2>4 DEF WholeUpTo, Counts
  <2> QED BY <2>1, <2>5
<1>4. ASSUME NEW n \in Nat, n \in N PROVE n + 1 \in N
  <2> SUFFICES ASSUME n + 1 <= Len(bs), made[n + 1] # Torn
               PROVE  WholeUpTo(made[n + 1], bs, n + 1)
    OBVIOUS
  <2>1. n + 1 \in 1 .. Len(bs) /\ (n + 1) - 1 = n
    BY <1>2
  <2>2. made[n + 1] = ApplyBlock(made[n], bs[n + 1])
    BY <1>1, <2>1 DEF Makes
  <2>3. made[n] = Torn \/ WholeUpTo(made[n], bs, n)
    BY <1>2, <1>4
  <2>4. made[n] \in Counts \cup {Torn} /\ bs[n + 1] \in [old : DOMAIN Original, new : DOMAIN Original]
    BY <1>2, <2>1, <2>3 DEF WholeUpTo
  <2>5. made[n] # Torn /\ made[n + 1] = Replaced(made[n], bs[n + 1])
    BY <2>2, <2>4, ApplyType
  <2> QED BY <2>1, <2>3, <2>5, OneMoreBlock
<1> HIDE DEF N
<1>5. Len(bs) \in N
  BY <1>2, <1>3, <1>4, Induction
<1>6. WholeUpTo(Content(bs), bs, Len(bs))
  BY <1>1, <1>2, <1>5 DEF N
<1>7. \A a \in DOMAIN Original : /\ News(bs, Len(bs), a) = {i \in DOMAIN bs : bs[i].new = a}
                                /\ Olds(bs, Len(bs), a) = {i \in DOMAIN bs : bs[i].old = a}
  BY <1>2 DEF News, Olds
<1> QED BY <1>6, <1>7 DEF WholeUpTo, Whole

Applies(bs) == bs \in Blocks /\ Content(bs) # Torn

EditInv ==
    /\ DOMAIN pc = Tasks /\ DOMAIN file = Tasks /\ DOMAIN applied = Tasks
    /\ \A t \in Tasks :
        /\ \/ file[t] \in {Original, Torn}
           \/ Applies(applied[t]) /\ file[t] = Content(applied[t])
        /\ pc[t] \in {"readback", "commitEdit", "commitUnread"} => Applies(applied[t])
        /\ pc[t] = "commitEdit" => file[t] = Content(applied[t])

LEMMA EditStep == EditInv /\ [Next]_vars => EditInv'
<1> SUFFICES ASSUME EditInv, [Next]_vars PROVE EditInv'
  OBVIOUS
<1> USE DEF Applies
<1>1. CASE UNCHANGED handlers
  BY <1>1 DEF EditInv, handlers
<1>2. ASSUME NEW t \in Tasks, ResearchNext(t) \/ Rejected(t) \/ Refused(t)
      PROVE  EditInv'
  <2>1. UNCHANGED <<file, applied>>
    BY <1>2 DEF ResearchNext, Guard, GenerateRaises, Generate,
         VerifySources, SubmitClaims, Compare, PersistFound,
         ScoreAndCommit, Rejected, Retries, Refused
  <2>2. \E l : l \notin {"readback", "commitEdit", "commitUnread"} /\ Goto(t, l)
    BY <1>2 DEF ResearchNext, Guard, GenerateRaises, Generate,
         VerifySources, SubmitClaims, Compare, PersistFound,
         ScoreAndCommit, Rejected, Retries, Refused
  <2> QED BY <2>1, <2>2 DEF EditInv, Goto
<1>3. ASSUME NEW t \in Tasks, Write(t) PROVE EditInv'
  <2>1. PICK bs \in Blocks :
          /\ Content(bs) # Torn /\ applied' = [applied EXCEPT ![t] = bs]
          /\ \/ file' = [file EXCEPT ![t] = Content(bs)]
             \/ file' = [file EXCEPT ![t] = Torn]
          /\ Goto(t, "readback") \/ Goto(t, "FAILED")
    BY <1>3 DEF Write
  <2> QED BY <2>1 DEF EditInv, Goto
<1>4. ASSUME NEW t \in Tasks, ReadBack(t) PROVE EditInv'
  <2>1. /\ pc[t] = "readback" /\ UNCHANGED <<file, applied>>
        /\ \E l : Goto(t, l) /\ (l = "commitEdit" => file[t] = Content(applied[t]))
    BY <1>4 DEF ReadBack, At, WholeOnly
  <2> QED BY <2>1 DEF EditInv, Goto
<1>5. ASSUME NEW t \in Tasks, CommitEdit(t) PROVE EditInv'
  <2>1. /\ pc[t] \in {"commitEdit", "commitUnread"} /\ Goto(t, "COMMIT")
        /\ applied' = applied
        /\ file' = [file EXCEPT ![t] = Content(applied[t])] \/ file' = file
    BY <1>5 DEF CommitEdit
  <2> QED BY <2>1 DEF EditInv, Goto
<1>6. CASE UNCHANGED vars
  BY <1>1, <1>6 DEF vars, handlers
<1> QED BY <1>1, <1>2, <1>3, <1>4, <1>5, <1>6 DEF Next, EditNext

\* The file of an edit task is as it was, has every block of one answer replaced
\* once, or was cut short, and that is never committed once it was read back: for
\* any file and any answers.
THEOREM EditsAreWhole ==
  ASSUME NEW ts \in SUBSET Tasks
  PROVE  InitOf(ts) /\ [][Next]_vars => []EditIsAllOrNothing
<1>1. InitOf(ts) => EditInv
  BY DEF InitOf, EditInv, Tasks
<1>2. EditInv => EditIsAllOrNothing
  BY ApplyingIsWhole DEF EditInv, Applies, EditIsAllOrNothing, Tasks
<1> QED BY <1>1, <1>2, EditStep, PTL

-----------------------------------------------------------------------------
(* The results archive. *)

\* Runs are told apart by their names, which are ordered.
RunsAreOrdered == Archived \in SUBSET Int /\ IsFiniteSet(Archived) /\ Keep \in Nat

Dirs == [report : {"none", "unreadable", "nameless", "naming"}, newest : Int, snap : BOOLEAN]

\* An age read, and those read by processes still pruning.
Ages == [run : Archived, at : Int]
Taken == UNION {job[w].seen : w \in Archivers}
Latest(r) == [run |-> r, at |-> dir[r].newest]

DirTypes ==
    /\ archivings \in Int
    /\ dir \in [Archived -> Dirs]
    /\ \A r \in Archived : /\ dir[r].newest <= archivings
                           /\ dir[r].report = "none" => ~dir[r].snap

\* A process has read ages of snapshots of its own project, one of each, and
\* each directory once.
JobTypes ==
    \A w \in Archivers :
        /\ job[w].pc # "idle" => job[w].run \in Archived /\ dir[job[w].run].report # "none"
        /\ job[w].pc \notin {"look", "unlink"} => job[w].seen = {}
        /\ \A y \in job[w].seen : ProjectOf[y.run] = ProjectOf[job[w].run]
        /\ \A y, z \in job[w].seen : y.run = z.run => y = z
        /\ job[w].pc = "look" => \A y \in job[w].seen : y.run \notin job[w].left

JobShape == job \in [Archivers -> [pc : {"idle", "report", "copy", "list", "look", "unlink"},
                                   run : Int, prune : BOOLEAN, left : SUBSET Archived,
                                   seen : SUBSET Ages]]

\* What was read of a snapshot not written anew since is its age, if it is a
\* snapshot of its project still.
AgesHold ==
    /\ \A y \in Taken : y.run \notin renewed =>
          /\ y.at <= dir[y.run].newest
          /\ dir[y.run].snap /\ dir[y.run].report = "naming" => y = Latest(y.run)
    /\ \A y, z \in Taken : y.run = z.run /\ y.run \notin renewed => y = z

\* The snapshots of y's project that pruning keeps rather than y's.
Ahead(y) ==
    {q \in Archived \ {y.run} :
        /\ ProjectOf[q] = ProjectOf[y.run]
        /\ \/ q \in renewed
           \/ /\ dir[q].snap /\ Results!Before(Latest(q), y)
              /\ \A z \in Taken : z.run = q => Results!Before(z, y)}

Remaining(p) == {q \in Archived : ProjectOf[q] = p /\ (dir[q].snap \/ q \in renewed)}

\* Of what was judged old, or is gone, Keep are ahead; and whoever judged left Keep.
Spared ==
    \A w \in Archivers :
        /\ \A y \in job[w].seen :
              y.run \notin renewed /\ (job[w].pc = "unlink" \/ ~dir[y.run].snap) =>
                Cardinality(Ahead(y)) >= Keep
        /\ \A p : job[w].pc = "unlink" /\ job[w].seen # {} /\ p = ProjectOf[job[w].run] =>
              Cardinality(Remaining(p)) >= Keep

PruneInv == DirTypes /\ JobShape /\ JobTypes /\ AgesHold /\ Spared

LEMMA AtLeast ==
  ASSUME RunsAreOrdered, NEW S \in SUBSET Archived, NEW T \in SUBSET S, Cardinality(T) >= Keep
  PROVE  Cardinality(S) >= Keep
<1>1. IsFiniteSet(S)
  BY FS_Subset DEF RunsAreOrdered
<1>2. Cardinality(T) <= Cardinality(S) /\ Cardinality(S) \in Nat /\ Cardinality(T) \in Nat
  BY <1>1, FS_Subset, FS_CardinalityType
<1> QED BY <1>2 DEF RunsAreOrdered

\* The order of age is a strict order, and a newer file keeps its place.
LEMMA BeforeIsOrder ==
  ASSUME RunsAreOrdered, NEW x \in Ages, NEW y \in Ages, NEW z \in Ages
  PROVE  /\ ~Results!Before(x, x)
         /\ Results!Before(x, y) /\ Results!Before(y, z) => Results!Before(x, z)
         /\ x.run = y.run /\ x.at >= y.at /\ Results!Before(y, z) => Results!Before(x, z)
<1>1. /\ x.at \in Int /\ y.at \in Int /\ z.at \in Int
      /\ x.run \in Int /\ y.run \in Int /\ z.run \in Int
  BY DEF RunsAreOrdered, Ages
<1> QED BY <1>1 DEF Results!Before

LEMMA PruneTypes ==
  ASSUME PruneInv
  PROVE  /\ Taken \subseteq Ages
         /\ \A r \in Archived : Latest(r) \in Ages /\ dir[r].newest \in Int
         /\ \A y : Ahead(y) \subseteq Archived
         /\ \A p : Remaining(p) \subseteq Archived
         /\ \A w \in Archivers : \A y \in job[w].seen : y \in Taken /\ y \in Ages /\ y.run \in Archived
<1>1. Taken \subseteq Ages
  BY DEF PruneInv, JobShape, Taken
<1>2. \A r \in Archived : dir[r].newest \in Int
  BY DEF PruneInv, DirTypes, Dirs
<1> QED BY <1>1, <1>2 DEF Latest, Ahead, Remaining, Taken, Ages

\* What is ahead of a snapshot that is ahead is ahead.
LEMMA AheadOfAhead ==
  ASSUME RunsAreOrdered, PruneInv, NEW x \in Taken, NEW y \in Taken,
         x.run \notin renewed, y.run \notin renewed,
         ProjectOf[x.run] = ProjectOf[y.run], Results!Before(x, y)
  PROVE  Ahead(x) \subseteq Ahead(y)
<1> SUFFICES ASSUME NEW q \in Ahead(x) PROVE q \in Ahead(y)
  OBVIOUS
<1>1. /\ q \in Archived /\ q # x.run /\ ProjectOf[q] = ProjectOf[y.run]
      /\ x \in Ages /\ y \in Ages /\ Latest(q) \in Ages /\ Taken \subseteq Ages
  BY PruneTypes DEF Ahead
<1>2. CASE q \in renewed
  BY <1>1, <1>2 DEF Ahead
<1>3. CASE q \notin renewed
  <2>1. /\ dir[q].snap /\ Results!Before(Latest(q), x)
        /\ \A z \in Taken : z.run = q => Results!Before(z, x)
    BY <1>3 DEF Ahead
  <2>2. \A z \in Ages : Results!Before(z, x) => Results!Before(z, y)
    BY <1>1, BeforeIsOrder
  <2>3. q # y.run
    <3>1. Results!Before(y, x) => Results!Before(x, x)
      BY <1>1, BeforeIsOrder
    <3>2. ~Results!Before(x, x)
      BY <1>1, BeforeIsOrder
    <3> QED BY <2>1, <3>1, <3>2
  <2>4. /\ Results!Before(Latest(q), y)
        /\ \A z \in Taken : z.run = q => Results!Before(z, y)
    BY <1>1, <2>1, <2>2
  <2> QED BY <1>1, <2>1, <2>3, <2>4 DEF Ahead
<1> QED BY <1>2, <1>3

\* What is ahead is kept.
LEMMA AheadIsKept ==
  ASSUME NEW y
  PROVE  Ahead(y) \subseteq Remaining(ProjectOf[y.run])
BY DEF Ahead, Remaining

LEMMA PruneInit == ASSUME RunsAreOrdered, Results!Init PROVE PruneInv
<1> USE DEF Results!NoDir, Results!NoJob
<1>1. DirTypes
  BY DEF Results!Init, DirTypes, Dirs
<1>2. JobShape
  BY DEF Results!Init, JobShape
<1>3. JobTypes
  BY DEF Results!Init, JobTypes
<1>4. Taken = {}
  BY DEF Results!Init, Taken
<1>5. AgesHold
  BY <1>4 DEF AgesHold
<1>6. Spared
  BY DEF Results!Init, Spared
<1> QED BY <1>1, <1>2, <1>3, <1>5, <1>6 DEF PruneInv

\* A snapshot that was ahead stays ahead when files only get newer and the ages
\* read since are the files' own.
LEMMA AheadGrows ==
  ASSUME RunsAreOrdered, PruneInv, Taken' \subseteq Ages, dir' \in [Archived -> Dirs],
         \A r \in Archived : dir'[r].newest >= dir[r].newest,
         renewed \subseteq renewed',
         \A z \in Taken' \ Taken : z = Latest(z.run),
         NEW y \in Ages, NEW q \in Ahead(y), dir[q].snap => dir'[q].snap \/ q \in renewed
  PROVE  q \in Ahead(y)'
<1>1. q \in Archived \ {y.run} /\ ProjectOf[q] = ProjectOf[y.run]
  BY DEF Ahead
<1>2. CASE q \in renewed
  BY <1>1, <1>2 DEF Ahead
<1>3. CASE q \notin renewed
  <2>1. /\ dir'[q].snap /\ Results!Before(Latest(q), y)
        /\ \A z \in Taken : z.run = q => Results!Before(z, y)
    BY <1>3 DEF Ahead
  <2>2. Latest(q) \in Ages /\ Latest(q)' \in Ages /\ dir'[q].newest >= dir[q].newest
    <3>1. dir'[q].newest \in Int /\ Latest(q) \in Ages
      BY <1>1, PruneTypes DEF Dirs
    <3> QED BY <1>1, <3>1 DEF Latest, Ages
  <2>3. Results!Before(Latest(q)', y)
    <3>1. Latest(q)'.run = Latest(q).run /\ Latest(q)'.at >= Latest(q).at
      BY <2>2 DEF Latest
    <3> QED BY <2>1, <2>2, <3>1, BeforeIsOrder
  <2>4. \A z \in Taken' : z.run = q => Results!Before(z, y)
    BY <2>1
  <2> QED BY <1>1, <2>1, <2>3, <2>4 DEF Ahead
<1> QED BY <1>2, <1>3

\* A step that removes nothing and judges nothing spares what was spared.
LEMMA QuietSpares ==
  ASSUME RunsAreOrdered, PruneInv, DirTypes', JobShape',
         \A r \in Archived : dir'[r].newest >= dir[r].newest /\ (dir[r].snap => dir'[r].snap),
         renewed \subseteq renewed',
         \A z \in Taken' \ Taken : z = Latest(z.run) /\ dir'[z.run].snap,
         \A w \in Archivers : job'[w].pc = "unlink" /\ job'[w].seen # {} =>
             job[w].pc = "unlink" /\ job'[w].run = job[w].run /\ job'[w].seen \subseteq job[w].seen
  PROVE  Spared'
<1>1. Taken' \subseteq Ages /\ dir' \in [Archived -> Dirs]
  BY DEF JobShape, Taken, DirTypes
<1>2. ASSUME NEW y \in Ages, Cardinality(Ahead(y)) >= Keep
      PROVE  Cardinality(Ahead(y)') >= Keep
  <2>1. \A q \in Ahead(y) : dir[q].snap => dir'[q].snap
    BY DEF Ahead
  <2>2. Ahead(y) \subseteq Ahead(y)'
    BY <1>1, <2>1, AheadGrows
  <2>3. Ahead(y)' \subseteq Archived
    BY DEF Ahead
  <2> QED BY <1>2, <2>2, <2>3, AtLeast
<1>3. ASSUME NEW p, Cardinality(Remaining(p)) >= Keep
      PROVE  Cardinality(Remaining(p)') >= Keep
  <2>1. Remaining(p) \subseteq Remaining(p)' /\ Remaining(p)' \subseteq Archived
    BY DEF Remaining
  <2> QED BY <1>3, <2>1, AtLeast
<1> SUFFICES ASSUME NEW w \in Archivers
             PROVE  /\ \A y \in job'[w].seen :
                          y.run \notin renewed' /\ (job'[w].pc = "unlink" \/ ~dir'[y.run].snap) =>
                            Cardinality(Ahead(y)') >= Keep
                    /\ \A p : /\ job'[w].pc = "unlink" /\ job'[w].seen # {}
                              /\ p = ProjectOf[job'[w].run]
                              => Cardinality(Remaining(p)') >= Keep
  BY DEF Spared
<1>4. ASSUME NEW y \in job'[w].seen, y.run \notin renewed', job'[w].pc = "unlink" \/ ~dir'[y.run].snap
      PROVE  Cardinality(Ahead(y)') >= Keep
  <2>1. y \in Taken' /\ y \in Ages /\ y.run \in Archived
    BY <1>1, <1>4 DEF Taken, Ages
  <2>2. CASE job'[w].pc = "unlink"
    <3>1. y \in job[w].seen /\ job[w].pc = "unlink" /\ y.run \notin renewed
      BY <1>4, <2>2
    <3>2. Cardinality(Ahead(y)) >= Keep
      BY <3>1 DEF PruneInv, Spared
    <3> QED BY <1>2, <2>1, <3>2
  <2>3. CASE ~dir'[y.run].snap
    <3>1. y \in Taken /\ ~dir[y.run].snap /\ y.run \notin renewed
      BY <1>4, <2>1, <2>3
    <3>2. PICK v \in Archivers : y \in job[v].seen
      BY <3>1 DEF Taken
    <3>3. Cardinality(Ahead(y)) >= Keep
      BY <3>1, <3>2 DEF PruneInv, Spared
    <3> QED BY <1>2, <2>1, <3>3
  <2> QED BY <1>4, <2>2, <2>3
<1>5. ASSUME NEW p, job'[w].pc = "unlink", job'[w].seen # {}, p = ProjectOf[job'[w].run]
      PROVE  Cardinality(Remaining(p)') >= Keep
  <2>1. job[w].pc = "unlink" /\ job[w].seen # {} /\ job'[w].run = job[w].run
    BY <1>5
  <2>2. Cardinality(Remaining(p)) >= Keep
    BY <1>5, <2>1 DEF PruneInv, Spared
  <2> QED BY <1>3, <2>2
<1> QED BY <1>4, <1>5

\* A file written makes its directory newer; if that is a snapshot somebody has read
\* the age of, it is now one written anew.
LEMMA PutKeeps ==
  ASSUME RunsAreOrdered, PruneInv, JobShape', JobTypes', Taken' = Taken,
         NEW r \in Archived, NEW d \in Dirs, Results!Put(r, d),
         d.newest >= dir[r].newest, dir[r].snap => d.snap, d.report # "none",
         archivings' \in Int, archivings' >= archivings, d.newest <= archivings',
         \A w \in Archivers : job'[w].pc = "unlink" /\ job'[w].seen # {} =>
             job[w].pc = "unlink" /\ job'[w].run = job[w].run /\ job'[w].seen \subseteq job[w].seen
  PROVE  PruneInv'
<1>1. /\ dir' = [dir EXCEPT ![r] = d] /\ dir \in [Archived -> Dirs]
      /\ renewed' = IF Results!Read(r) /\ d.snap /\ d.report = "naming"
                    THEN renewed \union {r} ELSE renewed
  BY DEF Results!Put, PruneInv, DirTypes
<1>2. dir'[r] = d /\ \A q \in Archived \ {r} : dir'[q] = dir[q]
  BY <1>1
<1>3. DirTypes'
  <2>1. \A q \in Archived : dir[q].newest \in Int /\ dir[q].newest <= archivings
    BY DEF PruneInv, DirTypes, Dirs
  <2>2. archivings \in Int
    BY DEF PruneInv, DirTypes
  <2>3. \A q \in Archived : dir'[q].newest <= archivings'
    BY <1>2, <2>1, <2>2
  <2>4. \A q \in Archived : dir'[q].report = "none" => ~dir'[q].snap
    BY <1>2 DEF PruneInv, DirTypes
  <2>5. dir' \in [Archived -> Dirs]
    BY <1>1
  <2> QED BY <2>3, <2>4, <2>5 DEF DirTypes
<1>4. \A q \in Archived : dir'[q].newest >= dir[q].newest /\ (dir[q].snap => dir'[q].snap)
  <2>1. \A q \in Archived : dir[q].newest \in Int
    BY PruneTypes
  <2> QED BY <1>2, <2>1
<1>5. AgesHold'
  <2>1. ASSUME NEW y \in Taken, y.run \notin renewed'
        PROVE  /\ y.at <= dir'[y.run].newest
               /\ dir'[y.run].snap /\ dir'[y.run].report = "naming" => y = Latest(y.run)'
    <3>1. y \in Ages /\ y.run \in Archived /\ y.run \notin renewed
      BY <1>1, <2>1, PruneTypes DEF Ages
    <3>2. /\ y.at <= dir[y.run].newest
          /\ dir[y.run].snap /\ dir[y.run].report = "naming" => y = Latest(y.run)
      BY <2>1, <3>1 DEF PruneInv, AgesHold
    <3>3. CASE y.run # r
      BY <1>2, <3>1, <3>2, <3>3 DEF Latest
    <3>4. CASE y.run = r
      <4>1. Results!Read(r)
        BY <2>1, <3>4 DEF Results!Read, Taken
      <4>2. ~(d.snap /\ d.report = "naming")
        BY <1>1, <2>1, <3>4, <4>1
      <4>3. y.at \in Int /\ dir[r].newest \in Int /\ dir'[r].newest \in Int
        BY <1>2, <3>1, PruneTypes DEF Ages, Dirs
      <4> QED BY <1>2, <3>2, <3>4, <4>2, <4>3
    <3> QED BY <3>3, <3>4
  <2>2. \A y, z \in Taken : y.run = z.run /\ y.run \notin renewed' => y = z
    BY <1>1 DEF PruneInv, AgesHold
  <2> QED BY <2>1, <2>2 DEF AgesHold
<1>6. Spared'
  BY <1>1, <1>3, <1>4, QuietSpares
<1> QED BY <1>3, <1>5, <1>6 DEF PruneInv

\* The directories are as they were, and whatever age was read is theirs.
LEMMA LookKeeps ==
  ASSUME RunsAreOrdered, PruneInv, JobShape', JobTypes', UNCHANGED <<dir, archivings, renewed>>,
         \A z \in Taken' \ Taken :
             z = Latest(z.run) /\ dir[z.run].snap /\ dir[z.run].report = "naming",
         \A w \in Archivers : job'[w].pc = "unlink" /\ job'[w].seen # {} =>
             job[w].pc = "unlink" /\ job'[w].run = job[w].run /\ job'[w].seen \subseteq job[w].seen
  PROVE  PruneInv'
<1>1. DirTypes'
  BY DEF PruneInv, DirTypes
<1>2. \A r : Latest(r)' = Latest(r)
  BY DEF Latest
<1>3. \A y \in Taken' : y.run \notin renewed =>
          /\ y.at <= dir[y.run].newest
          /\ dir[y.run].snap /\ dir[y.run].report = "naming" => y = Latest(y.run)
  <2> TAKE y \in Taken'
  <2> HAVE y.run \notin renewed
  <2>1. CASE y \in Taken
    BY <2>1 DEF PruneInv, AgesHold
  <2>2. CASE y \notin Taken
    <3>1. y = Latest(y.run) /\ y \in Ages
      BY <2>2 DEF JobShape, Taken
    <3>2. y.at \in Int /\ y.at = dir[y.run].newest
      BY <3>1 DEF Latest, Ages
    <3> QED BY <3>1, <3>2
  <2> QED BY <2>1, <2>2
<1>4. \A y, z \in Taken' : y.run = z.run /\ y.run \notin renewed => y = z
  <2> TAKE y, z \in Taken'
  <2> HAVE y.run = z.run /\ y.run \notin renewed
  <2>1. CASE y \in Taken /\ z \in Taken
    BY <2>1 DEF PruneInv, AgesHold
  <2>2. CASE y \notin Taken \/ z \notin Taken
    <3>1. dir[y.run].snap /\ dir[y.run].report = "naming"
      BY <2>2
    <3> QED BY <1>3, <3>1
  <2> QED BY <2>1, <2>2
<1>5. AgesHold'
  BY <1>2, <1>3, <1>4 DEF AgesHold
<1>6. \A r \in Archived : dir'[r].newest >= dir[r].newest /\ (dir[r].snap => dir'[r].snap)
  BY PruneTypes
<1>7. Spared'
  BY <1>1, <1>6, QuietSpares
<1> QED BY <1>1, <1>5, <1>7 DEF PruneInv

\* What is judged old has Keep ahead of it, and Keep are kept, even if some of those
\* it was judged by have since been removed: they had Keep ahead of them.
LEMMA JudgedRightly ==
  ASSUME RunsAreOrdered, PruneInv, NEW w \in Archivers, NEW y \in Results!Old(job[w].seen)
  PROVE  /\ y.run \notin renewed => Cardinality(Ahead(y)) >= Keep
         /\ Cardinality(Remaining(ProjectOf[job[w].run])) >= Keep
<1> DEFINE p == ProjectOf[job[w].run]
           X == {x \in job[w].seen : Results!Before(x, y)}
           names == {x.run : x \in X}
<1>1. y \in job[w].seen /\ Results!Cardinality(X) >= Keep
  BY DEF Results!Old
<1>2. Cardinality(X) >= Keep
  BY <1>1 DEF Cardinality, Results!Cardinality
<1>3. /\ \A x \in job[w].seen : /\ x \in Taken /\ x \in Ages /\ x.run \in Archived
                                /\ ProjectOf[x.run] = p
      /\ \A x, z \in job[w].seen : x.run = z.run => x = z
  BY PruneTypes DEF PruneInv, JobTypes
<1>4. names \subseteq Archived /\ IsFiniteSet(names)
  <2>1. names \subseteq Archived
    BY <1>3
  <2> QED BY <2>1, FS_Subset DEF RunsAreOrdered
<1>5. Cardinality(names) >= Keep
  <2> DEFINE f == [x \in X |-> x.run]
  <2>1. f \in [X -> names] /\ \A x, z \in X : f[x] = f[z] => x = z
    BY <1>3
  <2> HIDE DEF f
  <2>2. f \in Injection(X, names)
    BY <2>1 DEF Injection, IsInjective
  <2>3. IsFiniteSet(X) /\ Cardinality(X) <= Cardinality(names)
    BY <1>4, <2>2, FS_Injection
  <2>4. Cardinality(X) \in Nat /\ Cardinality(names) \in Nat
    BY <1>4, <2>3, FS_CardinalityType
  <2> QED BY <1>2, <2>3, <2>4 DEF RunsAreOrdered
<1>6. Ahead(y) \subseteq Archived /\ Remaining(p) \subseteq Archived
  BY PruneTypes
<1>7. \A x \in X : x \in job[w].seen /\ Results!Before(x, y)
  OBVIOUS
<1>8. \A q \in names : \E x \in X : x.run = q
  OBVIOUS
<1> HIDE DEF X, names
<1>9. CASE \E x \in X : x.run \notin renewed /\ ~dir[x.run].snap
  <2>1. PICK x \in X : x.run \notin renewed /\ ~dir[x.run].snap
    BY <1>9
  <2>2. x \in job[w].seen /\ x \in Taken /\ y \in Taken /\ Results!Before(x, y)
        /\ ProjectOf[x.run] = p /\ ProjectOf[y.run] = p
    BY <1>1, <1>3, <1>7
  <2>3. Cardinality(Ahead(x)) >= Keep
    BY <2>1, <2>2 DEF PruneInv, Spared
  <2>4. Ahead(x) \subseteq Remaining(p)
    BY <2>2, AheadIsKept
  <2>5. Cardinality(Remaining(p)) >= Keep
    BY <1>6, <2>3, <2>4, AtLeast
  <2>6. ASSUME y.run \notin renewed PROVE Cardinality(Ahead(y)) >= Keep
    <3>1. Ahead(x) \subseteq Ahead(y)
      BY <2>1, <2>2, <2>6, AheadOfAhead
    <3> QED BY <1>6, <2>3, <3>1, AtLeast
  <2> QED BY <2>5, <2>6
<1>10. CASE \A x \in X : x.run \in renewed \/ dir[x.run].snap
  <2>1. names \subseteq Remaining(p)
    <3> SUFFICES ASSUME NEW q \in names PROVE q \in Remaining(p)
      OBVIOUS
    <3>1. PICK x \in X : x.run = q
      BY <1>8
    <3> QED BY <1>3, <1>7, <1>10, <3>1 DEF Remaining
  <2>2. Cardinality(Remaining(p)) >= Keep
    BY <1>5, <1>6, <2>1, AtLeast
  <2>3. ASSUME y.run \notin renewed PROVE Cardinality(Ahead(y)) >= Keep
    <3>1. names \subseteq Ahead(y)
      <4> SUFFICES ASSUME NEW q \in names PROVE q \in Ahead(y)
        OBVIOUS
      <4>1. PICK x \in X : x.run = q
        BY <1>8
      <4>2. /\ x \in job[w].seen /\ x \in Taken /\ x \in Ages /\ q \in Archived
            /\ y \in job[w].seen /\ y \in Ages /\ y.run \in Archived
            /\ ProjectOf[q] = ProjectOf[y.run] /\ Results!Before(x, y)
        BY <1>1, <1>3, <1>7, <4>1
      <4>3. q # y.run
        <5>1. ~Results!Before(y, y)
          BY <4>2, BeforeIsOrder
        <5> QED BY <1>3, <4>1, <4>2, <5>1
      <4>4. CASE q \in renewed
        BY <4>2, <4>3, <4>4 DEF Ahead
      <4>5. CASE q \notin renewed
        <5>1. dir[q].snap
          BY <1>10, <4>1, <4>5
        <5>2. x.at <= dir[q].newest /\ \A z \in Taken : z.run = q => z = x
          BY <4>1, <4>2, <4>5 DEF PruneInv, AgesHold
        <5>3. Latest(q) \in Ages /\ Latest(q).run = x.run /\ Latest(q).at >= x.at
          <6>1. Latest(q) \in Ages /\ dir[q].newest \in Int /\ x.at \in Int
            BY <4>2, PruneTypes DEF Ages
          <6> QED BY <4>1, <5>2, <6>1 DEF Latest
        <5>4. Results!Before(Latest(q), y)
          BY <4>2, <5>3, BeforeIsOrder
        <5> QED BY <4>2, <4>3, <5>1, <5>2, <5>4 DEF Ahead
      <4> QED BY <4>4, <4>5
    <3> QED BY <1>5, <1>6, <3>1, AtLeast
  <2> QED BY <2>2, <2>3
<1> QED BY <1>9, <1>10

LEMMA SortKeeps ==
  ASSUME RunsAreOrdered, PruneInv, NEW w \in Archivers, Results!Sort(w)
  PROVE  PruneInv'
<1> DEFINE O == Results!Old(job[w].seen)
<1>1. /\ job[w].pc = "look" /\ UNCHANGED <<dir, archivings, renewed>>
      /\ job' = [job EXCEPT ![w].pc = "unlink", ![w].seen = O]
  BY DEF Results!Sort
<1>2. O \subseteq job[w].seen
  BY DEF Results!Old
<1>3. \A y \in O : /\ y.run \notin renewed => Cardinality(Ahead(y)) >= Keep
                   /\ Cardinality(Remaining(ProjectOf[job[w].run])) >= Keep
  BY JudgedRightly
<1> HIDE DEF O
<1>4. JobShape'
  BY <1>1, <1>2, ZenonT(60) DEF PruneInv, JobShape
<1>5. /\ job'[w].pc = "unlink" /\ job'[w].run = job[w].run /\ job'[w].seen = O
      /\ job'[w].left = job[w].left
      /\ \A v \in Archivers \ {w} : job'[v] = job[v]
  BY <1>1 DEF PruneInv, JobShape
<1>6. \A v \in Archivers : job'[v].seen \subseteq job[v].seen /\ job'[v].run = job[v].run
  BY <1>2, <1>5
<1>7. JobTypes'
  <2> SUFFICES ASSUME NEW v \in Archivers
               PROVE  /\ job'[v].pc # "idle" => job'[v].run \in Archived /\ dir'[job'[v].run].report # "none"
                      /\ job'[v].pc \notin {"look", "unlink"} => job'[v].seen = {}
                      /\ \A y \in job'[v].seen : ProjectOf[y.run] = ProjectOf[job'[v].run]
                      /\ \A y, z \in job'[v].seen : y.run = z.run => y = z
                      /\ job'[v].pc = "look" => \A y \in job'[v].seen : y.run \notin job'[v].left
    BY DEF JobTypes
  <2>1. CASE v = w
    <3>1. /\ job[w].run \in Archived /\ dir[job[w].run].report # "none"
          /\ \A y \in job[w].seen : ProjectOf[y.run] = ProjectOf[job[w].run]
          /\ \A y, z \in job[w].seen : y.run = z.run => y = z
      BY <1>1 DEF PruneInv, JobTypes
    <3> QED BY <1>1, <1>2, <1>5, <2>1, <3>1
  <2>2. CASE v # w
    <3>1. /\ job[v].pc # "idle" => job[v].run \in Archived /\ dir[job[v].run].report # "none"
          /\ job[v].pc \notin {"look", "unlink"} => job[v].seen = {}
          /\ \A y \in job[v].seen : ProjectOf[y.run] = ProjectOf[job[v].run]
          /\ \A y, z \in job[v].seen : y.run = z.run => y = z
          /\ job[v].pc = "look" => \A y \in job[v].seen : y.run \notin job[v].left
      BY DEF PruneInv, JobTypes
    <3> QED BY <1>1, <1>5, <2>2, <3>1
  <2> QED BY <2>1, <2>2
<1>8. Taken' \subseteq Taken /\ Taken' \subseteq Ages
  <2>1. Taken' \subseteq Taken
    BY <1>6 DEF Taken
  <2> QED BY <2>1, PruneTypes
<1>9. DirTypes'
  BY <1>1 DEF PruneInv, DirTypes
<1>10. AgesHold'
  <2>1. \A r : Latest(r)' = Latest(r)
    BY <1>1 DEF Latest
  <2> QED BY <1>1, <1>8, <2>1 DEF PruneInv, AgesHold
<1>11. ASSUME NEW y \in Ages, Cardinality(Ahead(y)) >= Keep
       PROVE  Cardinality(Ahead(y)') >= Keep
  <2>1. Ahead(y) \subseteq Ahead(y)' /\ Ahead(y)' \subseteq Archived
    BY <1>1, <1>8 DEF Ahead, Latest
  <2> QED BY <1>11, <2>1, AtLeast
<1>12. \A p : Remaining(p)' = Remaining(p)
  BY <1>1 DEF Remaining
<1>13. Spared'
  <2> SUFFICES ASSUME NEW v \in Archivers
               PROVE  /\ \A y \in job'[v].seen :
                            y.run \notin renewed /\ (job'[v].pc = "unlink" \/ ~dir[y.run].snap) =>
                              Cardinality(Ahead(y)') >= Keep
                      /\ \A p : /\ job'[v].pc = "unlink" /\ job'[v].seen # {}
                                /\ p = ProjectOf[job'[v].run]
                                => Cardinality(Remaining(p)) >= Keep
    BY <1>1, <1>12 DEF Spared
  <2>1. \A y \in job[v].seen : y \in Ages
    BY PruneTypes
  <2>2. CASE v = w
    BY <1>2, <1>3, <1>5, <1>11, <2>1, <2>2
  <2>3. CASE v # w
    BY <1>5, <1>11, <2>1, <2>3 DEF PruneInv, Spared
  <2> QED BY <2>2, <2>3
<1> QED BY <1>4, <1>7, <1>9, <1>10, <1>13 DEF PruneInv

\* Whatever is removed leaves those ahead of it, which are ahead of whatever it was
\* ahead of.
LEMMA UnlinkKeeps ==
  ASSUME RunsAreOrdered, PruneInv, NEW w \in Archivers, NEW x \in job[w].seen, job[w].pc = "unlink",
         JobShape', JobTypes', \A v \in Archivers : /\ job'[v].pc = job[v].pc /\ job'[v].run = job[v].run
                                          /\ job'[v].seen \subseteq job[v].seen,
         dir' = [dir EXCEPT ![x.run].snap = FALSE], UNCHANGED <<archivings, renewed>>
  PROVE  PruneInv' /\ Cardinality(Remaining(ProjectOf[x.run])') >= Keep
<1> DEFINE r == x.run
           p == ProjectOf[r]
<1>1. /\ r \in Archived /\ x \in Taken /\ x \in Ages /\ ProjectOf[job[w].run] = p
      /\ dir \in [Archived -> Dirs]
  BY PruneTypes DEF PruneInv, JobTypes, DirTypes
<1>2. /\ dir' \in [Archived -> Dirs]
      /\ dir'[r].snap = FALSE /\ dir'[r].newest = dir[r].newest /\ dir'[r].report = dir[r].report
      /\ \A q \in Archived \ {r} : dir'[q] = dir[q]
  BY <1>1 DEF Dirs
<1>3. Taken' \subseteq Taken /\ Taken' \subseteq Ages
  <2>1. Taken' \subseteq Taken
    BY DEF Taken
  <2> QED BY <2>1, PruneTypes
<1> HIDE DEF r, p
<1>4. DirTypes'
  BY <1>2 DEF PruneInv, DirTypes
<1>5. AgesHold'
  <2>1. \A q \in Archived : Latest(q)' = Latest(q)
    BY <1>2 DEF Latest
  <2>2. \A y \in Taken : y.run \in Archived
    BY PruneTypes DEF Ages
  <2>3. \A y \in Taken' : y.run \notin renewed =>
          /\ y.at <= dir'[y.run].newest
          /\ dir'[y.run].snap /\ dir'[y.run].report = "naming" => y = Latest(y.run)'
    <3> TAKE y \in Taken'
    <3> HAVE y.run \notin renewed
    <3>1. /\ y.at <= dir[y.run].newest
          /\ dir[y.run].snap /\ dir[y.run].report = "naming" => y = Latest(y.run)
      BY <1>3 DEF PruneInv, AgesHold
    <3>2. y.run \in Archived
      BY <1>3, <2>2
    <3> QED BY <1>2, <2>1, <3>1, <3>2
  <2>4. \A y, z \in Taken' : y.run = z.run /\ y.run \notin renewed => y = z
    BY <1>3 DEF PruneInv, AgesHold
  <2> QED BY <2>3, <2>4 DEF AgesHold
<1>6. r \notin renewed => Cardinality(Ahead(x)) >= Keep
  BY DEF PruneInv, Spared, r
<1>7. \A y : r \notin Ahead(x) /\ Ahead(y)' \subseteq Archived
  BY DEF Ahead, r
<1>8. \A q \in Archived : dir'[q].newest >= dir[q].newest
  <2>1. \A q \in Archived : dir[q].newest \in Int
    BY PruneTypes
  <2> QED BY <1>2, <2>1
<1>9. \A y \in Ages : \A q \in Ahead(y) : q # r \/ q \in renewed => q \in Ahead(y)'
  <2> TAKE y \in Ages
  <2> TAKE q \in Ahead(y)
  <2> HAVE q # r \/ q \in renewed
  <2>1. dir[q].snap => dir'[q].snap \/ q \in renewed
    BY <1>2 DEF Ahead
  <2> QED BY <1>2, <1>3, <1>8, <2>1, AheadGrows
<1>10. Cardinality(Remaining(p)') >= Keep
  <2>1. Remaining(p)' \subseteq Archived
    BY DEF Remaining
  <2>2. CASE r \in renewed
    <3>1. Cardinality(Remaining(p)) >= Keep
      BY <1>1 DEF PruneInv, Spared
    <3>2. Remaining(p) \subseteq Remaining(p)'
      BY <1>2, <2>2 DEF Remaining, p
    <3> QED BY <2>1, <3>1, <3>2, AtLeast
  <2>3. CASE r \notin renewed
    <3>1. Ahead(x) \subseteq Remaining(p)'
      BY <1>2, <1>7 DEF Ahead, Remaining, p, r
    <3> QED BY <1>6, <2>1, <2>3, <3>1, AtLeast
  <2> QED BY <2>2, <2>3
<1>11. ASSUME NEW v \in Archivers, NEW y \in job'[v].seen, y.run \notin renewed,
              job'[v].pc = "unlink" \/ ~dir'[y.run].snap
       PROVE  Cardinality(Ahead(y)') >= Keep
  <2>1. y \in job[v].seen /\ y \in Taken /\ y \in Ages /\ y.run \in Archived
    BY <1>11, PruneTypes
  <2>2. CASE y.run = r
    <3>1. y = x
      BY <1>1, <1>11, <2>1, <2>2 DEF PruneInv, AgesHold, r
    <3>2. Ahead(x) \subseteq Ahead(x)'
      BY <1>1, <1>7, <1>9
    <3> QED BY <1>6, <1>7, <1>11, <2>2, <3>1, <3>2, AtLeast
  <2>3. CASE y.run # r
    <3>1. Cardinality(Ahead(y)) >= Keep
      <4>1. job[v].pc = "unlink" \/ ~dir[y.run].snap
        BY <1>2, <1>11, <2>1, <2>3
      <4> QED BY <1>11, <2>1, <4>1 DEF PruneInv, Spared
    <3>2. CASE r \notin Ahead(y) \/ r \in renewed
      <4>1. Ahead(y) \subseteq Ahead(y)'
        BY <1>9, <2>1, <3>2
      <4> QED BY <1>7, <3>1, <4>1, AtLeast
    <3>3. CASE r \in Ahead(y) /\ r \notin renewed
      <4>1. ProjectOf[r] = ProjectOf[y.run] /\ Results!Before(x, y)
        BY <1>1, <3>3 DEF Ahead, r
      <4>2. Ahead(x) \subseteq Ahead(y)
        BY <1>1, <1>11, <2>1, <3>3, <4>1, AheadOfAhead DEF r
      <4>3. Ahead(x) \subseteq Ahead(y)'
        BY <1>7, <1>9, <2>1, <4>2
      <4> QED BY <1>6, <1>7, <3>3, <4>3, AtLeast
    <3> QED BY <3>2, <3>3
  <2> QED BY <2>2, <2>3
<1>12. ASSUME NEW v \in Archivers, job'[v].pc = "unlink", job'[v].seen # {},
              NEW o, o = ProjectOf[job'[v].run]
       PROVE  Cardinality(Remaining(o)') >= Keep
  <2>1. job[v].pc = "unlink" /\ job[v].seen # {} /\ o = ProjectOf[job[v].run]
    BY <1>12
  <2>2. CASE o = p
    BY <1>10, <2>2
  <2>3. CASE o # p
    <3>1. Cardinality(Remaining(o)) >= Keep
      BY <2>1 DEF PruneInv, Spared
    <3>2. Remaining(o) \subseteq Remaining(o)' /\ Remaining(o)' \subseteq Archived
      BY <1>2, <2>3 DEF Remaining, p
    <3> QED BY <3>1, <3>2, AtLeast
  <2> QED BY <2>2, <2>3
<1>13. Spared'
  BY <1>11, <1>12 DEF Spared
<1> QED BY <1>4, <1>5, <1>10, <1>13 DEF PruneInv, p, r

\* A directory whose report, or whose snapshot, is written.
LEMMA ReportWritten ==
  ASSUME NEW e \in Dirs, NEW t \in Int, NEW rep \in {"naming", "nameless", "unreadable"}
  PROVE  /\ Results!NewReport(e, rep, t) \in Dirs
         /\ Results!NewReport(e, rep, t).newest = t
         /\ Results!NewReport(e, rep, t).report = rep
         /\ Results!NewReport(e, rep, t).snap = e.snap
BY DEF Dirs, Results!NewReport

LEMMA CopyWritten ==
  ASSUME NEW e \in Dirs, NEW t \in Int
  PROVE  /\ Results!NewCopy(e, t) \in Dirs
         /\ Results!NewCopy(e, t).newest = t
         /\ Results!NewCopy(e, t).report = e.report
         /\ Results!NewCopy(e, t).snap = TRUE
BY DEF Dirs, Results!NewCopy

\* A step of one process, told by its job.
LEMMA JobMoves ==
  ASSUME PruneInv, NEW w \in Archivers, NEW j, job' = [job EXCEPT ![w] = j],
         j \in [pc : {"idle", "report", "copy", "list", "look", "unlink"},
                run : Int, prune : BOOLEAN, left : SUBSET Archived, seen : SUBSET Ages],
         \A q \in Archived : dir'[q].report = "none" => dir[q].report = "none",
         j.pc # "idle" => j.run \in Archived /\ dir'[j.run].report # "none",
         j.pc \notin {"look", "unlink"} => j.seen = {},
         \A y \in j.seen : ProjectOf[y.run] = ProjectOf[j.run],
         \A y, z \in j.seen : y.run = z.run => y = z,
         j.pc = "look" => \A y \in j.seen : y.run \notin j.left
  PROVE  /\ JobShape' /\ JobTypes' /\ job'[w] = j
         /\ \A v \in Archivers \ {w} : job'[v] = job[v]
         /\ j.seen = job[w].seen => Taken' = Taken
         /\ Taken' \subseteq Taken \cup j.seen
<1>1. /\ JobShape' /\ job'[w] = j /\ \A v \in Archivers \ {w} : job'[v] = job[v]
  BY DEF PruneInv, JobShape
<1>2. JobTypes'
  <2> SUFFICES ASSUME NEW v \in Archivers
               PROVE  /\ job'[v].pc # "idle" => job'[v].run \in Archived /\ dir'[job'[v].run].report # "none"
                      /\ job'[v].pc \notin {"look", "unlink"} => job'[v].seen = {}
                      /\ \A y \in job'[v].seen : ProjectOf[y.run] = ProjectOf[job'[v].run]
                      /\ \A y, z \in job'[v].seen : y.run = z.run => y = z
                      /\ job'[v].pc = "look" => \A y \in job'[v].seen : y.run \notin job'[v].left
    BY DEF JobTypes
  <2>1. CASE v = w
    BY <1>1, <2>1
  <2>2. CASE v # w
    BY <1>1, <2>2 DEF PruneInv, JobTypes
  <2> QED BY <2>1, <2>2
<1>3. j.seen = job[w].seen => Taken' = Taken
  <2>1. j.seen = job[w].seen => \A v \in Archivers : job'[v].seen = job[v].seen
    BY <1>1
  <2> QED BY <2>1 DEF Taken
<1>4. Taken' \subseteq Taken \cup j.seen
  BY <1>1 DEF Taken
<1> QED BY <1>1, <1>2, <1>3, <1>4

\* A step of one process that writes to its directory, and has read no ages.
LEMMA WriterKeeps ==
  ASSUME RunsAreOrdered, PruneInv, NEW w \in Archivers, NEW j, job' = [job EXCEPT ![w] = j],
         j \in [pc : {"idle", "report", "copy", "list", "look", "unlink"},
                run : Int, prune : BOOLEAN, left : SUBSET Archived, seen : SUBSET Ages],
         j.pc \notin {"look", "unlink"}, j.seen = {}, job[w].seen = {},
         NEW r \in Archived, NEW d \in Dirs, Results!Put(r, d), j.pc # "idle" => j.run = r,
         d.newest >= dir[r].newest, dir[r].snap => d.snap, d.report # "none",
         archivings' \in Int, archivings' >= archivings, d.newest <= archivings'
  PROVE  PruneInv' /\ \A q \in Archived : dir[q].snap => dir'[q].snap
<1>1. dir'[r] = d /\ \A q \in Archived \ {r} : dir'[q] = dir[q]
  BY DEF Results!Put, PruneInv, DirTypes
<1>2. \A q \in Archived : dir'[q].report = "none" => dir[q].report = "none"
  <2> SUFFICES ASSUME NEW q \in Archived, dir'[q].report = "none" PROVE dir[q].report = "none"
    OBVIOUS
  <2>1. CASE q = r
    BY <1>1, <2>1
  <2>2. CASE q # r
    BY <1>1, <2>2
  <2> QED BY <2>1, <2>2
<1>3. j.pc # "idle" => j.run \in Archived /\ dir'[j.run].report # "none"
  BY <1>1
<1>4. /\ JobShape' /\ JobTypes' /\ Taken' = Taken /\ job'[w] = j
      /\ \A v \in Archivers \ {w} : job'[v] = job[v]
  BY <1>2, <1>3, JobMoves
<1>5. PruneInv'
  BY <1>4, PutKeeps
<1>6. \A q \in Archived : dir[q].snap => dir'[q].snap
  <2> SUFFICES ASSUME NEW q \in Archived, dir[q].snap PROVE dir'[q].snap
    OBVIOUS
  <2>1. CASE q = r
    BY <1>1, <2>1
  <2>2. CASE q # r
    BY <1>1, <2>2
  <2> QED BY <2>1, <2>2
<1> QED BY <1>5, <1>6

\* Whichever processes archive runs, for the first time or again, prune or die, a
\* snapshot is removed only while Keep others of its own project stay, or were
\* written anew under a process that had read their age.
THEOREM PruningLeavesEnough == ASSUME RunsAreOrdered PROVE Results!Spec => PruningKeepsEnough
<1> DEFINE Stays == \A r \in Archived :
               dir[r].snap /\ ~dir'[r].snap =>
                 Results!Cardinality({q \in Archived : /\ dir'[q].snap \/ q \in renewed
                                                       /\ ProjectOf[q] = ProjectOf[r]}) >= Keep
<1>1. Results!Init => PruneInv
  BY PruneInit
<1>2. PruneInv /\ [Results!Next]_(Results!vars) => PruneInv' /\ Stays
  <2> SUFFICES ASSUME PruneInv, [Results!Next]_(Results!vars) PROVE PruneInv' /\ Stays
    OBVIOUS
  <2> DEFINE Grow == \A q \in Archived : dir[q].snap => dir'[q].snap
  <2>0. Grow => Stays
    OBVIOUS
  <2>1. ASSUME NEW w \in Archivers, NEW r \in Archived, NEW prune \in BOOLEAN, Results!Start(w, r, prune)
        PROVE  PruneInv' /\ Stays
    <3>1. PICK t \in Int : t = archivings + 1
      BY DEF PruneInv, DirTypes
    <3>2. PICK e \in Dirs : e = dir[r]
      BY PruneTypes DEF PruneInv, DirTypes
    <3> DEFINE d == Results!NewReport(e, "unreadable", t)
               j == [Results!NoJob EXCEPT !.pc = "report", !.run = r, !.prune = prune]
    <3>3. /\ job[w].pc = "idle" /\ Results!Put(r, d) /\ job' = [job EXCEPT ![w] = j]
          /\ archivings' = t
      BY <2>1, <3>1, <3>2 DEF Results!Start
    <3>4. /\ archivings \in Int /\ e.newest \in Int /\ e.newest <= archivings /\ r \in Int
      BY <3>2, PruneTypes DEF PruneInv, DirTypes, RunsAreOrdered
    <3>5. d \in Dirs /\ d.newest = t /\ d.snap = e.snap /\ d.report = "unreadable"
      BY ReportWritten, Zenon
    <3>6. /\ j \in [pc : {"idle", "report", "copy", "list", "look", "unlink"},
                    run : Int, prune : BOOLEAN, left : SUBSET Archived, seen : SUBSET Ages]
          /\ j.pc = "report" /\ j.run = r /\ j.seen = {}
      BY <3>4 DEF Results!NoJob
    <3>7. job[w].seen = {}
      BY <3>3 DEF PruneInv, JobTypes
    <3> HIDE DEF d, j
    <3>8. /\ d.newest >= dir[r].newest /\ (dir[r].snap => d.snap)
          /\ d.report # "none" /\ archivings' \in Int /\ archivings' >= archivings
          /\ d.newest <= archivings' /\ j.pc \notin {"look", "unlink"}
      BY <3>1, <3>2, <3>3, <3>4, <3>5, <3>6
    <3>9. PruneInv' /\ Grow
      BY <3>3, <3>5, <3>6, <3>7, <3>8, WriterKeeps
    <3> QED BY <2>0, <3>9
  <2>2. ASSUME NEW w \in Archivers, Results!WriteReport(w) PROVE PruneInv' /\ Stays
    <3>1. PICK how \in {"naming", "nameless", "unreadable"} :
            Results!Put(job[w].run, Results!NewReport(dir[job[w].run], how, archivings))
      BY <2>2 DEF Results!WriteReport
    <3>2. /\ job[w].pc = "report" /\ archivings' = archivings /\ job[w].run \in Archived
          /\ job' = [job EXCEPT ![w].pc = "copy"]
      BY <2>2 DEF Results!WriteReport, PruneInv, JobTypes
    <3>3. PICK r \in Archived : r = job[w].run
      BY <3>2
    <3>4. PICK e \in Dirs : e = dir[r]
      BY PruneTypes DEF PruneInv, DirTypes
    <3>5. PICK t \in Int : t = archivings
      BY DEF PruneInv, DirTypes
    <3> DEFINE d == Results!NewReport(e, how, t)
               j == [job[w] EXCEPT !.pc = "copy"]
    <3>6. Results!Put(r, d) /\ job' = [job EXCEPT ![w] = j]
      BY <3>1, <3>2, <3>3, <3>4, <3>5
    <3>7. e.newest \in Int /\ e.newest <= t
      BY <3>4, <3>5, PruneTypes DEF PruneInv, DirTypes
    <3>8. d \in Dirs /\ d.newest = t /\ d.snap = e.snap /\ d.report = how
      <4>1. how \in {"naming", "nameless", "unreadable"}
        BY <3>1
      <4>2. d \in Dirs
        BY <4>1, ReportWritten, Zenon
      <4> QED BY <4>2 DEF Dirs, Results!NewReport
    <3>9. /\ j \in [pc : {"idle", "report", "copy", "list", "look", "unlink"},
                    run : Int, prune : BOOLEAN, left : SUBSET Archived, seen : SUBSET Ages]
          /\ j.pc = "copy" /\ j.run = r /\ j.seen = {} /\ job[w].seen = {}
      BY <3>2, <3>3 DEF PruneInv, JobShape, JobTypes
    <3> HIDE DEF d, j
    <3>10. /\ d.newest >= dir[r].newest /\ (dir[r].snap => d.snap)
           /\ d.report # "none" /\ archivings' \in Int /\ archivings' >= archivings
           /\ d.newest <= archivings' /\ j.pc \notin {"look", "unlink"}
      BY <3>2, <3>4, <3>5, <3>7, <3>8, <3>9
    <3>11. PruneInv' /\ Grow
      BY <3>6, <3>8, <3>9, <3>10, WriterKeeps
    <3> QED BY <2>0, <3>11
  <2>3. ASSUME NEW w \in Archivers, Results!CopyDb(w) PROVE PruneInv' /\ Stays
    <3> DEFINE j == IF job[w].prune THEN [job[w] EXCEPT !.pc = "list"] ELSE Results!NoJob
    <3>1. /\ job[w].pc = "copy" /\ job' = [job EXCEPT ![w] = j] /\ archivings' = archivings
          /\ job[w].run \in Archived /\ job[w].seen = {} /\ dir[job[w].run].report # "none"
      BY <2>3 DEF Results!CopyDb, PruneInv, JobTypes
    <3>2. PICK r \in Archived : r = job[w].run
      BY <3>1
    <3>3. PICK e \in Dirs : e = dir[r]
      BY PruneTypes DEF PruneInv, DirTypes
    <3>4. /\ j \in [pc : {"idle", "report", "copy", "list", "look", "unlink"},
                    run : Int, prune : BOOLEAN, left : SUBSET Archived, seen : SUBSET Ages]
          /\ j.pc \in {"list", "idle"} /\ (j.pc # "idle" => j.run = r) /\ j.seen = {}
      BY <3>1, <3>2 DEF PruneInv, JobShape, Results!NoJob
    <3>5. \/ \E t \in e.newest .. archivings : Results!Put(r, Results!NewCopy(e, t))
          \/ UNCHANGED <<dir, renewed>>
      BY <2>3, <3>2, <3>3 DEF Results!CopyDb
    <3>6. archivings \in Int /\ e.newest \in Int
      BY <3>3, PruneTypes DEF PruneInv, DirTypes
    <3> HIDE DEF j
    <3>7. CASE UNCHANGED <<dir, renewed>>
      <4>1. /\ JobShape' /\ JobTypes' /\ Taken' = Taken /\ job'[w] = j
            /\ \A v \in Archivers \ {w} : job'[v] = job[v]
        <5>1. \A q \in Archived : dir'[q].report = "none" => dir[q].report = "none"
          BY <3>7
        <5>2. j.pc # "idle" => j.run \in Archived /\ dir'[j.run].report # "none"
          BY <3>1, <3>2, <3>4, <3>7
        <5> QED BY <3>1, <3>4, <5>1, <5>2, JobMoves
      <4>2. PruneInv'
        BY <3>1, <3>4, <3>7, <4>1, LookKeeps
      <4> QED BY <2>0, <3>7, <4>2
    <3>8. ASSUME NEW t \in e.newest .. archivings, Results!Put(r, Results!NewCopy(e, t))
          PROVE  PruneInv' /\ Stays
      <4> DEFINE d == Results!NewCopy(e, t)
      <4>1. t \in Int /\ t >= e.newest /\ t <= archivings
        BY <3>6
      <4>2. d \in Dirs /\ d.newest = t /\ d.report = e.report /\ d.snap = TRUE
        BY <4>1, CopyWritten, Zenon
      <4>3. Results!Put(r, d)
        BY <3>8
      <4> HIDE DEF d
      <4>4. /\ d.newest >= dir[r].newest /\ (dir[r].snap => d.snap)
            /\ d.report # "none" /\ archivings' \in Int /\ archivings' >= archivings
            /\ d.newest <= archivings' /\ j.pc \notin {"look", "unlink"}
        BY <3>1, <3>2, <3>3, <3>4, <3>6, <4>1, <4>2
      <4>5. PruneInv' /\ Grow
        BY <3>1, <3>4, <4>2, <4>3, <4>4, WriterKeeps
      <4> QED BY <2>0, <4>5
    <3> QED BY <3>5, <3>7, <3>8
  <2>4. ASSUME NEW w \in Archivers, Results!List(w) PROVE PruneInv' /\ Stays
    <3> DEFINE j == [job[w] EXCEPT !.pc = "look", !.left = {r \in Archived : dir[r].report # "none"}]
    <3>1. /\ job[w].pc = "list" /\ job' = [job EXCEPT ![w] = j]
          /\ UNCHANGED <<dir, archivings, renewed>> /\ job[w].seen = {}
      BY <2>4 DEF Results!List, PruneInv, JobTypes
    <3>2. /\ j \in [pc : {"idle", "report", "copy", "list", "look", "unlink"},
                    run : Int, prune : BOOLEAN, left : SUBSET Archived, seen : SUBSET Ages]
          /\ j.pc = "look" /\ j.run = job[w].run /\ j.seen = {}
      BY <3>1 DEF PruneInv, JobShape
    <3> HIDE DEF j
    <3>3. j.run \in Archived /\ dir'[j.run].report # "none"
      BY <3>1, <3>2 DEF PruneInv, JobTypes
    <3>4. /\ JobShape' /\ JobTypes' /\ Taken' = Taken /\ job'[w] = j
          /\ \A v \in Archivers \ {w} : job'[v] = job[v]
      BY <3>1, <3>2, <3>3, JobMoves
    <3>5. PruneInv'
      BY <3>1, <3>2, <3>4, LookKeeps
    <3> QED BY <2>0, <3>1, <3>5
  <2>5. ASSUME NEW w \in Archivers, Results!Look(w) PROVE PruneInv' /\ Stays
    <3>1. PICK r \in job[w].left :
            job' = [job EXCEPT ![w].left = @ \ {r},
                               ![w].seen = IF r \in Results!Candidates(ProjectOf[job[w].run])
                                           THEN @ \cup {[run |-> r, at |-> dir[r].newest]} ELSE @]
      BY <2>5 DEF Results!Look
    <3> DEFINE C == Results!Candidates(ProjectOf[job[w].run])
               S == IF r \in C THEN job[w].seen \cup {Latest(r)} ELSE job[w].seen
               j == [job[w] EXCEPT !.left = @ \ {r}, !.seen = S]
    <3>2. /\ job[w].pc = "look" /\ job' = [job EXCEPT ![w] = j]
          /\ UNCHANGED <<dir, archivings, renewed>> /\ r \in Archived
      BY <2>5, <3>1 DEF Results!Look, PruneInv, JobShape, Latest
    <3>3. Latest(r) \in Ages /\ Latest(r).run = r
      BY <3>2, PruneTypes DEF Latest
    <3>4. r \in C => dir[r].snap /\ dir[r].report = "naming" /\ ProjectOf[r] = ProjectOf[job[w].run]
      BY <3>2 DEF Results!Candidates, PruneInv, DirTypes
    <3> HIDE DEF C
    <3>5. S \subseteq Ages
      BY <3>3 DEF PruneInv, JobShape
    <3> HIDE DEF S
    <3>6. /\ j \in [pc : {"idle", "report", "copy", "list", "look", "unlink"},
                    run : Int, prune : BOOLEAN, left : SUBSET Archived, seen : SUBSET Ages]
          /\ j.pc = "look" /\ j.run = job[w].run /\ j.seen = S /\ j.left = job[w].left \ {r}
      BY <3>2, <3>5 DEF PruneInv, JobShape
    <3> HIDE DEF j
    <3>7. j.run \in Archived /\ dir'[j.run].report # "none"
      BY <3>2, <3>6 DEF PruneInv, JobTypes
    <3>8. \A y \in job[w].seen : ProjectOf[y.run] = ProjectOf[job[w].run] /\ y.run \notin job[w].left
      BY <3>2 DEF PruneInv, JobTypes
    <3>9. /\ \A y \in S : ProjectOf[y.run] = ProjectOf[j.run] /\ y.run \notin j.left
          /\ \A y, z \in S : y.run = z.run => y = z
      <4>1. CASE r \in C
        <5>1. S = job[w].seen \cup {Latest(r)}
          BY <4>1 DEF S
        <5>2. \A y \in job[w].seen : y.run # r
          BY <3>8
        <5>3. \A y, z \in job[w].seen : y.run = z.run => y = z
          BY DEF PruneInv, JobTypes
        <5> QED BY <3>3, <3>4, <3>6, <3>8, <4>1, <5>1, <5>2, <5>3
      <4>2. CASE r \notin C
        <5>1. S = job[w].seen
          BY <4>2 DEF S
        <5>3. \A y, z \in job[w].seen : y.run = z.run => y = z
          BY DEF PruneInv, JobTypes
        <5> QED BY <3>6, <3>8, <5>1, <5>3
      <4> QED BY <4>1, <4>2
    <3>10. /\ JobShape' /\ JobTypes' /\ job'[w] = j
           /\ \A v \in Archivers \ {w} : job'[v] = job[v]
           /\ Taken' \subseteq Taken \cup S
      BY <3>2, <3>6, <3>7, <3>9, JobMoves
    <3>11. \A z \in Taken' \ Taken :
             z = Latest(z.run) /\ dir[z.run].snap /\ dir[z.run].report = "naming"
      <4> TAKE z \in Taken' \ Taken
      <4>1. z \in S /\ z \notin job[w].seen
        BY <3>10 DEF Taken
      <4>2. r \in C /\ z = Latest(r)
        BY <4>1 DEF S
      <4> QED BY <3>3, <3>4, <4>2
    <3>12. PruneInv'
      BY <3>2, <3>6, <3>10, <3>11, LookKeeps
    <3> QED BY <2>0, <3>2, <3>12
  <2>6. ASSUME NEW w \in Archivers, Results!Sort(w) PROVE PruneInv' /\ Stays
    BY <2>0, <2>6, SortKeeps DEF Results!Sort
  <2>7. ASSUME NEW w \in Archivers, Results!Unlink(w) PROVE PruneInv' /\ Stays
    <3>1. PICK x \in job[w].seen :
            /\ dir' = [dir EXCEPT ![x.run].snap = FALSE] \/ UNCHANGED dir
            /\ job' = [job EXCEPT ![w].seen = @ \ {x}]
      BY <2>7 DEF Results!Unlink
    <3> DEFINE j == [job[w] EXCEPT !.seen = @ \ {x}]
    <3>2. /\ job[w].pc = "unlink" /\ job' = [job EXCEPT ![w] = j] /\ UNCHANGED <<archivings, renewed>>
          /\ x.run \in Archived
      BY <2>7, <3>1, PruneTypes DEF Results!Unlink
    <3>3. /\ j \in [pc : {"idle", "report", "copy", "list", "look", "unlink"},
                    run : Int, prune : BOOLEAN, left : SUBSET Archived, seen : SUBSET Ages]
          /\ j.pc = "unlink" /\ j.run = job[w].run /\ j.seen = job[w].seen \ {x}
      BY <3>2 DEF PruneInv, JobShape
    <3> HIDE DEF j
    <3>4. /\ dir \in [Archived -> Dirs]
          /\ \A q \in Archived : dir'[q].report = dir[q].report
      BY <3>1, <3>2 DEF PruneInv, DirTypes, Dirs
    <3>5. /\ j.run \in Archived /\ dir'[j.run].report # "none"
          /\ \A y \in j.seen : ProjectOf[y.run] = ProjectOf[j.run]
          /\ \A y, z \in j.seen : y.run = z.run => y = z
      BY <3>2, <3>3, <3>4 DEF PruneInv, JobTypes
    <3>6. /\ JobShape' /\ JobTypes' /\ job'[w] = j
          /\ \A v \in Archivers \ {w} : job'[v] = job[v]
      BY <3>2, <3>3, <3>4, <3>5, JobMoves
    <3>7. \A v \in Archivers : /\ job'[v].pc = job[v].pc /\ job'[v].run = job[v].run
                               /\ job'[v].seen \subseteq job[v].seen
      BY <3>2, <3>3, <3>6
    <3>8. CASE UNCHANGED dir
      <4>1. Taken' \subseteq Taken
        BY <3>7 DEF Taken
      <4>2. PruneInv'
        BY <3>2, <3>6, <3>7, <3>8, <4>1, LookKeeps
      <4> QED BY <2>0, <3>8, <4>2
    <3>9. CASE dir' = [dir EXCEPT ![x.run].snap = FALSE]
      <4>1. PruneInv' /\ Cardinality(Remaining(ProjectOf[x.run])') >= Keep
        BY <3>2, <3>6, <3>7, <3>9, UnlinkKeeps
      <4>2. \A q \in Archived \ {x.run} : dir'[q] = dir[q]
        BY <3>2, <3>4, <3>9
      <4> DEFINE Left == {q \in Archived : /\ dir'[q].snap \/ q \in renewed
                                           /\ ProjectOf[q] = ProjectOf[x.run]}
      <4>3. Remaining(ProjectOf[x.run])' = Left
        BY <3>2 DEF Remaining
      <4>4. Results!Cardinality(Left) >= Keep
        BY <4>1, <4>3 DEF Cardinality, Results!Cardinality
      <4> QED BY <4>1, <4>2, <4>4
    <3> QED BY <3>1, <3>8, <3>9
  <2>8. ASSUME NEW w \in Archivers, Results!End(w) PROVE PruneInv' /\ Stays
    <3> DEFINE j == Results!NoJob
    <3>1. /\ job' = [job EXCEPT ![w] = j] /\ UNCHANGED <<dir, archivings>>
          /\ renewed' = IF \E v \in Archivers \ {w} : job[v].seen # {} THEN renewed ELSE {}
      BY <2>8 DEF Results!End
    <3>2. /\ j \in [pc : {"idle", "report", "copy", "list", "look", "unlink"},
                    run : Int, prune : BOOLEAN, left : SUBSET Archived, seen : SUBSET Ages]
          /\ j.pc = "idle" /\ j.seen = {}
      BY DEF Results!NoJob
    <3> HIDE DEF j
    <3>3. /\ JobShape' /\ JobTypes' /\ job'[w] = j /\ Taken' \subseteq Taken
          /\ \A v \in Archivers \ {w} : job'[v] = job[v]
      BY <3>1, <3>2, JobMoves
    <3>4. CASE \E v \in Archivers \ {w} : job[v].seen # {}
      <4>1. PruneInv'
        BY <3>1, <3>2, <3>3, <3>4, LookKeeps
      <4> QED BY <2>0, <3>1, <4>1
    <3>5. CASE \A v \in Archivers \ {w} : job[v].seen = {}
      <4>1. \A v \in Archivers : job'[v].seen = {}
        BY <3>2, <3>3, <3>5
      <4>2. Taken' = {}
        BY <4>1 DEF Taken
      <4>3. AgesHold' /\ Spared'
        BY <4>1, <4>2 DEF AgesHold, Spared
      <4>4. DirTypes'
        BY <3>1 DEF PruneInv, DirTypes
      <4> QED BY <2>0, <3>1, <3>3, <4>3, <4>4 DEF PruneInv
    <3> QED BY <3>4, <3>5
  <2>9. CASE UNCHANGED Results!vars
    <3>1. UNCHANGED <<dir, job, archivings, renewed>>
      BY <2>9 DEF Results!vars
    <3>2. Taken' = Taken /\ JobShape' /\ JobTypes'
      BY <3>1 DEF Taken, PruneInv, JobShape, JobTypes
    <3>3. PruneInv'
      BY <3>1, <3>2, LookKeeps
    <3> QED BY <2>0, <3>1, <3>3
  <2> QED BY <2>1, <2>2, <2>3, <2>4, <2>5, <2>6, <2>7, <2>8, <2>9 DEF Results!Next
<1>3. PruneInv /\ [Results!Next]_(Results!vars) => [Stays]_(Results!vars)
  BY <1>2
<1> QED BY <1>1, <1>2, <1>3, PTL DEF Results!Spec, Results!PruningKeepsEnough, PruningKeepsEnough

-----------------------------------------------------------------------------
(* The map of the repository. *)

\* The map's own Among and ToSet are those of the lemmas.
LEMMA MapAmong == \A s, T : Repository!Among(s, T) = Among(s, T)
BY DEF Repository!Among, Among

LEMMA MapToSet == \A s : Repository!ToSet(s) = Elements(s)
BY DEF Repository!ToSet, Elements

\* The source files, and what a map lists of some of them.
Sources == Repository!FileNames
Entries(files) == Repository!Defs(files)

\* Files that exist are source files, with texts they may have; the held map lists
\* definitions in source files.
MapTypes ==
    /\ DOMAIN tree \subseteq Sources
    /\ \A f \in DOMAIN tree : tree[f].text \in Contents
    /\ held \in Seq(Entries(Sources))

\* The held map has, of each file, the last definitions it was parsed to: those of
\* the last text parsed, if that had any.
SeenIsHeld ==
    /\ \A f \in Sources : Repository!DefsOf(held, f) = Repository!Parsed(f, Repository!LastNamed(f))
    /\ \A f \in DOMAIN seen : f \in Sources /\ (seen[f].text # <<>> => seen[f].kept = seen[f].text)

\* The saved stamps are those of the texts last parsed.
CacheIsSeen == \A f \in DOMAIN cache : f \in DOMAIN seen /\ cache[f] = seen[f].stamp

\* A walk under way.
WalkFields == {"call", "known", "delta", "read", "left", "valid", "open", "stamp"}
WalkTypes ==
    /\ DOMAIN walk = WalkFields /\ walk.call \in {"build", "incremental"}
    /\ walk.left \in Seq(Sources) /\ Distinct(walk.left)
    /\ DOMAIN walk.read \subseteq Sources /\ walk.delta \in Seq(Entries(DOMAIN walk.read))
    /\ walk.open \in BOOLEAN /\ (walk.open => walk.left # <<>>)

\* Of each file read, the walk has its definitions and its stamp, and will not
\* come to it again.
ReadIsParsed ==
    \A f \in DOMAIN walk.read :
        /\ walk.read[f].text \in Seq(Repository!Names) /\ walk.read[f].kept = walk.read[f].text
        /\ Repository!DefsOf(walk.delta, f) = Repository!Parsed(f, walk.read[f].text)
        /\ f \in DOMAIN walk.known /\ walk.known[f] = walk.read[f].stamp
        /\ f \notin Elements(walk.left)

\* The other stamps it knows are the saved ones.
RestIsCached ==
    \A f \in DOMAIN walk.known \ DOMAIN walk.read : f \in DOMAIN cache /\ walk.known[f] = cache[f]

\* A build reads every file whose stamp it saves.
BuildReadsAll ==
    walk.call = "build" => walk.valid \subseteq Elements(walk.left) \cup DOMAIN walk.read

\* A file nobody has changed is still to come, was read as it stands, or was
\* skipped for a stamp that is its own.
NoneIsMissed ==
    \A f \in DOMAIN tree \ touched :
        \/ Repository!Ignored(f)
        \/ f \in Elements(walk.left)
        \/ f \in DOMAIN walk.read /\ walk.read[f].text = tree[f].text
        \/ /\ walk.call = "incremental" /\ f \notin DOMAIN walk.read
           /\ f \in DOMAIN walk.known /\ walk.known[f] = Repository!Stamp(tree[f])

WalkInv == WalkTypes /\ ReadIsParsed /\ RestIsCached /\ BuildReadsAll /\ NoneIsMissed

MapInv ==
    /\ MapTypes /\ SeenIsHeld /\ CacheIsSeen /\ Repository!MapIsCurrent
    /\ walk # Repository!NoWalk => WalkInv

\* What two sets of entries share.
LEMMA EntriesSplit ==
  ASSUME NEW A, NEW B
  PROVE  Entries(A) \cap Entries(B) = Entries(A \cap B)
BY DEF Entries, Repository!Defs

\* A parsed text is a list of definitions in its file.
LEMMA ParsedType ==
  ASSUME NEW f, NEW text \in Seq(Repository!Names)
  PROVE  Repository!Parsed(f, text) \in Seq(Entries({f}))
<1>1. \A i \in 1 .. Len(text) : text[i] \in Repository!Names
  OBVIOUS
<1>2. DOMAIN text = 1 .. Len(text) /\ Len(text) \in Nat
  OBVIOUS
<1>3. Repository!Parsed(f, text) \in [1 .. Len(text) -> Entries({f})]
  BY <1>1, <1>2 DEF Repository!Parsed, Entries, Repository!Defs
<1> QED BY <1>2, <1>3, SeqDef

\* An empty text defines nothing,
LEMMA ParsedEmpty ==
  ASSUME NEW f
  PROVE  Repository!Parsed(f, <<>>) = <<>>
BY DEF Repository!Parsed

\* and only an empty one.
LEMMA ParsedIsEmpty ==
  ASSUME NEW f, NEW text \in Seq(Repository!Names)
  PROVE  Repository!Parsed(f, text) = <<>> <=> text = <<>>
<1>1. DOMAIN text = 1 .. Len(text) /\ Len(text) \in Nat /\ (text = <<>> <=> Len(text) = 0)
  BY LenProperties, EmptySeq
<1>2. DOMAIN Repository!Parsed(f, text) = 1 .. Len(text)
  BY <1>1 DEF Repository!Parsed
<1>3. text # <<>> => 1 \in DOMAIN Repository!Parsed(f, text)
  BY <1>1, <1>2
<1>4. DOMAIN <<>> = {}
  OBVIOUS
<1> QED BY <1>3, <1>4, ParsedEmpty

\* What a list says of a file, of a list put together from two.
LEMMA DefsOfConcat ==
  ASSUME NEW A, NEW s \in Seq(Entries(A)), NEW t \in Seq(Entries(A)), NEW f
  PROVE  Repository!DefsOf(s \o t, f) = Repository!DefsOf(s, f) \o Repository!DefsOf(t, f)
<1>1. Among(s \o t, Entries({f})) = Among(s, Entries({f})) \o Among(t, Entries({f}))
  BY AmongConcat
<1> QED BY <1>1, MapAmong DEF Repository!DefsOf, Entries

\* A list says nothing of a file it has no entry of.
LEMMA DefsOfOthers ==
  ASSUME NEW A, NEW s \in Seq(Entries(A)), NEW f, f \notin A
  PROVE  Repository!DefsOf(s, f) = <<>>
<1>1. Entries(A) \cap Entries({f}) = {}
  <2>1. A \cap {f} = {}
    OBVIOUS
  <2> QED BY <2>1, EntriesSplit DEF Entries, Repository!Defs
<1> QED BY <1>1, AmongNone, MapAmong DEF Repository!DefsOf, Entries

\* All a list of one file says is of that file.
LEMMA DefsOfOwn ==
  ASSUME NEW f, NEW s \in Seq(Entries({f}))
  PROVE  Repository!DefsOf(s, f) = s
BY AmongAll, MapAmong DEF Repository!DefsOf, Entries

\* Before the first walk nothing is held, and every file counts as changed.
LEMMA MapInit == ASSUME Repository!Init PROVE MapInv
<1>1. DOMAIN tree = Sources /\ \A f \in Sources : tree[f].text \in Contents
  BY DEF Repository!Init, Sources
<1>2. held = <<>> /\ cache = Repository!None /\ seen = Repository!None /\ touched = Sources
      /\ walk = Repository!NoWalk
  BY DEF Repository!Init, Sources
<1>3. DOMAIN Repository!None = {}
  BY DEF Repository!None
<1>4. Repository!MapIsCurrent
  BY <1>2 DEF Repository!MapIsCurrent, Sources
<1>5. held \in Seq(Entries(Sources)) /\ held \in Seq(Entries({}))
  BY <1>2, EmptySeq
<1>6. SeenIsHeld
  <2>1. ASSUME NEW f \in Sources
        PROVE  Repository!DefsOf(held, f) = Repository!Parsed(f, Repository!LastNamed(f))
    <3>1. Repository!LastNamed(f) = <<>>
      BY <1>2, <1>3 DEF Repository!LastNamed
    <3> QED BY <1>5, <3>1, DefsOfOthers, ParsedEmpty
  <2> QED BY <1>2, <1>3, <2>1 DEF SeenIsHeld
<1> QED BY <1>1, <1>2, <1>3, <1>4, <1>5, <1>6 DEF MapInv, MapTypes, CacheIsSeen

\* A tick of the clock, or a step of something else, changes none of it.
LEMMA MapRests ==
  ASSUME MapInv, UNCHANGED <<tree, cache, held, seen, walk, touched>>
  PROVE  MapInv'
<1>1. MapTypes' /\ SeenIsHeld' /\ CacheIsSeen'
  BY DEF MapInv, MapTypes, SeenIsHeld, CacheIsSeen, Repository!LastNamed
<1>2. Repository!MapIsCurrent'
  BY DEF MapInv, Repository!MapIsCurrent, Repository!LastNamed, Repository!Now
<1>3. WalkInv => WalkInv'
  BY DEF WalkInv, WalkTypes, ReadIsParsed, RestIsCached, BuildReadsAll, NoneIsMissed
<1> QED BY <1>1, <1>2, <1>3 DEF MapInv

\* Whoever changes a file, the others are as they were.
LEMMA EditKeeps ==
  ASSUME MapInv, NEW f, touched' = touched \cup {f}, UNCHANGED <<cache, held, seen, walk>>,
         DOMAIN tree' \subseteq Sources, \A g \in DOMAIN tree' : tree'[g].text \in Contents,
         DOMAIN tree' \ {f} = DOMAIN tree \ {f}, \A g \in DOMAIN tree' \ {f} : tree'[g] = tree[g]
  PROVE  MapInv'
<1>1. \A g \in DOMAIN tree' \ touched' : g \in DOMAIN tree \ touched /\ tree'[g] = tree[g]
  OBVIOUS
<1>2. MapTypes' /\ SeenIsHeld' /\ CacheIsSeen'
  BY DEF MapInv, MapTypes, SeenIsHeld, CacheIsSeen, Repository!LastNamed
<1>3. Repository!MapIsCurrent'
  <2>1. \A g \in Sources \ touched' :
          g \notin touched /\ (g \in DOMAIN tree' <=> g \in DOMAIN tree)
          /\ Repository!Now(g)' = Repository!Now(g) /\ Repository!LastNamed(g)' = Repository!LastNamed(g)
    BY DEF Repository!Now, Repository!LastNamed
  <2> QED BY <1>1, <2>1 DEF MapInv, Repository!MapIsCurrent, Sources
<1>4. WalkInv => (WalkTypes /\ ReadIsParsed /\ RestIsCached /\ BuildReadsAll)'
  BY DEF WalkInv, WalkTypes, ReadIsParsed, RestIsCached, BuildReadsAll
<1>5. WalkInv => NoneIsMissed'
  BY <1>1 DEF WalkInv, NoneIsMissed
<1> QED BY <1>2, <1>3, <1>4, <1>5 DEF MapInv, WalkInv

\* A file written,
LEMMA WriteKeeps == ASSUME MapInv, NEW f \in Sources, Repository!Write(f) PROVE MapInv'
<1>1. PICK t \in Contents : tree' = Repository!Put(tree, f, [at |-> time, text |-> t])
  BY DEF Repository!Write
<1>2. /\ DOMAIN tree' = DOMAIN tree \cup {f}
      /\ tree'[f].text = t
      /\ \A g \in DOMAIN tree \ {f} : tree'[g] = tree[g]
  BY <1>1 DEF Repository!Put
<1>3. /\ DOMAIN tree' \subseteq Sources
      /\ \A g \in DOMAIN tree' : tree'[g].text \in Contents
      /\ DOMAIN tree' \ {f} = DOMAIN tree \ {f}
      /\ \A g \in DOMAIN tree' \ {f} : tree'[g] = tree[g]
  BY <1>2 DEF MapInv, MapTypes
<1>4. touched' = touched \cup {f} /\ UNCHANGED <<cache, held, seen, walk>>
  BY DEF Repository!Write
<1> QED BY <1>3, <1>4, EditKeeps

\* or removed.
LEMMA DeleteKeeps == ASSUME MapInv, NEW f \in Sources, Repository!Delete(f) PROVE MapInv'
<1>1. DOMAIN tree' = DOMAIN tree \ {f} /\ \A g \in DOMAIN tree \ {f} : tree'[g] = tree[g]
  BY DEF Repository!Delete, Repository!Without
<1>2. /\ DOMAIN tree' \subseteq Sources
      /\ \A g \in DOMAIN tree' : tree'[g].text \in Contents
      /\ DOMAIN tree' \ {f} = DOMAIN tree \ {f}
      /\ \A g \in DOMAIN tree' \ {f} : tree'[g] = tree[g]
  BY <1>1 DEF MapInv, MapTypes
<1>3. touched' = touched \cup {f} /\ UNCHANGED <<cache, held, seen, walk>>
  BY DEF Repository!Delete
<1> QED BY <1>2, <1>3, EditKeeps

\* A walk begins with every file there is before it.
LEMMA StartsWithAll ==
  ASSUME MapInv, NEW c \in {"build", "incremental"}, Repository!Start(c)
  PROVE  MapInv'
<1> DEFINE left == Among(Walk, {f \in DOMAIN tree : ~Repository!Ignored(f)})
<1>1. walk' = [call |-> c, known |-> cache, delta |-> <<>>, read |-> Repository!None, left |-> left,
               valid |-> {}, open |-> FALSE,
               stamp |-> Repository!Stamp([at |-> 0, text |-> <<>>])]
  BY MapAmong DEF Repository!Start
<1>2. /\ walk = Repository!NoWalk /\ touched' = {}
      /\ UNCHANGED <<tree, cache, held, seen>>
  BY DEF Repository!Start
<1>3. Walk \in Seq(Sources) /\ Distinct(Walk) /\ Sources = Elements(Walk)
  BY WalkAssumption, MapToSet DEF Sources, Distinct, Repository!FileNames
<1>4. left \in Seq(Sources) /\ Distinct(left)
      /\ Elements(left) = Sources \cap {f \in DOMAIN tree : ~Repository!Ignored(f)}
  BY <1>3, AmongType, AmongDistinct, AmongElements
<1> HIDE DEF left
<1>5. DOMAIN Repository!None = {}
  BY DEF Repository!None
<1>6. DOMAIN walk' = WalkFields
  BY <1>1 DEF WalkFields
<1>7. WalkTypes'
  <2>1. walk'.delta \in Seq(Entries(DOMAIN walk'.read))
    BY <1>1, EmptySeq
  <2> QED BY <1>1, <1>4, <1>5, <1>6, <2>1 DEF WalkTypes
<1>8. ReadIsParsed' /\ RestIsCached' /\ BuildReadsAll'
  BY <1>1, <1>2, <1>5 DEF ReadIsParsed, RestIsCached, BuildReadsAll
<1>9. NoneIsMissed'
  BY <1>1, <1>2, <1>4 DEF NoneIsMissed, MapInv, MapTypes
<1>10. walk' # Repository!NoWalk
  BY <1>6 DEF Repository!NoWalk, WalkFields
<1>11. MapTypes' /\ SeenIsHeld' /\ CacheIsSeen' /\ Repository!MapIsCurrent'
  BY <1>2, <1>10 DEF MapInv, MapTypes, SeenIsHeld, CacheIsSeen, Repository!MapIsCurrent,
                     Repository!LastNamed
<1> QED BY <1>7, <1>8, <1>9, <1>11 DEF MapInv, WalkInv

\* A file is skipped only in an incremental walk, for a stamp that is its own.
LEMMA StatKeeps == ASSUME MapInv, Repository!Stat PROVE MapInv'
<1> DEFINE f == Head(walk.left)
           stamp == Repository!Stamp(tree[f])
           parse == walk.call = "build" \/ Repository!NeedsReparse(walk.known, f, stamp)
<1>1. /\ walk # Repository!NoWalk /\ ~walk.open /\ walk.left # <<>>
      /\ UNCHANGED <<tree, cache, held, seen>>
  BY DEF Repository!Stat
<1>2. WalkInv
  BY <1>1 DEF MapInv
<1>3. /\ f \in Sources /\ Tail(walk.left) \in Seq(Sources)
      /\ Elements(walk.left) = {f} \cup Elements(Tail(walk.left))
      /\ Distinct(Tail(walk.left)) /\ f \notin Elements(Tail(walk.left))
  BY <1>1, <1>2, RestOf DEF WalkInv, WalkTypes
<1>4. MapTypes' /\ SeenIsHeld' /\ CacheIsSeen'
  BY <1>1 DEF MapInv, MapTypes, SeenIsHeld, CacheIsSeen, Repository!LastNamed
<1>5. CASE f \notin DOMAIN tree
  <2>1. walk' = Repository!NoWalk /\ touched' = Sources
    BY <1>5 DEF Repository!Stat, Sources
  <2>2. Repository!MapIsCurrent'
    BY <1>1, <2>1 DEF Repository!MapIsCurrent, Sources
  <2> QED BY <1>4, <2>1, <2>2 DEF MapInv
<1>6. CASE f \in DOMAIN tree
  <2>1. /\ walk' = [walk EXCEPT !.valid = @ \cup {f}, !.stamp = stamp, !.open = parse,
                      !.left = IF parse THEN @ ELSE Tail(@)]
        /\ touched' = touched
    BY <1>6 DEF Repository!Stat
  <2>2. parse \in BOOLEAN
    BY DEF Repository!NeedsReparse
  <2>3. ~parse => /\ walk.call = "incremental" /\ f \in DOMAIN walk.known
                  /\ walk.known[f] = Repository!Stamp(tree[f])
    BY <1>2 DEF Repository!NeedsReparse, WalkInv, WalkTypes
  <2>4. f \notin DOMAIN walk.read
    BY <1>2, <1>3 DEF WalkInv, ReadIsParsed
  <2> HIDE DEF f, stamp, parse
  <2>5. /\ DOMAIN walk' = WalkFields
        /\ walk'.call = walk.call /\ walk'.known = walk.known /\ walk'.delta = walk.delta
        /\ walk'.read = walk.read /\ walk'.open = parse /\ walk'.valid = walk.valid \cup {f}
        /\ walk'.left = IF parse THEN walk.left ELSE Tail(walk.left)
    BY <1>2, <2>1 DEF WalkInv, WalkTypes, WalkFields
  <2>6. walk' # Repository!NoWalk
    BY <2>5 DEF Repository!NoWalk, WalkFields
  <2>7. WalkTypes'
    BY <1>1, <1>2, <1>3, <2>2, <2>5 DEF WalkInv, WalkTypes
  <2>8. ReadIsParsed'
    BY <1>2, <1>3, <2>5 DEF WalkInv, ReadIsParsed
  <2>9. RestIsCached'
    BY <1>1, <1>2, <2>5 DEF WalkInv, RestIsCached
  <2>10. BuildReadsAll'
    BY <1>2, <1>3, <2>3, <2>5 DEF WalkInv, BuildReadsAll
  <2>11. NoneIsMissed'
    BY <1>1, <1>2, <1>3, <2>1, <2>3, <2>4, <2>5 DEF WalkInv, NoneIsMissed
  <2>12. Repository!MapIsCurrent'
    BY <2>6 DEF Repository!MapIsCurrent
  <2> QED BY <1>4, <2>7, <2>8, <2>9, <2>10, <2>11, <2>12 DEF MapInv, WalkInv
<1> QED BY <1>5, <1>6

\* A file read adds its definitions to the delta, and nothing about another.
LEMMA ReadKeeps == ASSUME MapInv, Repository!Read PROVE MapInv'
<1> DEFINE f == Head(walk.left)
           text == Repository!Now(f)
           parsed == Repository!Parsed(f, text)
<1>1. /\ walk # Repository!NoWalk /\ walk.open
      /\ UNCHANGED <<tree, cache, held, seen, touched>>
  BY DEF Repository!Read
<1>2. WalkInv
  BY <1>1 DEF MapInv
<1>3. /\ f \in Sources /\ Tail(walk.left) \in Seq(Sources)
      /\ Elements(walk.left) = {f} \cup Elements(Tail(walk.left))
      /\ Distinct(Tail(walk.left)) /\ f \notin Elements(Tail(walk.left))
  BY <1>1, <1>2, RestOf DEF WalkInv, WalkTypes
<1>4. MapTypes' /\ SeenIsHeld' /\ CacheIsSeen'
  BY <1>1 DEF MapInv, MapTypes, SeenIsHeld, CacheIsSeen, Repository!LastNamed
<1>5. text \in Seq(Repository!Names)
  <2>1. <<>> \in Seq(Repository!Names)
    BY EmptySeq
  <2>2. f \in DOMAIN tree => tree[f].text \in Seq(Repository!Names)
    BY ContentsAssumption DEF MapInv, MapTypes
  <2> QED BY <2>1, <2>2 DEF Repository!Now
<1>6. parsed \in Seq(Entries({f}))
  BY <1>5, ParsedType
<1>7. walk.delta \in Seq(Entries(DOMAIN walk.read))
  BY <1>2 DEF WalkInv, WalkTypes
<1>8. /\ walk'.delta = walk.delta \o parsed
      /\ DOMAIN walk' = WalkFields
      /\ walk'.call = walk.call /\ walk'.known = Repository!Put(walk.known, f, walk.stamp)
      /\ walk'.read = Repository!Put(walk.read, f, [stamp |-> walk.stamp, text |-> text, kept |-> text])
      /\ walk'.open = FALSE /\ walk'.valid = walk.valid
      /\ walk'.left = Tail(walk.left)
  <2>1. walk' = [walk EXCEPT
           !.open = FALSE, !.left = Tail(@), !.known = Repository!Put(@, f, walk.stamp),
           !.read = Repository!Put(@, f, [stamp |-> walk.stamp, text |-> text, kept |-> text]),
           !.delta = @ \o parsed]
    BY DEF Repository!Read
  <2> HIDE DEF f, text, parsed
  <2> QED BY <1>2, <2>1 DEF WalkInv, WalkTypes, WalkFields
<1>9. f \notin DOMAIN walk.read
  BY <1>2, <1>3 DEF WalkInv, ReadIsParsed
<1>10. f \in DOMAIN tree => text = tree[f].text
  BY DEF Repository!Now
<1> HIDE DEF f, text
<1>11. /\ DOMAIN walk'.read = DOMAIN walk.read \cup {f} /\ walk'.read[f].text = text
       /\ walk'.read[f].stamp = walk.stamp /\ walk'.read[f].kept = text
       /\ \A g \in DOMAIN walk.read : g # f => walk'.read[g] = walk.read[g]
       /\ DOMAIN walk'.known = DOMAIN walk.known \cup {f} /\ walk'.known[f] = walk.stamp
       /\ \A g \in DOMAIN walk.known : g # f => walk'.known[g] = walk.known[g]
  BY <1>8 DEF Repository!Put
<1>12. /\ parsed \in Seq(Entries(DOMAIN walk'.read))
       /\ walk.delta \in Seq(Entries(DOMAIN walk'.read))
  <2>1. Entries({f}) \subseteq Entries(DOMAIN walk'.read)
        /\ Entries(DOMAIN walk.read) \subseteq Entries(DOMAIN walk'.read)
    BY <1>11 DEF Entries, Repository!Defs
  <2> QED BY <1>6, <1>7, <2>1, InMore
<1>13. WalkTypes'
  <2>1. walk'.delta \in Seq(Entries(DOMAIN walk'.read))
    BY <1>8, <1>12, ConcatProperties
  <2>2. DOMAIN walk'.read \subseteq Sources
    BY <1>2, <1>3, <1>11 DEF WalkInv, WalkTypes
  <2> QED BY <1>2, <1>3, <1>8, <2>1, <2>2 DEF WalkInv, WalkTypes
<1>14. ReadIsParsed'
  <2> SUFFICES ASSUME NEW g \in DOMAIN walk'.read
               PROVE  /\ walk'.read[g].text \in Seq(Repository!Names)
                      /\ walk'.read[g].kept = walk'.read[g].text
                      /\ Repository!DefsOf(walk'.delta, g) = Repository!Parsed(g, walk'.read[g].text)
                      /\ g \in DOMAIN walk'.known /\ walk'.known[g] = walk'.read[g].stamp
                      /\ g \notin Elements(walk'.left)
    BY DEF ReadIsParsed
  <2>1. Repository!DefsOf(walk'.delta, g) = Repository!DefsOf(walk.delta, g) \o Repository!DefsOf(parsed, g)
    BY <1>8, <1>12, DefsOfConcat
  <2>2. CASE g = f
    <3>1. Repository!DefsOf(walk.delta, g) = <<>>
      BY <1>7, <1>9, <2>2, DefsOfOthers
    <3>2. Repository!DefsOf(parsed, g) = parsed
      BY <1>6, <2>2, DefsOfOwn
    <3>3. Repository!DefsOf(walk'.delta, g) = parsed
      BY <1>6, <2>1, <3>1, <3>2
    <3> QED BY <1>3, <1>5, <1>8, <1>11, <2>2, <3>3 DEF parsed
  <2>3. CASE g # f
    <3>1. g \in DOMAIN walk.read /\ walk'.read[g] = walk.read[g]
      BY <1>11, <2>3
    <3>2. /\ walk.read[g].text \in Seq(Repository!Names) /\ walk.read[g].kept = walk.read[g].text
          /\ Repository!DefsOf(walk.delta, g) = Repository!Parsed(g, walk.read[g].text)
          /\ g \in DOMAIN walk.known /\ walk.known[g] = walk.read[g].stamp
          /\ g \notin Elements(walk.left)
      BY <1>2, <3>1 DEF WalkInv, ReadIsParsed
    <3>3. Repository!DefsOf(parsed, g) = <<>>
      BY <1>6, <2>3, DefsOfOthers
    <3>4. Repository!Parsed(g, walk.read[g].text) \in Seq(Entries(DOMAIN walk.read))
      BY <1>7, <3>2, AmongType, MapAmong DEF Repository!DefsOf
    <3>5. Repository!DefsOf(walk'.delta, g) = Repository!Parsed(g, walk'.read[g].text)
      BY <2>1, <3>1, <3>2, <3>3, <3>4, ConcatEmptySeq
    <3> QED BY <1>3, <1>8, <1>11, <2>3, <3>1, <3>2, <3>5
  <2> QED BY <2>2, <2>3
<1>15. RestIsCached'
  BY <1>1, <1>2, <1>11 DEF WalkInv, RestIsCached
<1>16. BuildReadsAll'
  BY <1>2, <1>3, <1>8, <1>11 DEF WalkInv, BuildReadsAll
<1>17. NoneIsMissed'
  <2> SUFFICES ASSUME NEW g \in DOMAIN tree \ touched, ~Repository!Ignored(g)
               PROVE  \/ g \in Elements(walk'.left)
                      \/ g \in DOMAIN walk'.read /\ walk'.read[g].text = tree[g].text
                      \/ /\ walk'.call = "incremental" /\ g \notin DOMAIN walk'.read
                         /\ g \in DOMAIN walk'.known /\ walk'.known[g] = Repository!Stamp(tree[g])
    BY <1>1 DEF NoneIsMissed
  <2>1. CASE g = f
    BY <1>10, <1>11, <2>1
  <2>2. CASE g # f
    BY <1>2, <1>3, <1>8, <1>11, <2>2 DEF WalkInv, NoneIsMissed
  <2> QED BY <2>1, <2>2
<1>18. Repository!MapIsCurrent'
  <2>1. walk' # Repository!NoWalk
    BY <1>8 DEF Repository!NoWalk, WalkFields
  <2> QED BY <2>1 DEF Repository!MapIsCurrent
<1> QED BY <1>4, <1>13, <1>14, <1>15, <1>16, <1>17, <1>18 DEF MapInv, WalkInv

\* A merged map is one.
LEMMA MergedType ==
  ASSUME NEW base \in Seq(Entries(Sources)), NEW delta \in Seq(Entries(Sources))
  PROVE  Repository!Merge(base, delta) \in Seq(Entries(Sources))
<1> DEFINE kept == Among(base, Entries(Sources \ {delta[i].file : i \in DOMAIN delta}))
<1>1. Repository!Merge(base, delta) = kept \o delta
  BY MapAmong DEF Repository!Merge, Entries, Sources
<1>2. kept \in Seq(Entries(Sources))
  BY AmongType
<1> QED BY <1>1, <1>2, ConcatProperties

\* What the held map says of a file, once a delta is merged in.
LEMMA MergedSays ==
  ASSUME NEW base \in Seq(Entries(Sources)), NEW delta \in Seq(Entries(Sources)), NEW f \in Sources
  PROVE  Repository!DefsOf(Repository!Merge(base, delta), f) =
           IF Repository!DefsOf(delta, f) = <<>> THEN Repository!DefsOf(base, f)
           ELSE Repository!DefsOf(delta, f)
<1> DEFINE inDelta == {delta[i].file : i \in DOMAIN delta}
           kept == Among(base, Entries(Sources \ inDelta))
<1>1. Repository!Merge(base, delta) = kept \o delta
  BY MapAmong DEF Repository!Merge, Entries, Sources
<1>2. kept \in Seq(Entries(Sources))
  BY AmongType
<1>3. inDelta = {d.file : d \in Elements(delta)}
  BY DEF Elements
<1>4. Elements(Among(delta, Entries({f}))) = Elements(delta) \cap Entries({f})
  BY AmongElements
<1>5. Elements(delta) \subseteq Entries(Sources)
  BY ElementOfSeq DEF Elements
<1>6. f \in inDelta <=> Among(delta, Entries({f})) # <<>>
  <2>1. f \in inDelta <=> Elements(delta) \cap Entries({f}) # {}
    <3>1. \A d \in Elements(delta) : d.file = f <=> d \in Entries({f})
      BY <1>5 DEF Entries, Repository!Defs
    <3> HIDE DEF inDelta
    <3> QED BY <1>3, <3>1
  <2>2. Among(delta, Entries({f})) \in Seq(Entries(Sources))
    BY AmongType
  <2>3. \A t \in Seq(Entries(Sources)) : Elements(t) = {} <=> t = <<>>
    <3> TAKE t \in Seq(Entries(Sources))
    <3>1. DOMAIN t = 1 .. Len(t) /\ Len(t) \in Nat /\ (t = <<>> <=> Len(t) = 0)
      BY LenProperties, EmptySeq
    <3>2. t = <<>> => DOMAIN t = {}
      BY <3>1
    <3>3. t # <<>> => 1 \in DOMAIN t
      BY <3>1
    <3> QED BY <3>2, <3>3 DEF Elements
  <2> QED BY <1>4, <2>1, <2>2, <2>3
<1>7. Repository!DefsOf(kept, f) = Among(base, Entries(Sources \ inDelta) \cap Entries({f}))
  <2>1. Among(kept, Entries({f})) = Among(base, Entries(Sources \ inDelta) \cap Entries({f}))
    <3>1. \A T, U : Among(Among(base, T), U) = Among(base, T \cap U)
      BY AmongAmong
    <3> QED BY <3>1
  <2> QED BY <2>1, MapAmong DEF Repository!DefsOf, Entries
<1>8. Repository!DefsOf(kept, f) = IF f \in inDelta THEN <<>> ELSE Repository!DefsOf(base, f)
  <2>1. CASE f \in inDelta
    <3>1. Entries(Sources \ inDelta) \cap Entries({f}) = {}
      BY <2>1 DEF Entries, Repository!Defs
    <3>2. Entries(Sources) \cap (Entries(Sources \ inDelta) \cap Entries({f})) = {}
      BY <3>1
    <3>3. Among(base, Entries(Sources \ inDelta) \cap Entries({f})) = <<>>
      BY <3>2, AmongNone
    <3> QED BY <1>7, <2>1, <3>3
  <2>2. CASE f \notin inDelta
    <3>1. Entries(Sources \ inDelta) \cap Entries({f}) = Entries({f})
      BY <2>2 DEF Entries, Repository!Defs
    <3> QED BY <1>7, <2>2, <3>1, MapAmong DEF Repository!DefsOf, Entries
  <2> QED BY <2>1, <2>2
<1> HIDE DEF kept
<1>9. Repository!DefsOf(kept \o delta, f) = Repository!DefsOf(kept, f) \o Repository!DefsOf(delta, f)
  BY <1>2, DefsOfConcat
<1>10. /\ Repository!DefsOf(delta, f) \in Seq(Entries(Sources))
       /\ Repository!DefsOf(base, f) \in Seq(Entries(Sources))
  BY AmongType, MapAmong DEF Repository!DefsOf
<1>11. Repository!DefsOf(delta, f) = Among(delta, Entries({f}))
  BY MapAmong DEF Repository!DefsOf, Entries
<1>12. CASE f \in inDelta
  <2>1. Repository!DefsOf(kept, f) = <<>> /\ Repository!DefsOf(delta, f) # <<>>
    BY <1>6, <1>8, <1>11, <1>12
  <2>2. Repository!DefsOf(kept \o delta, f) = Repository!DefsOf(delta, f)
    BY <1>9, <1>10, <2>1, ConcatEmptySeq
  <2> QED BY <1>1, <2>1, <2>2
<1>13. CASE f \notin inDelta
  <2>1. Repository!DefsOf(kept, f) = Repository!DefsOf(base, f) /\ Repository!DefsOf(delta, f) = <<>>
    BY <1>6, <1>8, <1>11, <1>13
  <2>2. Repository!DefsOf(kept \o delta, f) = Repository!DefsOf(base, f)
    BY <1>9, <1>10, <2>1, ConcatEmptySeq
  <2> QED BY <1>1, <2>1, <2>2
<1> QED BY <1>12, <1>13

\* A finished walk leaves its stamps, and its delta merged into the held map.
LEMMA FinishKeeps == ASSUME MapInv, Repository!Finish PROVE MapInv'
<1>1. /\ walk # Repository!NoWalk /\ ~walk.open /\ walk.left = <<>>
      /\ cache' = Repository!Prune(walk.known, walk.valid)
      /\ held' = IF walk.call = "build" THEN walk.delta ELSE Repository!Merge(held, walk.delta)
      /\ seen' = IF walk.call = "build" THEN walk.read
                 ELSE [g \in DOMAIN seen \cup DOMAIN walk.read |->
                         IF g \notin DOMAIN walk.read THEN seen[g]
                         ELSE IF walk.read[g].text # <<>> THEN walk.read[g]
                         ELSE [walk.read[g] EXCEPT !.kept = Repository!LastNamed(g)]]
      /\ walk' = Repository!NoWalk /\ UNCHANGED <<tree, touched>>
  BY DEF Repository!Finish
<1>2. WalkInv
  BY <1>1 DEF MapInv
<1>3. Elements(walk.left) = {}
  BY <1>1 DEF Elements
<1>4. walk.delta \in Seq(Entries(DOMAIN walk.read)) /\ walk.delta \in Seq(Entries(Sources))
      /\ held \in Seq(Entries(Sources))
  <2>1. walk.delta \in Seq(Entries(DOMAIN walk.read)) /\ DOMAIN walk.read \subseteq Sources
    BY <1>2 DEF WalkInv, WalkTypes
  <2>2. Entries(DOMAIN walk.read) \subseteq Entries(Sources)
    BY <2>1 DEF Entries, Repository!Defs
  <2> QED BY <2>1, <2>2, InMore DEF MapInv, MapTypes
<1>5. MapTypes'
  BY <1>1, <1>4, MergedType DEF MapInv, MapTypes
\* What is seen and held, file by file.
<1>6. \A g \in DOMAIN walk.read :
        /\ g \in Sources /\ g \in DOMAIN seen'
        /\ seen'[g].stamp = walk.read[g].stamp /\ seen'[g].text = walk.read[g].text
        /\ seen'[g].kept = IF walk.call # "build" /\ walk.read[g].text = <<>>
                           THEN Repository!LastNamed(g) ELSE walk.read[g].text
  <2> TAKE g \in DOMAIN walk.read
  <2>1. g \in Sources /\ walk.read[g].kept = walk.read[g].text
    BY <1>2 DEF WalkInv, WalkTypes, ReadIsParsed
  <2>2. g \in DOMAIN seen'
    BY <1>1
  <2>3. CASE walk.call # "build" /\ walk.read[g].text = <<>>
    <3>1. seen'[g] = [walk.read[g] EXCEPT !.kept = Repository!LastNamed(g)]
      BY <1>1, <2>3
    <3> QED BY <2>1, <2>2, <2>3, <3>1, <1>2 DEF WalkInv, WalkTypes
  <2>4. CASE ~(walk.call # "build" /\ walk.read[g].text = <<>>)
    <3>1. seen'[g] = walk.read[g]
      BY <1>1, <2>4
    <3> QED BY <2>1, <2>2, <2>4, <3>1
  <2> QED BY <2>3, <2>4
<1>7. \A g \in DOMAIN seen' \ DOMAIN walk.read :
        walk.call = "incremental" /\ g \in DOMAIN seen /\ seen'[g] = seen[g]
  BY <1>1, <1>2 DEF WalkInv, WalkTypes
<1>8. \A g \in Sources :
        Repository!DefsOf(held', g) =
          IF walk.call # "build" /\ Repository!DefsOf(walk.delta, g) = <<>>
          THEN Repository!DefsOf(held, g) ELSE Repository!DefsOf(walk.delta, g)
  BY <1>1, <1>4, MergedSays
<1>9. \A g \in Sources : Repository!DefsOf(held', g) = Repository!Parsed(g, Repository!LastNamed(g)')
  <2> TAKE g \in Sources
  <2>1. Repository!DefsOf(held, g) = Repository!Parsed(g, Repository!LastNamed(g))
    BY DEF MapInv, SeenIsHeld
  <2>2. CASE g \in DOMAIN walk.read
    <3>1. /\ Repository!DefsOf(walk.delta, g) = Repository!Parsed(g, walk.read[g].text)
          /\ walk.read[g].text \in Seq(Repository!Names)
      BY <1>2, <2>2 DEF WalkInv, ReadIsParsed
    <3>2. Repository!DefsOf(walk.delta, g) = <<>> <=> walk.read[g].text = <<>>
      BY <3>1, ParsedIsEmpty
    <3>3. Repository!LastNamed(g)' = seen'[g].kept
      BY <1>6, <2>2 DEF Repository!LastNamed
    <3>4. CASE walk.call # "build" /\ walk.read[g].text = <<>>
      BY <1>6, <1>8, <2>1, <2>2, <3>2, <3>3, <3>4
    <3>5. CASE ~(walk.call # "build" /\ walk.read[g].text = <<>>)
      BY <1>6, <1>8, <2>2, <3>1, <3>2, <3>3, <3>5
    <3> QED BY <3>4, <3>5
  <2>3. CASE g \notin DOMAIN walk.read
    <3>1. Repository!DefsOf(walk.delta, g) = <<>>
      BY <1>4, <2>3, DefsOfOthers
    <3>2. CASE walk.call = "build"
      <4>1. Repository!LastNamed(g)' = <<>>
        BY <1>1, <2>3, <3>2 DEF Repository!LastNamed
      <4> QED BY <1>8, <3>1, <3>2, <4>1, ParsedEmpty
    <3>3. CASE walk.call # "build"
      <4>1. DOMAIN seen' = DOMAIN seen \cup DOMAIN walk.read
        BY <1>1, <3>3
      <4>2. Repository!LastNamed(g)' = Repository!LastNamed(g)
        BY <1>7, <2>3, <4>1 DEF Repository!LastNamed
      <4> QED BY <1>8, <2>1, <3>1, <3>3, <4>2
    <3> QED BY <3>2, <3>3
  <2> QED BY <2>2, <2>3
<1>10. SeenIsHeld'
  <2> SUFFICES ASSUME NEW g \in DOMAIN seen'
               PROVE  g \in Sources /\ (seen'[g].text # <<>> => seen'[g].kept = seen'[g].text)
    BY <1>9 DEF SeenIsHeld
  <2>1. CASE g \in DOMAIN walk.read
    BY <1>6, <2>1
  <2>2. CASE g \notin DOMAIN walk.read
    BY <1>7, <2>2 DEF MapInv, SeenIsHeld
  <2> QED BY <2>1, <2>2
<1>11. CacheIsSeen'
  <2> SUFFICES ASSUME NEW g \in DOMAIN cache' PROVE g \in DOMAIN seen' /\ cache'[g] = seen'[g].stamp
    BY DEF CacheIsSeen
  <2>1. g \in DOMAIN walk.known /\ g \in walk.valid /\ cache'[g] = walk.known[g]
    BY <1>1 DEF Repository!Prune
  <2>2. CASE g \in DOMAIN walk.read
    BY <1>2, <1>6, <2>1, <2>2 DEF WalkInv, ReadIsParsed
  <2>3. CASE g \notin DOMAIN walk.read
    <3>1. walk.call = "incremental"
      BY <1>2, <1>3, <2>1, <2>3 DEF WalkInv, WalkTypes, BuildReadsAll
    <3>2. g \in DOMAIN cache /\ walk.known[g] = cache[g]
      BY <1>2, <2>1, <2>3 DEF WalkInv, RestIsCached
    <3>3. g \in DOMAIN seen /\ cache[g] = seen[g].stamp
      BY <3>2 DEF MapInv, CacheIsSeen
    <3>4. g \in DOMAIN seen' /\ seen'[g] = seen[g]
      BY <1>1, <2>3, <3>1, <3>3
    <3> QED BY <2>1, <3>2, <3>3, <3>4
  <2> QED BY <2>2, <2>3
<1>12. Repository!MapIsCurrent'
  <2> SUFFICES ASSUME NEW g \in Sources \ touched, ~Repository!Ignored(g), Repository!Now(g) # <<>>
               PROVE  \/ Repository!DefsOf(held', g) = Repository!Parsed(g, Repository!Now(g))
                      \/ /\ g \in DOMAIN tree \cap DOMAIN seen'
                         /\ seen'[g].stamp = Repository!Stamp(tree[g]) /\ seen'[g].text # tree[g].text
    <3>1. \A g \in Sources : Repository!Now(g)' = Repository!Now(g)
      BY <1>1 DEF Repository!Now
    <3> QED BY <1>1, <1>9, <3>1 DEF Repository!MapIsCurrent, Sources
  <2> g \in DOMAIN tree /\ Repository!Now(g) = tree[g].text
    BY DEF Repository!Now
  <2>1. \/ g \in DOMAIN walk.read /\ walk.read[g].text = tree[g].text
        \/ /\ walk.call = "incremental" /\ g \notin DOMAIN walk.read
           /\ g \in DOMAIN walk.known /\ walk.known[g] = Repository!Stamp(tree[g])
    BY <1>2, <1>3 DEF WalkInv, NoneIsMissed
  <2>2. ASSUME g \in DOMAIN seen', seen'[g].text = tree[g].text
        PROVE  Repository!DefsOf(held', g) = Repository!Parsed(g, Repository!Now(g))
    <3>1. Repository!LastNamed(g)' = tree[g].text
      BY <1>10, <2>2 DEF SeenIsHeld, Repository!LastNamed
    <3> QED BY <1>9, <3>1
  <2>3. CASE g \in DOMAIN walk.read /\ walk.read[g].text = tree[g].text
    BY <1>6, <2>2, <2>3
  <2>4. CASE /\ walk.call = "incremental" /\ g \notin DOMAIN walk.read
             /\ g \in DOMAIN walk.known /\ walk.known[g] = Repository!Stamp(tree[g])
    <3>1. g \in DOMAIN cache /\ cache[g] = Repository!Stamp(tree[g])
      BY <1>2, <2>4 DEF WalkInv, RestIsCached
    <3>2. g \in DOMAIN seen /\ seen[g].stamp = Repository!Stamp(tree[g])
      BY <3>1 DEF MapInv, CacheIsSeen
    <3>3. g \in DOMAIN seen' /\ seen'[g] = seen[g]
      BY <1>1, <2>4, <3>2
    <3> QED BY <2>2, <3>2, <3>3
  <2> QED BY <2>1, <2>3, <2>4
<1> QED BY <1>1, <1>5, <1>10, <1>11, <1>12 DEF MapInv

\* Every step keeps the invariant.
LEMMA MapStep == MapInv /\ [Repository!Next]_(Repository!vars) => MapInv'
<1> SUFFICES ASSUME MapInv, [Repository!Next]_(Repository!vars) PROVE MapInv'
  OBVIOUS
<1>1. CASE Repository!Tick
  BY <1>1, MapRests DEF Repository!Tick
<1>2. CASE Repository!Stat
  BY <1>2, StatKeeps
<1>3. CASE Repository!Read
  BY <1>3, ReadKeeps
<1>4. CASE Repository!Finish
  BY <1>4, FinishKeeps
<1>5. ASSUME NEW f \in Sources, Repository!Write(f) \/ Repository!Delete(f) PROVE MapInv'
  BY <1>5, WriteKeeps, DeleteKeeps
<1>6. ASSUME NEW c \in {"build", "incremental"}, Repository!Start(c) PROVE MapInv'
  BY <1>6, StartsWithAll
<1>7. CASE UNCHANGED Repository!vars
  BY <1>7, MapRests DEF Repository!vars
<1> QED BY <1>1, <1>2, <1>3, <1>4, <1>5, <1>6, <1>7 DEF Repository!Next, Sources

\* Between walks of repo_map.py the map a caller holds lists every source file
\* nobody has changed since as it stands on disk, but for a text no stamp tells
\* from the one parsed; of a file that has nothing left to list it keeps what that
\* last defined.
THEOREM HeldMapIsCurrent == Repository!Spec => []MapIsCurrent
<1>1. MapInv => MapIsCurrent
  BY DEF MapInv, MapIsCurrent
<1>2. Repository!Init => MapInv
  BY MapInit
<1> QED BY <1>1, <1>2, MapStep, PTL DEF Repository!Spec
=============================================================================
