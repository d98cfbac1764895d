------------------------ MODULE EngineServiceProofs ------------------------
(***************************************************************************)
(* Proofs about EngineService for any number of calls, boots and retries   *)
(* and any thresholds.                                                     *)
(***************************************************************************)
EXTENDS EngineService, FiniteSetTheorems, TLAPS

-----------------------------------------------------------------------------
(* The inductive invariant. *)

Jobs == [call : Calls, attempt : 1 .. MaxRetries, st : {"queued", "running"}]
ClientCalls == [kind : Kinds \union {"none"}, st : {"idle", "waiting", "backoff", "done"},
                attempt : 0 .. MaxRetries, result : Nat]

TypeOK ==
    /\ withGpu \in BOOLEAN /\ proc \in {"down", "up", "draining", "stopped"}
    /\ state \in States /\ errors \in Nat /\ boots \in Nat
    /\ file \in [state : States \union {"none", "torn"}, errors : Nat]
    /\ warmup \in {"off", "armed", "query"}
    /\ jobs \in SUBSET Jobs /\ openAtSet \in SUBSET Jobs
    /\ poller \in [running : BOOLEAN, thread : {"off", "waiting", "polling"}]
    /\ {disk, index, head} \subseteq SUBSET Calls
    /\ call \in [Calls -> ClientCalls] /\ ran \in [Calls -> Nat]

Alive == proc \in {"up", "draining"}
Same(j, k) == j.call = k.call /\ j.attempt = k.attempt

\* An attempt is one job, of a call that has got as far; what was at work when
\* the file was written, or could not be, is not queued again; an inference at
\* work was at work then.
JobsInv ==
    /\ ~Alive => jobs = {}
    /\ \A j \in jobs \union openAtSet : j.attempt <= call[j.call].attempt
    /\ \A j, k \in jobs : Same(j, k) => j = k
    /\ \A o \in openAtSet : o.st = "running" /\ \A j \in jobs : Same(o, j) => j = o
    /\ IsFiniteSet(jobs) /\ IsFiniteSet(openAtSet)
    /\ \A j \in jobs : j.st = "running" =>
          /\ ran[j.call] > 0 /\ call[j.call].kind \in {"inference", "exec", "stream"}
          /\ call[j.call].kind = "inference" => j \in openAtSet

\* Each attempt runs its command once at most, and those that still wait have
\* not; a call that is refused leaves nothing behind.
Queued(c) == {j \in jobs : j.call = c /\ j.st = "queued"}
CallsInv ==
    \A c \in Calls :
        /\ call[c].st \in {"idle", "backoff"} => call[c].attempt < MaxRetries
        /\ ran[c] + Cardinality(Queued(c)) <= call[c].attempt
        /\ call[c].kind = "invalid" => ran[c] = 0 /\ c \notin disk \union index \union head
        /\ call[c].result = 401 => call[c].kind = "invalid"
        /\ call[c].result = 200 /\ call[c].kind \notin {"read", "snapshot"} =>
              ran[c] > 0 /\ (call[c].kind = "commit" => c \in head)

Inv == TypeOK /\ JobsInv /\ CallsInv /\ CrashForgetsAtMostOpen

-----------------------------------------------------------------------------
(* What a client is told. *)

\* The answer status to job j, or none: kinds and attempts stay, and a call
\* that will be tried again has an attempt left.
Tells(j, status) ==
    /\ call' \in [Calls -> ClientCalls]
    /\ \A c \in Calls :
          /\ call'[c].kind = call[c].kind /\ call'[c].attempt = call[c].attempt
          /\ call'[c].st \in {"idle", "backoff"} => call'[c].attempt < MaxRetries
          /\ call'[c].result = call[c].result \/ (c = j.call /\ call'[c].result = status)

LEMMA NothingTold ==
    ASSUME TypeOK, CallsInv, UNCHANGED call, NEW j, NEW status
    PROVE  Tells(j, status)
BY DEF TypeOK, CallsInv, Tells

LEMMA AnsweredType ==
    ASSUME TypeOK, CallsInv, NEW c \in Calls, NEW status \in Nat, Answered(c, status),
           NEW j, j.call = c
    PROVE  Tells(j, status)
<1> DEFINE last == status \in Final \/ call[c].attempt = MaxRetries
           x == [kind |-> call[c].kind, st |-> IF last THEN "done" ELSE "backoff",
                 attempt |-> call[c].attempt, result |-> status]
<1>1. call[c] \in ClientCalls /\ MaxRetries \in Nat \ {0}
  BY ServiceAssumption DEF TypeOK
<1>2. x \in ClientCalls /\ (x.st \in {"idle", "backoff"} => x.attempt < MaxRetries)
  BY <1>1 DEF ClientCalls
<1>3. /\ DOMAIN call' = Calls /\ call' = [d \in Calls |-> call'[d]]
      /\ \A d \in Calls \ {c} : call'[d] = call[d]
      /\ call'[c] = [[call[c] EXCEPT !.result = status] EXCEPT !.st = IF last THEN "done" ELSE "backoff"]
  BY DEF Answered, TypeOK
<1>4. call'[c] = x
  BY <1>1, <1>3 DEF ClientCalls
<1>5. x.kind = call[c].kind /\ x.attempt = call[c].attempt /\ x.result = status
  OBVIOUS
<1> HIDE DEF x, last
<1>6. \A d \in Calls : call'[d] \in ClientCalls
  BY <1>2, <1>3, <1>4 DEF TypeOK
<1>7. call' \in [Calls -> ClientCalls]
  BY <1>3, <1>6
<1> QED  BY <1>2, <1>3, <1>4, <1>5, <1>7 DEF Tells, CallsInv

LEMMA DeliverTells ==
    ASSUME TypeOK, CallsInv, NEW j \in Jobs, NEW status \in Nat, Deliver(j, status)
    PROVE  Tells(j, status)
<1>1. CASE UNCHANGED call
  BY <1>1, NothingTold
<1>2. CASE Answered(j.call, status)
  BY <1>2, AnsweredType DEF Jobs
<1> QED  BY <1>1, <1>2 DEF Deliver

-----------------------------------------------------------------------------
(* The jobs. *)

LEMMA QueuedFinite ==
    ASSUME JobsInv PROVE \A c : IsFiniteSet(Queued(c)) /\ Cardinality(Queued(c)) \in Nat
<1> SUFFICES ASSUME NEW c PROVE IsFiniteSet(Queued(c)) /\ Cardinality(Queued(c)) \in Nat
  OBVIOUS
<1>1. Queued(c) \subseteq jobs /\ IsFiniteSet(jobs)
  BY DEF Queued, JobsInv
<1> QED  BY <1>1, FS_Subset, FS_CardinalityType

\* Fewer wait once a job was dropped or is at work.
LEMMA QueuedAfter ==
    ASSUME JobsInv, NEW j \in jobs,
           Drop(j) \/ (Run(j) /\ [j EXCEPT !.st = "running"].st = "running")
    PROVE  /\ \A c : Cardinality(Queued(c)') \in Nat /\ Cardinality(Queued(c)') <= Cardinality(Queued(c))
           /\ j.st = "queued" => Cardinality(Queued(j.call)') <= Cardinality(Queued(j.call)) - 1
<1>1. \A c : Queued(c)' \subseteq Queued(c) \ {j}
  BY DEF Queued, Drop, Run
<1>2. ASSUME NEW c
      PROVE  Cardinality(Queued(c)') \in Nat /\ Cardinality(Queued(c)') <= Cardinality(Queued(c))
  <2>1. Queued(c)' \subseteq Queued(c)
    BY <1>1
  <2> QED  BY <2>1, QueuedFinite, FS_Subset, FS_CardinalityType
<1>3. ASSUME j.st = "queued"
      PROVE  Cardinality(Queued(j.call)') <= Cardinality(Queued(j.call)) - 1
  <2>1. j \in Queued(j.call)
    BY <1>3 DEF Queued
  <2>2. /\ IsFiniteSet(Queued(j.call) \ {j})
        /\ Cardinality(Queued(j.call) \ {j}) = Cardinality(Queued(j.call)) - 1
    BY <2>1, QueuedFinite, FS_RemoveElement
  <2> QED  BY <1>1, <2>2, FS_Subset
<1> QED  BY <1>2, <1>3

SameCalls == \A c \in Calls : call'[c].kind = call[c].kind /\ call'[c].attempt = call[c].attempt
RanStays == \A c \in Calls : ran'[c] >= ran[c]

LEMMA DropKeepsJobs ==
    ASSUME TypeOK, ran' \in [Calls -> Nat], JobsInv, NEW j \in jobs, Drop(j), UNCHANGED proc,
           openAtSet' \in {openAtSet, Running(jobs), openAtSet \union Running(jobs)},
           SameCalls, RanStays
    PROVE  JobsInv' /\ jobs' \in SUBSET Jobs /\ openAtSet' \in SUBSET Jobs
<1>1. jobs' = jobs \ {j} /\ jobs' \subseteq jobs /\ openAtSet' \subseteq openAtSet \union jobs
  BY DEF Drop, Running
<1>2. \A k \in jobs \union openAtSet : k.call \in Calls
  BY DEF TypeOK, Jobs
<1>3. IsFiniteSet(jobs') /\ IsFiniteSet(openAtSet')
  <2>1. jobs' \subseteq jobs /\ openAtSet' \subseteq openAtSet \union jobs
    BY <1>1
  <2>2. IsFiniteSet(openAtSet \union jobs) /\ IsFiniteSet(jobs)
    BY FS_Union DEF JobsInv
  <2> QED  BY <2>1, <2>2, FS_Subset
<1>4. \A o \in openAtSet' : o.st = "running" /\ \A k \in jobs' : Same(o, k) => k = o
  BY <1>1 DEF JobsInv, Running, Same
<1>5. \A k \in jobs' : k.st = "running" =>
         /\ ran'[k.call] > 0 /\ call'[k.call].kind \in {"inference", "exec", "stream"}
         /\ call'[k.call].kind = "inference" => k \in openAtSet'
  <2> SUFFICES ASSUME NEW k \in jobs', k.st = "running"
               PROVE  /\ ran'[k.call] > 0 /\ call'[k.call].kind \in {"inference", "exec", "stream"}
                      /\ call'[k.call].kind = "inference" => k \in openAtSet'
    OBVIOUS
  <2>1. k \in jobs /\ k.call \in Calls
    BY <1>1, <1>2
  <2>2. ran'[k.call] > 0
    <3>1. ran[k.call] > 0 /\ ran'[k.call] >= ran[k.call] /\ ran[k.call] \in Nat /\ ran'[k.call] \in Nat
      BY <2>1 DEF JobsInv, RanStays, TypeOK
    <3> QED  BY <3>1
  <2>3. k \in Running(jobs)
    BY <2>1 DEF Running
  <2> QED  BY <2>1, <2>2, <2>3 DEF JobsInv, SameCalls
<1>6. ~Alive' => jobs' = {}
  BY <1>1 DEF JobsInv, Alive
<1>7. \A k \in jobs' \union openAtSet' : k.attempt <= call'[k.call].attempt
  BY <1>1, <1>2 DEF JobsInv, SameCalls
<1>8. \A k, l \in jobs' : Same(k, l) => k = l
  BY <1>1 DEF JobsInv
<1>9. JobsInv'
  BY <1>3, <1>4, <1>5, <1>6, <1>7, <1>8 DEF JobsInv, Same
<1> QED  BY <1>1, <1>9 DEF TypeOK

\* The job at work.
AtWork(j) == [j EXCEPT !.st = "running"]

LEMMA AtWorkType ==
    ASSUME NEW j \in Jobs
    PROVE  AtWork(j) \in Jobs /\ AtWork(j).st = "running" /\ AtWork(j).call = j.call
           /\ AtWork(j).attempt = j.attempt
BY DEF Jobs, AtWork

LEMMA RunKeepsJobs ==
    ASSUME TypeOK, ran' \in [Calls -> Nat], JobsInv, NEW j \in jobs, j.st = "queued", Run(j),
           UNCHANGED proc, SameCalls, RanStays, ran'[j.call] > 0,
           \/ call[j.call].kind \in {"exec", "stream"} /\ openAtSet' = openAtSet
           \/ /\ call[j.call].kind = "inference"
              /\ openAtSet' \in {Running(jobs) \union {AtWork(j)},
                                openAtSet \union (Running(jobs) \union {AtWork(j)})}
    PROVE  JobsInv' /\ jobs' \in SUBSET Jobs /\ openAtSet' \in SUBSET Jobs
<1> DEFINE r == AtWork(j)
<1>0. j \in Jobs /\ j.call \in Calls /\ j.attempt <= call[j.call].attempt
  BY DEF TypeOK, Jobs, JobsInv
<1>1. jobs' = (jobs \ {j}) \union {r}
  BY DEF Run, AtWork
<1>2. r \in Jobs /\ r.st = "running" /\ r.call = j.call /\ r.attempt = j.attempt
  BY <1>0, AtWorkType
<1> HIDE DEF r
<1>3. \A k \in jobs \union openAtSet : k.call \in Calls
  BY DEF TypeOK, Jobs
<1>4. /\ openAtSet' \subseteq (openAtSet \union Running(jobs)) \union {r}
      /\ openAtSet' = openAtSet \/ Running(jobs) \union {r} \subseteq openAtSet'
  BY DEF r
<1>5. \A o \in openAtSet' : o = r \/ (o \in openAtSet \union jobs /\ o # j)
  BY <1>4 DEF Running, JobsInv
<1>6. IsFiniteSet(jobs') /\ IsFiniteSet(openAtSet')
  <2>1. Running(jobs) \subseteq jobs /\ jobs \ {j} \subseteq jobs
    BY DEF Running
  <2>2. IsFiniteSet(Running(jobs)) /\ IsFiniteSet(jobs \ {j})
    BY <2>1, FS_Subset DEF JobsInv
  <2>3. IsFiniteSet(openAtSet \union Running(jobs))
    BY <2>2, FS_Union DEF JobsInv
  <2>4. /\ IsFiniteSet((jobs \ {j}) \union {r})
        /\ IsFiniteSet((openAtSet \union Running(jobs)) \union {r})
    BY <2>2, <2>3, FS_AddElement
  <2> QED  BY <1>1, <1>4, <2>4, FS_Subset
<1>7. \A k, l \in jobs' : Same(k, l) => k = l
  BY <1>1, <1>2 DEF JobsInv, Same
<1>8. \A o \in openAtSet' : o.st = "running" /\ \A k \in jobs' : Same(o, k) => k = o
  <2> SUFFICES ASSUME NEW o \in openAtSet'
               PROVE  o.st = "running" /\ \A k \in jobs' : Same(o, k) => k = o
    OBVIOUS
  <2>1. CASE o = r
    BY <1>1, <1>2, <2>1 DEF JobsInv, Same
  <2>2. CASE o \in openAtSet
    <3>1. o.st = "running" /\ \A k \in jobs : Same(o, k) => k = o
      BY <2>2 DEF JobsInv
    <3>2. ~Same(o, r)
      BY <1>2, <3>1 DEF Same
    <3> QED  BY <1>1, <3>1, <3>2
  <2>3. CASE o \in Running(jobs)
    <3>1. o \in jobs /\ o.st = "running" /\ \A k \in jobs : Same(o, k) => k = o
      BY <2>3 DEF Running, JobsInv, Same
    <3>2. ~Same(o, r)
      BY <1>2, <3>1 DEF Same
    <3> QED  BY <1>1, <3>1, <3>2
  <2> QED  BY <1>4, <2>1, <2>2, <2>3
<1>9. \A k \in jobs' \union openAtSet' : k.attempt <= call'[k.call].attempt
  <2>1. \A k \in jobs \union openAtSet : k.attempt <= call'[k.call].attempt
    BY <1>3 DEF JobsInv, SameCalls
  <2>2. r.attempt <= call'[r.call].attempt
    BY <1>0, <1>2 DEF SameCalls
  <2> QED  BY <1>1, <1>5, <2>1, <2>2
<1>10. \A k \in jobs' : k.st = "running" =>
         /\ ran'[k.call] > 0 /\ call'[k.call].kind \in {"inference", "exec", "stream"}
         /\ call'[k.call].kind = "inference" => k \in openAtSet'
  <2> SUFFICES ASSUME NEW k \in jobs', k.st = "running"
               PROVE  /\ ran'[k.call] > 0 /\ call'[k.call].kind \in {"inference", "exec", "stream"}
                      /\ call'[k.call].kind = "inference" => k \in openAtSet'
    OBVIOUS
  <2>1. CASE k = r
    BY <1>0, <1>2, <2>1 DEF SameCalls, r
  <2>2. CASE k # r
    <3>1. k \in jobs /\ k.call \in Calls
      BY <1>1, <1>3, <2>2
    <3>2. ran[k.call] > 0 /\ ran'[k.call] >= ran[k.call] /\ ran[k.call] \in Nat /\ ran'[k.call] \in Nat
      BY <3>1 DEF JobsInv, RanStays, TypeOK
    <3>3. ran'[k.call] > 0
      BY <3>2
    <3>4. k \in Running(jobs)
      BY <3>1 DEF Running
    <3> QED  BY <1>4, <3>1, <3>3, <3>4 DEF JobsInv, SameCalls
  <2> QED  BY <2>1, <2>2
<1>11. Alive'
  BY DEF JobsInv, Alive
<1>12. JobsInv'
  BY <1>6, <1>7, <1>8, <1>9, <1>10, <1>11 DEF JobsInv, Same
<1>13. openAtSet' \in SUBSET Jobs /\ jobs' \in SUBSET Jobs
  BY <1>1, <1>2, <1>5 DEF TypeOK
<1> QED  BY <1>12, <1>13

-----------------------------------------------------------------------------
(* The calls. *)

\* No more commands were run than were sent, and who is told so.
LEMMA CallsKept ==
    ASSUME TypeOK, CallsInv, ran' \in [Calls -> Nat], NEW j, j.call \in Calls, NEW status, Tells(j, status),
           RanStays,
           \A c \in Calls : /\ Cardinality(Queued(c)') \in Nat /\ Cardinality(Queued(c)) \in Nat
                            /\ ran'[c] + Cardinality(Queued(c)') <= ran[c] + Cardinality(Queued(c)),
           head \subseteq head',
           \A c \in Calls : call[c].kind = "invalid" =>
                            ran'[c] = 0 /\ c \notin disk' \union index' \union head',
           status = 401 => call[j.call].kind = "invalid",
           status = 200 /\ call[j.call].kind \notin {"read", "snapshot"} =>
               ran'[j.call] > 0 /\ (call[j.call].kind = "commit" => j.call \in head')
    PROVE  CallsInv'
<1> SUFFICES ASSUME NEW c \in Calls
    PROVE  /\ call'[c].st \in {"idle", "backoff"} => call'[c].attempt < MaxRetries
           /\ ran'[c] + Cardinality(Queued(c)') <= call'[c].attempt
           /\ call'[c].kind = "invalid" => ran'[c] = 0 /\ c \notin disk' \union index' \union head'
           /\ call'[c].result = 401 => call'[c].kind = "invalid"
           /\ call'[c].result = 200 /\ call'[c].kind \notin {"read", "snapshot"} =>
                 ran'[c] > 0 /\ (call'[c].kind = "commit" => c \in head')
  BY DEF CallsInv
<1>1. /\ ran[c] + Cardinality(Queued(c)) <= call[c].attempt /\ call[c].attempt \in Nat
      /\ ran[c] \in Nat /\ ran'[c] \in Nat /\ ran'[c] >= ran[c]
  BY ServiceAssumption DEF CallsInv, TypeOK, ClientCalls, RanStays
<1>2. ran'[c] + Cardinality(Queued(c)') <= call'[c].attempt
  BY <1>1 DEF Tells
<1>3. ran[c] > 0 => ran'[c] > 0
  BY <1>1
<1>4. call'[c].result = 401 => call'[c].kind = "invalid"
  BY DEF Tells, CallsInv
<1>5. call'[c].result = 200 /\ call'[c].kind \notin {"read", "snapshot"} =>
         ran'[c] > 0 /\ (call'[c].kind = "commit" => c \in head')
  BY <1>3 DEF Tells, CallsInv
<1> QED  BY <1>2, <1>4, <1>5 DEF Tells

-----------------------------------------------------------------------------
(* The state and its file. *)

LifeTypes == /\ state' \in States /\ errors' \in Nat
             /\ file' \in [state : States \union {"none", "torn"}, errors : Nat]

LEMMA PersistType ==
    ASSUME TypeOK, NEW s \in States, NEW e \in Nat, NEW open, Persist(s, e, open),
           state' \in States, errors' \in Nat
    PROVE  LifeTypes /\ openAtSet' \in {open, openAtSet \union open}
BY DEF Persist, LifeTypes, Torn, TypeOK

LEMMA WriteType ==
    ASSUME TypeOK, NEW s \in States, NEW e \in Nat, NEW open, Write(s, e, open)
    PROVE  /\ LifeTypes /\ openAtSet' \in {open, openAtSet \union open}
           /\ errors' = e /\ Persist(s, e, open)
BY PersistType DEF Write

LEMMA StaysType ==
    ASSUME TypeOK, UNCHANGED lifecycle
    PROVE  LifeTypes /\ errors' = errors /\ file' = file /\ openAtSet' = openAtSet
BY DEF TypeOK, LifeTypes, lifecycle

LEMMA RecoveredType == ASSUME TypeOK PROVE Recovered \in Nat
BY DEF Recovered, TypeOK

LEMMA OpenFinite ==
    ASSUME JobsInv PROVE IsFiniteSet(openAtSet \ jobs) /\ Cardinality(openAtSet \ jobs) \in Nat
<1>1. openAtSet \ jobs \subseteq openAtSet /\ IsFiniteSet(openAtSet)
  BY DEF JobsInv
<1> QED  BY <1>1, FS_Subset, FS_CardinalityType

\* The file and the memory agree when the file is new.
LEMMA WholeFile ==
    ASSUME NEW s \in States, NEW e \in Nat, file' = [state |-> s, errors |-> e], errors' = e,
           s = "STOPPED" => proc' = "stopped"
    PROVE  ForgetsAll' \/ errors' - Recovered' = 0
BY DEF ForgetsAll, Recovered, States

LEMMA NothingForgotten ==
    ASSUME JobsInv', ForgetsAll' \/ errors' - Recovered' = 0
    PROVE  CrashForgetsAtMostOpen'
<1>1. IsFiniteSet(openAtSet' \ jobs')
  <2>1. openAtSet' \ jobs' \subseteq openAtSet' /\ IsFiniteSet(openAtSet')
    BY DEF JobsInv
  <2> QED  BY <2>1, FS_Subset
<1>2. Cardinality(openAtSet' \ jobs') \in Nat
  BY <1>1, FS_CardinalityType
<1> QED  BY <1>2 DEF CrashForgetsAtMostOpen

\* A file that stays as it was, or is cut short, forgets no more than before
\* while the process does not end in order: some error more for each job more
\* that was open.
LEMMA OldFile ==
    ASSUME TypeOK, TypeOK', JobsInv, JobsInv', CrashForgetsAtMostOpen, file' \in {file, Torn},
           proc' = proc \/ proc' \in {"stopped", "down"} \/ proc \in {"up", "draining"},
           NEW more \in Nat, errors' <= errors + more \/ errors' <= more,
           Cardinality(openAtSet \ jobs) + more <= Cardinality(openAtSet' \ jobs')
    PROVE  CrashForgetsAtMostOpen'
<1> SUFFICES ASSUME ~ForgetsAll' PROVE errors' - Recovered' <= Cardinality(openAtSet' \ jobs')
  BY DEF CrashForgetsAtMostOpen
<1>1. file' = file
  BY DEF ForgetsAll, Torn
<1>2. Recovered' = Recovered /\ Recovered \in Nat /\ errors \in Nat /\ errors' \in Nat
  BY <1>1, RecoveredType DEF Recovered, TypeOK
<1>3. ~ForgetsAll
  BY <1>1 DEF ForgetsAll
<1>4. errors - Recovered <= Cardinality(openAtSet \ jobs)
  BY <1>3 DEF CrashForgetsAtMostOpen
<1>5. Cardinality(openAtSet \ jobs) \in Nat /\ Cardinality(openAtSet' \ jobs') \in Nat
  <2>1. openAtSet' \ jobs' \subseteq openAtSet' /\ IsFiniteSet(openAtSet')
    BY DEF JobsInv
  <2> QED  BY <2>1, OpenFinite, FS_Subset, FS_CardinalityType
<1> QED  BY <1>2, <1>4, <1>5

\* No job takes the place of an old one.
LEMMA UnwrittenForgetsNoMore ==
    ASSUME TypeOK, TypeOK', JobsInv, JobsInv', CrashForgetsAtMostOpen, file' \in {file, Torn},
           errors' = errors,
           proc' = proc \/ proc' \in {"stopped", "down"} \/ proc \in {"up", "draining"},
           openAtSet \ jobs \subseteq openAtSet' \ jobs'
    PROVE  CrashForgetsAtMostOpen'
<1>1. IsFiniteSet(openAtSet' \ jobs')
  <2>1. openAtSet' \ jobs' \subseteq openAtSet' /\ IsFiniteSet(openAtSet')
    BY DEF JobsInv
  <2> QED  BY <2>1, FS_Subset
<1>2. Cardinality(openAtSet \ jobs) <= Cardinality(openAtSet' \ jobs')
  BY <1>1, FS_Subset
<1>3. /\ errors' <= errors + 0 /\ 0 \in Nat
      /\ Cardinality(openAtSet \ jobs) + 0 <= Cardinality(openAtSet' \ jobs')
  BY <1>2, OpenFinite DEF TypeOK
<1> QED  BY <1>3, OldFile

\* One error more in memory, and one inference less at work.
LEMMA OneMoreError ==
    ASSUME TypeOK, TypeOK', JobsInv, JobsInv', NEW j \in jobs, j.st = "running",
           call[j.call].kind = "inference", Drop(j), openAtSet \subseteq openAtSet',
           errors' <= errors + 1 \/ errors' <= 1, file' \in {file, Torn}, proc' = proc,
           CrashForgetsAtMostOpen
    PROVE  CrashForgetsAtMostOpen'
<1>1. j \in openAtSet /\ j \notin openAtSet \ jobs
  BY DEF JobsInv
<1>2. (openAtSet \ jobs) \union {j} \subseteq openAtSet' \ jobs'
  BY <1>1 DEF Drop
<1>3. Cardinality((openAtSet \ jobs) \union {j}) = Cardinality(openAtSet \ jobs) + 1
  BY <1>1, OpenFinite, FS_AddElement
<1>4. IsFiniteSet(openAtSet' \ jobs')
  <2>1. openAtSet' \ jobs' \subseteq openAtSet' /\ IsFiniteSet(openAtSet')
    BY DEF JobsInv
  <2> QED  BY <2>1, FS_Subset
<1>5. Cardinality(openAtSet \ jobs) + 1 <= Cardinality(openAtSet' \ jobs')
  BY <1>2, <1>3, <1>4, FS_Subset
<1>6. 1 \in Nat
  OBVIOUS
<1> QED  BY <1>5, <1>6, OldFile

-----------------------------------------------------------------------------
(* The process, its warm-up and the poller: no job comes, none is told. *)

LEMMA SameQueue == ASSUME UNCHANGED jobs PROVE \A c : Queued(c)' = Queued(c)
BY DEF Queued

LEMMA QuietCalls ==
    ASSUME CallsInv, UNCHANGED <<repo, client>>, jobs' = jobs \/ jobs' = {}, JobsInv, TypeOK
    PROVE  CallsInv'
<1>1. ASSUME NEW c \in Calls
      PROVE  /\ Cardinality(Queued(c)') \in Nat /\ Cardinality(Queued(c)) \in Nat
             /\ Cardinality(Queued(c)') <= Cardinality(Queued(c))
  <2>1. Queued(c)' \subseteq Queued(c)
    BY DEF Queued
  <2> QED  BY <2>1, QueuedFinite, FS_Subset, FS_CardinalityType
<1>2. UNCHANGED <<disk, index, head, call, ran>>
  BY DEF repo, client
<1>3. \A c \in Calls : ran[c] \in Nat /\ call[c].attempt \in Nat
  BY ServiceAssumption DEF TypeOK, ClientCalls
<1>4. \A c \in Calls : ran[c] + Cardinality(Queued(c)') <= call[c].attempt
  BY <1>1, <1>3 DEF CallsInv
<1> QED  BY <1>2, <1>4 DEF CallsInv

\* The file is written and nothing else of the handlers changes.
LEMMA SetKeepsJobs ==
    ASSUME TypeOK, JobsInv, UNCHANGED <<jobs, client>>, ~Alive' => jobs = {},
           openAtSet' \in {Running(jobs), openAtSet \union Running(jobs)}
    PROVE  JobsInv' /\ openAtSet' \in SUBSET Jobs
<1>1. Running(jobs) \subseteq jobs
  BY DEF Running
<1>2. IsFiniteSet(openAtSet') /\ openAtSet' \in SUBSET Jobs
  <2>1. openAtSet' \subseteq openAtSet \union jobs
    BY <1>1
  <2>2. IsFiniteSet(openAtSet \union jobs)
    BY FS_Union DEF JobsInv
  <2> QED  BY <2>1, <2>2, FS_Subset DEF TypeOK
<1>3. \A o \in openAtSet' : o.st = "running" /\ \A k \in jobs' : Same(o, k) => k = o
  BY <1>1 DEF JobsInv, Running, Same
<1>4. UNCHANGED <<call, ran>>
  BY DEF client
<1>5. \A j \in jobs' \union openAtSet' : j.attempt <= call'[j.call].attempt
  BY <1>1, <1>4 DEF JobsInv
<1>6. \A j \in jobs' : j.st = "running" =>
          /\ ran'[j.call] > 0 /\ call'[j.call].kind \in {"inference", "exec", "stream"}
          /\ call'[j.call].kind = "inference" => j \in openAtSet'
  BY <1>4 DEF JobsInv, Running
<1>7. ~Alive' => jobs' = {}
  BY DEF JobsInv
<1>8. IsFiniteSet(jobs') /\ \A j, k \in jobs' : Same(j, k) => j = k
  BY DEF JobsInv
<1>9. JobsInv'
  BY <1>2, <1>3, <1>5, <1>6, <1>7, <1>8 DEF JobsInv, Same
<1> QED  BY <1>2, <1>9

LEMMA ProcessStep ==
    ASSUME Inv, Boot \/ WarmupQuery \/ MarkReady \/ Sigterm \/ OnShutdown \/ End
                \/ PollOnce \/ PollDone \/ PollExit
    PROVE  Inv'
<1> USE DEF Inv
<1>1. UNCHANGED <<repo, client>> /\ (jobs' = jobs \/ jobs' = {})
  BY DEF Boot, WarmupQuery, MarkReady, Sigterm, OnShutdown, End, PollOnce, PollDone, PollExit, Thread
<1>2. CallsInv'
  BY <1>1, QuietCalls
<1>3. UNCHANGED <<disk, index, head, call, ran>>
  BY <1>1 DEF repo, client
<1>4. CASE Boot
  <2>1. Recovered \in Nat
    BY RecoveredType
  <2>2. /\ errors' = Recovered /\ state' = "STARTING" /\ openAtSet' = {} /\ jobs = {} /\ jobs' = jobs
        /\ file' \in {[state |-> "STARTING", errors |-> Recovered], file, Torn}
    BY <1>4 DEF Boot, JobsInv, Alive
  <2>3. LifeTypes
    BY <2>1, <2>2 DEF LifeTypes, States, Torn, TypeOK
  <2>4. JobsInv'
    <3>1. IsFiniteSet({})
      BY FS_EmptySet
    <3> QED  BY <2>2, <3>1 DEF JobsInv
  <2>5. TypeOK'
    BY <1>3, <1>4, <2>2, <2>3 DEF TypeOK, LifeTypes, Boot, StartedPoller
  <2>6. ForgetsAll' \/ errors' - Recovered' = 0
    <3>1. CASE file' = Torn
      BY <3>1 DEF ForgetsAll, Torn
    <3>2. CASE file' = file
      <4>1. Recovered' = Recovered
        BY <3>2 DEF Recovered
      <4> QED  BY <2>1, <2>2, <4>1
    <3>3. CASE file' = [state |-> "STARTING", errors |-> Recovered]
      <4>1. Recovered' = file'.errors
        BY <3>3 DEF Recovered
      <4> QED  BY <2>1, <2>2, <3>3, <4>1
    <3> QED  BY <2>2, <3>1, <3>2, <3>3
  <2> QED  BY <1>2, <2>4, <2>5, <2>6, NothingForgotten
<1>5. CASE MarkReady
  <2>1. errors \in Nat /\ "READY" \in States
    BY DEF TypeOK, States
  <2>2. /\ LifeTypes /\ openAtSet' \in {Running(jobs), openAtSet \union Running(jobs)}
        /\ errors' = errors /\ Persist("READY", errors, Running(jobs))
    BY <1>5, <2>1, WriteType DEF MarkReady, Set
  <2>3. UNCHANGED <<jobs, proc>>
    BY <1>5 DEF MarkReady
  <2>4. JobsInv' /\ openAtSet' \in SUBSET Jobs
    <3>1. ~Alive' => jobs = {}
      BY <2>3 DEF Alive, JobsInv
    <3> QED  BY <1>1, <2>2, <2>3, <3>1, SetKeepsJobs
  <2>5. TypeOK'
    BY <1>3, <1>5, <2>2, <2>4 DEF TypeOK, LifeTypes, MarkReady
  <2>6. CASE file' = [state |-> "READY", errors |-> errors]
    <3>1. ForgetsAll' \/ errors' - Recovered' = 0
      BY <2>1, <2>2, <2>6, WholeFile
    <3> QED  BY <1>2, <2>4, <2>5, <3>1, NothingForgotten
  <2>7. CASE file' \in {file, Torn} /\ openAtSet' = openAtSet \union Running(jobs)
    <3>1. openAtSet \ jobs \subseteq openAtSet' \ jobs'
      BY <2>3, <2>7
    <3> QED  BY <1>2, <2>2, <2>3, <2>4, <2>5, <2>7, <3>1, UnwrittenForgetsNoMore
  <2> QED  BY <2>2, <2>6, <2>7 DEF Persist
<1>6. CASE OnShutdown
  <2>1. errors \in Nat /\ "STOPPED" \in States
    BY DEF TypeOK, States
  <2>2. /\ LifeTypes /\ openAtSet' \in {Running(jobs), openAtSet \union Running(jobs)}
        /\ errors' = errors /\ Persist("STOPPED", errors, Running(jobs))
    BY <1>6, <2>1, WriteType DEF OnShutdown, Set
  <2>3. UNCHANGED jobs /\ jobs = {} /\ proc' = "stopped"
    BY <1>6 DEF OnShutdown
  <2>4. JobsInv' /\ openAtSet' \in SUBSET Jobs
    BY <1>1, <2>2, <2>3, SetKeepsJobs
  <2>5. TypeOK'
    BY <1>3, <1>6, <2>2, <2>4 DEF TypeOK, LifeTypes, OnShutdown
  <2>6. CASE file' = [state |-> "STOPPED", errors |-> errors]
    <3>1. ForgetsAll' \/ errors' - Recovered' = 0
      BY <2>1, <2>2, <2>3, <2>6, WholeFile
    <3> QED  BY <1>2, <2>4, <2>5, <3>1, NothingForgotten
  <2>7. CASE file' \in {file, Torn} /\ openAtSet' = openAtSet \union Running(jobs)
    <3>1. openAtSet \ jobs \subseteq openAtSet' \ jobs'
      BY <2>3, <2>7
    <3> QED  BY <1>2, <2>2, <2>3, <2>4, <2>5, <2>7, <3>1, UnwrittenForgetsNoMore
  <2> QED  BY <2>2, <2>6, <2>7 DEF Persist
<1>7. CASE End
  <2>1. /\ UNCHANGED <<state, errors, openAtSet>> /\ file' \in {file, Torn}
        /\ jobs' = {} /\ proc' = "down"
    BY <1>7 DEF End
  <2>2. LifeTypes
    BY <2>1 DEF LifeTypes, Torn, TypeOK
  <2>3. JobsInv'
    BY <1>3, <2>1, FS_EmptySet DEF JobsInv
  <2>4. TypeOK'
    BY <1>3, <1>7, <2>1, <2>2 DEF TypeOK, LifeTypes, End
  <2>5. openAtSet \ jobs \subseteq openAtSet' \ jobs'
    BY <2>1
  <2> QED  BY <1>2, <2>1, <2>3, <2>4, <2>5, UnwrittenForgetsNoMore
<1>8. CASE WarmupQuery \/ Sigterm \/ PollOnce \/ PollDone \/ PollExit
  <2>1. UNCHANGED <<lifecycle, jobs, withGpu, boots>> /\ LifeTypes /\ openAtSet' = openAtSet
    BY <1>8, StaysType DEF WarmupQuery, Sigterm, PollOnce, PollDone, PollExit, Thread
  <2>2. Alive' = Alive
    BY <1>8 DEF WarmupQuery, Sigterm, PollOnce, PollDone, PollExit, Thread, Alive
  <2>3. JobsInv'
    BY <1>3, <2>1, <2>2 DEF JobsInv, Same
  <2>4. proc' \in {"down", "up", "draining", "stopped"} /\ warmup' \in {"off", "armed", "query"}
    BY <1>8 DEF WarmupQuery, Sigterm, PollOnce, PollDone, PollExit, TypeOK
  <2>5. poller' \in [running : BOOLEAN, thread : {"off", "waiting", "polling"}]
    BY <1>8 DEF WarmupQuery, Sigterm, PollOnce, PollDone, PollExit, Thread, TypeOK
  <2>6. TypeOK'
    BY <1>3, <2>1, <2>4, <2>5 DEF TypeOK, LifeTypes
  <2>7. CrashForgetsAtMostOpen'
    <3>1. /\ UNCHANGED <<file, errors, openAtSet, jobs>>
          /\ proc' = proc \/ proc \in {"up", "draining"}
      BY <1>8, <2>1 DEF lifecycle, WarmupQuery, Sigterm, PollOnce, PollDone, PollExit
    <3> QED  BY <2>3, <2>6, <3>1, UnwrittenForgetsNoMore
  <2> QED  BY <1>2, <2>3, <2>6, <2>7
<1> QED  BY <1>4, <1>5, <1>6, <1>7, <1>8

-----------------------------------------------------------------------------
(* The clients. *)

\* An attempt is one beyond the last, so its job is a new one.
LEMMA AttemptStep ==
    ASSUME Inv, NEW c \in Calls, Attempt(c)
    PROVE  Inv'
<1> DEFINE a == NextAttempt(c)
           st == IF proc = "up" THEN "waiting" ELSE IF a = MaxRetries THEN "done" ELSE "backoff"
           x == [kind |-> call[c].kind, st |-> st, attempt |-> a, result |-> 0]
           j == [call |-> c, attempt |-> a, st |-> "queued"]
<1> USE DEF Inv
<1>1. call[c].attempt < MaxRetries /\ call[c].attempt \in Nat /\ call[c] \in ClientCalls
      /\ MaxRetries \in Nat
  BY ServiceAssumption DEF Attempt, CallsInv, TypeOK, ClientCalls
<1>2. a \in Nat /\ a <= MaxRetries /\ a > call[c].attempt
  BY <1>1 DEF NextAttempt
<1>3. /\ DOMAIN call' = Calls /\ call' = [d \in Calls |-> call'[d]]
      /\ \A d \in Calls \ {c} : call'[d] = call[d]
      /\ call'[c] = [[[call[c] EXCEPT !.attempt = a] EXCEPT !.result = 0] EXCEPT !.st = st]
  BY DEF Attempt, TypeOK
<1>4. UNCHANGED <<lifecycle, withGpu, proc, warmup, poller, boots, disk, index, head, ran>>
      /\ jobs' = IF proc = "up" THEN jobs \union {j} ELSE jobs
  BY DEF Attempt, repo
<1>5. LifeTypes /\ openAtSet' = openAtSet
  BY <1>4, StaysType
<1> HIDE DEF a
<1>6. call'[c] = x
  BY <1>1, <1>3 DEF ClientCalls
<1>7. x \in ClientCalls /\ (st \in {"idle", "backoff"} => a < MaxRetries) /\ j \in Jobs
  BY <1>1, <1>2 DEF ClientCalls, Jobs
<1>8. /\ x.kind = call[c].kind /\ x.st = st /\ x.attempt = a /\ x.result = 0
      /\ j.call = c /\ j.attempt = a /\ j.st = "queued"
  OBVIOUS
<1> HIDE DEF x, st, j
<1>9. call' \in [Calls -> ClientCalls]
  <2>1. \A d \in Calls : call'[d] \in ClientCalls
    BY <1>3, <1>6, <1>7 DEF TypeOK
  <2> QED  BY <1>3, <2>1
<1>10. TypeOK'
  BY <1>4, <1>5, <1>7, <1>9 DEF TypeOK, LifeTypes
<1>11. \A k \in jobs \union openAtSet :
          /\ k.call \in Calls /\ ~Same(k, j) /\ ~Same(j, k) /\ k.attempt <= call'[k.call].attempt
          /\ call'[k.call].kind = call[k.call].kind
  <2> SUFFICES ASSUME NEW k \in jobs \union openAtSet
      PROVE  /\ k.call \in Calls /\ ~Same(k, j) /\ ~Same(j, k) /\ k.attempt <= call'[k.call].attempt
             /\ call'[k.call].kind = call[k.call].kind
    OBVIOUS
  <2>1. k.call \in Calls /\ k.attempt \in Nat /\ k.attempt <= call[k.call].attempt
    BY ServiceAssumption DEF JobsInv, TypeOK, Jobs
  <2>2. CASE k.call = c
    <3>1. call'[k.call].attempt = a /\ call'[k.call].kind = call[k.call].kind
      BY <1>6, <1>8, <2>2
    <3>2. k.attempt < a
      BY <1>1, <1>2, <2>1, <2>2
    <3> QED  BY <1>2, <1>8, <2>1, <3>1, <3>2 DEF Same
  <2>3. CASE k.call # c
    BY <1>3, <1>8, <2>1, <2>3 DEF Same
  <2> QED  BY <2>2, <2>3
<1>12. jobs' \subseteq jobs \union {j} /\ (~Alive' => jobs' = {})
  BY <1>4 DEF JobsInv, Alive
<1>13. IsFiniteSet(jobs')
  BY <1>4, FS_AddElement DEF JobsInv
<1>14. \A k, l \in jobs' : Same(k, l) => k = l
  BY <1>11, <1>12 DEF JobsInv
<1>15. \A o \in openAtSet' : o.st = "running" /\ \A k \in jobs' : Same(o, k) => k = o
  BY <1>5, <1>11, <1>12 DEF JobsInv
<1>16. \A k \in jobs' \union openAtSet' : k.attempt <= call'[k.call].attempt
  <2>1. j.attempt <= call'[j.call].attempt
    BY <1>2, <1>6, <1>8
  <2> QED  BY <1>5, <1>11, <1>12, <2>1
<1>17. \A k \in jobs' : k.st = "running" =>
          /\ ran'[k.call] > 0 /\ call'[k.call].kind \in {"inference", "exec", "stream"}
          /\ call'[k.call].kind = "inference" => k \in openAtSet'
  BY <1>4, <1>5, <1>8, <1>11, <1>12 DEF JobsInv
<1>18. JobsInv'
  BY <1>5, <1>12, <1>13, <1>14, <1>15, <1>16, <1>17 DEF JobsInv, Same
<1>19. \A d \in Calls : ran[d] + Cardinality(Queued(d)') <= call'[d].attempt
  <2> SUFFICES ASSUME NEW d \in Calls
               PROVE  ran[d] + Cardinality(Queued(d)') <= call'[d].attempt
    OBVIOUS
  <2>1. ran[d] \in Nat /\ call[d].attempt \in Nat /\ Cardinality(Queued(d)) \in Nat
        /\ IsFiniteSet(Queued(d)) /\ ran[d] + Cardinality(Queued(d)) <= call[d].attempt
    BY ServiceAssumption, QueuedFinite DEF TypeOK, ClientCalls, CallsInv
  <2>2. CASE d = c
    <3>1. Queued(c)' \subseteq Queued(c) \union {j}
      BY <1>12 DEF Queued
    <3>2. IsFiniteSet(Queued(c) \union {j}) /\ Cardinality(Queued(c) \union {j}) <= Cardinality(Queued(c)) + 1
      <4>1. IsFiniteSet(Queued(c)) /\ Cardinality(Queued(c)) \in Nat
        BY QueuedFinite
      <4>2. /\ IsFiniteSet(Queued(c) \union {j})
            /\ \/ Cardinality(Queued(c) \union {j}) = Cardinality(Queued(c))
               \/ Cardinality(Queued(c) \union {j}) = Cardinality(Queued(c)) + 1
        BY <4>1, FS_AddElement
      <4> QED  BY <4>1, <4>2
    <3>3. Cardinality(Queued(c)') <= Cardinality(Queued(c)) + 1 /\ Cardinality(Queued(c)') \in Nat
      BY <3>1, <3>2, <2>1, <2>2, FS_Subset, FS_CardinalityType
    <3> QED  BY <1>2, <1>6, <1>8, <2>1, <2>2, <3>3
  <2>3. CASE d # c
    <3>1. Queued(d)' = Queued(d)
      BY <1>4, <1>8, <2>3 DEF Queued
    <3> QED  BY <1>3, <2>1, <2>3, <3>1
  <2> QED  BY <2>2, <2>3
<1>20. CallsInv'
  <2> SUFFICES ASSUME NEW d \in Calls
      PROVE  /\ call'[d].st \in {"idle", "backoff"} => call'[d].attempt < MaxRetries
             /\ call'[d].kind = "invalid" => ran[d] = 0 /\ d \notin disk \union index \union head
             /\ call'[d].result = 401 => call'[d].kind = "invalid"
             /\ call'[d].result = 200 /\ call'[d].kind \notin {"read", "snapshot"} =>
                   ran[d] > 0 /\ (call'[d].kind = "commit" => d \in head)
    BY <1>4, <1>19 DEF CallsInv
  <2>1. CASE d = c
    BY <1>6, <1>7, <1>8, <2>1 DEF CallsInv
  <2>2. CASE d # c
    BY <1>3, <2>2 DEF CallsInv
  <2> QED  BY <2>1, <2>2
<1>21. CrashForgetsAtMostOpen'
  <2>1. j \notin openAtSet
    BY <1>11 DEF Same
  <2>2. openAtSet \ jobs \subseteq openAtSet' \ jobs'
    BY <1>5, <1>12, <2>1
  <2>3. UNCHANGED <<file, errors, proc>>
    BY <1>4 DEF lifecycle
  <2> QED  BY <1>10, <1>18, <2>2, <2>3, UnwrittenForgetsNoMore
<1> QED  BY <1>10, <1>18, <1>20, <1>21

LEMMA TimeoutStep ==
    ASSUME Inv, NEW c \in Calls, ClientTimeout(c)
    PROVE  Inv'
<1> DEFINE j == [call |-> c]
<1> USE DEF Inv
<1>1. UNCHANGED <<lifecycle, server, repo, ran>> /\ Answered(c, 0)
  BY DEF ClientTimeout
<1>2. UNCHANGED <<withGpu, proc, warmup, jobs, poller, boots, disk, index, head>>
      /\ LifeTypes /\ openAtSet' = openAtSet
  BY <1>1, StaysType DEF server, repo
<1>3. j.call = c
  OBVIOUS
<1> HIDE DEF j
<1>4. Tells(j, 0)
  BY <1>1, <1>3, AnsweredType
<1>5. TypeOK'
  BY <1>1, <1>2, <1>4 DEF TypeOK, LifeTypes, Tells
<1>6. \A k \in jobs \union openAtSet : k.call \in Calls
  BY DEF TypeOK, Jobs
<1>7. JobsInv'
  BY <1>1, <1>2, <1>4, <1>6 DEF JobsInv, Tells, Same, Alive
<1>8. CallsInv'
  <2>1. \A d \in Calls : /\ Cardinality(Queued(d)') \in Nat /\ Cardinality(Queued(d)) \in Nat
                         /\ ran'[d] + Cardinality(Queued(d)') <= ran[d] + Cardinality(Queued(d))
    BY <1>1, <1>2, QueuedFinite, SameQueue DEF TypeOK
  <2>2. RanStays /\ ran' \in [Calls -> Nat]
    BY <1>1 DEF RanStays, TypeOK
  <2>3. \A d \in Calls : call[d].kind = "invalid" =>
             ran'[d] = 0 /\ d \notin disk' \union index' \union head'
    BY <1>1, <1>2 DEF CallsInv
  <2> QED  BY <1>2, <1>3, <1>4, <2>1, <2>2, <2>3, CallsKept
<1>9. CrashForgetsAtMostOpen'
  <2>1. UNCHANGED <<file, errors, proc, jobs, openAtSet>>
    BY <1>1, <1>2 DEF lifecycle
  <2> QED  BY <1>5, <1>7, <2>1, UnwrittenForgetsNoMore
<1> QED  BY <1>5, <1>7, <1>8, <1>9

-----------------------------------------------------------------------------
(* The handlers. *)

\* What a handler leaves of the process.
HandlerFrame == UNCHANGED <<withGpu, proc, warmup, poller, boots>>

LEMMA TellsSame == ASSUME NEW j, NEW status, Tells(j, status) PROVE SameCalls
BY DEF Tells, SameCalls

LEMMA ExecutedOnce ==
    ASSUME TypeOK, NEW c \in Calls, Executed(c)
    PROVE  /\ ran' \in [Calls -> Nat] /\ RanStays /\ ran'[c] = ran[c] + 1 /\ ran'[c] > 0
           /\ \A d \in Calls \ {c} : ran'[d] = ran[d]
BY DEF TypeOK, Executed, RanStays

LEMMA NothingRun ==
    ASSUME TypeOK, UNCHANGED ran PROVE ran' \in [Calls -> Nat] /\ RanStays
BY DEF TypeOK, RanStays

\* A command run for a job that waited leaves the sum of both as it was.
LEMMA RunsBalance ==
    ASSUME TypeOK, JobsInv, NEW j \in jobs,
           Drop(j) \/ (Run(j) /\ [j EXCEPT !.st = "running"].st = "running"),
           UNCHANGED ran \/ (j.st = "queued" /\ Executed(j.call))
    PROVE  \A c \in Calls : /\ Cardinality(Queued(c)') \in Nat /\ Cardinality(Queued(c)) \in Nat
                            /\ ran'[c] + Cardinality(Queued(c)') <= ran[c] + Cardinality(Queued(c))
<1> SUFFICES ASSUME NEW c \in Calls
    PROVE  /\ Cardinality(Queued(c)') \in Nat /\ Cardinality(Queued(c)) \in Nat
           /\ ran'[c] + Cardinality(Queued(c)') <= ran[c] + Cardinality(Queued(c))
  OBVIOUS
<1>1. /\ Cardinality(Queued(c)') \in Nat /\ Cardinality(Queued(c)) \in Nat
      /\ Cardinality(Queued(c)') <= Cardinality(Queued(c))
  BY QueuedAfter, QueuedFinite
<1>2. j.call \in Calls /\ ran[c] \in Nat
  BY DEF TypeOK, Jobs
<1>3. CASE UNCHANGED ran
  BY <1>1, <1>2, <1>3
<1>4. CASE j.st = "queued" /\ Executed(j.call)
  <2>1. CASE c = j.call
    <3>1. ran'[c] = ran[c] + 1
      BY <1>2, <1>4, <2>1, ExecutedOnce
    <3>2. Cardinality(Queued(c)') <= Cardinality(Queued(c)) - 1
      BY <1>4, <2>1, QueuedAfter
    <3> QED  BY <1>1, <1>2, <3>1, <3>2
  <2>2. CASE c # j.call
    <3>1. ran'[c] = ran[c]
      BY <1>2, <1>4, <2>2, ExecutedOnce
    <3> QED  BY <1>1, <1>2, <3>1
  <2> QED  BY <2>1, <2>2
<1> QED  BY <1>3, <1>4

\* A handler that answers at once: the job is dropped, the state and its file
\* stay.  What it answered must be true of what it left.
LEMMA QuickStep ==
    ASSUME Inv, NEW j \in jobs, NEW status \in Nat, Drop(j), Deliver(j, status) \/ UNCHANGED call,
           HandlerFrame, UNCHANGED lifecycle,
           UNCHANGED ran \/ (j.st = "queued" /\ Executed(j.call)),
           {disk', index', head'} \subseteq SUBSET Calls, head \subseteq head',
           \A c \in Calls : call[c].kind = "invalid" =>
                            ran'[c] = 0 /\ c \notin disk' \union index' \union head',
           status = 401 => call[j.call].kind = "invalid",
           status = 200 /\ call[j.call].kind \notin {"read", "snapshot"} =>
               ran'[j.call] > 0 /\ (call[j.call].kind = "commit" => j.call \in head')
    PROVE  Inv'
<1> USE DEF Inv
<1>1. j \in Jobs /\ j.call \in Calls
  BY DEF TypeOK, Jobs
<1>2. Tells(j, status) /\ SameCalls
  BY <1>1, DeliverTells, NothingTold, TellsSame
<1>3. ran' \in [Calls -> Nat] /\ RanStays
  BY <1>1, ExecutedOnce, NothingRun
<1>4. LifeTypes /\ openAtSet' = openAtSet /\ UNCHANGED <<withGpu, proc, warmup, poller, boots>>
  BY StaysType DEF HandlerFrame
<1>5. JobsInv' /\ jobs' \in SUBSET Jobs /\ openAtSet' \in SUBSET Jobs
  BY <1>2, <1>3, <1>4, DropKeepsJobs
<1>6. TypeOK'
  BY <1>2, <1>3, <1>4, <1>5 DEF TypeOK, LifeTypes, Tells
<1>7. CallsInv'
  BY <1>1, <1>2, <1>3, RunsBalance, CallsKept
<1>8. UNCHANGED <<file, errors, proc>>
  BY <1>4 DEF lifecycle
<1>9. openAtSet \ jobs \subseteq openAtSet' \ jobs'
  BY <1>4 DEF Drop
<1> QED  BY <1>5, <1>6, <1>7, <1>8, <1>9, UnwrittenForgetsNoMore

\* A refused call stays without a trace when another one is served.
RefusedUntouched ==
    \A c \in Calls : call[c].kind = "invalid" =>
                     ran'[c] = 0 /\ c \notin disk' \union index' \union head'

LEMMA OthersServed ==
    ASSUME TypeOK, CallsInv, NEW j \in jobs, call[j.call].kind # "invalid",
           UNCHANGED ran \/ Executed(j.call),
           disk' \subseteq disk \union {j.call}, index' \subseteq index \union {j.call},
           head' \subseteq head \union index \union {j.call}
    PROVE  RefusedUntouched
<1> SUFFICES ASSUME NEW c \in Calls, call[c].kind = "invalid"
             PROVE  ran'[c] = 0 /\ c \notin disk' \union index' \union head'
  BY DEF RefusedUntouched
<1>1. c # j.call /\ ran[c] = 0 /\ c \notin disk \union index \union head
  BY DEF CallsInv
<1>2. j.call \in Calls
  BY DEF TypeOK, Jobs
<1>3. ran'[c] = 0
  BY <1>1, <1>2, ExecutedOnce
<1> QED  BY <1>1, <1>3

LEMMA NobodyServed ==
    ASSUME CallsInv, UNCHANGED <<repo, ran>> PROVE RefusedUntouched
BY DEF RefusedUntouched, CallsInv, repo

LEMMA RepoTypes ==
    ASSUME TypeOK, UNCHANGED repo
    PROVE  {disk', index', head'} \subseteq SUBSET Calls /\ head \subseteq head'
BY DEF TypeOK, repo

LEMMA AnsweringStep ==
    ASSUME Inv, NEW j \in jobs,
           \/ Reject(j) \/ ExecBlocked(j) \/ ExecEnd(j) \/ Read(j) \/ GpuSnapshot(j)
           \/ StreamEnd(j) \/ RunTests(j)
    PROVE  Inv'
<1> USE DEF Inv
<1>0. {0, 126, 200, 400, 401, 503} \subseteq Nat
  OBVIOUS
<1>1. CASE Reject(j)
  <2>1. /\ Drop(j) /\ Deliver(j, 401) /\ HandlerFrame /\ UNCHANGED <<lifecycle, repo, ran>>
        /\ call[j.call].kind = "invalid"
    BY <1>1 DEF Reject, HandlerFrame
  <2>2. RefusedUntouched
    BY <2>1, NobodyServed
  <2> QED  BY <1>0, <2>1, <2>2, RepoTypes, QuickStep DEF RefusedUntouched
<1>2. CASE ExecBlocked(j)
  <2>1. Drop(j) /\ Deliver(j, 126) /\ HandlerFrame /\ UNCHANGED <<lifecycle, repo, ran>>
    BY <1>2 DEF ExecBlocked, HandlerFrame
  <2>2. RefusedUntouched
    BY <2>1, NobodyServed
  <2> QED  BY <1>0, <2>1, <2>2, RepoTypes, QuickStep DEF RefusedUntouched
<1>3. CASE ExecEnd(j)
  <2>1. /\ Drop(j) /\ Deliver(j, 200) /\ HandlerFrame /\ UNCHANGED <<lifecycle, repo, ran>>
        /\ call[j.call].kind = "exec" /\ ran'[j.call] > 0
    BY <1>3 DEF ExecEnd, HandlerFrame, JobsInv
  <2>2. RefusedUntouched
    BY <2>1, NobodyServed
  <2> QED  BY <1>0, <2>1, <2>2, RepoTypes, QuickStep DEF RefusedUntouched
<1>4. CASE Read(j)
  <2>1. /\ Drop(j) /\ Deliver(j, 200) /\ HandlerFrame /\ UNCHANGED <<lifecycle, repo, ran>>
        /\ call[j.call].kind = "read"
    BY <1>4 DEF Read, HandlerFrame
  <2>2. RefusedUntouched
    BY <2>1, NobodyServed
  <2> QED  BY <1>0, <2>1, <2>2, RepoTypes, QuickStep DEF RefusedUntouched
<1>5. CASE GpuSnapshot(j)
  <2>1. /\ Drop(j) /\ HandlerFrame /\ UNCHANGED <<lifecycle, repo, ran>>
        /\ call[j.call].kind = "snapshot"
    BY <1>5 DEF GpuSnapshot, HandlerFrame
  <2>2. PICK status \in {200, 503} : Deliver(j, status)
    BY <1>5 DEF GpuSnapshot
  <2>3. RefusedUntouched
    BY <2>1, NobodyServed
  <2> QED  BY <1>0, <2>1, <2>2, <2>3, RepoTypes, QuickStep DEF RefusedUntouched
<1>6. CASE StreamEnd(j)
  <2>1. Drop(j) /\ HandlerFrame /\ UNCHANGED <<lifecycle, repo, call, ran>>
    BY <1>6 DEF StreamEnd, HandlerFrame, client
  <2>2. RefusedUntouched
    BY <2>1, NobodyServed
  <2> QED  BY <1>0, <2>1, <2>2, RepoTypes, QuickStep DEF RefusedUntouched
<1>7. CASE RunTests(j)
  <2>1. /\ Drop(j) /\ HandlerFrame /\ UNCHANGED <<lifecycle, repo>>
        /\ j.st = "queued" /\ call[j.call].kind = "tests"
    BY <1>7 DEF RunTests, HandlerFrame
  <2>2. CASE Deliver(j, 400) /\ UNCHANGED ran
    <3>1. RefusedUntouched
      BY <2>1, <2>2, NobodyServed
    <3> QED  BY <1>0, <2>1, <2>2, <3>1, RepoTypes, QuickStep DEF RefusedUntouched
  <2>3. CASE Deliver(j, 200) /\ Executed(j.call)
    <3>1. RefusedUntouched
      BY <2>1, <2>3, OthersServed DEF repo
    <3>2. ran'[j.call] > 0
      BY <2>3, ExecutedOnce DEF TypeOK, Jobs
    <3> QED  BY <1>0, <2>1, <2>3, <3>1, <3>2, RepoTypes, QuickStep DEF RefusedUntouched
  <2> QED  BY <1>7, <2>2, <2>3 DEF RunTests
<1> QED  BY <1>1, <1>2, <1>3, <1>4, <1>5, <1>6, <1>7

LEMMA WriteStep ==
    ASSUME Inv, NEW j \in jobs, WriteFiles(j)
    PROVE  Inv'
<1> USE DEF Inv
<1>1. /\ Drop(j) /\ Deliver(j, 200) /\ HandlerFrame /\ UNCHANGED <<lifecycle, index, head>>
      /\ j.st = "queued" /\ call[j.call].kind = "write" /\ Executed(j.call)
      /\ (disk' = disk \union {j.call} \/ disk' = disk)
  BY DEF WriteFiles, HandlerFrame
<1>2. j.call \in Calls /\ 200 \in Nat
  BY DEF TypeOK, Jobs
<1>3. RefusedUntouched
  BY <1>1, OthersServed
<1>4. {disk', index', head'} \subseteq SUBSET Calls /\ head \subseteq head'
  BY <1>1, <1>2 DEF TypeOK
<1>5. ran'[j.call] > 0
  BY <1>1, <1>2, ExecutedOnce
<1> QED  BY <1>1, <1>2, <1>3, <1>4, <1>5, QuickStep DEF RefusedUntouched

LEMMA CommitStep ==
    ASSUME Inv, NEW j \in jobs, GitCommit(j)
    PROVE  Inv'
<1> USE DEF Inv
<1>1. /\ Drop(j) /\ HandlerFrame /\ UNCHANGED lifecycle
      /\ j.st = "queued" /\ call[j.call].kind = "commit"
  BY DEF GitCommit, HandlerFrame
<1>2. j.call \in Calls
  BY DEF TypeOK, Jobs
<1>3. PICK failure \in {400, 500} :
         \/ Deliver(j, failure) /\ UNCHANGED <<repo, ran>>
         \/ /\ index' = index \union {j.call} /\ Deliver(j, failure)
            /\ UNCHANGED <<disk, head, ran>>
         \/ /\ head' = head \union index \union {j.call} /\ index' = {}
            /\ Deliver(j, IF failure = 500 THEN 500 ELSE 200) /\ Executed(j.call)
            /\ UNCHANGED disk
  BY DEF GitCommit
<1>4. failure \in Nat /\ failure \notin {200, 401}
  OBVIOUS
<1>5. CASE Deliver(j, failure) /\ UNCHANGED <<repo, ran>>
  <2>1. RefusedUntouched
    BY <1>5, NobodyServed
  <2> QED  BY <1>1, <1>4, <1>5, <2>1, RepoTypes, QuickStep DEF RefusedUntouched
<1>6. CASE index' = index \union {j.call} /\ Deliver(j, failure) /\ UNCHANGED <<disk, head, ran>>
  <2>1. RefusedUntouched
    BY <1>1, <1>6, OthersServed
  <2>2. {disk', index', head'} \subseteq SUBSET Calls /\ head \subseteq head'
    BY <1>2, <1>6 DEF TypeOK
  <2> QED  BY <1>1, <1>4, <1>6, <2>1, <2>2, QuickStep DEF RefusedUntouched
<1>7. CASE /\ head' = head \union index \union {j.call} /\ index' = {}
           /\ Deliver(j, IF failure = 500 THEN 500 ELSE 200) /\ Executed(j.call)
           /\ UNCHANGED disk
  <2> DEFINE status == IF failure = 500 THEN 500 ELSE 200
  <2>1. status \in Nat /\ status # 401 /\ Deliver(j, status)
    BY <1>7
  <2>2. RefusedUntouched
    BY <1>1, <1>7, OthersServed
  <2>3. {disk', index', head'} \subseteq SUBSET Calls /\ head \subseteq head' /\ j.call \in head'
    BY <1>2, <1>7 DEF TypeOK
  <2>4. ran'[j.call] > 0
    BY <1>2, <1>7, ExecutedOnce
  <2> HIDE DEF status
  <2> QED  BY <1>1, <1>7, <2>1, <2>2, <2>3, <2>4, QuickStep DEF RefusedUntouched
<1> QED  BY <1>3, <1>5, <1>6, <1>7

\* A command that starts and answers nothing, or a stream that starts.
LEMMA BeginStep ==
    ASSUME Inv, NEW j \in jobs, ExecBegin(j) \/ StreamBegin(j)
    PROVE  Inv'
<1> USE DEF Inv
<1>1. /\ Run(j) /\ Executed(j.call) /\ HandlerFrame /\ UNCHANGED <<lifecycle, repo>>
      /\ j.st = "queued" /\ call[j.call].kind \in {"exec", "stream"}
      /\ (Deliver(j, 200) \/ UNCHANGED call)
  BY DEF ExecBegin, StreamBegin, HandlerFrame
<1>2. j \in Jobs /\ j.call \in Calls /\ 200 \in Nat /\ [j EXCEPT !.st = "running"].st = "running"
  BY DEF TypeOK, Jobs
<1>3. Tells(j, 200) /\ SameCalls
  BY <1>1, <1>2, DeliverTells, NothingTold, TellsSame
<1>4. ran' \in [Calls -> Nat] /\ RanStays /\ ran'[j.call] > 0
  BY <1>1, <1>2, ExecutedOnce
<1>5. LifeTypes /\ openAtSet' = openAtSet /\ UNCHANGED <<withGpu, proc, warmup, poller, boots>>
  BY <1>1, StaysType DEF HandlerFrame
<1>6. JobsInv' /\ jobs' \in SUBSET Jobs /\ openAtSet' \in SUBSET Jobs
  BY <1>1, <1>3, <1>4, <1>5, RunKeepsJobs
<1>7. TypeOK'
  BY <1>1, <1>3, <1>4, <1>5, <1>6, RepoTypes DEF TypeOK, LifeTypes, Tells
<1>8. RefusedUntouched
  BY <1>1, OthersServed DEF repo
<1>9. CallsInv'
  BY <1>1, <1>2, <1>3, <1>4, <1>8, RepoTypes, RunsBalance, CallsKept DEF RefusedUntouched
<1>10. UNCHANGED <<file, errors, proc>>
  BY <1>1, <1>5 DEF lifecycle
<1>11. openAtSet \ jobs \subseteq openAtSet' \ jobs'
  <2>1. AtWork(j) \notin openAtSet
    BY <1>1, <1>2, AtWorkType DEF JobsInv, Same
  <2> QED  BY <1>1, <1>5, <2>1 DEF Run, AtWork
<1> QED  BY <1>6, <1>7, <1>9, <1>10, <1>11, UnwrittenForgetsNoMore

LEMMA InferenceBeginStep ==
    ASSUME Inv, NEW j \in jobs, InferenceBegin(j)
    PROVE  Inv'
<1> USE DEF Inv
<1>1. /\ Run(j) /\ Executed(j.call) /\ HandlerFrame /\ UNCHANGED <<repo, call>>
      /\ j.st = "queued" /\ call[j.call].kind = "inference"
      /\ Write("PROCESSING", errors, Running(jobs) \union {AtWork(j)})
  BY DEF InferenceBegin, HandlerFrame, AtWork
<1>2. j \in Jobs /\ j.call \in Calls /\ [j EXCEPT !.st = "running"].st = "running"
      /\ errors \in Nat /\ "PROCESSING" \in States
  BY DEF TypeOK, Jobs, States
<1>3. Tells(j, 0) /\ SameCalls
  BY <1>1, NothingTold, TellsSame
<1>4. ran' \in [Calls -> Nat] /\ RanStays /\ ran'[j.call] > 0
  BY <1>1, <1>2, ExecutedOnce
<1> DEFINE open == Running(jobs) \union {AtWork(j)}
<1>5. /\ LifeTypes /\ openAtSet' \in {open, openAtSet \union open}
      /\ errors' = errors /\ Persist("PROCESSING", errors, open)
  BY <1>1, <1>2, WriteType
<1>6. UNCHANGED <<withGpu, proc, warmup, poller, boots>>
  BY <1>1 DEF HandlerFrame
<1>7. JobsInv' /\ jobs' \in SUBSET Jobs /\ openAtSet' \in SUBSET Jobs
  BY <1>1, <1>3, <1>4, <1>5, <1>6, RunKeepsJobs
<1>8. TypeOK'
  BY <1>1, <1>3, <1>4, <1>5, <1>6, <1>7, RepoTypes DEF TypeOK, LifeTypes, Tells
<1>9. RefusedUntouched
  BY <1>1, OthersServed DEF repo
<1>10. CallsInv'
  BY <1>1, <1>2, <1>3, <1>4, <1>9, RepoTypes, RunsBalance, CallsKept DEF RefusedUntouched
<1>11. CASE file' = [state |-> "PROCESSING", errors |-> errors]
  <2>1. ForgetsAll' \/ errors' - Recovered' = 0
    BY <1>2, <1>5, <1>11, WholeFile
  <2> QED  BY <1>7, <1>8, <1>10, <2>1, NothingForgotten
<1>12. CASE file' \in {file, Torn} /\ openAtSet' = openAtSet \union open
  <2>1. AtWork(j) \notin openAtSet \ jobs
    BY <1>1, <1>2, AtWorkType DEF JobsInv, Same
  <2>2. openAtSet \ jobs \subseteq openAtSet' \ jobs'
    BY <1>1, <1>12, <2>1 DEF Run, AtWork
  <2> QED  BY <1>5, <1>6, <1>7, <1>8, <1>10, <1>12, <2>2, UnwrittenForgetsNoMore
<1> QED  BY <1>5, <1>11, <1>12 DEF Persist

\* What a finished inference makes of the state, by the way it ended.
LEMMA OutcomeTypes ==
    ASSUME TypeOK, RecordError(errors) \/ RecordSuccess \/ RecordBoth
    PROVE  /\ LifeTypes
           /\ openAtSet' \in {openAtSet, Running(jobs), openAtSet \union Running(jobs)}
           /\ \/ ForgetsAll' \/ errors' - Recovered' = 0
              \/ /\ file' \in {file, Torn} /\ openAtSet \subseteq openAtSet'
                 /\ errors' <= errors + 1 \/ errors' <= 1
              \/ errors' - Recovered' = 1 /\ openAtSet' = Running(jobs)
<1>1. /\ errors \in Nat /\ errors + 1 \in Nat /\ state \in States /\ 0 \in Nat
      /\ "READY" \in States /\ "FAILED" \in States /\ "DEGRADED" \in States
  BY DEF TypeOK, States
<1>2. ASSUME NEW s \in {"READY", "FAILED", "DEGRADED"}, NEW e \in Nat, Set(s, e),
             e <= errors + 1 \/ e <= 1
      PROVE  /\ LifeTypes /\ openAtSet' \in {Running(jobs), openAtSet \union Running(jobs)}
             /\ \/ ForgetsAll' \/ errors' - Recovered' = 0
                \/ /\ file' \in {file, Torn} /\ openAtSet \subseteq openAtSet'
                   /\ errors' <= errors + 1 \/ errors' <= 1
  <2>1. s \in States /\ s # "STOPPED"
    BY DEF States
  <2>2. /\ LifeTypes /\ openAtSet' \in {Running(jobs), openAtSet \union Running(jobs)}
        /\ errors' = e /\ Persist(s, e, Running(jobs))
    BY <1>2, <2>1, WriteType DEF Set
  <2>3. CASE file' = [state |-> s, errors |-> e]
    BY <2>1, <2>2, <2>3, WholeFile
  <2>4. CASE file' \in {file, Torn} /\ openAtSet' = openAtSet \union Running(jobs)
    BY <1>2, <2>2, <2>4
  <2> QED  BY <2>2, <2>3, <2>4 DEF Persist
<1>3. ASSUME NEW e \in Nat, Count(e), e <= errors + 1 \/ e <= 1
      PROVE  /\ LifeTypes /\ openAtSet' = openAtSet /\ file' = file
             /\ errors' <= errors + 1 \/ errors' <= 1
  BY <1>3 DEF Count, LifeTypes, TypeOK
<1>4. CASE RecordError(errors)
  <2>1. \/ Set("FAILED", errors + 1) \/ Set("DEGRADED", errors + 1) \/ Count(errors + 1)
    BY <1>4 DEF RecordError
  <2>2. errors + 1 <= errors + 1
    BY <1>1
  <2>3. CASE Set("FAILED", errors + 1) \/ Set("DEGRADED", errors + 1)
    BY <1>1, <1>2, <2>2, <2>3
  <2>4. CASE Count(errors + 1)
    BY <1>1, <1>3, <2>2, <2>4
  <2> QED  BY <2>1, <2>3, <2>4
<1>5. CASE RecordSuccess
  <2>1. Set("READY", 0) \/ Count(0)
    BY <1>5 DEF RecordSuccess
  <2>2. 0 <= 1
    OBVIOUS
  <2>3. CASE Set("READY", 0)
    BY <1>1, <1>2, <2>2, <2>3
  <2>4. CASE Count(0)
    BY <1>1, <1>3, <2>2, <2>4
  <2> QED  BY <2>1, <2>3, <2>4
<1>6. CASE RecordBoth
  <2>1. CASE Busy
    <3>1. errors' = 1 /\ state' = "READY" /\ Persist("READY", 0, Running(jobs))
      BY <1>6, <2>1 DEF RecordBoth
    <3>2. LifeTypes /\ openAtSet' \in {Running(jobs), openAtSet \union Running(jobs)}
      BY <1>1, <3>1, PersistType
    <3>3. CASE file' = [state |-> "READY", errors |-> 0] /\ openAtSet' = Running(jobs)
      <4>1. Recovered' = 0
        BY <3>3 DEF Recovered
      <4> QED  BY <3>1, <3>2, <3>3, <4>1
    <3>4. CASE file' \in {file, Torn} /\ openAtSet' = openAtSet \union Running(jobs)
      BY <3>1, <3>2, <3>4
    <3> QED  BY <3>1, <3>3, <3>4 DEF Persist
  <2>2. CASE ~Busy
    BY <1>1, <1>6, <2>2 DEF RecordBoth, LifeTypes, TypeOK
  <2> QED  BY <2>1, <2>2
<1> QED  BY <1>4, <1>5, <1>6

LEMMA InferenceEndStep ==
    ASSUME Inv, NEW j \in jobs, InferenceEnd(j)
    PROVE  Inv'
<1> USE DEF Inv
<1>1. /\ Drop(j) /\ HandlerFrame /\ UNCHANGED <<repo, ran>>
      /\ j.st = "running" /\ call[j.call].kind = "inference"
  BY DEF InferenceEnd, HandlerFrame
<1>2. PICK status \in {200, 500, 503} :
         Deliver(j, status) /\ (RecordError(errors) \/ RecordSuccess \/ RecordBoth)
  BY DEF InferenceEnd
<1>3. j \in Jobs /\ j.call \in Calls /\ status \in Nat /\ status # 401
  BY DEF TypeOK, Jobs
<1>4. Tells(j, status) /\ SameCalls
  BY <1>2, <1>3, DeliverTells, TellsSame
<1>5. ran' \in [Calls -> Nat] /\ RanStays
  BY <1>1, NothingRun
<1>6. UNCHANGED <<withGpu, proc, warmup, poller, boots>>
  BY <1>1 DEF HandlerFrame
<1>7. LifeTypes /\ openAtSet' \in {openAtSet, Running(jobs), openAtSet \union Running(jobs)}
  BY <1>2, OutcomeTypes
<1>8. JobsInv' /\ jobs' \in SUBSET Jobs /\ openAtSet' \in SUBSET Jobs
  BY <1>1, <1>4, <1>5, <1>6, <1>7, DropKeepsJobs
<1>9. TypeOK'
  BY <1>1, <1>4, <1>5, <1>6, <1>7, <1>8, RepoTypes DEF TypeOK, LifeTypes, Tells
<1>10. CallsInv'
  <2>1. RefusedUntouched
    BY <1>1, NobodyServed
  <2>2. ran'[j.call] > 0
    BY <1>1 DEF JobsInv
  <2> QED  BY <1>1, <1>3, <1>4, <1>5, <2>1, <2>2, RepoTypes, RunsBalance, CallsKept
           DEF RefusedUntouched
<1>11. CrashForgetsAtMostOpen'
  <2>1. CASE ForgetsAll' \/ errors' - Recovered' = 0
    BY <1>8, <2>1, NothingForgotten
  <2>2. CASE /\ file' \in {file, Torn} /\ openAtSet \subseteq openAtSet'
             /\ errors' <= errors + 1 \/ errors' <= 1
    BY <1>1, <1>6, <1>8, <1>9, <2>2, OneMoreError
  <2>3. CASE errors' - Recovered' = 1 /\ openAtSet' = Running(jobs)
    <3>1. openAtSet' \ jobs' = {j}
      BY <1>1, <2>3 DEF Drop, Running
    <3>2. Cardinality({j}) = 1
      BY FS_Singleton
    <3> QED  BY <2>3, <3>1, <3>2 DEF CrashForgetsAtMostOpen
  <2> QED  BY <1>2, <2>1, <2>2, <2>3, OutcomeTypes
<1> QED  BY <1>8, <1>9, <1>10, <1>11

-----------------------------------------------------------------------------
(* The theorems. *)

LEMMA InitInv == Init => Inv
<1> SUFFICES ASSUME Init PROVE Inv
  OBVIOUS
<1>1. MaxRetries \in Nat \ {0}
  BY ServiceAssumption
<1>2. call \in [Calls -> ClientCalls]
  BY <1>1 DEF Init, ClientCalls
<1>3. TypeOK
  BY <1>2 DEF Init, TypeOK, States, NoFile
<1>4. IsFiniteSet({}) /\ Cardinality({}) = 0
  BY FS_EmptySet
<1>5. JobsInv
  BY <1>4 DEF Init, JobsInv
<1>6. \A c \in Calls : Queued(c) = {}
  BY DEF Init, Queued
<1>7. CallsInv
  <2> SUFFICES ASSUME NEW c \in Calls
               PROVE  /\ call[c].st \in {"idle", "backoff"} => call[c].attempt < MaxRetries
                      /\ ran[c] + Cardinality(Queued(c)) <= call[c].attempt
                      /\ call[c].kind = "invalid" =>
                            ran[c] = 0 /\ c \notin disk \union index \union head
                      /\ call[c].result = 401 => call[c].kind = "invalid"
                      /\ call[c].result = 200 /\ call[c].kind \notin {"read", "snapshot"} =>
                            ran[c] > 0 /\ (call[c].kind = "commit" => c \in head)
    BY DEF CallsInv
  <2>1. call[c].attempt = 0 /\ call[c].result = 0
    BY DEF Init
  <2>2. ran[c] = 0 /\ Cardinality(Queued(c)) = 0
    BY <1>4, <1>6 DEF Init
  <2>3. c \notin disk \union index \union head
    BY DEF Init
  <2> QED  BY <1>1, <2>1, <2>2, <2>3
<1>8. CrashForgetsAtMostOpen
  <2>1. openAtSet \ jobs = {} /\ errors - Recovered = 0
    BY DEF Init, Recovered, NoFile
  <2> QED  BY <1>4, <2>1 DEF CrashForgetsAtMostOpen
<1> QED  BY <1>3, <1>5, <1>7, <1>8 DEF Inv

LEMMA NextInv == Inv /\ [Next]_vars => Inv'
<1> SUFFICES ASSUME Inv, [Next]_vars PROVE Inv'
  OBVIOUS
<1>1. ASSUME NEW j \in jobs, Handler(j) PROVE Inv'
  BY <1>1, AnsweringStep, WriteStep, CommitStep, BeginStep, InferenceBeginStep, InferenceEndStep
     DEF Handler
<1>2. CASE UNCHANGED vars
  <2>1. UNCHANGED <<lifecycle, server, repo, client>>
    BY <1>2 DEF vars
  <2>2. UNCHANGED <<state, errors, file, openAtSet, withGpu, proc, warmup, jobs, poller, boots,
                    disk, index, head, call, ran>>
    BY <2>1 DEF lifecycle, server, repo, client
  <2>3. TypeOK' /\ JobsInv' /\ CrashForgetsAtMostOpen'
    BY <2>2 DEF Inv, TypeOK, JobsInv, Same, Alive, CrashForgetsAtMostOpen, ForgetsAll, Recovered
  <2>4. CallsInv'
    BY <2>2 DEF Inv, CallsInv, Queued
  <2> QED  BY <2>3, <2>4 DEF Inv
<1> QED  BY <1>1, <1>2, ProcessStep, AttemptStep, TimeoutStep DEF Next

THEOREM Invariant == Spec => []Inv
BY InitInv, NextInv, PTL DEF Spec

\* The errors a crash loses are those of handlers at work when .engine_state
\* was last written in full, or could not be written since, unless the file was
\* cut short, for any thresholds and any number of clients
\* (engine_service.py:78-86, 97-118).
THEOREM CrashForgets == Spec => []CrashForgetsAtMostOpen
<1>1. Inv => CrashForgetsAtMostOpen
  BY DEF Inv
<1> QED  BY <1>1, Invariant, PTL

\* What clients are told agrees with what was done, whatever is retried, times
\* out or is cut off by a restart: each attempt runs its command at most once
\* (engine_client.py, engine_service.py).
THEOREM AnswersAreTrue == Spec => []EffectsMatchAnswer
<1>1. Inv => EffectsMatchAnswer
  <2> SUFFICES ASSUME Inv, NEW c \in Calls
      PROVE  /\ ran[c] <= call[c].attempt
             /\ call[c].result = 401 => ran[c] = 0 /\ c \notin disk \union head
             /\ call[c].st = "done" /\ call[c].result = 200 /\ call[c].kind \notin {"read", "snapshot"}
                   => ran[c] > 0 /\ (call[c].kind = "commit" => c \in head)
    BY DEF EffectsMatchAnswer
  <2>1. ran[c] \in Nat /\ call[c].attempt \in Nat /\ Cardinality(Queued(c)) \in Nat
        /\ ran[c] + Cardinality(Queued(c)) <= call[c].attempt
    BY ServiceAssumption, QueuedFinite DEF Inv, TypeOK, ClientCalls, CallsInv
  <2> QED  BY <2>1 DEF Inv, CallsInv
<1> QED  BY <1>1, Invariant, PTL

\* Only a success, a first error after one, or the warm-up timer makes the
\* service READY again (engine_service.py:87, 534-537).
THEOREM OnlySuccessHeals == Spec => HealedBySuccessOrWarmup
<1>1. ASSUME [Next]_vars, state # "READY", state' = "READY"
      PROVE  errors' < errors \/ errors' <= 1 \/ warmup = "query"
  <2>1. CASE Boot \/ MarkReady \/ OnShutdown
    BY <1>1, <2>1 DEF Boot, MarkReady, OnShutdown, Set, Write
  <2>2. CASE WarmupQuery \/ Sigterm \/ End \/ PollOnce \/ PollDone \/ PollExit
             \/ \E c \in Calls : Attempt(c) \/ ClientTimeout(c)
    BY <1>1, <2>2 DEF WarmupQuery, Sigterm, End, PollOnce, PollDone, PollExit, Attempt,
                      ClientTimeout, lifecycle
  <2>3. ASSUME NEW j \in jobs, Handler(j)
        PROVE  errors' < errors \/ errors' <= 1 \/ warmup = "query"
    <3>1. CASE InferenceEnd(j)
      BY <1>1, <3>1 DEF InferenceEnd, RecordError, RecordSuccess, RecordBoth, Set, Write, Count
    <3>2. CASE InferenceBegin(j)
      BY <1>1, <3>2 DEF InferenceBegin, Write
    <3>3. CASE \/ Reject(j) \/ ExecBlocked(j) \/ ExecBegin(j) \/ ExecEnd(j) \/ WriteFiles(j)
               \/ RunTests(j) \/ GitCommit(j) \/ Read(j) \/ GpuSnapshot(j)
               \/ StreamBegin(j) \/ StreamEnd(j)
      BY <1>1, <3>3 DEF Reject, ExecBlocked, ExecBegin, ExecEnd, WriteFiles, RunTests, GitCommit,
                        Read, GpuSnapshot, StreamBegin, StreamEnd, lifecycle
    <3> QED  BY <2>3, <3>1, <3>2, <3>3 DEF Handler
  <2>4. CASE UNCHANGED vars
    BY <1>1, <2>4 DEF vars, lifecycle
  <2> QED  BY <1>1, <2>1, <2>2, <2>3, <2>4 DEF Next
<1>2. [Next]_vars => [state # "READY" /\ state' = "READY" =>
                         errors' < errors \/ errors' <= 1 \/ warmup = "query"]_vars
  BY <1>1
<1> QED  BY <1>2, PTL DEF Spec, HealedBySuccessOrWarmup

============================================================================
