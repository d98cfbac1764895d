---------------------------- MODULE CallsProofs ------------------------------
(***************************************************************************)
(* Proofs about what becomes of a model's answer: the transport that       *)
(* brings it and the sandboxed function that is given it.  And about the   *)
(* servers that answer, the tools that start and stop them, the            *)
(* calculators that place their weights and the bridge that polls DSH.     *)
(***************************************************************************)
EXTENDS Integers, Calls, ListsProofs, SequenceTheorems, FiniteSetTheorems, TLAPS

-----------------------------------------------------------------------------
(* The generated function of lane B+. *)

Before == {"route", "native", "laneb", "codegen", "run"}

DispatchTypes ==
    /\ asked \in Seq(Dispatch!Calls) /\ answers \in Seq(Dispatch!Calls)
    /\ pending \in Seq(Dispatch!Calls) /\ sure \in Nat

\* The calls left to fulfil are those of the last run that no answer was there for.
Left ==
    at = "fulfil" =>
        /\ Len(pending) > 0 /\ Len(asked) = Len(answers) + Len(pending)
        /\ \A i \in 1 .. Len(pending) : asked[Len(answers) + i] = pending[i]

\* The answers, and those to come, were asked for where a deterministic function asks
\* again, but for the calls that followed a stop it caught.
Injected ==
    steady =>
        /\ sure <= Len(asked)
        /\ \A i \in 1 .. Len(answers) : i \in loose \/ (i <= sure /\ answers[i] = asked[i])
        /\ at = "fulfil" =>
             \A i \in 1 .. Len(pending) : Len(answers) + i \in loose \/ Len(answers) + i <= sure
        /\ ~swallowed => loose = {}

\* A result of the lane is there only when the dispatch is over.
LaneEnds == at \in Before \cup {"fulfil", "raised"} => result.lane # "bplus"

Settled == steady => (result.lane = "bplus" /\ ~swallowed => Len(answers) = Len(asked))

DispatchInv == DispatchTypes /\ Left /\ Injected /\ LaneEnds /\ Settled

LEMMA DispatchInit == Dispatch!Init => DispatchInv
BY DEF Dispatch!Init, Dispatch!None, DispatchInv, DispatchTypes, Left, Injected, LaneEnds, Settled,
       Before

\* A run of a deterministic function makes the calls again that hang on answers only.
LEMMA RunRepeats ==
  ASSUME DispatchInv, NEW p \in Dispatch!Paths, Dispatch!Takes(p)
  PROVE  /\ asked' = p /\ p \in Seq(Dispatch!Calls) /\ Len(p) \in Nat
         /\ steady => /\ sure <= Len(p)
                      /\ \A i \in 1 .. Len(answers) : i \in loose \/ (i <= sure /\ answers[i] = p[i])
<1>1. asked' = p /\ p \in Seq(Dispatch!Calls) /\ Len(p) \in Nat
  BY DEF Dispatch!Takes, Dispatch!Paths
<1>2. CASE ~steady
  BY <1>1, <1>2
<1>3. CASE steady
  <2>1. sure \in Nat /\ sure <= Len(p) /\ \A i \in 1 .. sure : p[i] = asked[i]
    BY <1>3 DEF Dispatch!Takes, DispatchInv, DispatchTypes
  <2>2. ASSUME NEW i \in 1 .. Len(answers) PROVE i \in loose \/ (i <= sure /\ answers[i] = p[i])
    <3>1. i \in loose \/ (i <= sure /\ answers[i] = asked[i])
      BY <1>3 DEF DispatchInv, Injected
    <3>2. i \in Nat /\ i >= 1
      BY DEF DispatchInv, DispatchTypes
    <3> QED BY <2>1, <3>1, <3>2
  <2> QED BY <1>1, <2>1, <2>2
<1> QED BY <1>2, <1>3

\* The next call that is pending gets its answer.
LEMMA FulfilKeeps ==
  ASSUME DispatchInv, at = "fulfil", Dispatch!Fulfil(Head(pending)),
         UNCHANGED <<complex, docker, attempt, late, Dispatch!function>>
  PROVE  DispatchInv'
<1>1. /\ answers' = Append(answers, Head(pending)) /\ pending' = Tail(pending)
      /\ at' = (IF Len(pending) = 1 THEN "run" ELSE "fulfil") /\ result' = result
      /\ UNCHANGED <<steady, asked, sure, swallowed, loose>>
  BY DEF Dispatch!Fulfil, Dispatch!AnswerTo, Dispatch!function
<1>2. /\ Len(pending) \in Nat /\ Len(answers) \in Nat /\ Len(pending) > 0
      /\ Head(pending) \in Dispatch!Calls /\ Head(pending) = pending[1]
      /\ Tail(pending) \in Seq(Dispatch!Calls) /\ Len(Tail(pending)) = Len(pending) - 1
      /\ \A i \in 1 .. Len(pending) - 1 : Tail(pending)[i] = pending[i + 1]
  BY DEF DispatchInv, DispatchTypes, Left
<1>3. /\ answers' \in Seq(Dispatch!Calls) /\ Len(answers') = Len(answers) + 1
      /\ \A i \in 1 .. Len(answers) : answers'[i] = answers[i]
      /\ answers'[Len(answers) + 1] = pending[1]
  BY <1>1, <1>2 DEF DispatchInv, DispatchTypes
<1>4. DispatchTypes'
  BY <1>1, <1>2, <1>3 DEF DispatchInv, DispatchTypes
<1>5. ASSUME NEW i \in 1 .. Len(pending')
      PROVE  i + 1 \in 1 .. Len(pending) /\ Len(answers') + i = Len(answers) + (i + 1)
  BY <1>1, <1>2, <1>3
<1>6. Left'
  <2>1. Len(asked') = Len(answers') + Len(pending')
    <3>1. Len(asked) = Len(answers) + Len(pending) /\ asked' = asked
      BY <1>1 DEF DispatchInv, Left
    <3> QED BY <1>1, <1>2, <1>3, <3>1
  <2>2. ASSUME NEW i \in 1 .. Len(pending') PROVE asked'[Len(answers') + i] = pending'[i]
    <3>1. asked[Len(answers) + (i + 1)] = pending[i + 1]
      BY <1>5 DEF DispatchInv, Left
    <3> QED BY <1>1, <1>2, <1>5, <3>1
  <2> QED BY <1>1, <1>2, <2>1, <2>2 DEF Left
<1>7. Injected'
  <2> SUFFICES ASSUME steady PROVE Injected'
    BY <1>1 DEF Injected
  <2>1. asked[Len(answers) + 1] = pending[1]
    BY <1>2 DEF DispatchInv, Left
  <2>2. Len(answers) + 1 \in loose \/ Len(answers) + 1 <= sure
    BY <1>2 DEF DispatchInv, Injected
  <2>3. ASSUME NEW i \in 1 .. Len(answers')
        PROVE  i \in loose \/ (i <= sure /\ answers'[i] = asked[i])
    <3>1. CASE i \in 1 .. Len(answers)
      BY <1>3, <3>1 DEF DispatchInv, Injected
    <3>2. CASE i = Len(answers) + 1
      BY <1>3, <2>1, <2>2, <3>2
    <3> QED BY <1>2, <1>3, <3>1, <3>2
  <2>4. ASSUME NEW i \in 1 .. Len(pending')
        PROVE  Len(answers') + i \in loose \/ Len(answers') + i <= sure
    BY <1>5 DEF DispatchInv, Injected
  <2>5. sure <= Len(asked) /\ (~swallowed => loose = {})
    BY DEF DispatchInv, Injected
  <2> QED BY <1>1, <2>3, <2>4, <2>5 DEF Injected
<1>8. LaneEnds' /\ Settled'
  BY <1>1 DEF DispatchInv, LaneEnds, Settled, Before
<1> QED BY <1>4, <1>6, <1>7, <1>8 DEF DispatchInv

\* What leaves the calls and their answers alone.
LEMMA CallsUntouched ==
  ASSUME DispatchInv, UNCHANGED <<steady, asked, sure, answers, pending, swallowed, loose>>,
         \/ at' = at /\ result' = result
         \/ at \in Before /\ at' \in Before /\ result'.lane # "bplus"
         \/ at \in Before /\ at' \in Before /\ result' = result
         \/ at \in Before \cup {"fulfil"} /\ at' \in {"emit", "raised"} /\ result' = result
         \/ at \in {"route", "native"} /\ at' = "emit" /\ result'.lane # "bplus"
         \/ at = "emit" /\ at' = "done" /\ result' = result
  PROVE  DispatchInv'
<1>1. /\ asked' = asked /\ answers' = answers /\ pending' = pending /\ steady' = steady
      /\ sure' = sure /\ swallowed' = swallowed /\ loose' = loose
  OBVIOUS
<1>2. DispatchTypes'
  BY <1>1 DEF DispatchInv, DispatchTypes
<1>3. Left'
  BY <1>1 DEF DispatchInv, Left, Before
<1>4. Injected'
  BY <1>1 DEF DispatchInv, Injected, Before
<1>5. LaneEnds'
  BY DEF DispatchInv, LaneEnds, Before
<1>6. Settled'
  BY <1>1 DEF DispatchInv, Settled, LaneEnds, Before
<1> QED BY <1>2, <1>3, <1>4, <1>5, <1>6 DEF DispatchInv

\* The function runs to its end: all its calls were answered, unless it caught a stop.
LEMMA RunToEndKeeps ==
  ASSUME DispatchInv, Dispatch!RunToEnd
  PROVE  DispatchInv'
<1>1. PICK p \in Dispatch!Paths :
        Dispatch!Takes(p) /\ swallowed' = (swallowed \/ Len(p) > Len(answers))
  BY DEF Dispatch!RunToEnd
<1>2. /\ at = "run" /\ at' = "emit" /\ UNCHANGED <<answers, pending, steady, sure, loose>>
      /\ result' = [lane |-> "bplus", verdict |-> "dispatch"]
  BY DEF Dispatch!RunToEnd, Dispatch!Finish, Dispatch!Decide
<1>3. /\ asked' = p /\ p \in Seq(Dispatch!Calls) /\ Len(p) \in Nat
      /\ steady => /\ sure <= Len(p)
                   /\ \A i \in 1 .. Len(answers) : i \in loose \/ (i <= sure /\ answers[i] = p[i])
  BY <1>1, RunRepeats
<1>4. Len(answers) \in Nat /\ sure \in Nat
  BY DEF DispatchInv, DispatchTypes
<1>5. DispatchTypes' /\ Left' /\ LaneEnds'
  BY <1>2, <1>3 DEF DispatchInv, DispatchTypes, Left, LaneEnds, Before
<1>6. ~swallowed' => ~swallowed /\ Len(p) <= Len(answers)
  <2>1. ~swallowed' => ~swallowed /\ ~(Len(p) > Len(answers))
    BY <1>1, Zenon
  <2>2. ~(Len(p) > Len(answers)) => Len(p) <= Len(answers)
    BY <1>3, <1>4
  <2> QED BY <2>1, <2>2, Zenon
<1>7. Injected'
  <2>1. steady => (~swallowed' => loose = {})
    BY <1>6 DEF DispatchInv, Injected
  <2> QED BY <1>2, <1>3, <2>1 DEF Injected
<1>8. Settled'
  <2> SUFFICES ASSUME steady, ~swallowed' PROVE Len(answers) = Len(p)
    BY <1>2, <1>3 DEF Settled
  <2>1. loose = {}
    BY <1>6 DEF DispatchInv, Injected
  <2>2. Len(answers) <= sure
    <3>1. CASE Len(answers) = 0
      BY <1>4, <3>1
    <3>2. CASE Len(answers) # 0
      BY <1>3, <1>4, <2>1, <3>2
    <3> QED BY <3>1, <3>2
  <2> QED BY <1>3, <1>4, <1>6, <2>2
<1> QED BY <1>5, <1>7, <1>8 DEF DispatchInv

\* The function stops: of the calls without an answer, those after the first are loose.
LEMMA RunToCallKeeps ==
  ASSUME DispatchInv, Dispatch!RunToCall
  PROVE  DispatchInv'
<1> DEFINE n == Len(answers)
<1>1. PICK p \in Dispatch!Paths :
        /\ Dispatch!Takes(p) /\ Len(p) > n /\ pending' = SubSeq(p, n + 1, Len(p))
        /\ sure' = n + 1 /\ swallowed' = (swallowed \/ Len(p) > sure')
        /\ loose' = loose \cup (sure' + 1 .. Len(p))
  BY DEF Dispatch!RunToCall
<1>2. at = "run" /\ at' = "fulfil" /\ UNCHANGED <<answers, steady, result>>
  BY DEF Dispatch!RunToCall
<1>3. /\ asked' = p /\ p \in Seq(Dispatch!Calls) /\ Len(p) \in Nat
      /\ steady => \A i \in 1 .. n : i \in loose \/ (i <= sure /\ answers[i] = p[i])
  BY <1>1, RunRepeats
<1>4. n \in Nat
  BY DEF DispatchInv, DispatchTypes
<1> HIDE DEF n
<1>5. /\ pending' \in Seq(Dispatch!Calls) /\ Len(pending') = Len(p) - n
      /\ \A i \in 1 .. Len(pending') : p[n + i] = pending'[i]
  BY <1>1, <1>3, <1>4
<1>6. DispatchTypes' /\ LaneEnds' /\ Settled'
  BY <1>1, <1>2, <1>3, <1>4, <1>5 DEF DispatchInv, DispatchTypes, LaneEnds, Settled, Before
<1>7. Len(answers') = n
  BY <1>2 DEF n
<1>8. Left'
  <2>1. Len(pending') > 0 /\ Len(asked') = Len(answers') + Len(pending')
    BY <1>1, <1>3, <1>4, <1>5, <1>7
  <2>2. \A i \in 1 .. Len(pending') : asked'[Len(answers') + i] = pending'[i]
    BY <1>3, <1>5, <1>7
  <2> QED BY <2>1, <2>2 DEF Left
<1>9. Injected'
  <2> SUFFICES ASSUME steady PROVE Injected'
    BY <1>2 DEF Injected
  <2>1. sure' <= Len(asked')
    BY <1>1, <1>3, <1>4
  <2>2. ASSUME NEW i \in 1 .. n PROVE i \in loose' \/ (i <= sure' /\ answers'[i] = asked'[i])
    BY <1>1, <1>2, <1>3, <1>4
  <2>3. ASSUME NEW i \in 1 .. Len(pending') PROVE n + i \in loose' \/ n + i <= sure'
    BY <1>1, <1>3, <1>4, <1>5
  <2>4. ~swallowed' => loose' = {}
    <3> SUFFICES ASSUME ~swallowed' PROVE loose' = {}
      OBVIOUS
    <3>1. ~swallowed /\ sure' = Len(p)
      <4>1. ~swallowed /\ ~(Len(p) > sure')
        BY <1>1, Zenon
      <4>2. Len(p) > n /\ sure' = n + 1
        BY <1>1
      <4> QED BY <1>3, <1>4, <4>1, <4>2
    <3>2. loose = {}
      BY <3>1 DEF DispatchInv, Injected
    <3>3. sure' + 1 .. Len(p) = {}
      BY <1>3, <3>1
    <3> QED BY <1>1, <3>2, <3>3
  <2> QED BY <1>7, <2>1, <2>2, <2>3, <2>4 DEF Injected
<1> QED BY <1>6, <1>8, <1>9 DEF DispatchInv

LEMMA DispatchStep == DispatchInv /\ [Dispatch!Next]_(Dispatch!vars) => DispatchInv'
<1> SUFFICES ASSUME DispatchInv, [Dispatch!Next]_(Dispatch!vars) PROVE DispatchInv'
  OBVIOUS
<1> USE DEF Dispatch!Finish, Dispatch!Raise, Dispatch!Decide, Dispatch!lane, Dispatch!function
<1>1. CASE Dispatch!Route
  BY <1>1, CallsUntouched DEF Dispatch!Route, Before
<1>2. CASE Dispatch!Native
  BY <1>2, CallsUntouched DEF Dispatch!Native, Before
<1>3. CASE Dispatch!Emit
  BY <1>3, CallsUntouched DEF Dispatch!Emit
<1>4. CASE Dispatch!Refuse \/ Dispatch!Start
  BY <1>4, CallsUntouched DEF Dispatch!Refuse, Dispatch!Start, Before
<1>5. CASE Dispatch!Generate
  BY <1>5, CallsUntouched DEF Dispatch!Generate, Before
<1>6. CASE Dispatch!Expire
  BY <1>6, CallsUntouched DEF Dispatch!Expire
<1>7. CASE Dispatch!TooLate \/ Dispatch!SandboxFails
  BY <1>7, CallsUntouched DEF Dispatch!TooLate, Dispatch!SandboxFails, Before
<1>8. CASE Dispatch!RunToEnd
  BY <1>8, RunToEndKeeps
<1>9. CASE Dispatch!RunToCall
  BY <1>9, RunToCallKeeps
<1>10. CASE Dispatch!Query \/ Dispatch!CallTool
  <2>1. CASE Dispatch!Fulfil(Head(pending))
    BY <1>10, <2>1, FulfilKeeps DEF Dispatch!Query, Dispatch!CallTool
  <2>2. CASE ~Dispatch!Fulfil(Head(pending))
    BY <1>10, <2>2, CallsUntouched DEF Dispatch!Query, Dispatch!CallTool
  <2> QED BY <2>1, <2>2
<1>11. CASE UNCHANGED Dispatch!vars
  BY <1>11, CallsUntouched DEF Dispatch!vars
<1> QED BY <1>1, <1>2, <1>3, <1>4, <1>5, <1>6, <1>7, <1>8, <1>9, <1>10, <1>11 DEF Dispatch!Next

\* A deterministic generated function that is stopped and run again gets, for its n-th
\* call, the answer to its n-th call, but for the calls it made after it had caught a
\* stop; what it returned is dispatched only after all its calls were answered, unless
\* it caught what stops it (laneb.py).
THEOREM AnswersAreInjected == Dispatch!Spec => []AnswersMatchCalls
<1>1. DispatchInv => Dispatch!AnswersMatchCalls
  BY DEF DispatchInv, DispatchTypes, Injected, Settled, Dispatch!AnswersMatchCalls
<1> QED BY <1>1, DispatchInit, DispatchStep, PTL DEF Dispatch!Spec, AnswersMatchCalls

-----------------------------------------------------------------------------
(* The transports of model requests. *)

CallFields == {"at", "kind", "port", "via", "tools", "reply", "result"}

\* A chat request comes back with the reply of the server it went to; only over the
\* service there may be none.
ReplyFits ==
    call.at = "back" /\ call.kind = "chat" =>
        \/ call.reply \in Models!Replies /\ call.reply.port = call.port
        \/ call.reply = Models!Nothing /\ call.via = "http"

ModelsInv ==
    /\ DOMAIN call = CallFields
    /\ call.at # "idle" => call.via \in Models!Transports
    /\ call.at = "service" => call.via = "http"
    /\ call.at # "idle" => call.port \in Ports \cup {Default}
    /\ ReplyFits
    /\ Models!AnswersAreTheModels

LEMMA ModelsInit == Models!Init => ModelsInv
BY DEF Models!Init, Models!NoCall, ModelsInv, CallFields, ReplyFits, Models!AnswersAreTheModels,
       Models!Returned

\* What a server's reply may be.
LEMMA ReplyShape ==
  ASSUME NEW r \in Models!Replies
  PROVE  /\ r.status \in {"ok", "error", "garbage", "silent", "down"}
         /\ r.status = "ok" => r.choices \in BOOLEAN /\ r.tools \in BOOLEAN
BY DEF Models!Replies

\* A value a caller is left with is made from an answer that is good.
LEMMA HttpValues ==
  ASSUME NEW r, r \in Models!Replies \/ r = Models!Nothing, NEW v \in Models!HttpChat(r),
         v.kind = "value"
  PROVE  /\ r.status = "ok" /\ v.value.content = Models!Content(r) /\ v.value.port = r.port
<1>1. r.status \in {"ok", "error", "garbage", "silent", "down", "unreachable"}
  BY ReplyShape DEF Models!Nothing, Models!Status
<1>2. r.status # "silent" /\ Models!Flat(r).ok
  BY <1>1 DEF Models!HttpChat, Models!Unreachable, Models!Raised
<1>3. r.status = "ok" /\ ~r.tools
  BY <1>2 DEF Models!Flat
<1>4. v = Models!Value([content |-> Models!Content(r), choices |-> FALSE, port |-> r.port])
  BY <1>2, <1>3 DEF Models!HttpChat, Models!Flat, Models!FlatContent, Models!Raised, Models!Unreachable
<1> QED BY <1>3, <1>4 DEF Models!Value

LEMMA LocalValues ==
  ASSUME NEW r \in Models!Replies, Models!LocalChat(r).kind = "value"
  PROVE  /\ r.status = "ok" /\ Models!LocalChat(r).value.content = Models!Content(r)
         /\ Models!LocalChat(r).value.port = r.port
<1>1. r.status = "ok"
  BY ReplyShape DEF Models!LocalChat, Models!Raised
<1> QED BY <1>1 DEF Models!LocalChat, Models!Answer, Models!Value

LEMMA ChatReturnKeeps == ModelsInv /\ Models!ChatReturns => ModelsInv'
<1> SUFFICES ASSUME ModelsInv, Models!ChatReturns PROVE ModelsInv'
  OBVIOUS
<1>1. PICK v : call' = [call EXCEPT !.at = "idle", !.result = v] /\
        v \in CASE call.via = "http" -> Models!HttpChat(call.reply)
                [] call.via = "local" -> {IF call.kind = "raw" THEN Models!LocalRaw(call.reply)
                                                           ELSE Models!LocalChat(call.reply)}
                [] call.via = "client" -> {Models!ClientChat(call.reply)}
                [] OTHER -> {IF call.kind = "raw" THEN Models!SshRaw(call.reply)
                                                  ELSE Models!SshChat(call.reply)}
  BY DEF Models!ChatReturns
<1>2. /\ DOMAIN call' = CallFields /\ call'.at = "idle" /\ call'.result = v
      /\ call'.kind = call.kind /\ call'.via = call.via /\ call'.reply = call.reply
      /\ call'.port = call.port
  BY <1>1 DEF ModelsInv, CallFields
<1>3. ASSUME call.kind = "chat", call.via \notin Models!Ssh, v.kind = "value"
      PROVE  /\ call.reply.status = "ok"
             /\ v.value.content = Models!Content(call.reply) /\ v.value.port = call.port
  <2>1. call.at = "back" /\ call.via \in {"http", "local"}
    BY <1>3 DEF Models!ChatReturns, ModelsInv, Models!Transports, Models!Ssh
  <2>2. CASE call.via = "http"
    <3>1. v \in Models!HttpChat(call.reply)
      BY <1>1, <2>2
    <3>2. \/ call.reply \in Models!Replies /\ call.reply.port = call.port
          \/ call.reply = Models!Nothing
      BY <1>3, <2>1 DEF ModelsInv, ReplyFits
    <3>3. /\ call.reply.status = "ok" /\ v.value.content = Models!Content(call.reply)
          /\ v.value.port = call.reply.port
      BY <1>3, <3>1, <3>2, HttpValues
    <3> QED BY <3>2, <3>3 DEF Models!Nothing, Models!Status
  <2>3. CASE call.via = "local"
    <3>1. v = Models!LocalChat(call.reply)
      BY <1>1, <1>3, <2>3
    <3>2. call.reply \in Models!Replies /\ call.reply.port = call.port
      BY <1>3, <2>1, <2>3 DEF ModelsInv, ReplyFits
    <3> QED BY <1>3, <3>1, <3>2, LocalValues
  <2> QED BY <2>1, <2>2, <2>3
<1>4. Models!AnswersAreTheModels'
  BY <1>2, <1>3 DEF Models!AnswersAreTheModels, Models!Returned, Models!Content
<1> QED BY <1>2, <1>4 DEF ModelsInv, ReplyFits

LEMMA ModelsStep == ModelsInv /\ [Models!Next]_(Models!vars) => ModelsInv'
<1> SUFFICES ASSUME ModelsInv, [Models!Next]_(Models!vars) PROVE ModelsInv'
  OBVIOUS
<1> USE DEF ModelsInv, CallFields, ReplyFits, Models!AnswersAreTheModels, Models!Returned
<1>1. CASE Models!GetTransport \/ Models!Connect \/ Models!ServiceComesAndGoes
  BY <1>1 DEF Models!GetTransport, Models!Connect, Models!ServiceComesAndGoes
<1>2. ASSUME NEW kind \in Models!Kinds, Models!Ask(kind) PROVE ModelsInv'
  BY <1>2 DEF Models!Ask, Models!NoCall
<1>3. ASSUME NEW kind \in Models!Kinds, Models!AskUnconnected(kind) PROVE ModelsInv'
  BY <1>3 DEF Models!AskUnconnected, Models!NoCall, Models!Raised
<1>4. CASE Models!AtService
  <2>1. CASE call' = [call EXCEPT !.at = "back", !.reply = Models!Nothing]
    BY <1>4, <2>1 DEF Models!AtService
  <2>2. CASE call' = Models!Inference
    BY <1>4, <2>2 DEF Models!AtService, Models!Inference
  <2>3. CASE call' = [call EXCEPT !.at = "server"]
    BY <1>4, <2>3 DEF Models!AtService
  <2> QED BY <1>4, <2>1, <2>2, <2>3 DEF Models!AtService
<1>5. CASE Models!Blocked
  BY <1>5 DEF Models!Blocked, Models!Commands
<1>6. CASE Models!ServerReplies
  <2>1. PICK r \in Models!Replies :
          r.port = Models!Server(call.port) /\ call' = [call EXCEPT !.at = "back", !.reply = r]
    BY <1>6 DEF Models!ServerReplies
  <2>2. Models!Server(call.port) = call.port
    <3>1. call.port \in {Default, Second}
      BY <1>6, TransportAssumption DEF Models!ServerReplies
    <3> QED BY <3>1 DEF Models!Server
  <2> QED BY <1>6, <2>1, <2>2 DEF Models!ServerReplies
<1>7. CASE Models!CommandRuns
  BY <1>7 DEF Models!CommandRuns, Models!Commands
<1>8. CASE Models!ChatReturns
  BY <1>8, ChatReturnKeeps
<1>9. CASE Models!ProbeReturns
  BY <1>9 DEF Models!ProbeReturns
<1>10. CASE Models!CommandReturns
  BY <1>10 DEF Models!CommandReturns, Models!Commands
<1>11. CASE Models!GpusReturn
  BY <1>11 DEF Models!GpusReturn
<1>12. CASE UNCHANGED Models!vars
  BY <1>12 DEF Models!vars
<1> QED BY <1>1, <1>2, <1>3, <1>4, <1>5, <1>6, <1>7, <1>8, <1>9, <1>10, <1>11, <1>12 DEF Models!Next

\* An answer to a chat request, over the service or direct, is the good answer of the
\* model server that was asked, with its text, in either format (transport.py).
THEOREM ChatAnswersAreTheServers == Models!Spec => []AnswersAreTheModels
<1>1. ModelsInv => Models!AnswersAreTheModels
  BY DEF ModelsInv
<1> QED BY <1>1, ModelsInit, ModelsStep, PTL DEF Models!Spec, AnswersAreTheModels

-----------------------------------------------------------------------------
(* The tools that start and stop a server. *)

Servers == {p \in Pids : procs[p] \in {"starting", "listening"}}

\* Where a server's id is read first, or only: the PID file or the state file.
Home == IF service = "engine" THEN files.pid ELSE files.state.pid

ControlTypes ==
    /\ Nil \notin Pids /\ service \in {"engine", "stream"}
    /\ procs \in [Pids -> Control!Processes]
    /\ DOMAIN files = {"pid", "state"} /\ DOMAIN files.state = {"st", "pid"}
    /\ files.pid \in Pids \cup {Nil} /\ files.state.pid \in Pids \cup {Nil}

Command(c) ==
    /\ DOMAIN c = {"id", "tool", "kind", "todo", "seen", "new"}
    /\ c.tool \in Control!Tools /\ c.kind \in {"start", "stop"} /\ c.seen \in Pids \cup {Nil}

\* How far a command is: it has read its files; found that nothing runs; spawned
\* the server; written its PID file; found something to stop; stopped it.
Asked(c) ==
    /\ c.todo = Control!Steps(c.tool, c.kind) /\ c.new = Nil
    /\ Servers \subseteq {c.seen} /\ Servers \subseteq {Home}
Cleared(c) ==
    /\ c.kind = "start" /\ c.new = Nil /\ Servers = {}
    /\ c.todo \in {<<"truncate", "fill", "spawn", "clear", "pid", "truncate", "fill">>,
                   <<"fill", "spawn", "clear", "pid", "truncate", "fill">>,
                   <<"spawn", "clear", "pid", "truncate", "fill">>}
Spawned(c) ==
    /\ c.kind = "start" /\ c.new \in Pids /\ Servers \subseteq {c.new}
    /\ c.todo \in {<<"clear", "pid", "truncate", "fill">>, <<"pid", "truncate", "fill">>}
Named(c) ==
    /\ c.kind = "start" /\ c.new \in Pids /\ Servers \subseteq {c.new} /\ files.pid = c.new
    /\ c.todo \in {<<"truncate", "fill">>, <<"fill">>}
Stopping(c) ==
    /\ c.kind = "stop" /\ c.seen \in Pids /\ Servers \subseteq {c.seen}
    /\ c.todo = <<"signal", "truncate", "fill">>
Stopped(c) ==
    /\ c.kind = "stop" /\ Servers = {} /\ c.todo \in {<<"truncate", "fill">>, <<"fill">>}

UnderWay(c) ==
    /\ Command(c)
    /\ Asked(c) \/ Cleared(c) \/ Spawned(c) \/ Named(c) \/ Stopping(c) \/ Stopped(c)

\* Between commands the one server there may be is where its id is read.
ControlInv ==
    clean =>
      /\ ControlTypes
      /\ \A c, d \in cmds : c = d
      /\ \A c \in cmds : UnderWay(c)
      /\ cmds = {} => Servers \subseteq {Home}

LEMMA StepsOfCommands ==
  ASSUME service \in {"engine", "stream"}, NEW tool \in Control!Tools, NEW kind \in {"start", "stop"}
  PROVE  Control!Steps(tool, kind)
           = IF kind = "stop" THEN <<"check", "signal", "truncate", "fill">>
             ELSE IF service = "engine"
                  THEN <<"check", "truncate", "fill", "spawn", "clear", "pid", "truncate", "fill">>
                  ELSE <<"check", "spawn", "clear", "pid", "truncate", "fill">>
BY DEF Control!Steps, Control!Tools, Control!EngineStart, Control!EngineStop,
       Control!HarnessStreamStart, Control!HarnessStreamStop, Control!CtlStreamStart,
       Control!CtlStreamStop

\* A command's phase is told by the step it is at.
LEMMA PhaseOfStep ==
  ASSUME ControlTypes, NEW c, UnderWay(c)
  PROVE  /\ c.todo # << >>
         /\ Head(c.todo) = "check" => Asked(c)
         /\ Head(c.todo) = "spawn" => Cleared(c)
         /\ Head(c.todo) \in {"clear", "pid"} => Spawned(c)
         /\ Head(c.todo) = "signal" => Stopping(c)
         /\ Head(c.todo) \in {"truncate", "fill"} => Cleared(c) \/ Named(c) \/ Stopped(c)
<1>1. CASE Asked(c)
  <2>1. c.todo # << >> /\ Head(c.todo) = "check"
    BY <1>1, StepsOfCommands DEF Asked, ControlTypes, UnderWay, Command
  <2> QED BY <1>1, <2>1
<1>2. CASE Cleared(c)
  BY <1>2 DEF Cleared
<1>3. CASE Spawned(c)
  BY <1>3 DEF Spawned
<1>4. CASE Named(c)
  BY <1>4 DEF Named
<1>5. CASE Stopping(c)
  BY <1>5 DEF Stopping
<1>6. CASE Stopped(c)
  BY <1>6 DEF Stopped
<1> QED BY <1>1, <1>2, <1>3, <1>4, <1>5, <1>6 DEF UnderWay

\* The one command under way goes on, or ends with the server in its place.
LEMMA OneCommand ==
  ASSUME ControlInv, ControlTypes', NEW c \in cmds, NEW d, clean, Control!Replace(c, d),
         UnderWay(d)' \/ d.todo = << >>, d.todo = << >> => (Servers \subseteq {Home})'
  PROVE  ControlInv'
<1>1. cmds \ {c} = {}
  BY DEF ControlInv
<1>2. cmds' = IF d.todo = << >> THEN {} ELSE {d}
  BY <1>1 DEF Control!Replace
<1>3. CASE d.todo = << >>
  BY <1>2, <1>3 DEF ControlInv
<1>4. CASE d.todo # << >>
  BY <1>2, <1>4 DEF ControlInv
<1> QED BY <1>3, <1>4

LEMMA CommandEnds ==
  ASSUME ControlInv, ControlTypes', NEW c \in cmds, clean, Control!Ends(c),
         (Servers \subseteq {Home})'
  PROVE  ControlInv'
<1>1. cmds' = {}
  BY DEF ControlInv, Control!Ends
<1> QED BY <1>1 DEF ControlInv

LEMMA GiveKeeps == ASSUME ControlInv, clean, Control!Give PROVE ControlInv'
<1> SUFFICES ASSUME clean' PROVE ControlInv'
  BY DEF ControlInv
<1>1. PICK tool \in Control!Tools, kind \in {"start", "stop"} :
        /\ service = "engine" => tool = "harness"
        /\ cmds' = cmds \cup {[id |-> given, tool |-> tool, kind |-> kind,
                               todo |-> Control!Steps(tool, kind),
                               seen |-> Control!Seen(tool).pid, new |-> Nil]}
  BY DEF Control!Give
<1>0. PICK d : d = [id |-> given, tool |-> tool, kind |-> kind, todo |-> Control!Steps(tool, kind),
                 seen |-> Control!Seen(tool).pid, new |-> Nil]
  OBVIOUS
<1>2. cmds = {} /\ UNCHANGED <<service, procs, files>>
  BY DEF Control!Give
<1>3. cmds' = {d} /\ ControlTypes /\ Servers \subseteq {Home}
  BY <1>0, <1>1, <1>2 DEF ControlInv
<1>4. Servers \subseteq {Control!Seen(tool).pid}
  <2> SUFFICES ASSUME NEW p \in Servers PROVE p = Control!Seen(tool).pid
    OBVIOUS
  <2>1. p = Home /\ p # Nil
    BY <1>3 DEF Servers, ControlTypes
  <2>2. CASE service = "engine"
    BY <2>1, <2>2 DEF Home, Control!Seen, Control!EngineStatus, Control!Printed
  <2>3. CASE service = "stream"
    BY <2>1, <2>3 DEF Home, Control!Seen, Control!CtlStreamStatus, Control!HarnessStreamStatus,
                      Control!Printed, Control!Tools
  <2> QED BY <1>3, <2>2, <2>3 DEF ControlTypes
<1>5. ControlTypes' /\ Servers' = Servers /\ Home' = Home
  BY <1>2, <1>3 DEF ControlTypes, Servers, Home
<1>6. Control!Steps(tool, kind)' = Control!Steps(tool, kind)
  BY <1>2 DEF Control!Steps
<1>7. Command(d)'
  <2>1. Control!Seen(tool).pid \in Pids \cup {Nil}
    BY <1>3 DEF ControlTypes, Control!Seen, Control!EngineStatus, Control!CtlStreamStatus,
                Control!HarnessStreamStatus, Control!Printed, Control!Tools
  <2> QED BY <1>0, <2>1 DEF Command
<1>8. Asked(d)'
  <2>1. /\ d.tool = tool /\ d.kind = kind /\ d.todo = Control!Steps(tool, kind)
        /\ d.seen = Control!Seen(tool).pid /\ d.new = Nil
    BY <1>0
  <2> QED BY <1>3, <1>4, <1>5, <1>6, <2>1 DEF Asked
<1> QED BY <1>3, <1>5, <1>7, <1>8 DEF ControlInv, UnderWay

LEMMA CheckStartKeeps == ASSUME ControlInv, clean, Control!CheckStart PROVE ControlInv'
<1>1. PICK c \in cmds : /\ c.kind = "start" /\ Control!At(c, "check")
                        /\ IF Control!MayStart(c) THEN Control!Go(c) ELSE Control!Ends(c)
  BY DEF Control!CheckStart
<1>2. UNCHANGED <<service, procs, files, clean>>
  BY DEF Control!CheckStart
<1>3. ControlTypes /\ Command(c) /\ Asked(c)
  BY <1>1, PhaseOfStep DEF ControlInv, Control!At, UnderWay
<1>4. ControlTypes' /\ Servers' = Servers /\ Home' = Home
  BY <1>2, <1>3 DEF ControlTypes, Servers, Home
<1>5. CASE Control!MayStart(c)
  <2>0. PICK d : d = [c EXCEPT !.todo = Tail(@)]
    OBVIOUS
  <2>1. Servers = {}
    BY <1>3, <1>5 DEF Asked, Servers, Control!MayStart, Control!Alive, ControlTypes
  <2>2. c.todo = IF service = "engine"
                 THEN <<"check", "truncate", "fill", "spawn", "clear", "pid", "truncate", "fill">>
                 ELSE <<"check", "spawn", "clear", "pid", "truncate", "fill">>
    BY <1>1, <1>3, StepsOfCommands DEF Asked, Command, ControlTypes
  <2>3. /\ Command(d) /\ d.kind = "start" /\ d.new = Nil /\ d.todo = Tail(c.todo)
    BY <2>0, <1>1, <1>3 DEF Command, Asked
  <2>4. d.todo \in {<<"truncate", "fill", "spawn", "clear", "pid", "truncate", "fill">>,
                    <<"spawn", "clear", "pid", "truncate", "fill">>}
    BY <2>2, <2>3
  <2>5. Control!Replace(c, d)
    BY <2>0, <1>1, <1>5 DEF Control!Go
  <2>6. UnderWay(d)' /\ d.todo # << >>
    <3>1. d.todo # << >>
      BY <2>4
    <3>2. Command(d)'
      BY <1>4, <2>1, <2>3, <2>4 DEF Command
    <3>3. Cleared(d)'
      BY <1>4, <2>1, <2>3, <2>4 DEF Cleared
    <3> QED BY <3>1, <3>2, <3>3 DEF UnderWay
  <2> QED BY <1>4, <2>5, <2>6, OneCommand
<1>6. CASE ~Control!MayStart(c)
  BY <1>1, <1>3, <1>4, <1>6, CommandEnds DEF Asked
<1> QED BY <1>5, <1>6

LEMMA SpawnKeeps == ASSUME ControlInv, clean, Control!Spawn PROVE ControlInv'
<1>1. PICK c \in cmds, p \in Pids :
        /\ Control!At(c, "spawn") /\ procs' = [procs EXCEPT ![p] = "starting"]
        /\ Control!Replace(c, [c EXCEPT !.todo = Tail(@), !.new = p])
  BY DEF Control!Spawn
<1>2. UNCHANGED <<service, files, clean>>
  BY DEF Control!Spawn
<1>3. ControlTypes /\ Command(c) /\ Cleared(c)
  BY <1>1, PhaseOfStep DEF ControlInv, Control!At, UnderWay
<1>4. ControlTypes'
  BY <1>1, <1>2, <1>3 DEF ControlTypes, Control!Processes
<1>5. Servers' = {p}
  BY <1>1, <1>3 DEF Servers, Cleared, ControlTypes
<1>0. PICK d : d = [c EXCEPT !.todo = Tail(@), !.new = p]
  OBVIOUS
<1>6. c.todo = <<"spawn", "clear", "pid", "truncate", "fill">>
  BY <1>1, <1>3 DEF Cleared, Control!At
<1>7. Command(d) /\ d.kind = "start" /\ d.new = p /\ d.todo = Tail(c.todo)
  BY <1>0, <1>3 DEF Command, Cleared
<1>8. d.todo = <<"clear", "pid", "truncate", "fill">>
  BY <1>6, <1>7
<1>9. Control!Replace(c, d)
  BY <1>0, <1>1
<1>10. UnderWay(d)' /\ d.todo # << >>
  <2>1. d.todo # << >>
    BY <1>8
  <2>2. Command(d)'
    BY <1>5, <1>7, <1>8 DEF Command
  <2>3. Spawned(d)'
    BY <1>5, <1>7, <1>8 DEF Spawned
  <2> QED BY <2>1, <2>2, <2>3 DEF UnderWay
<1> QED BY <1>4, <1>9, <1>10, OneCommand

LEMMA WritePidKeeps == ASSUME ControlInv, clean, Control!WritePid PROVE ControlInv'
<1>1. PICK c \in cmds :
        /\ Control!At(c, "clear") \/ Control!At(c, "pid")
        /\ files' = [files EXCEPT !.pid = IF Control!At(c, "clear") THEN Nil ELSE c.new]
        /\ Control!Go(c)
  BY DEF Control!WritePid
<1>2. UNCHANGED <<service, procs, clean>>
  BY DEF Control!WritePid
<1>3. ControlTypes /\ Command(c) /\ Spawned(c)
  BY <1>1, PhaseOfStep DEF ControlInv, Control!At, UnderWay
<1>4. ControlTypes' /\ Servers' = Servers
  <2>1. c.new \in Pids
    BY <1>3 DEF Spawned
  <2> QED BY <1>1, <1>2, <1>3, <2>1 DEF ControlTypes, Servers
<1>0. PICK d : d = [c EXCEPT !.todo = Tail(@)]
  OBVIOUS
<1>5. Command(d) /\ d.kind = "start" /\ d.new = c.new /\ d.todo = Tail(c.todo)
  BY <1>0, <1>3 DEF Command, Spawned
<1>6. Control!Replace(c, d)
  BY <1>0, <1>1 DEF Control!Go
<1>7. CASE c.todo = <<"clear", "pid", "truncate", "fill">>
  <2>1. d.todo = <<"pid", "truncate", "fill">>
    BY <1>5, <1>7
  <2>2. UnderWay(d)' /\ d.todo # << >>
    <3>1. d.todo # << >>
      BY <2>1
    <3>2. Command(d)'
      BY <1>3, <1>4, <1>5, <2>1 DEF Command
    <3>3. Spawned(d)'
      BY <1>3, <1>4, <1>5, <2>1 DEF Spawned
    <3> QED BY <3>1, <3>2, <3>3 DEF UnderWay
  <2> QED BY <1>4, <1>6, <2>2, OneCommand
<1>8. CASE c.todo = <<"pid", "truncate", "fill">>
  <2>1. d.todo = <<"truncate", "fill">>
    BY <1>5, <1>8
  <2>2. files'.pid = c.new
    BY <1>1, <1>3, <1>8 DEF ControlTypes, Control!At
  <2>3. UnderWay(d)' /\ d.todo # << >>
    <3>1. d.todo # << >>
      BY <2>1
    <3>2. Command(d)'
      BY <1>3, <1>4, <1>5, <2>1, <2>2 DEF Command
    <3>3. Named(d)'
      BY <1>3, <1>4, <1>5, <2>1, <2>2 DEF Spawned, Named
    <3> QED BY <3>1, <3>2, <3>3 DEF UnderWay
  <2> QED BY <1>4, <1>6, <2>3, OneCommand
<1> QED BY <1>3, <1>7, <1>8 DEF Spawned

LEMMA WriteStateKeeps == ASSUME ControlInv, clean, Control!WriteState PROVE ControlInv'
<1>1. PICK c \in cmds :
        /\ Control!At(c, "truncate") \/ Control!At(c, "fill")
        /\ files' = [files EXCEPT !.state =
                       IF Control!At(c, "truncate") THEN Control!Absent ELSE Control!Written(c)]
        /\ Control!Go(c)
  BY DEF Control!WriteState
<1>2. UNCHANGED <<service, procs, clean>>
  BY DEF Control!WriteState
<1>3. ControlTypes /\ Command(c) /\ (Cleared(c) \/ Named(c) \/ Stopped(c))
  BY <1>1, PhaseOfStep DEF ControlInv, Control!At, UnderWay
<1>4. /\ DOMAIN Control!Absent = {"st", "pid"} /\ Control!Absent.pid = Nil
      /\ DOMAIN Control!Written(c) = {"st", "pid"} /\ Control!Written(c).pid \in Pids \cup {Nil}
  <2>1. c.new \in Pids \cup {Nil} \/ c.kind = "stop"
    BY <1>3 DEF Cleared, Named, Stopped
  <2>2. c.seen \in Pids \cup {Nil} /\ c.kind \in {"start", "stop"}
    BY <1>3 DEF Command
  <2> QED BY <2>1, <2>2 DEF Control!Absent, Control!Written
<1>5. ControlTypes' /\ Servers' = Servers /\ files'.pid = files.pid
  BY <1>1, <1>2, <1>3, <1>4 DEF ControlTypes, Servers
<1>0. PICK d : d = [c EXCEPT !.todo = Tail(@)]
  OBVIOUS
<1>6. Command(d) /\ d.kind = c.kind /\ d.new = c.new /\ d.todo = Tail(c.todo)
  BY <1>0, <1>3 DEF Command
<1>7. Control!Replace(c, d)
  BY <1>0, <1>1 DEF Control!Go
<1>8. CASE Cleared(c)
  <2>1. d.todo \in {<<"fill", "spawn", "clear", "pid", "truncate", "fill">>,
                    <<"spawn", "clear", "pid", "truncate", "fill">>}
    <3>1. CASE c.todo = <<"truncate", "fill", "spawn", "clear", "pid", "truncate", "fill">>
      BY <1>6, <3>1
    <3>2. CASE c.todo = <<"fill", "spawn", "clear", "pid", "truncate", "fill">>
      BY <1>6, <3>2
    <3>3. c.todo # <<"spawn", "clear", "pid", "truncate", "fill">>
      BY <1>1 DEF Control!At
    <3> QED BY <1>8, <3>1, <3>2, <3>3 DEF Cleared
  <2>2. UnderWay(d)' /\ d.todo # << >>
    <3>1. d.todo # << >>
      BY <2>1
    <3>2. Command(d)'
      BY <1>5, <1>6, <1>8, <2>1 DEF Command
    <3>3. Cleared(d)'
      BY <1>5, <1>6, <1>8, <2>1 DEF Cleared
    <3> QED BY <3>1, <3>2, <3>3 DEF UnderWay
  <2> QED BY <1>5, <1>7, <2>2, OneCommand
<1>9. CASE Named(c)
  <2>1. CASE c.todo = <<"truncate", "fill">>
    <3>1. d.todo = <<"fill">>
      BY <1>6, <2>1
    <3>2. UnderWay(d)' /\ d.todo # << >>
      <4>1. d.todo # << >>
        BY <3>1
      <4>2. Command(d)'
        BY <1>5, <1>6, <1>9, <3>1 DEF Command
      <4>3. Named(d)'
        BY <1>5, <1>6, <1>9, <3>1 DEF Named
      <4> QED BY <4>1, <4>2, <4>3 DEF UnderWay
    <3> QED BY <1>5, <1>7, <3>2, OneCommand
  <2>2. CASE c.todo = <<"fill">>
    <3>1. d.todo = << >>
      BY <1>6, <2>2
    <3>2. files'.state.pid = c.new
      BY <1>1, <1>3, <1>9, <2>2 DEF Named, Control!At, Control!Written, ControlTypes
    <3>3. (Servers \subseteq {Home})'
      BY <1>5, <1>9, <3>2 DEF Home, Named
    <3> QED BY <1>5, <1>7, <3>1, <3>3, OneCommand
  <2> QED BY <1>9, <2>1, <2>2 DEF Named
<1>10. CASE Stopped(c)
  <2>1. CASE c.todo = <<"truncate", "fill">>
    <3>1. d.todo = <<"fill">>
      BY <1>6, <2>1
    <3>2. UnderWay(d)' /\ d.todo # << >>
      <4>1. d.todo # << >>
        BY <3>1
      <4>2. Command(d)'
        BY <1>5, <1>6, <1>10, <3>1 DEF Command
      <4>3. Stopped(d)'
        BY <1>5, <1>6, <1>10, <3>1 DEF Stopped
      <4> QED BY <4>1, <4>2, <4>3 DEF UnderWay
    <3> QED BY <1>5, <1>7, <3>2, OneCommand
  <2>2. CASE c.todo = <<"fill">>
    <3>1. d.todo = << >>
      BY <1>6, <2>2
    <3> QED BY <1>5, <1>7, <1>10, <3>1, OneCommand DEF Stopped
  <2> QED BY <1>10, <2>1, <2>2 DEF Stopped
<1> QED BY <1>3, <1>8, <1>9, <1>10

LEMMA CheckStopKeeps == ASSUME ControlInv, clean, Control!CheckStop PROVE ControlInv'
<1>1. PICK c \in cmds :
        /\ c.kind = "stop" /\ Control!At(c, "check")
        /\ IF Control!Alive(c.seen) THEN Control!Go(c)
           ELSE IF Control!WritesAnyway(c)
                THEN Control!Replace(c, [c EXCEPT !.todo = Tail(Tail(@))])
                ELSE Control!Ends(c)
  BY DEF Control!CheckStop
<1>2. UNCHANGED <<service, procs, files, clean>>
  BY DEF Control!CheckStop
<1>3. ControlTypes /\ Command(c) /\ Asked(c)
  BY <1>1, PhaseOfStep DEF ControlInv, Control!At, UnderWay
<1>4. ControlTypes' /\ Servers' = Servers /\ Home' = Home
  BY <1>2, <1>3 DEF ControlTypes, Servers, Home
<1>5. c.todo = <<"check", "signal", "truncate", "fill">>
  BY <1>1, <1>3, StepsOfCommands DEF Asked, Command, ControlTypes
<1>6. CASE Control!Alive(c.seen)
  <2>0. PICK d : d = [c EXCEPT !.todo = Tail(@)]
    OBVIOUS
  <2>1. Command(d) /\ d.kind = "stop" /\ d.seen = c.seen /\ d.todo = Tail(c.todo)
    BY <2>0, <1>1, <1>3 DEF Command
  <2>2. Control!Replace(c, d)
    BY <2>0, <1>1, <1>6 DEF Control!Go
  <2>3. d.todo = <<"signal", "truncate", "fill">>
    BY <1>5, <2>1
  <2>4. Servers \subseteq {d.seen}
    BY <1>3, <2>1 DEF Asked
  <2>5. d.seen \in Pids
    BY <1>3, <1>6, <2>1 DEF Command, Control!Alive
  <2>6. UnderWay(d)' /\ d.todo # << >>
    <3>1. d.todo # << >>
      BY <2>3
    <3>2. Command(d)'
      BY <1>4, <2>1, <2>3, <2>4, <2>5 DEF Command
    <3>3. Stopping(d)'
      BY <1>4, <2>1, <2>3, <2>4, <2>5 DEF Stopping
    <3> QED BY <3>1, <3>2, <3>3 DEF UnderWay
  <2> QED BY <1>4, <2>2, <2>6, OneCommand
<1>7. CASE ~Control!Alive(c.seen)
  <2>1. Servers = {}
    BY <1>3, <1>7 DEF Asked, Servers, Control!Alive, ControlTypes
  <2>2. CASE Control!WritesAnyway(c)
    <3>0. PICK d : d = [c EXCEPT !.todo = Tail(Tail(@))]
      OBVIOUS
    <3>1. Command(d) /\ d.kind = "stop" /\ d.todo = Tail(Tail(c.todo))
      BY <3>0, <1>1, <1>3 DEF Command
    <3>2. Control!Replace(c, d)
      BY <3>0, <1>1, <1>7, <2>2
    <3>3. d.todo = <<"truncate", "fill">>
      BY <1>5, <3>1
    <3>4. UnderWay(d)' /\ d.todo # << >>
      <4>1. d.todo # << >>
        BY <3>3
      <4>2. Command(d)'
        BY <1>4, <2>1, <3>1, <3>3 DEF Command
      <4>3. Stopped(d)'
        BY <1>4, <2>1, <3>1, <3>3 DEF Stopped
      <4> QED BY <4>1, <4>2, <4>3 DEF UnderWay
    <3> QED BY <1>4, <3>2, <3>4, OneCommand
  <2>3. CASE ~Control!WritesAnyway(c)
    BY <1>1, <1>4, <1>7, <2>1, <2>3, CommandEnds
  <2> QED BY <2>2, <2>3
<1> QED BY <1>6, <1>7

LEMMA SignalKeeps == ASSUME ControlInv, clean, Control!Signal PROVE ControlInv'
<1>1. PICK c \in cmds :
        /\ Control!At(c, "signal")
        /\ procs' = [procs EXCEPT ![c.seen] = Control!Signalled(c.seen)]
        /\ Control!Ends(c) \/ Control!Go(c)
  BY DEF Control!Signal
<1>2. UNCHANGED <<service, files, clean>>
  BY DEF Control!Signal
<1>3. ControlTypes /\ Command(c) /\ Stopping(c)
  BY <1>1, PhaseOfStep DEF ControlInv, Control!At, UnderWay
<1>4. c.seen \in Pids /\ Control!Signalled(c.seen) \in Control!Processes \ {"starting", "listening"}
  BY <1>3 DEF Stopping, Control!Signalled, Control!Processes, ControlTypes
<1>5. ControlTypes'
  BY <1>1, <1>2, <1>3, <1>4 DEF ControlTypes
<1>6. Servers' = {}
  BY <1>1, <1>3, <1>4 DEF Servers, Stopping, ControlTypes
<1>7. CASE Control!Ends(c)
  BY <1>5, <1>6, <1>7, CommandEnds
<1>8. CASE Control!Go(c)
  <2>0. PICK d : d = [c EXCEPT !.todo = Tail(@)]
    OBVIOUS
  <2>1. Command(d) /\ d.kind = "stop" /\ d.todo = Tail(c.todo)
    BY <2>0, <1>3 DEF Command, Stopping
  <2>2. Control!Replace(c, d)
    BY <2>0, <1>8 DEF Control!Go
  <2>3. d.todo = <<"truncate", "fill">>
    BY <1>3, <2>1 DEF Stopping
  <2>4. UnderWay(d)' /\ d.todo # << >>
    <3>1. d.todo # << >>
      BY <2>3
    <3>2. Command(d)'
      BY <1>6, <2>1, <2>3 DEF Command
    <3>3. Stopped(d)'
      BY <1>6, <2>1, <2>3 DEF Stopped
    <3> QED BY <3>1, <3>2, <3>3 DEF UnderWay
  <2> QED BY <1>5, <2>2, <2>4, OneCommand
<1> QED BY <1>1, <1>7, <1>8

\* Servers only go away by themselves, and strangers are none.
LEMMA ProcessesKeep ==
  ASSUME ControlInv, clean, Control!ServerStep \/ Control!ServerDies \/ Control!Stranger
  PROVE  ControlInv'
<1>1. UNCHANGED <<service, files, cmds, clean>>
  BY DEF Control!ServerStep, Control!ServerDies, Control!Stranger
<1>2. ControlTypes
  BY DEF ControlInv
<1>3. \E p \in Pids, v \in Control!Processes :
        /\ procs' = [procs EXCEPT ![p] = v]
        /\ v \in {"starting", "listening"} => procs[p] \in {"starting", "listening"}
  <2>1. CASE Control!ServerStep
    <3>1. PICK p \in Pids :
            procs' = [procs EXCEPT ![p] =
                        CASE @ = "starting" -> IF Control!PortTaken THEN "free" ELSE "listening"
                          [] @ = "told" -> "closing" [] @ = "closing" -> "free" [] OTHER -> @]
      BY <2>1 DEF Control!ServerStep
    <3> DEFINE v == CASE procs[p] = "starting" -> IF Control!PortTaken THEN "free" ELSE "listening"
                      [] procs[p] = "told" -> "closing" [] procs[p] = "closing" -> "free"
                      [] OTHER -> procs[p]
    <3>2. procs' = [procs EXCEPT ![p] = v]
      BY <3>1
    <3>3. v \in Control!Processes
      BY <1>2 DEF ControlTypes, Control!Processes
    <3>4. v \in {"starting", "listening"} => procs[p] \in {"starting", "listening"}
      BY <1>2 DEF ControlTypes, Control!Processes
    <3> HIDE DEF v
    <3> QED BY <3>2, <3>3, <3>4
  <2>2. CASE Control!ServerDies
    BY <2>2 DEF Control!ServerDies, Control!Processes
  <2>3. CASE Control!Stranger
    BY <2>3 DEF Control!Stranger, Control!Processes
  <2> QED BY <2>1, <2>2, <2>3
<1>4. ControlTypes' /\ Servers' \subseteq Servers
  BY <1>1, <1>2, <1>3 DEF ControlTypes, Servers
<1>5. Home' = Home /\ files' = files
  BY <1>1 DEF Home
<1>6. ASSUME NEW c \in cmds' PROVE UnderWay(c)'
  <2>1. UnderWay(c)
    BY <1>1, <1>6 DEF ControlInv
  <2>2. Command(c)' /\ Control!Steps(c.tool, c.kind)' = Control!Steps(c.tool, c.kind)
    BY <1>1, <2>1 DEF UnderWay, Command, Control!Steps
  <2> QED BY <1>4, <1>5, <2>1, <2>2
          DEF UnderWay, Asked, Cleared, Spawned, Named, Stopping, Stopped
<1> QED BY <1>1, <1>4, <1>5, <1>6 DEF ControlInv

LEMMA ControlStep == ControlInv /\ [Control!Next]_(Control!vars) => ControlInv'
<1> SUFFICES ASSUME ControlInv, [Control!Next]_(Control!vars) PROVE ControlInv'
  OBVIOUS
<1>1. CASE UNCHANGED Control!vars
  BY <1>1 DEF Control!vars, ControlInv, ControlTypes, UnderWay, Command, Asked, Cleared, Spawned,
              Named, Stopping, Stopped, Servers, Home, Control!Steps
<1>2. CASE ~clean
  <2>1. CASE Control!Next
    BY <1>2, <2>1 DEF ControlInv, Control!Next, Control!Give, Control!CheckStart, Control!Spawn,
         Control!WritePid, Control!WriteState, Control!CheckStop, Control!Signal,
         Control!Interrupt, Control!ServerStep, Control!ServerDies, Control!Stranger
  <2> QED BY <1>1, <2>1
<1>3. CASE clean /\ Control!Next
  <2>1. CASE Control!Interrupt
    BY <2>1 DEF Control!Interrupt, ControlInv
  <2> QED BY <1>3, <2>1, GiveKeeps, CheckStartKeeps, SpawnKeeps, WritePidKeeps, WriteStateKeeps,
             CheckStopKeeps, SignalKeeps, ProcessesKeep DEF Control!Next
<1> QED BY <1>1, <1>2, <1>3

LEMMA ServersShown == Nil \notin Pids /\ ControlInv => Control!ServersAreInReach
<1> SUFFICES ASSUME ControlInv, clean PROVE Control!ServersAreInReach
  BY DEF Control!ServersAreInReach
<1>1. ControlTypes
  BY DEF ControlInv
<1>2. \E x : Servers \subseteq {x}
  <2>1. CASE cmds = {}
    BY <2>1 DEF ControlInv
  <2>2. CASE cmds # {}
    <3>1. PICK c \in cmds : UnderWay(c)
      BY <2>2 DEF ControlInv
    <3>2. Servers \subseteq {c.seen} \/ Servers \subseteq {c.new}
      BY <3>1 DEF UnderWay, Asked, Cleared, Spawned, Named, Stopping, Stopped
    <3> QED BY <3>2
  <2> QED BY <2>1, <2>2
<1>3. Control!Cardinality(Servers) <= 1
  <2>1. PICK x : Servers \subseteq {x}
    BY <1>2
  <2>2. Cardinality({x}) = 1 /\ IsFiniteSet({x})
    BY FS_Singleton
  <2>3. Cardinality(Servers) <= 1
    BY <2>1, <2>2, FS_Subset
  <2> QED BY <2>3 DEF Cardinality, Control!Cardinality
<1>4. ASSUME cmds = {}, NEW p \in Servers
      PROVE  /\ \A tool \in Control!Tools : Control!Seen(tool).pid = p /\ Control!Seen(tool).running
             /\ Control!CtlStatus.pid = p
  <2>1. p = Home /\ p # Nil /\ p \in Pids /\ Control!Alive(p)
    BY <1>1, <1>4 DEF ControlInv, Servers, ControlTypes, Control!Alive
  <2>2. CASE service = "engine"
    BY <2>1, <2>2 DEF Home, Control!Seen, Control!CtlStatus, Control!EngineStatus, Control!Printed
  <2>3. CASE service = "stream"
    BY <2>1, <2>3 DEF Home, Control!Seen, Control!CtlStatus, Control!CtlStreamStatus,
                      Control!HarnessStreamStatus, Control!Printed, Control!Tools
  <2> QED BY <1>1, <2>2, <2>3 DEF ControlTypes
<1> QED BY <1>3, <1>4 DEF Control!ServersAreInReach, Servers

\* As long as commands neither overlap nor are killed there is at most one server
\* that nobody told to stop, and between commands every tool shows and reaches it,
\* for any number of process ids, commands and strangers that take over an id.
THEOREM ServersStayInReach ==
  ASSUME Nil \notin Pids
  PROVE  Control!Spec => []ServersAreInReach
<1>1. Control!Init => ControlInv
  <2> SUFFICES ASSUME Control!Init PROVE ControlInv
    OBVIOUS
  <2>1. ControlTypes
    BY DEF Control!Init, ControlTypes, Control!Processes, Control!Absent
  <2>2. Servers = {} /\ cmds = {}
    BY DEF Control!Init, Servers
  <2> QED BY <2>1, <2>2 DEF ControlInv
<1>2. ControlInv => Control!ServersAreInReach
  BY ServersShown
<1> QED BY <1>1, <1>2, ControlStep, PTL DEF Control!Spec, ServersAreInReach

-----------------------------------------------------------------------------
(* The recommendation of the PCIe optimizer. *)

\* A model that was read, of any number of layers, and what was asked for.
ModelOf(n) == model \in [1 .. n -> [base : Nat, router : Nat, exps : Nat, shexp : Nat]]
CalcTypes == (\E n \in Nat : ModelOf(n)) /\ query \in [vram : Int, kv : Int]
CalcInv == CalcTypes /\ RecommendedFits

\* The sum over a list of natural numbers is one.
LEMMA CalcTotal ==
  ASSUME NEW n \in Nat, NEW f \in [1 .. n -> Nat]
  PROVE  Calculators!Total(f) \in Nat
<1>1. f \in Seq(Nat)
  BY SeqDef
<1>2. Total(f) \in Nat
  BY <1>1, TotalNat
<1> QED BY <1>2 DEF Total, Calculators!Total

\* A model file, of tensors of no negative size, is read as one.
LEMMA ModelIsRead ==
  ASSUME NEW file \in Calculators!Files
  PROVE  Calculators!Analyzed(file) \in [1 .. 4 -> [base : Nat, router : Nat, exps : Nat, shexp : Nat]]
<1>1. DOMAIN Calculators!Tensors = 1 .. 9
  BY DEF Calculators!Tensors
<1>2. Sizes \subseteq Nat
  BY CalculatorsAssumption
<1>3. DOMAIN file = 1 .. 4 /\ \A i \in 1 .. 4 : file[i] \in [1 .. 9 -> Nat]
  BY <1>1, <1>2 DEF Calculators!Files
<1>4. ASSUME NEW i \in 1 .. 4, NEW b
      PROVE  Calculators!Total([t \in DOMAIN Calculators!Tensors |->
               IF Calculators!Bucket(Calculators!Tensors[t]) = b THEN file[i][t] ELSE 0]) \in Nat
  <2> DEFINE f == [t \in 1 .. 9 |->
                     IF Calculators!Bucket(Calculators!Tensors[t]) = b THEN file[i][t] ELSE 0]
  <2>1. f \in [1 .. 9 -> Nat]
    BY <1>3
  <2> HIDE DEF f
  <2>2. Calculators!Total(f) \in Nat
    BY <2>1, CalcTotal
  <2> QED BY <1>1, <2>2 DEF f
<1> DEFINE sum(i, b) == Calculators!Total([t \in DOMAIN Calculators!Tensors |->
               IF Calculators!Bucket(Calculators!Tensors[t]) = b THEN file[i][t] ELSE 0])
<1>5. Calculators!Analyzed(file) = [i \in 1 .. 4 |-> [b \in {"base", "router", "exps", "shexp"} |-> sum(i, b)]]
  BY <1>3 DEF Calculators!Analyzed
<1>6. \A i \in 1 .. 4, b \in {"base", "router", "exps", "shexp"} : sum(i, b) \in Nat
  BY <1>4
<1> HIDE DEF sum
<1> QED BY <1>5, <1>6

LEMMA CalcInit == Calculators!Init => CalcInv
<1> SUFFICES ASSUME Calculators!Init PROVE CalcInv
  OBVIOUS
<1>1. \E n \in Nat : ModelOf(n)
  BY ModelIsRead DEF Calculators!Init, ModelOf
<1>2. query \in [vram : Int, kv : Int]
  BY CalculatorsAssumption DEF Calculators!Init
<1>3. RecommendedFits
  BY CalculatorsAssumption DEF Calculators!Init, RecommendedFits, Calculators!RecommendedFits
<1> QED BY <1>1, <1>2, <1>3 DEF CalcInv, CalcTypes

\* The layers, and the sums over some of them.
LEMMA LayerSums ==
  ASSUME CalcTypes
  PROVE  /\ Calculators!Moe \in Seq(Calculators!Layers) /\ Calculators!K \in Nat
         /\ Calculators!Base \in Nat /\ Calculators!RouterTotal \in Nat
         /\ \A is \in Seq(Calculators!Layers) : Calculators!SumOver(is) \in Nat
         /\ Calculators!SumOver(<<>>) = 0
<1>1. PICK n \in Nat : ModelOf(n)
  BY DEF CalcTypes
<1>2. Calculators!Layers = 1 .. n
      /\ \A i \in 1 .. n : /\ model[i].base \in Nat /\ model[i].router \in Nat
                           /\ model[i].exps \in Nat /\ model[i].shexp \in Nat
  BY <1>1 DEF ModelOf, Calculators!Layers
<1>3. Calculators!Moe \in Seq(1 .. n)
  <2> DEFINE s == [i \in 1 .. n |-> i]
             T == {i \in 1 .. n : Calculators!Expert(i) > 0}
  <2>1. s \in Seq(1 .. n)
    BY SeqDef
  <2> HIDE DEF s, T
  <2>2. Among(s, T) \in Seq(1 .. n)
    BY <2>1, AmongType
  <2>3. Calculators!Moe = Calculators!Among(s, T)
    BY <1>2 DEF Calculators!Moe, s, T
  <2>4. Calculators!Among(s, T) = Among(s, T)
    BY DEF Calculators!Among, Among
  <2> QED BY <2>2, <2>3, <2>4
<1>4. Calculators!K \in Nat
  BY <1>3 DEF Calculators!K
<1>5. Calculators!Base \in Nat
  <2> DEFINE f == [i \in 1 .. n |-> model[i].base + model[i].router]
  <2>1. f \in [1 .. n -> Nat]
    BY <1>2
  <2>2. Calculators!Base = Calculators!Total(f)
    BY <1>2 DEF Calculators!Base
  <2> HIDE DEF f
  <2> QED BY <2>1, <2>2, CalcTotal
<1>6. Calculators!RouterTotal \in Nat
  <2> DEFINE f == [i \in 1 .. n |-> model[i].router]
  <2>1. f \in [1 .. n -> Nat]
    BY <1>2
  <2>2. Calculators!RouterTotal = Calculators!Total(f)
    BY <1>2 DEF Calculators!RouterTotal
  <2> HIDE DEF f
  <2> QED BY <2>1, <2>2, CalcTotal
<1>7. ASSUME NEW is \in Seq(1 .. n) PROVE Calculators!SumOver(is) \in Nat
  <2> DEFINE f == [k \in 1 .. Len(is) |-> Calculators!Expert(is[k])]
  <2>1. DOMAIN is = 1 .. Len(is) /\ Len(is) \in Nat /\ \A k \in 1 .. Len(is) : is[k] \in 1 .. n
    BY ElementOfSeq
  <2>2. f \in [1 .. Len(is) -> Nat]
    BY <1>2, <2>1 DEF Calculators!Expert
  <2>3. Calculators!SumOver(is) = Calculators!Total(f)
    BY <2>1 DEF Calculators!SumOver
  <2> HIDE DEF f
  <2> QED BY <2>1, <2>2, <2>3, CalcTotal
<1>8. Calculators!SumOver(<<>>) = 0
  <2> DEFINE f == [k \in DOMAIN <<>> |-> Calculators!Expert(<<>>[k])]
  <2>1. f = <<>>
    OBVIOUS
  <2> HIDE DEF f
  <2>2. Calculators!Total(f) = 0
    BY <2>1, TotalEmpty DEF Total, Calculators!Total
  <2> QED BY <2>2 DEF Calculators!SumOver, f
<1> QED BY <1>2, <1>3, <1>4, <1>5, <1>6, <1>7, <1>8

\* The number of layers that fit is one of the layers there are.
LEMMA FittingBounded ==
  ASSUME CalcTypes, NEW avail \in Int, NEW total \in Nat
  PROVE  Calculators!Fitting(avail, total) \in 0 .. Calculators!K
<1>1. Calculators!K \in Nat
  BY LayerSums
<1>2. \A m \in Int : Calculators!Clip(m) \in 0 .. Calculators!K
  BY <1>1 DEF Calculators!Clip
<1>3. CASE total = 0 \/ avail < 0
  BY <1>1, <1>3 DEF Calculators!Fitting
<1>4. CASE ~(total = 0 \/ avail < 0)
  <2> DEFINE product == avail * Calculators!K
  <2>1. product \in Int
    BY <1>1
  <2> HIDE DEF product
  <2>2. product \div total \in Int
    BY <1>4, <2>1
  <2>3. Calculators!Fitting(avail, total) = Calculators!Clip(product \div total)
    BY <1>4 DEF Calculators!Fitting, product
  <2> QED BY <1>2, <2>2, <2>3
<1> QED BY <1>3, <1>4

\* A strategy's need of the GPU, and whether it fits, follow from the layers it
\* keeps there.
Placed(r) == \E gpu \in Seq(Calculators!Layers) :
  /\ r.used = Calculators!Base + Calculators!SumOver(gpu) + query.kv
  /\ r.fits = (query.vram - r.used > 0)

LEMMA ResultIsPlaced ==
  ASSUME NEW name, NEW gpu \in Seq(Calculators!Layers), NEW cpu, NEW routing
  PROVE  Placed(Calculators!Result(name, gpu, cpu, routing))
BY DEF Placed, Calculators!Result

\* What the hybrid strategy keeps on the GPU are layers of the model.
LEMMA HybridIsPlaced ==
  ASSUME CalcTypes
  PROVE  Placed(Calculators!Hybrid)
<1> DEFINE L == Calculators!Layers
           moe == Calculators!Moe
           target == Calculators!SumOver(Calculators!Prefix(Calculators!Fitting(Calculators!Available, Calculators!ExpertTotal)))
           Takes(t, n) == Calculators!SumOver(t) + Calculators!Expert(moe[n]) <= target
           move == [i \in 1 .. Calculators!K |-> [t \in Seq(L) |->
                      IF Takes(t, i) THEN Append(t, moe[i]) ELSE t]]
           taken == CHOOSE taken :
             taken = [n \in 0 .. Calculators!K |->
               IF n = 0 THEN <<>>
               ELSE IF Takes(taken[n - 1], n) THEN Append(taken[n - 1], moe[n]) ELSE taken[n - 1]]
<1>1. moe \in Seq(L) /\ Calculators!K = Len(moe) /\ Calculators!K \in Nat
  BY LayerSums DEF Calculators!K
<1>2. \A i \in 1 .. Calculators!K : moe[i] \in L
  BY <1>1, ElementOfSeq
<1> HIDE DEF moe, L, target, Takes
<1>3. move \in [1 .. Calculators!K -> [Seq(L) -> Seq(L)]] /\ <<>> \in Seq(L)
  BY <1>2
<1>4. PICK f \in [0 .. Calculators!K -> Seq(L)] :
        f[0] = <<>> /\ \A i \in 1 .. Calculators!K : f[i] = move[i][f[i - 1]]
  <2> HIDE DEF move, taken
  <2>1. \E f : IsLoop(f, Calculators!K, Seq(L), <<>>, move)
    BY <1>1, <1>3, Recursion
  <2> QED BY <2>1 DEF IsLoop
<1>5. \A i \in 1 .. Calculators!K :
        f[i] = IF Takes(f[i - 1], i) THEN Append(f[i - 1], moe[i]) ELSE f[i - 1]
  <2> TAKE i \in 1 .. Calculators!K
  <2>1. f[i - 1] \in Seq(L)
    BY <1>1
  <2> QED BY <1>4, <2>1
<1>6. f = [n \in 0 .. Calculators!K |->
             IF n = 0 THEN <<>>
             ELSE IF Takes(f[n - 1], n) THEN Append(f[n - 1], moe[n]) ELSE f[n - 1]]
  <2> HIDE DEF move, taken
  <2>1. \A n \in 0 .. Calculators!K : f[n] =
             IF n = 0 THEN <<>>
             ELSE IF Takes(f[n - 1], n) THEN Append(f[n - 1], moe[n]) ELSE f[n - 1]
    <3> TAKE n \in 0 .. Calculators!K
    <3>1. CASE n = 0
      BY <1>4, <3>1
    <3>2. CASE n \in 1 .. Calculators!K
      <4>1. n # 0
        BY <3>2
      <4> QED BY <1>5, <3>2, <4>1, Zenon
    <3> QED BY <1>1, <3>1, <3>2
  <2> QED BY <2>1
<1>7. taken = [n \in 0 .. Calculators!K |->
               IF n = 0 THEN <<>>
               ELSE IF Takes(taken[n - 1], n) THEN Append(taken[n - 1], moe[n]) ELSE taken[n - 1]]
  BY <1>6, Zenon
<1>8. taken[Calculators!K] \in Seq(L)
  <2> HIDE DEF taken, move
  <2> DEFINE N == {n \in Nat : n <= Calculators!K => taken[n] \in Seq(L)}
  <2>0. \A n \in 0 .. Calculators!K : taken[n] =
          IF n = 0 THEN <<>>
          ELSE IF Takes(taken[n - 1], n) THEN Append(taken[n - 1], moe[n]) ELSE taken[n - 1]
    BY <1>7, Zenon
  <2>1. 0 \in N
    <3>1. taken[0] = <<>>
      BY <1>1, <2>0
    <3> QED BY <1>3, <3>1
  <2>2. ASSUME NEW n \in Nat, n \in N PROVE n + 1 \in N
    <3> SUFFICES ASSUME n + 1 <= Calculators!K PROVE taken[n + 1] \in Seq(L)
      OBVIOUS
    <3>1. taken[n] \in Seq(L) /\ moe[n + 1] \in L
      BY <1>1, <1>2, <2>2
    <3>2. taken[n + 1] = IF Takes(taken[n], n + 1) THEN Append(taken[n], moe[n + 1]) ELSE taken[n]
      BY <1>1, <2>0
    <3> QED BY <3>1, <3>2
  <2> HIDE DEF N
  <2>3. Nat \subseteq N
    BY <2>1, <2>2, Induction
  <2> QED BY <1>1, <2>3 DEF N
<1>9. \E cpu, routing :
        Calculators!Hybrid = Calculators!Result("hybrid", taken[Calculators!K], cpu, routing)
  BY Zenon DEF Calculators!Hybrid, taken, moe, Takes, target
<1> HIDE DEF taken, move
<1> QED BY <1>8, <1>9, ResultIsPlaced DEF L

\* What main compares: strategies placed on the layers, the naive one among them.
LEMMA EvaluatedAre ==
  ASSUME CalcTypes
  PROVE  \E n \in Nat \ {0} :
           /\ DOMAIN Calculators!Evaluated = 1 .. n
           /\ \A i \in 1 .. n : Placed(Calculators!Evaluated[i])
           /\ \E i \in 1 .. n : Calculators!Evaluated[i] = Calculators!Naive
<1> DEFINE ncpu == Calculators!K - Calculators!Fitting(Calculators!Available, Calculators!ExpertTotal)
           S == {Calculators!FullGpu, Calculators!NCpuMoe(ncpu), Calculators!Hybrid,
                 Calculators!Naive, Calculators!Smart, Calculators!Pipelined}
           first == <<Calculators!FullGpu>>
           mixed == IF Calculators!K > 0 /\ ncpu > 0
                    THEN <<Calculators!NCpuMoe(ncpu), Calculators!Hybrid>> ELSE <<>>
           rest == <<Calculators!Naive, Calculators!Smart, Calculators!Pipelined>>
<1>1. /\ Calculators!Moe \in Seq(Calculators!Layers) /\ Calculators!K \in Nat
      /\ Calculators!Base \in Nat /\ Calculators!RouterTotal \in Nat
      /\ \A is \in Seq(Calculators!Layers) : Calculators!SumOver(is) \in Nat
  BY LayerSums
<1>2. \A m \in 0 .. Calculators!K : Calculators!Prefix(m) \in Seq(Calculators!Layers)
  BY <1>1, SubSeqProperties DEF Calculators!Prefix, Calculators!K
<1>3. Calculators!Available \in Int /\ Calculators!ExpertTotal \in Nat
  BY <1>1, CalculatorsAssumption DEF CalcTypes, Calculators!Available, Calculators!ExpertTotal
<1>4. /\ Calculators!Fitting(Calculators!Available, Calculators!ExpertTotal) \in 0 .. Calculators!K
      /\ Calculators!Fitting(Calculators!Available, Calculators!ExpertTotal + Calculators!RouterTotal)
           \in 0 .. Calculators!K
  <2>1. Calculators!ExpertTotal + Calculators!RouterTotal \in Nat
    BY <1>1, <1>3
  <2> QED BY <1>3, <2>1, FittingBounded
<1>5. Placed(Calculators!FullGpu) /\ Placed(Calculators!Naive)
  <2>1. <<>> \in Seq(Calculators!Layers)
    OBVIOUS
  <2>2. Placed(Calculators!FullGpu)
    BY <1>1, ResultIsPlaced DEF Calculators!FullGpu
  <2>3. Placed(Calculators!Naive)
    BY <2>1, ResultIsPlaced DEF Calculators!Naive
  <2> QED BY <2>2, <2>3
<1>6. Placed(Calculators!NCpuMoe(ncpu))
  <2>1. Calculators!Greater(0, Calculators!K - ncpu) \in 0 .. Calculators!K
    BY <1>1, <1>4 DEF Calculators!Greater
  <2> QED BY <1>2, <2>1, ResultIsPlaced DEF Calculators!NCpuMoe
<1>7. Placed(Calculators!Hybrid)
  BY HybridIsPlaced
<1>8. Placed(Calculators!Smart)
  BY <1>2, <1>4, ResultIsPlaced DEF Calculators!Smart
<1>9. Placed(Calculators!Pipelined)
  <2>1. Calculators!Pipelined.used = Calculators!Smart.used /\ Calculators!Pipelined.fits = Calculators!Smart.fits
    BY DEF Calculators!Pipelined, Calculators!Smart, Calculators!Result
  <2> QED BY <1>8, <2>1 DEF Placed
<1>10. \A r \in S : Placed(r)
  BY <1>5, <1>6, <1>7, <1>8, <1>9
<1>11. Calculators!Evaluated = (first \o mixed) \o rest
  BY DEF Calculators!Evaluated
<1>12. first \in Seq(S) /\ mixed \in Seq(S) /\ rest \in Seq(S) /\ Len(first) = 1 /\ Len(rest) = 3
       /\ rest[1] = Calculators!Naive
  <2>1. Calculators!FullGpu \in S /\ Calculators!NCpuMoe(ncpu) \in S /\ Calculators!Hybrid \in S
        /\ Calculators!Naive \in S /\ Calculators!Smart \in S /\ Calculators!Pipelined \in S
    OBVIOUS
  <2> HIDE DEF S, ncpu
  <2> QED BY <2>1
<1> HIDE DEF first, mixed, rest, S, ncpu
<1>13. first \o mixed \in Seq(S) /\ Len(first \o mixed) \in Nat
  BY <1>12, ConcatProperties
<1> DEFINE all == (first \o mixed) \o rest
           n == Len(first \o mixed) + 3
<1>14. all \in Seq(S) /\ Len(all) = n /\ all[Len(first \o mixed) + 1] = rest[1]
  <2> DEFINE head == first \o mixed
  <2>1. head \in Seq(S) /\ Len(head) \in Nat
    BY <1>13
  <2> HIDE DEF head
  <2>0. rest \in Seq(S) /\ Len(rest) = 3
    BY <1>12
  <2>2. head \o rest \in Seq(S) /\ Len(head \o rest) = Len(head) + Len(rest)
    BY <2>0, <2>1, ConcatProperties
  <2>3. (head \o rest)[Len(head) + 1] = rest[1]
    <3>1. \A i \in 1 .. Len(head) + Len(rest) :
             (head \o rest)[i] = IF i <= Len(head) THEN head[i] ELSE rest[i - Len(head)]
      BY <2>0, <2>1, ConcatProperties, Zenon
    <3>2. /\ Len(head) + 1 \in 1 .. Len(head) + Len(rest)
          /\ ~(Len(head) + 1 <= Len(head)) /\ (Len(head) + 1) - Len(head) = 1
      BY <2>0, <2>1
    <3>3. (head \o rest)[Len(head) + 1] = rest[(Len(head) + 1) - Len(head)]
      BY <3>1, <3>2, Zenon
    <3> QED BY <3>2, <3>3, Zenon
  <2> QED BY <2>0, <2>2, <2>3 DEF head
<1>15. DOMAIN all = 1 .. n /\ \A i \in 1 .. n : all[i] \in S
  BY <1>14, ElementOfSeq
<1>16. n \in Nat \ {0} /\ Len(first \o mixed) + 1 \in 1 .. n
  BY <1>13
<1>17. (\A i \in 1 .. n : Placed(all[i])) /\ \E i \in 1 .. n : all[i] = Calculators!Naive
  BY <1>10, <1>12, <1>14, <1>15, <1>16
<1> QED BY <1>11, <1>15, <1>16, <1>17

\* The scores: what does not fit is worth 30 at most, and the naive strategy, if
\* it fits, 45 at least.
LEMMA Scores ==
  ASSUME CalcTypes, NEW r, Placed(r), NEW ms \in Int, NEW gb \in Int
  PROVE  /\ Calculators!Score(r, ms, gb) \in Int
         /\ ~r.fits => Calculators!Score(r, ms, gb) <= 30
         /\ r.fits /\ r.routing = 0 => Calculators!Score(r, ms, gb) >= 45
<1>1. /\ Calculators!VramScore(r) \in {0, 10, 18, 20, 25}
      /\ r.fits => Calculators!VramScore(r) \in {10, 18, 20, 25}
  BY DEF Calculators!VramScore
<1>2. Calculators!LatencyScore(ms) \in 5 .. 25
  BY DEF Calculators!LatencyScore
<1>3. Calculators!RamScore(gb) \in 5 .. 25
  BY DEF Calculators!RamScore
<1>4. /\ Calculators!RoutingScore(r.routing) \in 5 .. 25
      /\ r.routing = 0 => Calculators!RoutingScore(r.routing) = 25
  <2>1. \A q : Calculators!RoutingScore(q) \in {5, 12, 18, 22, 25}
    BY DEF Calculators!RoutingScore
  <2>2. Calculators!RoutingScore(0) = 25
    BY DEF Calculators!RoutingScore
  <2> QED BY <2>1, <2>2
<1>5. Calculators!Score(r, ms, gb) =
        LET total == Calculators!VramScore(r) + Calculators!LatencyScore(ms)
                     + Calculators!RamScore(gb) + Calculators!RoutingScore(r.routing)
        IN IF r.fits THEN total ELSE IF total < 30 THEN total ELSE 30
  BY DEF Calculators!Score, Calculators!Least
<1>6. r.fits \in BOOLEAN
  BY DEF Placed
<1> QED BY <1>1, <1>2, <1>3, <1>4, <1>5, <1>6

\* If a strategy fits, the naive one does, which keeps no expert on the GPU.
LEMMA NaiveFits ==
  ASSUME CalcTypes, NEW r, Placed(r), r.fits
  PROVE  Calculators!Naive.fits /\ Calculators!Naive.routing = 0
<1>1. PICK gpu \in Seq(Calculators!Layers) :
        /\ r.used = Calculators!Base + Calculators!SumOver(gpu) + query.kv
        /\ r.fits = (query.vram - r.used > 0)
  BY DEF Placed
<1>2. /\ Calculators!Base \in Nat /\ Calculators!SumOver(gpu) \in Nat /\ Calculators!SumOver(<<>>) = 0
      /\ query.vram \in Int /\ query.kv \in Int
  BY LayerSums DEF CalcTypes
<1> DEFINE kept == Calculators!SumOver(gpu)
           none == Calculators!SumOver(<<>>)
<1>3. query.vram - (Calculators!Base + none + query.kv) > 0
  <2>1. query.vram - r.used > 0
    BY <1>1, Zenon
  <2> HIDE DEF kept, none
  <2>2. query.vram - (Calculators!Base + kept + query.kv) > 0
    BY <1>1, <2>1 DEF kept
  <2>3. Calculators!Base \in Nat /\ kept \in Nat /\ none = 0
    BY <1>2 DEF kept, none
  <2> QED BY <1>2, <2>2, <2>3
<1> QED BY <1>3 DEF Calculators!Naive, Calculators!Result

\* max() finds one of the greatest.
LEMMA BestIsGreatest ==
  ASSUME NEW n \in Nat \ {0}, NEW rs, DOMAIN rs = 1 .. n, NEW scores, \A i \in 1 .. n : scores[i] \in Int
  PROVE  /\ Calculators!Best(rs, scores) \in 1 .. n
         /\ \A j \in 1 .. n : scores[j] <= scores[Calculators!Best(rs, scores)]
<1> DEFINE IsBest(i) == /\ \A j \in 1 .. n : scores[j] <= scores[i]
                        /\ \A j \in 1 .. (i - 1) : scores[j] < scores[i]
<1>1. PICK b \in 1 .. n : FirstGreatest(scores, n, b)
  BY FirstGreatestExists
<1>2. IsBest(b)
  BY <1>1 DEF FirstGreatest
<1>3. Calculators!Best(rs, scores) = CHOOSE i \in 1 .. n : IsBest(i)
  BY DEF Calculators!Best
<1> HIDE DEF IsBest
<1>4. Calculators!Best(rs, scores) \in 1 .. n /\ IsBest(Calculators!Best(rs, scores))
  BY <1>2, <1>3
<1> QED BY <1>4 DEF IsBest

LEMMA CalcStep == CalcInv /\ [Calculators!Next]_offloadVars => CalcInv'
<1> SUFFICES ASSUME CalcInv, [Calculators!Next]_offloadVars PROVE CalcInv'
  OBVIOUS
<1> USE DEF CalcInv
<1>1. CASE Calculators!Calculate
  <2>1. answer'.tool # "optimizer"
    BY <1>1 DEF Calculators!Calculate
  <2> QED BY <1>1, <2>1 DEF Calculators!Calculate, CalcTypes, ModelOf, RecommendedFits, Calculators!RecommendedFits
<1>2. CASE Calculators!ReadRules
  <2>1. answer'.tool # "optimizer"
    BY <1>2 DEF Calculators!ReadRules
  <2> QED BY <1>2, <2>1 DEF Calculators!ReadRules, CalcTypes, ModelOf, RecommendedFits, Calculators!RecommendedFits
<1>3. CASE Calculators!Compare
  <2> DEFINE rs == Calculators!Evaluated
  <2>1. CalcTypes'
    BY <1>3 DEF Calculators!Compare, CalcTypes, ModelOf
  <2>2. PICK n \in Nat \ {0} :
           /\ DOMAIN rs = 1 .. n
           /\ \A i \in 1 .. n : Placed(rs[i])
           /\ \E i \in 1 .. n : rs[i] = Calculators!Naive
    BY EvaluatedAre
  <2>3. PICK cost \in [DOMAIN rs -> Costs] :
          answer' = [tool |-> "optimizer", results |-> rs,
                     best |-> Calculators!Best(rs, [i \in DOMAIN rs |->
                                Calculators!Score(rs[i], cost[i][1], cost[i][2])])]
    BY <1>3 DEF Calculators!Compare
  <2> HIDE DEF rs
  <2> DEFINE scores == [i \in DOMAIN rs |-> Calculators!Score(rs[i], cost[i][1], cost[i][2])]
             best == Calculators!Best(rs, scores)
  <2>4. \A i \in 1 .. n : cost[i][1] \in Int /\ cost[i][2] \in Int
    BY <2>2, CalculatorsAssumption
  <2>5. \A i \in 1 .. n : /\ scores[i] \in Int
                          /\ ~rs[i].fits => scores[i] <= 30
                          /\ rs[i].fits /\ rs[i].routing = 0 => scores[i] >= 45
    BY <2>2, <2>4, Scores
  <2> HIDE DEF scores
  <2>6. best \in 1 .. n /\ \A j \in 1 .. n : scores[j] <= scores[best]
    BY <2>2, <2>5, BestIsGreatest
  <2> HIDE DEF best
  <2>7. ASSUME NEW i \in 1 .. n, rs[i].fits PROVE rs[best].fits
    <3>1. PICK j \in 1 .. n : rs[j] = Calculators!Naive
      BY <2>2
    <3>2. rs[j].fits /\ rs[j].routing = 0
      BY <2>2, <2>7, <3>1, NaiveFits
    <3> QED BY <2>5, <2>6, <3>2
  <2>8. answer'.results = rs /\ answer'.best = best
    BY <2>3 DEF best, scores
  <2> QED BY <2>1, <2>2, <2>7, <2>8 DEF RecommendedFits, Calculators!RecommendedFits
<1>4. CASE Calculators!Simulate
  <2>1. answer'.tool # "optimizer"
    BY <1>4 DEF Calculators!Simulate
  <2> QED BY <1>4, <2>1 DEF Calculators!Simulate, CalcTypes, ModelOf, RecommendedFits, Calculators!RecommendedFits
<1>5. CASE UNCHANGED offloadVars
  BY <1>5 DEF offloadVars, CalcTypes, ModelOf, RecommendedFits, Calculators!RecommendedFits
<1> QED BY <1>1, <1>2, <1>3, <1>4, <1>5 DEF Calculators!Next

\* If any of the strategies compared fits the GPU, the recommended one does, for
\* a model of any layers, any sizes, and whatever the strategies cost.
THEOREM RecommendationFits == Calculators!Spec => []RecommendedFits
<1>1. CalcInv => RecommendedFits
  BY DEF CalcInv
<1> QED BY <1>1, CalcInit, CalcStep, PTL DEF Calculators!Spec, Calculators!vars, offloadVars

-----------------------------------------------------------------------------
(* The polling bridge from DSH. *)

\* Envelopes of some transports, and those of one and of one session.
Env(vias) == [via : vias, s : Sessions, n : Nat]
Mine(via, s) == [via : {via}, s : {s}, n : Nat]
Streaming == {"sse", "ws"}
Transports == Streaming \cup Dsh!Polls

Frame == [type : {"event", "subscribed"}, s : Sessions, n : Nat] \cup [type : {"removed"}, s : Sessions]

Thread == [owner : {"poll", "nobody"} \cup Dsh!Streams, envelopes : Seq(Env(Transports))]

Adapter ==
    [mode : {"auto"} \cup Streaming \cup {"poll"} \cup Dsh!Mocks,
     sse : BOOLEAN, ws : BOOLEAN, used : {Nil} \cup Transports,
     pc : {"start", "cycle", "fetch", "emit", "wait", "connect", "connected", "backoff", "over", "stopped"},
     running : BOOLEAN, shutdown : BOOLEAN, seqs : [Sessions -> Nat],
     known : SUBSET Sessions, todo : SUBSET Sessions,
     batch : Seq(Env(Transports)), breaks : Int, cancels : Int]

DshTypes ==
    /\ dsh \in [live : SUBSET Sessions, log : [Sessions -> Seq(Dsh!Kinds)]]
    /\ adapter \in Adapter
    /\ wire \in [Dsh!Streams -> Seq(Frame)]
    /\ threads \subseteq Thread
    /\ sink \in Seq(Env(Transports))

Polling == adapter.pc \in {"cycle", "fetch", "emit", "wait"}

\* The transport in use follows from how the adapter is told to choose it.
DshPhases ==
    /\ adapter.mode = "auto" => adapter.used \in {Nil, "sse", "ws", "http"}
    /\ adapter.mode # "auto" => adapter.used \in {Nil, adapter.mode}
    /\ adapter.pc = "start" => adapter.used = Nil /\ \A s \in Sessions : adapter.seqs[s] = 0
    /\ adapter.pc \in {"connect", "connected", "backoff"} => adapter.used \in Streaming
    /\ Polling => adapter.used \in Dsh!Polls
    /\ adapter.pc = "over" => adapter.used # Nil

\* A mock adapter makes up the events it reads.
DshMocks == adapter.mode \in Dsh!Mocks =>
    \A s \in Sessions : /\ adapter.seqs[s] = Len(dsh.log[s])
                        /\ \A n \in 1 .. Len(dsh.log[s]) : dsh.log[s][n] = "mapped"

\* The poller's call is the one of its batch, while it waits for it; the other
\* calls under way while it polls, and all before, are of streams.
DshCalls ==
    /\ \A t \in threads : t.owner = "poll" => adapter.pc = "emit" /\ t.envelopes = adapter.batch
    /\ adapter.pc = "emit" => adapter.batch # <<>> /\ \E t \in threads : t.owner = "poll"
    /\ Polling \/ adapter.used \notin Dsh!Polls =>
         \A t \in threads : t.owner # "poll" => t.envelopes \in Seq(Env(Streaming))
    /\ adapter.used \notin Dsh!Polls => sink \in Seq(Env(Streaming))
    /\ Polling => adapter.batch \in Seq(Env({adapter.used}))
    /\ adapter.pc \in {"cycle", "wait"} => adapter.batch = <<>>

\* What has arrived and what is collected are the events up to the cursor.
Upto(s, c) == Among(Span(0, c), Dsh!Mapped(s))
Collected(s) == Among(sink \o adapter.batch, Mine(adapter.used, s))
UpToCursor(s) ==
    /\ adapter.seqs[s] <= Len(dsh.log[s])
    /\ Collected(s) = Dsh!Envelopes(adapter.used, s, Upto(s, adapter.seqs[s]))
DshCursors == Polling => \A s \in Sessions : UpToCursor(s)

DshInv == DshTypes /\ DshPhases /\ DshMocks /\ DshCalls /\ DshCursors

LEMMA DshAmong == ASSUME NEW l, NEW T PROVE Dsh!Among(l, T) = Among(l, T)
BY DEF Dsh!Among, Among

\* Envelopes of numbers.
LEMMA EnvelopesType ==
  ASSUME NEW via, NEW s, NEW ns \in Seq(Nat)
  PROVE  /\ Dsh!Envelopes(via, s, ns) \in Seq(Mine(via, s))
         /\ Len(Dsh!Envelopes(via, s, ns)) = Len(ns)
         /\ s \in Sessions => Dsh!Envelopes(via, s, ns) \in Seq(Env({via}))
<1>1. DOMAIN ns = 1 .. Len(ns) /\ Len(ns) \in Nat /\ \A i \in 1 .. Len(ns) : ns[i] \in Nat
  BY ElementOfSeq
<1> DEFINE es == [i \in 1 .. Len(ns) |-> [via |-> via, s |-> s, n |-> ns[i]]]
<1>2. Dsh!Envelopes(via, s, ns) = es
  BY <1>1 DEF Dsh!Envelopes
<1>3. es \in [1 .. Len(ns) -> Mine(via, s)]
  BY <1>1 DEF Mine
<1>4. es \in Seq(Mine(via, s)) /\ Len(es) = Len(ns)
  BY <1>1, <1>3, SeqDef, LenProperties
<1>5. s \in Sessions => Mine(via, s) \subseteq Env({via})
  BY DEF Mine, Env
<1>6. s \in Sessions => es \in Seq(Env({via}))
  <2> HIDE DEF es
  <2> QED BY <1>4, <1>5, InMore
<1> QED BY <1>2, <1>4, <1>6

LEMMA EnvelopesConcat ==
  ASSUME NEW via, NEW s, NEW ms \in Seq(Nat), NEW ns \in Seq(Nat)
  PROVE  Dsh!Envelopes(via, s, ms \o ns) = Dsh!Envelopes(via, s, ms) \o Dsh!Envelopes(via, s, ns)
<1> DEFINE all == Dsh!Envelopes(via, s, ms \o ns)
           front == Dsh!Envelopes(via, s, ms)
           back == Dsh!Envelopes(via, s, ns)
<1>1. /\ ms \o ns \in Seq(Nat) /\ Len(ms \o ns) = Len(ms) + Len(ns) /\ Len(ms) \in Nat /\ Len(ns) \in Nat
      /\ \A i \in 1 .. Len(ms) + Len(ns) : (ms \o ns)[i] = IF i <= Len(ms) THEN ms[i] ELSE ns[i - Len(ms)]
  BY ConcatProperties
<1>2. /\ all \in Seq(Mine(via, s)) /\ Len(all) = Len(ms) + Len(ns)
      /\ \A i \in 1 .. Len(ms) + Len(ns) : all[i] = [via |-> via, s |-> s, n |-> (ms \o ns)[i]]
  <2> DEFINE ls == ms \o ns
  <2>1. ls \in Seq(Nat)
    BY <1>1
  <2>2. all = Dsh!Envelopes(via, s, ls)
    OBVIOUS
  <2> HIDE DEF ls, all
  <2>3. all \in Seq(Mine(via, s)) /\ Len(all) = Len(ls)
    BY <2>1, <2>2, EnvelopesType
  <2>4. \A i \in 1 .. Len(ls) : all[i] = [via |-> via, s |-> s, n |-> ls[i]]
    <3>1. DOMAIN ls = 1 .. Len(ls)
      BY <2>1
    <3> QED BY <2>2, <3>1 DEF Dsh!Envelopes
  <2>5. Len(ls) = Len(ms) + Len(ns)
    BY <1>1 DEF ls
  <2> QED BY <2>3, <2>4, <2>5, Zenon DEF ls
<1>3. /\ front \in Seq(Mine(via, s)) /\ Len(front) = Len(ms)
      /\ \A i \in 1 .. Len(ms) : front[i] = [via |-> via, s |-> s, n |-> ms[i]]
  <2>1. front \in Seq(Mine(via, s))
    BY EnvelopesType
  <2>2. Len(front) = Len(ms)
    BY EnvelopesType
  <2>3. \A i \in 1 .. Len(ms) : front[i] = [via |-> via, s |-> s, n |-> ms[i]]
    <3>1. DOMAIN ms = 1 .. Len(ms)
      OBVIOUS
    <3> QED BY <3>1 DEF Dsh!Envelopes
  <2> QED BY <2>1, <2>2, <2>3, Zenon
<1>4. /\ back \in Seq(Mine(via, s)) /\ Len(back) = Len(ns)
      /\ \A i \in 1 .. Len(ns) : back[i] = [via |-> via, s |-> s, n |-> ns[i]]
  <2>1. back \in Seq(Mine(via, s))
    BY EnvelopesType
  <2>2. Len(back) = Len(ns)
    BY EnvelopesType
  <2>3. \A i \in 1 .. Len(ns) : back[i] = [via |-> via, s |-> s, n |-> ns[i]]
    <3>1. DOMAIN ns = 1 .. Len(ns)
      OBVIOUS
    <3> QED BY <3>1 DEF Dsh!Envelopes
  <2> QED BY <2>1, <2>2, <2>3, Zenon
<1> HIDE DEF all, front, back
<1>5. /\ front \o back \in Seq(Mine(via, s)) /\ Len(front \o back) = Len(ms) + Len(ns)
      /\ \A i \in 1 .. Len(ms) + Len(ns) :
           (front \o back)[i] = IF i <= Len(ms) THEN front[i] ELSE back[i - Len(ms)]
  BY <1>3, <1>4, ConcatProperties
<1>6. ASSUME NEW i \in 1 .. Len(ms) + Len(ns) PROVE all[i] = (front \o back)[i]
  <2>1. CASE i <= Len(ms)
    <3>1. i \in 1 .. Len(ms)
      BY <1>1, <2>1
    <3>2. (front \o back)[i] = front[i] /\ (ms \o ns)[i] = ms[i]
      BY <1>1, <1>5, <2>1
    <3> QED BY <1>2, <1>3, <3>1, <3>2
  <2>2. CASE ~(i <= Len(ms))
    <3>1. i - Len(ms) \in 1 .. Len(ns)
      BY <1>1, <2>2
    <3>2. (front \o back)[i] = back[i - Len(ms)] /\ (ms \o ns)[i] = ns[i - Len(ms)]
      BY <1>1, <1>5, <2>2
    <3> QED BY <1>2, <1>4, <3>1, <3>2
  <2> QED BY <2>1, <2>2
<1>7. Len(all) = Len(front \o back) /\ \A i \in 1 .. Len(all) : all[i] = (front \o back)[i]
  BY <1>2, <1>5, <1>6
<1>8. all = front \o back
  BY <1>2, <1>5, <1>7, SeqEqual
<1> QED BY <1>8 DEF all, front, back

\* Those of one transport and session are told from the others.
LEMMA EnvelopesAmong ==
  ASSUME NEW via, NEW s, NEW s2, NEW ns \in Seq(Nat)
  PROVE  Among(Dsh!Envelopes(via, s, ns), Mine(via, s2)) = IF s = s2 THEN Dsh!Envelopes(via, s, ns) ELSE <<>>
<1>1. Dsh!Envelopes(via, s, ns) \in Seq(Mine(via, s))
  BY EnvelopesType
<1>2. CASE s = s2
  BY <1>1, <1>2, AmongAll
<1>3. CASE s # s2
  <2>1. Mine(via, s) \cap Mine(via, s2) = {}
    BY <1>3 DEF Mine
  <2> QED BY <1>1, <1>3, <2>1, AmongNone
<1> QED BY <1>2, <1>3

LEMMA StreamedAreOthers ==
  ASSUME NEW via, via \notin Streaming, NEW s, NEW es \in Seq(Env(Streaming))
  PROVE  Among(es, Mine(via, s)) = <<>>
<1>1. Env(Streaming) \cap Mine(via, s) = {}
  BY DEF Env, Mine
<1> QED BY <1>1, AmongNone

\* To what is collected up to a cursor, those up to the next are added.
LEMMA CollectMore ==
  ASSUME NEW via \in Transports, NEW s \in Sessions, NEW s2 \in Sessions, NEW T, NEW T2,
         NEW c \in Nat, NEW k \in Nat, c <= k, NEW l \in Seq(Env(Transports)),
         NEW c2, Among(l, Mine(via, s2)) = Dsh!Envelopes(via, s2, Among(Span(0, c2), T2)),
         s = s2 => c = c2 /\ T = T2
  PROVE  Among(l \o Dsh!Envelopes(via, s, Among(Span(c, k), T)), Mine(via, s2))
           = Dsh!Envelopes(via, s2, Among(Span(0, IF s = s2 THEN k ELSE c2), T2))
<1> DEFINE ns == Among(Span(c, k), T)
           es == Dsh!Envelopes(via, s, ns)
<1>1. Span(c, k) \in Seq(Nat) /\ Span(0, c) \in Seq(Nat) /\ Span(0, c) \o Span(c, k) = Span(0, k)
  <2>1. 0 \in Nat /\ 0 <= c
    OBVIOUS
  <2>2. Span(c, k) \in Seq(Nat)
    BY SpanType
  <2>3. Span(0, c) \in Seq(Nat)
    BY <2>1, SpanType
  <2>4. Span(0, c) \o Span(c, k) = Span(0, k)
    BY <2>1, SpanConcat
  <2> QED BY <2>2, <2>3, <2>4
<1>2. ns \in Seq(Nat) /\ Among(Span(0, c), T) \in Seq(Nat)
  BY <1>1, AmongType
<1> HIDE DEF ns
<1>3. es \in Seq(Env({via}))
  BY <1>2, EnvelopesType
<1>4. es \in Seq(Env(Transports))
  <2>1. Env({via}) \subseteq Env(Transports)
    BY DEF Env
  <2> HIDE DEF es
  <2> QED BY <1>3, <2>1, InMore
<1>5. Among(es, Mine(via, s2)) = IF s = s2 THEN es ELSE <<>>
  BY <1>2, EnvelopesAmong
<1> HIDE DEF es
<1>6. Among(l \o es, Mine(via, s2)) = Among(l, Mine(via, s2)) \o Among(es, Mine(via, s2))
  BY <1>4, AmongConcat
<1>7. CASE s = s2
  <2>1. Among(l \o es, Mine(via, s2)) = Dsh!Envelopes(via, s, Among(Span(0, c), T)) \o Dsh!Envelopes(via, s, ns)
    BY <1>5, <1>6, <1>7 DEF es
  <2>2. Among(l \o es, Mine(via, s2)) = Dsh!Envelopes(via, s, Among(Span(0, c), T) \o ns)
    BY <1>2, <2>1, EnvelopesConcat
  <2>3. Among(Span(0, c), T) \o ns = Among(Span(0, k), T)
    <3>1. Among(Span(0, c) \o Span(c, k), T) = Among(Span(0, c), T) \o Among(Span(c, k), T)
      BY <1>1, AmongConcat
    <3> QED BY <1>1, <3>1, Zenon DEF ns
  <2> QED BY <1>7, <2>2, <2>3 DEF es, ns
<1>8. CASE s # s2
  <2>1. Among(l, Mine(via, s2)) \in Seq(Env(Transports))
    BY AmongType
  <2>2. Among(l, Mine(via, s2)) \o <<>> = Among(l, Mine(via, s2))
    BY <2>1, ConcatEmptySeq
  <2> QED BY <1>5, <1>6, <1>8, <2>2 DEF es, ns
<1> QED BY <1>7, <1>8

LEMMA DshInit == Dsh!Init => DshInv
<1> SUFFICES ASSUME Dsh!Init PROVE DshInv
  OBVIOUS
<1>1. PICK mode \in {"poll", "auto", "sse", "ws"} \cup Dsh!Mocks, sse \in BOOLEAN, ws \in BOOLEAN :
        adapter = Dsh!NewAdapter(mode, sse, ws)
  BY DEF Dsh!Init
<1>2. DshTypes
  <2>1. dsh \in [live : SUBSET Sessions, log : [Sessions -> Seq(Dsh!Kinds)]]
    BY DEF Dsh!Init
  <2>2. <<>> \in Seq(Env(Transports)) /\ <<>> \in Seq(Frame)
    OBVIOUS
  <2>3. wire \in [Dsh!Streams -> Seq(Frame)] /\ sink \in Seq(Env(Transports))
    BY <2>2 DEF Dsh!Init
  <2>4. threads = {}
    BY DEF Dsh!Init
  <2>5. adapter \in Adapter
    <3>1. [s \in Sessions |-> 0] \in [Sessions -> Nat]
      OBVIOUS
    <3> QED BY <1>1, <2>2, <3>1 DEF Dsh!NewAdapter, Adapter, Streaming
  <2> QED BY <2>1, <2>3, <2>4, <2>5 DEF DshTypes, Adapter
<1>3. adapter.pc = "start" /\ adapter.used = Nil /\ adapter.seqs = [s \in Sessions |-> 0]
  BY <1>1 DEF Dsh!NewAdapter
<1>4. DshPhases
  BY <1>3 DEF DshPhases, Polling
<1>5. DshMocks
  <2>1. \A s \in Sessions : dsh.log[s] = <<>>
    BY DEF Dsh!Init
  <2>2. \A s \in Sessions : Len(dsh.log[s]) = 0 /\ adapter.seqs[s] = 0
    BY <1>3, <2>1
  <2> QED BY <2>2 DEF DshMocks
<1>6. DshCalls
  <2>1. threads = {} /\ sink = <<>> /\ <<>> \in Seq(Env(Streaming))
    BY DEF Dsh!Init
  <2> QED BY <1>3, <2>1 DEF DshCalls, Polling
<1>7. DshCursors
  BY <1>3 DEF DshCursors, Polling
<1> QED BY <1>2, <1>4, <1>5, <1>6, <1>7 DEF DshInv

\* What is collected stays, if nothing it depends on changes.
LEMMA CursorsKept ==
  ASSUME DshCursors, Polling' => Polling, UNCHANGED <<dsh, sink>>, adapter'.seqs = adapter.seqs,
         adapter'.batch = adapter.batch, adapter'.used = adapter.used
  PROVE  DshCursors'
BY DEF DshCursors, UpToCursor, Collected, Upto, Dsh!Mapped, Dsh!Envelopes

\* And of the events made up.
LEMMA MocksKept ==
  ASSUME DshMocks, adapter'.mode = adapter.mode, dsh'.log = dsh.log, adapter'.seqs = adapter.seqs
  PROVE  DshMocks'
BY DEF DshMocks

\* A transport polls for the first time.
LEMMA PollStarts ==
  ASSUME DshInv, NEW via \in Dsh!Polls, adapter.used \notin Dsh!Polls,
         adapter.pc \in {"start", "over"}, adapter' = Dsh!StartPolling(via),
         UNCHANGED <<dsh, wire, threads, sink>>,
         adapter.mode = "auto" => via = "http", adapter.mode # "auto" => via = adapter.mode,
         adapter.mode \in Dsh!Mocks => adapter.pc = "start"
  PROVE  DshInv'
<1> USE DEF DshInv
<1>1. /\ adapter'.pc = "cycle" /\ adapter'.used = via /\ adapter'.seqs = [s \in Sessions |-> 0]
      /\ adapter'.batch = <<>> /\ adapter'.mode = adapter.mode
  BY DEF Dsh!StartPolling, DshTypes, Adapter
<1>2. DshTypes'
  <2>1. via \in Transports /\ [s \in Sessions |-> 0] \in [Sessions -> Nat] /\ <<>> \in Seq(Env(Transports))
    BY DEF Transports
  <2> QED BY <2>1 DEF DshTypes, Adapter, Dsh!StartPolling
<1>3. DshPhases'
  BY <1>1 DEF DshPhases, Polling
<1>4. DshMocks'
  <2>1. adapter.mode \in Dsh!Mocks => \A s \in Sessions : adapter.seqs[s] = 0
    BY DEF DshPhases
  <2>2. \A s \in Sessions : adapter'.seqs[s] = 0
    BY <1>1
  <2>3. dsh' = dsh
    OBVIOUS
  <2> QED BY <1>1, <2>1, <2>2, <2>3 DEF DshMocks
<1>5. DshCalls'
  <2>1. <<>> \in Seq(Env({via}))
    OBVIOUS
  <2> QED BY <1>1, <2>1 DEF DshCalls, Polling
<1>6. DshCursors'
  <2> SUFFICES ASSUME NEW s \in Sessions PROVE UpToCursor(s)'
    BY DEF DshCursors
  <2>1. adapter'.seqs[s] = 0 /\ dsh' = dsh /\ sink' = sink
    BY <1>1
  <2>2. Len(dsh.log[s]) \in Nat
    BY DEF DshTypes, Adapter
  <2>3. Collected(s)' = <<>>
    <3>1. sink \in Seq(Env(Streaming)) /\ via \notin Streaming
      BY DEF DshCalls, Dsh!Polls, Dsh!Mocks, Streaming
    <3>2. sink \o <<>> = sink
      BY <3>1, ConcatEmptySeq
    <3>3. Among(sink, Mine(via, s)) = <<>>
      BY <3>1, StreamedAreOthers
    <3> QED BY <1>1, <2>1, <3>2, <3>3 DEF Collected
  <2>4. Upto(s, 0)' = <<>>
    <3>1. Span(0, 0) = <<>>
      BY SpanAppend
    <3> QED BY <3>1, AmongEmpty DEF Upto
  <2>5. Dsh!Envelopes(via, s, <<>>) = <<>>
    <3>1. <<>> \in Seq(Nat) /\ Len(<<>>) = 0
      OBVIOUS
    <3>2. Dsh!Envelopes(via, s, <<>>) \in Seq(Mine(via, s)) /\ Len(Dsh!Envelopes(via, s, <<>>)) = 0
      BY <3>1, EnvelopesType
    <3> QED BY <3>2, EmptySeq
  <2>6. (Dsh!Envelopes(adapter.used, s, Upto(s, adapter.seqs[s])))' = Dsh!Envelopes(via, s, <<>>)
    BY <1>1, <2>1, <2>4 DEF Dsh!Envelopes
  <2> QED BY <2>1, <2>2, <2>3, <2>5, <2>6 DEF UpToCursor
<1> QED BY <1>2, <1>3, <1>4, <1>5, <1>6

\* A transport is chosen, or none is left.
LEMMA RunStep ==
  ASSUME DshInv, adapter.pc \in {"start", "over"}, adapter' = Dsh!Run(Dsh!Choice(adapter.used)),
         UNCHANGED <<dsh, wire, threads, sink>>
  PROVE  DshInv'
<1> DEFINE t == Dsh!Choice(adapter.used)
<1>1. /\ t \in {Nil} \cup Transports
      /\ t # Nil => /\ adapter.used \notin Dsh!Polls
                    /\ adapter.mode = "auto" => t \in {"sse", "ws", "http"}
                    /\ adapter.mode # "auto" => t = adapter.mode /\ adapter.used = Nil
  BY DshAssumption DEF DshInv, DshTypes, Adapter, DshPhases, Dsh!Choice, Transports, Streaming, Dsh!Polls, Dsh!Mocks
<1> HIDE DEF t
<1>2. CASE t = Nil \/ ~Dsh!Library(t)
  <2>1. adapter' = [adapter EXCEPT !.pc = "stopped", !.running = FALSE]
    BY <1>2 DEF Dsh!Run, t
  <2>2. DshTypes'
    BY <2>1 DEF DshInv, DshTypes, Adapter
  <2>3. /\ adapter'.pc = "stopped" /\ adapter'.used = adapter.used /\ adapter'.seqs = adapter.seqs
        /\ adapter'.mode = adapter.mode /\ adapter'.batch = adapter.batch
    BY <2>1 DEF DshInv, DshTypes, Adapter
  <2>4. DshPhases'
    BY <2>3 DEF DshInv, DshPhases, Polling
  <2>5. DshMocks' /\ DshCursors'
    BY <2>3, MocksKept, CursorsKept DEF DshInv, Polling
  <2>6. DshCalls'
    BY <2>3 DEF DshInv, DshCalls, Polling
  <2> QED BY <2>2, <2>4, <2>5, <2>6 DEF DshInv
<1>3. CASE t # Nil /\ Dsh!Library(t) /\ t \in Dsh!Polls
  <2>1. adapter' = Dsh!StartPolling(t)
    BY <1>3 DEF Dsh!Run, t
  <2>2. t = "http" \/ t = adapter.mode
    BY <1>1, <1>3 DEF Dsh!Polls, Dsh!Mocks
  <2>3. adapter.mode = "auto" => t = "http"
    BY <1>1, <1>3 DEF Dsh!Polls, Dsh!Mocks
  <2>4. adapter.mode \in Dsh!Mocks => adapter.pc = "start"
    BY <1>1, <1>3 DEF DshInv, DshPhases, Dsh!Mocks
  <2> QED BY <1>1, <1>3, <2>1, <2>3, <2>4, PollStarts
<1>4. CASE t # Nil /\ Dsh!Library(t) /\ t \notin Dsh!Polls
  <2>1. adapter' = [adapter EXCEPT !.pc = "connect", !.used = t]
    BY <1>4 DEF Dsh!Run, t
  <2>2. t \in Streaming
    BY <1>1, <1>4 DEF Transports
  <2>3. DshTypes'
    BY <1>1, <2>1 DEF DshInv, DshTypes, Adapter
  <2>4. /\ adapter'.pc = "connect" /\ adapter'.used = t /\ adapter'.seqs = adapter.seqs
        /\ adapter'.mode = adapter.mode /\ adapter'.batch = adapter.batch
    BY <2>1 DEF DshInv, DshTypes, Adapter
  <2>5. DshPhases'
    BY <1>1, <2>2, <2>4 DEF DshInv, DshPhases, Polling, Streaming
  <2>6. DshMocks'
    BY <2>4, MocksKept DEF DshInv
  <2>7. DshCursors'
    BY <2>4 DEF DshCursors, Polling
  <2>8. DshCalls'
    BY <1>1, <1>4, <2>4 DEF DshInv, DshCalls, Polling
  <2> QED BY <2>3, <2>5, <2>6, <2>7, <2>8 DEF DshInv
<1> QED BY <1>2, <1>3, <1>4

LEMMA StartStep == ASSUME DshInv, Dsh!Start PROVE DshInv'
<1>1. adapter.used = Nil
  BY DEF DshInv, DshPhases, Dsh!Start
<1> QED BY <1>1, RunStep DEF Dsh!Start

\* The adapter goes on, and its calls with it.
LEMMA AdapterMoves ==
  ASSUME DshInv, adapter' \in Adapter, wire' \in [Dsh!Streams -> Seq(Frame)],
         UNCHANGED <<dsh, threads, sink>>,
         adapter'.mode = adapter.mode, adapter'.used = adapter.used,
         adapter'.seqs = adapter.seqs, adapter'.batch = adapter.batch,
         adapter'.pc = "emit" <=> adapter.pc = "emit", Polling' => Polling,
         adapter'.pc = "start" => adapter.pc = "start",
         adapter'.pc \in {"connect", "connected", "backoff"} => adapter.used \in Streaming,
         adapter'.pc = "over" => adapter.used # Nil,
         adapter'.pc \in {"cycle", "wait"} => adapter.batch = <<>>
  PROVE  DshInv'
<1>1. DshTypes'
  BY DEF DshInv, DshTypes
<1>2. DshPhases'
  BY DEF DshInv, DshPhases
<1>3. DshMocks'
  BY MocksKept DEF DshInv
<1>4. DshCursors'
  BY CursorsKept DEF DshInv
<1>5. DshCalls'
  BY DEF DshInv, DshCalls
<1> QED BY <1>1, <1>2, <1>3, <1>4, <1>5 DEF DshInv

\* The adapter leaves what it is at; its calls go on, and nobody waits for them.
LEMMA CallsLeft ==
  ASSUME DshInv, adapter' \in Adapter, wire' = [st \in Dsh!Streams |-> <<>>],
         UNCHANGED <<dsh, sink>>, NEW owners, threads' = Dsh!Orphaned(owners),
         adapter.pc = "emit" => "poll" \in owners,
         adapter'.mode = adapter.mode, adapter'.used = adapter.used,
         adapter'.seqs = adapter.seqs, adapter'.batch = adapter.batch,
         adapter'.pc \in {"backoff", "over", "stopped"},
         adapter'.pc = "backoff" => adapter.used \in Streaming,
         adapter'.pc = "over" => adapter.used # Nil
  PROVE  DshInv'
<1>1. ASSUME NEW u \in threads'
      PROVE  \E t \in threads : /\ u.envelopes = t.envelopes /\ u \in Thread
                                /\ (u = t /\ t.owner \notin owners) \/ u.owner = "nobody"
  <2>1. PICK t \in threads : u = IF t.owner \in owners THEN [t EXCEPT !.owner = "nobody"] ELSE t
    BY DEF Dsh!Orphaned
  <2>2. t \in Thread
    BY DEF DshInv, DshTypes
  <2> QED BY <2>1, <2>2 DEF Thread
<1>2. DshTypes'
  <2>1. <<>> \in Seq(Frame)
    OBVIOUS
  <2> QED BY <1>1, <2>1 DEF DshInv, DshTypes
<1>3. DshPhases'
  BY DEF DshInv, DshPhases, Polling
<1>4. DshMocks'
  BY MocksKept DEF DshInv
<1>5. DshCursors'
  BY DEF DshCursors, Polling
<1>6. DshCalls'
  <2>1. ~Polling' /\ adapter'.pc \notin {"emit", "cycle", "wait"}
    BY DEF Polling
  <2>2. \A u \in threads' : u.owner # "poll"
    BY <1>1 DEF DshInv, DshCalls
  <2>3. adapter.used \notin Dsh!Polls => \A t \in threads : t.owner # "poll" /\ t.envelopes \in Seq(Env(Streaming))
    BY DEF DshInv, DshCalls, DshPhases, Polling
  <2>4. adapter.used \notin Dsh!Polls => \A u \in threads' : u.envelopes \in Seq(Env(Streaming))
    BY <1>1, <2>3
  <2>5. adapter.used \notin Dsh!Polls => sink' \in Seq(Env(Streaming))
    BY DEF DshInv, DshCalls
  <2> QED BY <2>1, <2>2, <2>4, <2>5 DEF DshCalls
<1> QED BY <1>2, <1>3, <1>4, <1>5, <1>6 DEF DshInv

LEMMA NextTransportStep == ASSUME DshInv, Dsh!NextTransport PROVE DshInv'
<1>1. CASE adapter.running
  BY <1>1, RunStep DEF Dsh!NextTransport
<1>2. CASE ~adapter.running
  <2>1. adapter' = [adapter EXCEPT !.pc = "stopped"] /\ UNCHANGED <<dsh, wire, threads, sink>> /\ adapter.pc = "over"
    BY <1>2 DEF Dsh!NextTransport
  <2> QED BY <2>1, AdapterMoves DEF DshInv, DshTypes, Adapter, Polling
<1> QED BY <1>1, <1>2

LEMMA PollSessionsStep == ASSUME DshInv, Dsh!PollSessions PROVE DshInv'
<1>1. PICK found \in {{}, dsh.live} :
        adapter' = [adapter EXCEPT !.todo = found, !.pc = IF found = {} THEN "wait" ELSE "fetch"]
  BY DEF Dsh!PollSessions
<1>2. adapter.pc = "cycle" /\ UNCHANGED <<dsh, wire, threads, sink>>
  BY DEF Dsh!PollSessions
<1>3. found \in SUBSET Sessions
  BY DEF DshInv, DshTypes
<1>4. adapter.batch = <<>>
  BY <1>2 DEF DshInv, DshCalls
<1> QED BY <1>1, <1>2, <1>3, <1>4, AdapterMoves DEF DshInv, DshTypes, Adapter, Polling

LEMMA WaitStep == ASSUME DshInv, Dsh!Wait PROVE DshInv'
<1>1. adapter.pc = "wait" /\ UNCHANGED <<dsh, wire, threads, sink>>
      /\ adapter' = [adapter EXCEPT !.pc = IF adapter.shutdown THEN "over" ELSE "cycle"]
  BY DEF Dsh!Wait
<1>2. adapter.batch = <<>> /\ adapter.used \in Dsh!Polls
  BY <1>1 DEF DshInv, DshCalls, DshPhases, Polling
<1>3. adapter.used # Nil
  BY <1>2, DshAssumption DEF Dsh!Polls, Dsh!Mocks
<1> QED BY <1>1, <1>2, <1>3, AdapterMoves DEF DshInv, DshTypes, Adapter, Polling

LEMMA OpenStep == ASSUME DshInv, NEW t, Dsh!Open(t) PROVE DshInv'
<1>1. adapter.pc = "connect" /\ UNCHANGED <<dsh, threads, sink>>
  BY DEF Dsh!Open
<1>2. adapter.used \in Streaming
  BY <1>1 DEF DshInv, DshPhases
<1>3. CASE adapter' = [adapter EXCEPT !.pc = "connected"]
           /\ \E order \in Dsh!SetToSeqs(dsh.live) :
                wire' = [st \in Dsh!Streams |->
                  IF st = "mux" THEN [i \in DOMAIN order |->
                       [type |-> "subscribed", s |-> order[i], n |-> Len(dsh.log[order[i]])]]
                  ELSE <<>>]
  <2>1. PICK order \in Dsh!SetToSeqs(dsh.live) :
                wire' = [st \in Dsh!Streams |->
                  IF st = "mux" THEN [i \in DOMAIN order |->
                       [type |-> "subscribed", s |-> order[i], n |-> Len(dsh.log[order[i]])]]
                  ELSE <<>>]
    BY <1>3
  <2>2. dsh.live \subseteq Sessions /\ \A s \in Sessions : dsh.log[s] \in Seq(Dsh!Kinds)
    BY DEF DshInv, DshTypes
  <2>3. IsFiniteSet(dsh.live)
    BY <2>2, DshAssumption, FS_Subset
  <2>4. Cardinality(dsh.live) \in Nat
    BY <2>3, FS_CardinalityType
  <2> DEFINE k == Cardinality(dsh.live)
             frames == [i \in 1 .. k |-> [type |-> "subscribed", s |-> order[i], n |-> Len(dsh.log[order[i]])]]
  <2>5. order \in [1 .. k -> dsh.live]
    BY DEF Dsh!SetToSeqs, Dsh!Cardinality, Cardinality
  <2> HIDE DEF k
  <2>6. \A i \in 1 .. k : order[i] \in Sessions /\ Len(dsh.log[order[i]]) \in Nat
    BY <2>2, <2>5
  <2>7. frames \in [1 .. k -> Frame]
    BY <2>6 DEF Frame
  <2>8. frames \in Seq(Frame)
    BY <2>4, <2>7, SeqDef DEF k
  <2>9. wire' = [st \in Dsh!Streams |-> IF st = "mux" THEN frames ELSE <<>>]
    BY <2>1, <2>5
  <2> HIDE DEF frames
  <2>10. wire' \in [Dsh!Streams -> Seq(Frame)]
    BY <2>8, <2>9
  <2> QED BY <1>1, <1>2, <1>3, <2>10, AdapterMoves DEF DshInv, DshTypes, Adapter, Polling
<1>4. CASE adapter' = [adapter EXCEPT !.pc = "backoff", !.breaks = @ + 1] /\ UNCHANGED wire
  <2> DEFINE b == adapter.breaks + 1
  <2>1. adapter' = [adapter EXCEPT !.pc = "backoff", !.breaks = b]
    BY <1>4
  <2>2. b \in Int /\ adapter \in Adapter
    BY DEF DshInv, DshTypes, Adapter
  <2> HIDE DEF b
  <2>3. adapter' \in Adapter
    BY <2>1, <2>2 DEF Adapter
  <2>4. /\ adapter'.mode = adapter.mode /\ adapter'.used = adapter.used /\ adapter'.seqs = adapter.seqs
        /\ adapter'.batch = adapter.batch /\ adapter'.pc = "backoff"
    BY <2>1, <2>2 DEF Adapter
  <2>5. wire' \in [Dsh!Streams -> Seq(Frame)]
    BY <1>4 DEF DshInv, DshTypes
  <2> QED BY <1>1, <1>2, <2>3, <2>4, <2>5, AdapterMoves DEF Polling
<1> QED BY <1>3, <1>4 DEF Dsh!Open

LEMMA BackoffStep == ASSUME DshInv, Dsh!Backoff PROVE DshInv'
<1>1. adapter.pc = "backoff" /\ UNCHANGED <<dsh, wire, threads, sink>>
      /\ adapter' = [adapter EXCEPT !.pc = IF adapter.shutdown THEN "over" ELSE "connect"]
  BY DEF Dsh!Backoff
<1>2. adapter.used \in Streaming /\ adapter.used # Nil
  BY <1>1, DshAssumption DEF DshInv, DshPhases, Streaming
<1> QED BY <1>1, <1>2, AdapterMoves DEF DshInv, DshTypes, Adapter, Polling

LEMMA StopStep == ASSUME DshInv, Dsh!Stop PROVE DshInv'
<1>1. adapter' = [adapter EXCEPT !.running = FALSE, !.shutdown = TRUE] /\ UNCHANGED <<dsh, wire, threads, sink>>
  BY DEF Dsh!Stop
<1>2. adapter'.pc = adapter.pc
  BY <1>1 DEF DshInv, DshTypes, Adapter
<1>3. /\ adapter.pc \in {"connect", "connected", "backoff"} => adapter.used \in Streaming
      /\ adapter.pc = "over" => adapter.used # Nil
      /\ adapter.pc \in {"cycle", "wait"} => adapter.batch = <<>>
  BY DEF DshInv, DshPhases, DshCalls
<1> QED BY <1>1, <1>2, <1>3, AdapterMoves DEF DshInv, DshTypes, Adapter, Polling

LEMMA LeaveStep ==
  ASSUME DshInv, Dsh!Connected, NEW pc \in {"over", "backoff"}, Dsh!Leave(pc), UNCHANGED <<dsh, sink>>
  PROVE  DshInv'
<1>1. adapter.used \in Streaming /\ adapter.used # Nil /\ adapter.pc = "connected"
  BY DshAssumption DEF DshInv, DshPhases, Streaming, Dsh!Connected
<1>2. /\ adapter' = [adapter EXCEPT !.pc = pc, !.breaks = IF pc = "backoff" THEN @ + 1 ELSE @]
      /\ threads' = Dsh!Orphaned(Dsh!Streams) /\ wire' = [st \in Dsh!Streams |-> <<>>]
  BY DEF Dsh!Leave
<1> DEFINE b == IF pc = "backoff" THEN adapter.breaks + 1 ELSE adapter.breaks
<1>3. adapter' = [adapter EXCEPT !.pc = pc, !.breaks = b]
  BY <1>2
<1>4. b \in Int /\ adapter \in Adapter
  BY DEF DshInv, DshTypes, Adapter
<1> HIDE DEF b
<1>5. adapter' \in Adapter
  BY <1>3, <1>4 DEF Adapter
<1>6. /\ adapter'.mode = adapter.mode /\ adapter'.used = adapter.used /\ adapter'.seqs = adapter.seqs
      /\ adapter'.batch = adapter.batch /\ adapter'.pc = pc
  BY <1>3, <1>4 DEF Adapter
<1> QED BY <1>1, <1>2, <1>5, <1>6, CallsLeft

LEMMA StreamBreaksStep == ASSUME DshInv, Dsh!StreamBreaks PROVE DshInv'
BY LeaveStep DEF Dsh!StreamBreaks

LEMMA CancelStep == ASSUME DshInv, Dsh!Cancel PROVE DshInv'
<1>1. /\ adapter' = [adapter EXCEPT !.cancels = @ + 1, !.todo = {},
                   !.pc = IF adapter.used \in {"poll"} \cup Dsh!Mocks THEN "stopped" ELSE "over",
                   !.running = @ /\ adapter.used \notin {"poll"} \cup Dsh!Mocks]
      /\ adapter.pc \in {"fetch", "emit", "wait", "cycle", "connect", "connected", "backoff"}
      /\ threads' = Dsh!Orphaned(Dsh!Streams \cup {"poll"})
      /\ wire' = [st \in Dsh!Streams |-> <<>>] /\ UNCHANGED <<dsh, sink>>
  BY DEF Dsh!Cancel
<1>2. adapter.used # Nil
  BY <1>1, DshAssumption DEF DshInv, DshPhases, Polling, Streaming, Dsh!Polls, Dsh!Mocks
<1>3. adapter' \in Adapter
  <2> DEFINE k == adapter.cancels + 1
             stops == IF adapter.used \in {"poll"} \cup Dsh!Mocks THEN "stopped" ELSE "over"
             goes == adapter.running /\ adapter.used \notin {"poll"} \cup Dsh!Mocks
  <2>1. adapter' = [adapter EXCEPT !.cancels = k, !.todo = {}, !.pc = stops, !.running = goes]
    BY <1>1
  <2>2. k \in Int /\ adapter \in Adapter
    BY DEF DshInv, DshTypes, Adapter
  <2>3. stops \in {"stopped", "over"} /\ goes \in BOOLEAN
    OBVIOUS
  <2> HIDE DEF k, stops, goes
  <2> QED BY <2>1, <2>2, <2>3 DEF Adapter
<1>4. /\ adapter'.mode = adapter.mode /\ adapter'.used = adapter.used /\ adapter'.seqs = adapter.seqs
      /\ adapter'.batch = adapter.batch /\ adapter'.pc \in {"over", "stopped"}
  BY <1>1 DEF DshInv, DshTypes, Adapter
<1> QED BY <1>1, <1>2, <1>3, <1>4, CallsLeft

\* What a session's answer holds is what there is after the cursor up to the next.
LEMMA AnswerIsSpan ==
  ASSUME DshTypes, NEW s \in Sessions, NEW c \in Nat, c <= Len(dsh.log[s]), NEW answered \in BOOLEAN
  PROVE  LET ns == IF answered THEN Dsh!Projected(s, c) ELSE <<>>
             k == Dsh!Cursor(c, ns)
         IN k \in Nat /\ c <= k /\ k <= Len(dsh.log[s]) /\ ns \in Seq(Nat) /\ ns = Among(Span(c, k), Dsh!Mapped(s))
<1> DEFINE ns == IF answered THEN Dsh!Projected(s, c) ELSE <<>>
           b == Len(dsh.log[s])
           T == Dsh!Mapped(s)
<1>1. b \in Nat
  BY DEF DshTypes
<1>2. Span(c, c) = <<>>
  <2>1. c <= c
    OBVIOUS
  <2> QED BY <2>1, SpanAppend
<1>3. Among(Span(c, c), T) = <<>>
  BY <1>2, AmongEmpty
<1>4. <<>> \in Seq(Nat)
  OBVIOUS
<1>5. answered => ns = Among(Span(c, b), T)
  BY DshAmong DEF Dsh!Projected, Span
<1>6. ~answered => ns = <<>>
  OBVIOUS
<1> HIDE DEF ns
<1>7. CASE ns = <<>>
  <2>1. Dsh!Cursor(c, ns) = c
    BY <1>7 DEF Dsh!Cursor
  <2>2. c <= c
    OBVIOUS
  <2> QED BY <1>3, <1>4, <1>7, <2>1, <2>2 DEF ns
<1>8. CASE ns # <<>>
  <2>1. answered
    BY <1>6, <1>8
  <2>2. ns = Among(Span(c, b), T)
    BY <1>5, <2>1
  <2> HIDE DEF T, b
  <2>3. ns \in Seq(Nat) /\ ns[Len(ns)] \in c + 1 .. b /\ ns = Among(Span(c, ns[Len(ns)]), T)
    BY <1>1, <1>8, <2>2, AmongSpan DEF b
  <2>4. Dsh!Cursor(c, ns) = ns[Len(ns)]
    BY <1>8 DEF Dsh!Cursor, Dsh!Last
  <2>5. ns[Len(ns)] \in Nat /\ c <= ns[Len(ns)] /\ ns[Len(ns)] <= b
    BY <1>1, <2>3
  <2> QED BY <2>3, <2>4, <2>5 DEF ns, T, b
<1> QED BY <1>7, <1>8

LEMMA PollSessionStep == ASSUME DshInv, Dsh!PollSession PROVE DshInv'
<1>1. PICK s \in adapter.todo, answered \in BOOLEAN :
        LET ns == IF answered THEN Dsh!Projected(s, adapter.seqs[s]) ELSE <<>>
        IN  adapter' = [adapter EXCEPT !.todo = @ \ {s}, !.seqs[s] = Dsh!Cursor(adapter.seqs[s], ns),
                          !.batch = @ \o Dsh!Envelopes(adapter.used, s, ns)]
  BY DEF Dsh!PollSession
<1>2. adapter.pc = "fetch" /\ UNCHANGED <<dsh, wire, threads, sink>>
  BY DEF Dsh!PollSession
<1>3. adapter \in Adapter /\ s \in Sessions /\ adapter.used \in Dsh!Polls
  BY <1>2 DEF DshInv, DshTypes, DshPhases, Polling, Adapter
<1> DEFINE c == adapter.seqs[s]
           ns == IF answered THEN Dsh!Projected(s, adapter.seqs[s]) ELSE <<>>
           k == Dsh!Cursor(c, ns)
           es == Dsh!Envelopes(adapter.used, s, ns)
           all == adapter.batch \o es
<1>4. /\ c \in Nat /\ c <= Len(dsh.log[s])
      /\ \A s2 \in Sessions : UpToCursor(s2)
      /\ adapter.batch \in Seq(Env({adapter.used})) /\ sink \in Seq(Env(Transports))
      /\ adapter.used \in Transports
  BY <1>2, <1>3 DEF DshInv, DshTypes, DshCalls, DshCursors, UpToCursor, Polling, Adapter, Transports
<1>5. k \in Nat /\ c <= k /\ k <= Len(dsh.log[s]) /\ ns \in Seq(Nat) /\ ns = Among(Span(c, k), Dsh!Mapped(s))
  <2> HIDE DEF c
  <2>1. LET ms == IF answered THEN Dsh!Projected(s, c) ELSE <<>>
            m == Dsh!Cursor(c, ms)
        IN m \in Nat /\ c <= m /\ m <= Len(dsh.log[s]) /\ ms \in Seq(Nat) /\ ms = Among(Span(c, m), Dsh!Mapped(s))
    BY <1>3, <1>4, AnswerIsSpan DEF DshInv
  <2> QED BY <2>1 DEF c
<1>6. adapter' = [adapter EXCEPT !.todo = @ \ {s}, !.seqs[s] = k, !.batch = all]
  BY <1>1
<1> HIDE DEF ns, k
<1>7. es \in Seq(Env({adapter.used}))
  BY <1>3, <1>5, EnvelopesType
<1> HIDE DEF es
<1>8. Env({adapter.used}) \subseteq Env(Transports)
  BY <1>4 DEF Env
<1>9. all \in Seq(Env({adapter.used}))
  BY <1>4, <1>7, ConcatProperties
<1>10. es \in Seq(Env(Transports)) /\ adapter.batch \in Seq(Env(Transports)) /\ all \in Seq(Env(Transports))
  <2> HIDE DEF all
  <2> QED BY <1>4, <1>7, <1>8, <1>9, InMore
<1>11. (sink \o adapter.batch) \o es = sink \o all
  <2>1. sink \in Seq(Env(Transports))
    BY <1>4
  <2> DEFINE b == adapter.batch
  <2>2. b \in Seq(Env(Transports))
    BY <1>10
  <2> HIDE DEF b, all
  <2>3. (sink \o b) \o es = sink \o (b \o es)
    BY <1>10, <2>1, <2>2, ConcatAssociative
  <2> QED BY <2>3 DEF b, all
<1>12. sink \o adapter.batch \in Seq(Env(Transports))
  BY <1>4, <1>10, ConcatProperties
<1> HIDE DEF all
<1>13. /\ adapter'.mode = adapter.mode /\ adapter'.used = adapter.used /\ adapter'.pc = "fetch"
       /\ adapter'.batch = all /\ adapter'.seqs = [adapter.seqs EXCEPT ![s] = k]
  BY <1>2, <1>3, <1>6 DEF Adapter
<1>14. adapter' \in Adapter
  <2>1. [adapter.seqs EXCEPT ![s] = k] \in [Sessions -> Nat]
    BY <1>3, <1>5 DEF Adapter
  <2> QED BY <1>3, <1>6, <1>10, <2>1 DEF Adapter
<1>15. \A s2 \in Sessions : adapter'.seqs[s2] = IF s2 = s THEN k ELSE adapter.seqs[s2]
  BY <1>3, <1>13 DEF Adapter
<1>16. DshTypes'
  BY <1>2, <1>14 DEF DshInv, DshTypes
<1>17. DshPhases'
  BY <1>2, <1>13 DEF DshInv, DshPhases, Polling
<1>18. DshMocks'
  <2>1. adapter.mode \in Dsh!Mocks => k = c
    BY <1>3, <1>4, <1>5 DEF DshInv, DshMocks
  <2> QED BY <1>2, <1>13, <1>15, <2>1 DEF DshInv, DshMocks
<1>19. DshCalls'
  BY <1>2, <1>9, <1>13 DEF DshInv, DshCalls, Polling
<1>20. ASSUME NEW s2 \in Sessions PROVE UpToCursor(s2)'
  <2> DEFINE c2 == adapter.seqs[s2]
             T2 == Dsh!Mapped(s2)
  <2>1. UpToCursor(s2)
    BY <1>4
  <2>2. Among(sink \o adapter.batch, Mine(adapter.used, s2)) = Dsh!Envelopes(adapter.used, s2, Among(Span(0, c2), T2))
    BY <2>1 DEF UpToCursor, Collected, Upto
  <2>3. s = s2 => c = c2 /\ Dsh!Mapped(s) = T2
    OBVIOUS
  <2> DEFINE k2 == IF s = s2 THEN k ELSE c2
  <2>4. Among((sink \o adapter.batch) \o es, Mine(adapter.used, s2)) = Dsh!Envelopes(adapter.used, s2, Among(Span(0, k2), T2))
    <3>1. es = Dsh!Envelopes(adapter.used, s, Among(Span(c, k), Dsh!Mapped(s)))
      BY <1>5, Zenon DEF es
    <3>2. adapter.used \in Transports /\ c \in Nat /\ k \in Nat /\ c <= k
      BY <1>4, <1>5
    <3> DEFINE l == sink \o adapter.batch
    <3>3. l \in Seq(Env(Transports)) /\ Among(l, Mine(adapter.used, s2)) = Dsh!Envelopes(adapter.used, s2, Among(Span(0, c2), T2))
      BY <1>12, <2>2
    <3> HIDE DEF c, c2, T2, l
    <3>4. Among(l \o Dsh!Envelopes(adapter.used, s, Among(Span(c, k), Dsh!Mapped(s))), Mine(adapter.used, s2))
            = Dsh!Envelopes(adapter.used, s2, Among(Span(0, IF s = s2 THEN k ELSE c2), T2))
      BY <1>3, <3>2, <3>3, <2>3, CollectMore
    <3> QED BY <3>1, <3>4, Zenon DEF l
  <2>5. adapter'.seqs[s2] = k2 /\ k2 <= Len(dsh.log[s2])
    BY <1>5, <1>15, <2>1 DEF UpToCursor
  <2>6. Collected(s2)' = Among(sink \o all, Mine(adapter.used, s2))
    BY <1>2, <1>13 DEF Collected
  <2>7. Dsh!Mapped(s2)' = T2 /\ Len(dsh.log[s2])' = Len(dsh.log[s2])
    BY <1>2 DEF Dsh!Mapped
  <2>8. (Dsh!Envelopes(adapter.used, s2, Upto(s2, adapter.seqs[s2])))' = Dsh!Envelopes(adapter.used, s2, Among(Span(0, k2), T2))
    BY <1>13, <2>5, <2>7 DEF Dsh!Envelopes, Upto
  <2> QED BY <1>11, <2>4, <2>5, <2>6, <2>7, <2>8, Zenon DEF UpToCursor
<1>21. DshCursors'
  BY <1>20 DEF DshCursors
<1> QED BY <1>16, <1>17, <1>18, <1>19, <1>21 DEF DshInv

LEMMA EmitBatchStep == ASSUME DshInv, Dsh!EmitBatch PROVE DshInv'
<1>1. /\ adapter.pc = "fetch" /\ UNCHANGED <<dsh, wire, sink>>
      /\ adapter' = [adapter EXCEPT !.pc = IF adapter.batch = <<>> THEN "wait" ELSE "emit"]
      /\ threads' = IF adapter.batch = <<>> THEN threads ELSE Dsh!Call("poll", adapter.batch)
  BY DEF Dsh!EmitBatch
<1>2. adapter \in Adapter /\ adapter.used \in Dsh!Polls /\ adapter.used # Nil
  BY <1>1, DshAssumption DEF DshInv, DshTypes, DshPhases, Polling, Dsh!Polls, Dsh!Mocks
<1>3. CASE adapter.batch = <<>>
  BY <1>1, <1>2, <1>3, AdapterMoves DEF DshInv, DshTypes, Adapter, Polling
<1>4. CASE adapter.batch # <<>>
  <2> DEFINE mine == [owner |-> "poll", envelopes |-> adapter.batch]
  <2>1. adapter' = [adapter EXCEPT !.pc = "emit"] /\ threads' = threads \cup {mine}
    BY <1>1, <1>4 DEF Dsh!Call
  <2>2. /\ adapter'.mode = adapter.mode /\ adapter'.used = adapter.used /\ adapter'.seqs = adapter.seqs
        /\ adapter'.batch = adapter.batch /\ adapter'.pc = "emit" /\ adapter' \in Adapter
    BY <1>2, <2>1 DEF Adapter
  <2>3. mine \in Thread
    BY <1>2 DEF Thread, Adapter
  <2>4. DshTypes'
    BY <1>1, <2>1, <2>2, <2>3 DEF DshInv, DshTypes
  <2>5. DshPhases'
    BY <1>1, <2>2 DEF DshInv, DshPhases, Polling
  <2>6. DshMocks'
    BY <1>1, <2>2, MocksKept DEF DshInv
  <2>7. Polling
    BY <1>1 DEF Polling
  <2>8. DshCalls'
    <3>1. \A t \in threads : t.owner # "poll" /\ t.envelopes \in Seq(Env(Streaming))
      BY <1>1, <2>7 DEF DshInv, DshCalls
    <3>2. \A t \in threads' : t \in threads \/ t = mine
      BY <2>1
    <3>3. mine.owner = "poll" /\ mine.envelopes = adapter.batch /\ mine \in threads'
      BY <2>1
    <3>4. Polling' /\ adapter.batch \in Seq(Env({adapter.used}))
      BY <2>2, <2>7 DEF DshInv, DshCalls, Polling
    <3> HIDE DEF mine
    <3> QED BY <1>2, <1>4, <2>2, <3>1, <3>2, <3>3, <3>4 DEF DshCalls
  <2>9. DshCursors'
    BY <1>1, <2>2, <2>7, CursorsKept DEF DshInv
  <2> QED BY <2>4, <2>5, <2>6, <2>8, <2>9 DEF DshInv
<1> QED BY <1>3, <1>4

\* A call of the poller ends, and its batch has arrived.
LEMMA PollCallEnds ==
  ASSUME DshInv, NEW t \in threads, t.owner = "poll", threads' = threads \ {t},
         sink' = sink \o t.envelopes, adapter' = [adapter EXCEPT !.pc = "wait", !.batch = <<>>],
         UNCHANGED <<dsh, wire>>
  PROVE  DshInv'
<1>1. adapter.pc = "emit" /\ t.envelopes = adapter.batch /\ Polling
  BY DEF DshInv, DshCalls, Polling
<1>2. adapter \in Adapter /\ sink \in Seq(Env(Transports)) /\ adapter.batch \in Seq(Env(Transports))
  BY DEF DshInv, DshTypes, Adapter
<1>3. <<>> \in Seq(Env(Transports)) /\ <<>> \in Seq(Env({adapter.used}))
  OBVIOUS
<1>4. /\ adapter'.mode = adapter.mode /\ adapter'.used = adapter.used /\ adapter'.seqs = adapter.seqs
      /\ adapter'.batch = <<>> /\ adapter'.pc = "wait" /\ adapter' \in Adapter
  BY <1>2, <1>3 DEF Adapter
<1> DEFINE b == adapter.batch
<1>5. b \in Seq(Env(Transports)) /\ sink' = sink \o b
  BY <1>1, <1>2
<1> HIDE DEF b
<1>6. sink' \in Seq(Env(Transports)) /\ sink' \o <<>> = sink \o b
  BY <1>2, <1>5, ConcatProperties, ConcatEmptySeq
<1>7. DshTypes'
  BY <1>4, <1>6 DEF DshInv, DshTypes
<1>8. DshPhases'
  BY <1>1, <1>4 DEF DshInv, DshPhases, Polling
<1>9. DshMocks'
  BY <1>4, MocksKept DEF DshInv
<1>10. DshCalls'
  <2>1. \A u \in threads' : u.owner # "poll"
    <3>1. ASSUME NEW u \in threads, u.owner = "poll" PROVE u = t
      <4>1. u.envelopes = adapter.batch
        BY <3>1 DEF DshInv, DshCalls
      <4>2. u \in Thread /\ t \in Thread
        BY DEF DshInv, DshTypes
      <4> QED BY <1>1, <3>1, <4>1, <4>2 DEF Thread
    <3> QED BY <3>1
  <2>2. \A u \in threads' : u.envelopes \in Seq(Env(Streaming))
    BY <1>1, <2>1 DEF DshInv, DshCalls
  <2>3. adapter.used \in Dsh!Polls
    BY <1>1 DEF DshInv, DshPhases
  <2> QED BY <1>3, <1>4, <2>1, <2>2, <2>3 DEF DshCalls
<1>11. ASSUME NEW s \in Sessions PROVE UpToCursor(s)'
  <2>1. UpToCursor(s)
    BY <1>1 DEF DshInv, DshCursors
  <2>2. Collected(s)' = Among(sink' \o <<>>, Mine(adapter.used, s))
    BY <1>4 DEF Collected
  <2>3. Collected(s)' = Collected(s)
    BY <1>6, <2>2 DEF Collected, b
  <2>4. (Dsh!Envelopes(adapter.used, s, Upto(s, adapter.seqs[s])))' = Dsh!Envelopes(adapter.used, s, Upto(s, adapter.seqs[s]))
    BY <1>4 DEF Dsh!Envelopes, Upto, Dsh!Mapped
  <2> QED BY <1>4, <2>1, <2>3, <2>4 DEF UpToCursor
<1>12. DshCursors'
  BY <1>11 DEF DshCursors
<1> QED BY <1>7, <1>8, <1>9, <1>10, <1>12 DEF DshInv

\* What another call hands over is not the poller's.
LEMMA OtherCallEnds ==
  ASSUME DshInv, NEW t \in threads, t.owner # "poll", threads' = threads \ {t},
         sink' = sink \o t.envelopes, UNCHANGED <<dsh, adapter, wire>>
  PROVE  DshInv'
<1> DEFINE es == t.envelopes
           b == adapter.batch
<1>1. es \in Seq(Env(Transports)) /\ sink \in Seq(Env(Transports)) /\ b \in Seq(Env(Transports)) /\ sink' = sink \o es
  BY DEF DshInv, DshTypes, Adapter, Thread
<1>2. Polling \/ adapter.used \notin Dsh!Polls => es \in Seq(Env(Streaming))
  BY DEF DshInv, DshCalls
<1>3. adapter.used \notin Dsh!Polls => sink \in Seq(Env(Streaming))
  BY DEF DshInv, DshCalls
<1> HIDE DEF es, b
<1>4. sink' \in Seq(Env(Transports))
  BY <1>1, ConcatProperties
<1>5. adapter.used \notin Dsh!Polls => sink' \in Seq(Env(Streaming))
  BY <1>1, <1>2, <1>3, ConcatProperties
<1>6. DshTypes'
  BY <1>4 DEF DshInv, DshTypes
<1>7. DshPhases' /\ DshMocks'
  BY DEF DshInv, DshPhases, DshMocks, Polling
<1>8. DshCalls'
  BY <1>5 DEF DshInv, DshCalls, Polling
<1>9. ASSUME Polling, NEW s \in Sessions PROVE UpToCursor(s)'
  <2> DEFINE M == Mine(adapter.used, s)
  <2>1. UpToCursor(s)
    BY <1>9 DEF DshInv, DshCursors
  <2>2. adapter.used \notin Streaming
    BY <1>9 DEF DshInv, DshPhases, Streaming, Dsh!Polls, Dsh!Mocks
  <2>3. Among(es, M) = <<>>
    BY <1>2, <1>9, <2>2, StreamedAreOthers
  <2> HIDE DEF M
  <2>4. Among(sink \o es, M) = Among(sink, M) \o Among(es, M)
    BY <1>1, AmongConcat
  <2>5. Among(sink, M) \in Seq(Env(Transports))
    BY <1>1, AmongType
  <2>6. Among(sink', M) = Among(sink, M)
    BY <1>1, <2>3, <2>4, <2>5, ConcatEmptySeq
  <2>7. Among(sink' \o b, M) = Among(sink', M) \o Among(b, M)
    <3> DEFINE l == sink \o es
    <3>1. sink' = l
      BY <1>1
    <3>2. l \in Seq(Env(Transports)) /\ b \in Seq(Env(Transports))
      BY <1>1, <1>4, <3>1
    <3> HIDE DEF l
    <3>3. Among(l \o b, M) = Among(l, M) \o Among(b, M)
      BY <3>2, AmongConcat
    <3> QED BY <3>1, <3>3
  <2>8. Among(sink \o b, M) = Among(sink, M) \o Among(b, M)
    BY <1>1, AmongConcat
  <2>9. Among(sink' \o b, M) = Among(sink \o b, M)
    BY <2>6, <2>7, <2>8
  <2>10. Collected(s)' = Collected(s)
    BY <2>9 DEF Collected, b, M
  <2>11. (Dsh!Envelopes(adapter.used, s, Upto(s, adapter.seqs[s])))' = Dsh!Envelopes(adapter.used, s, Upto(s, adapter.seqs[s]))
    BY DEF Dsh!Envelopes, Upto, Dsh!Mapped
  <2> QED BY <2>1, <2>10, <2>11 DEF UpToCursor
<1>10. DshCursors'
  BY <1>9 DEF DshCursors, Polling
<1> QED BY <1>6, <1>7, <1>8, <1>10 DEF DshInv

LEMMA CallEndsStep == ASSUME DshInv, Dsh!CallEnds PROVE DshInv'
<1>1. PICK t \in threads :
        /\ threads' = threads \ {t} /\ sink' = sink \o t.envelopes
        /\ adapter' = IF t.owner = "poll" THEN [adapter EXCEPT !.pc = "wait", !.batch = <<>>] ELSE adapter
        /\ UNCHANGED <<dsh, wire>>
  BY DEF Dsh!CallEnds
<1>2. CASE t.owner = "poll"
  BY <1>1, <1>2, PollCallEnds
<1>3. CASE t.owner # "poll"
  BY <1>1, <1>3, OtherCallEnds
<1> QED BY <1>2, <1>3

\* What DSH logs and closes leaves the calls and the adapter alone.
LEMMA DshGrows ==
  ASSUME DshInv, adapter.mode \notin Dsh!Mocks \/ dsh'.log = dsh.log,
         dsh' \in [live : SUBSET Sessions, log : [Sessions -> Seq(Dsh!Kinds)]],
         \A s \in Sessions : /\ Len(dsh.log[s]) <= Len(dsh'.log[s])
                             /\ \A n \in 1 .. Len(dsh.log[s]) : dsh'.log[s][n] = dsh.log[s][n],
         wire' \in [Dsh!Streams -> Seq(Frame)], UNCHANGED <<adapter, threads, sink>>
  PROVE  DshInv'
<1>1. DshTypes'
  BY DEF DshInv, DshTypes
<1>2. DshPhases' /\ DshCalls'
  BY DEF DshInv, DshPhases, DshCalls, Polling
<1>3. DshMocks'
  BY DEF DshInv, DshMocks
<1>4. ASSUME Polling, NEW s \in Sessions PROVE UpToCursor(s)'
  <2> DEFINE c == adapter.seqs[s]
             T == Dsh!Mapped(s)
             U == {n \in 1 .. Len(dsh'.log[s]) : dsh'.log[s][n] = "mapped"}
  <2>1. UpToCursor(s)
    BY <1>4 DEF DshInv, DshCursors
  <2>2. c \in Nat /\ c <= Len(dsh.log[s]) /\ Len(dsh.log[s]) \in Nat /\ Len(dsh'.log[s]) \in Nat
    BY <2>1 DEF UpToCursor, DshInv, DshTypes, Adapter
  <2>3. (1 .. c) \cap T = (1 .. c) \cap U
    BY <2>2 DEF Dsh!Mapped
  <2> HIDE DEF c, T, U
  <2>4. Span(0, c) \in Seq(0 + 1 .. c)
    BY <2>2, SpanType
  <2>5. Span(0, c) \in Seq(1 .. c)
    BY <2>4
  <2>6. Among(Span(0, c), T) = Among(Span(0, c), U)
    <3> DEFINE D == 1 .. c
               l == Span(0, c)
    <3>1. D \cap T = D \cap U /\ l \in Seq(D)
      BY <2>3, <2>5
    <3> HIDE DEF D, l
    <3>2. Among(l, T) = Among(l, U)
      BY <3>1, AmongSame
    <3> QED BY <3>2 DEF l
  <2>7. Upto(s, adapter.seqs[s]) = Among(Span(0, c), T) /\ Upto(s, adapter.seqs[s])' = Among(Span(0, c), U)
    BY DEF Upto, c, T, U, Dsh!Mapped
  <2>8. (Dsh!Envelopes(adapter.used, s, Upto(s, adapter.seqs[s])))' = Dsh!Envelopes(adapter.used, s, Upto(s, adapter.seqs[s]))
    BY <2>6, <2>7 DEF Dsh!Envelopes
  <2>9. Collected(s)' = Collected(s)
    BY DEF Collected
  <2>10. adapter'.seqs[s] <= Len(dsh'.log[s])
    BY <2>2 DEF c
  <2> QED BY <2>1, <2>8, <2>9, <2>10 DEF UpToCursor
<1>5. DshCursors'
  BY <1>4 DEF DshCursors, Polling
<1> QED BY <1>1, <1>2, <1>3, <1>5 DEF DshInv

\* A frame that DSH sends.
LEMMA PushType ==
  ASSUME DshTypes, NEW st \in Dsh!Streams, NEW frame \in Frame
  PROVE  Dsh!Push(st, frame) \in [Dsh!Streams -> Seq(Frame)]
<1>1. Append(wire[st], frame) \in Seq(Frame)
  BY AppendProperties DEF DshTypes
<1> QED BY <1>1 DEF Dsh!Push, DshTypes

LEMMA LogEventStep == ASSUME DshInv, Dsh!LogEvent PROVE DshInv'
<1>1. PICK s \in dsh.live, k \in Dsh!Kinds :
        /\ dsh' = [dsh EXCEPT !.log[s] = Append(@, k)]
        /\ wire' = Dsh!Push("mux", [type |-> "event", s |-> s, n |-> Len(dsh.log[s]) + 1])
  BY DEF Dsh!LogEvent
<1>2. adapter.mode \notin Dsh!Mocks /\ UNCHANGED <<adapter, threads, sink>>
  BY DEF Dsh!LogEvent
<1>3. s \in Sessions /\ dsh \in [live : SUBSET Sessions, log : [Sessions -> Seq(Dsh!Kinds)]]
  BY DEF DshInv, DshTypes
<1>4. dsh.log[s] \in Seq(Dsh!Kinds) /\ Len(dsh.log[s]) \in Nat
  BY <1>3
<1> DEFINE l == Append(dsh.log[s], k)
<1>5. /\ l \in Seq(Dsh!Kinds) /\ Len(l) = Len(dsh.log[s]) + 1
      /\ \A n \in 1 .. Len(dsh.log[s]) : l[n] = dsh.log[s][n]
  BY <1>4, AppendProperties
<1>6. dsh' = [dsh EXCEPT !.log[s] = l]
  BY <1>1
<1> HIDE DEF l
<1>7. dsh'.log = [dsh.log EXCEPT ![s] = l] /\ dsh'.live = dsh.live
      /\ dsh' \in [live : SUBSET Sessions, log : [Sessions -> Seq(Dsh!Kinds)]]
  BY <1>3, <1>5, <1>6
<1>8. ASSUME NEW s2 \in Sessions
      PROVE  /\ Len(dsh.log[s2]) <= Len(dsh'.log[s2])
             /\ \A n \in 1 .. Len(dsh.log[s2]) : dsh'.log[s2][n] = dsh.log[s2][n]
  <2>1. CASE s2 = s
    BY <1>3, <1>4, <1>5, <1>7, <2>1
  <2>2. CASE s2 # s
    <3>1. dsh'.log[s2] = dsh.log[s2] /\ Len(dsh.log[s2]) \in Nat
      BY <1>3, <1>7, <2>2
    <3> QED BY <3>1
  <2> QED BY <2>1, <2>2
<1>9. wire' \in [Dsh!Streams -> Seq(Frame)]
  <2>1. [type |-> "event", s |-> s, n |-> Len(dsh.log[s]) + 1] \in Frame /\ "mux" \in Dsh!Streams
    BY <1>3, <1>4 DEF Frame, Dsh!Streams
  <2> QED BY <1>1, <2>1, PushType DEF DshInv
<1> QED BY <1>2, <1>7, <1>8, <1>9, DshGrows

LEMMA CloseSessionStep == ASSUME DshInv, Dsh!CloseSession PROVE DshInv'
<1>1. PICK s \in dsh.live :
        /\ dsh' = [dsh EXCEPT !.live = @ \ {s}]
        /\ wire' = Dsh!Push("host", [type |-> "removed", s |-> s])
  BY DEF Dsh!CloseSession
<1>2. UNCHANGED <<adapter, threads, sink>>
  BY DEF Dsh!CloseSession
<1>3. s \in Sessions /\ dsh \in [live : SUBSET Sessions, log : [Sessions -> Seq(Dsh!Kinds)]]
  BY DEF DshInv, DshTypes
<1>4. dsh'.log = dsh.log /\ dsh' \in [live : SUBSET Sessions, log : [Sessions -> Seq(Dsh!Kinds)]]
  BY <1>1, <1>3
<1>5. \A s2 \in Sessions : Len(dsh.log[s2]) \in Nat
  BY <1>3
<1>6. wire' \in [Dsh!Streams -> Seq(Frame)]
  <2>1. [type |-> "removed", s |-> s] \in Frame /\ "host" \in Dsh!Streams
    BY <1>3 DEF Frame, Dsh!Streams
  <2> QED BY <1>1, <2>1, PushType DEF DshInv
<1> QED BY <1>2, <1>4, <1>5, <1>6, DshGrows

\* A frame is read: of streams that are connected, which do not poll.
LEMMA FrameStep == ASSUME DshInv, NEW t, Dsh!HandleFrame(t) PROVE DshInv'
<1>1. PICK st \in Dsh!Streams :
        /\ Dsh!Connected /\ adapter.used = t /\ wire[st] # <<>> /\ ~Dsh!Waits(st)
        /\ IF adapter.shutdown THEN Dsh!Leave("over")
           ELSE LET f == Head(wire[st]) IN
             /\ wire' = [wire EXCEPT ![st] = Tail(@)]
             /\ adapter' = CASE f.type = "subscribed" /\ adapter.seqs[f.s] < f.n -> [adapter EXCEPT !.seqs[f.s] = f.n]
                             [] f.type = "removed" -> [adapter EXCEPT !.seqs[f.s] = 0, !.known = @ \ {f.s}]
                             [] OTHER -> adapter
             /\ threads' = IF f.type = "event" /\ dsh.log[f.s][f.n] = "mapped"
                           THEN Dsh!Call(st, Dsh!Envelopes(adapter.used, f.s, <<f.n>>)) ELSE threads
  BY DEF Dsh!HandleFrame
<1>2. UNCHANGED <<dsh, sink>>
  BY DEF Dsh!HandleFrame
<1>3. CASE adapter.shutdown
  BY <1>1, <1>2, <1>3, LeaveStep
<1>4. CASE ~adapter.shutdown
  <2> DEFINE f == Head(wire[st])
             es == Dsh!Envelopes(adapter.used, f.s, <<f.n>>)
             seen == f.type = "event" /\ dsh.log[f.s][f.n] = "mapped"
  <2>1. wire[st] \in Seq(Frame) /\ wire[st] # <<>>
    BY <1>1 DEF DshInv, DshTypes
  <2>2. f \in Frame /\ Tail(wire[st]) \in Seq(Frame)
    BY <2>1, RestOf
  <2>3. wire' = [wire EXCEPT ![st] = Tail(wire[st])]
    BY <1>1, <1>4
  <2>4. wire' \in [Dsh!Streams -> Seq(Frame)]
    BY <2>2, <2>3 DEF DshInv, DshTypes
  <2>5. adapter' = CASE f.type = "subscribed" /\ adapter.seqs[f.s] < f.n -> [adapter EXCEPT !.seqs[f.s] = f.n]
                     [] f.type = "removed" -> [adapter EXCEPT !.seqs[f.s] = 0, !.known = @ \ {f.s}]
                     [] OTHER -> adapter
    BY <1>1, <1>4
  <2>6. threads' = IF seen THEN threads \cup {[owner |-> st, envelopes |-> es]} ELSE threads
    BY <1>1, <1>4 DEF Dsh!Call
  <2>7. /\ adapter \in Adapter /\ adapter.pc = "connected" /\ adapter.used \in Streaming
        /\ adapter.used \notin Dsh!Polls /\ adapter.mode \notin Dsh!Mocks /\ ~Polling
    BY <1>1, DshAssumption DEF DshInv, DshTypes, DshPhases, Dsh!Connected, Streaming, Dsh!Polls, Dsh!Mocks, Polling
  <2>8. f.s \in Sessions /\ f.type \in {"event", "subscribed", "removed"}
        /\ (f.type # "removed" => f.n \in Nat)
    <3> HIDE DEF f
    <3> QED BY <2>2 DEF Frame
  <2> HIDE DEF f
  <2>9. seen => es \in Seq(Env(Streaming))
    <3> SUFFICES ASSUME seen PROVE es \in Seq(Env(Streaming))
      OBVIOUS
    <3> DEFINE ns == <<f.n>>
    <3>1. ns \in Seq(Nat)
      BY <2>8
    <3>2. es = Dsh!Envelopes(adapter.used, f.s, ns)
      OBVIOUS
    <3>3. Env({adapter.used}) \subseteq Env(Streaming)
      BY <2>7 DEF Env
    <3> HIDE DEF ns, es
    <3>4. es \in Seq(Env({adapter.used}))
      BY <2>8, <3>1, <3>2, EnvelopesType
    <3> QED BY <3>3, <3>4, InMore
  <2> HIDE DEF es, seen
  <2>10. \E q \in [Sessions -> Nat], kn \in SUBSET Sessions : adapter' = [adapter EXCEPT !.seqs = q, !.known = kn]
    <3>1. CASE f.type = "subscribed" /\ adapter.seqs[f.s] < f.n
      <4>1. adapter' = [adapter EXCEPT !.seqs[f.s] = f.n]
        BY <2>5, <3>1
      <4>2. adapter' = [adapter EXCEPT !.seqs = [adapter.seqs EXCEPT ![f.s] = f.n], !.known = adapter.known]
        BY <2>7, <4>1 DEF Adapter
      <4>3. [adapter.seqs EXCEPT ![f.s] = f.n] \in [Sessions -> Nat] /\ adapter.known \in SUBSET Sessions
        BY <2>7, <2>8, <3>1 DEF Adapter
      <4> QED BY <4>2, <4>3
    <3>2. CASE f.type = "removed"
      <4>1. adapter' = [adapter EXCEPT !.seqs[f.s] = 0, !.known = @ \ {f.s}]
        BY <2>5, <3>2
      <4>2. adapter' = [adapter EXCEPT !.seqs = [adapter.seqs EXCEPT ![f.s] = 0], !.known = adapter.known \ {f.s}]
        BY <2>7, <4>1 DEF Adapter
      <4>3. [adapter.seqs EXCEPT ![f.s] = 0] \in [Sessions -> Nat] /\ adapter.known \ {f.s} \in SUBSET Sessions
        BY <2>7, <2>8 DEF Adapter
      <4> QED BY <4>2, <4>3
    <3>3. CASE ~(f.type = "subscribed" /\ adapter.seqs[f.s] < f.n) /\ f.type # "removed"
      <4>1. adapter' = adapter
        BY <2>5, <3>3
      <4>2. adapter' = [adapter EXCEPT !.seqs = adapter.seqs, !.known = adapter.known]
        BY <2>7, <4>1 DEF Adapter
      <4>3. adapter.seqs \in [Sessions -> Nat] /\ adapter.known \in SUBSET Sessions
        BY <2>7 DEF Adapter
      <4> QED BY <4>2, <4>3
    <3> QED BY <3>1, <3>2, <3>3
  <2>11. PICK q \in [Sessions -> Nat], kn \in SUBSET Sessions : adapter' = [adapter EXCEPT !.seqs = q, !.known = kn]
    BY <2>10
  <2>12. /\ adapter' \in Adapter /\ adapter'.mode = adapter.mode /\ adapter'.used = adapter.used
         /\ adapter'.pc = "connected" /\ adapter'.batch = adapter.batch
    BY <2>7, <2>11 DEF Adapter
  <2>13. ASSUME NEW u \in threads', u \notin threads
         PROVE  u.owner = st /\ u.envelopes \in Seq(Env(Streaming)) /\ u \in Thread
    <3>1. seen /\ u = [owner |-> st, envelopes |-> es]
      BY <2>6, <2>13
    <3>2. Env(Streaming) \subseteq Env(Transports)
      BY DEF Env, Transports
    <3>3. es \in Seq(Env(Streaming)) /\ es \in Seq(Env(Transports))
      BY <2>9, <3>1, <3>2, InMore
    <3> QED BY <3>1, <3>3 DEF Thread
  <2>14. DshTypes'
    BY <1>2, <2>4, <2>12, <2>13 DEF DshInv, DshTypes
  <2>15. ~Polling'
    BY <2>12 DEF Polling
  <2>16. DshPhases'
    BY <2>7, <2>12, <2>15 DEF DshInv, DshPhases
  <2>17. DshMocks' /\ DshCursors'
    BY <2>7, <2>12, <2>15 DEF DshMocks, DshCursors
  <2>18. DshCalls'
    <3>1. \A u \in threads : u.owner # "poll" /\ u.envelopes \in Seq(Env(Streaming))
      BY <2>7 DEF DshInv, DshCalls
    <3>2. st # "poll"
      BY DEF Dsh!Streams
    <3>3. \A u \in threads' : u.owner # "poll" /\ u.envelopes \in Seq(Env(Streaming))
      BY <2>13, <3>1, <3>2
    <3>4. sink' \in Seq(Env(Streaming))
      BY <1>2, <2>7 DEF DshInv, DshCalls
    <3> QED BY <2>12, <2>15, <3>3, <3>4 DEF DshCalls
  <2> QED BY <2>14, <2>16, <2>17, <2>18 DEF DshInv
<1> QED BY <1>3, <1>4

\* A mock makes up the events it hands over.
LEMMA MockStep == ASSUME DshInv, NEW via \in Dsh!Mocks, Dsh!Mock(via) PROVE DshInv'
<1>1. PICK s \in Sessions, burst \in 1 .. 4 :
        /\ LET ns == [i \in 1 .. burst |-> adapter.seqs[s] + i]
               es == Dsh!Envelopes(via, s, ns) IN
             /\ adapter' = [adapter EXCEPT !.known = {s}, !.seqs[s] = @ + burst, !.batch = es, !.pc = "emit"]
             /\ threads' = Dsh!Call("poll", es)
        /\ dsh' = [dsh EXCEPT !.log[s] = @ \o Dsh!MockEvents(burst)]
        /\ adapter.pc = "cycle" /\ adapter.used = via
  BY DEF Dsh!Mock
<1>2. UNCHANGED <<wire, sink>>
  BY DEF Dsh!Mock
<1> DEFINE c == adapter.seqs[s]
           k == c + burst
           ns == [i \in 1 .. burst |-> adapter.seqs[s] + i]
           es == Dsh!Envelopes(via, s, ns)
           more == dsh.log[s] \o Dsh!MockEvents(burst)
           mine == [owner |-> "poll", envelopes |-> es]
<1>3. /\ adapter \in Adapter /\ adapter.mode = via /\ adapter.batch = <<>> /\ Polling
      /\ via \in Dsh!Polls /\ via \in Transports
      /\ dsh \in [live : SUBSET Sessions, log : [Sessions -> Seq(Dsh!Kinds)]]
      /\ sink \in Seq(Env(Transports))
  BY <1>1, DshAssumption DEF DshInv, DshTypes, DshPhases, DshCalls, Polling, Dsh!Polls, Dsh!Mocks, Transports
<1>4. /\ c \in Nat /\ c = Len(dsh.log[s]) /\ \A n \in 1 .. c : dsh.log[s][n] = "mapped"
      /\ \A s2 \in Sessions : UpToCursor(s2)
  BY <1>3 DEF DshInv, DshMocks, DshCursors, Adapter
<1>5. burst \in Nat /\ burst >= 1 /\ k \in Nat /\ c <= k
  <2>1. c \in Nat
    BY <1>4
  <2> HIDE DEF c
  <2> QED BY <2>1
<1>6. /\ adapter' = [adapter EXCEPT !.known = {s}, !.seqs[s] = k, !.batch = es, !.pc = "emit"]
      /\ threads' = threads \cup {mine} /\ dsh' = [dsh EXCEPT !.log[s] = more]
  BY <1>1 DEF Dsh!Call
<1>7. ns = Span(c, k)
  <2>1. k - c = burst
    BY <1>4, <1>5
  <2> QED BY <2>1, Zenon DEF Span
<1>8. /\ more \in Seq(Dsh!Kinds) /\ Len(more) = k
      /\ \A n \in 1 .. k : more[n] = "mapped"
  <2> DEFINE l == dsh.log[s]
             m == Dsh!MockEvents(burst)
  <2>1. l \in Seq(Dsh!Kinds) /\ Len(l) = c
    BY <1>3, <1>4
  <2>2. m \in Seq(Dsh!Kinds) /\ Len(m) = burst /\ \A n \in 1 .. burst : m[n] = "mapped"
    BY <1>5 DEF Dsh!MockEvents, Dsh!Kinds
  <2>3. \A n \in 1 .. c : l[n] = "mapped"
    BY <1>4
  <2> HIDE DEF l, m, c
  <2>4. /\ l \o m \in Seq(Dsh!Kinds) /\ Len(l \o m) = Len(l) + Len(m)
        /\ \A n \in 1 .. Len(l) + Len(m) : (l \o m)[n] = IF n <= Len(l) THEN l[n] ELSE m[n - Len(l)]
    BY <2>1, <2>2, ConcatProperties
  <2>5. c \in Nat /\ k = c + burst
    BY <1>4
  <2> HIDE DEF k
  <2>6. \A n \in 1 .. k : (l \o m)[n] = "mapped"
    BY <1>5, <2>1, <2>2, <2>3, <2>4, <2>5
  <2> QED BY <2>1, <2>2, <2>4, <2>5, <2>6 DEF l, m
<1> HIDE DEF more
<1>9. ns \in Seq(Nat) /\ Len(ns) = burst
  <2>1. Span(c, k) \in Seq(Nat) /\ Len(Span(c, k)) = k - c
    <3> HIDE DEF c, k
    <3> QED BY <1>4, <1>5, SpanType
  <2> QED BY <1>4, <1>5, <1>7, <2>1
<1> HIDE DEF ns
<1>10. es \in Seq(Env({via})) /\ Len(es) = burst
  BY <1>9, EnvelopesType
<1> HIDE DEF es
<1>11. es # <<>> /\ es \in Seq(Env(Transports))
  <2>1. Env({via}) \subseteq Env(Transports)
    BY <1>3 DEF Env
  <2>2. es # <<>>
    BY <1>5, <1>10
  <2> QED BY <1>10, <2>1, <2>2, InMore
<1>12. /\ adapter'.mode = adapter.mode /\ adapter'.used = via /\ adapter'.pc = "emit" /\ adapter'.batch = es
       /\ adapter'.seqs = [adapter.seqs EXCEPT ![s] = k]
  BY <1>1, <1>3, <1>6 DEF Adapter
<1>13. adapter' \in Adapter
  <2>1. [adapter.seqs EXCEPT ![s] = k] \in [Sessions -> Nat] /\ {s} \in SUBSET Sessions
    BY <1>3, <1>5 DEF Adapter
  <2> HIDE DEF k
  <2>2. adapter' = [adapter EXCEPT !.known = {s}, !.seqs = [adapter.seqs EXCEPT ![s] = k], !.batch = es, !.pc = "emit"]
    BY <1>3, <1>6 DEF Adapter
  <2> QED BY <1>3, <1>11, <2>1, <2>2 DEF Adapter
<1>14. /\ dsh' \in [live : SUBSET Sessions, log : [Sessions -> Seq(Dsh!Kinds)]]
       /\ \A s2 \in Sessions : dsh'.log[s2] = IF s2 = s THEN more ELSE dsh.log[s2]
  BY <1>3, <1>6, <1>8
<1>15. \A s2 \in Sessions : adapter'.seqs[s2] = IF s2 = s THEN k ELSE adapter.seqs[s2]
  BY <1>3, <1>12 DEF Adapter
<1> HIDE DEF mine
<1>16. mine \in Thread /\ mine.owner = "poll" /\ mine.envelopes = es
  BY <1>11 DEF Thread, mine
<1>17. DshTypes'
  BY <1>2, <1>6, <1>13, <1>14, <1>16 DEF DshInv, DshTypes
<1>18. DshPhases'
  BY <1>1, <1>3, <1>12 DEF DshInv, DshPhases, Polling, Dsh!Mocks
<1>19. DshMocks'
  BY <1>3, <1>8, <1>12, <1>14, <1>15 DEF DshInv, DshMocks
<1>20. DshCalls'
  <2>1. \A u \in threads : u.owner # "poll" /\ u.envelopes \in Seq(Env(Streaming))
    BY <1>1, <1>3 DEF DshInv, DshCalls
  <2>2. \A u \in threads' : u \in threads \/ u = mine
    BY <1>6
  <2>3. mine \in threads'
    BY <1>6
  <2> QED BY <1>3, <1>10, <1>11, <1>12, <1>16, <2>1, <2>2, <2>3 DEF DshCalls
<1>21. Span(c, k) = Among(Span(c, k), 1 .. k)
  <2> HIDE DEF c, k
  <2>1. Span(c, k) \in Seq(c + 1 .. k)
    BY <1>4, <1>5, SpanType
  <2> DEFINE D == c + 1 .. k
             A == 1 .. k
             l == Span(c, k)
  <2>2. D \subseteq A /\ l \in Seq(D)
    BY <1>4, <1>5, <2>1
  <2> HIDE DEF D, A, l
  <2>3. Among(l, A) = l
    BY <2>2, AmongAll
  <2> QED BY <2>3 DEF A, l
<1>22. Among(Span(0, c), Dsh!Mapped(s)) = Among(Span(0, c), 1 .. k)
  <2>1. Dsh!Mapped(s) = 1 .. c
    BY <1>4 DEF Dsh!Mapped
  <2> HIDE DEF c, k
  <2>2. Span(0, c) \in Seq(0 + 1 .. c)
    <3>1. 0 \in Nat /\ c \in Nat /\ 0 <= c
      BY <1>4 DEF c
    <3> QED BY <3>1, SpanType
  <2> DEFINE D == 1 .. c
             A == 1 .. k
             l == Span(0, c)
  <2>3. l \in Seq(D) /\ D \cap D = D \cap A
    BY <1>4, <1>5, <2>2
  <2> HIDE DEF D, A, l
  <2>4. Among(l, D) = Among(l, A)
    BY <2>3, AmongSame
  <2> QED BY <2>1, <2>4 DEF D, A, l
<1>23. ASSUME NEW s2 \in Sessions PROVE UpToCursor(s2)'
  <2> DEFINE c2 == adapter.seqs[s2]
             T == 1 .. k
             T2 == IF s2 = s THEN T ELSE Dsh!Mapped(s2)
             k2 == IF s = s2 THEN k ELSE c2
  <2>1. UpToCursor(s2) /\ s = s2 => c = c2
    BY <1>4
  <2>2. sink \o <<>> = sink
    BY <1>3, ConcatEmptySeq
  <2>3. Among(sink, Mine(via, s2)) = Dsh!Envelopes(via, s2, Among(Span(0, c2), Dsh!Mapped(s2)))
    BY <1>1, <1>3, <1>4, <2>2 DEF UpToCursor, Collected, Upto
  <2>4. Among(Span(0, c2), Dsh!Mapped(s2)) = Among(Span(0, c2), T2)
    <3>1. CASE s2 = s
      BY <1>22, <3>1, Zenon
    <3>2. CASE s2 # s
      BY <3>2, Zenon
    <3> QED BY <3>1, <3>2
  <2>5. s = s2 => c = c2 /\ T = T2
    OBVIOUS
  <2>6. Dsh!Mapped(s2)' = T2
    <3>1. CASE s2 = s
      <4>1. dsh'.log[s2] = more
        BY <1>14, <3>1
      <4>2. {n \in 1 .. Len(more) : more[n] = "mapped"} = 1 .. k
        BY <1>8
      <4> QED BY <3>1, <4>1, <4>2 DEF Dsh!Mapped
    <3>2. CASE s2 # s
      BY <1>14, <3>2 DEF Dsh!Mapped
    <3> QED BY <3>1, <3>2
  <2>7. adapter'.seqs[s2] = k2
    BY <1>15
  <2>8. k2 <= Len(dsh'.log[s2])
    BY <1>4, <1>5, <1>8, <1>14 DEF UpToCursor
  <2>9. es = Dsh!Envelopes(via, s, Among(Span(c, k), T))
    BY <1>7, <1>21, Zenon DEF es
  <2> HIDE DEF c, k, c2, T, T2
  <2>10. Among(sink, Mine(via, s2)) = Dsh!Envelopes(via, s2, Among(Span(0, c2), T2))
    BY <2>3, <2>4
  <2>11. Among(sink \o Dsh!Envelopes(via, s, Among(Span(c, k), T)), Mine(via, s2))
           = Dsh!Envelopes(via, s2, Among(Span(0, IF s = s2 THEN k ELSE c2), T2))
    BY <1>3, <1>4, <1>5, <2>5, <2>10, CollectMore
  <2>12. Collected(s2)' = Among(sink \o es, Mine(via, s2))
    BY <1>2, <1>12 DEF Collected
  <2>13. (Dsh!Envelopes(adapter.used, s2, Upto(s2, adapter.seqs[s2])))' = Dsh!Envelopes(via, s2, Among(Span(0, k2), T2))
    BY <1>12, <2>6, <2>7 DEF Dsh!Envelopes, Upto
  <2>14. Collected(s2)' = Dsh!Envelopes(via, s2, Among(Span(0, k2), T2))
    BY <2>9, <2>11, <2>12, Zenon
  <2> QED BY <2>7, <2>8, <2>13, <2>14, Zenon DEF UpToCursor
<1>24. DshCursors'
  BY <1>23 DEF DshCursors
<1> QED BY <1>17, <1>18, <1>19, <1>20, <1>24 DEF DshInv

LEMMA DshStep == DshInv /\ [Dsh!Next]_dshVars => DshInv'
<1> SUFFICES ASSUME DshInv, [Dsh!Next]_dshVars PROVE DshInv'
  OBVIOUS
<1>1. CASE UNCHANGED dshVars
  <2>1. dsh' = dsh /\ adapter' = adapter /\ wire' = wire /\ threads' = threads /\ sink' = sink
    BY <1>1 DEF dshVars
  <2>2. DshTypes' /\ DshPhases'
    BY <2>1 DEF DshInv, DshTypes, DshPhases, Polling
  <2>3. DshMocks' /\ DshCalls'
    BY <2>1 DEF DshInv, DshMocks, DshCalls, Polling
  <2>4. DshCursors'
    BY <2>1, CursorsKept DEF DshInv, Polling
  <2> QED BY <2>2, <2>3, <2>4 DEF DshInv
<1>2. CASE Dsh!Start
  BY <1>2, StartStep
<1>3. CASE Dsh!PollSessions
  BY <1>3, PollSessionsStep
<1>4. CASE Dsh!PollSession
  BY <1>4, PollSessionStep
<1>5. CASE Dsh!EmitBatch
  BY <1>5, EmitBatchStep
<1>6. CASE Dsh!MockCycle \/ Dsh!MockLoop
  BY <1>6, MockStep DEF Dsh!MockCycle, Dsh!MockLoop, Dsh!Mocks
<1>7. CASE Dsh!Wait
  BY <1>7, WaitStep
<1>8. CASE Dsh!NextTransport
  BY <1>8, NextTransportStep
<1>9. CASE Dsh!ConnectSse \/ Dsh!ConnectWs
  BY <1>9, OpenStep DEF Dsh!ConnectSse, Dsh!ConnectWs
<1>10. CASE Dsh!PumpStream \/ Dsh!PumpWs
  BY <1>10, FrameStep DEF Dsh!PumpStream, Dsh!PumpWs
<1>11. CASE Dsh!Backoff
  BY <1>11, BackoffStep
<1>12. CASE Dsh!CallEnds
  BY <1>12, CallEndsStep
<1>13. CASE Dsh!LogEvent
  BY <1>13, LogEventStep
<1>14. CASE Dsh!CloseSession
  BY <1>14, CloseSessionStep
<1>15. CASE Dsh!StreamBreaks
  BY <1>15, StreamBreaksStep
<1>16. CASE Dsh!Stop
  BY <1>16, StopStep
<1>17. CASE Dsh!Cancel
  BY <1>17, CancelStep
<1> QED BY <1>1, <1>2, <1>3, <1>4, <1>5, <1>6, <1>7, <1>8, <1>9, <1>10, <1>11, <1>12, <1>13, <1>14,
           <1>15, <1>16, <1>17 DEF Dsh!Next, Dsh!Task

\* The calls under way with envelopes of the poller are its own.
LEMMA UnderWayIsPollers ==
  ASSUME DshInv, Polling
  PROVE  /\ \A t \in Dsh!UnderWay : t.owner = "poll"
         /\ adapter.pc = "emit" <=> Dsh!UnderWay # {}
         /\ \A t \in Dsh!UnderWay : t.envelopes = adapter.batch
         /\ \A t, u \in Dsh!UnderWay : t = u
<1>1. adapter.used \in Dsh!Polls /\ adapter.used \notin Streaming
  BY DEF DshInv, DshPhases, Streaming, Dsh!Polls, Dsh!Mocks
<1>2. \A t \in Dsh!UnderWay : t \in threads /\ t \in Thread /\ \E i \in DOMAIN t.envelopes : t.envelopes[i].via = adapter.used
  BY DEF Dsh!UnderWay, DshInv, DshTypes
<1>3. ASSUME NEW t \in Dsh!UnderWay PROVE t.owner = "poll"
  <2> SUFFICES ASSUME t.owner # "poll" PROVE FALSE
    OBVIOUS
  <2>1. t.envelopes \in Seq(Env(Streaming))
    BY <1>2 DEF DshInv, DshCalls
  <2>2. PICK i \in DOMAIN t.envelopes : t.envelopes[i].via = adapter.used
    BY <1>2
  <2>3. t.envelopes[i] \in Env(Streaming)
    BY <2>1, <2>2
  <2> QED BY <1>1, <2>2, <2>3 DEF Env
<1>4. \A t \in threads : t.owner = "poll" => adapter.pc = "emit" /\ t.envelopes = adapter.batch
  BY DEF DshInv, DshCalls
<1>5. ASSUME adapter.pc = "emit" PROVE Dsh!UnderWay # {}
  <2>1. PICK t \in threads : t.owner = "poll"
    BY <1>5 DEF DshInv, DshCalls
  <2> DEFINE b == adapter.batch
  <2>2. t.envelopes = b /\ b # <<>> /\ b \in Seq(Env({adapter.used}))
    BY <1>4, <1>5, <2>1 DEF DshInv, DshCalls
  <2> HIDE DEF b
  <2>3. 1 \in DOMAIN b /\ b[1] \in Env({adapter.used})
    BY <2>2, EmptySeq
  <2>4. b[1].via = adapter.used
    BY <2>3 DEF Env
  <2>5. t \in Dsh!UnderWay
    BY <2>1, <2>2, <2>3, <2>4 DEF Dsh!UnderWay
  <2> QED BY <2>5
<1>6. \A t, u \in Dsh!UnderWay : t = u
  <2> SUFFICES ASSUME NEW t \in Dsh!UnderWay, NEW u \in Dsh!UnderWay PROVE t = u
    OBVIOUS
  <2>1. t.owner = u.owner /\ t.envelopes = u.envelopes /\ t \in Thread /\ u \in Thread
    BY <1>2, <1>3, <1>4
  <2> QED BY <2>1 DEF Thread
<1> QED BY <1>2, <1>3, <1>4, <1>5, <1>6

\* The invariant says of the poller what is wanted.
LEMMA CollectedIsHanded ==
  ASSUME DshInv, Polling, NEW s \in Sessions
  PROVE  Dsh!Handed(s) = Upto(s, adapter.seqs[s])
<1> DEFINE calling == IF Dsh!UnderWay = {} THEN <<>> ELSE (CHOOSE t \in Dsh!UnderWay : TRUE).envelopes
           collecting == IF adapter.pc = "fetch" THEN adapter.batch ELSE <<>>
           M == [via : {adapter.used}, s : {s}, n : Nat]
           b == adapter.batch
           c == adapter.seqs[s]
           ns == Upto(s, c)
           mine == Dsh!Among(sink \o calling \o collecting, M)
<1>1. sink \in Seq(Env(Transports)) /\ b \in Seq(Env(Transports)) /\ c \in Nat
  BY DEF DshInv, DshTypes, Adapter
<1>2. Among(sink \o b, M) = Dsh!Envelopes(adapter.used, s, ns)
  BY DEF DshInv, DshCursors, UpToCursor, Collected, Mine
<1>3. sink \o calling \o collecting = sink \o b
  <2>1. CASE adapter.pc = "emit"
    <3>1. calling = b
      BY <2>1, UnderWayIsPollers
    <3>2. collecting = <<>>
      BY <2>1
    <3> HIDE DEF b, calling, collecting
    <3>3. sink \o b \in Seq(Env(Transports))
      BY <1>1, ConcatProperties
    <3> QED BY <3>1, <3>2, <3>3, ConcatEmptySeq
  <2>2. CASE adapter.pc = "fetch"
    <3>1. calling = <<>>
      BY <2>2, UnderWayIsPollers
    <3>2. collecting = b
      BY <2>2
    <3> HIDE DEF b, calling, collecting
    <3>3. sink \o <<>> = sink
      BY <1>1, ConcatEmptySeq
    <3> QED BY <3>1, <3>2, <3>3
  <2>3. CASE adapter.pc \notin {"emit", "fetch"}
    <3>1. calling = <<>> /\ collecting = <<>>
      BY <2>3, UnderWayIsPollers
    <3>2. b = <<>>
      BY <2>3 DEF Polling, DshInv, DshCalls
    <3> HIDE DEF b, calling, collecting
    <3>3. sink \o <<>> = sink
      BY <1>1, ConcatEmptySeq
    <3> QED BY <3>1, <3>2, <3>3
  <2> QED BY <2>1, <2>2, <2>3
<1> HIDE DEF calling, collecting, b
<1>4. mine = Dsh!Envelopes(adapter.used, s, ns)
  BY <1>2, <1>3, DshAmong
<1>5. ns \in Seq(Nat)
  <2> HIDE DEF c
  <2>1. 0 \in Nat /\ c \in Nat /\ 0 <= c
    BY <1>1
  <2>2. Span(0, c) \in Seq(Nat)
    BY <2>1, SpanType
  <2> QED BY <2>2, AmongType DEF Upto
<1> HIDE DEF ns, mine
<1>6. mine = [i \in DOMAIN ns |-> [via |-> adapter.used, s |-> s, n |-> ns[i]]]
  BY <1>4 DEF Dsh!Envelopes
<1>7. [i \in DOMAIN mine |-> mine[i].n] = [i \in DOMAIN ns |-> ns[i]]
  BY <1>6
<1>8. [i \in DOMAIN ns |-> ns[i]] = ns
  BY <1>5, SeqEqual
<1>9. Dsh!Handed(s) = [i \in DOMAIN mine |-> mine[i].n]
  BY Zenon DEF Dsh!Handed, mine, calling, collecting
<1> QED BY <1>7, <1>8, <1>9 DEF ns

LEMMA DshInvUse == DshInv => Dsh!HandedUpToCursor
<1> SUFFICES ASSUME DshInv, Polling
             PROVE  /\ \A t, u \in Dsh!UnderWay : t = u
                    /\ \A s \in Sessions :
                         /\ adapter.seqs[s] <= Len(dsh.log[s])
                         /\ Dsh!Handed(s) = Dsh!Among([n \in 1 .. adapter.seqs[s] |-> n], Dsh!Mapped(s))
  BY DEF Dsh!HandedUpToCursor, Polling
<1>1. \A t, u \in Dsh!UnderWay : t = u
  BY UnderWayIsPollers
<1>2. ASSUME NEW s \in Sessions
      PROVE  /\ adapter.seqs[s] <= Len(dsh.log[s])
             /\ Dsh!Handed(s) = Dsh!Among([n \in 1 .. adapter.seqs[s] |-> n], Dsh!Mapped(s))
  <2>1. adapter.seqs[s] <= Len(dsh.log[s])
    BY DEF DshInv, DshCursors, UpToCursor
  <2> DEFINE c == adapter.seqs[s]
  <2>2. c \in Nat
    BY DEF DshInv, DshTypes, Adapter
  <2>3. Dsh!Handed(s) = Among(Span(0, c), Dsh!Mapped(s))
    BY CollectedIsHanded DEF Upto
  <2> HIDE DEF c
  <2>4. Span(0, c) = [n \in 1 .. c |-> n]
    BY <2>2 DEF Span
  <2>5. Dsh!Handed(s) = Dsh!Among([n \in 1 .. c |-> n], Dsh!Mapped(s))
    BY <2>3, <2>4, DshAmong, Zenon
  <2> QED BY <2>1, <2>5 DEF c
<1> QED BY <1>1, <1>2

\* Each polling transport of the bridges hands over, whatever fails, is cancelled
\* or is still under way, exactly the events of known types up to its cursors,
\* once each and in their order, and makes one call at a time, for any sessions,
\* any number of events, breaks and cancellations (dsh_adapter.py, dsh_adapter_ws.py).
THEOREM PollerHandsUpToCursor == Dsh!Spec => []HandedUpToCursor
<1>1. Dsh!Init => DshInv
  BY DshInit
<1>2. DshInv /\ [Dsh!Next]_dshVars => DshInv'
  BY DshStep
<1>3. DshInv => HandedUpToCursor
  BY DshInvUse DEF HandedUpToCursor
<1> QED BY <1>1, <1>2, <1>3, PTL DEF Dsh!Spec, Dsh!vars, dshVars

=============================================================================
