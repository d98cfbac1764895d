-------------------------- MODULE RalphLoopProofs --------------------------
(***************************************************************************)
(* Proofs about RalphLoop for any number of processes, resumes and deaths  *)
(* and any configurations and caps, and about the inside of its rounds.    *)
(***************************************************************************)
EXTENDS RalphLoop, ListsProofs, FiniteSetTheorems, TLAPS

\* A process leaves with its locals reset.
LEMMA LeaveType ==
    ASSUME TypeOK, NEW p \in Procs, Leave(p)
    PROVE  /\ pc' \in [Procs -> Loop \cup Resuming \cup {"idle"}]
           /\ conf' \in [Procs -> Configs]
           /\ round' \in [Procs -> Nat] /\ prev' \in [Procs -> SUBSET Row]
           /\ outcome' \in [Procs -> {"completed", "cancelled"}]
           /\ verdict' \in [Procs -> Verdict]
<1>1. NoConfig \in Configs
  BY ConfigsAssumption DEF NoConfig
<1> QED  BY <1>1 DEF TypeOK, Leave, Goto, Verdict

\* A process at a place of resume_ralph or of the loop goes on to another one.
LEMMA GotoType ==
    ASSUME TypeOK, NEW p \in Procs, NEW l \in Loop \cup Resuming \cup {"idle"}, Goto(p, l)
    PROVE  pc' \in [Procs -> Loop \cup Resuming \cup {"idle"}]
BY DEF TypeOK, Goto

LEMMA RowType == ASSUME TypeOK, NEW p \in Procs PROVE RowOf(p) \in Row
BY DEF TypeOK, RowOf, Row

\* A last completed round exists as soon as a round is completed.
HasLast == CompletedIds # {} => \E n \in CompletedIds : \A m \in CompletedIds : m <= n

LEMMA IdsType == ASSUME TypeOK PROVE Ids \subseteq Nat /\ CompletedIds \subseteq Ids
<1>1. \A i \in DOMAIN rounds : rounds[i] \in Row
  BY DEF TypeOK
<1> QED  BY <1>1 DEF Ids, CompletedIds, Row

\* The round a resume starts with comes right after the last completed one.
LEMMA StartRoundFacts ==
    ASSUME TypeOK, HasLast
    PROVE  /\ StartRound \in Nat \ {0}
           /\ \A n \in CompletedIds : n < StartRound
           /\ CompletedIds = {} => StartRound = 1
           /\ CompletedIds # {} => StartRound - 1 \in CompletedIds
<1>1. CASE CompletedIds = {}
  BY <1>1 DEF StartRound
<1>2. CASE CompletedIds # {}
  <2>1. LastCompleted \in CompletedIds /\ \A m \in CompletedIds : m <= LastCompleted
    BY <1>2 DEF HasLast, LastCompleted
  <2>2. CompletedIds \subseteq Nat
    BY IdsType
  <2>3. StartRound = LastCompleted + 1
    BY <1>2 DEF StartRound
  <2> QED  BY <1>2, <2>1, <2>2, <2>3
<1> QED  BY <1>1, <1>2

\* What a round recorded adds to the rounds.
LEMMA AppendIds ==
    ASSUME TypeOK, NEW r \in Row, rounds' = Append(rounds, r)
    PROVE  /\ Ids' = Ids \cup {r.round}
           /\ CompletedIds' = IF r.state = "completed" THEN CompletedIds \cup {r.round}
                              ELSE CompletedIds
<1>1. /\ Len(rounds) \in Nat /\ DOMAIN rounds = 1 .. Len(rounds)
      /\ DOMAIN rounds' = 1 .. Len(rounds) + 1
      /\ rounds'[Len(rounds) + 1] = r
      /\ \A i \in 1 .. Len(rounds) : rounds'[i] = rounds[i]
  BY DEF TypeOK
<1>2. Ids' = Ids \cup {r.round}
  BY <1>1 DEF Ids
<1>3. CASE r.state = "completed"
  <2>1. CompletedIds' \subseteq CompletedIds \cup {r.round}
    BY <1>1 DEF CompletedIds
  <2>2. CompletedIds \cup {r.round} \subseteq CompletedIds'
    BY <1>1, <1>3 DEF CompletedIds
  <2> QED  BY <1>2, <1>3, <2>1, <2>2
<1>4. CASE r.state # "completed"
  BY <1>1, <1>2, <1>4 DEF CompletedIds
<1> QED  BY <1>3, <1>4

-----------------------------------------------------------------------------
(* Types. *)

LEMMA TypeStep ==
    ASSUME TypeOK, HasLast, [Next]_vars
    PROVE  TypeOK'
<1>1. ASSUME NEW p \in Procs, NEW c \in Configs, Run(p, c)
      PROVE  TypeOK'
  BY <1>1, GotoType DEF Run, TypeOK, Loop
<1>2. ASSUME NEW p \in Procs, NEW c \in Configs, Lock(p, c)
      PROVE  TypeOK'
  BY <1>2, GotoType DEF Lock, TypeOK, Resuming, dbVars
<1>3. ASSUME NEW p \in Procs, Load(p) \/ Clean(p) \/ Recheck(p)
      PROVE  TypeOK'
  <2>1. UNCHANGED <<dbVars, stop, histVars>>
    BY <1>3 DEF Load, Clean, Recheck
  <2>2. \/ Leave(p)
        \/ (\E l \in Resuming : Goto(p, l)) /\ UNCHANGED locals
    BY <1>3 DEF Load, Clean, Recheck, Resuming
  <2>3. CASE Leave(p)
    BY <2>1, <2>3, LeaveType DEF TypeOK, dbVars, histVars
  <2>4. CASE (\E l \in Resuming : Goto(p, l)) /\ UNCHANGED locals
    BY <2>1, <2>4, GotoType DEF TypeOK, dbVars, histVars, locals
  <2> QED  BY <2>2, <2>3, <2>4
<1>4. ASSUME NEW p \in Procs, FindLast(p)
      PROVE  TypeOK'
  <2>1. Goto(p, "claim") \/ Goto(p, "fetch")
    BY <1>4 DEF FindLast
  <2>2. StartRound \in Nat
    BY StartRoundFacts
  <2> QED  BY <1>4, <2>1, <2>2, GotoType DEF FindLast, TypeOK, Resuming, dbVars, histVars
<1>5. ASSUME NEW p \in Procs, Fetch(p)
      PROVE  TypeOK'
  BY <1>5, GotoType DEF Fetch, TypeOK, Resuming, dbVars, histVars
<1>6. ASSUME NEW p \in Procs, Claim(p)
      PROVE  TypeOK'
  BY <1>6, GotoType DEF Claim, TypeOK, Loop, dbVars, histVars
<1>7. ASSUME NEW p \in Procs, Check(p) \/ StopFile(p)
      PROVE  TypeOK'
  <2>1. \E l \in Loop : Goto(p, l)
    BY <1>7 DEF Check, StopFile, Cancelled, Loop
  <2>2. outcome' \in [Procs -> {"completed", "cancelled"}]
    BY <1>7 DEF Check, StopFile, Cancelled, TypeOK
  <2>3. UNCHANGED <<dbVars, stop, conf, round, prev, verdict, histVars>>
    BY <1>7 DEF Check, StopFile
  <2> QED  BY <2>1, <2>2, <2>3, GotoType DEF TypeOK, dbVars, histVars
<1>8. ASSUME NEW p \in Procs, Gates(p)
      PROVE  TypeOK'
  <2>1. verdict' \in [Procs -> Verdict]
    BY <1>8 DEF Gates, Verdicts, Verdict, TypeOK
  <2> QED  BY <1>8, <2>1, GotoType DEF Gates, TypeOK, Loop, dbVars, histVars
<1>9. ASSUME NEW p \in Procs, Persist(p)
      PROVE  TypeOK'
  <2>1. rounds' \in Seq(Row)
    BY <1>9, RowType DEF Persist, TypeOK
  <2>2. spent' \in Nat
    BY <1>9, ConfigsAssumption DEF Persist, TypeOK
  <2> QED  BY <1>9, <2>1, <2>2, GotoType DEF Persist, TypeOK, Loop, locals, histVars
<1>10. ASSUME NEW p \in Procs, PersistReport(p)
       PROVE  TypeOK'
  <2>1. RowOf(p) \in Row
    BY RowType
  <2>2. /\ reports' \in SUBSET Row /\ prev' \in [Procs -> SUBSET Row]
        /\ round' \in [Procs -> Nat] /\ verdict' \in [Procs -> Verdict]
    BY <1>10, <2>1 DEF PersistReport, TypeOK, Verdict
  <2> QED  BY <1>10, <2>2, GotoType DEF PersistReport, TypeOK, Loop, histVars
<1>11. ASSUME NEW p \in Procs, Cancel(p)
       PROVE  TypeOK'
  BY <1>11, GotoType DEF Cancel, TypeOK, Loop, locals, histVars
<1>12. ASSUME NEW p \in Procs, Finalize(p)
       PROVE  TypeOK'
  BY <1>12, LeaveType DEF Finalize, TypeOK, histVars
<1>13. ASSUME NEW p \in Procs, Die(p)
       PROVE  TypeOK'
  BY <1>13, LeaveType DEF Die, TypeOK, dbVars
<1>14. CASE TurnStop \/ UNCHANGED vars
  BY <1>14 DEF TurnStop, TypeOK, vars, dbVars, procVars, locals, histVars
<1> QED
  BY <1>1, <1>2, <1>3, <1>4, <1>5, <1>6, <1>7, <1>8, <1>9, <1>10, <1>11, <1>12, <1>13, <1>14
  DEF Next, Step

\* The rounds change at Persist only.
LEMMA RoundsStep ==
    ASSUME TypeOK, [Next]_vars
    PROVE  \/ UNCHANGED <<rounds, spent>>
           \/ \E p \in Procs : Persist(p)
BY DEF Next, Step, Run, Lock, Load, Clean, Recheck, FindLast, Fetch, Claim, Check, StopFile,
       Gates, PersistReport, Cancel, Finalize, Die, TurnStop, vars, dbVars

LEMMA HasLastStep ==
    ASSUME TypeOK, HasLast, [Next]_vars
    PROVE  HasLast'
<1>1. CASE UNCHANGED rounds
  BY <1>1 DEF HasLast, CompletedIds
<1>2. ASSUME NEW p \in Procs, Persist(p)
      PROVE  HasLast'
  <2>1. RowOf(p) \in Row /\ rounds' = Append(rounds, RowOf(p))
    BY <1>2, RowType DEF Persist
  <2>2. CompletedIds' = CompletedIds \/ CompletedIds' = CompletedIds \cup {RowOf(p).round}
    BY <2>1, AppendIds
  <2>3. RowOf(p).round \in Nat /\ CompletedIds \subseteq Nat
    BY <2>1, IdsType DEF Row
  <2>4. CASE CompletedIds' = CompletedIds
    BY <2>4 DEF HasLast
  <2>5. CASE CompletedIds' = CompletedIds \cup {RowOf(p).round} /\ CompletedIds = {}
    <3>1. CompletedIds' = {RowOf(p).round}
      BY <2>5
    <3> QED  BY <2>3, <3>1 DEF HasLast
  <2>6. CASE CompletedIds' = CompletedIds \cup {RowOf(p).round} /\ CompletedIds # {}
    <3>1. PICK n \in CompletedIds : \A m \in CompletedIds : m <= n
      BY <2>6 DEF HasLast
    <3>2. CASE RowOf(p).round <= n
      BY <2>3, <2>6, <3>1, <3>2 DEF HasLast
    <3>3. CASE ~(RowOf(p).round <= n)
      <4>1. \A m \in CompletedIds' : m <= RowOf(p).round
        BY <2>3, <2>6, <3>1, <3>3
      <4> QED  BY <2>6, <4>1 DEF HasLast
    <3> QED  BY <3>2, <3>3
  <2> QED  BY <2>2, <2>4, <2>5, <2>6
<1> QED  BY <1>1, <1>2, RoundsStep

LEMMA Typed == Spec => [](TypeOK /\ HasLast)
<1>1. Init => TypeOK /\ HasLast
  <2> SUFFICES ASSUME Init PROVE TypeOK /\ HasLast
    OBVIOUS
  <2>1. NoConfig \in Configs
    BY ConfigsAssumption DEF NoConfig
  <2>1a. rounds \in Seq(Row)
    BY DEF Init
  <2>1b. state = "none" /\ reports = {} /\ spent = 0 /\ ~stop /\ ~overlap /\ ~orphaned
         /\ resumes = 0 /\ deaths = 0
    BY Zenon DEF Init
  <2>1c. stop \in BOOLEAN /\ overlap \in BOOLEAN /\ orphaned \in BOOLEAN
    BY Zenon DEF Init
  <2>2. /\ state \in {"none", "running", "completed", "failed", "cancelled"}
        /\ rounds \in Seq(Row) /\ reports \in SUBSET Row /\ spent \in Nat /\ stop \in BOOLEAN
        /\ overlap \in BOOLEAN /\ orphaned \in BOOLEAN /\ resumes \in Nat /\ deaths \in Nat
    BY <2>1a, <2>1b, <2>1c
  <2>4. /\ pc \in [Procs -> Loop \cup Resuming \cup {"idle"}] /\ conf \in [Procs -> Configs]
        /\ round \in [Procs -> Nat] /\ prev \in [Procs -> SUBSET Row]
        /\ outcome \in [Procs -> {"completed", "cancelled"}] /\ verdict \in [Procs -> Verdict]
    BY <2>1 DEF Init, Verdict
  <2>5. TypeOK
    BY <2>2, <2>4 DEF TypeOK
  <2>3. HasLast
    BY DEF Init, HasLast, CompletedIds
  <2> QED  BY <2>3, <2>5
<1>2. TypeOK /\ HasLast /\ [Next]_vars => TypeOK' /\ HasLast'
  BY TypeStep, HasLastStep
<1> QED  BY <1>1, <1>2, PTL DEF Spec

\* The types are right, whatever is resumed and whoever dies.
THEOREM TypesAreRight == Spec => []TypeOK
BY Typed, PTL

-----------------------------------------------------------------------------
(* The budget. *)

\* The processes that saw budget left and have not recorded their round yet.
Spending == {p \in Procs : pc[p] \in {"stopfile", "gates", "persist"}}

\* Each process may still add the cost of one round, unless it is under way.
BudgetInv ==
    MaxWall > 0 =>
        spent <= MaxWall - 1 + MaxCost * (Cardinality(Procs) - Cardinality(Spending))

LEMMA SpendingType ==
    ASSUME TypeOK
    PROVE  /\ IsFiniteSet(Spending) /\ Cardinality(Spending) \in Nat
           /\ Cardinality(Procs) \in Nat /\ Cardinality(Spending) <= Cardinality(Procs)
BY ConfigsAssumption, FS_Subset, FS_CardinalityType DEF Spending

\* The bound a product sets only falls with its factor.
LEMMA ProductOrder ==
    ASSUME NEW k \in Nat, NEW a \in Nat, NEW b \in Nat, a <= b
    PROVE  k * a <= k * b /\ k * a \in Nat /\ k * b \in Nat
<1>1. b - a \in Nat
  OBVIOUS
<1>2. k * (b - a) \in Nat
  BY <1>1
<1>3. k * b = k * a + k * (b - a)
  BY <1>1
<1> QED  BY <1>2, <1>3

\* BudgetInv survives when no more processes spend and nothing is recorded.
LEMMA FewerSpend ==
    ASSUME TypeOK, TypeOK', BudgetInv, spent' = spent, Spending' \subseteq Spending
    PROVE  BudgetInv'
<1>1. SUFFICES ASSUME MaxWall > 0
               PROVE  spent' <= MaxWall - 1 + MaxCost * (Cardinality(Procs) - Cardinality(Spending'))
  BY DEF BudgetInv
<1> DEFINE n == Cardinality(Procs)
           a == Cardinality(Spending)
           b == Cardinality(Spending')
<1>2. b <= a /\ a \in Nat /\ b \in Nat /\ n \in Nat /\ a <= n
  BY SpendingType, FS_Subset, FS_CardinalityType
<1>3. spent <= MaxWall - 1 + MaxCost * (n - a)
  BY <1>1 DEF BudgetInv
<1> HIDE DEF n, a, b
<1>4. n - a \in Nat /\ n - b \in Nat /\ n - a <= n - b
  BY <1>2
<1>5. MaxCost \in Nat /\ MaxWall \in Nat /\ spent \in Nat
  BY ConfigsAssumption DEF TypeOK
<1>6. MaxCost * (n - a) <= MaxCost * (n - b) /\ MaxCost * (n - a) \in Nat /\ MaxCost * (n - b) \in Nat
  BY <1>4, <1>5, ProductOrder
<1>7. spent <= MaxWall - 1 + MaxCost * (n - b)
  BY <1>3, <1>5, <1>6
<1> QED  BY <1>7 DEF n, b

\* A round starts on a budget that is not spent, whoever else is spending.
LEMMA RoundStarts ==
    ASSUME TypeOK, TypeOK', spent' = spent, ~Exhausted
    PROVE  BudgetInv'
<1>1. SUFFICES ASSUME MaxWall > 0
               PROVE  spent' <= MaxWall - 1 + MaxCost * (Cardinality(Procs) - Cardinality(Spending'))
  BY DEF BudgetInv
<1>2. /\ Cardinality(Spending') \in Nat /\ Cardinality(Procs) \in Nat
      /\ Cardinality(Spending') <= Cardinality(Procs)
  BY ConfigsAssumption, FS_Subset, FS_CardinalityType DEF Spending
<1>3. Cardinality(Procs) - Cardinality(Spending') \in Nat
  BY <1>2
<1>4. MaxCost \in Nat /\ MaxWall \in Nat /\ spent \in Nat /\ spent < MaxWall
  BY <1>1, ConfigsAssumption DEF TypeOK, Exhausted
<1>5. MaxCost * (Cardinality(Procs) - Cardinality(Spending')) \in Nat
  BY <1>3, <1>4, ProductOrder
<1> QED  BY <1>4, <1>5

\* A round recorded makes use of the room its process had left for it.
LEMMA RoundRecorded ==
    ASSUME TypeOK, TypeOK', BudgetInv, NEW p \in Procs, Persist(p)
    PROVE  BudgetInv'
<1>1. SUFFICES ASSUME MaxWall > 0
               PROVE  spent' <= MaxWall - 1 + MaxCost * (Cardinality(Procs) - Cardinality(Spending'))
  BY DEF BudgetInv
<1>2. p \in Spending /\ Spending' = Spending \ {p}
  BY DEF Persist, Goto, Spending, TypeOK
<1> DEFINE n == Cardinality(Procs)
           a == Cardinality(Spending)
           b == Cardinality(Spending')
<1>3. a \in Nat /\ n \in Nat /\ a <= n /\ IsFiniteSet(Spending)
  BY SpendingType
<1>4. b = a - 1
  BY <1>2, <1>3, FS_RemoveElement
<1>4a. b \in Nat
  BY <1>2, <1>3, FS_RemoveElement, FS_CardinalityType
<1>5. spent <= MaxWall - 1 + MaxCost * (n - a)
  BY <1>1 DEF BudgetInv
<1>6. PICK cost \in 0 .. MaxCost : spent' = spent + cost
  BY DEF Persist
<1> HIDE DEF n, a, b
<1>7. n - a \in Nat /\ n - b = (n - a) + 1
  BY <1>3, <1>4
<1>8. MaxCost \in Nat /\ MaxWall \in Nat /\ spent \in Nat
  BY ConfigsAssumption DEF TypeOK
<1>9. MaxCost * (n - a) \in Nat
  BY <1>7, <1>8, ProductOrder
<1>10. MaxCost * (n - b) = MaxCost * (n - a) + MaxCost
  <2> DEFINE d == n - a
  <2>1. d \in Nat /\ n - b = d + 1
    BY <1>7
  <2> HIDE DEF d
  <2>2. MaxCost * (d + 1) = MaxCost * d + MaxCost
    BY <1>8, <2>1
  <2> QED  BY <2>1, <2>2 DEF d
<1>11. cost \in Nat /\ cost <= MaxCost
  BY <1>6, <1>8
<1>12. spent' <= MaxWall - 1 + MaxCost * (n - b)
  BY <1>5, <1>6, <1>8, <1>9, <1>10, <1>11
<1> QED  BY <1>12 DEF n, b

LEMMA BudgetStep ==
    ASSUME TypeOK, TypeOK', BudgetInv, [Next]_vars
    PROVE  BudgetInv'
<1>1. CASE \E p \in Procs : Persist(p)
  BY <1>1, RoundRecorded
<1>2. CASE spent' = spent /\ \E p \in Procs : Check(p) /\ ~Exhausted
  BY <1>2, RoundStarts
<1>3. CASE spent' = spent /\ Spending' \subseteq Spending
  BY <1>3, FewerSpend
<1>4. ASSUME NEW p \in Procs, Load(p) \/ Clean(p) \/ Recheck(p) \/ FindLast(p) \/ Fetch(p) \/ Claim(p)
      PROVE  spent' = spent /\ Spending' \subseteq Spending
  BY <1>4 DEF Load, Clean, Recheck, FindLast, Fetch, Claim, Leave, Goto, Spending, TypeOK, dbVars
<1>5. ASSUME NEW p \in Procs, Check(p) /\ Exhausted
      PROVE  spent' = spent /\ Spending' \subseteq Spending
  BY <1>5 DEF Check, Cancelled, Goto, Spending, TypeOK, dbVars
<1>6. ASSUME NEW p \in Procs, StopFile(p) \/ Gates(p) \/ PersistReport(p) \/ Cancel(p) \/ Finalize(p) \/ Die(p)
      PROVE  spent' = spent /\ Spending' \subseteq Spending
  BY <1>6 DEF StopFile, Cancelled, Gates, PersistReport, Cancel, Finalize, Die, Leave, Goto,
              Spending, TypeOK, dbVars
<1>7. ASSUME NEW p \in Procs, NEW c \in Configs, Run(p, c) \/ Lock(p, c)
      PROVE  spent' = spent /\ Spending' \subseteq Spending
  BY <1>7 DEF Run, Lock, Goto, Spending, TypeOK, dbVars
<1>8. ASSUME TurnStop \/ UNCHANGED vars
      PROVE  spent' = spent /\ Spending' \subseteq Spending
  BY <1>8 DEF TurnStop, vars, dbVars, procVars, Spending
<1>9. ASSUME NEW p \in Procs, Check(p)
      PROVE  spent' = spent
  BY <1>9 DEF Check, dbVars
<1> QED
  BY <1>1, <1>2, <1>3, <1>4, <1>5, <1>6, <1>7, <1>8, <1>9 DEF Next, Step

\* However many processes resume a run at once, its rounds pass the cap by less
\* than one round each (_check_budget_exhausted, _persist_round).
THEOREM OvershootPerProcess == Spec => []BudgetOvershoot
<1>1. Init => BudgetInv
  <2> SUFFICES ASSUME Init, MaxWall > 0
               PROVE  spent <= MaxWall - 1 + MaxCost * (Cardinality(Procs) - Cardinality(Spending))
    BY DEF BudgetInv
  <2>1. spent = 0 /\ Spending = {}
    BY DEF Init, Spending
  <2>2. Cardinality(Spending) = 0 /\ Cardinality(Procs) \in Nat
    BY <2>1, ConfigsAssumption, FS_EmptySet, FS_CardinalityType
  <2>3. MaxCost \in Nat /\ MaxWall \in Nat
    BY ConfigsAssumption
  <2>4. MaxCost * (Cardinality(Procs) - Cardinality(Spending)) \in Nat
    BY <2>2, <2>3, ProductOrder
  <2> QED  BY <2>1, <2>3, <2>4
<1>2. TypeOK /\ TypeOK' /\ BudgetInv /\ [Next]_vars => BudgetInv'
  BY BudgetStep
<1>3. TypeOK /\ BudgetInv => BudgetOvershoot
  <2> SUFFICES ASSUME TypeOK, BudgetInv, MaxWall > 0
               PROVE  spent <= MaxWall - 1 + MaxCost * Cardinality(Procs)
    BY DEF BudgetOvershoot
  <2>1. /\ Cardinality(Spending) \in Nat /\ Cardinality(Procs) \in Nat
        /\ Cardinality(Procs) - Cardinality(Spending) \in Nat
    BY SpendingType
  <2>2. MaxCost \in Nat /\ MaxWall \in Nat /\ spent \in Nat
    BY ConfigsAssumption DEF TypeOK
  <2>3. Cardinality(Procs) - Cardinality(Spending) <= Cardinality(Procs)
    BY <2>1
  <2>4. /\ MaxCost * (Cardinality(Procs) - Cardinality(Spending)) <= MaxCost * Cardinality(Procs)
        /\ MaxCost * (Cardinality(Procs) - Cardinality(Spending)) \in Nat
        /\ MaxCost * Cardinality(Procs) \in Nat
    BY <2>1, <2>2, <2>3, ProductOrder
  <2>5. spent <= MaxWall - 1 + MaxCost * (Cardinality(Procs) - Cardinality(Spending))
    BY DEF BudgetInv
  <2> QED  BY <2>2, <2>4, <2>5
<1> QED  BY <1>1, <1>2, <1>3, TypesAreRight, PTL DEF Spec

-----------------------------------------------------------------------------
(* The rounds have no gap. *)

\* All rounds before the one a process is at are recorded; at "report", so is
\* its own.
Reached(p) ==
    pc[p] \in Loop \cup {"fetch", "claim"} =>
        /\ round[p] # 0 /\ \A n \in 1 .. round[p] - 1 : n \in Ids
        /\ pc[p] = "report" => round[p] \in Ids

RoundsInv == NoRoundSkipped /\ \A p \in Procs : Reached(p)

\* A step of one process that records no round leaves the others where they are.
LEMMA OthersReached ==
    ASSUME TypeOK, RoundsInv, NEW p \in Procs, UNCHANGED rounds,
           \A q \in Procs \ {p} : pc'[q] = pc[q] /\ round'[q] = round[q],
           Reached(p)'
    PROVE  RoundsInv'
<1>1. Ids' = Ids
  BY DEF Ids
<1>2. NoRoundSkipped'
  BY <1>1 DEF NoRoundSkipped, RoundsInv
<1>3. \A q \in Procs \ {p} : Reached(q)'
  BY <1>1 DEF Reached, RoundsInv
<1> QED  BY <1>2, <1>3 DEF RoundsInv

\* A process that leaves is at no round.
LEMMA LeaveReached ==
    ASSUME TypeOK, RoundsInv, NEW p \in Procs, UNCHANGED rounds, Leave(p)
    PROVE  RoundsInv'
<1>1. pc'[p] = "idle" /\ \A q \in Procs \ {p} : pc'[q] = pc[q] /\ round'[q] = round[q]
  BY DEF Leave, Goto, TypeOK
<1>2. Reached(p)'
  BY <1>1 DEF Reached, Loop
<1> QED  BY <1>1, <1>2, OthersReached

LEMMA RoundsInvStep ==
    ASSUME TypeOK, HasLast, RoundsInv, [Next]_vars
    PROVE  RoundsInv'
<1>1. ASSUME NEW p \in Procs, NEW c \in Configs, Run(p, c) \/ Lock(p, c)
      PROVE  RoundsInv'
  <2>1. /\ UNCHANGED rounds
        /\ \A q \in Procs \ {p} : pc'[q] = pc[q] /\ round'[q] = round[q]
        /\ pc'[p] = "load" \/ (pc'[p] = "check" /\ round'[p] = 1)
    BY <1>1 DEF Run, Lock, Goto, TypeOK, dbVars
  <2>2. Reached(p)'
    BY <2>1 DEF Reached, Loop
  <2> QED  BY <2>1, <2>2, OthersReached
<1>2. ASSUME NEW p \in Procs, Load(p) \/ Clean(p) \/ Recheck(p) \/ Finalize(p) \/ Die(p)
      PROVE  RoundsInv'
  <2>1. UNCHANGED rounds
    BY <1>2 DEF Load, Clean, Recheck, Finalize, Die, dbVars
  <2>2. \/ Leave(p)
        \/ (\E l \in {"clean", "recheck", "find"} : Goto(p, l)) /\ UNCHANGED locals
    BY <1>2 DEF Load, Clean, Recheck, Finalize, Die
  <2>3. CASE Leave(p)
    BY <2>1, <2>3, LeaveReached
  <2>4. CASE (\E l \in {"clean", "recheck", "find"} : Goto(p, l)) /\ UNCHANGED locals
    <3>1. /\ pc'[p] \in {"clean", "recheck", "find"}
          /\ \A q \in Procs \ {p} : pc'[q] = pc[q] /\ round'[q] = round[q]
      BY <2>4 DEF Goto, TypeOK, locals
    <3>2. Reached(p)'
      BY <3>1 DEF Reached, Loop
    <3> QED  BY <2>1, <3>1, <3>2, OthersReached
  <2> QED  BY <2>2, <2>3, <2>4
<1>3. ASSUME NEW p \in Procs, FindLast(p)
      PROVE  RoundsInv'
  <2>1. /\ UNCHANGED rounds /\ pc'[p] \in {"claim", "fetch"} /\ round'[p] = StartRound
        /\ \A q \in Procs \ {p} : pc'[q] = pc[q] /\ round'[q] = round[q]
    BY <1>3 DEF FindLast, Goto, TypeOK, dbVars
  <2>2. Ids' = Ids
    BY <2>1 DEF Ids
  <2>3. StartRound \in Nat \ {0}
    BY StartRoundFacts
  <2>4. \A n \in 1 .. StartRound - 1 : n \in Ids
    <3>1. CASE CompletedIds = {}
      BY <3>1, StartRoundFacts
    <3>2. CASE CompletedIds # {}
      <4>1. StartRound - 1 \in Ids
        BY <3>2, StartRoundFacts, IdsType
      <4> QED  BY <4>1 DEF RoundsInv, NoRoundSkipped
    <3> QED  BY <3>1, <3>2
  <2>5. Reached(p)'
    BY <2>1, <2>2, <2>3, <2>4 DEF Reached
  <2> QED  BY <2>1, <2>5, OthersReached
<1>4. ASSUME NEW p \in Procs,
             Fetch(p) \/ Claim(p) \/ Check(p) \/ StopFile(p) \/ Gates(p) \/ Cancel(p)
      PROVE  RoundsInv'
  <2>1. UNCHANGED <<rounds, round>> /\ pc[p] \in Loop \cup {"fetch", "claim"}
    BY <1>4 DEF Fetch, Claim, Check, StopFile, Gates, Cancel, dbVars, locals, Loop
  <2>2. \E l \in (Loop \cup {"claim"}) \ {"report"} : Goto(p, l)
    BY <1>4 DEF Fetch, Claim, Check, StopFile, Gates, Cancel, Cancelled, Loop
  <2>3. /\ pc'[p] \in (Loop \cup {"claim"}) \ {"report"}
        /\ \A q \in Procs \ {p} : pc'[q] = pc[q] /\ round'[q] = round[q]
    BY <2>1, <2>2 DEF Goto, TypeOK
  <2>4. Ids' = Ids
    BY <2>1 DEF Ids
  <2>5. Reached(p)'
    BY <2>1, <2>3, <2>4 DEF Reached, RoundsInv
  <2> QED  BY <2>1, <2>3, <2>5, OthersReached
<1>5. ASSUME NEW p \in Procs, Persist(p)
      PROVE  RoundsInv'
  <2>1. RowOf(p) \in Row /\ rounds' = Append(rounds, RowOf(p))
    BY <1>5, RowType DEF Persist
  <2>2. Ids' = Ids \cup {round[p]}
    BY <2>1, AppendIds DEF RowOf
  <2>3. /\ pc[p] = "persist" /\ pc'[p] = "report" /\ UNCHANGED round
        /\ \A q \in Procs \ {p} : pc'[q] = pc[q]
    BY <1>5 DEF Persist, Goto, TypeOK, locals
  <2>4. round[p] # 0 /\ \A n \in 1 .. round[p] - 1 : n \in Ids
    BY <2>3 DEF RoundsInv, Reached, Loop
  <2>5. \A q \in Procs : Reached(q)'
    BY <2>2, <2>3, <2>4 DEF RoundsInv, Reached
  <2>6. NoRoundSkipped'
    <3>1. round[p] \in Nat
      BY DEF TypeOK
    <3>2. 1 .. round[p] \subseteq Ids'
      BY <2>2, <2>4, <3>1
    <3> QED  BY <2>2, <3>2 DEF RoundsInv, NoRoundSkipped
  <2> QED  BY <2>5, <2>6 DEF RoundsInv
<1>6. ASSUME NEW p \in Procs, PersistReport(p)
      PROVE  RoundsInv'
  <2>1. /\ pc[p] = "report" /\ pc'[p] = "check" /\ UNCHANGED rounds
        /\ round'[p] = round[p] + 1 /\ round[p] \in Nat
        /\ \A q \in Procs \ {p} : pc'[q] = pc[q] /\ round'[q] = round[q]
    BY <1>6 DEF PersistReport, Goto, TypeOK
  <2>2. Ids' = Ids
    BY <2>1 DEF Ids
  <2>3. round[p] \in Ids /\ \A n \in 1 .. round[p] - 1 : n \in Ids
    BY <2>1 DEF RoundsInv, Reached, Loop
  <2>4. round'[p] # 0 /\ \A n \in 1 .. round'[p] - 1 : n \in Ids'
    BY <2>1, <2>2, <2>3
  <2>5. Reached(p)'
    BY <2>1, <2>4 DEF Reached
  <2> QED  BY <2>1, <2>5, OthersReached
<1>7. CASE TurnStop \/ UNCHANGED vars
  BY <1>7 DEF TurnStop, vars, dbVars, procVars, locals, RoundsInv, NoRoundSkipped, Reached, Ids
<1> QED  BY <1>1, <1>2, <1>3, <1>4, <1>5, <1>6, <1>7 DEF Next, Step

\* However often a run is resumed, by whomever, and whoever dies on the way, its
\* rounds are 1 .. n without a gap (_last_completed_round, _run_loop).
THEOREM RoundsAreContiguous == Spec => []NoRoundSkipped
<1>1. Init => RoundsInv
  BY DEF Init, RoundsInv, NoRoundSkipped, Reached, Ids, Loop
<1>2. TypeOK /\ HasLast /\ RoundsInv /\ [Next]_vars => RoundsInv'
  BY RoundsInvStep
<1>3. RoundsInv => NoRoundSkipped
  BY DEF RoundsInv
<1> QED  BY <1>1, <1>2, <1>3, Typed, PTL DEF Spec

-----------------------------------------------------------------------------
(* The run is driven. *)

\* No process but p leaves the loop by a step of p.
LEMMA DrivenStep ==
    ASSUME TypeOK, RunningIsDriven, [Next]_vars
    PROVE  RunningIsDriven'
<1>1. ASSUME NEW p \in Procs, NEW c \in Configs, Run(p, c)
      PROVE  RunningIsDriven'
  <2>1. pc'[p] = "check"
    BY <1>1 DEF Run, Goto, TypeOK
  <2> QED  BY <2>1 DEF RunningIsDriven, Loop
<1>2. ASSUME NEW p \in Procs, Claim(p)
      PROVE  RunningIsDriven'
  <2>1. pc'[p] = "check"
    BY <1>2 DEF Claim, Goto, TypeOK
  <2> QED  BY <2>1 DEF RunningIsDriven, Loop
<1>3. ASSUME NEW p \in Procs, Cancel(p) \/ Finalize(p)
      PROVE  RunningIsDriven'
  <2>1. state' # "running"
    BY <1>3 DEF Cancel, Finalize, TypeOK
  <2> QED  BY <2>1 DEF RunningIsDriven
<1>4. ASSUME NEW p \in Procs, pc[p] \notin Loop, UNCHANGED <<state, orphaned>>,
             \A q \in Procs \ {p} : pc'[q] = pc[q]
      PROVE  RunningIsDriven'
  BY <1>4 DEF RunningIsDriven
<1>5. ASSUME NEW p \in Procs, pc'[p] \in Loop
      PROVE  RunningIsDriven'
  BY <1>5 DEF RunningIsDriven
<1>6. ASSUME NEW p \in Procs, NEW c \in Configs, Lock(p, c)
      PROVE  RunningIsDriven'
  BY <1>4, <1>6 DEF Lock, Goto, TypeOK, Loop, dbVars
<1>7. ASSUME NEW p \in Procs, Load(p) \/ Clean(p) \/ Recheck(p)
      PROVE  RunningIsDriven'
  <2>1. pc[p] \notin Loop /\ UNCHANGED <<state, orphaned>>
    BY <1>7 DEF Load, Clean, Recheck, Loop, dbVars, histVars
  <2>2. \A q \in Procs \ {p} : pc'[q] = pc[q]
    BY <1>7 DEF Load, Clean, Recheck, Leave, Goto, TypeOK
  <2> QED  BY <1>4, <2>1, <2>2
<1>8. ASSUME NEW p \in Procs, FindLast(p) \/ Fetch(p)
      PROVE  RunningIsDriven'
  <2>1. pc[p] \notin Loop /\ UNCHANGED <<state, orphaned>>
    BY <1>8 DEF FindLast, Fetch, Loop, dbVars, histVars
  <2>2. \A q \in Procs \ {p} : pc'[q] = pc[q]
    BY <1>8 DEF FindLast, Fetch, Goto, TypeOK
  <2> QED  BY <1>4, <2>1, <2>2
<1>9. ASSUME NEW p \in Procs,
             Check(p) \/ StopFile(p) \/ Gates(p) \/ Persist(p) \/ PersistReport(p)
      PROVE  RunningIsDriven'
  <2>1. \E l \in Loop : Goto(p, l)
    BY <1>9 DEF Check, StopFile, Gates, Persist, PersistReport, Cancelled, Loop
  <2>2. pc'[p] \in Loop
    BY <2>1 DEF Goto, TypeOK
  <2> QED  BY <1>5, <2>2
<1>10. ASSUME NEW p \in Procs, Die(p)
       PROVE  RunningIsDriven'
  <2>1. CASE pc[p] \in Loop
    BY <1>10, <2>1 DEF Die, RunningIsDriven
  <2>2. CASE pc[p] \notin Loop
    <3>1. UNCHANGED state /\ \A q \in Procs \ {p} : pc'[q] = pc[q]
      BY <1>10 DEF Die, Leave, Goto, TypeOK, dbVars
    <3>2. orphaned' => orphaned
      BY <1>10, <2>2 DEF Die
    <3>3. orphaned => orphaned'
      BY <1>10 DEF Die
    <3> QED  BY <2>2, <3>1, <3>2, <3>3 DEF RunningIsDriven
  <2> QED  BY <2>1, <2>2
<1>11. CASE TurnStop \/ UNCHANGED vars
  BY <1>11 DEF TurnStop, vars, dbVars, procVars, histVars, RunningIsDriven
<1> QED
  BY <1>1, <1>2, <1>3, <1>6, <1>7, <1>8, <1>9, <1>10, <1>11 DEF Next, Step

\* No refused, failed or raced resume leaves a run recorded as running that
\* nobody drives: only a process that dies in the loop does.
THEOREM RunningMeansDriven == Spec => []RunningIsDriven
<1>1. Init => RunningIsDriven
  BY DEF Init, RunningIsDriven
<1>2. TypeOK /\ RunningIsDriven /\ [Next]_vars => RunningIsDriven'
  BY DrivenStep
<1> QED  BY <1>1, <1>2, TypesAreRight, PTL DEF Spec

-----------------------------------------------------------------------------
(* A run that one process drives at a time. *)

Reported(R) == \A n \in CompletedIds : [round |-> n, state |-> "completed"] \in R

\* While no two processes are in the run at once, the one there finds the state
\* it left, and each completed round is reported, but for the one it reports next.
\* A process that dies before that leaves the run as running.
At(p) ==
    /\ pc[p] \in Resuming \ {"load"} => state \in {"failed", "cancelled"}
    /\ pc[p] \in Loop =>
          \/ state = "running"
          \/ pc[p] = "finalize" /\ state = "cancelled" /\ outcome[p] = "cancelled"
    /\ pc[p] = "cancel" => outcome[p] = "cancelled"
    /\ pc[p] \in Loop \ {"report"} => Reported(reports)
    /\ pc[p] = "report" => Reported(reports \cup {RowOf(p)})
    /\ pc[p] = "fetch" => round[p] - 1 \in CompletedIds
    /\ pc[p] = "claim" /\ round[p] > 1 =>
          [round |-> round[p] - 1, state |-> "completed"] \in prev[p]

Alone == \A p, q \in Procs : pc[p] # "idle" /\ pc[q] # "idle" => p = q

AloneInv == ~overlap => Alone /\ (state = "running" \/ Reported(reports)) /\ \A p \in Procs : At(p)

\* A step of the process that is alone leaves the others idle.
LEMMA StillAlone ==
    ASSUME TypeOK, NEW p \in Procs, Alone, pc[p] # "idle" \/ Others(p) = {},
           \A q \in Procs \ {p} : pc'[q] = pc[q],
           At(p)'
    PROVE  Alone' /\ \A q \in Procs : At(q)'
<1>1. \A q \in Procs \ {p} : pc'[q] = "idle"
  BY DEF Alone, Others
<1>2. \A q \in Procs \ {p} : At(q)'
  BY <1>1 DEF At, Loop, Resuming
<1> QED  BY <1>1, <1>2 DEF Alone

\* A process that leaves is nowhere.
LEMMA LeaveAt == ASSUME TypeOK, NEW p \in Procs, Leave(p) PROVE At(p)' /\ pc'[p] = "idle"
BY DEF TypeOK, Leave, Goto, At, Loop, Resuming

\* Entering the run sets overlap unless the others are idle.
LEMMA EnterStep ==
    ASSUME TypeOK, AloneInv, NEW p \in Procs, NEW c \in Configs, Run(p, c) \/ Lock(p, c)
    PROVE  AloneInv'
<1> SUFFICES ASSUME ~overlap'
             PROVE  Alone' /\ (state' = "running" \/ Reported(reports)') /\ \A q \in Procs : At(q)'
  BY DEF AloneInv
<1>1. ~overlap /\ Others(p) = {}
  BY DEF Run, Lock
<1>2. \A q \in Procs \ {p} : pc'[q] = pc[q]
  BY DEF Run, Lock, Goto, TypeOK
<1>3. CASE Run(p, c)
  <2>1. pc'[p] = "check" /\ state' = "running" /\ UNCHANGED <<rounds, reports>>
    BY <1>3 DEF Run, Goto, TypeOK
  <2>2. state = "none"
    BY <1>3 DEF Run
  <2>3. Reported(reports)'
    BY <1>1, <2>1, <2>2 DEF AloneInv, Reported, CompletedIds
  <2>4. At(p)'
    BY <2>1, <2>3 DEF At, Loop, Resuming
  <2> QED  BY <1>1, <1>2, <2>1, <2>4, StillAlone DEF AloneInv
<1>4. CASE Lock(p, c)
  <2>1. pc'[p] = "load" /\ UNCHANGED dbVars
    BY <1>4 DEF Lock, Goto, TypeOK
  <2>2. At(p)'
    BY <2>1 DEF At, Loop, Resuming
  <2> QED  BY <1>1, <1>2, <2>1, <2>2, StillAlone DEF AloneInv, dbVars, Reported, CompletedIds
<1> QED  BY <1>3, <1>4

LEMMA AloneStep ==
    ASSUME TypeOK, HasLast, AloneInv, [Next]_vars
    PROVE  AloneInv'
<1> DEFINE Fine == state' = "running" \/ Reported(reports)'
<1>1. ASSUME ~overlap', NEW p \in Procs, Step(p) \/ Die(p)
      PROVE  ~overlap /\ Alone /\ At(p) /\ pc[p] # "idle"
             /\ (state = "running" \/ Reported(reports))
             /\ \A q \in Procs \ {p} : pc'[q] = pc[q]
  <2>1. UNCHANGED overlap
    BY <1>1 DEF Step, Die, Load, Clean, Recheck, FindLast, Fetch, Claim, Check, StopFile, Gates,
                Persist, PersistReport, Cancel, Finalize, histVars
  <2>2. pc[p] # "idle"
    BY <1>1 DEF Step, Die, Load, Clean, Recheck, FindLast, Fetch, Claim, Check, StopFile, Gates,
                Persist, PersistReport, Cancel, Finalize
  <2>3. Leave(p) \/ \E l \in Loop \cup Resuming : Goto(p, l)
    BY <1>1 DEF Step, Die, Load, Clean, Recheck, FindLast, Fetch, Claim, Check, StopFile, Gates,
                Persist, PersistReport, Cancel, Finalize, Cancelled, Loop, Resuming
  <2>4. \A q \in Procs \ {p} : pc'[q] = pc[q]
    BY <2>3 DEF Leave, Goto, TypeOK
  <2> QED  BY <1>1, <2>1, <2>2, <2>4 DEF AloneInv
<1>2. ASSUME NEW p \in Procs, Step(p) \/ Die(p), ~overlap' => At(p)' /\ Fine
      PROVE  AloneInv'
  BY <1>1, <1>2, StillAlone DEF AloneInv
<1>3. ASSUME NEW p \in Procs, ~overlap', Load(p) \/ Clean(p) \/ Recheck(p)
      PROVE  At(p)' /\ Fine
  <2>1. UNCHANGED dbVars /\ Fine
    BY <1>1, <1>3 DEF Load, Clean, Recheck, Step, dbVars, Reported, CompletedIds
  <2>2. CASE Leave(p)
    BY <2>1, <2>2, LeaveAt
  <2>3. CASE ~Leave(p)
    <3>1. pc'[p] \in {"clean", "recheck", "find"}
      BY <1>3, <2>3 DEF Load, Clean, Recheck, Goto, TypeOK
    <3>2. state \in {"failed", "cancelled"}
      BY <1>1, <1>3, <2>3 DEF Load, Clean, Recheck, Resumable, At, Resuming, Step
    <3> QED  BY <2>1, <3>1, <3>2 DEF At, Loop, Resuming, dbVars
  <2> QED  BY <2>2, <2>3
<1>4. ASSUME NEW p \in Procs, ~overlap', FindLast(p)
      PROVE  At(p)' /\ Fine
  <2>1. /\ UNCHANGED dbVars /\ Fine /\ state \in {"failed", "cancelled"}
        /\ CompletedIds' = CompletedIds
    BY <1>1, <1>4 DEF FindLast, Step, dbVars, Reported, CompletedIds, At, Resuming
  <2>2. round'[p] = StartRound
    BY <1>4 DEF FindLast, TypeOK
  <2>3. CASE CompletedIds = {}
    <3>1. pc'[p] = "claim" /\ round'[p] = 1
      BY <1>4, <2>2, <2>3, StartRoundFacts DEF FindLast, Goto, TypeOK
    <3> QED  BY <2>1, <3>1 DEF At, Loop, Resuming, dbVars
  <2>4. CASE CompletedIds # {}
    <3>1. pc'[p] = "fetch" /\ round'[p] - 1 \in CompletedIds'
      BY <1>4, <2>1, <2>2, <2>4, StartRoundFacts DEF FindLast, Goto, TypeOK
    <3> QED  BY <2>1, <3>1 DEF At, Loop, Resuming, dbVars
  <2> QED  BY <2>3, <2>4
<1>5. ASSUME NEW p \in Procs, ~overlap', Fetch(p)
      PROVE  At(p)' /\ Fine
  <2>1. UNCHANGED <<dbVars, round>> /\ Fine /\ state \in {"failed", "cancelled"}
    BY <1>1, <1>5 DEF Fetch, Step, dbVars, Reported, CompletedIds, At, Resuming
  <2>2. round[p] - 1 \in CompletedIds /\ Reported(reports) /\ round[p] \in Nat
    BY <1>1, <1>5, <2>1 DEF Fetch, Step, At, TypeOK
  <2>3. [round |-> round[p] - 1, state |-> "completed"] \in {r \in reports : r.round < round[p]}
    BY <2>2 DEF Reported
  <2>4. pc'[p] = "claim" /\ prev'[p] = {r \in reports : r.round < round[p]}
    BY <1>5 DEF Fetch, Goto, TypeOK
  <2> QED  BY <2>1, <2>3, <2>4 DEF At, Loop, Resuming, dbVars
<1>6. ASSUME NEW p \in Procs, ~overlap', Claim(p)
      PROVE  At(p)' /\ Fine
  <2>1. state \in {"failed", "cancelled"} /\ Reported(reports)
    BY <1>1, <1>6 DEF Claim, Step, At, Resuming
  <2>2. pc'[p] = "check" /\ state' = "running" /\ Reported(reports)'
    BY <1>6, <2>1 DEF Claim, Goto, TypeOK, Reported, CompletedIds
  <2> QED  BY <2>2 DEF At, Loop, Resuming
<1>7. ASSUME NEW p \in Procs, ~overlap', Check(p) \/ StopFile(p) \/ Gates(p)
      PROVE  At(p)' /\ Fine
  <2>1. state = "running" /\ Reported(reports) /\ UNCHANGED dbVars
    BY <1>1, <1>7 DEF Check, StopFile, Gates, Step, At, Loop
  <2>2. pc'[p] \in Loop \ {"report"} /\ (pc'[p] = "cancel" => outcome'[p] = "cancelled")
    BY <1>7 DEF Check, StopFile, Gates, Cancelled, Goto, TypeOK, Loop
  <2> QED  BY <2>1, <2>2 DEF At, Loop, Resuming, dbVars, Reported, CompletedIds
<1>8. ASSUME NEW p \in Procs, ~overlap', Persist(p)
      PROVE  At(p)' /\ Fine
  <2>1. state = "running" /\ Reported(reports) /\ UNCHANGED <<state, reports>>
    BY <1>1, <1>8 DEF Persist, Step, At, Loop
  <2>2. pc'[p] = "report" /\ UNCHANGED <<round, verdict>>
    BY <1>8 DEF Persist, Goto, TypeOK, locals
  <2>3. RowOf(p)' = RowOf(p) /\ RowOf(p) \in Row
    BY <2>2, RowType DEF RowOf
  <2>4. CompletedIds' = IF RowOf(p).state = "completed" THEN CompletedIds \cup {RowOf(p).round}
                       ELSE CompletedIds
    BY <1>8, <2>3, AppendIds DEF Persist
  <2>5. RowOf(p).state = "completed" => RowOf(p) = [round |-> RowOf(p).round, state |-> "completed"]
    BY DEF RowOf
  <2>6. Reported(reports \cup {RowOf(p)})'
    BY <2>1, <2>3, <2>4, <2>5 DEF Reported
  <2> QED  BY <2>1, <2>2, <2>6 DEF At, Loop, Resuming
<1>9. ASSUME NEW p \in Procs, ~overlap', PersistReport(p)
      PROVE  At(p)' /\ Fine
  <2>1. state = "running" /\ Reported(reports \cup {RowOf(p)}) /\ UNCHANGED <<state, rounds>>
    BY <1>1, <1>9 DEF PersistReport, Step, At, Loop
  <2>2. pc'[p] = "check" /\ reports' = reports \cup {RowOf(p)}
    BY <1>9 DEF PersistReport, Goto, TypeOK
  <2>3. Reported(reports)'
    BY <2>1, <2>2 DEF Reported, CompletedIds
  <2> QED  BY <2>1, <2>2, <2>3 DEF At, Loop, Resuming
<1>10. ASSUME NEW p \in Procs, ~overlap', Cancel(p)
       PROVE  At(p)' /\ Fine
  <2>1. outcome'[p] = outcome[p] /\ Reported(reports)' /\ state' = "cancelled"
    BY <1>1, <1>10 DEF Cancel, Step, At, Loop, Reported, CompletedIds, locals
  <2>2. pc'[p] = "finalize"
    BY <1>10 DEF Cancel, Goto, TypeOK
  <2>3. outcome[p] = "cancelled"
    BY <1>1, <1>10 DEF Cancel, Step, At
  <2> QED  BY <2>1, <2>2, <2>3 DEF At, Loop, Resuming
<1>11. ASSUME NEW p \in Procs, ~overlap', Finalize(p)
       PROVE  At(p)' /\ Fine
  <2>1. Reported(reports)'
    BY <1>1, <1>11 DEF Finalize, Step, At, Loop, Reported, CompletedIds
  <2> QED  BY <1>11, <2>1, LeaveAt DEF Finalize
<1>12. ASSUME NEW p \in Procs, ~overlap', Die(p)
       PROVE  At(p)' /\ Fine
  <2>1. UNCHANGED dbVars /\ Fine
    BY <1>1, <1>12 DEF Die, dbVars, Reported, CompletedIds
  <2> QED  BY <1>12, <2>1, LeaveAt DEF Die
<1>13. CASE TurnStop \/ UNCHANGED vars
  <2>1. UNCHANGED <<dbVars, procVars, histVars>>
    BY <1>13 DEF TurnStop, vars
  <2> QED  BY <2>1 DEF dbVars, procVars, histVars, locals, AloneInv, Alone, At, Reported,
                       CompletedIds, RowOf
<1> QED
  BY <1>2, <1>3, <1>4, <1>5, <1>6, <1>7, <1>8, <1>9, <1>10, <1>11, <1>12, <1>13, EnterStep
     DEF Next, Step

LEMMA AloneHolds == Spec => []AloneInv
<1>1. Init => AloneInv
  BY DEF Init, AloneInv, Alone, At, Reported, CompletedIds, Loop, Resuming
<1>2. TypeOK /\ HasLast /\ AloneInv /\ [Next]_vars => AloneInv'
  BY AloneStep
<1> QED  BY <1>1, <1>2, Typed, PTL DEF Spec

\* A loop that is resumed while no other process is in the run begins with the
\* report of the last completed round, whoever died between the row and the report
\* (_persist_round, _persist_report, _load_reports).
THEOREM ResumeFindsReport == Spec => []ResumeKnowsLastRound
<1>1. AloneInv => ResumeKnowsLastRound
  BY DEF AloneInv, At, ResumeKnowsLastRound
<1> QED  BY <1>1, AloneHolds, PTL

\* A completed run stays completed unless two processes were in it at once
\* (resume_ralph).
THEOREM CompletedStays == Spec => CompletedIsTerminal
<1>1. ASSUME TypeOK, AloneInv, [Next]_vars, state = "completed", ~overlap'
      PROVE  state' = "completed"
  <2>1. CASE \E p \in Procs : Step(p)
    <3>1. PICK p \in Procs : Step(p)
      BY <2>1
    <3>2. ~overlap
      BY <1>1, <3>1 DEF Step, Load, Clean, Recheck, FindLast, Fetch, Claim, Check, StopFile,
                        Gates, Persist, PersistReport, Cancel, Finalize, histVars
    <3>3. ~Claim(p) /\ ~Cancel(p) /\ ~Finalize(p)
      BY <1>1, <3>2 DEF AloneInv, At, Claim, Cancel, Finalize, Loop, Resuming
    <3> QED  BY <1>1, <3>1, <3>3 DEF Step, Load, Clean, Recheck, FindLast, Fetch, Check, StopFile,
                                     Gates, Persist, PersistReport, dbVars
  <2>2. CASE ~\E p \in Procs : Step(p)
    BY <1>1, <2>2 DEF Next, Run, Lock, Die, TurnStop, vars, dbVars
  <2> QED  BY <2>1, <2>2
<1>2. TypeOK /\ AloneInv /\ [Next]_vars => [state = "completed" /\ ~overlap' => state' = "completed"]_vars
  BY <1>1
<1> QED  BY <1>2, AloneHolds, TypesAreRight, PTL DEF Spec, CompletedIsTerminal

-----------------------------------------------------------------------------
(* The inside of a round. *)

\* A plan, and a report.
Plan == Inside!Plans
Kept == [plan : Plan \cup {Inside!Lost}]

\* Reports of the rounds there have been: those that were not shrunk have their plan.
Recalls(kept) ==
    /\ kept \in Seq(Kept) /\ Len(kept) = Len(chosen)
    /\ \A i \in 1 .. Len(chosen) : chosen[i] \notin Big => kept[i].plan = chosen[i]

\* Plans are plans, and candidates are scored with numbers.
Scored == [feasibility : Int, alignment : Int, novelty : Int]
RoundTypes ==
    /\ chosen \in Seq(Plan) /\ texts \in Seq(Plan) /\ selected.plan \in Plan
    /\ within \in {"score", "rescore", "select"} => scored \in [1 .. Len(texts) -> Scored]

\* What the gates are handed is what was found of the selected plan.
CollapseStands ==
    within = "gates" /\ selected.idx # 0 => selected.collapse = Inside!Collapsed(selected.plan)

RoundInv == RoundTypes /\ Recalls(prior) /\ Recalls(stored) /\ CollapseStands

\* Two numbers have a greatest and a least.
LEMMA MaxOfTwo ==
  ASSUME NEW a \in Int, NEW b \in Int
  PROVE  Inside!Max({a, b}) \in Int /\ Inside!Min({a, b}) \in Int
         /\ Inside!Max({a, b}) = (IF a > b THEN a ELSE b)
<1>1. Inside!Max({a, b}) \in {a, b} /\ \A y \in {a, b} : Inside!Max({a, b}) >= y
  <2>1. \E x \in {a, b} : \A y \in {a, b} : x >= y
    OBVIOUS
  <2> QED BY <2>1 DEF Inside!Max
<1>2. Inside!Min({a, b}) \in {a, b}
  <2>1. \E x \in {a, b} : \A y \in {a, b} : x <= y
    OBVIOUS
  <2> QED BY <2>1 DEF Inside!Min
<1> QED BY <1>1, <1>2

\* The greatest similarity is one.
LEMMA MaxOfSims ==
  ASSUME NEW S, S \subseteq 0 .. 10, S # {}
  PROVE  Inside!Max(S) \in 0 .. 10
<1> DEFINE T == {10 - x : x \in S}
<1>0. T \subseteq Nat /\ T # {}
  <2>1. \A x \in S : x \in 0 .. 10 /\ 10 - x \in Nat
    OBVIOUS
  <2> QED BY <2>1
<1>1. PICK t \in T : \A u \in T : t <= u
  BY <1>0, Least
<1>2. PICK x \in S : t = 10 - x
  BY <1>1
<1>3. \A y \in S : x >= y
  BY <1>1, <1>2
<1>4. Inside!Max(S) \in S
  BY <1>2, <1>3 DEF Inside!Max
<1> QED BY <1>4

\* The plans of reports are plans.
LEMMA PlansOfType ==
  ASSUME NEW kept \in Seq(Kept)
  PROVE  Inside!PlansOf(kept) \in Seq(Plan)
<1> DEFINE plans == [i \in DOMAIN kept |-> kept[i].plan]
<1>1. DOMAIN kept = 1 .. Len(kept) /\ Len(kept) \in Nat
      /\ \A i \in 1 .. Len(kept) : kept[i] \in Kept
  BY LenProperties, ElementOfSeq
<1>2. plans \in [1 .. Len(kept) -> Plan \cup {Inside!Lost}]
  BY <1>1 DEF Kept
<1>3. plans \in Seq(Plan \cup {Inside!Lost})
  BY <1>1, <1>2, SeqDef
<1>4. (Plan \cup {Inside!Lost}) \cap Plan = Plan
  OBVIOUS
<1>5. Among(plans, Plan) \in Seq(Plan)
  BY <1>3, <1>4, AmongType
<1> QED BY <1>5 DEF Inside!PlansOf, Inside!Among, Among, Plan

\* A novelty is a number.
LEMMA NoveltyType ==
  ASSUME NEW t \in Plan, NEW priors \in Seq(Plan)
  PROVE  Inside!Novelty(t, priors) \in Int
<1>1. CASE priors = <<>>
  BY <1>1 DEF Inside!Novelty, Inside!Default
<1>2. CASE priors # <<>>
  <2> DEFINE S == {Sim[<<t, u>>] : u \in Inside!ToSet(priors)}
  <2>1. 1 \in DOMAIN priors /\ \A i \in DOMAIN priors : priors[i] \in Plan
    BY <1>2, EmptySeq, LenProperties, ElementOfSeq
  <2>2. Inside!ToSet(priors) \subseteq Plan /\ Inside!ToSet(priors) # {}
    BY <2>1 DEF Inside!ToSet
  <2>3. S \subseteq 0 .. 10 /\ S # {}
    BY <2>2, RoundAssumption DEF Plan
  <2>4. Inside!Max(S) \in 0 .. 10
    BY <2>3, MaxOfSims
  <2> QED BY <1>2, <2>4 DEF Inside!Novelty
<1> QED BY <1>1, <1>2

\* There is a first candidate of the highest total.
LEMMA SelectedExists ==
  ASSUME NEW n \in Nat \ {0}, scored \in [1 .. n -> Scored]
  PROVE  Inside!Selected \in 1 .. n
<1> DEFINE f == [i \in 1 .. n |-> Inside!TotalOf(scored[i])]
<1>1. \A i \in 1 .. n : f[i] = Inside!TotalOf(scored[i]) /\ f[i] \in Int
  BY DEF Scored, Inside!TotalOf
<1> HIDE DEF f
<1>2. PICK best \in 1 .. n : FirstGreatest(f, n, best)
  BY <1>1, FirstGreatestExists
<1>3. /\ \A j \in 1 .. n : f[j] <= f[best]
      /\ \A j \in 1 .. best - 1 : f[j] < f[best]
  BY <1>1, <1>2 DEF FirstGreatest
<1>4. /\ \A j \in DOMAIN scored : Inside!TotalOf(scored[j]) <= Inside!TotalOf(scored[best])
      /\ \A j \in 1 .. best - 1 : Inside!TotalOf(scored[j]) < Inside!TotalOf(scored[best])
  BY <1>1, <1>3
<1>5. Inside!Selected \in DOMAIN scored
  BY <1>4 DEF Inside!Selected
<1> QED BY <1>5

\* Before the first round.
LEMMA RoundInit == Inside!Init => RoundInv
<1> SUFFICES ASSUME Inside!Init PROVE RoundInv
  OBVIOUS
<1>1. chosen = <<>> /\ prior = <<>> /\ stored = <<>> /\ texts = <<>> /\ within = "ideate"
      /\ selected.plan = Objective
  BY DEF Inside!Init, Inside!NoRound
<1>2. Objective \in Plan
  BY DEF Plan, Inside!Plans
<1>3. <<>> \in Seq(Plan) /\ <<>> \in Seq(Kept) /\ Len(<<>>) = 0
  BY EmptySeq
<1> QED BY <1>1, <1>2, <1>3 DEF RoundInv, RoundTypes, Recalls, CollapseStands

\* Candidates are plans, each with the scores of the start.
LEMMA IdeateKeeps == ASSUME RoundInv, Inside!Ideate PROVE RoundInv'
<1>1. /\ texts' \in Inside!GeneratedTexts
      /\ within' = IF setting.model /\ texts' # <<>> THEN "score" ELSE "select"
      /\ scored' = [i \in DOMAIN texts' |->
                     [feasibility |-> Inside!Default, alignment |-> Inside!Default,
                      novelty |-> Inside!Novelty(texts'[i], Inside!PlansOf(prior))]]
      /\ UNCHANGED <<prior, stored, selected, chosen>>
  BY DEF Inside!Ideate
<1>2. texts' \in Seq(Plan)
  <2> DEFINE n == Inside!Candidates
  <2>1. n \in Nat
    <3> DEFINE m == Inside!Min({Configured, Inside!MaxN})
    <3>0. Configured \in Int /\ Inside!MaxN \in Int
      BY RoundAssumption DEF Inside!MaxN
    <3>1. m \in Int
      BY <3>0, MaxOfTwo
    <3> HIDE DEF m
    <3>2. Inside!Max({1, m}) = IF 1 > m THEN 1 ELSE m
      BY <3>1, MaxOfTwo
    <3>3. Inside!Max({1, m}) \in Nat
      BY <3>1, <3>2
    <3> QED BY <3>3 DEF Inside!Candidates, m
  <2> HIDE DEF n
  <2>2. /\ \A k \in 0 .. n : [1 .. k -> Texts] \subseteq Seq(Plan)
        /\ [i \in 1 .. n |-> Filler] \in Seq(Plan) /\ [i \in 1 .. n |-> Stub] \in Seq(Plan)
    <3>1. Texts \subseteq Plan /\ Filler \in Plan /\ Stub \in Plan
      BY DEF Plan, Inside!Plans
    <3>2. \A k \in 0 .. n : [1 .. k -> Texts] \subseteq [1 .. k -> Plan] /\ k \in Nat
      BY <2>1, <3>1
    <3>3. [i \in 1 .. n |-> Filler] \in [1 .. n -> Plan] /\ [i \in 1 .. n |-> Stub] \in [1 .. n -> Plan]
      BY <3>1
    <3> QED BY <2>1, <3>2, <3>3, SeqDef
  <2>3. CASE setting.model
    <3> DEFINE U == UNION {[1 .. k -> Texts] : k \in 0 .. n}
               F == {[i \in 1 .. n |-> Filler]}
    <3>1. Inside!GeneratedTexts = F \cup U
      BY <2>3 DEF Inside!GeneratedTexts, n
    <3>2. U \subseteq Seq(Plan) /\ F \subseteq Seq(Plan)
      BY <2>2
    <3> HIDE DEF U, F
    <3> QED BY <1>1, <3>1, <3>2
  <2>4. CASE ~setting.model
    BY <1>1, <2>2, <2>4 DEF Inside!GeneratedTexts, n
  <2> QED BY <2>3, <2>4
<1>3. scored' \in [1 .. Len(texts') -> Scored]
  <2>1. DOMAIN texts' = 1 .. Len(texts') /\ \A i \in 1 .. Len(texts') : texts'[i] \in Plan
    BY <1>2, LenProperties, ElementOfSeq
  <2>2. Inside!PlansOf(prior) \in Seq(Plan)
    BY PlansOfType DEF RoundInv, Recalls
  <2>3. \A i \in 1 .. Len(texts') : Inside!Novelty(texts'[i], Inside!PlansOf(prior)) \in Int
    BY <2>1, <2>2, NoveltyType
  <2> QED BY <1>1, <2>1, <2>3 DEF Scored, Inside!Default
<1>4. within' # "gates"
  BY <1>1
<1> QED BY <1>1, <1>2, <1>3, <1>4 DEF RoundInv, RoundTypes, Recalls, CollapseStands

\* Scores change no plan.
LEMMA ScoreKeeps == ASSUME RoundInv, Inside!Score PROVE RoundInv'
<1>1. within \in {"score", "rescore"} /\ UNCHANGED <<prior, stored, texts, selected, chosen>>
  BY DEF Inside!Score
<1>2. scored \in [1 .. Len(texts) -> Scored] /\ DOMAIN texts = 1 .. Len(texts)
  BY <1>1, LenProperties DEF RoundInv, RoundTypes
<1>3. scored' \in [1 .. Len(texts) -> Scored] /\ within' # "gates"
  <2>1. CASE Inside!TakeScores
    <3>1. PICK f \in [DOMAIN texts -> Marks], a \in [DOMAIN texts -> Marks] :
            scored' = [i \in DOMAIN texts |->
                         [scored[i] EXCEPT !.feasibility = f[i], !.alignment = a[i]]]
      BY <2>1 DEF Inside!TakeScores
    <3>2. \A i \in 1 .. Len(texts) : f[i] \in Int /\ a[i] \in Int
      BY <1>2, RoundAssumption
    <3>3. scored' \in [1 .. Len(texts) -> Scored]
      BY <1>2, <3>1, <3>2 DEF Scored
    <3> QED BY <2>1, <3>3 DEF Inside!TakeScores
  <2>2. CASE Inside!Unscored
    BY <1>1, <1>2, <2>2 DEF Inside!Unscored
  <2> QED BY <2>1, <2>2 DEF Inside!Score
<1> QED BY <1>1, <1>3 DEF RoundInv, RoundTypes, Recalls, CollapseStands

\* A round without candidates has the objective for its plan.
LEMMA RaisesKeeps == ASSUME RoundInv, Inside!ScoringRaises PROVE RoundInv'
<1>1. /\ selected'.plan = Objective /\ selected'.idx = 0 /\ texts' = <<>> /\ within' = "gates"
      /\ UNCHANGED <<prior, stored, chosen>>
  BY DEF Inside!ScoringRaises
<1>2. Objective \in Plan /\ <<>> \in Seq(Plan)
  BY EmptySeq DEF Plan, Inside!Plans
<1> QED BY <1>1, <1>2 DEF RoundInv, RoundTypes, Recalls, CollapseStands

\* The gates are handed a plan and whether it was found to repeat others.
LEMMA SelectKeeps == ASSUME RoundInv, Inside!Select PROVE RoundInv'
<1>1. /\ within = "select" /\ within' = "gates"
      /\ UNCHANGED <<prior, stored, texts, chosen>>
  BY DEF Inside!Select
<1>2. CASE scored = <<>>
  <2>1. selected'.plan = Objective /\ selected'.idx = 0
    BY <1>2 DEF Inside!Select
  <2>2. Objective \in Plan
    BY DEF Plan, Inside!Plans
  <2> QED BY <1>1, <2>1, <2>2 DEF RoundInv, RoundTypes, Recalls, CollapseStands
<1>3. CASE scored # <<>>
  <2>1. selected'.plan = texts[Inside!Selected]
        /\ selected'.collapse = Inside!Collapsed(texts[Inside!Selected])
    BY <1>3 DEF Inside!Select
  <2>2. scored \in [1 .. Len(texts) -> Scored] /\ texts \in Seq(Plan) /\ Len(texts) \in Nat
    BY <1>1, LenProperties DEF RoundInv, RoundTypes
  <2>3. Len(texts) # 0
    <3> SUFFICES ASSUME Len(texts) = 0 PROVE FALSE
      OBVIOUS
    <3>1. scored \in [1 .. 0 -> Scored]
      BY <2>2
    <3>2. scored \in Seq(Scored) /\ Len(scored) = 0
      BY <3>1, SeqDef
    <3> QED BY <1>3, <3>2, EmptySeq
  <2>4. Inside!Selected \in 1 .. Len(texts)
    BY <2>2, <2>3, SelectedExists
  <2>5. texts[Inside!Selected] \in Plan
    BY <2>2, <2>4, ElementOfSeq
  <2>6. (Inside!Collapsed(selected.plan))' = Inside!Collapsed(texts[Inside!Selected])
    BY <1>1, <2>1 DEF Inside!Collapsed
  <2> QED BY <1>1, <2>1, <2>5, <2>6 DEF RoundInv, RoundTypes, Recalls, CollapseStands
<1> QED BY <1>2, <1>3

\* The gates change neither.
LEMMA GatesKeep == ASSUME RoundInv, Inside!Gates PROVE RoundInv'
<1>1. /\ texts' = <<>> /\ within' = "report"
      /\ UNCHANGED <<prior, stored, selected, chosen>>
  BY DEF Inside!Gates
<1>2. <<>> \in Seq(Plan)
  BY EmptySeq
<1> QED BY <1>1, <1>2 DEF RoundInv, RoundTypes, Recalls, CollapseStands

\* A report added.
LEMMA RecallsMore ==
  ASSUME NEW kept, Recalls(kept), chosen \in Seq(Plan), NEW plan \in Plan,
         chosen' = Append(chosen, plan),
         NEW r \in Kept, plan \notin Big => r.plan = plan
  PROVE  /\ Append(kept, r) \in Seq(Kept) /\ Len(Append(kept, r)) = Len(chosen')
         /\ \A i \in 1 .. Len(chosen') :
              chosen'[i] \notin Big => Append(kept, r)[i].plan = chosen'[i]
<1> DEFINE more == Append(kept, r)
<1>1. /\ more \in Seq(Kept) /\ Len(more) = Len(kept) + 1 /\ more[Len(kept) + 1] = r
      /\ \A i \in 1 .. Len(kept) : more[i] = kept[i]
  BY AppendProperties DEF Recalls
<1>2. /\ Len(chosen') = Len(chosen) + 1 /\ chosen'[Len(chosen) + 1] = plan /\ Len(chosen) \in Nat
      /\ \A i \in 1 .. Len(chosen) : chosen'[i] = chosen[i]
  BY AppendProperties
<1> HIDE DEF more
<1>3. Len(more) = Len(chosen')
  BY <1>1, <1>2 DEF Recalls
<1>4. ASSUME NEW i \in 1 .. Len(chosen'), chosen'[i] \notin Big PROVE more[i].plan = chosen'[i]
  <2>1. CASE i = Len(chosen) + 1
    BY <1>1, <1>2, <1>4, <2>1 DEF Recalls
  <2>2. CASE i \in 1 .. Len(chosen)
    BY <1>1, <1>2, <1>4, <2>2 DEF Recalls
  <2> QED BY <1>2, <2>1, <2>2
<1> QED BY <1>1, <1>3, <1>4 DEF more

\* A report is kept in memory as it is, and in the database perhaps without its plan.
LEMMA ReportKeeps == ASSUME RoundInv, Inside!Report PROVE RoundInv'
<1> DEFINE r == [plan |-> selected.plan]
<1>1. /\ prior' = Append(prior, r) /\ stored' = Append(stored, Inside!ToJson(r))
      /\ chosen' = Append(chosen, selected.plan) /\ within' = "ideate"
      /\ selected'.plan = Objective /\ UNCHANGED texts
  BY DEF Inside!Report, Inside!NoRound
<1>2. selected.plan \in Plan /\ chosen \in Seq(Plan)
  BY DEF RoundInv, RoundTypes
<1>3. r \in Kept /\ r.plan = selected.plan
  BY <1>2 DEF Kept
<1>4. Inside!ToJson(r) \in Kept /\ (selected.plan \notin Big => Inside!ToJson(r).plan = selected.plan)
  BY <1>2 DEF Kept, Inside!ToJson
<1> HIDE DEF r
<1>5. Recalls(prior) /\ Recalls(stored)
  BY DEF RoundInv
<1>6. Recalls(prior)' /\ Recalls(stored)'
  <2>1. Recalls(prior)'
    BY <1>1, <1>2, <1>3, <1>5, RecallsMore DEF Recalls
  <2>2. Recalls(stored)'
    BY <1>1, <1>2, <1>4, <1>5, RecallsMore DEF Recalls
  <2> QED BY <2>1, <2>2
<1>7. Objective \in Plan /\ chosen' \in Seq(Plan)
  BY <1>1, <1>2, AppendProperties DEF Plan, Inside!Plans
<1> QED BY <1>1, <1>6, <1>7 DEF RoundInv, RoundTypes, CollapseStands

\* A resumed loop knows the stored reports.
LEMMA ResumeKeeps == ASSUME RoundInv, Inside!Resume PROVE RoundInv'
<1>1. /\ within = "ideate" /\ prior' = stored
      /\ UNCHANGED <<within, stored, texts, scored, selected, chosen>>
  BY DEF Inside!Resume
<1> QED BY <1>1 DEF RoundInv, RoundTypes, Recalls, CollapseStands

\* Every step keeps the invariant.
LEMMA RoundStep == RoundInv /\ [Inside!Next]_(Inside!vars) => RoundInv'
<1> SUFFICES ASSUME RoundInv, [Inside!Next]_(Inside!vars) PROVE RoundInv'
  OBVIOUS
<1>1. CASE UNCHANGED Inside!vars
  <2>1. UNCHANGED <<within, prior, stored, texts, scored, selected, chosen>>
    BY <1>1 DEF Inside!vars
  <2>2. (Inside!Collapsed(selected.plan))' = Inside!Collapsed(selected.plan)
    BY <2>1 DEF Inside!Collapsed
  <2> QED BY <2>1, <2>2 DEF RoundInv, RoundTypes, Recalls, CollapseStands
<1> QED BY <1>1, IdeateKeeps, ScoreKeeps, RaisesKeeps, SelectKeeps, GatesKeep, ReportKeeps, ResumeKeeps
        DEF Inside!Next

\* The invariant says that a repetition is noticed.
LEMMA NoticesRepetition == ASSUME Needed <= 3, RoundInv PROVE RepetitionIsNoticed
<1> SUFFICES ASSUME within = "gates", selected.idx # 0, Len(chosen) >= Needed,
                    \A i \in {Len(chosen) - k : k \in 0 .. Needed - 1} :
                       chosen[i] \notin Big /\ Sim[<<selected.plan, chosen[i]>>] >= Threshold
             PROVE  Inside!Collapsed(selected.plan)
  BY DEF RepetitionIsNoticed, Inside!RepetitionIsNoticed, RoundInv, CollapseStands
<1> DEFINE n == Len(chosen)
           from == IF n > 2 THEN n - 2 ELSE 1
           last == SubSeq(prior, from, n)
           plans == [i \in DOMAIN last |-> last[i].plan]
<1>1. Needed \in 1 .. 3 /\ n \in Nat /\ n >= Needed
  BY RoundAssumption, LenProperties DEF RoundInv, RoundTypes
<1>2. /\ prior \in Seq(Kept) /\ Len(prior) = n /\ chosen \in Seq(Plan)
      /\ \A i \in 1 .. n : chosen[i] \notin Big => prior[i].plan = chosen[i]
  BY DEF RoundInv, RoundTypes, Recalls
<1>3. prior # <<>>
  BY <1>1, <1>2, EmptySeq
<1>4. Inside!Recent(prior) = Among(plans, Plan)
  <2>1. Inside!Max({1, n - 2}) = from
    <3>1. n \in Nat
      BY <1>1
    <3> HIDE DEF n
    <3>2. n - 2 \in Int
      BY <3>1
    <3>3. Inside!Max({1, n - 2}) = IF 1 > n - 2 THEN 1 ELSE n - 2
      BY <3>2, MaxOfTwo
    <3> QED BY <3>1, <3>3
  <2>2. Inside!Recent(prior) = Inside!PlansOf(SubSeq(prior, from, n))
    <3> HIDE DEF from
    <3> QED BY <1>2, <2>1, Zenon DEF Inside!Recent
  <2> HIDE DEF last
  <2>3. Inside!PlansOf(last) = Among(plans, Plan)
    BY DEF Inside!PlansOf, Inside!Among, Among, Plan
  <2> QED BY <2>2, <2>3 DEF last
<1>5. from \in 1 .. n /\ n - from + 1 \in Needed .. 3
  BY <1>1
<1> HIDE DEF n, from
<1>6. /\ last \in Seq(Kept) /\ Len(last) = n - from + 1
      /\ \A i \in 1 .. n - from + 1 : last[i] = prior[from + i - 1]
  BY <1>1, <1>2, <1>5, SubSeqProperties
<1> HIDE DEF last
<1>7. /\ plans \in Seq(Plan \cup {Inside!Lost}) /\ Len(plans) = Len(last)
      /\ \A i \in 1 .. Len(last) : plans[i] = last[i].plan
  <2>1. DOMAIN last = 1 .. Len(last) /\ Len(last) \in Nat /\ \A i \in 1 .. Len(last) : last[i] \in Kept
    BY <1>6, LenProperties, ElementOfSeq
  <2>2. plans \in [1 .. Len(last) -> Plan \cup {Inside!Lost}]
    BY <2>1 DEF Kept
  <2>3. plans \in Seq(Plan \cup {Inside!Lost})
    BY <2>1, <2>2, SeqDef
  <2> QED BY <2>1, <2>2, <2>3
<1> HIDE DEF plans
<1>8. \A k \in 0 .. Needed - 1 :
        /\ n - k \in 1 .. n /\ chosen[n - k] \in Plan /\ plans[Len(plans) - k] = chosen[n - k]
        /\ Sim[<<selected.plan, chosen[n - k]>>] >= Threshold
  <2> TAKE k \in 0 .. Needed - 1
  <2>1. /\ n - k \in 1 .. n /\ Len(plans) - k \in 1 .. Len(last) /\ from + (Len(plans) - k) - 1 = n - k
    BY <1>1, <1>5, <1>6, <1>7
  <2>2. chosen[n - k] \notin Big /\ Sim[<<selected.plan, chosen[n - k]>>] >= Threshold
    BY DEF n
  <2>3. plans[Len(plans) - k] = prior[n - k].plan
    BY <1>6, <1>7, <2>1
  <2>4. chosen[n - k] \in Plan
    BY <1>2, <2>1, ElementOfSeq DEF n
  <2> QED BY <1>2, <2>1, <2>2, <2>3, <2>4
<1>9. Needed \in 0 .. Len(plans) /\ \A i \in Len(plans) - Needed + 1 .. Len(plans) : plans[i] \in Plan
  <2>1. Needed \in 0 .. Len(plans) /\ Len(plans) \in Nat
    BY <1>1, <1>5, <1>6, <1>7
  <2>2. \A i \in Len(plans) - Needed + 1 .. Len(plans) :
          Len(plans) - i \in 0 .. Needed - 1 /\ Len(plans) - (Len(plans) - i) = i
    BY <1>1, <2>1
  <2> QED BY <1>8, <2>1, <2>2
<1>10. /\ Needed <= Len(Among(plans, Plan))
       /\ \A j \in 0 .. Needed - 1 :
             Among(plans, Plan)[Len(Among(plans, Plan)) - j] = plans[Len(plans) - j]
  BY <1>7, <1>9, LastAreKept
<1> HIDE DEF RoundInv
<1>11. Len(Among(plans, Plan)) >= Needed
  <2>1. Len(Among(plans, Plan)) \in Nat
    BY <1>7, AmongType, LenProperties
  <2> QED BY <1>1, <1>10, <2>1
<1> QED BY <1>3, <1>4, <1>8, <1>10, <1>11 DEF Inside!Collapsed

\* When the plan just selected is close to those of the last Needed rounds,
\* ideation.py notices the collapse, in a loop that was resumed from what the
\* database keeps of those rounds as well; Needed is at most the three rounds
\* _detect_collapse looks at.
THEOREM CollapseIsNoticed == ASSUME Needed <= 3 PROVE Inside!Spec => []RepetitionIsNoticed
<1>1. RoundInv => RepetitionIsNoticed
  BY NoticesRepetition
<1> QED BY <1>1, RoundInit, RoundStep, PTL DEF Inside!Spec
=============================================================================
