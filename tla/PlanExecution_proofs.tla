------------------------ MODULE PlanExecution_proofs -------------------------
(* Proofs about PlanExecution, for every plan, every set of files and every *)
(* number of attempts: what is done, audited and reported, the refinement   *)
(* of PlanBoard, and the bound on the steps of a run.                       *)
EXTENDS PlanExecution, FiniteSetTheorems, TLAPS

LEMMA PlanIsSeq ==
    ASSUME TypeOK
    PROVE  /\ plan \in Seq(Task) /\ Len(plan) \in Nat /\ Len(plan) > 0
           /\ DOMAIN plan = 1 .. Len(plan)
           /\ \A i \in 1 .. Len(plan) :
                 /\ plan[i] \in Task /\ plan[i].id \in Ids
                 /\ plan[i].deps \subseteq Ids /\ plan[i].create \subseteq Files
<1>1. plan \in Seq(Task) /\ plan # <<>>
  BY PlansAssumption DEF TypeOK
<1>2. /\ Len(plan) \in Nat /\ Len(plan) > 0
      /\ DOMAIN plan = 1 .. Len(plan)
      /\ \A i \in 1 .. Len(plan) : plan[i] \in Task
  BY <1>1
<1>3. \A t \in Task : t.id \in Ids /\ t.deps \subseteq Ids /\ t.create \subseteq Files
  BY DEF Task
<1> QED BY <1>1, <1>2, <1>3

(* The two ends of a failed attempt.                                       *)
LEMMA RetryOrBlockTypes ==
    ASSUME TypeOK, pc \in {"execute", "verify", "review"}, RetryOrBlock
    PROVE  /\ attempt' \in 1 .. MaxAttempts
           /\ status' \in [Ids -> Statuses]
           /\ result' \in Results
           /\ pc' \in {"attempt", "ended"}
<1>1. idx \in 1 .. Len(plan)
  BY PlanIsSeq DEF TypeOK
<1>2. CASE Retry
  BY <1>2, AttemptsAssumption DEF Retry, TypeOK
<1>3. CASE Block
  BY <1>1, <1>3 DEF Block, End, TypeOK, Statuses, Results
<1> QED BY <1>2, <1>3 DEF RetryOrBlock

(* The tools and the update of a box keep the boxes typed.                 *)
LEMMA RewrittenType ==
    ASSUME TypeOK, NEW lines \in [Editable -> Boxes]
    PROVE  Rewritten(lines) \in [Ids -> Boxes]
  BY EditableAssumption DEF Rewritten, TypeOK

LEMMA ToolsRanTypes ==
    ASSUME TypeOK, ToolsRan
    PROVE  /\ disk' \in SUBSET (Files \ Outside) /\ box' \in [Ids -> Boxes]
           /\ tickFailed' \in SUBSET Ids /\ edited' \in SUBSET Ids
  BY RewrittenType DEF ToolsRan, TypeOK

LEMMA UpdateBoxTypes ==
    ASSUME TypeOK, pc = "record", UpdateBox
    PROVE  /\ box' \in [Ids -> Boxes]
           /\ tickFailed' \in SUBSET Ids /\ edited' \in SUBSET Ids
<1>1. Current.id \in Ids
  BY PlanIsSeq DEF TypeOK, Current
<1>2. Ticked \in [Ids -> Boxes]
  BY <1>1 DEF Ticked, TypeOK, Boxes
<1> QED BY <1>1, <1>2, RewrittenType DEF UpdateBox, TypeOK, ticks

(* TypeOK is inductive: the program counter and the loop indices stay in   *)
(* their ranges whatever the agents answer.                                *)
LEMMA TypeOKInductive == TypeOK /\ [Next]_vars => TypeOK'
<1> SUFFICES ASSUME TypeOK, [Next]_vars PROVE TypeOK'
  OBVIOUS
<1>0. /\ Len(plan) \in Nat /\ Len(plan) > 0
      /\ pc \notin {"scan", "ended"} => plan[idx].id \in Ids
  BY PlanIsSeq DEF TypeOK
<1> USE <1>0, AttemptsAssumption, FilesAssumption
    DEF TypeOK, Points, Statuses, Results, Modes, arguments, schedule, history, reviews, ticks,
        End, Current
<1>1. CASE Scheduler
  <2>1. CASE SkipTask BY <2>1 DEF SkipTask
  <2>2. CASE CallTask BY <2>2 DEF CallTask
  <2>3. CASE EndPass
    <3>1. /\ idx' \in 1 .. Len(plan) + 1 /\ pc' \in {"scan", "ended"}
          /\ progress' \in BOOLEAN /\ completed' = completed /\ result' \in Results
      <4>1. CASE UNCHANGED schedule BY <2>3, <4>1 DEF EndPass
      <4>2. CASE /\ idx' = 1 /\ progress' = FALSE
                 /\ UNCHANGED <<completed, pc, result>>
        <5>1. pc = "scan"
          BY <2>3 DEF EndPass
        <5>2. 1 \in 1 .. Len(plan) + 1
          BY <1>0
        <5> QED BY <4>2, <5>1, <5>2
      <4> QED BY <2>3, <4>1, <4>2 DEF EndPass
    <3> QED BY <2>3, <3>1 DEF EndPass
  <2>4. CASE Abort BY <2>4 DEF Abort
  <2> QED BY <1>1, <2>1, <2>2, <2>3, <2>4 DEF Scheduler
<1>2. CASE TaskStep
  <2>1. CASE StartTask BY <2>1 DEF StartTask, ShouldRequirePlanFileRead, ExecutorIsCoder
  <2>2. CASE CallExecutor BY <2>2 DEF CallExecutor
  <2>3. CASE VerifyFails BY <2>3, RetryOrBlockTypes DEF VerifyFails
  <2>4. CASE AcceptUnreviewed BY <2>4 DEF AcceptUnreviewed, Verified, MarkDone
  <2>5. CASE CallReviewer BY <2>5 DEF CallReviewer, Verified
  <2>6. CASE RecordTask
    <3>1. /\ box' \in [Ids -> Boxes] /\ tickFailed' \in SUBSET Ids
          /\ edited' \in SUBSET Ids
      BY <2>6, UpdateBoxTypes DEF RecordTask
    <3> QED BY <2>6, <3>1 DEF RecordTask
  <2> QED BY <1>2, <2>1, <2>2, <2>3, <2>4, <2>5, <2>6 DEF TaskStep
<1>3. CASE AgentReturns
  <2>1. CASE ExecutorFails BY <2>1, RetryOrBlockTypes, ToolsRanTypes DEF ExecutorFails
  <2>2. CASE ExecutorReturns BY <2>2, ToolsRanTypes DEF ExecutorReturns
  <2>3. CASE ReviewerFails BY <2>3, RetryOrBlockTypes DEF ReviewerFails
  <2>4. CASE Approve BY <2>4 DEF Approve, MarkDone
  <2>5. CASE Reject BY <2>5, RetryOrBlockTypes DEF Reject
  <2> QED BY <1>3, <2>1, <2>2, <2>3, <2>4, <2>5 DEF AgentReturns
<1>4. CASE AgentCancelled
  BY <1>4, ToolsRanTypes DEF AgentCancelled, ExecutorCancelled, ReviewerCancelled
<1>5. CASE Cancel BY <1>5 DEF Cancel
<1>6. CASE ToggleMode BY <1>6 DEF ToggleMode
<1>7. CASE UNCHANGED vars BY <1>7 DEF vars
<1> QED BY <1>1, <1>2, <1>3, <1>4, <1>5, <1>6, <1>7 DEF Next

LEMMA TypeOKInitially == Init => TypeOK
<1> SUFFICES ASSUME Init PROVE TypeOK
  OBVIOUS
<1>1. Len(plan) \in Nat
  BY PlansAssumption DEF Init
<1>2. /\ idx \in 1 .. Len(plan) + 1 /\ attempt \in 1 .. MaxAttempts
      /\ findings \in 0 .. MaxAttempts /\ rejected \in 0 .. MaxAttempts
  BY <1>1, AttemptsAssumption DEF Init
<1> QED BY <1>2 DEF Init, TypeOK, Points, Statuses, Results, Modes, Boxes

(* Every reachable state has the types of TypeOK.                          *)
THEOREM TypeCorrect == Spec => []TypeOK
  BY TypeOKInitially, TypeOKInductive, PTL DEF Spec
-----------------------------------------------------------------------------
(* IInv is inductive.  Steps that disturb the same variables share a lemma. *)

LEMMA CurrentFacts ==
    ASSUME TypeOK, InTask
    PROVE  /\ idx \in DOMAIN plan /\ idx \in 1 .. Len(plan) /\ idx <= Len(plan)
           /\ Current \in Task /\ Current.id \in Ids /\ Current.id \in PlanIds
           /\ Current.deps \subseteq Ids
  BY PlanIsSeq DEF TypeOK, InTask, Current, PlanIds

LEMMA StuckFrame ==
    ASSUME plan' = plan
    PROVE  PlanIds' = PlanIds /\ \A S : Stuck(S)' <=> Stuck(S)
  BY DEF PlanIds, Stuck

LEMMA StuckKept ==
    ASSUME StuckInv, plan' = plan, completed' = completed
    PROVE  StuckInv'
<1> SUFFICES ASSUME NEW S \in SUBSET PlanIds', Stuck(S)'
             PROVE  S \cap completed' = {}
  BY DEF StuckInv
<1> QED BY StuckFrame DEF StuckInv

(* What becomes of the boxes in every step but the update of one.          *)
BoxesTouched ==
    /\ tickFailed' = tickFailed
    /\ edited' = edited \cup {t \in Ids : box'[t] # box[t]}

LEMMA BoxesLeftAlone == UNCHANGED <<box, ticks>> => BoxesTouched
  BY DEF BoxesTouched, ticks

LEMMA ToolsTouch == ToolsRan => BoxesTouched
  BY DEF BoxesTouched, ToolsRan

LEMMA BoxesKept ==
    ASSUME BoxesMatchBoard, BoxesTouched, planFile' = planFile,
           \A t \in Ids : status'[t] = "done" <=> status[t] = "done",
           pc = "record" => pc' = "record" /\ Current'.id = Current.id
    PROVE  BoxesMatchBoard'
<1>1. \A t \in Ids \ edited' : t \notin edited /\ box'[t] = box[t]
  BY DEF BoxesTouched
<1> QED BY <1>1 DEF BoxesMatchBoard, BoxesTouched

(* Steps that leave everything the invariant relates alone.                *)
LEMMA QuietStep ==
    ASSUME IInv, TypeOK',
           BoxesTouched,
           UNCHANGED <<arguments, schedule, attempt, findings, status, result, reviews>>,
           \/ pc' = pc
           \/ pc \in {"execute", "verify"} /\ pc' \in {"verify", "review"}
    PROVE  IInv'
<1> USE DEF IInv, arguments, schedule, history, reviews, ticks, Current
<1>1. BoardInv'
  BY DEF BoardInv, Working, PlanIds
<1>2. AttemptsInv'
  BY DEF AttemptsInv
<1>3. PassInv'
  BY DEF PassInv, InTask, NoneReadyBefore, Ready, DepsSatisfied, AllCompleted
<1>4. StuckInv'
  BY StuckKept
<1>5. RetryBudget' /\ DependencyOrder' /\ DoneMeansAudited'
  BY DEF RetryBudget, DependencyOrder, DoneMeansAudited, HasReviewer
<1>6. BoxesMatchBoard'
  BY BoxesKept
<1> QED BY <1>1, <1>2, <1>3, <1>4, <1>5, <1>6

(* The run ends because its context is cancelled.                          *)
LEMMA CancelledStep ==
    ASSUME IInv, TypeOK',
           pc \notin {"record", "ended"}, End("cancelled"),
           BoxesTouched,
           UNCHANGED <<arguments, schedule, attempt, findings, status, reviews>>
    PROVE  IInv'
<1> USE DEF IInv, arguments, schedule, history, reviews, ticks, Current, End
<1>1. BoardInv'
  BY DEF BoardInv, Working, PlanIds
<1>2. AttemptsInv'
  BY DEF AttemptsInv
<1>3. PassInv'
  BY DEF PassInv, InTask, NoneReadyBefore, Ready, DepsSatisfied, AllCompleted
<1>4. StuckInv'
  BY StuckKept
<1>5. RetryBudget' /\ DependencyOrder' /\ DoneMeansAudited'
  BY DEF RetryBudget, DependencyOrder, DoneMeansAudited, HasReviewer
<1>6. BoxesMatchBoard'
  BY BoxesKept
<1> QED BY <1>1, <1>2, <1>3, <1>4, <1>5, <1>6

(* A failed attempt, of any kind.                                          *)
LEMMA FailedStep ==
    ASSUME IInv, TypeOK',
           pc \in {"execute", "verify", "review"}, RetryOrBlock,
           findings' = rejected',
           BoxesTouched,
           UNCHANGED <<arguments, schedule, runs, audited>>
    PROVE  IInv'
<1> USE DEF IInv, arguments, schedule, history, reviews, ticks, Current
<1>0. Current.id \in Ids /\ Current.id \in PlanIds /\ idx <= Len(plan)
      /\ runs[Current.id] \in Nat /\ attempt \in Nat
  BY CurrentFacts DEF InTask, TypeOK
<1>1. BoardInv'
  <2>1. CASE Retry
    BY <1>0, <2>1 DEF Retry, BoardInv, Working, PlanIds
  <2>2. CASE Block
    BY <1>0, <2>2 DEF Block, End, BoardInv, Working, PlanIds, TypeOK
  <2> QED BY <2>1, <2>2 DEF RetryOrBlock
<1>2. AttemptsInv'
  BY <1>0 DEF RetryOrBlock, Retry, Block, End, AttemptsInv, TypeOK
<1>3. PassInv'
  BY DEF RetryOrBlock, Retry, Block, End, PassInv, BoardInv, InTask, NoneReadyBefore,
         Ready, DepsSatisfied, AllCompleted
<1>4. StuckInv'
  BY StuckKept
<1>5. \A t \in Ids : (status'[t] = "done" <=> status[t] = "done")
                     /\ (status'[t] # "none" <=> status[t] # "none")
  BY <1>0 DEF RetryOrBlock, Retry, Block, BoardInv, Working, TypeOK
<1>6. RetryBudget' /\ DoneMeansAudited'
  BY <1>5 DEF RetryBudget, DoneMeansAudited, HasReviewer
<1>7. DependencyOrder'
  <2>1. \A i \in DOMAIN plan : plan[i].deps \subseteq Ids
    BY PlanIsSeq
  <2> QED BY <1>5, <2>1 DEF DependencyOrder
<1>8. BoxesMatchBoard'
  BY <1>5, BoxesKept
<1> QED BY <1>1, <1>2, <1>3, <1>4, <1>6, <1>7, <1>8

(* The task is reported done, after a review or without a reviewer.        *)
LEMMA DoneStep ==
    ASSUME IInv, TypeOK',
           pc \in {"verify", "review"}, MarkDone,
           HasReviewer => audited'[Current.id] = runs[Current.id],
           \A t \in Ids \ {Current.id} : audited'[t] = audited[t],
           UNCHANGED <<arguments, schedule, attempt, findings, box, result,
                       runs, rejected, ticks>>
    PROVE  IInv'
<1> USE DEF IInv, arguments, schedule, Current
<1>0. Current.id \in Ids /\ Current.id \in PlanIds /\ idx <= Len(plan)
      /\ runs[Current.id] \in Nat /\ attempt \in 1 .. MaxAttempts
  BY CurrentFacts DEF InTask, TypeOK
<1>1. BoardInv'
  BY <1>0 DEF MarkDone, BoardInv, Working, PlanIds, TypeOK
<1>2. AttemptsInv'
  BY <1>0, AttemptsAssumption DEF MarkDone, AttemptsInv, TypeOK
<1>3. PassInv'
  BY DEF MarkDone, PassInv, BoardInv, InTask, NoneReadyBefore, Ready,
         DepsSatisfied, AllCompleted
<1>4. StuckInv'
  BY StuckKept
<1>5. /\ status' = [status EXCEPT ![Current.id] = "done"]
      /\ status[Current.id] = "running"
  BY DEF MarkDone, BoardInv, Working
<1>6. RetryBudget' /\ DependencyOrder'
  <2>1. \A i \in DOMAIN plan : plan[i].deps \subseteq Ids
    BY PlanIsSeq
  <2> QED BY <1>0, <1>5, <2>1 DEF RetryBudget, DependencyOrder, TypeOK
<1>7. DoneMeansAudited'
  <2>1. runs[Current.id] > 0
    BY <1>0, AttemptsAssumption DEF AttemptsInv
  <2> QED BY <1>0, <1>5, <2>1 DEF DoneMeansAudited, HasReviewer, TypeOK
<1>8. BoxesMatchBoard'
  BY <1>0, <1>5 DEF MarkDone, BoxesMatchBoard, TypeOK, ticks
<1> QED BY <1>1, <1>2, <1>3, <1>4, <1>6, <1>7, <1>8

LEMMA SkipStep == ASSUME IInv, TypeOK', SkipTask PROVE IInv'
<1> USE DEF IInv, SkipTask, arguments, history, reviews, ticks
<1>0. pc = "scan" /\ pc' = "scan" /\ result = "none" /\ idx \in 1 .. Len(plan)
      /\ Len(plan) \in Nat /\ DOMAIN plan = 1 .. Len(plan)
  BY PlanIsSeq DEF BoardInv, TypeOK
<1>1. BoardInv'
  BY <1>0 DEF BoardInv, Working, PlanIds
<1>2. AttemptsInv' /\ RetryBudget' /\ DependencyOrder' /\ DoneMeansAudited'
      /\ BoxesMatchBoard'
  BY <1>0 DEF AttemptsInv, RetryBudget, DependencyOrder, DoneMeansAudited,
     HasReviewer, BoxesMatchBoard
<1>3. PassInv'
  <2>1. \A t : Ready(t)' <=> Ready(t)
    BY DEF Ready, DepsSatisfied
  <2>2. \A j \in DOMAIN plan : j < idx + 1 => j < idx \/ j = idx
    BY <1>0
  <2>3. ~progress => NoneReadyBefore(idx)'
    BY <1>0, <2>1, <2>2 DEF PassInv, NoneReadyBefore, AllCompleted, Current
  <2> QED BY <1>0, <2>3 DEF PassInv, InTask
<1>4. StuckInv'
  BY StuckKept
<1> QED BY <1>1, <1>2, <1>3, <1>4

LEMMA CallStep == ASSUME IInv, TypeOK', CallTask PROVE IInv'
<1> USE DEF IInv, CallTask, arguments, history, reviews, ticks, Current
<1>0. /\ pc = "scan" /\ result = "none" /\ idx <= Len(plan)
      /\ Current.id \in Ids /\ Current.id \in PlanIds
      /\ Current.id \notin completed
  BY PlanIsSeq DEF BoardInv, TypeOK, PlanIds, Ready
<1>1. BoardInv'
  BY <1>0 DEF BoardInv, Working, PlanIds, TypeOK, Statuses
<1>2. AttemptsInv' /\ RetryBudget' /\ DependencyOrder' /\ DoneMeansAudited'
      /\ BoxesMatchBoard'
  BY <1>0 DEF AttemptsInv, RetryBudget, DependencyOrder, DoneMeansAudited,
     HasReviewer, BoxesMatchBoard
<1>3. PassInv'
  BY <1>0 DEF PassInv, InTask, Ready, DepsSatisfied
<1>4. StuckInv'
  BY StuckKept
<1> QED BY <1>1, <1>2, <1>3, <1>4

LEMMA EndPassStep == ASSUME IInv, TypeOK', EndPass PROVE IInv'
<1> USE DEF IInv, EndPass, End, arguments, schedule, history, reviews, ticks
<1>0. /\ pc = "scan" /\ result = "none" /\ idx \in 1 .. Len(plan) + 1
      /\ idx > Len(plan) /\ Len(plan) \in Nat /\ DOMAIN plan = 1 .. Len(plan)
      /\ pc' \in {"scan", "ended"} /\ result' \in {"none", "ok", "deadlock"}
      /\ plan' = plan /\ completed' = completed
      /\ pc' = "ended" <=> result' # "none"
  BY PlanIsSeq DEF BoardInv, TypeOK
<1>1. BoardInv'
  BY <1>0 DEF BoardInv, Working, PlanIds
<1>2. AttemptsInv' /\ RetryBudget' /\ DependencyOrder' /\ DoneMeansAudited'
      /\ BoxesMatchBoard'
  BY <1>0 DEF AttemptsInv, RetryBudget, DependencyOrder, DoneMeansAudited,
     HasReviewer, BoxesMatchBoard
<1>3. PassInv'
  <2>1. (\A t : Ready(t)' <=> Ready(t)) /\ (AllCompleted' <=> AllCompleted)
    BY DEF Ready, DepsSatisfied, AllCompleted
  <2>2. CASE ~progress /\ End("deadlock") /\ UNCHANGED schedule
    <3>1. idx = Len(plan) + 1
      BY <1>0
    <3> QED BY <1>0, <2>1, <2>2, <3>1 DEF PassInv, InTask, NoneReadyBefore
  <2>3. CASE progress /\ AllCompleted /\ End("ok") /\ UNCHANGED schedule
    BY <1>0, <2>1, <2>3 DEF PassInv, InTask
  <2>4. CASE /\ progress /\ ~AllCompleted /\ ~cancelled
             /\ idx' = 1 /\ progress' = FALSE
             /\ UNCHANGED <<completed, pc, result>>
    <3>1. \A j \in DOMAIN plan : ~(j < 1)
      BY <1>0
    <3> QED BY <1>0, <2>1, <2>4, <3>1 DEF PassInv, InTask, NoneReadyBefore
  <2> QED BY <2>2, <2>3, <2>4
<1>4. StuckInv'
  BY <1>0, StuckKept
<1> QED BY <1>1, <1>2, <1>3, <1>4

LEMMA StartStep == ASSUME IInv, TypeOK', StartTask PROVE IInv'
<1> USE DEF IInv, StartTask, arguments, schedule, Current
<1>0. /\ Current.id \in Ids /\ Current.id \in PlanIds /\ idx \in DOMAIN plan
      /\ status[Current.id] = "none"
      /\ Current.deps \subseteq completed
  BY CurrentFacts DEF InTask, BoardInv, PassInv, Ready, DepsSatisfied
<1>1. BoardInv'
  BY <1>0 DEF BoardInv, Working, PlanIds, TypeOK
<1>2. AttemptsInv'
  BY <1>0 DEF AttemptsInv, TypeOK
<1>3. PassInv'
  BY DEF PassInv, BoardInv, InTask, NoneReadyBefore, Ready, DepsSatisfied, AllCompleted
<1>4. StuckInv'
  BY StuckKept
<1>5. RetryBudget' /\ DoneMeansAudited' /\ BoxesMatchBoard'
  BY <1>0 DEF RetryBudget, DoneMeansAudited, HasReviewer, BoxesMatchBoard, TypeOK, ticks
<1>6. DependencyOrder'
  <2>1. \A d \in completed : d \in Ids /\ status[d] = "done"
    BY DEF BoardInv, TypeOK
  <2>2. \A i \in DOMAIN plan : plan[i].deps \subseteq Ids
    BY PlanIsSeq
  <2>3. \A t \in Ids : t # Current.id => status'[t] = status[t]
    BY <1>0 DEF TypeOK
  <2>4. \A t \in Ids : status[t] = "done" => status'[t] = "done"
    BY <1>0, <2>3
  <2>5. ASSUME NEW t \in Ids, status'[t] # "none"
        PROVE  \E i \in DOMAIN plan :
                  plan[i].id = t /\ \A d \in plan[i].deps : status'[d] = "done"
    <3>1. CASE t = Current.id
      BY <1>0, <2>1, <2>4, <3>1
    <3>2. CASE t # Current.id
      BY <2>2, <2>3, <2>4, <2>5, <3>2 DEF DependencyOrder
    <3> QED BY <3>1, <3>2
  <2> QED BY <2>5 DEF DependencyOrder
<1> QED BY <1>1, <1>2, <1>3, <1>4, <1>5, <1>6

LEMMA ExecutorStep == ASSUME IInv, TypeOK', CallExecutor PROVE IInv'
<1> USE DEF IInv, CallExecutor, arguments, schedule, Current
<1>0. /\ Current.id \in Ids /\ Current.id \in PlanIds
      /\ status[Current.id] = "running"
      /\ runs[Current.id] = attempt - 1
      /\ attempt \in 1 .. MaxAttempts
  BY CurrentFacts DEF InTask, BoardInv, Working, AttemptsInv, TypeOK
<1>1. BoardInv'
  BY <1>0 DEF BoardInv, Working, PlanIds, TypeOK
<1>2. AttemptsInv' /\ RetryBudget'
  BY <1>0, AttemptsAssumption DEF AttemptsInv, RetryBudget, TypeOK
<1>3. PassInv'
  BY DEF PassInv, BoardInv, InTask, NoneReadyBefore, Ready, DepsSatisfied, AllCompleted
<1>4. StuckInv'
  BY StuckKept
<1>5. DependencyOrder' /\ DoneMeansAudited' /\ BoxesMatchBoard'
  BY <1>0 DEF DependencyOrder, DoneMeansAudited, HasReviewer, BoxesMatchBoard, TypeOK, ticks
<1> QED BY <1>1, <1>2, <1>3, <1>4, <1>5

LEMMA RecordStep == ASSUME IInv, TypeOK', RecordTask PROVE IInv'
<1> USE DEF IInv, RecordTask, arguments, reviews, Current
<1>0. /\ Current.id \in Ids /\ Current.id \in PlanIds /\ idx \in DOMAIN plan
      /\ status[Current.id] = "done" /\ result = "none"
      /\ Current.id \notin completed /\ Current.deps \subseteq completed
      /\ progress
  BY CurrentFacts DEF InTask, BoardInv, PassInv, Ready, DepsSatisfied
<1>1. BoardInv'
  BY <1>0 DEF BoardInv, Working, PlanIds, TypeOK
<1>2. AttemptsInv' /\ RetryBudget' /\ DependencyOrder' /\ DoneMeansAudited'
  BY <1>0 DEF AttemptsInv, RetryBudget, DependencyOrder, DoneMeansAudited, HasReviewer
<1>3. PassInv'
  BY <1>0 DEF PassInv, InTask
<1>4. StuckInv'
  <2> SUFFICES ASSUME NEW S \in SUBSET PlanIds, Stuck(S)
               PROVE  S \cap completed' = {}
    BY StuckFrame DEF StuckInv
  <2>1. S \cap completed = {}
    BY DEF StuckInv
  <2>2. Current.id \notin S
    BY <1>0, <2>1 DEF Stuck, BoardInv
  <2> QED BY <2>1, <2>2
<1>5. BoxesMatchBoard'
  <2> SUFFICES ASSUME planFile, NEW t \in Ids, t \notin edited'
               PROVE  /\ box'[t] = "checked" => status[t] = "done"
                      /\ box'[t] = "open" /\ status[t] = "done" => t \in tickFailed'
    BY DEF BoxesMatchBoard
  <2>1. CASE box' = Ticked /\ edited' = edited \ {Current.id} /\ UNCHANGED tickFailed
    <3>1. box'[t] = IF t = Current.id /\ box[t] = "open" THEN "checked" ELSE box[t]
      BY <1>0, <2>1 DEF Ticked, TypeOK
    <3>2. CASE t = Current.id
      BY <1>0, <3>1, <3>2
    <3>3. CASE t # Current.id
      BY <2>1, <3>1, <3>3 DEF BoxesMatchBoard
    <3> QED BY <3>2, <3>3
  <2>2. CASE /\ \E lines \in [Editable -> Boxes] :
                   /\ \A u \in Editable : lines[u] \in {box[u], Ticked[u], "absent"}
                   /\ box' = Rewritten(lines)
             /\ tickFailed' = tickFailed \cup {Current.id}
             /\ UNCHANGED edited
    <3>1. box'[t] \in {box[t], Ticked[t], "absent"}
      BY <2>2 DEF Rewritten
    <3>2. CASE t = Current.id
      BY <1>0, <2>2, <3>2
    <3>3. CASE t # Current.id
      <4>1. Ticked[t] = box[t]
        BY <3>3 DEF Ticked, TypeOK
      <4> QED BY <2>2, <3>1, <3>3, <4>1 DEF BoxesMatchBoard
    <3> QED BY <3>2, <3>3
  <2> QED BY <2>1, <2>2 DEF UpdateBox
<1> QED BY <1>1, <1>2, <1>3, <1>4, <1>5

LEMMA IInvInductive == IInv /\ [Next]_vars => IInv'
<1> SUFFICES ASSUME IInv, [Next]_vars PROVE IInv'
  OBVIOUS
<1>0. TypeOK'
  BY TypeOKInductive DEF IInv
<1>0b. findings = rejected
  BY DEF IInv
<1>1. CASE SkipTask BY <1>0, <1>1, SkipStep
<1>2. CASE CallTask BY <1>0, <1>2, CallStep
<1>3. CASE EndPass BY <1>0, <1>3, EndPassStep
<1>4. CASE Abort
  BY <1>0, <1>4, CancelledStep, BoxesLeftAlone DEF Abort, history
<1>5. CASE StartTask BY <1>0, <1>5, StartStep
<1>6. CASE CallExecutor BY <1>0, <1>6, ExecutorStep
<1>7. CASE VerifyFails
  BY <1>0, <1>0b, <1>7, FailedStep, BoxesLeftAlone DEF VerifyFails, history, reviews, ticks
<1>8. CASE AcceptUnreviewed
  BY <1>0, <1>8, DoneStep DEF AcceptUnreviewed, Verified, history, reviews, ticks
<1>9. CASE CallReviewer
  BY <1>0, <1>9, QuietStep, BoxesLeftAlone DEF CallReviewer, Verified, history
<1>10. CASE RecordTask BY <1>0, <1>10, RecordStep
<1>11. CASE ExecutorFails
  BY <1>0, <1>0b, <1>11, FailedStep, ToolsTouch DEF ExecutorFails, history, reviews, ticks
<1>12. CASE ExecutorReturns
  BY <1>0, <1>12, QuietStep, ToolsTouch DEF ExecutorReturns
<1>13. CASE ReviewerFails
  BY <1>0, <1>0b, <1>13, FailedStep, BoxesLeftAlone DEF ReviewerFails, history, reviews, ticks
<1>14. CASE Approve
  <2>1. /\ pc \in {"verify", "review"} /\ MarkDone
        /\ UNCHANGED <<arguments, schedule, attempt, findings, box, result,
                       runs, rejected, ticks>>
    BY <1>14 DEF Approve
  <2>2. /\ audited'[Current.id] = runs[Current.id]
        /\ \A t \in Ids \ {Current.id} : audited'[t] = audited[t]
    BY <1>14, CurrentFacts DEF Approve, IInv, TypeOK, InTask
  <2> QED BY <1>0, <2>1, <2>2, DoneStep
<1>15. CASE Reject
  BY <1>0, <1>15, FailedStep, BoxesLeftAlone DEF Reject
<1>16. CASE ExecutorCancelled
  BY <1>0, <1>16, CancelledStep, ToolsTouch DEF ExecutorCancelled
<1>17. CASE ReviewerCancelled
  BY <1>0, <1>17, CancelledStep, BoxesLeftAlone DEF ReviewerCancelled, history
<1>18. CASE Cancel
  BY <1>0, <1>18, QuietStep, BoxesLeftAlone DEF Cancel, history
<1>19. CASE ToggleMode
  BY <1>0, <1>19, QuietStep, BoxesLeftAlone DEF ToggleMode, history
<1>20. CASE UNCHANGED vars
  BY <1>0, <1>20, QuietStep, BoxesLeftAlone DEF vars, history
<1> QED
  BY <1>1, <1>2, <1>3, <1>4, <1>5, <1>6, <1>7, <1>8, <1>9, <1>10, <1>11, <1>12,
     <1>13, <1>14, <1>15, <1>16, <1>17, <1>18, <1>19, <1>20
     DEF Next, Scheduler, TaskStep, AgentReturns, AgentCancelled

LEMMA IInvInitially == Init => IInv
<1> SUFFICES ASSUME Init PROVE IInv
  OBVIOUS
<1>0. /\ plan \in Seq(Task) /\ plan # <<>> /\ Len(plan) \in Nat /\ Len(plan) > 0
      /\ DOMAIN plan = 1 .. Len(plan)
  BY PlansAssumption DEF Init
<1>1. TypeOK
  BY TypeOKInitially
<1>2. Cardinality(completed) = 0
  BY FS_EmptySet DEF Init
<1>3. BoardInv /\ AttemptsInv /\ StuckInv
  BY DEF Init, BoardInv, Working, AttemptsInv, StuckInv
<1>4. PassInv
  BY <1>0, <1>2 DEF Init, PassInv, InTask, NoneReadyBefore, AllCompleted
<1>5. RetryBudget /\ DependencyOrder /\ DoneMeansAudited /\ BoxesMatchBoard
  BY AttemptsAssumption DEF Init, RetryBudget, DependencyOrder, DoneMeansAudited,
     BoxesMatchBoard
<1> QED BY <1>1, <1>3, <1>4, <1>5 DEF IInv, Init

(* The inductive invariant holds in every reachable state.                 *)
THEOREM IInvCorrect == Spec => []IInv
  BY IInvInitially, IInvInductive, PTL DEF Spec

-----------------------------------------------------------------------------
(* The properties.                                                         *)

(* A task starts only after all of its dependencies are done (executePlan). *)
THEOREM DependencyOrderCorrect == Spec => []DependencyOrder
  BY IInvCorrect, PTL DEF IInv

(* The latest output of every done task is the one the reviewer approved   *)
(* (runTask).                                                              *)
THEOREM DoneMeansAuditedCorrect == Spec => []DoneMeansAudited
  BY IInvCorrect, PTL DEF IInv

(* No task ever gets more than MaxAttempts executor calls (runTask).       *)
THEOREM RetryBudgetCorrect == Spec => []RetryBudget
  BY IInvCorrect, PTL DEF IInv

(* Check boxes and the board agree (updatePlanTaskStatus).                 *)
THEOREM BoxesMatchBoardCorrect == Spec => []BoxesMatchBoard
  BY IInvCorrect, PTL DEF IInv

LEMMA PlanIdsFinite ==
    ASSUME TypeOK
    PROVE  /\ IsFiniteSet(PlanIds) /\ Cardinality(PlanIds) <= Len(plan)
           /\ UniqueIds => Cardinality(PlanIds) = Len(plan)
<1> DEFINE n == Len(plan)
           D == 1 .. n
           f == [i \in D |-> plan[i].id]
<1>1. n \in Nat /\ DOMAIN plan = D
  BY PlanIsSeq
<1>2. IsFiniteSet(D) /\ Cardinality(D) = n
  <2>1. 1 \in Int /\ n \in Int
    BY <1>1
  <2>2. /\ IsFiniteSet(1 .. n)
        /\ Cardinality(1 .. n) = IF 1 > n THEN 0 ELSE n - 1 + 1
    BY <2>1, FS_Interval, Zenon
  <2> QED BY <1>1, <2>2
<1>3. f \in Surjection(D, PlanIds)
  BY <1>1 DEF Surjection, PlanIds
<1>4. IsFiniteSet(PlanIds) /\ Cardinality(PlanIds) <= n
  BY <1>2, <1>3, FS_Surjection
<1>5. ASSUME UniqueIds PROVE Cardinality(PlanIds) = n
  <2>1. f \in Injection(D, PlanIds)
    BY <1>1, <1>3, <1>5 DEF Injection, IsInjective, Surjection, UniqueIds
  <2> QED BY <1>2, <1>3, <2>1, FS_Surjection
<1> QED BY <1>4, <1>5

LEMMA AllCompletedMeansAll ==
    ASSUME IInv, AllCompleted
    PROVE  completed = PlanIds
<1>1. completed \in SUBSET PlanIds
  BY DEF IInv, BoardInv
<1>2. /\ IsFiniteSet(PlanIds) /\ Cardinality(PlanIds) <= Len(plan)
      /\ IsFiniteSet(completed) /\ Cardinality(completed) <= Cardinality(PlanIds)
      /\ Cardinality(PlanIds) = Cardinality(completed) => PlanIds = completed
  BY <1>1, PlanIdsFinite, FS_Subset DEF IInv
<1>3. /\ Cardinality(PlanIds) \in Nat /\ Cardinality(completed) \in Nat
      /\ Len(plan) \in Nat
  BY <1>2, FS_CardinalityType, PlanIsSeq DEF IInv
<1> QED BY <1>2, <1>3 DEF AllCompleted

(* What the run reports agrees with the board (executePlan, runTask).      *)
THEOREM OutcomeMatchesBoardCorrect == Spec => []OutcomeMatchesBoard
<1>1. IInv => OutcomeMatchesBoard
  <2> SUFFICES ASSUME IInv PROVE OutcomeMatchesBoard
    OBVIOUS
  <2> USE DEF IInv, TypeOK, Statuses
  <2>0. PlanIds \subseteq Ids
    BY PlanIsSeq DEF PlanIds
  <2>1. ASSUME result = "ok" PROVE \A t \in PlanIds : status[t] = "done"
    BY <2>0, <2>1, AllCompletedMeansAll DEF PassInv, BoardInv
  <2>2. ASSUME result = "failed"
        PROVE  \E b \in PlanIds : /\ status[b] = "blocked"
                                  /\ \A t \in Ids \ {b} : status[t] \in {"none", "done"}
    <3>1. Current.id \in PlanIds /\ status[Current.id] = "blocked"
      BY <2>2, PlanIsSeq DEF BoardInv, Current, PlanIds
    <3>2. \A t \in Ids \ {Current.id} : status[t] \in {"none", "done"}
      BY DEF BoardInv
    <3> QED BY <3>1, <3>2
  <2>3. ASSUME result \in {"ok", "deadlock"}
        PROVE  \A t \in Ids : status[t] \in {"none", "done"}
    <3>1. ~Working
      BY <2>3 DEF BoardInv, Working
    <3> QED BY <2>3, <3>1 DEF BoardInv
  <2>4. ASSUME result # "failed" PROVE \A t \in Ids : status[t] # "blocked"
    BY <2>4 DEF BoardInv
  <2> QED BY <2>1, <2>2, <2>3, <2>4 DEF OutcomeMatchesBoard
<1> QED BY <1>1, IInvCorrect, PTL

(* A deadlock is reported exactly when the plan has tasks that can never   *)
(* be executed, for every plan with distinct ids (executePlan).            *)
THEOREM DeadlockExactCorrect == Spec => []DeadlockExact
<1>1. IInv => DeadlockExact
  <2> SUFFICES ASSUME IInv, UniqueIds PROVE
          /\ result = "deadlock" => Stuck(PlanIds \ completed)
          /\ result = "ok" => \A S \in SUBSET PlanIds : ~Stuck(S)
    BY DEF DeadlockExact
  <2> USE DEF IInv
  <2>1. ASSUME result = "deadlock" PROVE Stuck(PlanIds \ completed)
    <3>1. ~AllCompleted /\ \A i \in DOMAIN plan : ~Ready(plan[i])
      <4>1. \A i \in DOMAIN plan : i < Len(plan) + 1
        BY PlanIsSeq
      <4> QED BY <2>1, <4>1 DEF PassInv, NoneReadyBefore
    <3>2. PlanIds # completed
      BY <3>1, PlanIdsFinite, PlanIsSeq DEF AllCompleted
    <3>3. PlanIds \ completed # {}
      BY <3>2 DEF BoardInv
    <3>4. ASSUME NEW i \in DOMAIN plan, plan[i].id \in PlanIds \ completed
          PROVE  \E d \in plan[i].deps : d \in PlanIds \ completed \/ d \notin PlanIds
      BY <3>1, <3>4 DEF Ready, DepsSatisfied
    <3> QED BY <3>3, <3>4 DEF Stuck
  <2>2. ASSUME result = "ok", NEW S \in SUBSET PlanIds, Stuck(S) PROVE FALSE
    <3>1. completed = PlanIds
      BY <2>2, AllCompletedMeansAll DEF PassInv
    <3> QED BY <2>2, <3>1 DEF StuckInv, Stuck
  <2> QED BY <2>1, <2>2
<1> QED BY <1>1, IInvCorrect, PTL
(* A retry carries the findings of the latest rejection (runTask).         *)
THEOREM FindingsInjectedCorrect == Spec => []FindingsInjected
<1>1. IInv => FindingsInjected
  BY DEF IInv, FindingsInjected
<1> QED BY <1>1, IInvCorrect, PTL

(* An approval holds for the output that is reported done, and a rejection *)
(* for every retry it causes (runTask).                                    *)
THEOREM ReviewsCountCorrect == Spec => []ReviewsCount
  BY DoneMeansAuditedCorrect, FindingsInjectedCorrect, PTL DEF ReviewsCount

(* The outcome agrees with the steps, and the steps with the boxes of the  *)
(* plan file (executePlan, runTask, updatePlanTaskStatus).                 *)
THEOREM BoardTellsTruthCorrect == Spec => []BoardTellsTruth
  BY OutcomeMatchesBoardCorrect, BoxesMatchBoardCorrect, PTL DEF BoardTellsTruth

(* No executor call starts in a cancelled run (runTask, at the loop's top). *)
THEOREM CancelStopsNewWorkCorrect == Spec => CancelStopsNewWork
<1>1. [Next]_vars => [cancelled => runs' = runs]_vars
  <2> SUFFICES ASSUME [Next]_vars, cancelled PROVE runs' = runs
    OBVIOUS
  <2>1. CASE Scheduler
    BY <2>1 DEF Scheduler, SkipTask, CallTask, EndPass, Abort, history, reviews, ticks
  <2>2. CASE TaskStep
    BY <2>2 DEF TaskStep, StartTask, CallExecutor, VerifyFails, AcceptUnreviewed,
       CallReviewer, RecordTask, history, reviews, ticks
  <2>3. CASE AgentReturns
    BY <2>3 DEF AgentReturns, ExecutorFails, ExecutorReturns, ReviewerFails,
       Approve, Reject, history, reviews, ticks
  <2>4. CASE AgentCancelled \/ Cancel \/ ToggleMode
    BY <2>4 DEF AgentCancelled, ExecutorCancelled, ReviewerCancelled, Cancel,
       ToggleMode, history, reviews, ticks
  <2>5. CASE UNCHANGED vars
    BY <2>5 DEF vars, history, reviews, ticks
  <2> QED BY <2>1, <2>2, <2>3, <2>4, <2>5 DEF Next
<1> QED BY <1>1, PTL DEF Spec, CancelStopsNewWork

(* What a review relies on: the attempt was verified before the reviewer   *)
(* was called, and nothing changes the files until it answers (runTask).   *)
ReviewInv == pc = "review" => PlanFileEnforced /\ FilesCreated

(* A task is reported done only with its files on disk and, if the rule    *)
(* applied when it started, the plan file read (runTask).                  *)
THEOREM DoneIsEarnedCorrect == Spec => DoneIsEarned
<1>1. Init => ReviewInv
  BY DEF Init, ReviewInv
<1>2. IInv /\ ReviewInv /\ [Next]_vars => ReviewInv'
  <2> SUFFICES ASSUME ReviewInv, [Next]_vars PROVE ReviewInv'
    OBVIOUS
  <2> USE DEF ReviewInv, PlanFileEnforced, FilesCreated, Current, arguments, schedule
  <2>1. CASE Scheduler
    BY <2>1 DEF Scheduler, SkipTask, CallTask, EndPass, Abort, End
  <2>2. CASE TaskStep
    BY <2>2 DEF TaskStep, StartTask, CallExecutor, VerifyFails, AcceptUnreviewed,
       CallReviewer, RecordTask, RetryOrBlock, Retry, Block, End, MarkDone, Verified
  <2>3. CASE AgentReturns
    BY <2>3 DEF AgentReturns, ExecutorFails, ExecutorReturns, ReviewerFails,
       Approve, Reject, RetryOrBlock, Retry, Block, End, MarkDone
  <2>4. CASE AgentCancelled \/ Cancel \/ ToggleMode
    BY <2>4 DEF AgentCancelled, ExecutorCancelled, ReviewerCancelled, Cancel,
       ToggleMode, End
  <2>5. CASE UNCHANGED vars
    BY <2>5 DEF vars
  <2> QED BY <2>1, <2>2, <2>3, <2>4, <2>5 DEF Next
<1>3. IInv /\ ReviewInv /\ [Next]_vars =>
        [\A t \in Ids : status[t] # "done" /\ status'[t] = "done" =>
           /\ t = Current.id
           /\ PlanFileEnforced
           /\ FilesCreated]_vars
  <2> SUFFICES ASSUME IInv, ReviewInv, Next,
                      NEW t \in Ids, status[t] # "done", status'[t] = "done"
               PROVE  t = Current.id /\ PlanFileEnforced /\ FilesCreated
    OBVIOUS
  <2>0. status \in [Ids -> Statuses]
    BY DEF IInv, TypeOK
  <2>1. CASE Scheduler
    BY <2>1 DEF Scheduler, SkipTask, CallTask, EndPass, Abort
  <2>2. CASE AcceptUnreviewed
    BY <2>0, <2>2 DEF AcceptUnreviewed, Verified, MarkDone
  <2>3. CASE Approve
    BY <2>0, <2>3 DEF Approve, MarkDone, ReviewInv
  <2>4. ASSUME RetryOrBlock PROVE FALSE
    BY <2>0, <2>4 DEF RetryOrBlock, Retry, Block
  <2>5. CASE StartTask
    BY <2>0, <2>5 DEF StartTask
  <2>6. CASE CallExecutor \/ CallReviewer \/ RecordTask \/ ExecutorReturns
             \/ AgentCancelled \/ Cancel \/ ToggleMode
    BY <2>6 DEF CallExecutor, CallReviewer, RecordTask, ExecutorReturns,
       AgentCancelled, ExecutorCancelled, ReviewerCancelled, Cancel, ToggleMode
  <2>7. CASE VerifyFails \/ ExecutorFails \/ ReviewerFails \/ Reject
    BY <2>4, <2>7 DEF VerifyFails, ExecutorFails, ReviewerFails, Reject
  <2> QED BY <2>1, <2>2, <2>3, <2>5, <2>6, <2>7 DEF Next, TaskStep, AgentReturns
<1> QED BY <1>1, <1>2, <1>3, IInvCorrect, PTL DEF Spec, DoneIsEarned

-----------------------------------------------------------------------------
(* The refinement of PlanBoard.                                            *)

LEMMA BoardInitially == Init => Board!Init
  BY DEF Init, Board!Init

LEMMA BoardBegins ==
    ASSUME IInv, StartTask
    PROVE  Board!Next
<1>0. status \in [Ids -> Statuses] /\ idx \in DOMAIN plan
  BY PlanIsSeq DEF IInv, TypeOK, StartTask
<1>1. \A i \in DOMAIN plan : plan[i].id \in Ids /\ plan[i].deps \subseteq Ids
  BY PlanIsSeq DEF IInv
<1>2. result = "none" /\ status[Current.id] = "none" /\ Ready(Current)
  BY DEF IInv, BoardInv, PassInv, InTask, StartTask
<1>3. ~Board!Running
  BY <1>2 DEF Board!Running, IInv, BoardInv, StartTask, Working
<1>4. \A d \in Current.deps : status[d] = "done"
  BY <1>0, <1>1, <1>2 DEF IInv, BoardInv, Ready, DepsSatisfied, Current
<1>5. Board!CanBegin(idx)
  BY <1>2, <1>4 DEF Board!CanBegin, Current
<1>6. Board!Begin(idx)
  BY <1>2, <1>3, <1>5 DEF Board!Begin, StartTask, Current, arguments
<1> QED BY <1>0, <1>6 DEF Board!Next, Board!Steps

LEMMA BoardFinishes ==
    ASSUME IInv, Working, MarkDone, UNCHANGED <<plan, result>>
    PROVE  Board!Next
<1>1. Current.id \in Ids
  BY PlanIsSeq DEF IInv, TypeOK, Working, Current
<1>2. result = "none" /\ status[Current.id] = "running"
  BY DEF IInv, BoardInv, Working
<1>3. Board!Finish(Current.id)
  BY <1>2 DEF Board!Finish, MarkDone
<1> QED BY <1>1, <1>3 DEF Board!Next

LEMMA BoardRetriesOrBlocks ==
    ASSUME IInv, Working, RetryOrBlock, UNCHANGED plan
    PROVE  Board!Next \/ UNCHANGED <<plan, status, result>>
<1>1. Current.id \in Ids
  BY PlanIsSeq DEF IInv, TypeOK, Working, Current
<1>2. result = "none" /\ status[Current.id] = "running"
  BY DEF IInv, BoardInv, Working
<1>3. CASE Retry
  BY <1>3 DEF Retry
<1>4. CASE Block
  <2>1. Board!Block(Current.id)
    BY <1>2, <1>4 DEF Board!Block, Block, End
  <2> QED BY <1>1, <2>1 DEF Board!Next
<1> QED BY <1>3, <1>4 DEF RetryOrBlock

LEMMA BoardCancelled ==
    ASSUME IInv, pc # "ended", End("cancelled"), UNCHANGED <<plan, status>>
    PROVE  Board!Next
<1>1. Board!BeCancelled
  BY DEF Board!BeCancelled, End, IInv, BoardInv
<1> QED BY <1>1 DEF Board!Next

LEMMA BoardEndsPass ==
    ASSUME IInv, EndPass
    PROVE  Board!Next \/ UNCHANGED <<plan, status, result>>
<1>0. plan' = plan /\ status' = status /\ result = "none" /\ idx = Len(plan) + 1
  BY PlanIsSeq DEF EndPass, arguments, IInv, BoardInv, TypeOK
<1>1. CASE ~progress /\ End("deadlock")
  <2>1. ~Board!Running
    BY <1>0 DEF Board!Running, IInv, BoardInv, EndPass, Working
  <2>2. \A i \in Board!Steps : ~Board!CanBegin(i)
    <3> SUFFICES ASSUME NEW i \in DOMAIN plan, Board!CanBegin(i) PROVE FALSE
      BY DEF Board!Steps
    <3>1. i < idx /\ plan[i].id \in Ids /\ plan[i].deps \subseteq Ids
      BY <1>0, PlanIsSeq DEF IInv
    <3>2. Ready(plan[i])
      BY <3>1 DEF Board!CanBegin, Ready, DepsSatisfied, IInv, BoardInv, EndPass
    <3> QED BY <1>1, <3>1, <3>2 DEF IInv, PassInv, NoneReadyBefore, EndPass
  <2>3. Board!GiveUp
    BY <1>0, <1>1, <2>1, <2>2 DEF Board!GiveUp, End
  <2> QED BY <2>3 DEF Board!Next
<1>2. CASE AllCompleted /\ End("ok")
  <2>1. \A i \in Board!Steps : status[plan[i].id] = "done"
    <3>1. PlanIds \subseteq Ids /\ completed = PlanIds
      BY <1>2, PlanIsSeq, AllCompletedMeansAll DEF PlanIds, IInv
    <3> QED BY <3>1 DEF Board!Steps, PlanIds, IInv, BoardInv
  <2>2. Board!Succeed
    BY <1>0, <1>2, <2>1 DEF Board!Succeed, End
  <2> QED BY <2>2 DEF Board!Next
<1>3. CASE UNCHANGED result
  BY <1>0, <1>3
<1> QED BY <1>1, <1>2, <1>3 DEF EndPass

LEMMA BoardSteps ==
    ASSUME IInv, [Next]_vars
    PROVE  [Board!Next]_<<plan, status, result>>
<1> USE DEF arguments, schedule, history, reviews, ticks
<1>1. CASE SkipTask \/ CallTask
  BY <1>1 DEF SkipTask, CallTask
<1>2. CASE EndPass
  BY <1>2, BoardEndsPass
<1>3. CASE Abort
  BY <1>3, BoardCancelled DEF Abort
<1>4. CASE StartTask
  BY <1>4, BoardBegins
<1>5. CASE CallExecutor \/ CallReviewer \/ ExecutorReturns
  BY <1>5 DEF CallExecutor, CallReviewer, ExecutorReturns
<1>6. CASE VerifyFails \/ ExecutorFails \/ ReviewerFails \/ Reject
  BY <1>6, BoardRetriesOrBlocks
     DEF VerifyFails, ExecutorFails, ReviewerFails, Reject, Working
<1>7. CASE AcceptUnreviewed \/ Approve
  BY <1>7, BoardFinishes DEF AcceptUnreviewed, Approve, Verified, Working
<1>8. CASE RecordTask
  BY <1>8 DEF RecordTask
<1>9. CASE AgentCancelled
  BY <1>9, BoardCancelled DEF AgentCancelled, ExecutorCancelled, ReviewerCancelled
<1>10. CASE Cancel \/ ToggleMode
  BY <1>10 DEF Cancel, ToggleMode
<1>11. CASE UNCHANGED vars
  BY <1>11 DEF vars
<1> QED BY <1>1, <1>2, <1>3, <1>4, <1>5, <1>6, <1>7, <1>8, <1>9, <1>10, <1>11
        DEF Next, Scheduler, TaskStep, AgentReturns

(* The execution of a plan implements the promise of PlanBoard.            *)
THEOREM KeepsPromiseCorrect == Spec => KeepsPromise
  BY BoardInitially, BoardSteps, IInvCorrect, PTL
     DEF Spec, KeepsPromise, Board!Spec, Board!boardVars

-----------------------------------------------------------------------------
(* The run is bounded: what is left of it gets less with each of its steps. *)

(* The steps of k tasks that are still to be completed, in a plan of n:    *)
(* two passes over the plan, and the attempts.                             *)
TasksLeft(k, n) == k * (2 * n + 5 * MaxAttempts + 5)

(* The steps of the task that is being executed.                           *)
AttemptsLeft ==
    CASE pc = "task"    -> 5 * MaxAttempts + 2
      [] pc = "attempt" -> 5 * (MaxAttempts - attempt) + 6
      [] pc = "execute" -> 5 * (MaxAttempts - attempt) + 5
      [] pc = "verify"  -> 5 * (MaxAttempts - attempt) + 4
      [] pc = "review"  -> 5 * (MaxAttempts - attempt) + 3
      [] pc = "record"  -> 1

PassLeft == Len(plan) + 2 - idx

(* Another pass, if this one has made progress.                            *)
PassesLeft == IF progress THEN Len(plan) + 2 ELSE 0

(* What is left of the run, by the place it has reached.                   *)
Remaining ==
    LET open == Len(plan) - Cardinality(completed)
    IN  CASE pc = "scan"  -> TasksLeft(open, Len(plan)) + PassesLeft + PassLeft
          [] pc = "ended" -> 0
          [] OTHER -> TasksLeft(open - 1, Len(plan)) + Len(plan) + 2 + PassLeft
                      + AttemptsLeft

(* The steps of the program, as opposed to those of the user.              *)
RunStep == Scheduler \/ TaskStep \/ AgentReturns \/ AgentCancelled

(* Every step of the run leaves less to do, and the user's steps no more.  *)
Decreases == Remaining' <= Remaining /\ (RunStep => Remaining' < Remaining)

LEMMA TasksLeftFacts ==
    ASSUME NEW n \in Nat
    PROVE  /\ \A k \in Nat : TasksLeft(k, n) \in Nat
           /\ \A k \in Nat : k > 0 =>
                 TasksLeft(k, n) = TasksLeft(k - 1, n) + 2 * n + 5 * MaxAttempts + 5
<1> DEFINE w == 2 * n + 5 * MaxAttempts + 5
<1>1. w \in Nat
  BY AttemptsAssumption
<1>2. \A k : TasksLeft(k, n) = k * w
  BY DEF TasksLeft
<1> SUFFICES ASSUME NEW k \in Nat
             PROVE  /\ k * w \in Nat
                    /\ k > 0 => k * w = (k - 1) * w + w
  <2>1. \A k \in Nat : k > 0 =>
            k * w = (k - 1) * w + 2 * n + 5 * MaxAttempts + 5
    <3> SUFFICES ASSUME NEW k \in Nat, k > 0
                 PROVE  k * w = (k - 1) * w + 2 * n + 5 * MaxAttempts + 5
      OBVIOUS
    <3>1. k * w = (k - 1) * w + w
      OBVIOUS
    <3> DEFINE v == (k - 1) * w
    <3>2. v \in Int
      BY <1>1
    <3> HIDE DEF v
    <3>3. v + w = v + 2 * n + 5 * MaxAttempts + 5
      BY <3>2, AttemptsAssumption
    <3> QED BY <3>1, <3>3 DEF v
  <2> QED BY <1>2, <2>1
<1> HIDE DEF w
<1> QED BY <1>1

LEMMA DoneFacts ==
    ASSUME IInv
    PROVE  /\ IsFiniteSet(completed) /\ Cardinality(completed) \in Nat
           /\ Len(plan) - Cardinality(completed) \in Nat
           /\ InTask => /\ Len(plan) - Cardinality(completed) > 0
                       /\ Current.id \notin completed
<1>1. completed \in SUBSET PlanIds /\ Len(plan) \in Nat
  BY PlanIsSeq DEF IInv, BoardInv
<1>2. /\ IsFiniteSet(PlanIds) /\ Cardinality(PlanIds) <= Len(plan)
      /\ IsFiniteSet(completed) /\ Cardinality(completed) <= Cardinality(PlanIds)
      /\ Cardinality(PlanIds) = Cardinality(completed) => PlanIds = completed
  BY <1>1, PlanIdsFinite, FS_Subset DEF IInv
<1>3. Cardinality(PlanIds) \in Nat /\ Cardinality(completed) \in Nat
  BY <1>2, FS_CardinalityType
<1>4. InTask => Current.id \in PlanIds /\ Current.id \notin completed
  BY CurrentFacts DEF IInv, PassInv, Ready
<1> QED BY <1>1, <1>2, <1>3, <1>4

LEMMA RemainingType ==
    ASSUME IInv
    PROVE  /\ Remaining \in Nat
           /\ pc # "ended" => Remaining > 0
<1>1. /\ Len(plan) \in Nat /\ idx \in 1 .. Len(plan) + 1 /\ attempt \in 1 .. MaxAttempts
      /\ pc \in Points /\ progress \in BOOLEAN
  BY PlanIsSeq DEF IInv, TypeOK
<1> DEFINE open == Len(plan) - Cardinality(completed)
<1>2. open \in Nat /\ (InTask => open - 1 \in Nat)
  BY DoneFacts
<1> HIDE DEF open
<1>3. TasksLeft(open, Len(plan)) \in Nat /\ (InTask => TasksLeft(open - 1, Len(plan)) \in Nat)
  BY <1>1, <1>2, TasksLeftFacts
<1>4. PassLeft \in Nat /\ PassLeft > 0
  BY <1>1 DEF PassLeft
<1>5. InTask => AttemptsLeft \in Nat
  <2>1. 5 * MaxAttempts \in Nat /\ 5 * (MaxAttempts - attempt) \in Nat
    BY <1>1, AttemptsAssumption
  <2> DEFINE m == 5 * MaxAttempts  a == 5 * (MaxAttempts - attempt)
  <2>2. InTask => AttemptsLeft \in {m + 2, a + 6, a + 5, a + 4, a + 3, 1}
    BY <1>1 DEF InTask, AttemptsLeft, Points
  <2> HIDE DEF m, a
  <2> QED BY <2>1, <2>2 DEF m, a
<1>6. PassesLeft \in Nat
  BY <1>1 DEF PassesLeft
<1>7. CASE pc = "scan"
  <2>1. Remaining = TasksLeft(open, Len(plan)) + PassesLeft + PassLeft
    BY <1>7 DEF Remaining, open
  <2> QED BY <1>3, <1>4, <1>6, <2>1
<1>8. CASE InTask
  <2>1. Remaining = TasksLeft(open - 1, Len(plan)) + Len(plan) + 2 + PassLeft + AttemptsLeft
    BY <1>8 DEF Remaining, InTask, open
  <2> QED BY <1>1, <1>3, <1>4, <1>5, <1>8, <2>1
<1>9. CASE pc = "ended"
  BY <1>9 DEF Remaining, InTask
<1> QED BY <1>7, <1>8, <1>9 DEF InTask

(* The run ends.                                                           *)
LEMMA EndDecreases ==
    ASSUME IInv, pc # "ended", pc' = "ended"
    PROVE  Remaining' < Remaining
<1>1. Remaining' = 0
  BY DEF Remaining, InTask
<1> QED BY <1>1, RemainingType

(* A step of the task that is being executed.                              *)
LEMMA TaskDecreases ==
    ASSUME IInv, InTask, InTask', UNCHANGED <<plan, idx, completed>>,
           AttemptsLeft \in Nat, AttemptsLeft' \in Nat, AttemptsLeft' < AttemptsLeft
    PROVE  Remaining' < Remaining
<1> DEFINE rest == TasksLeft(Len(plan) - Cardinality(completed) - 1, Len(plan))
                   + Len(plan) + 2 + PassLeft
<1>1. Remaining = rest + AttemptsLeft /\ Remaining' = rest + AttemptsLeft'
  BY DEF Remaining, InTask, PassLeft
<1>2. rest \in Int
  <2>1. Len(plan) \in Nat /\ idx \in 1 .. Len(plan) + 1
    BY PlanIsSeq DEF IInv, TypeOK
  <2>2. Len(plan) - Cardinality(completed) - 1 \in Nat
    BY DoneFacts
  <2>3. TasksLeft(Len(plan) - Cardinality(completed) - 1, Len(plan)) \in Nat
    BY <2>1, <2>2, TasksLeftFacts
  <2> QED BY <2>1, <2>3 DEF PassLeft
<1>3. ASSUME NEW r \in Int, NEW a \in Int, NEW b \in Int, a < b
      PROVE  r + a < r + b
  BY <1>3
<1> HIDE DEF rest
<1> DEFINE a == AttemptsLeft'  b == AttemptsLeft
<1>4. a \in Int /\ b \in Int /\ a < b
  OBVIOUS
<1> HIDE DEF a, b
<1>5. rest + a < rest + b
  BY <1>2, <1>3, <1>4
<1> QED BY <1>1, <1>5 DEF a, b

LEMMA SchedulerDecreases ==
    ASSUME IInv, Scheduler
    PROVE  Remaining' < Remaining
<1>0. /\ Len(plan) \in Nat /\ Len(plan) > 0 /\ idx \in 1 .. Len(plan) + 1
      /\ progress \in BOOLEAN
  BY PlanIsSeq DEF IInv, TypeOK
<1> DEFINE open == Len(plan) - Cardinality(completed)
           left == TasksLeft(open, Len(plan))
<1>1. open \in Nat /\ left \in Nat
  BY <1>0, DoneFacts, TasksLeftFacts
<1>2. CASE SkipTask
  <2>1. /\ pc = "scan" /\ pc' = "scan" /\ idx' = idx + 1
        /\ UNCHANGED <<plan, progress, completed>>
    BY <1>2 DEF SkipTask, arguments
  <2>2. PassLeft' = PassLeft - 1 /\ PassLeft \in Int
    BY <1>0, <2>1 DEF PassLeft
  <2>3. PassesLeft' = PassesLeft /\ PassesLeft \in Int
    BY <1>0, <2>1 DEF PassesLeft
  <2>4. /\ Remaining = left + PassesLeft + PassLeft
        /\ Remaining' = left + PassesLeft' + PassLeft'
    BY <2>1 DEF Remaining
  <2> HIDE DEF left
  <2> QED BY <1>1, <2>2, <2>3, <2>4
<1>3. CASE CallTask
  <2>1. /\ pc = "scan" /\ pc' = "task" /\ idx <= Len(plan)
        /\ UNCHANGED <<plan, idx, completed>> /\ Ready(Current)
    BY <1>3 DEF CallTask, arguments
  <2>2. open > 0
    <3>1. Current.id \in PlanIds /\ Current.id \notin completed
      BY <1>0, <2>1, PlanIsSeq DEF Ready, Current, PlanIds, IInv
    <3>2. completed \in SUBSET PlanIds /\ completed # PlanIds
      BY <3>1 DEF IInv, BoardInv
    <3>3. /\ IsFiniteSet(PlanIds) /\ Cardinality(PlanIds) <= Len(plan)
          /\ Cardinality(completed) <= Cardinality(PlanIds)
          /\ Cardinality(PlanIds) # Cardinality(completed)
      BY <3>2, PlanIdsFinite, FS_Subset DEF IInv
    <3>4. Cardinality(PlanIds) \in Nat /\ Cardinality(completed) \in Nat
      BY <3>3, FS_CardinalityType, DoneFacts
    <3> QED BY <1>0, <3>3, <3>4
  <2> DEFINE rest == TasksLeft(open - 1, Len(plan))
  <2>3. left = rest + 2 * Len(plan) + 5 * MaxAttempts + 5 /\ rest \in Nat
    <3> HIDE DEF open
    <3>1. open - 1 \in Nat
      BY <1>1, <2>2
    <3>2. rest \in Nat
      BY <1>0, <3>1, TasksLeftFacts
    <3>3. left = rest + 2 * Len(plan) + 5 * MaxAttempts + 5
      BY <1>0, <1>1, <2>2, TasksLeftFacts
    <3> QED BY <3>2, <3>3
  <2>4. Remaining' = rest + Len(plan) + 2 + PassLeft + 5 * MaxAttempts + 2
    <3>1. AttemptsLeft' = 5 * MaxAttempts + 2 /\ PassLeft' = PassLeft
      BY <2>1 DEF AttemptsLeft, PassLeft
    <3>2. Remaining' = rest + Len(plan) + 2 + PassLeft' + AttemptsLeft'
      BY <2>1 DEF Remaining, InTask
    <3>3. rest \in Int /\ PassLeft \in Int /\ Len(plan) \in Int /\ 5 * MaxAttempts \in Int
      BY <1>0, <2>3, AttemptsAssumption DEF PassLeft
    <3> HIDE DEF rest
    <3> QED BY <3>1, <3>2, <3>3
  <2>5. PassLeft \in Nat /\ 2 <= PassLeft /\ PassLeft <= Len(plan) + 1
    BY <1>0, <2>1 DEF PassLeft
  <2>6. Remaining = left + PassesLeft + PassLeft /\ PassesLeft \in Nat
    BY <1>0, <2>1 DEF Remaining, PassesLeft
  <2> HIDE DEF left, rest
  <2> QED BY <1>0, <2>3, <2>4, <2>5, <2>6, AttemptsAssumption
<1>4. CASE EndPass
  <2>1. CASE pc' = "ended"
    BY <1>4, <2>1, EndDecreases DEF EndPass
  <2>2. CASE progress /\ idx' = 1 /\ progress' = FALSE /\ UNCHANGED <<completed, pc>>
    <3>1. pc = "scan" /\ pc' = "scan" /\ idx = Len(plan) + 1 /\ UNCHANGED plan
      BY <1>0, <1>4, <2>2 DEF EndPass, arguments
    <3>2. /\ Remaining = left + PassesLeft + PassLeft
          /\ Remaining' = left + PassesLeft' + PassLeft'
      BY <2>2, <3>1 DEF Remaining
    <3>3. /\ PassLeft = 1 /\ PassLeft' = Len(plan) + 1
          /\ PassesLeft = Len(plan) + 2 /\ PassesLeft' = 0
      BY <1>0, <2>2, <3>1 DEF PassLeft, PassesLeft
    <3> HIDE DEF left
    <3> QED BY <1>0, <1>1, <3>2, <3>3
  <2> QED BY <1>4, <2>1, <2>2 DEF EndPass, End
<1>5. CASE Abort
  BY <1>5, EndDecreases DEF Abort, End
<1> QED BY <1>2, <1>3, <1>4, <1>5 DEF Scheduler

LEMMA AgentDecreases ==
    ASSUME IInv, TaskStep \/ AgentReturns \/ AgentCancelled
    PROVE  Remaining' < Remaining
<1> USE DEF arguments, schedule
<1>0. /\ attempt \in 1 .. MaxAttempts /\ MaxAttempts \in Nat
      /\ Len(plan) \in Nat /\ idx \in 1 .. Len(plan) + 1
  BY PlanIsSeq, AttemptsAssumption DEF IInv, TypeOK
<1>1. ASSUME pc \in {"execute", "verify", "review"}, RetryOrBlock,
             UNCHANGED <<plan, idx, completed>>
      PROVE  Remaining' < Remaining
  <2>1. CASE Retry
    <3>1. InTask /\ InTask'
      BY <1>1, <2>1 DEF Retry, InTask
    <3> DEFINE a == 5 * (MaxAttempts - attempt)
    <3>2. AttemptsLeft \in {a + 5, a + 4, a + 3}
      BY <1>1 DEF AttemptsLeft
    <3>3. attempt < MaxAttempts /\ AttemptsLeft' = 5 * (MaxAttempts - (attempt + 1)) + 6
      BY <2>1 DEF Retry, AttemptsLeft
    <3>4. a \in Nat /\ a >= 5 /\ 5 * (MaxAttempts - (attempt + 1)) = a - 5
      BY <1>0, <3>3
    <3> HIDE DEF a
    <3>5. AttemptsLeft \in Nat /\ AttemptsLeft >= a + 3 /\ AttemptsLeft' = a + 1
      BY <3>2, <3>3, <3>4
    <3>6. AttemptsLeft' \in Nat /\ AttemptsLeft' < AttemptsLeft
      BY <3>4, <3>5
    <3> QED BY <1>1, <3>1, <3>5, <3>6, TaskDecreases
  <2>2. CASE Block
    BY <1>1, <2>2, EndDecreases DEF Block, End
  <2> QED BY <1>1, <2>1, <2>2 DEF RetryOrBlock
<1>2. CASE VerifyFails \/ ExecutorFails \/ ReviewerFails \/ Reject
  BY <1>1, <1>2 DEF VerifyFails, ExecutorFails, ReviewerFails, Reject
<1>3. CASE StartTask \/ CallExecutor \/ ExecutorReturns \/ CallReviewer
           \/ AcceptUnreviewed \/ Approve
  <2>1. /\ UNCHANGED <<plan, idx, completed>>
        /\ \/ pc = "task"    /\ pc' = "attempt" /\ attempt' = 1
           \/ pc = "attempt" /\ pc' = "execute" /\ attempt' = attempt
           \/ pc = "execute" /\ pc' = "verify"  /\ attempt' = attempt
           \/ pc = "verify"  /\ pc' = "review"  /\ attempt' = attempt
           \/ pc = "verify"  /\ pc' = "record"  /\ attempt' = attempt
           \/ pc = "review"  /\ pc' = "record"  /\ attempt' = attempt
    BY <1>3 DEF StartTask, CallExecutor, ExecutorReturns, CallReviewer, AcceptUnreviewed,
       Approve, Verified, MarkDone
  <2>2. InTask /\ InTask'
    BY <2>1 DEF InTask
  <2>3. AttemptsLeft \in Nat /\ AttemptsLeft' \in Nat /\ AttemptsLeft' < AttemptsLeft
    <3> DEFINE a == 5 * (MaxAttempts - attempt)  m == 5 * MaxAttempts
    <3>1. a \in Nat /\ m \in Nat /\ 5 * (MaxAttempts - 1) = m - 5
      BY <1>0
    <3>2. CASE pc = "task"
      <4>1. AttemptsLeft = m + 2 /\ AttemptsLeft' = 5 * (MaxAttempts - 1) + 6
        BY <2>1, <3>2 DEF AttemptsLeft
      <4> HIDE DEF m
      <4> QED BY <3>1, <4>1
    <3>3. CASE pc # "task"
      <4>1. \/ AttemptsLeft = a + 6 /\ AttemptsLeft' = a + 5
            \/ AttemptsLeft = a + 5 /\ AttemptsLeft' = a + 4
            \/ AttemptsLeft = a + 4 /\ AttemptsLeft' = a + 3
            \/ AttemptsLeft = a + 4 /\ AttemptsLeft' = 1
            \/ AttemptsLeft = a + 3 /\ AttemptsLeft' = 1
        BY <2>1, <3>3 DEF AttemptsLeft
      <4> HIDE DEF a
      <4> QED BY <3>1, <4>1
    <3> QED BY <3>2, <3>3
  <2> QED BY <2>1, <2>2, <2>3, TaskDecreases
<1>4. CASE AgentCancelled
  BY <1>4, EndDecreases DEF AgentCancelled, ExecutorCancelled, ReviewerCancelled, End
<1>5. CASE RecordTask
  <2>1. /\ pc = "record" /\ pc' = "scan" /\ InTask /\ idx' = idx + 1
        /\ completed' = completed \cup {Current.id} /\ UNCHANGED <<plan, progress>>
    BY <1>5 DEF RecordTask, InTask
  <2>2. progress
    BY <2>1 DEF IInv, PassInv
  <2> DEFINE open == Len(plan) - Cardinality(completed)
             rest == TasksLeft(open - 1, Len(plan))
  <2>3. Len(plan) - Cardinality(completed') = open - 1 /\ open - 1 \in Nat
    <3>1. Cardinality(completed') = Cardinality(completed) + 1
      BY <2>1, DoneFacts, FS_AddElement
    <3> QED BY <1>0, <2>1, <3>1, DoneFacts
  <2>4. rest \in Nat
    BY <1>0, <2>3, TasksLeftFacts
  <2>5. Remaining' = rest + (Len(plan) + 2) + PassLeft'
    <3>1. Remaining' = TasksLeft(Len(plan') - Cardinality(completed'), Len(plan'))
                       + PassesLeft' + PassLeft'
      BY <2>1 DEF Remaining
    <3>2. PassesLeft' = Len(plan) + 2
      BY <2>1, <2>2 DEF PassesLeft
    <3> HIDE DEF open
    <3> QED BY <2>1, <2>3, <3>1, <3>2
  <2>6. Remaining = rest + Len(plan) + 2 + PassLeft + 1
    <3>1. AttemptsLeft = 1
      BY <2>1 DEF AttemptsLeft
    <3> QED BY <2>1, <3>1 DEF Remaining
  <2>7. PassLeft \in Int /\ PassLeft' = PassLeft - 1
    BY <1>0, <2>1 DEF PassLeft
  <2> HIDE DEF rest
  <2> QED BY <1>0, <2>4, <2>5, <2>6, <2>7
<1> QED BY <1>2, <1>3, <1>4, <1>5 DEF TaskStep, AgentReturns

(* What is left is a number of steps.                                      *)
RemainingOK == Remaining \in Nat

LEMMA DecreasesStep ==
    ASSUME IInv, RemainingOK, RemainingOK', [Next]_vars
    PROVE  Decreases
<1>0. Remaining \in Nat /\ Remaining' \in Nat
  BY DEF RemainingOK
<1>1. CASE RunStep
  <2>1. Remaining' < Remaining
    BY <1>1, SchedulerDecreases, AgentDecreases DEF RunStep
  <2> QED BY <1>0, <2>1 DEF Decreases
<1>2. CASE ~RunStep
  <2>1. UNCHANGED <<plan, pc, schedule, attempt>>
    BY <1>2 DEF Next, RunStep, Cancel, ToggleMode, arguments, vars
  <2>2. Remaining' = Remaining
    BY <2>1 DEF Remaining, PassesLeft, PassLeft, AttemptsLeft, schedule
  <2> QED BY <1>0, <1>2, <2>2 DEF Decreases
<1> QED BY <1>1, <1>2

LEMMA PlanKept ==
    ASSUME [Next]_vars
    PROVE  plan' = plan
<1> USE DEF arguments
<1>1. CASE Scheduler
  BY <1>1 DEF Scheduler, SkipTask, CallTask, EndPass, Abort
<1>2. CASE TaskStep
  BY <1>2 DEF TaskStep, StartTask, CallExecutor, VerifyFails, AcceptUnreviewed, CallReviewer,
     RecordTask
<1>3. CASE AgentReturns \/ AgentCancelled
  BY <1>3 DEF AgentReturns, ExecutorFails, ExecutorReturns, ReviewerFails, Approve, Reject,
     AgentCancelled, ExecutorCancelled, ReviewerCancelled
<1>4. CASE Cancel \/ ToggleMode \/ UNCHANGED vars
  BY <1>4 DEF Cancel, ToggleMode, vars
<1> QED BY <1>1, <1>2, <1>3, <1>4 DEF Next

(* A run takes no more steps than its plan and its retries allow, whatever *)
(* the agents answer, and neither a cancellation nor a change of the mode  *)
(* adds to them (executePlan, runTask).                                    *)
RunIsBounded ==
    /\ [](Remaining \in 0 .. TasksLeft(Len(plan), Len(plan)) + Len(plan) + 1)
    /\ [][Decreases]_vars

THEOREM RunIsBoundedCorrect == Spec => RunIsBounded
<1> DEFINE Bounded == Remaining \in 0 .. TasksLeft(Len(plan), Len(plan)) + Len(plan) + 1
<1>1. IInv => RemainingOK
  BY RemainingType DEF RemainingOK
<1>2. IInv /\ RemainingOK /\ RemainingOK' /\ [Next]_vars => Decreases
  BY DecreasesStep
<1>3. Init => Bounded
  <2> SUFFICES ASSUME Init PROVE Bounded
    OBVIOUS
  <2>1. Len(plan) \in Nat /\ IInv
    BY IInvInitially, PlanIsSeq DEF IInv
  <2>2. Cardinality(completed) = 0 /\ TasksLeft(Len(plan), Len(plan)) \in Nat
    BY <2>1, FS_EmptySet, TasksLeftFacts DEF Init
  <2>3. PassLeft = Len(plan) + 1 /\ pc = "scan" /\ ~progress
    BY <2>1 DEF Init, PassLeft
  <2>4. /\ Remaining = TasksLeft(Len(plan) - Cardinality(completed), Len(plan))
                        + PassesLeft + PassLeft
        /\ PassesLeft = 0
    BY <2>3 DEF Remaining, PassesLeft
  <2>5. Len(plan) - Cardinality(completed) = Len(plan)
    BY <2>1, <2>2
  <2> QED BY <2>1, <2>2, <2>3, <2>4, <2>5
<1>4. IInv /\ RemainingOK' /\ Bounded /\ Decreases /\ [Next]_vars => Bounded'
  <2> SUFFICES ASSUME IInv, RemainingOK', Bounded, Decreases, [Next]_vars PROVE Bounded'
    OBVIOUS
  <2>1. plan' = plan
    BY PlanKept
  <2>2. Len(plan) \in Nat /\ TasksLeft(Len(plan), Len(plan)) \in Nat
    BY PlanIsSeq, TasksLeftFacts DEF IInv
  <2>3. TasksLeft(Len(plan), Len(plan))' = TasksLeft(Len(plan), Len(plan))
    BY <2>1 DEF TasksLeft
  <2> QED BY <2>1, <2>2, <2>3 DEF RemainingOK, Decreases
<1> QED BY <1>1, <1>2, <1>3, <1>4, IInvCorrect, PTL DEF Spec, RunIsBounded

=============================================================================
