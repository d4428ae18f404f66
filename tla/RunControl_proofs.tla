--------------------------- MODULE RunControl_proofs ---------------------------
(***************************************************************************)
(* Proofs about RunControl, for any number of prompts: the flags of the    *)
(* loop follow a run that is still to report, and only approved plans are  *)
(* executed.  Without chat prompts one run is in progress at a time,       *)
(* prompts are started in the order they were entered, and no question     *)
(* about a plan is lost.                                                   *)
(***************************************************************************)
EXTENDS RunControl, TLAPS

USE BoundsAssumption, RoutesAssumption, InternalAssumption

(* The steps of a run, which leave the flags of the loop alone.            *)
RunAction(r) ==
    \/ RunStarts(r) \/ RunFails(r) \/ RunCancelled(r) \/ Reply(r)
    \/ PlanBuilt(r) \/ PlanPersisted(r) \/ AskUser(r) \/ TakeDecision(r)
    \/ Execute(r) \/ RunSucceeds(r)

LEMMA NextCases ==
    ASSUME [Next]_vars
    PROVE  \/ Submit \/ RequestCancel \/ (\E v \in Verdicts : Decide(v))
           \/ ShowPlan \/ ShowReply \/ CommandResult \/ Tick
           \/ (\E r \in Prompts : HandleResult(r) \/ RunAction(r))
           \/ UNCHANGED vars
<1>1. CASE UNCHANGED vars
  BY <1>1
<1>2. CASE User \/ Loop \/ CommandResult \/ Tick
  BY <1>2 DEF User, Loop
<1>3. ASSUME NEW r \in Prompts, RunStep(r) \/ ModelStep(r)
      PROVE  RunAction(r)
  BY <1>3 DEF RunStep, ModelStep, RunAction
<1> QED BY <1>1, <1>2, <1>3 DEF Next

-----------------------------------------------------------------------------
(* Type correctness.                                                       *)

LEMMA TypeOKInitially == Init => TypeOK
<1> SUFFICES ASSUME Init PROVE TypeOK
  OBVIOUS
<1>1. modal \in Plan
  BY DEF Init, Plan, NoPlan
<1>2. /\ pending \in Seq(Prompts) /\ events \in Seq(Prompts)
      /\ updates \in Seq(Plan) /\ started \in Seq(Prompts)
      /\ decisions \in Seq(Decision) /\ Len(decisions) <= ApprovalCapacity
  BY DEF Init
<1>3. /\ pc \in [Prompts -> Points]
      /\ route \in [Prompts -> Routes \cup {"none"}]
      /\ ctxDone \in [Prompts -> BOOLEAN]
      /\ planId \in [Prompts -> 0 .. MaxClock]
      /\ outcome \in [Prompts -> {"none", "ok", "failed", "cancelled"}]
  BY DEF Init, Points
<1>4. loading \in BOOLEAN /\ active \in BOOLEAN /\ cancelRequested \in BOOLEAN
  BY Zenon DEF Init
<1>5. handle \in 0 .. MaxPrompts /\ clock \in 1 .. MaxClock /\ entered \in 0 .. MaxPrompts
  BY DEF Init
<1>6. endorsed \in SUBSET (0 .. MaxPrompts)
  BY DEF Init
<1> QED BY <1>1, <1>2, <1>3, <1>4, <1>5, <1>6 DEF TypeOK

LEMMA LaunchTypes ==
    ASSUME TypeOK, NEW p \in Prompts, NEW q \in 0 .. MaxPrompts,
           NEW points \in [Prompts -> Points], Launch(p, q, points)
    PROVE  /\ loading' \in BOOLEAN /\ active' \in BOOLEAN
           /\ cancelRequested' \in BOOLEAN /\ handle' \in 0 .. MaxPrompts
           /\ ctxDone' \in [Prompts -> BOOLEAN]
           /\ pc' \in [Prompts -> Points]
           /\ started' \in Seq(Prompts)
<1>1. p \in 0 .. MaxPrompts
  BY DEF Prompts
<1>2. "start" \in Points
  BY DEF Points
<1>3. pc' \in [Prompts -> Points]
  BY <1>2 DEF Launch
<1>4. ctxDone' \in [Prompts -> BOOLEAN]
  <2>1. \A r \in Prompts : (ctxDone[r] \/ r = q) \in BOOLEAN
    OBVIOUS
  <2> QED BY <2>1 DEF Launch
<1>5. started' \in Seq(Prompts)
  BY DEF Launch, TypeOK
<1>6. /\ loading' \in BOOLEAN /\ active' \in BOOLEAN
      /\ cancelRequested' \in BOOLEAN /\ handle' \in 0 .. MaxPrompts
  BY <1>1 DEF Launch
<1> QED BY <1>3, <1>4, <1>5, <1>6

LEMMA SeqFacts ==
    ASSUME NEW S, NEW s \in Seq(S), s # <<>>
    PROVE  /\ Head(s) \in S /\ Tail(s) \in Seq(S)
           /\ Len(s) \in Nat /\ Len(s) > 0 /\ Len(Tail(s)) = Len(s) - 1
           /\ \A i \in 1 .. Len(s) - 1 : Tail(s)[i] = s[i + 1]
           /\ Head(s) = s[1]
  OBVIOUS

LEMMA TypeOKInductive == TypeOK /\ [Next]_vars => TypeOK'
<1> SUFFICES ASSUME TypeOK, [Next]_vars PROVE TypeOK'
  OBVIOUS
<1> USE DEF channels, runs, history, ui, flags
<1>1. CASE Submit
  <2>1. entered + 1 \in Prompts /\ entered' \in 0 .. MaxPrompts
    BY <1>1 DEF Submit, TypeOK, Prompts
  <2>2. CASE loading /\ pending' = Append(pending, entered + 1)
             /\ UNCHANGED <<loading, active, handle, cancelRequested, pc, ctxDone, started>>
    BY <1>1, <2>1, <2>2 DEF Submit, TypeOK
  <2>3. CASE Launch(entered + 1, handle, pc) /\ UNCHANGED pending
    <3>1. handle \in 0 .. MaxPrompts /\ pc \in [Prompts -> Points]
      BY DEF TypeOK
    <3>2. /\ loading' \in BOOLEAN /\ active' \in BOOLEAN
          /\ cancelRequested' \in BOOLEAN /\ handle' \in 0 .. MaxPrompts
          /\ ctxDone' \in [Prompts -> BOOLEAN]
          /\ pc' \in [Prompts -> Points]
          /\ started' \in Seq(Prompts)
      BY <2>1, <2>3, <3>1, LaunchTypes
    <3> QED BY <1>1, <2>1, <2>3, <3>2 DEF Submit, TypeOK
  <2> QED BY <1>1, <2>2, <2>3 DEF Submit
<1>2. CASE RequestCancel
  BY <1>2 DEF RequestCancel, TypeOK
<1>3. ASSUME NEW v \in Verdicts, Decide(v) PROVE TypeOK'
  <2> DEFINE d == [id |-> modal.id, run |-> modal.run, verdict |-> v]
  <2>1. d \in Decision /\ modal.run \in 0 .. MaxPrompts /\ NoPlan \in Plan
    BY <1>3 DEF Decision, TypeOK, Plan, NoPlan
  <2>2. decisions' \in Seq(Decision) /\ Len(decisions') <= ApprovalCapacity
    <3>1. CASE Len(decisions) < ApprovalCapacity
      BY <1>3, <2>1, <3>1 DEF Decide, SubmitPlanApproval, TypeOK
    <3>2. CASE ~(Len(decisions) < ApprovalCapacity)
      <4>1. decisions' = Append(Tail(decisions), d)
        BY <1>3, <3>2 DEF Decide, SubmitPlanApproval
      <4>2. decisions # <<>> /\ decisions \in Seq(Decision)
            /\ Len(decisions) = ApprovalCapacity
        BY <3>2 DEF TypeOK
      <4>3. Tail(decisions) \in Seq(Decision)
            /\ Len(Tail(decisions)) = ApprovalCapacity - 1
        BY <4>2, SeqFacts
      <4> QED BY <2>1, <4>1, <4>3
    <3> QED BY <3>1, <3>2
  <2>3. endorsed' \in SUBSET (0 .. MaxPrompts)
    BY <1>3, <2>1 DEF Decide, TypeOK
  <2> QED BY <1>3, <2>1, <2>2, <2>3 DEF Decide, TypeOK
<1>4. CASE ShowPlan
  <2>1. Head(updates) \in Plan /\ Tail(updates) \in Seq(Plan)
    BY <1>4 DEF ShowPlan, TypeOK
  <2> QED BY <1>4, <2>1 DEF ShowPlan, TypeOK
<1>5. CASE ShowReply
  <2>1. events' \in Seq(Prompts)
    BY <1>5, SeqFacts DEF ShowReply, TypeOK
  <2> QED BY <1>5, <2>1 DEF ShowReply, TypeOK
<1>6. CASE CommandResult
  <2>1. CASE active \/ pending = <<>>
    BY <1>6, <2>1 DEF CommandResult, TypeOK
  <2>2. CASE ~(active \/ pending = <<>>)
    <3>1. /\ Head(pending) \in Prompts /\ Tail(pending) \in Seq(Prompts)
          /\ 0 \in 0 .. MaxPrompts /\ pc \in [Prompts -> Points]
      BY <2>2 DEF TypeOK
    <3>2. Launch(Head(pending), 0, pc) /\ pending' = Tail(pending)
      BY <1>6, <2>2 DEF CommandResult, LaunchPending
    <3>3. /\ loading' \in BOOLEAN /\ active' \in BOOLEAN
          /\ cancelRequested' \in BOOLEAN /\ handle' \in 0 .. MaxPrompts
          /\ ctxDone' \in [Prompts -> BOOLEAN]
          /\ pc' \in [Prompts -> Points]
          /\ started' \in Seq(Prompts)
      BY <3>1, <3>2, LaunchTypes
    <3> QED BY <1>6, <3>1, <3>2, <3>3 DEF CommandResult, TypeOK
  <2> QED BY <2>1, <2>2
<1>7. CASE Tick
  BY <1>7 DEF Tick, TypeOK
<1>8. ASSUME NEW r \in Prompts, HandleResult(r) PROVE TypeOK'
  <2> DEFINE points == [pc EXCEPT ![r] = "handled"]
  <2>1. points \in [Prompts -> Points]
    BY DEF TypeOK, Points
  <2>2. CASE Idle(points) /\ (pending' = <<>> \/ pending' = pending)
    <3>1. pending' \in Seq(Prompts)
      <4>1. CASE pending' = <<>>
        BY <4>1
      <4>2. CASE pending' = pending
        BY <4>2 DEF TypeOK
      <4> QED BY <2>2, <4>1, <4>2
    <3>2. /\ loading' = FALSE /\ active' = FALSE /\ handle' = 0
          /\ cancelRequested' = FALSE /\ pc' = points
          /\ UNCHANGED <<ctxDone, started>>
      BY <2>2 DEF Idle
    <3>3. UNCHANGED <<modal, channels, route, planId, outcome, clock, entered, endorsed>>
      BY <1>8 DEF HandleResult
    <3>4. loading' \in BOOLEAN /\ active' \in BOOLEAN /\ cancelRequested' \in BOOLEAN
      BY <3>2, Zenon
    <3>5. handle' \in 0 .. MaxPrompts /\ pc' \in [Prompts -> Points]
      BY <2>1, <3>2
    <3> QED BY <3>1, <3>2, <3>3, <3>4, <3>5 DEF TypeOK
  <2>3. CASE pending # <<>> /\ LaunchPending(points)
    <3>1. /\ Head(pending) \in Prompts /\ Tail(pending) \in Seq(Prompts)
          /\ 0 \in 0 .. MaxPrompts
      BY <2>3 DEF TypeOK
    <3>2. Launch(Head(pending), 0, points) /\ pending' = Tail(pending)
      BY <2>3 DEF LaunchPending
    <3>3. /\ loading' \in BOOLEAN /\ active' \in BOOLEAN
          /\ cancelRequested' \in BOOLEAN /\ handle' \in 0 .. MaxPrompts
          /\ ctxDone' \in [Prompts -> BOOLEAN]
          /\ pc' \in [Prompts -> Points]
          /\ started' \in Seq(Prompts)
      BY <2>1, <3>1, <3>2, LaunchTypes
    <3> QED BY <1>8, <3>1, <3>2, <3>3 DEF HandleResult, TypeOK
  <2> QED BY <1>8, <2>2, <2>3 DEF HandleResult
<1>9. ASSUME NEW r \in Prompts, RunAction(r) PROVE TypeOK'
  <2> USE DEF Goto, Return, Points, TypeOK
  <2>1. CASE RunStarts(r)
    BY <1>9, <2>1 DEF RunStarts
  <2>2. CASE RunFails(r) \/ RunCancelled(r) \/ Execute(r) \/ RunSucceeds(r)
    BY <1>9, <2>2 DEF RunFails, RunCancelled, Execute, RunSucceeds
  <2>3. CASE Reply(r)
    BY <1>9, <2>3 DEF Reply
  <2>4. CASE PlanBuilt(r)
    BY <1>9, <2>4 DEF PlanBuilt
  <2>5. CASE PlanPersisted(r)
    BY <1>9, <2>5 DEF PlanPersisted
  <2>6. CASE AskUser(r)
    <3>1. [id |-> planId[r], run |-> r] \in Plan
      BY <1>9 DEF Plan, Prompts
    <3>2. updates' \in Seq(Plan)
      <4>1. CASE updates' = Append(updates, [id |-> planId[r], run |-> r])
        BY <3>1, <4>1
      <4>2. CASE updates' = updates
        BY <4>2
      <4> QED BY <2>6, <4>1, <4>2 DEF AskUser
    <3>3. pc' \in [Prompts -> Points] /\ outcome' = outcome
      BY <1>9, <2>6 DEF AskUser
    <3>4. UNCHANGED <<ui, events, decisions, route, ctxDone, planId, clock, entered,
                     history>>
      BY <2>6 DEF AskUser
    <3> QED BY <3>2, <3>3, <3>4
  <2>7. CASE TakeDecision(r)
    <3>1. decisions' \in Seq(Decision) /\ Len(decisions') <= ApprovalCapacity
      BY <2>7, SeqFacts DEF TakeDecision
    <3>2. pc' \in [Prompts -> Points]
          /\ outcome' \in [Prompts -> {"none", "ok", "failed", "cancelled"}]
      BY <1>9, <2>7 DEF TakeDecision
    <3> QED BY <1>9, <2>7, <3>1, <3>2 DEF TakeDecision
  <2> QED BY <1>9, <2>1, <2>2, <2>3, <2>4, <2>5, <2>6, <2>7 DEF RunAction
<1>10. CASE UNCHANGED vars
  BY <1>10 DEF vars, TypeOK
<1> QED BY NextCases, <1>1, <1>2, <1>3, <1>4, <1>5, <1>6, <1>7, <1>8, <1>9, <1>10

(* Every variable keeps its type.                                          *)
THEOREM TypeCorrect == Spec => []TypeOK
  BY TypeOKInitially, TypeOKInductive, PTL DEF Spec

-----------------------------------------------------------------------------
(* What the steps of a run and the start of one do to the program counters. *)

LEMMA RunActionFacts ==
    ASSUME TypeOK, NEW r \in Prompts, RunAction(r)
    PROVE  /\ UNCHANGED <<loading, active, handle, cancelRequested, pending, modal,
                         ctxDone, clock, entered, started, endorsed>>
           /\ pc[r] \notin {"none", "result", "handled"}
           /\ pc'[r] \notin {"none", "start", "handled"}
           /\ \A q \in Prompts : q # r => pc'[q] = pc[q]
<1> USE DEF ui, flags, runs, channels, history, TypeOK
<1>1. CASE RunStarts(r)
  <2>1. PICK way \in Routes :
            Goto(r, CASE way = "chat" -> "answer"
                      [] way = "plan" -> "plan"
                      [] way = "fast" -> "ready")
    BY <1>1 DEF RunStarts
  <2>2. way \in {"chat", "plan", "fast"}
    BY <2>1
  <2> QED BY <1>1, <2>1, <2>2 DEF RunStarts, Goto
<1>2. CASE RunFails(r)
  BY <1>2 DEF RunFails, Return
<1>3. CASE RunCancelled(r)
  BY <1>3 DEF RunCancelled, Return
<1>4. CASE Reply(r)
  BY <1>4 DEF Reply, Goto
<1>5. CASE PlanBuilt(r)
  BY <1>5 DEF PlanBuilt, Goto
<1>6. CASE PlanPersisted(r)
  BY <1>6 DEF PlanPersisted, Goto
<1>7. CASE AskUser(r)
  BY <1>7 DEF AskUser, Goto
<1>8. CASE TakeDecision(r)
  BY <1>8 DEF TakeDecision, Goto, Return
<1>9. CASE Execute(r)
  BY <1>9 DEF Execute, Goto
<1>10. CASE RunSucceeds(r)
  BY <1>10 DEF RunSucceeds, Return
<1> QED BY <1>1, <1>2, <1>3, <1>4, <1>5, <1>6, <1>7, <1>8, <1>9, <1>10
        DEF RunAction

LEMMA LaunchFacts ==
    ASSUME NEW p \in Prompts, NEW q, NEW points \in [Prompts -> Points],
           Launch(p, q, points)
    PROVE  /\ loading' = TRUE /\ active' = TRUE /\ handle' = p
           /\ started' = Append(started, p)
           /\ pc'[p] = "start"
           /\ \A r \in Prompts : r # p => pc'[r] = points[r]
  BY DEF Launch

-----------------------------------------------------------------------------
(* The flags of the loop.                                                  *)

FlagsInv == TypeOK /\ FlagsFollowRun

LEMMA FlagsInitially == Init => FlagsFollowRun
  BY DEF Init, FlagsFollowRun

LEMMA FlagsInductive == FlagsInv /\ [Next]_vars => FlagsFollowRun'
<1> SUFFICES ASSUME TypeOK, FlagsFollowRun, [Next]_vars PROVE FlagsFollowRun'
  BY DEF FlagsInv
<1> USE DEF FlagsFollowRun, flags, ui, runs, channels, history
<1>0. handle \in 0 .. MaxPrompts /\ pc \in [Prompts -> Points]
  BY DEF TypeOK
<1>1. CASE Submit
  <2>1. entered + 1 \in Prompts
    BY <1>1 DEF Submit, TypeOK, Prompts
  <2>2. CASE loading /\ UNCHANGED <<loading, active, handle, cancelRequested, pc>>
    BY <2>2
  <2>3. CASE Launch(entered + 1, handle, pc)
    <3>1. active' = TRUE /\ handle' = entered + 1 /\ pc'[entered + 1] = "start"
      BY <1>0, <2>1, <2>3, LaunchFacts
    <3> QED BY <2>1, <3>1 DEF Prompts
  <2> QED BY <1>1, <2>2, <2>3 DEF Submit
<1>2. CASE RequestCancel
  BY <1>2 DEF RequestCancel
<1>3. CASE \E v \in Verdicts : Decide(v)
  BY <1>3 DEF Decide
<1>4. CASE ShowPlan
  BY <1>4 DEF ShowPlan
<1>5. CASE ShowReply
  BY <1>5 DEF ShowReply
<1>6. CASE CommandResult
  <2>1. CASE active \/ pending = <<>>
    BY <1>6, <2>1 DEF CommandResult
  <2>2. CASE ~(active \/ pending = <<>>)
    BY <2>2
  <2> QED BY <2>1, <2>2
<1>7. CASE Tick
  BY <1>7 DEF Tick
<1>8. ASSUME NEW r \in Prompts, HandleResult(r) PROVE FlagsFollowRun'
  <2> DEFINE points == [pc EXCEPT ![r] = "handled"]
  <2>1. CASE Idle(points) /\ pending' = <<>>
    BY <2>1 DEF Idle
  <2>2. CASE pending # <<>> /\ LaunchPending(points)
    <3>1. Head(pending) \in Prompts /\ points \in [Prompts -> Points]
      BY <2>2, SeqFacts DEF TypeOK, Points
    <3>2. Launch(Head(pending), 0, points)
      BY <2>2 DEF LaunchPending
    <3>3. active' = TRUE /\ handle' = Head(pending) /\ pc'[Head(pending)] = "start"
      BY <3>1, <3>2, LaunchFacts
    <3> QED BY <3>1, <3>3 DEF Prompts
  <2> QED BY <1>8, <2>1, <2>2 DEF HandleResult
<1>9. ASSUME NEW r \in Prompts, RunAction(r) PROVE FlagsFollowRun'
  <2>1. UNCHANGED <<loading, active, handle, cancelRequested, pending>>
    BY <1>9, RunActionFacts
  <2>2. ASSUME active PROVE pc'[handle] \notin {"none", "handled"}
    <3>1. handle \in Prompts
      BY <1>0, <2>2 DEF Prompts
    <3> QED BY <1>9, <2>2, <3>1, RunActionFacts
  <2> QED BY <2>1, <2>2
<1>10. CASE UNCHANGED vars
  BY <1>10 DEF vars
<1> QED BY NextCases, <1>1, <1>2, <1>3, <1>4, <1>5, <1>6, <1>7, <1>8, <1>9, <1>10

(* The flags of the loop always follow a run that is still to report, and  *)
(* nothing waits in the queue of an idle loop (AppModel.Update).           *)
THEOREM FlagsFollowRunCorrect == Spec => []FlagsFollowRun
<1>1. Init => FlagsInv
  BY TypeOKInitially, FlagsInitially DEF FlagsInv
<1>2. FlagsInv /\ [Next]_vars => FlagsInv'
  BY TypeOKInductive, FlagsInductive DEF FlagsInv
<1>3. FlagsInv => FlagsFollowRun
  BY DEF FlagsInv
<1> QED BY <1>1, <1>2, <1>3, PTL DEF Spec

-----------------------------------------------------------------------------
(* Cancellation.                                                           *)

LEMMA CancelledStaysOutStep ==
    TypeOK /\ [Next]_vars =>
        [\A r \in Prompts : ctxDone[r] /\ pc'[r] = "execute" => pc[r] = "execute"]_vars
<1> SUFFICES ASSUME TypeOK, [Next]_vars, NEW r \in Prompts,
                    ctxDone[r], pc'[r] = "execute", pc[r] # "execute"
             PROVE  FALSE
  OBVIOUS
<1> USE DEF flags, ui, runs, channels, history
<1>0. pc \in [Prompts -> Points]
  BY DEF TypeOK
<1>1. CASE RequestCancel \/ (\E v \in Verdicts : Decide(v)) \/ ShowPlan \/ ShowReply
           \/ Tick \/ UNCHANGED vars
  BY <1>1 DEF RequestCancel, Decide, ShowPlan, ShowReply, Tick, vars
<1>2. ASSUME NEW p \in Prompts, NEW q, NEW points \in [Prompts -> Points],
             points[r] # "execute", Launch(p, q, points)
      PROVE  FALSE
  BY <1>2, LaunchFacts
<1>3. CASE Submit
  <2>1. entered + 1 \in Prompts
    BY <1>3 DEF Submit, TypeOK, Prompts
  <2> QED BY <1>0, <1>2, <1>3, <2>1 DEF Submit
<1>4. ASSUME NEW points \in [Prompts -> Points], points[r] # "execute",
             LaunchPending(points), pending # <<>>
      PROVE  FALSE
  <2>1. Head(pending) \in Prompts
    BY <1>4, SeqFacts DEF TypeOK
  <2> QED BY <1>2, <1>4, <2>1 DEF LaunchPending
<1>5. CASE CommandResult
  BY <1>0, <1>4, <1>5 DEF CommandResult
<1>6. ASSUME NEW s \in Prompts, HandleResult(s) PROVE FALSE
  <2> DEFINE points == [pc EXCEPT ![s] = "handled"]
  <2>1. points \in [Prompts -> Points] /\ points[r] # "execute"
    BY <1>0 DEF Points
  <2>2. CASE Idle(points)
    BY <2>1, <2>2 DEF Idle
  <2>3. CASE pending # <<>> /\ LaunchPending(points)
    BY <1>4, <2>1, <2>3
  <2> QED BY <1>6, <2>2, <2>3 DEF HandleResult
<1>7. ASSUME NEW s \in Prompts, RunAction(s) PROVE FALSE
  <2>1. s = r
    BY <1>7, RunActionFacts
  <2> USE DEF TypeOK, Goto, Return
  <2>2. CASE RunStarts(r)
    BY <2>2 DEF RunStarts
  <2>3. CASE RunFails(r) \/ RunCancelled(r) \/ RunSucceeds(r)
    BY <2>3 DEF RunFails, RunCancelled, RunSucceeds
  <2>4. CASE Reply(r) \/ PlanBuilt(r) \/ PlanPersisted(r) \/ AskUser(r)
    BY <2>4 DEF Reply, PlanBuilt, PlanPersisted, AskUser
  <2>5. CASE TakeDecision(r)
    BY <2>5 DEF TakeDecision
  <2>6. CASE Execute(r)
    BY <2>6 DEF Execute
  <2> QED BY <1>7, <2>1, <2>2, <2>3, <2>4, <2>5, <2>6 DEF RunAction
<1> QED BY NextCases, <1>1, <1>3, <1>5, <1>6, <1>7

(* A run whose context is done never enters executePlan.                   *)
THEOREM CancelledStaysOutCorrect == Spec => CancelledStaysOut
<1>1. TypeOK /\ [Next]_vars =>
          [\A r \in Prompts : ctxDone[r] /\ pc'[r] = "execute" => pc[r] = "execute"]_vars
  BY CancelledStaysOutStep
<1> QED BY <1>1, TypeOKInitially, TypeOKInductive, PTL DEF Spec, CancelledStaysOut

-----------------------------------------------------------------------------
(* The queue: nothing that waits in it, or is still to be entered, runs.   *)

QueueInv ==
    /\ \A p \in Prompts : p > entered => pc[p] = "none"
    /\ \A i \in DOMAIN pending :
          pending[i] <= entered /\ pc[pending[i]] = "none"
    /\ \A i, j \in DOMAIN pending : i < j => pending[i] < pending[j]

(* What a launch starts: a prompt that waited, nothing that stays queued.  *)
LEMMA HeadOfQueue ==
    ASSUME TypeOK, QueueInv, pending # <<>>
    PROVE  /\ Head(pending) \in Prompts /\ Tail(pending) \in Seq(Prompts)
           /\ pc[Head(pending)] = "none" /\ Head(pending) <= entered
           /\ \A i \in DOMAIN Tail(pending) :
                 /\ i + 1 \in DOMAIN pending /\ Tail(pending)[i] = pending[i + 1]
                 /\ Tail(pending)[i] > Head(pending)
<1>1. pending \in Seq(Prompts)
  BY DEF TypeOK
<1>2. /\ Head(pending) \in Prompts /\ Tail(pending) \in Seq(Prompts)
      /\ Len(pending) \in Nat /\ Len(pending) > 0
      /\ Len(Tail(pending)) = Len(pending) - 1
      /\ \A i \in 1 .. Len(pending) - 1 : Tail(pending)[i] = pending[i + 1]
      /\ Head(pending) = pending[1]
  BY <1>1, SeqFacts
<1>3. DOMAIN pending = 1 .. Len(pending)
      /\ DOMAIN Tail(pending) = 1 .. Len(pending) - 1
  BY <1>1, <1>2
<1>4. pc[Head(pending)] = "none" /\ Head(pending) <= entered
  BY <1>2, <1>3 DEF QueueInv
<1>5. ASSUME NEW i \in DOMAIN Tail(pending)
      PROVE  /\ i + 1 \in DOMAIN pending /\ Tail(pending)[i] = pending[i + 1]
             /\ Tail(pending)[i] > Head(pending)
  <2>1. i + 1 \in DOMAIN pending /\ Tail(pending)[i] = pending[i + 1]
    BY <1>2, <1>3, <1>5
  <2>2. 1 \in DOMAIN pending /\ 1 < i + 1
    BY <1>2, <1>3, <1>5
  <2>3. pending[1] < pending[i + 1]
    BY <2>1, <2>2 DEF QueueInv
  <2>4. pending[1] \in Nat /\ pending[i + 1] \in Nat
    BY <1>1, <2>1, <2>2 DEF Prompts
  <2> QED BY <1>2, <2>1, <2>3, <2>4
<1> QED BY <1>2, <1>4, <1>5

(* A step that starts the first prompt of the queue.                       *)
LEMMA LaunchPendingQueue ==
    ASSUME TypeOK, QueueInv, pending # <<>>,
           NEW points \in [Prompts -> Points],
           \A p \in Prompts : pc[p] = "none" => points[p] = "none",
           LaunchPending(points), UNCHANGED entered
    PROVE  QueueInv'
<1>1. /\ Head(pending) \in Prompts /\ Tail(pending) \in Seq(Prompts)
      /\ pc[Head(pending)] = "none" /\ Head(pending) <= entered
      /\ \A i \in DOMAIN Tail(pending) :
            /\ i + 1 \in DOMAIN pending /\ Tail(pending)[i] = pending[i + 1]
            /\ Tail(pending)[i] > Head(pending)
  BY HeadOfQueue
<1>2. /\ Launch(Head(pending), 0, points) /\ pending' = Tail(pending)
  BY DEF LaunchPending
<1>3. \A p \in Prompts : p # Head(pending) => pc'[p] = points[p]
  BY <1>1, <1>2, LaunchFacts
<1>4. entered \in Nat
  BY DEF TypeOK
<1>5. ASSUME NEW p \in Prompts, p > entered PROVE pc'[p] = "none"
  BY <1>1, <1>3, <1>4, <1>5 DEF QueueInv, Prompts
<1>6. ASSUME NEW i \in DOMAIN pending'
      PROVE  pending'[i] <= entered /\ pc'[pending'[i]] = "none"
  <2>1. pending'[i] = pending[i + 1] /\ i + 1 \in DOMAIN pending
        /\ pending'[i] > Head(pending)
    BY <1>1, <1>2, <1>6
  <2>2. pending[i + 1] <= entered /\ pc[pending[i + 1]] = "none"
    BY <2>1 DEF QueueInv
  <2>3. pending[i + 1] \in Prompts
    BY <2>1 DEF TypeOK
  <2>4. pending[i + 1] # Head(pending)
    BY <1>1, <2>1, <2>3 DEF Prompts
  <2> QED BY <1>3, <2>1, <2>2, <2>3, <2>4
<1>7. ASSUME NEW i \in DOMAIN pending', NEW j \in DOMAIN pending', i < j
      PROVE  pending'[i] < pending'[j]
  <2>1. /\ pending'[i] = pending[i + 1] /\ i + 1 \in DOMAIN pending
        /\ pending'[j] = pending[j + 1] /\ j + 1 \in DOMAIN pending
    BY <1>1, <1>2, <1>7
  <2>2. i \in Int /\ j \in Int
    BY <1>1, <1>2, <1>7
  <2> QED BY <1>7, <2>1, <2>2 DEF QueueInv
<1> QED BY <1>5, <1>6, <1>7 DEF QueueInv

LEMMA QueueInitially == Init => QueueInv
  BY DEF Init, QueueInv

LEMMA QueueInductive ==
    TypeOK /\ QueueInv /\ FlagsFollowRun /\ [Next]_vars => QueueInv'
<1> SUFFICES ASSUME TypeOK, QueueInv, FlagsFollowRun, [Next]_vars PROVE QueueInv'
  OBVIOUS
<1> USE DEF flags, ui, runs, channels, history
<1>0. pc \in [Prompts -> Points] /\ pending \in Seq(Prompts) /\ entered \in Nat
  BY DEF TypeOK
<1>1. CASE Submit
  <2>1. entered + 1 \in Prompts /\ entered' = entered + 1 /\ pc[entered + 1] = "none"
    BY <1>1 DEF Submit, TypeOK, Prompts, QueueInv
  <2>2. CASE pending' = Append(pending, entered + 1) /\ UNCHANGED pc
    <3>1. /\ DOMAIN pending' = 1 .. Len(pending) + 1 /\ Len(pending) \in Nat
          /\ DOMAIN pending = 1 .. Len(pending)
          /\ pending'[Len(pending) + 1] = entered + 1
          /\ \A i \in 1 .. Len(pending) : pending'[i] = pending[i]
      BY <1>0, <2>1, <2>2
    <3>2. \A i \in 1 .. Len(pending) : pending[i] \in Prompts /\ pending[i] <= entered
      BY <1>0, <3>1 DEF QueueInv
    <3>3. ASSUME NEW p \in Prompts, p > entered' PROVE pc'[p] = "none"
      BY <1>0, <2>1, <2>2, <3>3 DEF QueueInv, Prompts
    <3>4. ASSUME NEW i \in DOMAIN pending'
          PROVE  pending'[i] <= entered' /\ pc'[pending'[i]] = "none"
      <4>1. CASE i = Len(pending) + 1
        BY <1>0, <2>1, <2>2, <3>1, <4>1
      <4>2. CASE i \in 1 .. Len(pending)
        <5>1. pending'[i] = pending[i] /\ pc[pending[i]] = "none" /\ pending[i] <= entered
          BY <3>1, <4>2 DEF QueueInv
        <5>2. pending[i] \in Int
          BY <3>2, <4>2 DEF Prompts
        <5> QED BY <1>0, <2>1, <2>2, <5>1, <5>2
      <4> QED BY <3>1, <3>4, <4>1, <4>2
    <3>5. ASSUME NEW i \in DOMAIN pending', NEW j \in DOMAIN pending', i < j
          PROVE  pending'[i] < pending'[j]
      <4>1. i \in 1 .. Len(pending) /\ pending'[i] = pending[i]
        BY <3>1, <3>5
      <4>2. CASE j = Len(pending) + 1
        BY <1>0, <3>1, <3>2, <4>1, <4>2 DEF Prompts
      <4>3. CASE j \in 1 .. Len(pending)
        BY <3>1, <3>5, <4>1, <4>3 DEF QueueInv
      <4> QED BY <3>1, <3>5, <4>2, <4>3
    <3> QED BY <3>3, <3>4, <3>5 DEF QueueInv
  <2>3. CASE ~loading /\ Launch(entered + 1, handle, pc) /\ UNCHANGED pending
    <3>1. \A p \in Prompts : p # entered + 1 => pc'[p] = pc[p]
      BY <1>0, <2>1, <2>3, LaunchFacts
    <3>2. ASSUME NEW p \in Prompts, p > entered' PROVE pc'[p] = "none"
      BY <1>0, <2>1, <3>1, <3>2 DEF QueueInv, Prompts
    <3>3. ASSUME NEW i \in DOMAIN pending
          PROVE  pending[i] <= entered' /\ pc'[pending[i]] = "none"
      <4>1. pending[i] <= entered /\ pc[pending[i]] = "none" /\ pending[i] \in Prompts
        BY <1>0, <3>3 DEF QueueInv
      <4> QED BY <1>0, <2>1, <3>1, <4>1 DEF Prompts
    <3> QED BY <2>3, <3>2, <3>3 DEF QueueInv
  <2> QED BY <1>1, <2>2, <2>3 DEF Submit
<1>2. CASE \/ RequestCancel \/ (\E v \in Verdicts : Decide(v)) \/ ShowPlan
           \/ ShowReply \/ Tick \/ UNCHANGED vars
  BY <1>2 DEF RequestCancel, Decide, ShowPlan, ShowReply, Tick, vars, QueueInv
<1>3. CASE CommandResult
  <2>1. CASE active \/ pending = <<>>
    BY <1>3, <2>1 DEF CommandResult, QueueInv
  <2>2. CASE ~(active \/ pending = <<>>)
    BY <1>0, <1>3, <2>2, LaunchPendingQueue DEF CommandResult
  <2> QED BY <2>1, <2>2
<1>4. ASSUME NEW r \in Prompts, HandleResult(r) PROVE QueueInv'
  <2> DEFINE points == [pc EXCEPT ![r] = "handled"]
  <2>0. /\ points \in [Prompts -> Points] /\ entered' = entered
        /\ \A p \in Prompts : pc[p] = "none" => points[p] = "none"
    BY <1>0, <1>4 DEF HandleResult, Points
  <2>1. CASE Idle(points) /\ pending' = <<>>
    BY <2>0, <2>1 DEF Idle, QueueInv
  <2>2. CASE pending # <<>> /\ LaunchPending(points)
    BY <2>0, <2>2, LaunchPendingQueue
  <2> QED BY <1>4, <2>1, <2>2 DEF HandleResult
<1>5. ASSUME NEW r \in Prompts, RunAction(r) PROVE QueueInv'
  <2>1. /\ UNCHANGED <<pending, entered>>
        /\ \A q \in Prompts : pc[q] = "none" => pc'[q] = "none"
    BY <1>5, RunActionFacts
  <2>2. \A i \in DOMAIN pending : pending[i] \in Prompts
    BY <1>0
  <2> QED BY <2>1, <2>2 DEF QueueInv
<1> QED BY NextCases, <1>1, <1>2, <1>3, <1>4, <1>5

-----------------------------------------------------------------------------
(* What holds also when runs overlap.                                      *)

LEMMA LaunchStartsOnce ==
    ASSUME TypeOK, StartedOnce, NEW p \in Prompts, pc[p] = "none", NEW q,
           NEW points \in [Prompts -> Points],
           \A r \in Prompts : points[r] = "none" <=> pc[r] = "none",
           Launch(p, q, points)
    PROVE  StartedOnce'
<1>1. /\ started' = Append(started, p) /\ started \in Seq(Prompts)
      /\ pc'[p] = "start" /\ \A r \in Prompts : r # p => pc'[r] = points[r]
  BY LaunchFacts DEF TypeOK
<1>2. /\ DOMAIN started = 1 .. Len(started) /\ Len(started) \in Nat
      /\ DOMAIN started' = 1 .. Len(started) + 1
      /\ started'[Len(started) + 1] = p
      /\ \A i \in DOMAIN started : started'[i] = started[i]
  BY <1>1
<1>3. \A i \in DOMAIN started : started[i] # p
  BY DEF StartedOnce
<1>4. ASSUME NEW i \in DOMAIN started', NEW j \in DOMAIN started', started'[i] = started'[j]
      PROVE  i = j
  <2>1. CASE i \in DOMAIN started /\ j \in DOMAIN started
    BY <1>2, <1>4, <2>1 DEF StartedOnce
  <2>2. CASE i = Len(started) + 1 \/ j = Len(started) + 1
    BY <1>2, <1>3, <1>4, <2>2
  <2> QED BY <1>2, <2>1, <2>2
<1>5. ASSUME NEW r \in Prompts
      PROVE  pc'[r] # "none" <=> \E i \in DOMAIN started' : started'[i] = r
  <2>1. CASE r = p
    BY <1>1, <1>2, <2>1
  <2>2. CASE r # p
    <3>1. pc'[r] # "none" <=> pc[r] # "none"
      BY <1>1, <2>2
    <3>2. (\E i \in DOMAIN started' : started'[i] = r) <=> \E i \in DOMAIN started : started[i] = r
      BY <1>2, <2>2
    <3> QED BY <3>1, <3>2 DEF StartedOnce
  <2> QED BY <2>1, <2>2
<1> QED BY <1>4, <1>5 DEF StartedOnce

LEMMA StartedOnceInductive ==
    ASSUME TypeOK, QueueInv, StartedOnce, [Next]_vars
    PROVE  StartedOnce'
<1> USE DEF flags, ui, runs, channels, history
<1>0. pc \in [Prompts -> Points]
  BY DEF TypeOK
<1>1. ASSUME UNCHANGED started, \A p \in Prompts : pc'[p] = "none" <=> pc[p] = "none"
      PROVE  StartedOnce'
  BY <1>1 DEF StartedOnce
<1>2. ASSUME NEW points \in [Prompts -> Points], pending # <<>>, LaunchPending(points),
             \A r \in Prompts : points[r] = "none" <=> pc[r] = "none"
      PROVE  StartedOnce'
  <2>1. Head(pending) \in Prompts /\ pc[Head(pending)] = "none"
    BY <1>2, HeadOfQueue
  <2> QED BY <1>2, <2>1, LaunchStartsOnce DEF LaunchPending
<1>3. CASE Submit
  <2>1. CASE UNCHANGED <<started, pc>>
    BY <1>1, <2>1
  <2>2. CASE Launch(entered + 1, handle, pc)
    <3>1. entered + 1 \in Prompts /\ pc[entered + 1] = "none"
      BY <1>3 DEF Submit, TypeOK, Prompts, QueueInv
    <3> QED BY <1>0, <2>2, <3>1, LaunchStartsOnce
  <2> QED BY <1>3, <2>1, <2>2 DEF Submit
<1>4. CASE \/ RequestCancel \/ (\E v \in Verdicts : Decide(v)) \/ ShowPlan
           \/ ShowReply \/ Tick \/ UNCHANGED vars
  <2>1. UNCHANGED <<started, pc>>
    BY <1>4 DEF RequestCancel, Decide, ShowPlan, ShowReply, Tick, vars
  <2> QED BY <1>1, <2>1
<1>5. CASE CommandResult
  <2>1. CASE UNCHANGED <<started, pc>>
    BY <1>1, <2>1
  <2>2. CASE pending # <<>> /\ LaunchPending(pc)
    BY <1>0, <1>2, <2>2
  <2> QED BY <1>5, <2>1, <2>2 DEF CommandResult
<1>6. ASSUME NEW r \in Prompts, HandleResult(r) PROVE StartedOnce'
  <2> DEFINE points == [pc EXCEPT ![r] = "handled"]
  <2>1. /\ points \in [Prompts -> Points]
        /\ \A p \in Prompts : points[p] = "none" <=> pc[p] = "none"
    BY <1>0, <1>6 DEF HandleResult, Points
  <2>2. CASE Idle(points)
    <3>1. UNCHANGED started /\ pc' = points
      BY <2>2 DEF Idle
    <3> QED BY <1>1, <2>1, <3>1
  <2>3. CASE pending # <<>> /\ LaunchPending(points)
    BY <1>2, <2>1, <2>3
  <2> QED BY <1>6, <2>2, <2>3 DEF HandleResult
<1>7. ASSUME NEW r \in Prompts, RunAction(r) PROVE StartedOnce'
  <2>1. /\ UNCHANGED started /\ pc[r] # "none" /\ pc'[r] # "none"
        /\ \A p \in Prompts : p # r => pc'[p] = pc[p]
    BY <1>7, RunActionFacts
  <2> QED BY <1>1, <2>1
<1> QED BY NextCases, <1>3, <1>4, <1>5, <1>6, <1>7

OverlapInv == TypeOK /\ FlagsFollowRun /\ QueueInv /\ StartedOnce

LEMMA OverlapInitially == Init => OverlapInv
<1>1. Init => StartedOnce
  BY DEF Init, StartedOnce
<1> QED BY <1>1, TypeOKInitially, FlagsInitially, QueueInitially DEF OverlapInv

LEMMA OverlapInductive == OverlapInv /\ [Next]_vars => OverlapInv'
  BY TypeOKInductive, FlagsInductive, QueueInductive, StartedOnceInductive
     DEF OverlapInv, FlagsInv

(* Every prompt is started once at most, for all kinds of prompts and      *)
(* however many runs overlap (pendingMessages, runAgentCmd).               *)
THEOREM StartedOnceCorrect == Spec => []StartedOnce
<1>1. OverlapInv => StartedOnce
  BY DEF OverlapInv
<1> QED BY <1>1, OverlapInitially, OverlapInductive, PTL DEF Spec

(* What the launch of the first prompt of the queue does to the others.    *)
LEMMA OthersWait ==
    ASSUME TypeOK, pending # <<>>, pending' = Tail(pending),
           NEW p, Waits(p), p # Head(pending)
    PROVE  Waits(p)'
<1>1. PICK i \in DOMAIN pending : pending[i] = p
  BY DEF Waits
<1>2. pending \in Seq(Prompts)
  BY DEF TypeOK
<1>3. i - 1 \in DOMAIN pending' /\ pending'[i - 1] = p
  BY <1>1, <1>2, SeqFacts
<1> QED BY <1>3 DEF Waits

LEMMA PromptsKeptStep ==
    ASSUME OverlapInv, [Next]_vars, NEW p \in Prompts,
           Waits(p) \/ (p > entered /\ p <= entered')
    PROVE  Waits(p)' \/ pc'[p] = "start" \/ CancelledReports
<1> USE DEF flags, ui, runs, channels, history
<1>0. /\ TypeOK /\ QueueInv /\ pc \in [Prompts -> Points] /\ pending \in Seq(Prompts)
      /\ entered \in Nat
  BY DEF OverlapInv, TypeOK
<1>1. ASSUME UNCHANGED entered PROVE Waits(p)
  BY <1>0, <1>1 DEF Prompts
<1>2. ASSUME UNCHANGED <<pending, entered>> PROVE Waits(p)'
  BY <1>1, <1>2 DEF Waits
<1>3. ASSUME NEW points \in [Prompts -> Points], pending # <<>>, LaunchPending(points),
             UNCHANGED entered
      PROVE  Waits(p)' \/ pc'[p] = "start"
  <2>1. CASE p = Head(pending)
    BY <1>3, <2>1, LaunchFacts DEF LaunchPending
  <2>2. CASE p # Head(pending)
    BY <1>0, <1>1, <1>3, <2>2, OthersWait DEF LaunchPending
  <2> QED BY <2>1, <2>2
<1>4. CASE Submit
  <2>0. entered' = entered + 1 /\ (Waits(p) \/ p = entered + 1)
    BY <1>0, <1>4 DEF Submit, Prompts
  <2>1. CASE pending' = Append(pending, entered + 1)
    <3>1. /\ Len(pending) + 1 \in DOMAIN pending' /\ pending'[Len(pending) + 1] = entered + 1
          /\ \A i \in DOMAIN pending : i \in DOMAIN pending' /\ pending'[i] = pending[i]
      BY <1>0, <2>1
    <3> QED BY <2>0, <3>1 DEF Waits
  <2>2. CASE Launch(entered + 1, handle, pc) /\ UNCHANGED pending
    <3>1. CASE p = entered + 1
      BY <1>0, <2>2, <3>1, LaunchFacts
    <3>2. CASE Waits(p)
      BY <2>2, <3>2 DEF Waits
    <3> QED BY <2>0, <3>1, <3>2
  <2> QED BY <1>4, <2>1, <2>2 DEF Submit
<1>5. CASE \/ RequestCancel \/ (\E v \in Verdicts : Decide(v)) \/ ShowPlan
           \/ ShowReply \/ Tick \/ UNCHANGED vars
  BY <1>2, <1>5 DEF RequestCancel, Decide, ShowPlan, ShowReply, Tick, vars
<1>6. CASE CommandResult
  <2>1. CASE UNCHANGED <<pending, entered>>
    BY <1>2, <2>1
  <2>2. CASE pending # <<>> /\ LaunchPending(pc) /\ UNCHANGED entered
    BY <1>0, <1>3, <2>2
  <2> QED BY <1>6, <2>1, <2>2 DEF CommandResult
<1>7. ASSUME NEW r \in Prompts, HandleResult(r)
      PROVE  Waits(p)' \/ pc'[p] = "start" \/ CancelledReports
  <2> DEFINE points == [pc EXCEPT ![r] = "handled"]
  <2>0. points \in [Prompts -> Points] /\ points[r] = "handled"
    BY <1>0 DEF Points
  <2>1. CASE outcome[r] = "cancelled" /\ Idle(points)
    <3>1. pc[r] = "result" /\ pc'[r] = "handled"
      BY <1>7, <2>0, <2>1 DEF HandleResult, Idle
    <3> QED BY <2>1, <3>1 DEF CancelledReports
  <2>2. CASE UNCHANGED <<pending, entered>>
    BY <1>2, <2>2
  <2>3. CASE pending # <<>> /\ LaunchPending(points) /\ UNCHANGED entered
    BY <1>3, <2>0, <2>3
  <2> QED BY <1>7, <2>1, <2>2, <2>3 DEF HandleResult
<1>8. ASSUME NEW r \in Prompts, RunAction(r) PROVE Waits(p)'
  BY <1>0, <1>2, <1>8, RunActionFacts
<1> QED BY NextCases, <1>4, <1>5, <1>6, <1>7, <1>8

(* No prompt is forgotten: it leaves the queue to be started, or because a *)
(* cancelled run reports, for all kinds of prompts (AppModel.Update).      *)
THEOREM PromptsKeptCorrect == Spec => PromptsKept
<1>1. OverlapInv /\ [Next]_vars =>
          [\A p \in Prompts : Waits(p) \/ (p > entered /\ p <= entered') =>
               Waits(p)' \/ pc'[p] = "start" \/ CancelledReports]_vars
  BY PromptsKeptStep
<1> QED BY <1>1, OverlapInitially, OverlapInductive, PTL DEF Spec, PromptsKept

LEMMA StageOrder ==
    ASSUME TypeOK, NEW r \in Prompts, RunAction(r), pc'[r] # pc[r]
    PROVE  Stage(pc[r]) < Stage(pc'[r])
<1>0. pc \in [Prompts -> Points] /\ pc[r] \in Points \ {"none", "result", "handled"}
  BY RunActionFacts DEF TypeOK
<1>1. CASE RunStarts(r)
  <2>1. PICK way \in Routes :
            Goto(r, CASE way = "chat" -> "answer"
                      [] way = "plan" -> "plan"
                      [] way = "fast" -> "ready")
    BY <1>1 DEF RunStarts
  <2>2. pc'[r] \in {"answer", "plan", "ready"}
    BY <1>0, <2>1 DEF Goto, Points
  <2> QED BY <1>1, <2>2 DEF RunStarts, Stage
<1>2. CASE RunFails(r) \/ RunCancelled(r) \/ RunSucceeds(r)
  <2>1. pc'[r] = "result"
    BY <1>0, <1>2 DEF RunFails, RunCancelled, RunSucceeds, Return
  <2> QED BY <1>0, <2>1 DEF Stage, Points
<1>3. CASE Reply(r) \/ PlanBuilt(r) \/ PlanPersisted(r) \/ AskUser(r) \/ Execute(r)
  <2>1. \/ pc[r] = "answer"  /\ pc'[r] = "replied"
        \/ pc[r] = "plan"    /\ pc'[r] = "persist"
        \/ pc[r] = "persist" /\ pc'[r] = "ask"
        \/ pc[r] = "rewrite" /\ pc'[r] = "ready"
        \/ pc[r] = "ask"     /\ pc'[r] = "wait"
        \/ pc[r] = "ready"   /\ pc'[r] = "execute"
    BY <1>0, <1>3 DEF Reply, PlanBuilt, PlanPersisted, AskUser, Execute, Goto
  <2> QED BY <2>1 DEF Stage
<1>4. CASE TakeDecision(r)
  <2>1. pc[r] = "wait" /\ pc'[r] \in {"result", "ready", "rewrite"}
    BY <1>0, <1>4 DEF TakeDecision, Goto, Return
  <2> QED BY <2>1 DEF Stage
<1> QED BY <1>1, <1>2, <1>3, <1>4 DEF RunAction

LEMMA RunsAdvanceStep ==
    ASSUME OverlapInv, [Next]_vars, NEW r \in Prompts, pc'[r] # pc[r]
    PROVE  Stage(pc[r]) < Stage(pc'[r])
<1> USE DEF flags, ui, runs, channels, history
<1>0. TypeOK /\ QueueInv /\ pc \in [Prompts -> Points]
  BY DEF OverlapInv, TypeOK
<1>1. ASSUME NEW points \in [Prompts -> Points], pending # <<>>, LaunchPending(points),
             points[r] = pc[r]
      PROVE  Stage(pc[r]) < Stage(pc'[r])
  <2>1. Head(pending) \in Prompts /\ pc[Head(pending)] = "none"
    BY <1>0, <1>1, HeadOfQueue
  <2>2. r = Head(pending) /\ pc'[r] = "start"
    BY <1>1, <2>1, LaunchFacts DEF LaunchPending
  <2> QED BY <2>1, <2>2 DEF Stage
<1>2. CASE Submit
  <2>0. entered + 1 \in Prompts /\ entered + 1 > entered
    BY <1>0, <1>2 DEF Submit, TypeOK, Prompts
  <2>1. entered + 1 \in Prompts /\ pc[entered + 1] = "none"
    BY <1>0, <2>0 DEF QueueInv
  <2>2. Launch(entered + 1, handle, pc)
    BY <1>2 DEF Submit
  <2>3. r = entered + 1 /\ pc'[r] = "start"
    BY <1>0, <2>1, <2>2, LaunchFacts
  <2> QED BY <2>1, <2>3 DEF Stage
<1>3. CASE \/ RequestCancel \/ (\E v \in Verdicts : Decide(v)) \/ ShowPlan
           \/ ShowReply \/ Tick \/ UNCHANGED vars
  BY <1>3 DEF RequestCancel, Decide, ShowPlan, ShowReply, Tick, vars
<1>4. CASE CommandResult
  BY <1>0, <1>1, <1>4 DEF CommandResult
<1>5. ASSUME NEW q \in Prompts, HandleResult(q)
      PROVE  Stage(pc[r]) < Stage(pc'[r])
  <2> DEFINE points == [pc EXCEPT ![q] = "handled"]
  <2>1. /\ points \in [Prompts -> Points] /\ pc[q] = "result" /\ points[q] = "handled"
        /\ \A p \in Prompts : p # q => points[p] = pc[p]
    BY <1>0, <1>5 DEF HandleResult, Points
  <2>2. CASE Idle(points)
    <3>1. pc' = points
      BY <2>2 DEF Idle
    <3> QED BY <2>1, <3>1 DEF Stage
  <2>3. CASE pending # <<>> /\ LaunchPending(points)
    <3>1. CASE r = q
      <4>1. r # Head(pending) /\ Head(pending) \in Prompts
        BY <1>0, <2>1, <2>3, <3>1, HeadOfQueue
      <4>2. pc'[r] = "handled"
        BY <2>1, <2>3, <3>1, <4>1, LaunchFacts DEF LaunchPending
      <4> QED BY <2>1, <3>1, <4>2 DEF Stage
    <3>2. CASE r # q
      BY <1>1, <2>1, <2>3, <3>2
    <3> QED BY <3>1, <3>2
  <2> QED BY <1>5, <2>2, <2>3 DEF HandleResult
<1>6. ASSUME NEW q \in Prompts, RunAction(q) PROVE Stage(pc[r]) < Stage(pc'[r])
  <2>1. \A p \in Prompts : p # q => pc'[p] = pc[p]
    BY <1>0, <1>6, RunActionFacts
  <2> QED BY <1>0, <1>6, <2>1, StageOrder
<1> QED BY NextCases, <1>2, <1>3, <1>4, <1>5, <1>6

(* No run takes up a stage again: it draws one plan, asks once and is      *)
(* executed once, however many runs and stale decisions there are (Run).   *)
THEOREM RunsAdvanceCorrect == Spec => RunsAdvance
<1>1. OverlapInv /\ [Next]_vars =>
          [\A r \in Prompts : pc'[r] # pc[r] => Stage(pc[r]) < Stage(pc'[r])]_vars
  BY RunsAdvanceStep
<1> QED BY <1>1, OverlapInitially, OverlapInductive, PTL DEF Spec, RunsAdvance

-----------------------------------------------------------------------------
(* The approval of plans.  Every question and every decision names the run *)
(* whose plan it is about, and an endorsement stands behind each decision  *)
(* but a rejection.                                                        *)

BeforePlan == {"none", "start", "answer", "replied", "plan"}
WithPlan   == {"persist", "ask", "wait", "rewrite"}
Approved   == {"rewrite", "ready", "execute"}

PlanIdInv ==
    \A r \in Prompts : /\ pc[r] \in BeforePlan => planId[r] = 0
                       /\ pc[r] \in WithPlan => planId[r] # 0

AboutPlan(x) == x.run \in Prompts /\ x.id # 0 /\ planId[x.run] = x.id

QuestionInv ==
    /\ modal = NoPlan \/ AboutPlan(modal)
    /\ \A i \in DOMAIN updates : AboutPlan(updates[i])
    /\ \A i \in DOMAIN decisions :
          /\ AboutPlan(decisions[i])
          /\ decisions[i].verdict # "reject" => decisions[i].run \in endorsed

GateInv ==
    UniquePlanIds =>
        \A r \in Prompts : pc[r] \in Approved /\ route[r] = "plan" => r \in endorsed

ApprovalInv == PlanIdInv /\ QuestionInv /\ GateInv

(* A plan id that was drawn stays.                                         *)
KeepsPlanIds == \A q \in Prompts : planId[q] # 0 => planId'[q] = planId[q]

LEMMA GateStep ==
    ASSUME GateInv, KeepsPlanIds, endorsed \subseteq endorsed',
           \A q \in Prompts : pc'[q] \in Approved /\ route'[q] = "plan" =>
               \/ pc[q] \in Approved /\ route[q] = "plan"
               \/ UniquePlanIds => q \in endorsed
    PROVE  GateInv'
<1> SUFFICES ASSUME UniquePlanIds', NEW r \in Prompts,
                    pc'[r] \in Approved, route'[r] = "plan"
             PROVE  r \in endorsed'
  BY DEF GateInv
<1>1. UniquePlanIds
  <2> SUFFICES ASSUME NEW a \in Prompts, NEW b \in Prompts,
                      planId[a] = planId[b], planId[a] # 0
               PROVE  a = b
    BY DEF UniquePlanIds
  <2>1. planId'[a] = planId[a] /\ planId'[b] = planId[b]
    BY DEF KeepsPlanIds
  <2> QED BY <2>1 DEF UniquePlanIds
<1> QED BY <1>1 DEF GateInv

LEMMA QuestionStep ==
    ASSUME QuestionInv, KeepsPlanIds, endorsed \subseteq endorsed',
           UNCHANGED <<modal, updates, decisions>>
    PROVE  QuestionInv'
<1>1. \A x : AboutPlan(x) =>
          x.run \in Prompts /\ x.id # 0 /\ planId'[x.run] = x.id
  BY DEF AboutPlan, KeepsPlanIds
<1>2. modal' = NoPlan \/ AboutPlan(modal)'
  BY <1>1 DEF QuestionInv, AboutPlan
<1>3. \A i \in DOMAIN updates' : AboutPlan(updates[i])'
  BY <1>1 DEF QuestionInv, AboutPlan
<1>4. \A i \in DOMAIN decisions' : AboutPlan(decisions[i])'
  BY <1>1 DEF QuestionInv, AboutPlan
<1>5. \A i \in DOMAIN decisions' :
          decisions'[i].verdict # "reject" => decisions'[i].run \in endorsed'
  BY DEF QuestionInv
<1> QED BY <1>2, <1>3, <1>4, <1>5 DEF QuestionInv

(* A step that asks nothing, decides nothing and lets no run go on.        *)
LEMMA QuietStep ==
    ASSUME TypeOK, ApprovalInv,
           UNCHANGED <<modal, updates, decisions, planId, route, endorsed>>,
           \A q \in Prompts : \/ pc'[q] = pc[q]
                              \/ pc[q] = "none" /\ pc'[q] = "start"
                              \/ pc'[q] \in {"result", "handled"}
    PROVE  ApprovalInv'
<1>1. KeepsPlanIds
  BY DEF KeepsPlanIds
<1>2. QuestionInv'
  BY <1>1, QuestionStep DEF ApprovalInv
<1>3. \A q \in Prompts : pc'[q] \in Approved => pc[q] \in Approved
  BY DEF Approved
<1>4. GateInv'
  BY <1>1, <1>3, GateStep DEF ApprovalInv
<1>5. PlanIdInv'
  BY DEF ApprovalInv, PlanIdInv, BeforePlan, WithPlan
<1> QED BY <1>2, <1>4, <1>5 DEF ApprovalInv

LEMMA ApprovalInitially == Init => ApprovalInv
<1> SUFFICES ASSUME Init PROVE ApprovalInv
  OBVIOUS
<1>1. PlanIdInv
  BY DEF Init, PlanIdInv, BeforePlan, WithPlan
<1>2. QuestionInv
  BY DEF Init, QuestionInv
<1>3. GateInv
  BY DEF Init, GateInv, Approved
<1> QED BY <1>1, <1>2, <1>3 DEF ApprovalInv

(* The user decides on the plan of the modal.                              *)
LEMMA DecideApproval ==
    ASSUME TypeOK, ApprovalInv, NEW v \in Verdicts, Decide(v)
    PROVE  ApprovalInv'
<1> DEFINE d == [id |-> modal.id, run |-> modal.run, verdict |-> v]
<1> USE DEF flags, runs
<1>1. /\ UNCHANGED <<pc, route, planId, updates>> /\ modal' = NoPlan
      /\ endorsed \subseteq endorsed' /\ KeepsPlanIds
      /\ v # "reject" => modal.run \in endorsed'
  BY DEF Decide, KeepsPlanIds
<1>2. PlanIdInv'
  BY <1>1 DEF ApprovalInv, PlanIdInv
<1>3. GateInv'
  BY <1>1, GateStep DEF ApprovalInv
<1>4. AboutPlan(d) /\ (d.verdict # "reject" => d.run \in endorsed')
  BY <1>1 DEF ApprovalInv, QuestionInv, AboutPlan, Decide
<1>5. \A i \in DOMAIN decisions' :
          decisions'[i] = d \/ \E j \in DOMAIN decisions : decisions'[i] = decisions[j]
  <2>0. decisions \in Seq(Decision) /\ Len(decisions) \in Nat
    BY DEF TypeOK
  <2>1. CASE decisions' = Append(decisions, d)
    BY <2>0, <2>1
  <2>2. CASE decisions # <<>> /\ decisions' = Append(Tail(decisions), d)
    <3>1. /\ Tail(decisions) \in Seq(Decision) /\ Len(decisions) > 0
          /\ Len(Tail(decisions)) = Len(decisions) - 1
          /\ \A i \in 1 .. Len(decisions) - 1 : Tail(decisions)[i] = decisions[i + 1]
      BY <2>0, <2>2, SeqFacts
    <3>2. \A i \in DOMAIN decisions' :
              decisions'[i] = d \/ (i \in 1 .. Len(decisions) - 1
                                    /\ decisions'[i] = decisions[i + 1])
      BY <2>0, <2>2, <3>1
    <3>3. \A i \in 1 .. Len(decisions) - 1 : i + 1 \in DOMAIN decisions
      BY <2>0
    <3> QED BY <3>2, <3>3
  <2>3. decisions # <<>> \/ Len(decisions) < ApprovalCapacity
    BY <2>0
  <2> QED BY <2>1, <2>2, <2>3 DEF Decide, SubmitPlanApproval
<1>6. \A i \in DOMAIN decisions' :
          /\ AboutPlan(decisions'[i])
          /\ decisions'[i].verdict # "reject" => decisions'[i].run \in endorsed'
  <2> SUFFICES ASSUME NEW i \in DOMAIN decisions'
               PROVE  /\ AboutPlan(decisions'[i])
                      /\ decisions'[i].verdict # "reject" => decisions'[i].run \in endorsed'
    OBVIOUS
  <2>1. CASE decisions'[i] = d
    BY <1>4, <2>1
  <2>2. CASE \E j \in DOMAIN decisions : decisions'[i] = decisions[j]
    <3>1. PICK j \in DOMAIN decisions : decisions'[i] = decisions[j]
      BY <2>2
    <3>2. /\ AboutPlan(decisions[j])
          /\ decisions[j].verdict # "reject" => decisions[j].run \in endorsed
      BY DEF ApprovalInv, QuestionInv
    <3> QED BY <1>1, <3>1, <3>2
  <2> QED BY <1>5, <2>1, <2>2
<1>7. \A x : AboutPlan(x) => x.run \in Prompts /\ x.id # 0 /\ planId'[x.run] = x.id
  BY <1>1 DEF AboutPlan
<1>8. \A i \in DOMAIN updates' : AboutPlan(updates[i])'
  BY <1>1 DEF ApprovalInv, QuestionInv, AboutPlan
<1>9. \A i \in DOMAIN decisions' : AboutPlan(decisions[i])'
  BY <1>6, <1>7 DEF AboutPlan
<1>10. QuestionInv'
  BY <1>1, <1>6, <1>8, <1>9 DEF QuestionInv
<1> QED BY <1>2, <1>3, <1>10 DEF ApprovalInv

LEMMA ShowPlanApproval ==
    ASSUME TypeOK, ApprovalInv, ShowPlan
    PROVE  ApprovalInv'
<1> USE DEF flags, runs, history
<1>1. /\ UNCHANGED <<pc, route, planId, decisions, endorsed>> /\ KeepsPlanIds
      /\ modal' = Head(updates) /\ updates' = Tail(updates) /\ updates # <<>>
  BY DEF ShowPlan, KeepsPlanIds
<1>2. PlanIdInv'
  BY <1>1 DEF ApprovalInv, PlanIdInv
<1>3. GateInv'
  BY <1>1, GateStep DEF ApprovalInv
<1>4. /\ Len(updates) \in Nat /\ Len(updates) > 0 /\ DOMAIN updates = 1 .. Len(updates)
      /\ DOMAIN Tail(updates) = 1 .. Len(updates) - 1
      /\ Head(updates) = updates[1]
      /\ \A i \in 1 .. Len(updates) - 1 : Tail(updates)[i] = updates[i + 1]
  <2>1. updates \in Seq(Plan)
    BY DEF TypeOK
  <2> QED BY <1>1, <2>1, SeqFacts
<1>5. \A i \in DOMAIN updates : AboutPlan(updates[i])
  BY DEF ApprovalInv, QuestionInv
<1>6. AboutPlan(modal)'
  BY <1>1, <1>4, <1>5 DEF AboutPlan
<1>7. \A i \in DOMAIN updates' : AboutPlan(updates[i])'
  <2>1. \A i \in 1 .. Len(updates) - 1 : i + 1 \in DOMAIN updates
    BY <1>4
  <2> QED BY <1>1, <1>4, <1>5, <2>1 DEF AboutPlan
<1>8. \A i \in DOMAIN decisions' :
          /\ AboutPlan(decisions[i])'
          /\ decisions'[i].verdict # "reject" => decisions'[i].run \in endorsed'
  BY <1>1 DEF ApprovalInv, QuestionInv, AboutPlan
<1> QED BY <1>2, <1>3, <1>6, <1>7, <1>8 DEF ApprovalInv, QuestionInv

LEMMA RunApproval ==
    ASSUME TypeOK, ApprovalInv, NEW r \in Prompts, RunAction(r)
    PROVE  ApprovalInv'
<1> USE DEF flags, ui, runs, channels, history
<1>0. /\ pc \in [Prompts -> Points] /\ planId \in [Prompts -> 0 .. MaxClock]
      /\ route \in [Prompts -> Routes \cup {"none"}]
      /\ UNCHANGED <<modal, endorsed>>
      /\ \A q \in Prompts : q # r => pc'[q] = pc[q]
  BY RunActionFacts DEF TypeOK
<1>1. CASE RunFails(r) \/ RunCancelled(r) \/ RunSucceeds(r)
  <2>1. pc'[r] = "result"
    BY <1>0, <1>1 DEF RunFails, RunCancelled, RunSucceeds, Return
  <2>2. UNCHANGED <<modal, updates, decisions, planId, route, endorsed>>
    BY <1>1 DEF RunFails, RunCancelled, RunSucceeds
  <2> QED BY <1>0, <2>1, <2>2, QuietStep
<1>2. CASE RunStarts(r)
  <2>1. PICK way \in Routes :
            /\ route' = [route EXCEPT ![r] = way]
            /\ Goto(r, CASE way = "chat" -> "answer"
                         [] way = "plan" -> "plan"
                         [] way = "fast" -> "ready")
    BY <1>2 DEF RunStarts
  <2>2. way \in {"chat", "plan", "fast"}
    BY <2>1
  <2>3. pc'[r] \in {"answer", "plan"} \/ (pc'[r] = "ready" /\ route'[r] = "fast")
    BY <1>0, <2>1, <2>2 DEF Goto
  <2>4. /\ UNCHANGED <<planId, updates, decisions>> /\ pc[r] = "start" /\ KeepsPlanIds
        /\ \A q \in Prompts : q # r => route'[q] = route[q]
    BY <1>0, <1>2, <2>1 DEF RunStarts, KeepsPlanIds
  <2>5. QuestionInv'
    BY <1>0, <2>4, QuestionStep DEF ApprovalInv
  <2>6. GateInv'
    <3>1. \A q \in Prompts : pc'[q] \in Approved /\ route'[q] = "plan" =>
              pc[q] \in Approved /\ route[q] = "plan"
      BY <1>0, <2>3, <2>4 DEF Approved
    <3> QED BY <1>0, <2>4, <3>1, GateStep DEF ApprovalInv
  <2>7. PlanIdInv'
    BY <1>0, <2>3, <2>4 DEF ApprovalInv, PlanIdInv, BeforePlan, WithPlan
  <2> QED BY <2>5, <2>6, <2>7 DEF ApprovalInv
<1>3. CASE Reply(r) \/ PlanPersisted(r) \/ Execute(r)
  <2>1. UNCHANGED <<updates, decisions, planId, route>> /\ KeepsPlanIds
    BY <1>3 DEF Reply, PlanPersisted, Execute, KeepsPlanIds
  <2>2. \/ pc[r] = "answer" /\ pc'[r] = "replied"
        \/ pc[r] = "persist" /\ pc'[r] = "ask"
        \/ pc[r] = "rewrite" /\ pc'[r] = "ready"
        \/ pc[r] = "ready" /\ pc'[r] = "execute"
    BY <1>0, <1>3 DEF Reply, PlanPersisted, Execute, Goto
  <2>3. QuestionInv'
    BY <1>0, <2>1, QuestionStep DEF ApprovalInv
  <2>4. GateInv'
    <3>1. \A q \in Prompts : pc'[q] \in Approved => pc[q] \in Approved
      BY <1>0, <2>2 DEF Approved
    <3> QED BY <1>0, <2>1, <3>1, GateStep DEF ApprovalInv
  <2>5. PlanIdInv'
    BY <1>0, <2>1, <2>2 DEF ApprovalInv, PlanIdInv, BeforePlan, WithPlan
  <2> QED BY <2>3, <2>4, <2>5 DEF ApprovalInv
<1>4. CASE PlanBuilt(r)
  <2>1. /\ pc[r] = "plan" /\ pc'[r] = "persist" /\ planId'[r] # 0 /\ planId[r] = 0
        /\ \A q \in Prompts : q # r => planId'[q] = planId[q]
    BY <1>0, <1>4 DEF PlanBuilt, Goto, TypeOK, ApprovalInv, PlanIdInv, BeforePlan
  <2>2. UNCHANGED <<updates, decisions, route>>
    BY <1>4 DEF PlanBuilt
  <2>3. KeepsPlanIds
    BY <2>1 DEF KeepsPlanIds
  <2>4. QuestionInv'
    BY <1>0, <2>2, <2>3, QuestionStep DEF ApprovalInv
  <2>5. GateInv'
    <3>1. \A q \in Prompts : pc'[q] \in Approved => pc[q] \in Approved
      BY <1>0, <2>1 DEF Approved
    <3> QED BY <1>0, <2>2, <2>3, <3>1, GateStep DEF ApprovalInv
  <2>6. PlanIdInv'
    BY <1>0, <2>1 DEF ApprovalInv, PlanIdInv, BeforePlan, WithPlan
  <2> QED BY <2>4, <2>5, <2>6 DEF ApprovalInv
<1>5. CASE AskUser(r)
  <2> DEFINE question == [id |-> planId[r], run |-> r]
  <2>1. /\ pc[r] = "ask" /\ pc'[r] = "wait" /\ KeepsPlanIds
        /\ UNCHANGED <<decisions, planId, route>>
        /\ updates' = Append(updates, question) \/ updates' = updates
    BY <1>0, <1>5 DEF AskUser, Goto, KeepsPlanIds
  <2>2. GateInv'
    <3>1. \A q \in Prompts : pc'[q] \in Approved => pc[q] \in Approved
      BY <1>0, <2>1 DEF Approved
    <3> QED BY <1>0, <2>1, <3>1, GateStep DEF ApprovalInv
  <2>3. PlanIdInv'
    BY <1>0, <2>1 DEF ApprovalInv, PlanIdInv, BeforePlan, WithPlan
  <2>4. AboutPlan(question)
    BY <2>1 DEF AboutPlan, ApprovalInv, PlanIdInv, WithPlan
  <2>5. \A i \in DOMAIN updates :  AboutPlan(updates[i])
    BY DEF ApprovalInv, QuestionInv
  <2>6. \A i \in DOMAIN updates' : AboutPlan(updates'[i])
    <3>1. CASE updates' = Append(updates, question)
      <4>1. updates \in Seq(Plan)
        BY DEF TypeOK
      <4>2. \A i \in DOMAIN updates' :
                updates'[i] = question
                \/ (i \in DOMAIN updates /\ updates'[i] = updates[i])
        BY <3>1, <4>1
      <4> QED BY <2>4, <2>5, <4>2
    <3>2. CASE updates' = updates
      BY <2>5, <3>2
    <3> QED BY <2>1, <3>1, <3>2
  <2>7. \A i \in DOMAIN updates' : AboutPlan(updates[i])'
    BY <2>1, <2>6 DEF AboutPlan
  <2>8. modal' = NoPlan \/ AboutPlan(modal)'
    BY <1>0, <2>1 DEF ApprovalInv, QuestionInv, AboutPlan
  <2>9. \A i \in DOMAIN decisions' :
          /\ AboutPlan(decisions[i])'
          /\ decisions'[i].verdict # "reject" => decisions'[i].run \in endorsed'
    BY <1>0, <2>1 DEF ApprovalInv, QuestionInv, AboutPlan
  <2> QED BY <2>2, <2>3, <2>7, <2>8, <2>9 DEF ApprovalInv, QuestionInv
<1>6. CASE TakeDecision(r)
  <2> DEFINE d == Head(decisions)
  <2>1. /\ pc[r] = "wait" /\ decisions # <<>> /\ decisions' = Tail(decisions)
        /\ UNCHANGED <<updates, planId, route>> /\ KeepsPlanIds
    BY <1>6 DEF TakeDecision, KeepsPlanIds
  <2>2. /\ DOMAIN decisions = 1 .. Len(decisions) /\ Len(decisions) \in Nat
        /\ Len(decisions) > 0 /\ DOMAIN Tail(decisions) = 1 .. Len(decisions) - 1
        /\ d = decisions[1]
        /\ \A i \in 1 .. Len(decisions) - 1 : Tail(decisions)[i] = decisions[i + 1]
    <3>1. decisions \in Seq(Decision)
      BY DEF TypeOK
    <3> QED BY <2>1, <3>1, SeqFacts
  <2>3. \A i \in DOMAIN decisions :
          /\ AboutPlan(decisions[i])
          /\ decisions[i].verdict # "reject" => decisions[i].run \in endorsed
    BY DEF ApprovalInv, QuestionInv
  <2>4. AboutPlan(d) /\ (d.verdict # "reject" => d.run \in endorsed)
    BY <2>2, <2>3
  <2>5. \/ pc'[r] = "wait"
        \/ pc'[r] = "result"
        \/ /\ pc'[r] \in {"ready", "rewrite"} /\ d.id = planId[r]
           /\ d.verdict \in {"approve", "edit"}
    BY <1>0, <1>6, <2>1 DEF TakeDecision, Goto, Return
  <2>6. GateInv'
    <3>1. ASSUME NEW q \in Prompts, pc'[q] \in Approved, route'[q] = "plan"
          PROVE  \/ pc[q] \in Approved /\ route[q] = "plan"
                 \/ UniquePlanIds => q \in endorsed
      <4>1. CASE q # r
        BY <1>0, <2>1, <3>1, <4>1
      <4>2. CASE q = r
        <5>1. d.id = planId[r] /\ d.verdict \in {"approve", "edit"}
          BY <2>5, <3>1, <4>2 DEF Approved
        <5>2. d.run \in endorsed /\ d.run \in Prompts /\ planId[d.run] = planId[r]
              /\ planId[r] # 0
          BY <2>4, <5>1 DEF AboutPlan
        <5>3. UniquePlanIds => d.run = r
          BY <5>2 DEF UniquePlanIds
        <5> QED BY <4>2, <5>2, <5>3
      <4> QED BY <4>1, <4>2
    <3> QED BY <1>0, <2>1, <3>1, GateStep DEF ApprovalInv
  <2>7. PlanIdInv'
    BY <1>0, <2>1, <2>5 DEF ApprovalInv, PlanIdInv, BeforePlan, WithPlan
  <2>8. \A i \in DOMAIN decisions' :
          /\ AboutPlan(decisions[i])'
          /\ decisions'[i].verdict # "reject" => decisions'[i].run \in endorsed'
    <3>1. \A i \in 1 .. Len(decisions) - 1 : i + 1 \in DOMAIN decisions
      BY <2>2
    <3> QED BY <1>0, <2>1, <2>2, <2>3, <3>1 DEF AboutPlan
  <2>9. /\ modal' = NoPlan \/ AboutPlan(modal)'
        /\ \A i \in DOMAIN updates' : AboutPlan(updates[i])'
    BY <1>0, <2>1 DEF ApprovalInv, QuestionInv, AboutPlan
  <2> QED BY <2>6, <2>7, <2>8, <2>9 DEF ApprovalInv, QuestionInv
<1> QED BY <1>1, <1>2, <1>3, <1>4, <1>5, <1>6 DEF RunAction

LEMMA ApprovalInductive ==
    TypeOK /\ QueueInv /\ FlagsFollowRun /\ ApprovalInv /\ [Next]_vars => ApprovalInv'
<1> SUFFICES ASSUME TypeOK, QueueInv, FlagsFollowRun, ApprovalInv, [Next]_vars
             PROVE  ApprovalInv'
  OBVIOUS
<1> USE DEF flags, ui, runs, channels, history
<1>0. pc \in [Prompts -> Points]
  BY DEF TypeOK
<1>1. CASE Submit
  <2>1. UNCHANGED <<modal, updates, decisions, planId, route, endorsed>>
    BY <1>1 DEF Submit
  <2>2. CASE UNCHANGED pc
    BY <2>1, <2>2, QuietStep
  <2>3. CASE Launch(entered + 1, handle, pc)
    <3>1. entered + 1 \in Prompts /\ pc[entered + 1] = "none"
      BY <1>1 DEF Submit, TypeOK, Prompts, QueueInv
    <3>2. \A q \in Prompts : pc'[q] = pc[q] \/ (pc[q] = "none" /\ pc'[q] = "start")
      BY <1>0, <2>3, <3>1, LaunchFacts
    <3> QED BY <2>1, <3>2, QuietStep
  <2> QED BY <1>1, <2>2, <2>3 DEF Submit
<1>2. CASE RequestCancel \/ ShowReply \/ Tick \/ UNCHANGED vars
  <2>1. UNCHANGED <<modal, updates, decisions, planId, route, endorsed, pc>>
    BY <1>2 DEF RequestCancel, ShowReply, Tick, vars
  <2> QED BY <2>1, QuietStep
<1>3. CASE CommandResult
  <2>1. UNCHANGED <<modal, updates, decisions, planId, route, endorsed>>
    BY <1>3 DEF CommandResult
  <2>2. CASE UNCHANGED pc
    BY <2>1, <2>2, QuietStep
  <2>3. CASE pending # <<>> /\ LaunchPending(pc)
    <3>1. Head(pending) \in Prompts /\ pc[Head(pending)] = "none"
      BY <2>3, HeadOfQueue
    <3>2. \A q \in Prompts : pc'[q] = pc[q] \/ (pc[q] = "none" /\ pc'[q] = "start")
      BY <1>0, <2>3, <3>1, LaunchFacts DEF LaunchPending
    <3> QED BY <2>1, <3>2, QuietStep
  <2> QED BY <1>3, <2>2, <2>3 DEF CommandResult
<1>4. ASSUME NEW r \in Prompts, HandleResult(r) PROVE ApprovalInv'
  <2> DEFINE points == [pc EXCEPT ![r] = "handled"]
  <2>0. /\ points \in [Prompts -> Points]
        /\ pc[r] = "result" /\ \A q \in Prompts : q # r => points[q] = pc[q]
        /\ points[r] = "handled"
    BY <1>0, <1>4 DEF HandleResult, Points
  <2>1. UNCHANGED <<modal, updates, decisions, planId, route, endorsed>>
    BY <1>4 DEF HandleResult
  <2>2. CASE Idle(points)
    BY <2>0, <2>1, <2>2, QuietStep DEF Idle
  <2>3. CASE pending # <<>> /\ LaunchPending(points)
    <3>1. Head(pending) \in Prompts /\ pc[Head(pending)] = "none"
      BY <2>3, HeadOfQueue
    <3>2. pc'[Head(pending)] = "start"
          /\ \A q \in Prompts : q # Head(pending) => pc'[q] = points[q]
      BY <2>0, <2>3, <3>1, LaunchFacts DEF LaunchPending
    <3>3. \A q \in Prompts : \/ pc'[q] = pc[q]
                             \/ pc[q] = "none" /\ pc'[q] = "start"
                             \/ pc'[q] \in {"result", "handled"}
      BY <2>0, <3>1, <3>2
    <3> QED BY <2>1, <3>3, QuietStep
  <2> QED BY <1>4, <2>2, <2>3 DEF HandleResult
<1> QED BY NextCases, RunApproval, DecideApproval, ShowPlanApproval,
           <1>1, <1>2, <1>3, <1>4

(* No plan is executed before the user approved that very plan, whatever   *)
(* stale decisions and modals other runs leave behind (waitForPlanApproval).*)
THEOREM PlanGateCorrect == Spec => []PlanGate
<1> DEFINE Inv == TypeOK /\ QueueInv /\ FlagsFollowRun /\ ApprovalInv
<1>1. Init => Inv
  BY TypeOKInitially, QueueInitially, FlagsInitially, ApprovalInitially
<1>2. Inv /\ [Next]_vars => Inv'
  BY TypeOKInductive, QueueInductive, FlagsInductive, ApprovalInductive DEF FlagsInv
<1>3. Inv => PlanGate
  BY DEF ApprovalInv, GateInv, PlanGate, Approved
<1> QED BY <1>1, <1>2, <1>3, PTL DEF Spec

-----------------------------------------------------------------------------
(* Without chat prompts: no reply overtakes the end of its run, so the     *)
(* loading line, the active flag and the run in progress agree.            *)

OneRunInv ==
    /\ events = <<>> /\ loading = active
    /\ \A r \in Prompts : pc[r] \notin {"answer", "replied"}
    /\ \A r \in Prompts : pc[r] \notin {"none", "handled"} => active /\ handle = r

OrderInv ==
    /\ StartedInOrder
    /\ \A i \in DOMAIN started : started[i] <= entered
    /\ \A i \in DOMAIN started, j \in DOMAIN pending : started[i] < pending[j]

NoChatInv == TypeOK /\ QueueInv /\ FlagsFollowRun /\ OneRunInv /\ OrderInv

LEMMA OneRunInductive ==
    ASSUME "chat" \notin Routes, NoChatInv, [Next]_vars
    PROVE  OneRunInv'
<1> USE DEF flags, ui, runs, channels, history
<1>0. /\ pc \in [Prompts -> Points] /\ handle \in 0 .. MaxPrompts
      /\ TypeOK /\ OneRunInv /\ QueueInv /\ FlagsFollowRun
  BY DEF TypeOK, NoChatInv
<1>1. CASE Submit
  <2>1. entered + 1 \in Prompts /\ events' = events
    BY <1>0, <1>1 DEF Submit, TypeOK, Prompts
  <2>2. CASE UNCHANGED <<loading, active, handle, pc>>
    BY <1>0, <2>1, <2>2 DEF OneRunInv
  <2>3. CASE ~loading /\ Launch(entered + 1, handle, pc)
    <3>1. /\ loading' = TRUE /\ active' = TRUE /\ handle' = entered + 1
          /\ pc'[entered + 1] = "start"
          /\ \A q \in Prompts : q # entered + 1 => pc'[q] = pc[q]
      BY <1>0, <2>1, <2>3, LaunchFacts
    <3>2. \A q \in Prompts : pc[q] \in {"none", "handled"}
      BY <1>0, <2>3 DEF OneRunInv
    <3> QED BY <1>0, <2>1, <3>1, <3>2 DEF OneRunInv
  <2> QED BY <1>1, <2>2, <2>3 DEF Submit
<1>2. CASE RequestCancel \/ (\E v \in Verdicts : Decide(v)) \/ ShowPlan \/ Tick
           \/ UNCHANGED vars
  <2>1. UNCHANGED <<loading, active, handle, pc, events>>
    BY <1>2 DEF RequestCancel, Decide, ShowPlan, Tick, vars
  <2> QED BY <1>0, <2>1 DEF OneRunInv
<1>3. CASE ShowReply
  BY <1>0, <1>3 DEF ShowReply, OneRunInv
<1>4. CASE CommandResult
  <2>1. CASE active \/ pending = <<>>
    <3>1. /\ UNCHANGED <<active, handle, pc, events>>
          /\ loading' = (loading /\ active)
      BY <1>4, <2>1 DEF CommandResult
    <3>2. loading' = active'
      BY <1>0, <3>1 DEF OneRunInv, TypeOK
    <3> QED BY <1>0, <3>1, <3>2 DEF OneRunInv
  <2>2. CASE ~(active \/ pending = <<>>)
    BY <1>0, <2>2 DEF FlagsFollowRun
  <2> QED BY <2>1, <2>2
<1>5. ASSUME NEW r \in Prompts, HandleResult(r) PROVE OneRunInv'
  <2> DEFINE points == [pc EXCEPT ![r] = "handled"]
  <2>1. /\ points \in [Prompts -> Points] /\ points[r] = "handled"
        /\ \A q \in Prompts : q # r => points[q] = pc[q]
        /\ pc[r] = "result" /\ events' = events
    BY <1>0, <1>5 DEF HandleResult, Points
  <2>2. \A q \in Prompts : points[q] \in {"none", "handled"}
    BY <1>0, <2>1 DEF OneRunInv
  <2>3. CASE Idle(points)
    BY <1>0, <2>1, <2>2, <2>3 DEF Idle, OneRunInv
  <2>4. CASE pending # <<>> /\ LaunchPending(points)
    <3>1. Head(pending) \in Prompts
      BY <1>0, <2>4, HeadOfQueue
    <3>2. /\ loading' = TRUE /\ active' = TRUE /\ handle' = Head(pending)
          /\ pc'[Head(pending)] = "start"
          /\ \A q \in Prompts : q # Head(pending) => pc'[q] = points[q]
      BY <2>1, <2>4, <3>1, LaunchFacts DEF LaunchPending
    <3> QED BY <1>0, <2>1, <2>2, <3>1, <3>2 DEF OneRunInv
  <2> QED BY <1>5, <2>3, <2>4 DEF HandleResult
<1>6. ASSUME NEW r \in Prompts, RunAction(r) PROVE OneRunInv'
  <2>1. /\ UNCHANGED <<loading, active, handle>>
        /\ pc[r] \notin {"none", "result", "handled"}
        /\ \A q \in Prompts : q # r => pc'[q] = pc[q]
    BY <1>0, <1>6, RunActionFacts
  <2>2. events' = events /\ pc'[r] \notin {"answer", "replied"}
    <3>1. pc[r] \notin {"answer", "replied"}
      BY <1>0 DEF OneRunInv
    <3>2. CASE RunStarts(r)
      <4>1. PICK way \in Routes :
                Goto(r, CASE way = "chat" -> "answer"
                          [] way = "plan" -> "plan"
                          [] way = "fast" -> "ready")
        BY <3>2 DEF RunStarts
      <4>2. way \in {"plan", "fast"}
        BY <4>1
      <4> QED BY <1>0, <3>2, <4>1, <4>2 DEF RunStarts, Goto
    <3>3. CASE RunFails(r) \/ RunCancelled(r) \/ RunSucceeds(r)
      BY <1>0, <3>3 DEF RunFails, RunCancelled, RunSucceeds, Return
    <3>4. CASE Reply(r)
      BY <3>1, <3>4 DEF Reply
    <3>5. CASE PlanBuilt(r) \/ PlanPersisted(r) \/ AskUser(r) \/ Execute(r)
      BY <1>0, <3>5 DEF PlanBuilt, PlanPersisted, AskUser, Execute, Goto
    <3>6. CASE TakeDecision(r)
      BY <1>0, <3>1, <3>6 DEF TakeDecision, Goto, Return
    <3> QED BY <1>6, <3>2, <3>3, <3>4, <3>5, <3>6 DEF RunAction
  <2>3. handle = r /\ active
    BY <1>0, <2>1 DEF OneRunInv
  <2> QED BY <1>0, <2>1, <2>2, <2>3 DEF OneRunInv
<1> QED BY NextCases, <1>1, <1>2, <1>3, <1>4, <1>5, <1>6

(* Appending a prompt later than every started one, which the queue        *)
(* follows, keeps the order.                                               *)
LEMMA StartInOrder ==
    ASSUME NoChatInv, NEW p \in Prompts, started' = Append(started, p),
           \A i \in DOMAIN started : started[i] < p,
           p <= entered', entered <= entered', entered' \in Nat,
           \A j \in DOMAIN pending' :
               p < pending'[j] /\ \A i \in DOMAIN started : started[i] < pending'[j]
    PROVE  OrderInv'
<1>0. started \in Seq(Prompts) /\ entered \in Nat
  BY DEF NoChatInv, TypeOK
<1>1. /\ DOMAIN started = 1 .. Len(started) /\ Len(started) \in Nat
      /\ DOMAIN started' = 1 .. Len(started) + 1
      /\ started'[Len(started) + 1] = p
      /\ \A i \in DOMAIN started : started'[i] = started[i]
  BY <1>0
<1>2. StartedInOrder'
  <2> SUFFICES ASSUME NEW i \in DOMAIN started', NEW j \in DOMAIN started', i < j
               PROVE  started'[i] < started'[j]
    BY DEF StartedInOrder
  <2>1. i \in DOMAIN started
    BY <1>1
  <2>2. CASE j \in DOMAIN started
    BY <1>1, <2>1, <2>2 DEF NoChatInv, OrderInv, StartedInOrder
  <2>3. CASE j = Len(started) + 1
    BY <1>1, <2>1, <2>3
  <2> QED BY <1>1, <2>2, <2>3
<1>3. \A i \in DOMAIN started' : started'[i] <= entered'
  <2> SUFFICES ASSUME NEW i \in DOMAIN started' PROVE started'[i] <= entered'
    OBVIOUS
  <2>1. CASE i \in DOMAIN started
    <3>1. started[i] <= entered /\ started[i] \in Prompts
      BY <1>0, <2>1 DEF NoChatInv, OrderInv
    <3> QED BY <1>0, <1>1, <2>1, <3>1 DEF Prompts
  <2>2. CASE i = Len(started) + 1
    BY <1>1, <2>2
  <2> QED BY <1>1, <2>1, <2>2
<1>4. \A i \in DOMAIN started', j \in DOMAIN pending' : started'[i] < pending'[j]
  <2> SUFFICES ASSUME NEW i \in DOMAIN started', NEW j \in DOMAIN pending'
               PROVE  started'[i] < pending'[j]
    OBVIOUS
  <2>1. CASE i \in DOMAIN started
    BY <1>1, <2>1
  <2>2. CASE i = Len(started) + 1
    BY <1>1, <2>2
  <2> QED BY <1>1, <2>1, <2>2
<1> QED BY <1>2, <1>3, <1>4 DEF OrderInv

LEMMA OrderInductive == NoChatInv /\ [Next]_vars => OrderInv'
<1> SUFFICES ASSUME NoChatInv, [Next]_vars PROVE OrderInv'
  OBVIOUS
<1> USE DEF flags, ui, runs, channels, history
<1>0. /\ TypeOK /\ QueueInv /\ FlagsFollowRun /\ OneRunInv /\ OrderInv
      /\ started \in Seq(Prompts) /\ pending \in Seq(Prompts) /\ entered \in Nat
      /\ pc \in [Prompts -> Points]
  BY DEF NoChatInv, TypeOK
<1>1. ASSUME NEW points, pending # <<>>, LaunchPending(points), UNCHANGED entered
      PROVE  OrderInv'
  <2>1. /\ Head(pending) \in Prompts /\ Head(pending) <= entered
        /\ \A i \in DOMAIN Tail(pending) :
              /\ i + 1 \in DOMAIN pending /\ Tail(pending)[i] = pending[i + 1]
              /\ Tail(pending)[i] > Head(pending)
    BY <1>0, <1>1, HeadOfQueue
  <2>2. started' = Append(started, Head(pending)) /\ pending' = Tail(pending)
    BY <1>1 DEF LaunchPending, Launch
  <2>3. 1 \in DOMAIN pending /\ Head(pending) = pending[1]
    BY <1>0, <1>1, SeqFacts
  <2>4. \A i \in DOMAIN started : started[i] < Head(pending)
    BY <1>0, <2>3 DEF OrderInv
  <2>5. \A j \in DOMAIN pending' :
            Head(pending) < pending'[j] /\ \A i \in DOMAIN started : started[i] < pending'[j]
    <3>1. \A j \in DOMAIN pending : pending[j] \in Prompts
      BY <1>0
    <3> QED BY <1>0, <2>1, <2>2, <3>1 DEF OrderInv, Prompts
  <2> QED BY <1>0, <1>1, <2>1, <2>2, <2>4, <2>5, StartInOrder
<1>2. CASE Submit
  <2>1. entered + 1 \in Prompts /\ entered' = entered + 1
    BY <1>0, <1>2 DEF Submit, TypeOK, Prompts
  <2>2. CASE pending' = Append(pending, entered + 1) /\ UNCHANGED started
    <3>1. \A j \in DOMAIN pending' :
              pending'[j] = entered + 1 \/ (j \in DOMAIN pending /\ pending'[j] = pending[j])
      BY <1>0, <2>1, <2>2
    <3>2. \A i \in DOMAIN started : started[i] <= entered /\ started[i] \in Int
      BY <1>0 DEF OrderInv, Prompts
    <3>3. \A i \in DOMAIN started, j \in DOMAIN pending' : started[i] < pending'[j]
      BY <1>0, <3>1, <3>2 DEF OrderInv
    <3>4. \A i \in DOMAIN started : started[i] <= entered'
      BY <1>0, <2>1, <3>2
    <3> QED BY <1>0, <2>2, <3>3, <3>4 DEF OrderInv, StartedInOrder
  <2>3. CASE ~loading /\ Launch(entered + 1, handle, pc) /\ UNCHANGED pending
    <3>1. pending = <<>> /\ started' = Append(started, entered + 1)
      BY <1>0, <2>3 DEF FlagsFollowRun, OneRunInv, Launch
    <3>2. \A i \in DOMAIN started : started[i] < entered + 1
      <4>1. \A i \in DOMAIN started : started[i] <= entered /\ started[i] \in Int
        BY <1>0 DEF OrderInv, Prompts
      <4> QED BY <1>0, <4>1
    <3>3. DOMAIN pending' = {}
      BY <2>3, <3>1
    <3>4. entered + 1 <= entered' /\ entered <= entered' /\ entered' \in Nat
      BY <1>0, <2>1
    <3> QED BY <2>1, <3>1, <3>2, <3>3, <3>4, StartInOrder
  <2> QED BY <1>2, <2>2, <2>3 DEF Submit
<1>3. ASSUME UNCHANGED <<started, pending, entered>> PROVE OrderInv'
  BY <1>0, <1>3 DEF OrderInv, StartedInOrder
<1>4. CASE \/ RequestCancel \/ (\E v \in Verdicts : Decide(v)) \/ ShowPlan
           \/ ShowReply \/ Tick \/ UNCHANGED vars
  BY <1>3, <1>4 DEF RequestCancel, Decide, ShowPlan, ShowReply, Tick, vars
<1>5. CASE CommandResult
  <2>1. CASE UNCHANGED <<started, pending, entered>>
    BY <1>3, <2>1
  <2>2. CASE pending # <<>> /\ LaunchPending(pc) /\ UNCHANGED entered
    BY <1>1, <2>2
  <2> QED BY <1>5, <2>1, <2>2 DEF CommandResult
<1>6. ASSUME NEW r \in Prompts, HandleResult(r) PROVE OrderInv'
  <2> DEFINE points == [pc EXCEPT ![r] = "handled"]
  <2>1. CASE UNCHANGED <<started, entered>> /\ (pending' = <<>> \/ pending' = pending)
    <3>1. CASE pending' = pending
      BY <1>3, <2>1, <3>1
    <3>2. CASE pending' = <<>>
      <4>1. DOMAIN pending' = {}
        BY <3>2
      <4> QED BY <1>0, <2>1, <4>1 DEF OrderInv, StartedInOrder
    <3> QED BY <2>1, <3>1, <3>2
  <2>2. CASE pending # <<>> /\ LaunchPending(points) /\ UNCHANGED entered
    BY <1>1, <2>2
  <2> QED BY <1>6, <2>1, <2>2 DEF HandleResult, Idle
<1>7. ASSUME NEW r \in Prompts, RunAction(r) PROVE OrderInv'
  BY <1>0, <1>3, <1>7, RunActionFacts
<1> QED BY NextCases, <1>2, <1>4, <1>5, <1>6, <1>7

LEMMA NoChatInitially == Init => NoChatInv
<1> SUFFICES ASSUME Init PROVE NoChatInv
  OBVIOUS
<1>1. OneRunInv
  BY DEF Init, OneRunInv
<1>2. OrderInv
  BY DEF Init, OrderInv, StartedInOrder
<1> QED BY <1>1, <1>2, TypeOKInitially, QueueInitially, FlagsInitially DEF NoChatInv

LEMMA NoChatInductive ==
    ASSUME "chat" \notin Routes
    PROVE  NoChatInv /\ [Next]_vars => NoChatInv'
  BY TypeOKInductive, QueueInductive, FlagsInductive, OneRunInductive,
     OrderInductive DEF NoChatInv, FlagsInv

(* Without chat prompts one run is in progress at a time, and it is the    *)
(* one that Esc cancels (startAgentRunContext, AgentRunResultMsg).         *)
THEOREM OneRunCorrect ==
    ASSUME "chat" \notin Routes
    PROVE  Spec => []OneRun
<1>1. NoChatInv /\ [Next]_vars => NoChatInv'
  BY NoChatInductive
<1>2. NoChatInv => OneRun
  BY DEF NoChatInv, OneRunInv, OneRun, InRun
<1> QED BY <1>1, <1>2, NoChatInitially, PTL DEF Spec

(* Without chat prompts the queue is first in, first out: prompts are      *)
(* started in the order they were entered (pendingMessages).               *)
THEOREM StartedInOrderCorrect ==
    ASSUME "chat" \notin Routes
    PROVE  Spec => []StartedInOrder
<1>1. NoChatInv /\ [Next]_vars => NoChatInv'
  BY NoChatInductive
<1>2. NoChatInv => StartedInOrder
  BY DEF NoChatInv, OrderInv
<1> QED BY <1>1, <1>2, NoChatInitially, PTL DEF Spec

(* A prompt is started by Enter in an idle loop, by the result of the run  *)
(* in progress, or from the queue of an idle loop.                         *)
LEMMA StartsAlone ==
    ASSUME "chat" \notin Routes, NoChatInv, [Next]_vars,
           NEW p \in Prompts, pc[p] = "none", pc'[p] = "start", NEW q \in Prompts
    PROVE  ~InRun(q)
<1> USE DEF flags, ui, runs, channels, history
<1>0. /\ TypeOK /\ OneRunInv /\ pc \in [Prompts -> Points]
      /\ \A r \in Prompts : pc[r] \notin {"none", "handled"} => active /\ handle = r
      /\ loading = active
  BY DEF NoChatInv, OneRunInv, TypeOK
<1>1. CASE Submit
  <2>1. ~loading
    BY <1>1 DEF Submit
  <2> QED BY <1>0, <2>1 DEF InRun
<1>2. CASE RequestCancel \/ (\E v \in Verdicts : Decide(v)) \/ ShowPlan \/ ShowReply
           \/ Tick \/ UNCHANGED vars
  <2>1. UNCHANGED pc
    BY <1>2 DEF RequestCancel, Decide, ShowPlan, ShowReply, Tick, vars
  <2> QED BY <2>1
<1>3. CASE CommandResult
  <2>1. ~active
    BY <1>3 DEF CommandResult
  <2> QED BY <1>0, <2>1 DEF InRun
<1>4. ASSUME NEW r \in Prompts, HandleResult(r) PROVE ~InRun(q)
  <2>1. pc[r] = "result" /\ handle = r
    BY <1>0, <1>4 DEF HandleResult
  <2> QED BY <1>0, <2>1 DEF InRun
<1>5. ASSUME NEW r \in Prompts, RunAction(r) PROVE FALSE
  <2>1. /\ pc[r] # "none"
        /\ \A s \in Prompts : s # r => pc'[s] = pc[s]
    BY <1>0, <1>5, RunActionFacts
  <2> QED BY <2>1
<1> QED BY NextCases, <1>1, <1>2, <1>3, <1>4, <1>5

(* Without chat prompts "queue the message if the agent is still           *)
(* processing" (app.go) is true: no prompt is started while a run is in    *)
(* progress.  With them it is not, which a run of TLC shows.               *)
THEOREM QueuedWhileProcessingCorrect ==
    ASSUME "chat" \notin Routes
    PROVE  Spec => QueuedWhileProcessing
<1>1. NoChatInv /\ [Next]_vars => NoChatInv'
  BY NoChatInductive
<1>2. NoChatInv /\ [Next]_vars =>
          [\A p \in Prompts : pc[p] = "none" /\ pc'[p] = "start" =>
              \A r \in Prompts : ~InRun(r)]_vars
  BY StartsAlone
<1> QED BY <1>1, <1>2, NoChatInitially, PTL DEF Spec, QueuedWhileProcessing

-----------------------------------------------------------------------------
(* Without chat prompts, and when every plan may be shown, the question of *)
(* a waiting run is the newest in each of the places it passes through:    *)
(* nothing behind it can cover it, and nothing before it outlives it.      *)

Question(r) == [id |-> planId[r], run |-> r]

Asked(r) ==
    \/ updates # <<>> /\ updates[Len(updates)] = Question(r)
    \/ updates = <<>> /\ modal = Question(r)
    \/ updates = <<>> /\ modal = NoPlan
       /\ decisions # <<>> /\ decisions[Len(decisions)].id = planId[r]

WaitInv == \A r \in Prompts : pc[r] = "wait" /\ ~ctxDone[r] => Asked(r)

(* Only AskUser begins a wait, and a context that is done stays done.      *)
LEMMA WaitBegins ==
    ASSUME NoChatInv, [Next]_vars, NEW r \in Prompts,
           pc'[r] = "wait", ~ctxDone'[r], ~AskUser(r)
    PROVE  pc[r] = "wait" /\ ~ctxDone[r]
<1> USE DEF flags, ui, runs, channels, history
<1>0. /\ TypeOK /\ QueueInv /\ pc \in [Prompts -> Points]
      /\ ctxDone \in [Prompts -> BOOLEAN]
  BY DEF NoChatInv, TypeOK
<1>1. ASSUME NEW p \in Prompts, NEW q, NEW points \in [Prompts -> Points],
             Launch(p, q, points), points[r] = pc[r] \/ points[r] = "handled"
      PROVE  pc[r] = "wait" /\ ~ctxDone[r]
  <2>1. ctxDone'[r] = (ctxDone[r] \/ r = q)
    BY <1>1 DEF Launch
  <2>2. ~ctxDone[r]
    BY <2>1
  <2> QED BY <1>1, <2>2, LaunchFacts
<1>2. CASE Submit
  <2>1. entered + 1 \in Prompts
    BY <1>0, <1>2 DEF Submit, TypeOK, Prompts
  <2> QED BY <1>0, <1>1, <1>2, <2>1 DEF Submit
<1>3. CASE RequestCancel
  BY <1>0, <1>3 DEF RequestCancel
<1>4. CASE \/ (\E v \in Verdicts : Decide(v)) \/ ShowPlan \/ ShowReply \/ Tick
           \/ UNCHANGED vars
  BY <1>4 DEF Decide, ShowPlan, ShowReply, Tick, vars
<1>5. CASE CommandResult
  <2>1. CASE UNCHANGED <<pc, ctxDone>>
    BY <2>1
  <2>2. CASE pending # <<>> /\ LaunchPending(pc)
    <3>1. Head(pending) \in Prompts
      BY <1>0, <2>2, HeadOfQueue
    <3> QED BY <1>0, <1>1, <2>2, <3>1 DEF LaunchPending
  <2> QED BY <1>5, <2>1, <2>2 DEF CommandResult
<1>6. ASSUME NEW q \in Prompts, HandleResult(q) PROVE pc[r] = "wait" /\ ~ctxDone[r]
  <2> DEFINE points == [pc EXCEPT ![q] = "handled"]
  <2>1. /\ points \in [Prompts -> Points]
        /\ points[r] = pc[r] \/ points[r] = "handled"
    BY <1>0 DEF Points
  <2>2. CASE Idle(points)
    BY <2>1, <2>2 DEF Idle
  <2>3. CASE pending # <<>> /\ LaunchPending(points)
    <3>1. Head(pending) \in Prompts
      BY <1>0, <2>3, HeadOfQueue
    <3> QED BY <1>1, <2>1, <2>3, <3>1 DEF LaunchPending
  <2> QED BY <1>6, <2>2, <2>3 DEF HandleResult
<1>7. ASSUME NEW q \in Prompts, RunAction(q) PROVE pc[r] = "wait" /\ ~ctxDone[r]
  <2>1. UNCHANGED ctxDone /\ (r # q => pc'[r] = pc[r])
    BY <1>0, <1>7, RunActionFacts
  <2>2. CASE r # q
    BY <2>1, <2>2
  <2>3. CASE r = q
    <3>1. CASE RunStarts(r)
      <4>1. PICK way \in Routes :
                Goto(r, CASE way = "chat" -> "answer"
                          [] way = "plan" -> "plan"
                          [] way = "fast" -> "ready")
        BY <3>1 DEF RunStarts
      <4>2. way \in {"chat", "plan", "fast"}
        BY <4>1
      <4> QED BY <1>0, <4>1, <4>2 DEF Goto
    <3>2. CASE RunFails(r) \/ RunCancelled(r) \/ RunSucceeds(r)
      BY <1>0, <3>2 DEF RunFails, RunCancelled, RunSucceeds, Return
    <3>3. CASE Reply(r) \/ PlanBuilt(r) \/ PlanPersisted(r) \/ Execute(r)
      BY <1>0, <3>3 DEF Reply, PlanBuilt, PlanPersisted, Execute, Goto
    <3>4. CASE TakeDecision(r)
      BY <2>1, <3>4 DEF TakeDecision
    <3> QED BY <1>7, <2>3, <3>1, <3>2, <3>3, <3>4 DEF RunAction
  <2> QED BY <2>2, <2>3
<1> QED BY NextCases, <1>2, <1>3, <1>4, <1>5, <1>6, <1>7

(* The key that decides on the question of r puts the decision behind all  *)
(* others; on another plan, it leaves the question where it is.            *)
LEMMA DecideKeepsAsked ==
    ASSUME TypeOK, NEW r \in Prompts, Asked(r), NEW v \in Verdicts, Decide(v)
    PROVE  Asked(r)'
<1> DEFINE d == [id |-> modal.id, run |-> modal.run, verdict |-> v]
<1>1. UNCHANGED <<updates, planId>> /\ modal' = NoPlan /\ modal # NoPlan
  BY DEF Decide, runs
<1>2. CASE updates # <<>>
  BY <1>1, <1>2 DEF Asked, Question
<1>3. CASE updates = <<>>
  <2>1. modal = Question(r)
    BY <1>1, <1>3 DEF Asked
  <2>2. d.id = planId[r]
    BY <2>1 DEF Question
  <2>3. d \in Decision /\ decisions \in Seq(Decision)
    BY DEF TypeOK, Plan, Decision
  <2>4. decisions' # <<>> /\ decisions'[Len(decisions')] = d
    <3>1. CASE Len(decisions) < ApprovalCapacity
      BY <2>3, <3>1 DEF Decide, SubmitPlanApproval
    <3>2. CASE ~(Len(decisions) < ApprovalCapacity)
      <4>1. decisions' = Append(Tail(decisions), d) /\ decisions # <<>>
        BY <2>3, <3>2 DEF Decide, SubmitPlanApproval
      <4>2. Tail(decisions) \in Seq(Decision)
        BY <2>3, <4>1, SeqFacts
      <4> QED BY <2>3, <4>1, <4>2
    <3> QED BY <3>1, <3>2
  <2> QED BY <1>1, <1>3, <2>2, <2>4 DEF Asked
<1> QED BY <1>2, <1>3

(* The last update to be shown is the question of r.                       *)
LEMMA ShowKeepsAsked ==
    ASSUME TypeOK, NEW r \in Prompts, Asked(r), ShowPlan
    PROVE  Asked(r)'
<1>1. /\ UNCHANGED <<decisions, planId>> /\ updates # <<>>
      /\ modal' = Head(updates) /\ updates' = Tail(updates)
  BY DEF ShowPlan, runs
<1>2. updates \in Seq(Plan) /\ updates[Len(updates)] = Question(r)
  BY <1>1 DEF TypeOK, Asked
<1>3. /\ Tail(updates) \in Seq(Plan) /\ Len(updates) \in Nat /\ Len(updates) > 0
      /\ Len(Tail(updates)) = Len(updates) - 1
      /\ \A i \in 1 .. Len(updates) - 1 : Tail(updates)[i] = updates[i + 1]
      /\ Head(updates) = updates[1]
  BY <1>1, <1>2, SeqFacts
<1>4. CASE Len(updates) = 1
  <2>1. updates' = <<>>
    BY <1>1, <1>3, <1>4
  <2> QED BY <1>1, <1>2, <1>3, <1>4, <2>1 DEF Asked, Question
<1>5. CASE Len(updates) > 1
  <2>0. Len(updates') = Len(updates) - 1 /\ Len(updates') \in 1 .. Len(updates) - 1
    BY <1>1, <1>3, <1>5
  <2>1. updates' # <<>>
    BY <2>0
  <2>2. updates'[Len(updates')] = updates[Len(updates)]
    <3>1. Tail(updates)[Len(updates) - 1] = updates[Len(updates) - 1 + 1]
      BY <1>3, <1>5
    <3> QED BY <1>1, <1>3, <2>0, <3>1
  <2> QED BY <1>1, <1>2, <2>1, <2>2 DEF Asked, Question
<1> QED BY <1>3, <1>4, <1>5

(* A decision for another plan may be dropped, but not the last one.       *)
LEMMA TakeKeepsAsked ==
    ASSUME TypeOK, NEW r \in Prompts, Asked(r), TakeDecision(r), pc'[r] = "wait"
    PROVE  Asked(r)'
<1>1. /\ UNCHANGED <<updates, modal, planId>> /\ decisions # <<>>
      /\ decisions' = Tail(decisions)
  BY DEF TakeDecision, ui
<1>2. Head(decisions).id # planId[r]
  BY DEF TakeDecision, Goto, Return, TypeOK
<1>3. CASE updates # <<>> \/ modal # NoPlan
  BY <1>1, <1>3 DEF Asked, Question
<1>4. CASE updates = <<>> /\ modal = NoPlan
  <2>1. modal # Question(r)
    BY <1>4 DEF Question, NoPlan, Prompts
  <2>2. decisions[Len(decisions)].id = planId[r] /\ decisions \in Seq(Decision)
    BY <1>4, <2>1 DEF Asked, TypeOK
  <2>3. /\ Tail(decisions) \in Seq(Decision) /\ Len(decisions) \in Nat
        /\ Len(Tail(decisions)) = Len(decisions) - 1
        /\ \A i \in 1 .. Len(decisions) - 1 : Tail(decisions)[i] = decisions[i + 1]
        /\ Head(decisions) = decisions[1] /\ Len(decisions) > 0
    BY <1>1, <2>2, SeqFacts
  <2>4. Len(decisions) > 1
    BY <1>2, <2>2, <2>3
  <2>5. decisions' # <<>> /\ decisions'[Len(decisions')] = decisions[Len(decisions)]
    <3>1. Len(decisions') = Len(decisions) - 1 /\ Len(decisions') > 0
      BY <1>1, <2>3, <2>4
    <3>2. Tail(decisions)[Len(decisions) - 1] = decisions[Len(decisions) - 1 + 1]
      BY <2>3, <2>4
    <3>3. decisions' # <<>>
      BY <3>1
    <3> QED BY <1>1, <2>3, <3>1, <3>2, <3>3
  <2> QED BY <1>1, <1>4, <2>2, <2>5 DEF Asked
<1> QED BY <1>3, <1>4

LEMMA WaitInductive ==
    ASSUME "chat" \notin Routes, ~InternalPlans, NoChatInv, WaitInv, [Next]_vars
    PROVE  WaitInv'
<1> SUFFICES ASSUME NEW r \in Prompts, pc'[r] = "wait", ~ctxDone'[r]
             PROVE  Asked(r)'
  BY DEF WaitInv
<1> USE DEF flags, ui, runs, channels, history
<1>0. TypeOK /\ OneRunInv
  BY DEF NoChatInv
<1>1. CASE AskUser(r)
  <2>1. /\ updates' = Append(updates, Question(r)) /\ UNCHANGED planId
        /\ updates \in Seq(Plan)
    BY <1>0, <1>1 DEF AskUser, Question, TypeOK
  <2>2. Question(r) \in Plan
    BY <1>0 DEF Question, Plan, Prompts, TypeOK
  <2> QED BY <2>1, <2>2 DEF Asked, Question
<1>2. CASE ~AskUser(r)
  <2>1. pc[r] = "wait" /\ ~ctxDone[r]
    BY <1>2, WaitBegins
  <2>2. Asked(r) /\ handle = r
    BY <1>0, <2>1 DEF WaitInv, OneRunInv
  <2>3. ASSUME UNCHANGED <<updates, modal, decisions, planId>> PROVE Asked(r)'
    BY <2>2, <2>3 DEF Asked, Question
  <2>4. CASE \/ Submit \/ RequestCancel \/ ShowReply \/ CommandResult \/ Tick
             \/ (\E q \in Prompts : HandleResult(q)) \/ UNCHANGED vars
    BY <2>3, <2>4 DEF Submit, RequestCancel, ShowReply, CommandResult, Tick,
       HandleResult, vars
  <2>5. CASE \E v \in Verdicts : Decide(v)
    BY <1>0, <2>2, <2>5, DecideKeepsAsked
  <2>6. CASE ShowPlan
    BY <1>0, <2>2, <2>6, ShowKeepsAsked
  <2>7. ASSUME NEW q \in Prompts, RunAction(q) PROVE Asked(r)'
    <3>1. q = r
      <4>1. pc[q] \notin {"none", "handled"}
        BY <1>0, <2>7, RunActionFacts
      <4> QED BY <1>0, <2>2, <4>1 DEF OneRunInv
    <3>2. CASE TakeDecision(r)
      BY <1>0, <2>2, <3>2, TakeKeepsAsked
    <3>3. CASE ~TakeDecision(r)
      <4>1. RunCancelled(r)
        BY <1>2, <2>1, <2>7, <3>1, <3>3 DEF RunAction, RunStarts, RunFails, Reply,
           PlanBuilt, PlanPersisted, Execute, RunSucceeds
      <4> QED BY <2>1, <4>1 DEF RunCancelled
    <3> QED BY <3>2, <3>3
  <2> QED BY NextCases, <2>4, <2>5, <2>6, <2>7
<1> QED BY <1>1, <1>2

(* Without chat prompts, and when no plan is suppressed, a run that waits  *)
(* for a decision has a question on its way to the user, on the screen, or *)
(* an answer on its way back (waitForPlanApproval).                        *)
THEOREM QuestionNotLostCorrect ==
    ASSUME "chat" \notin Routes, ~InternalPlans
    PROVE  Spec => []QuestionNotLost
<1>1. NoChatInv /\ [Next]_vars => NoChatInv'
  BY NoChatInductive
<1>2. Init => WaitInv
  BY DEF Init, WaitInv
<1>3. NoChatInv /\ WaitInv /\ [Next]_vars => WaitInv'
  BY WaitInductive
<1>4. NoChatInv /\ WaitInv => QuestionNotLost
  <2> SUFFICES ASSUME NoChatInv, NEW r \in Prompts, Asked(r)
               PROVE  \/ \E i \in DOMAIN updates : updates[i].run = r
                      \/ modal.run = r
                      \/ \E i \in DOMAIN decisions : decisions[i].id = planId[r]
    BY DEF WaitInv, QuestionNotLost
  <2>1. updates \in Seq(Plan) /\ decisions \in Seq(Decision)
    BY DEF NoChatInv, TypeOK
  <2>2. CASE updates # <<>>
    <3>1. Len(updates) \in DOMAIN updates
      BY <2>1, <2>2
    <3> QED BY <2>2, <3>1 DEF Asked, Question
  <2>3. CASE modal = Question(r)
    BY <2>3 DEF Question
  <2>4. CASE decisions # <<>> /\ decisions[Len(decisions)].id = planId[r]
    <3>1. Len(decisions) \in DOMAIN decisions
      BY <2>1, <2>4
    <3> QED BY <2>4, <3>1
  <2> QED BY <2>2, <2>3, <2>4 DEF Asked
<1> QED BY <1>1, <1>2, <1>3, <1>4, NoChatInitially, PTL DEF Spec
=============================================================================
