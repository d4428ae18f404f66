------------------------------ MODULE RunControl ------------------------------
(***************************************************************************)
(* The life of a prompt: the Bubble Tea loop (AppModel.Update), which      *)
(* starts, queues and cancels runs and asks the user to review plans, and  *)
(* the goroutines of Orchestrator.Run, one for each prompt that was        *)
(* started.  The two sides share the contexts and talk through EventChan,  *)
(* UpdateChan and PlanApprovalChan; the AgentRunResultMsg of a run reaches *)
(* the loop on a path of its own, so it may overtake the run's events.     *)
(*                                                                         *)
(* Prompts are numbered in the order the user enters them, and the run of  *)
(* a prompt has its number.  executePlan is one step here; PlanExecution   *)
(* models it.  Updates and events that change nothing but the chat are     *)
(* left out, and so are the capacities of UpdateChan and EventChan: the    *)
(* loop never waits for a run, so it always drains them.                   *)
(***************************************************************************)
EXTENDS Integers, Sequences, FiniteSets

CONSTANTS
    MaxPrompts,         \* bound: prompts the user enters
    MaxClock,           \* bound: seconds that pass
    Routes,             \* what Run makes of a prompt: chat, plan or fast
    InternalPlans,      \* may the text of a plan mention .orchestra/?
    ApprovalCapacity    \* of PlanApprovalChan; 4 in the code

ASSUME BoundsAssumption ==
    MaxPrompts \in Nat /\ MaxClock \in Nat \ {0} /\ ApprovalCapacity \in Nat \ {0}
ASSUME RoutesAssumption == Routes \subseteq {"chat", "plan", "fast"}
ASSUME InternalAssumption == InternalPlans \in BOOLEAN

VARIABLES
    loading, active, handle, cancelRequested, pending, modal,   \* AppModel
    events, updates, decisions,                                 \* the channels
    pc, route, ctxDone, planId, outcome,                        \* Orchestrator.Run
    clock, entered,
    started, endorsed                                           \* history

flags    == <<loading, active, handle, cancelRequested, pending>>
ui       == <<flags, modal>>
channels == <<events, updates, decisions>>
runs     == <<pc, route, ctxDone, planId, outcome>>
history  == <<started, endorsed>>
vars     == <<ui, channels, runs, clock, entered, history>>

Prompts  == 1 .. MaxPrompts
NoPlan   == [id |-> 0, run |-> 0]
Plan     == [id : 0 .. MaxClock, run : 0 .. MaxPrompts]
Verdicts == {"approve", "edit", "reject"}
Decision == [id : 0 .. MaxClock, run : 0 .. MaxPrompts, verdict : Verdicts]
Points   == {"none", "start", "answer", "replied", "plan", "persist", "ask",
             "wait", "rewrite", "ready", "execute", "result", "handled"}

(* A run whose goroutine is in Orchestrator.Run.                           *)
InRun(r) == pc[r] \notin {"none", "result", "handled"}

-----------------------------------------------------------------------------
Init ==
    /\ loading = FALSE /\ active = FALSE /\ handle = 0
    /\ cancelRequested = FALSE /\ pending = <<>> /\ modal = NoPlan
    /\ events = <<>> /\ updates = <<>> /\ decisions = <<>>
    /\ pc = [r \in Prompts |-> "none"]
    /\ route = [r \in Prompts |-> "none"]
    /\ ctxDone = [r \in Prompts |-> FALSE]
    /\ planId = [r \in Prompts |-> 0]
    /\ outcome = [r \in Prompts |-> "none"]
    /\ clock = 1 /\ entered = 0
    /\ started = <<>> /\ endorsed = {}

Tick ==
    /\ clock < MaxClock
    /\ clock' = clock + 1
    /\ UNCHANGED <<ui, channels, runs, entered, history>>

-----------------------------------------------------------------------------
(* AppModel.Update, one action for each message.                           *)

(* startAgentRunContext, SetLoading(true) and runAgentCmd.                 *)
Launch(p, replaced, points) ==
    /\ loading' = TRUE /\ active' = TRUE /\ handle' = p /\ cancelRequested' = FALSE
    /\ ctxDone' = [r \in Prompts |-> ctxDone[r] \/ r = replaced]
    /\ pc' = [points EXCEPT ![p] = "start"]
    /\ started' = Append(started, p)

(* The next queued prompt, after clearAgentRunState.                       *)
LaunchPending(points) ==
    /\ Launch(Head(pending), 0, points)
    /\ pending' = Tail(pending)

(* Enter: a prompt is queued while the chat is loading, else started.  The *)
(* plan modal takes the keys while it is visible.                          *)
Submit ==
    /\ modal = NoPlan /\ entered < MaxPrompts
    /\ entered' = entered + 1
    /\ \/ /\ loading
          /\ pending' = Append(pending, entered + 1)
          /\ UNCHANGED <<loading, active, handle, cancelRequested, pc, ctxDone,
                         started>>
       \/ /\ ~loading
          /\ Launch(entered + 1, handle, pc)
          /\ UNCHANGED pending
    /\ UNCHANGED <<modal, channels, route, planId, outcome, clock, endorsed>>

(* Esc or Ctrl+C with an empty input line.                                 *)
RequestCancel ==
    /\ active /\ handle # 0 /\ ~cancelRequested
    /\ cancelRequested' = TRUE
    /\ ctxDone' = [ctxDone EXCEPT ![handle] = TRUE]
    /\ UNCHANGED <<loading, active, handle, pending, modal, channels, pc, route,
                   planId, outcome, clock, entered, history>>

(* Faulty variant: the channel grows.                                      *)
SubmitGrowing(d) == decisions' = Append(decisions, d)

(* SubmitPlanApproval never blocks: a full channel loses its oldest entry. *)
SubmitPlanApproval(d) ==
    decisions' = IF Len(decisions) < ApprovalCapacity
                 THEN Append(decisions, d) ELSE Append(Tail(decisions), d)

(* A key of the plan modal: the decision is for the plan it shows.         *)
Decide(v) ==
    /\ modal # NoPlan
    /\ SubmitPlanApproval([id |-> modal.id, run |-> modal.run, verdict |-> v])
    /\ modal' = NoPlan
    /\ endorsed' = IF v = "reject" THEN endorsed ELSE endorsed \cup {modal.run}
    /\ UNCHANGED <<flags, events, updates, runs, clock, entered, started>>

(* Faulty variant: a second plan does not replace the one that is shown.   *)
KeepFirstPlan ==
    /\ updates # <<>>
    /\ modal' = IF modal = NoPlan THEN Head(updates) ELSE modal
    /\ updates' = Tail(updates)
    /\ UNCHANGED <<flags, events, decisions, runs, clock, entered, history>>

(* A plan_ready update opens the modal, over another plan if need be.      *)
ShowPlan ==
    /\ updates # <<>>
    /\ modal' = Head(updates)
    /\ updates' = Tail(updates)
    /\ UNCHANGED <<flags, events, decisions, runs, clock, entered, history>>

(* handleAgentEvent for an EventDone that carries a chat reply.            *)
ShowReply ==
    /\ events # <<>>
    /\ events' = Tail(events)
    /\ loading' = FALSE
    /\ UNCHANGED <<active, handle, cancelRequested, pending, modal, updates,
                   decisions, runs, clock, entered, history>>

Idle(points) ==
    /\ loading' = FALSE /\ active' = FALSE /\ handle' = 0
    /\ cancelRequested' = FALSE
    /\ pc' = points
    /\ UNCHANGED <<ctxDone, started>>

(* Faulty variant: the queue is not looked at when a run ends.             *)
ForgetPending(r) ==
    /\ pc[r] = "result"
    /\ Idle([pc EXCEPT ![r] = "handled"])
    /\ pending' = IF outcome[r] = "cancelled" THEN <<>> ELSE pending
    /\ UNCHANGED <<modal, channels, route, planId, outcome, clock, entered,
                   endorsed>>

(* AgentRunResultMsg: the state of "the" run is cleared, whichever run the *)
(* message is from.  A cancelled run empties the queue; any other starts   *)
(* the next queued prompt.                                                 *)
HandleResult(r) ==
    /\ pc[r] = "result"
    /\ LET points == [pc EXCEPT ![r] = "handled"] IN
       \/ outcome[r] = "cancelled" /\ Idle(points) /\ pending' = <<>>
       \/ outcome[r] # "cancelled" /\ pending = <<>> /\ Idle(points) /\ UNCHANGED pending
       \/ outcome[r] # "cancelled" /\ pending # <<>> /\ LaunchPending(points)
    /\ UNCHANGED <<modal, channels, route, planId, outcome, clock, entered,
                   endorsed>>

(* Faulty variant: the loading line is cleared also during a run.          *)
CommandResultClears ==
    /\ loading' = FALSE
    /\ UNCHANGED <<active, handle, cancelRequested, pending, modal, channels, runs,
                   clock, entered, history>>

(* CommandResultMsg: what a slash command, a mode toggle or a decision     *)
(* leaves behind.                                                          *)
CommandResult ==
    /\ IF active \/ pending = <<>>
       THEN /\ loading' = (loading /\ active)
            /\ UNCHANGED <<active, handle, cancelRequested, pending, pc, ctxDone,
                           started>>
       ELSE LaunchPending(pc)
    /\ UNCHANGED <<modal, channels, route, planId, outcome, clock, entered,
                   endorsed>>

-----------------------------------------------------------------------------
(* Orchestrator.Run.                                                       *)

Goto(r, point) == pc' = [pc EXCEPT ![r] = point] /\ UNCHANGED outcome

Return(r, o) ==
    /\ pc' = [pc EXCEPT ![r] = "result"]
    /\ outcome' = [outcome EXCEPT ![r] = o]

(* Strategy, mode and kind of the prompt.                                  *)
RunStarts(r) ==
    /\ pc[r] = "start" /\ ~ctxDone[r]
    /\ \E way \in Routes :
          /\ route' = [route EXCEPT ![r] = way]
          /\ Goto(r, CASE way = "chat" -> "answer"
                       [] way = "plan" -> "plan"
                       [] way = "fast" -> "ready")
    /\ UNCHANGED <<ui, channels, ctxDone, planId, clock, entered, history>>

(* No planner, a failed model call or file write, or the error of          *)
(* executePlan.                                                            *)
RunFails(r) ==
    /\ pc[r] \in {"start", "answer", "plan", "persist", "rewrite", "execute"}
    /\ Return(r, "failed")
    /\ UNCHANGED <<ui, channels, route, ctxDone, planId, clock, entered, history>>

(* Faulty variant: the wait for the decision ignores the context.          *)
RunCancelledButWaiting(r) ==
    /\ ctxDone[r]
    /\ pc[r] \in {"start", "answer", "plan", "persist", "rewrite", "ready", "execute"}
    /\ Return(r, "cancelled")
    /\ UNCHANGED <<ui, channels, route, ctxDone, planId, clock, entered, history>>

(* A check of the context, or a call that returns its error.               *)
RunCancelled(r) ==
    /\ ctxDone[r]
    /\ pc[r] \in {"start", "answer", "plan", "persist", "wait", "rewrite",
                  "ready", "execute"}
    /\ Return(r, "cancelled")
    /\ UNCHANGED <<ui, channels, route, ctxDone, planId, clock, entered, history>>

(* runConversational: the reply is an event, the end of the run is not.    *)
Reply(r) ==
    /\ pc[r] = "answer"
    /\ events' = Append(events, r)
    /\ Goto(r, "replied")
    /\ UNCHANGED <<ui, updates, decisions, route, ctxDone, planId, clock, entered,
                   history>>

(* buildPlan returned a plan; newPlanID is the second of the wall clock.   *)
PlanBuilt(r) ==
    /\ pc[r] = "plan"
    /\ planId' = [planId EXCEPT ![r] = clock]
    /\ Goto(r, "persist")
    /\ UNCHANGED <<ui, channels, route, ctxDone, clock, entered, history>>

PlanPersisted(r) ==
    /\ pc[r] \in {"persist", "rewrite"} /\ ~ctxDone[r]
    /\ Goto(r, IF pc[r] = "persist" THEN "ask" ELSE "ready")
    /\ UNCHANGED <<ui, channels, route, ctxDone, planId, clock, entered, history>>

(* The plan_ready update is suppressed when the plan mentions .orchestra/. *)
AskUser(r) ==
    /\ pc[r] = "ask"
    /\ \/ updates' = Append(updates, [id |-> planId[r], run |-> r])
       \/ InternalPlans /\ UNCHANGED updates
    /\ Goto(r, "wait")
    /\ UNCHANGED <<ui, events, decisions, route, ctxDone, planId, clock, entered,
                   history>>

(* Faulty variant: the id of the plan is not compared.                     *)
TakeAnyDecision(r) ==
    /\ pc[r] = "wait" /\ decisions # <<>>
    /\ decisions' = Tail(decisions)
    /\ LET d == Head(decisions) IN
       \/ d.verdict = "reject" /\ Return(r, "failed")
       \/ d.verdict \in {"approve", "edit"} /\ Goto(r, "ready")
    /\ UNCHANGED <<ui, events, updates, route, ctxDone, planId, clock, entered,
                   history>>

(* Faulty variant: decisions are compared with a plan id drawn anew.       *)
TakeDecisionOfNow(r) ==
    /\ pc[r] = "wait" /\ decisions # <<>>
    /\ decisions' = Tail(decisions)
    /\ \/ Head(decisions).id # clock /\ UNCHANGED <<pc, outcome>>
       \/ Head(decisions).id = clock /\ Goto(r, "ready")
    /\ UNCHANGED <<ui, events, updates, route, ctxDone, planId, clock, entered,
                   history>>

(* waitForPlanApproval takes a decision: one for another plan is dropped,  *)
(* and the text of an edited plan may be unchanged, valid or invalid.      *)
TakeDecision(r) ==
    /\ pc[r] = "wait" /\ decisions # <<>>
    /\ decisions' = Tail(decisions)
    /\ LET d == Head(decisions) IN
       \/ d.id # planId[r] /\ UNCHANGED <<pc, outcome>>
       \/ d.id = planId[r] /\ d.verdict \in {"reject", "edit"} /\ Return(r, "failed")
       \/ d.id = planId[r] /\ d.verdict \in {"approve", "edit"} /\ Goto(r, "ready")
       \/ d.id = planId[r] /\ d.verdict = "edit" /\ Goto(r, "rewrite")
    /\ UNCHANGED <<ui, events, updates, route, ctxDone, planId, clock, entered,
                   history>>

Execute(r) ==
    /\ pc[r] = "ready" /\ ~ctxDone[r]
    /\ Goto(r, "execute")
    /\ UNCHANGED <<ui, channels, route, ctxDone, planId, clock, entered, history>>

RunSucceeds(r) ==
    /\ pc[r] \in {"replied", "execute"}
    /\ Return(r, "ok")
    /\ UNCHANGED <<ui, channels, route, ctxDone, planId, clock, entered, history>>

-----------------------------------------------------------------------------
User == Submit \/ RequestCancel \/ (\E v \in Verdicts : Decide(v))

Loop == ShowPlan \/ ShowReply \/ \E r \in Prompts : HandleResult(r)

(* Steps that wait for nobody, and steps that wait for a model.            *)
RunStep(r) == RunStarts(r) \/ PlanPersisted(r) \/ AskUser(r) \/ TakeDecision(r)
              \/ Execute(r) \/ RunCancelled(r) \/ (pc[r] = "replied" /\ RunSucceeds(r))

ModelStep(r) == Reply(r) \/ PlanBuilt(r) \/ RunFails(r)
                \/ (pc[r] = "execute" /\ RunSucceeds(r))

Next == User \/ Loop \/ CommandResult \/ Tick
        \/ \E r \in Prompts : RunStep(r) \/ ModelStep(r)

Spec == Init /\ [][Next]_vars

(* The Go scheduler runs every goroutine that can take a step, and the     *)
(* loop handles every message.  Models need not answer, nor users decide.  *)
Fairness == /\ WF_vars(ShowPlan) /\ WF_vars(ShowReply)
            /\ \A r \in Prompts : WF_vars(HandleResult(r)) /\ WF_vars(RunStep(r))

FairSpec == Spec /\ Fairness

-----------------------------------------------------------------------------
(* Properties.                                                             *)

TypeOK ==
    /\ loading \in BOOLEAN /\ active \in BOOLEAN /\ cancelRequested \in BOOLEAN
    /\ handle \in 0 .. MaxPrompts
    /\ pending \in Seq(Prompts)
    /\ modal \in Plan
    /\ events \in Seq(Prompts) /\ updates \in Seq(Plan)
    /\ decisions \in Seq(Decision) /\ Len(decisions) <= ApprovalCapacity
    /\ pc \in [Prompts -> Points]
    /\ route \in [Prompts -> Routes \cup {"none"}]
    /\ ctxDone \in [Prompts -> BOOLEAN]
    /\ planId \in [Prompts -> 0 .. MaxClock]
    /\ outcome \in [Prompts -> {"none", "ok", "failed", "cancelled"}]
    /\ clock \in 1 .. MaxClock /\ entered \in 0 .. MaxPrompts
    /\ started \in Seq(Prompts) /\ endorsed \in SUBSET (0 .. MaxPrompts)

(* The flags of the loop follow a run that is still to report: an idle     *)
(* loop has no queue, no cancellation and no loading line, so nothing can  *)
(* wait in the queue that no message will ever start (AppModel.Update).    *)
FlagsFollowRun ==
    /\ active => handle # 0 /\ pc[handle] \notin {"none", "handled"}
    /\ ~active => ~loading /\ handle = 0 /\ ~cancelRequested /\ pending = <<>>

UniquePlanIds ==
    \A r, q \in Prompts : planId[r] = planId[q] /\ planId[r] # 0 => r = q

(* A plan is executed only after the user approved that very plan in the   *)
(* modal, whatever stale decisions and modals other runs left behind, as   *)
(* long as no two runs drew their plan id in one second (waitForPlanApproval). *)
PlanGate ==
    UniquePlanIds =>
        \A r \in Prompts :
            pc[r] = "execute" /\ route[r] = "plan" => r \in endorsed

(* A cancelled run never goes on to execute its plan, even if an approval  *)
(* was in the channel when the context ended (waitForPlanApproval chooses  *)
(* either; executePlan checks again).                                      *)
CancelledStaysOut ==
    [][\A r \in Prompts : ctxDone[r] /\ pc'[r] = "execute" => pc[r] = "execute"]_vars

(* Without chat replies one run is in progress at a time, and it is the    *)
(* one that Esc cancels (startAgentRunContext, AgentRunResultMsg).         *)
OneRun ==
    \A r \in Prompts : InRun(r) => handle = r /\ active

(* Without chat replies prompts are started in the order they were entered *)
(* (pendingMessages).                                                      *)
StartedInOrder ==
    \A i, j \in DOMAIN started : i < j => started[i] < started[j]

(* Every prompt is started once at most, and what runs was started, also   *)
(* when runs overlap and their results come in any order (pendingMessages, *)
(* runAgentCmd).                                                           *)
StartedOnce ==
    /\ \A i, j \in DOMAIN started : started[i] = started[j] => i = j
    /\ \A p \in Prompts : pc[p] # "none" <=> \E i \in DOMAIN started : started[i] = p

(* A prompt that was entered is started or waits in the queue, and leaves  *)
(* the queue to be started or when a cancelled run reports, never because  *)
(* of a reply, a failure or a command (Update, AgentRunResultMsg).         *)
Waits(p) == \E i \in DOMAIN pending : pending[i] = p
CancelledReports == \E r \in Prompts :
    pc[r] = "result" /\ outcome[r] = "cancelled" /\ pc'[r] = "handled"

PromptsKept ==
    [][\A p \in Prompts :
           Waits(p) \/ (p > entered /\ p <= entered') =>
               Waits(p)' \/ pc'[p] = "start" \/ CancelledReports]_vars

(* No run takes up a stage again: it draws one plan, asks once and is      *)
(* executed once, whatever decisions are in the channel (Run).             *)
Stage(point) ==
    CASE point = "none"    -> 0  [] point = "start"   -> 1
      [] point = "answer"  -> 2  [] point = "replied" -> 3
      [] point = "plan"    -> 2  [] point = "persist" -> 3
      [] point = "ask"     -> 4  [] point = "wait"    -> 5
      [] point = "rewrite" -> 6  [] point = "ready"   -> 7
      [] point = "execute" -> 8  [] point = "result"  -> 9
      [] point = "handled" -> 10

RunsAdvance ==
    [][\A r \in Prompts : pc'[r] # pc[r] => Stage(pc[r]) < Stage(pc'[r])]_vars

(* A run that waits for a decision has a question on its way to the user,  *)
(* on the screen, or an answer on its way back (waitForPlanApproval).      *)
QuestionNotLost ==
    \A r \in Prompts : pc[r] = "wait" /\ ~ctxDone[r] =>
        \/ \E i \in DOMAIN updates : updates[i].run = r
        \/ modal.run = r
        \/ \E i \in DOMAIN decisions : decisions[i].id = planId[r]

(* "Queue the message if the agent is still processing." (app.go): no      *)
(* prompt is started while a run is in progress.                           *)
QueuedWhileProcessing ==
    [][\A p \in Prompts : pc[p] = "none" /\ pc'[p] = "start" =>
           \A r \in Prompts : ~InRun(r)]_vars

(* Every run whose context is cancelled comes to an end and reports it,    *)
(* whatever the other runs do (startAgentRunContext, RequestCancel).       *)
CancelReachesLoop ==
    []<>(\A r \in Prompts : ctxDone[r] => pc[r] = "handled")

(* If every wait for a model or a decision ends, the queue empties: a      *)
(* queued prompt is started, or dropped by a cancellation.                 *)
QueueDrains ==
    (\A r \in Prompts : []<>(pc[r] \notin {"answer", "plan", "wait", "execute"}))
        => []<>(pending = <<>>)

(* The user's decision on a shown plan ends the wait of its run.           *)
DecisionEndsWait ==
    \A r \in Prompts :
        (pc[r] = "wait" /\ \E i \in DOMAIN decisions : decisions[i].run = r)
            ~> (pc[r] # "wait")
=============================================================================
