---------------------------- MODULE PlanExecution ----------------------------
(***************************************************************************)
(* One call of Orchestrator.executePlan and the runTask calls it makes:    *)
(* the scheduling loop over the tasks of a plan, the attempts of a task    *)
(* (executor call, plan-file enforcement, file verification, review) and   *)
(* the check box of the task in the plan file.  Around it run the user,    *)
(* who may cancel the context or toggle the session's execution mode at    *)
(* any moment, and the executor's tools, which change the files on disk.   *)
(*                                                                         *)
(* A call of Agent.RunWithOptions takes two steps, its start and its       *)
(* return, because the user can act in between.  The text of prompts and   *)
(* outputs is left out, except which reviewer findings a prompt carries.   *)
(***************************************************************************)
EXTENDS Integers, Sequences, FiniteSets

CONSTANTS
    Ids,          \* task ids, and the names depends_on may use
    Files,        \* paths a task may have to create
    Outside,      \* those that do not resolve to a path in the workspace
    Plans,        \* the parsed plans executePlan may be called with
    Editable,     \* tasks whose line more than a successful update may change
    MaxAttempts   \* attempts of a task; the literal 3 in the code

Task == [id : Ids, deps : SUBSET Ids, create : SUBSET Files]

ASSUME PlansAssumption == Plans \subseteq Seq(Task) \ {<<>>}
ASSUME FilesAssumption == Outside \subseteq Files
ASSUME EditableAssumption == Editable \subseteq Ids
ASSUME AttemptsAssumption == MaxAttempts \in Nat \ {0}

VARIABLES
    plan, strategy, planFile,             \* arguments of the call
    mode, cancelled, disk,                \* shared with the user and the tools
    pc, idx, progress, completed,         \* executePlan
    attempt, mustRead, planFileRead,      \* runTask
    findings,                             \* attempt whose findings the prompt carries
    status, box, result,                  \* what the user sees
    runs, audited, rejected,              \* history, for the properties only:
    tickFailed, edited                    \*   of the reviews and of the boxes

arguments == <<plan, strategy, planFile>>
schedule  == <<idx, progress, completed>>
reviews   == <<runs, audited, rejected>>
ticks     == <<tickFailed, edited>>
history   == <<reviews, ticks>>
vars == <<arguments, mode, cancelled, disk, pc, schedule, attempt, mustRead,
          planFileRead, findings, status, box, result, history>>

Strategies == {"full", "noCoder", "noReviewer", "solo"}
Modes      == {"plan", "fast"}
Statuses   == {"none", "running", "done", "blocked"}
Boxes      == {"absent", "open", "checked"}
Results    == {"none", "ok", "failed", "deadlock", "cancelled"}
Points     == {"scan", "task", "attempt", "execute", "verify", "review",
               "record", "ended"}

Current == plan[idx]
PlanIds == {plan[i].id : i \in DOMAIN plan}

HasReviewer     == strategy \in {"full", "noCoder"}
ExecutorIsCoder == strategy \in {"full", "noReviewer"}

-----------------------------------------------------------------------------
Init ==
    /\ plan \in Plans
    /\ strategy \in Strategies
    /\ planFile \in BOOLEAN
    /\ mode \in Modes
    /\ cancelled = FALSE
    /\ disk \in SUBSET (Files \ Outside)
    /\ pc = "scan" /\ idx = 1 /\ progress = FALSE /\ completed = {}
    /\ attempt = 1 /\ mustRead = FALSE /\ planFileRead = FALSE
    /\ findings = 0
    /\ status = [t \in Ids |-> "none"]
    /\ box = [t \in Ids |-> IF planFile /\ t \in PlanIds THEN "open" ELSE "absent"]
    /\ result = "none"
    /\ runs = [t \in Ids |-> 0]
    /\ audited = [t \in Ids |-> 0]
    /\ rejected = 0
    /\ tickFailed = {} /\ edited = {}

(* The user cancels the run's context (Esc, Ctrl+C or a new prompt).       *)
Cancel ==
    /\ pc # "ended" /\ ~cancelled
    /\ cancelled' = TRUE
    /\ UNCHANGED <<arguments, mode, disk, pc, schedule, attempt, mustRead,
                   planFileRead, findings, status, box, result, history>>

(* The user toggles the execution mode; the session is shared.             *)
ToggleMode ==
    /\ mode' \in Modes \ {mode}
    /\ UNCHANGED <<arguments, cancelled, disk, pc, schedule, attempt, mustRead,
                   planFileRead, findings, status, box, result, history>>

End(r) == pc' = "ended" /\ result' = r

-----------------------------------------------------------------------------
(* executePlan.                                                            *)

DepsSatisfied(deps) == deps \subseteq completed

AllCompleted == Cardinality(completed) >= Len(plan)

(* Faulty variant: completed tasks are not skipped.                        *)
ReadyAgain(t) == DepsSatisfied(t.deps)

Ready(t) == t.id \notin completed /\ DepsSatisfied(t.deps)

(* `continue` for a task that is completed or has an open dependency.      *)
SkipTask ==
    /\ pc = "scan" /\ idx <= Len(plan) /\ ~cancelled
    /\ ~Ready(Current)
    /\ idx' = idx + 1
    /\ UNCHANGED <<arguments, mode, cancelled, disk, pc, progress, completed,
                   attempt, mustRead, planFileRead, findings, status, box,
                   result, history>>

(* Faulty variant: progress is not recorded.                               *)
CallTaskNoProgress ==
    /\ pc = "scan" /\ idx <= Len(plan) /\ ~cancelled
    /\ Ready(Current)
    /\ pc' = "task"
    /\ UNCHANGED <<arguments, mode, cancelled, disk, schedule, attempt, mustRead,
                   planFileRead, findings, status, box, result, history>>

CallTask ==
    /\ pc = "scan" /\ idx <= Len(plan) /\ ~cancelled
    /\ Ready(Current)
    /\ progress' = TRUE
    /\ pc' = "task"
    /\ UNCHANGED <<arguments, mode, cancelled, disk, idx, completed, attempt,
                   mustRead, planFileRead, findings, status, box, result,
                   history>>

(* Faulty variant: a pass without progress is followed by another one.     *)
EndPassUndetected ==
    /\ pc = "scan" /\ idx > Len(plan)
    /\ \/ AllCompleted /\ End("ok") /\ UNCHANGED schedule
       \/ /\ ~AllCompleted /\ ~cancelled
          /\ idx' = 1 /\ progress' = FALSE
          /\ UNCHANGED <<completed, pc, result>>
    /\ UNCHANGED <<arguments, mode, cancelled, disk, attempt, mustRead,
                   planFileRead, findings, status, box, history>>

(* The end of a pass over the tasks, and the test of the outer loop.       *)
EndPass ==
    /\ pc = "scan" /\ idx > Len(plan)
    /\ \/ ~progress /\ End("deadlock") /\ UNCHANGED schedule
       \/ progress /\ AllCompleted /\ End("ok") /\ UNCHANGED schedule
       \/ /\ progress /\ ~AllCompleted /\ ~cancelled
          /\ idx' = 1 /\ progress' = FALSE
          /\ UNCHANGED <<completed, pc, result>>
    /\ UNCHANGED <<arguments, mode, cancelled, disk, attempt, mustRead,
                   planFileRead, findings, status, box, history>>

(* A cancelled context found by one of the checks of the two functions.    *)
Abort ==
    /\ cancelled
    /\ \/ pc = "scan" /\ idx <= Len(plan)
       \/ pc = "scan" /\ progress /\ ~AllCompleted
       \/ pc \in {"task", "attempt"}
    /\ End("cancelled")
    /\ UNCHANGED <<arguments, mode, cancelled, disk, schedule, attempt,
                   mustRead, planFileRead, findings, status, box, history>>

-----------------------------------------------------------------------------
(* runTask.                                                                *)

(* The mode is read again for every task, not once per run.                *)
ShouldRequirePlanFileRead == mode = "plan" /\ ExecutorIsCoder /\ planFile

StartTask ==
    /\ pc = "task" /\ ~cancelled
    /\ mustRead' = ShouldRequirePlanFileRead
    /\ status' = [status EXCEPT ![Current.id] = "running"]
    /\ attempt' = 1
    /\ findings' = 0 /\ rejected' = 0
    /\ pc' = "attempt"
    /\ UNCHANGED <<arguments, mode, cancelled, disk, schedule, planFileRead,
                   box, result, runs, audited, ticks>>

CallExecutor ==
    /\ pc = "attempt" /\ ~cancelled
    /\ planFileRead' = ~mustRead
    /\ runs' = [runs EXCEPT ![Current.id] = @ + 1]
    /\ pc' = "execute"
    /\ UNCHANGED <<arguments, mode, cancelled, disk, schedule, attempt, mustRead,
                   findings, status, box, result, audited, rejected,
                   ticks>>

(* The boxes when the editable tasks of the plan have these lines.         *)
Rewritten(lines) ==
    [t \in Ids |-> IF t \in Editable \cap PlanIds THEN lines[t] ELSE box[t]]

(* Whatever the tools of one executor call did to the files.  The plan     *)
(* file is one of them: it asks for its boxes to be updated.  A line that  *)
(* was ticked, unticked, removed or written again counts as edited.        *)
ToolsRan ==
    /\ disk' \in SUBSET (Files \ Outside)
    /\ IF planFile THEN \E lines \in [Editable -> Boxes] : box' = Rewritten(lines)
                   ELSE UNCHANGED box
    /\ edited' = edited \cup {t \in Ids : box'[t] # box[t]}
    /\ UNCHANGED tickFailed

(* Faulty variant: the budget has no limit.                                *)
RetryUnlimited ==
    /\ attempt' = attempt + 1
    /\ pc' = "attempt"
    /\ UNCHANGED <<status, result>>

(* A failed attempt: `continue`, or "blocked" and an error on the last.    *)
Retry ==
    /\ attempt < MaxAttempts
    /\ attempt' = attempt + 1
    /\ pc' = "attempt"
    /\ UNCHANGED <<status, result>>

Block ==
    /\ attempt = MaxAttempts
    /\ status' = [status EXCEPT ![Current.id] = "blocked"]
    /\ End("failed")
    /\ UNCHANGED attempt

RetryOrBlock == Retry \/ Block

(* Faulty variant: an executor error resets the prompt.                    *)
ExecutorFailsResets ==
    /\ pc = "execute"
    /\ ToolsRan
    /\ RetryOrBlock
    /\ findings' = 0
    /\ UNCHANGED <<arguments, mode, cancelled, schedule, mustRead, planFileRead,
                   reviews>>

ExecutorFails ==
    /\ pc = "execute"
    /\ ToolsRan
    /\ RetryOrBlock
    /\ UNCHANGED <<arguments, mode, cancelled, schedule, mustRead, planFileRead,
                   findings, reviews>>

ExecutorCancelled ==
    /\ pc = "execute" /\ cancelled
    /\ ToolsRan
    /\ End("cancelled")
    /\ UNCHANGED <<arguments, mode, cancelled, schedule, attempt, mustRead,
                   planFileRead, findings, status, reviews>>

(* OnToolCall may or may not have seen a read_file of the plan file.       *)
ExecutorReturns ==
    /\ pc = "execute"
    /\ ToolsRan
    /\ planFileRead' \in {planFileRead, TRUE}
    /\ pc' = "verify"
    /\ UNCHANGED <<arguments, mode, cancelled, schedule, attempt, mustRead,
                   findings, status, result, reviews>>

PlanFileEnforced == mustRead => planFileRead

(* A path outside the workspace is an error and not a missing file; the    *)
(* attempt fails either way.                                               *)
FilesCreated == Current.create \subseteq disk

VerifyFails ==
    /\ pc = "verify"
    /\ ~(PlanFileEnforced /\ FilesCreated)
    /\ RetryOrBlock
    /\ UNCHANGED <<arguments, mode, cancelled, disk, schedule, mustRead,
                   planFileRead, findings, box, history>>

(* Faulty variant: missing files are reported but not enforced.            *)
VerifiedUnchecked == pc = "verify" /\ PlanFileEnforced

Verified == pc = "verify" /\ PlanFileEnforced /\ FilesCreated

MarkDone ==
    /\ status' = [status EXCEPT ![Current.id] = "done"]
    /\ pc' = "record"

AcceptUnreviewed ==
    /\ Verified /\ ~HasReviewer
    /\ MarkDone
    /\ UNCHANGED <<arguments, mode, cancelled, disk, schedule, attempt, mustRead,
                   planFileRead, findings, box, result, history>>

CallReviewer ==
    /\ Verified /\ HasReviewer
    /\ pc' = "review"
    /\ UNCHANGED <<arguments, mode, cancelled, disk, schedule, attempt, mustRead,
                   planFileRead, findings, status, box, result, history>>

ReviewerFails ==
    /\ pc = "review"
    /\ RetryOrBlock
    /\ UNCHANGED <<arguments, mode, cancelled, disk, schedule, mustRead,
                   planFileRead, findings, box, history>>

ReviewerCancelled ==
    /\ pc = "review" /\ cancelled
    /\ End("cancelled")
    /\ UNCHANGED <<arguments, mode, cancelled, disk, schedule, attempt, mustRead,
                   planFileRead, findings, status, box, history>>

Approve ==
    /\ pc = "review"
    /\ audited' = [audited EXCEPT ![Current.id] = runs[Current.id]]
    /\ MarkDone
    /\ UNCHANGED <<arguments, mode, cancelled, disk, schedule, attempt, mustRead,
                   planFileRead, findings, box, result, runs, rejected,
                   ticks>>

(* The prompt is rebuilt around the findings of this review.               *)
Reject ==
    /\ pc = "review"
    /\ findings' = attempt
    /\ rejected' = attempt
    /\ RetryOrBlock
    /\ UNCHANGED <<arguments, mode, cancelled, disk, schedule, mustRead,
                   planFileRead, box, runs, audited, ticks>>

(* updatePlanTaskStatus.  It ticks the task's line when there is an open   *)
(* one and succeeds silently when there is none, be it ticked or removed.  *)
(* A cancelled context or an I/O error makes it fail, and a failed write   *)
(* may cost the file any of its lines.                                     *)
Ticked == [box EXCEPT ![Current.id] = IF @ = "open" THEN "checked" ELSE @]

(* Faulty variant: the line is found by a prefix of its id, so that task   *)
(* t1 ticks the box of t10 as well.                                        *)
UpdateBoxByPrefix ==
    \/ ~planFile /\ UNCHANGED <<box, ticks>>
    \/ /\ planFile
       /\ \E t \in PlanIds :
             box' = [box EXCEPT ![Current.id] = "checked", ![t] = "checked"]
       /\ edited' = edited \ {Current.id}
       /\ UNCHANGED tickFailed

UpdateBox ==
    \/ ~planFile /\ UNCHANGED <<box, ticks>>
    \/ /\ planFile /\ ~cancelled
       /\ box' = Ticked
       /\ edited' = edited \ {Current.id}
       /\ UNCHANGED tickFailed
    \/ /\ planFile
       /\ \E lines \in [Editable -> Boxes] :
             /\ \A t \in Editable : lines[t] \in {box[t], Ticked[t], "absent"}
             /\ box' = Rewritten(lines)
       /\ tickFailed' = tickFailed \cup {Current.id}
       /\ UNCHANGED edited

(* The update of the plan file, and the return to the loop of executePlan: *)
(* the task counts as completed however the update ended.                  *)
RecordTask ==
    /\ pc = "record"
    /\ UpdateBox
    /\ completed' = completed \cup {Current.id}
    /\ idx' = idx + 1
    /\ pc' = "scan"
    /\ UNCHANGED <<arguments, mode, cancelled, disk, progress, attempt, mustRead,
                   planFileRead, findings, status, result, reviews>>

-----------------------------------------------------------------------------
Scheduler == SkipTask \/ CallTask \/ EndPass \/ Abort

TaskStep == StartTask \/ CallExecutor \/ VerifyFails \/ AcceptUnreviewed
            \/ CallReviewer \/ RecordTask

AgentReturns == ExecutorFails \/ ExecutorReturns \/ ReviewerFails \/ Approve
                \/ Reject

AgentCancelled == ExecutorCancelled \/ ReviewerCancelled

Next == Scheduler \/ TaskStep \/ AgentReturns \/ AgentCancelled
        \/ Cancel \/ ToggleMode

Spec == Init /\ [][Next]_vars

(* The goroutine of the run is scheduled, and a call whose context is      *)
(* cancelled returns: every provider request and every tool takes the      *)
(* context.  Nothing forces an answer of a model that is not cancelled.    *)
Fairness ==
    /\ WF_vars(Scheduler)
    /\ WF_vars(TaskStep)
    /\ WF_vars(AgentCancelled)

FairSpec == Spec /\ Fairness
-----------------------------------------------------------------------------
(* Properties.                                                             *)

TypeOK ==
    /\ plan \in Plans /\ strategy \in Strategies /\ planFile \in BOOLEAN
    /\ mode \in Modes /\ cancelled \in BOOLEAN
    /\ disk \in SUBSET (Files \ Outside)
    /\ pc \in Points
    /\ idx \in 1 .. Len(plan) + 1
    /\ pc \notin {"scan", "ended"} => idx <= Len(plan)
    /\ progress \in BOOLEAN /\ completed \in SUBSET Ids
    /\ attempt \in 1 .. MaxAttempts
    /\ mustRead \in BOOLEAN /\ planFileRead \in BOOLEAN
    /\ findings \in 0 .. MaxAttempts
    /\ status \in [Ids -> Statuses]
    /\ box \in [Ids -> Boxes]
    /\ result \in Results
    /\ runs \in [Ids -> Nat] /\ audited \in [Ids -> Nat]
    /\ rejected \in 0 .. MaxAttempts
    /\ tickFailed \in SUBSET Ids /\ edited \in SUBSET Ids

(* A task is executed only after every task it depends on is done, however *)
(* the planner ordered the tasks and whatever failed on the way            *)
(* (executePlan, depsSatisfied).                                           *)
DependencyOrder ==
    \A t \in Ids : status[t] # "none" =>
        \E i \in DOMAIN plan :
            /\ plan[i].id = t
            /\ \A d \in plan[i].deps : status[d] = "done"

(* With a reviewer, a task reported done was approved, and the output that *)
(* was approved is that of the last executor call made for it: no call     *)
(* follows the approved one unreviewed (runTask).                          *)
DoneMeansAudited ==
    HasReviewer =>
        \A t \in Ids : status[t] = "done" => runs[t] > 0 /\ audited[t] = runs[t]

(* Failures of every kind (executor, plan file, missing files, reviewer,   *)
(* rejection) share one budget: at most MaxAttempts executor calls are     *)
(* ever made for a task (runTask).                                         *)
RetryBudget == \A t \in Ids : runs[t] <= MaxAttempts

(* What the run reports agrees with the steps on the board: success means  *)
(* every task done, failure names exactly one blocked task, and except     *)
(* after a cancellation no task is left "running" (executePlan, runTask).  *)
OutcomeMatchesBoard ==
    /\ result = "ok" => \A t \in PlanIds : status[t] = "done"
    /\ result = "failed" =>
          \E b \in PlanIds : /\ status[b] = "blocked"
                             /\ \A t \in Ids \ {b} : status[t] \in {"none", "done"}
    /\ result \in {"ok", "deadlock"} =>
          \A t \in Ids : status[t] \in {"none", "done"}
    /\ result # "failed" => \A t \in Ids : status[t] # "blocked"

(* A retry that follows a rejection carries the findings of the latest     *)
(* rejection, also when other failures happened in between (runTask).      *)
FindingsInjected == pc = "execute" => findings = rejected

(* A review counts for what comes after it: an approval for exactly the    *)
(* output that is reported done, a rejection for every retry it causes     *)
(* (runTask).                                                              *)
ReviewsCount == DoneMeansAudited /\ FindingsInjected

(* When a task is reported done its required files are on disk, and if it  *)
(* was started under the plan-file rule the executor read the plan file in *)
(* that attempt, whatever the user toggled meanwhile (runTask).            *)
DoneIsEarned ==
    [][\A t \in Ids : status[t] # "done" /\ status'[t] = "done" =>
           /\ t = Current.id
           /\ PlanFileEnforced
           /\ FilesCreated]_vars

UniqueIds ==
    \A i, j \in DOMAIN plan : plan[i].id = plan[j].id => i = j

(* A set of tasks none of which can be executed first.                     *)
Stuck(S) ==
    /\ S # {} /\ S \subseteq PlanIds
    /\ \A i \in DOMAIN plan : plan[i].id \in S =>
           \E d \in plan[i].deps : d \in S \/ d \notin PlanIds

(* With distinct ids the run reports a deadlock only for a plan that has a *)
(* set of stuck tasks, and never succeeds on one (executePlan).            *)
DeadlockExact ==
    UniqueIds =>
        /\ result = "deadlock" => Stuck(PlanIds \ completed)
        /\ result = "ok" => \A S \in SUBSET PlanIds : ~Stuck(S)

(* "plan dependencies cannot be resolved (deadlock detected)", for every   *)
(* plan the parser accepts (orchestrator.go, the error of executePlan).    *)
DeadlockMeansUnresolvable ==
    result = "deadlock" => \E S \in SUBSET PlanIds : Stuck(S)

(* A box that the tools did not touch since its task was recorded says     *)
(* what the board says: it is not checked before the task is done, and it  *)
(* is not open after it, unless the update failed, also when the tools     *)
(* edited or removed the line before (updatePlanTaskStatus).               *)
BoxesMatchBoard ==
    planFile =>
        \A t \in Ids \ edited :
            /\ box[t] = "checked" => status[t] = "done"
            /\ box[t] = "open" /\ status[t] = "done" =>
                  t \in tickFailed \/ (pc = "record" /\ Current.id = t)

(* What the user is told agrees with itself: the outcome of the run with   *)
(* the steps on the board, and the steps with the boxes in the plan file   *)
(* (executePlan, runTask, updatePlanTaskStatus).                           *)
BoardTellsTruth == OutcomeMatchesBoard /\ BoxesMatchBoard

(* The inductive invariant behind these properties.                        *)

InTask  == pc \notin {"scan", "ended"}
Working == pc \in {"attempt", "execute", "verify", "review"}

(* The board mirrors the program counter and the completed map.            *)
BoardInv ==
    /\ result = "none" <=> pc # "ended"
    /\ pc = "task" => status[Current.id] = "none"
    /\ Working => status[Current.id] = "running"
    /\ pc = "record" => status[Current.id] = "done"
    /\ completed \subseteq PlanIds
    /\ \A t \in Ids : t \in completed <=>
          status[t] = "done" /\ ~(pc = "record" /\ t = Current.id)
    /\ \A t \in Ids : status[t] = "running" =>
          t = Current.id /\ (Working \/ result = "cancelled")
    /\ \A t \in Ids : status[t] = "blocked" => t = Current.id /\ result = "failed"
    /\ result = "failed" => idx <= Len(plan) /\ status[Current.id] = "blocked"

(* The executor calls of a task are numbered by its attempts.              *)
AttemptsInv ==
    /\ \A t \in Ids : status[t] = "none" => runs[t] = 0
    /\ pc = "attempt" => runs[Current.id] = attempt - 1
    /\ pc \in {"execute", "verify", "review"} => runs[Current.id] = attempt
    /\ pc = "record" => runs[Current.id] > 0

(* What a pass of executePlan without progress has established so far.     *)
NoneReadyBefore(n) ==
    /\ \A j \in DOMAIN plan : j < n => ~Ready(plan[j])
    /\ ~AllCompleted

PassInv ==
    /\ InTask => progress /\ Ready(Current)
    /\ pc = "scan" /\ ~progress => NoneReadyBefore(idx)
    /\ result = "deadlock" => NoneReadyBefore(Len(plan) + 1)
    /\ result = "ok" => AllCompleted

(* No task of a stuck set is ever completed.                               *)
StuckInv ==
    \A S \in SUBSET PlanIds : Stuck(S) => S \cap completed = {}

IInv ==
    /\ TypeOK /\ BoardInv /\ AttemptsInv /\ PassInv /\ StuckInv
    /\ findings = rejected
    /\ RetryBudget /\ DependencyOrder /\ DoneMeansAudited /\ BoxesMatchBoard

(* Once the context is cancelled no executor call is started any more.     *)
CancelStopsNewWork == [][cancelled => runs' = runs]_vars

(* A cancelled run ends, even when a model never answers, and a run in     *)
(* which every call returns ends: neither the retries nor the passes of    *)
(* executePlan go on for ever.                                             *)
CancelEndsRun == cancelled ~> (pc = "ended")

AnsweredRunEnds == []<>(pc \notin {"execute", "review"}) => <>(pc = "ended")

RunEnds == CancelEndsRun /\ AnsweredRunEnds

Board == INSTANCE PlanBoard WITH board <- status, outcome <- result

(* The execution keeps the promise of PlanBoard.                           *)
KeepsPromise == Board!Spec
=============================================================================
