------------------------------ MODULE AgentLoop -------------------------------
(***************************************************************************)
(* Calls of Agent.RunWithOptions on the agents of a session.  The agents   *)
(* hold a system prompt, which each call sets and then reads; the messages *)
(* of the session are shared.  A call asks the model, executes the tools   *)
(* it names, adds their results and asks again, until the model answers    *)
(* without tools.  A message is its role, the call it comes from, and what *)
(* the properties are about: the mode of a system prompt, the number of    *)
(* tool calls of an answer, the number of the tool call a result is for.   *)
(***************************************************************************)
EXTENDS Naturals, Sequences

CONSTANTS
    Calls, Agents,
    MaxIterations,      \* 25 in the code
    MaxTools,           \* bound: tool calls in one answer
    SharedAgents        \* agents on which calls may overlap

ASSUME BoundsAssumption == MaxIterations \in Nat \ {0} /\ MaxTools \in Nat
ASSUME SharedAssumption == SharedAgents \subseteq Agents

VARIABLES
    systemPrompt,       \* Agent.SystemPrompt
    history,            \* the messages of the session
    pc, agent, mode,    \* of each call: where it is and its arguments
    messages, iteration, tools, next,   \* its variables
    cancelled,          \* its context
    result,             \* what it returned
    saveFailed          \* history: a message of the call could not be saved

shared  == <<systemPrompt, history>>
args    == <<agent, mode>>
locals  == <<messages, iteration, tools, next>>
vars    == <<shared, pc, args, locals, cancelled, result, saveFailed>>

Modes   == {"task", "chat"}
Results == {"none", "ok", "error", "cancelled", "limit"}
Points  == {"idle", "ping", "query", "prompt", "history", "request", "model",
            "tools", "saveUser", "saveAssistant", "done"}

System(m)    == [role |-> "system", mode |-> m]
User(c)      == [role |-> "user", call |-> c]
Assistant(c) == [role |-> "assistant", call |-> c]
ToolCalls(n) == [role |-> "assistant", tools |-> n]
Result(k)    == [role |-> "tool", for |-> k]

InProgress(c) == pc[c] \notin {"idle", "done"}

-----------------------------------------------------------------------------
Init ==
    /\ systemPrompt = [a \in Agents |-> "chat"] /\ history = <<>>
    /\ pc = [c \in Calls |-> "idle"]
    /\ agent \in [Calls -> Agents] /\ mode \in [Calls -> Modes]
    /\ messages = [c \in Calls |-> <<>>] /\ iteration = [c \in Calls |-> 0]
    /\ tools = [c \in Calls |-> 0] /\ next = [c \in Calls |-> 1]
    /\ cancelled = [c \in Calls |-> FALSE]
    /\ result = [c \in Calls |-> "none"]
    /\ saveFailed = [c \in Calls |-> FALSE]

-----------------------------------------------------------------------------
Goto(c, p) == pc' = [pc EXCEPT ![c] = p]

Return(c, r) ==
    /\ Goto(c, "done")
    /\ result' = [result EXCEPT ![c] = r]
    /\ UNCHANGED <<shared, args, locals, cancelled, saveFailed>>

(* The user cancels the run of the call.                                   *)
Cancel(c) ==
    /\ InProgress(c) /\ ~cancelled[c]
    /\ cancelled' = [cancelled EXCEPT ![c] = TRUE]
    /\ UNCHANGED <<shared, pc, args, locals, result, saveFailed>>

(* Runs follow each other, and so do the calls on an agent, except after a *)
(* chat reply: the loop may then start a run beside the one in progress.   *)
Begin(c) ==
    /\ pc[c] = "idle"
    /\ agent[c] \in SharedAgents \/ \A d \in Calls : InProgress(d) => agent[d] # agent[c]
    /\ Goto(c, "ping")
    /\ UNCHANGED <<shared, args, locals, cancelled, result, saveFailed>>

(* Faulty variant: only task mode sets the prompt.                         *)
SetTaskMode(c) ==
    /\ pc[c] = "ping"
    /\ systemPrompt' = IF mode[c] = "task" THEN [systemPrompt EXCEPT ![agent[c]] = "task"]
                       ELSE systemPrompt
    /\ Goto(c, "query")
    /\ UNCHANGED <<history, args, locals, cancelled, result, saveFailed>>

(* The model service answers the ping.                                     *)
SetDispatchMode(c) ==
    /\ pc[c] = "ping"
    /\ systemPrompt' = [systemPrompt EXCEPT ![agent[c]] = mode[c]]
    /\ Goto(c, "query")
    /\ UNCHANGED <<history, args, locals, cancelled, result, saveFailed>>

(* The query of the index in task mode; its errors are ignored.            *)
Query(c) ==
    /\ pc[c] = "query"
    /\ Goto(c, "prompt")
    /\ UNCHANGED <<shared, args, locals, cancelled, result, saveFailed>>

ReadPrompt(c) ==
    /\ pc[c] = "prompt"
    /\ messages' = [messages EXCEPT ![c] = <<System(systemPrompt[agent[c]])>>]
    /\ Goto(c, "history")
    /\ UNCHANGED <<shared, args, iteration, tools, next, cancelled, result, saveFailed>>

(* Faulty variant: the prompt is saved before it is answered.              *)
ReadAndSaveHistory(c) ==
    /\ pc[c] = "history"
    /\ messages' = [messages EXCEPT ![c] = @ \o history \o <<User(c)>>]
    /\ history' = Append(history, User(c))
    /\ Goto(c, "request")
    /\ UNCHANGED <<systemPrompt, args, iteration, tools, next, cancelled, result, saveFailed>>

(* The messages of the session and the user's prompt.  GetMessages does    *)
(* not ask whether the rows came to their end: some may be missing.        *)
ReadHistory(c) ==
    /\ pc[c] = "history"
    /\ \E n \in 0 .. Len(history) :
          messages' = [messages EXCEPT ![c] = @ \o SubSeq(history, 1, n) \o <<User(c)>>]
    /\ Goto(c, "request")
    /\ UNCHANGED <<shared, args, iteration, tools, next, cancelled, result, saveFailed>>

-----------------------------------------------------------------------------
(* The loop.                                                               *)

(* Faulty variant: one iteration too many.                                 *)
RequestOneMore(c) ==
    /\ pc[c] = "request" /\ ~cancelled[c]
    /\ iteration[c] <= MaxIterations
    /\ iteration' = [iteration EXCEPT ![c] = @ + 1]
    /\ Goto(c, "model")
    /\ UNCHANGED <<shared, args, messages, tools, next, cancelled, result, saveFailed>>

Request(c) ==
    /\ pc[c] = "request" /\ ~cancelled[c]
    /\ iteration[c] < MaxIterations
    /\ iteration' = [iteration EXCEPT ![c] = @ + 1]
    /\ Goto(c, "model")
    /\ UNCHANGED <<shared, args, messages, tools, next, cancelled, result, saveFailed>>

Exhausted(c) ==
    /\ pc[c] = "request" /\ iteration[c] = MaxIterations
    /\ Return(c, "limit")

(* The answer names tools.                                                 *)
AnswerWithTools(c) ==
    /\ pc[c] = "model"
    /\ \E n \in 1 .. MaxTools :
          /\ messages' = [messages EXCEPT ![c] = Append(@, ToolCalls(n))]
          /\ tools' = [tools EXCEPT ![c] = n]
    /\ next' = [next EXCEPT ![c] = 1]
    /\ Goto(c, "tools")
    /\ UNCHANGED <<shared, args, iteration, cancelled, result, saveFailed>>

FinalAnswer(c) ==
    /\ pc[c] = "model"
    /\ Goto(c, "saveUser")
    /\ UNCHANGED <<shared, args, locals, cancelled, result, saveFailed>>

(* A final answer without text is taken for none.                          *)
BlankAnswer(c) == pc[c] = "model" /\ Return(c, "limit")

(* Faulty variant: a tool call that fails has no result.                   *)
RunToolSilently(c) ==
    /\ pc[c] = "tools" /\ next[c] <= tools[c] /\ ~cancelled[c]
    /\ \/ messages' = [messages EXCEPT ![c] = Append(@, Result(next[c]))]
       \/ UNCHANGED messages
    /\ next' = [next EXCEPT ![c] = @ + 1]
    /\ UNCHANGED <<shared, pc, args, iteration, tools, cancelled, result, saveFailed>>

(* The arguments are parsed and the tool is executed.  If either fails the *)
(* error is the result.                                                    *)
RunTool(c) ==
    /\ pc[c] = "tools" /\ next[c] <= tools[c] /\ ~cancelled[c]
    /\ messages' = [messages EXCEPT ![c] = Append(@, Result(next[c]))]
    /\ next' = [next EXCEPT ![c] = @ + 1]
    /\ UNCHANGED <<shared, pc, args, iteration, tools, cancelled, result, saveFailed>>

ToolsDone(c) ==
    /\ pc[c] = "tools" /\ next[c] > tools[c]
    /\ Goto(c, "request")
    /\ UNCHANGED <<shared, args, locals, cancelled, result, saveFailed>>

-----------------------------------------------------------------------------
(* The end of a call.                                                      *)

(* A message is saved, or it is not and nobody is told.                    *)
Save(c, message, p) ==
    /\ \/ /\ ~cancelled[c] /\ history' = Append(history, message)
          /\ UNCHANGED saveFailed
       \/ /\ saveFailed' = [saveFailed EXCEPT ![c] = TRUE]
          /\ UNCHANGED history
    /\ Goto(c, p)
    /\ UNCHANGED <<systemPrompt, args, locals, cancelled>>

SaveUser(c) == pc[c] = "saveUser" /\ Save(c, User(c), "saveAssistant") /\ UNCHANGED result

SaveAssistant(c) ==
    /\ pc[c] = "saveAssistant"
    /\ Save(c, Assistant(c), "done")
    /\ result' = [result EXCEPT ![c] = "ok"]

(* The service refuses the ping or the request.                            *)
Fails(c) == pc[c] \in {"ping", "model"} /\ Return(c, "error")

(* Faulty variant: only the checks of the loop look at the context.        *)
CancelledAtChecks(c) ==
    /\ cancelled[c]
    /\ pc[c] \in {"request", "tools"}
    /\ pc[c] = "request" => iteration[c] < MaxIterations
    /\ pc[c] = "tools" => next[c] <= tools[c]
    /\ Return(c, "cancelled")

(* The context is found to be done, by a check or by what waits under it.  *)
(* A call that only saves its messages, or has exhausted its iterations,   *)
(* does not look any more.                                                 *)
Cancelled(c) ==
    /\ cancelled[c]
    /\ pc[c] \in {"ping", "query", "history", "request", "model", "tools"}
    /\ pc[c] = "request" => iteration[c] < MaxIterations
    /\ pc[c] = "tools" => next[c] <= tools[c]
    /\ Return(c, "cancelled")

-----------------------------------------------------------------------------
Local(c) == ReadPrompt(c) \/ ReadHistory(c) \/ Request(c) \/ Exhausted(c) \/ ToolsDone(c)
            \/ SaveUser(c) \/ SaveAssistant(c) \/ Cancelled(c)

Service(c) == SetDispatchMode(c) \/ Query(c) \/ AnswerWithTools(c) \/ FinalAnswer(c)
              \/ BlankAnswer(c) \/ RunTool(c) \/ Fails(c)

(* Nothing is left to do.                                                  *)
Finished == (\A c \in Calls : pc[c] = "done") /\ UNCHANGED vars

Next == (\E c \in Calls : Begin(c) \/ Cancel(c) \/ Local(c) \/ Service(c)) \/ Finished

Spec == Init /\ [][Next]_vars

(* What waits under a context returns when it is done.  Services and tools *)
(* need not answer.                                                        *)
Fairness == \A c \in Calls : WF_vars(Local(c))

FairSpec == Spec /\ Fairness

-----------------------------------------------------------------------------
(* Properties.                                                             *)

Message == [role : {"system"}, mode : Modes]
           \cup [role : {"user", "assistant"}, call : Calls]
           \cup [role : {"assistant"}, tools : 1 .. MaxTools]
           \cup [role : {"tool"}, for : 1 .. MaxTools]

TypeOK ==
    /\ systemPrompt \in [Agents -> Modes] /\ history \in Seq(Message)
    /\ pc \in [Calls -> Points] /\ agent \in [Calls -> Agents] /\ mode \in [Calls -> Modes]
    /\ messages \in [Calls -> Seq(Message)] /\ iteration \in [Calls -> 0 .. MaxIterations]
    /\ tools \in [Calls -> 0 .. MaxTools] /\ next \in [Calls -> 1 .. MaxTools + 1]
    /\ cancelled \in [Calls -> BOOLEAN] /\ result \in [Calls -> Results]
    /\ saveFailed \in [Calls -> BOOLEAN]

(* In every request each tool call of an earlier answer is followed by its *)
(* results, in order (RunWithOptions).                                     *)
Answered(s, i) == \A k \in 1 .. s[i].tools : i + k <= Len(s) /\ s[i + k] = Result(k)

ToolCallsAnswered ==
    \A c \in Calls : pc[c] = "model" =>
        \A i \in 1 .. Len(messages[c]) :
            "tools" \in DOMAIN messages[c][i] => Answered(messages[c], i)

(* The system prompt of a request is that of the mode of its call, if no   *)
(* other call on its agent is in progress (SetDispatchMode, RunWithOptions). *)
RightPrompt ==
    \A c \in Calls : messages[c] # <<>> /\ agent[c] \notin SharedAgents =>
        messages[c][1] = System(mode[c])

(* The session remembers answered prompts only, each once, the answer      *)
(* after its prompt; a gap means that a message could not be saved.        *)
Saved(c, message) == \E i \in 1 .. Len(history) : history[i] = message

HistoryTrue ==
    /\ \A i, j \in 1 .. Len(history) : history[i] = history[j] => i = j
    /\ \A i \in 1 .. Len(history) :
          LET c == history[i].call IN
          \/ result[c] = "ok"
          \/ pc[c] = "saveAssistant" /\ history[i] = User(c)
    /\ \A i \in 1 .. Len(history) : \A j \in 1 .. i :
          history[i].call = history[j].call => i = j \/ history[i] = Assistant(history[i].call)
    /\ \A c \in Calls : result[c] = "ok" /\ ~saveFailed[c] =>
          Saved(c, User(c)) /\ Saved(c, Assistant(c))

(* Once the context is done, no request is sent and no tool is started.    *)
CancelStopsWork ==
    [][\A c \in Calls : cancelled[c] =>
          (pc'[c] = "model" => pc[c] = "model") /\ next'[c] <= next[c]]_vars

(* A call ends: by its context, also if no service answers, and by itself  *)
(* if the services answer, however many tools the model names              *)
(* (RunWithOptions, maxIterations).                                        *)
CancelEndsCall == []<>(\A c \in Calls : cancelled[c] => pc[c] = "done")

AnsweredCallEnds ==
    (\A c \in Calls : WF_vars(Service(c))) => []<>(\A c \in Calls : ~InProgress(c))

CallsEnd == CancelEndsCall /\ AnsweredCallEnds
=============================================================================
