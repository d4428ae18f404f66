---------------------------- MODULE AgentLoop_proofs ----------------------------
(***************************************************************************)
(* Proofs about AgentLoop, for any calls, agents and limits: a cancelled   *)
(* call starts nothing, requests carry the right prompt and the results of *)
(* their tool calls, the history is true, and each call is bounded.        *)
(***************************************************************************)
EXTENDS AgentLoop, Integers, TLAPS

USE BoundsAssumption, SharedAssumption

-----------------------------------------------------------------------------
(* Messages and sequences of them.                                         *)

LEMMA MessageTypes ==
    /\ \A m \in Modes : System(m) \in Message
    /\ \A c \in Calls : User(c) \in Message /\ Assistant(c) \in Message
    /\ \A n \in 1 .. MaxTools : ToolCalls(n) \in Message /\ Result(n) \in Message
  BY DEF Message, System, User, Assistant, ToolCalls, Result

LEMMA AppendFacts ==
    ASSUME NEW S, NEW s \in Seq(S), NEW e \in S
    PROVE  /\ Append(s, e) \in Seq(S) /\ Len(s) \in Nat
           /\ Len(Append(s, e)) = Len(s) + 1
           /\ \A i \in 1 .. Len(s) : Append(s, e)[i] = s[i]
           /\ Append(s, e)[Len(s) + 1] = e
  OBVIOUS

(* The messages a call starts with: what it has, the history, its prompt.  *)
Opening(s, h, n, e) == (s \o SubSeq(h, 1, n)) \o <<e>>

LEMMA OpeningFacts ==
    ASSUME NEW S, NEW s \in Seq(S), NEW h \in Seq(S), NEW e \in S, NEW n \in 0 .. Len(h)
    PROVE  /\ Opening(s, h, n, e) \in Seq(S)
           /\ Len(s) \in Nat /\ n \in Nat /\ Len(Opening(s, h, n, e)) = Len(s) + n + 1
           /\ \A i \in 1 .. Len(s) : Opening(s, h, n, e)[i] = s[i]
           /\ \A i \in 1 .. n : Opening(s, h, n, e)[Len(s) + i] = h[i]
           /\ Opening(s, h, n, e)[Len(s) + n + 1] = e
<1>1. Len(h) \in Nat /\ Len(s) \in Nat /\ n \in Nat
  OBVIOUS
<1>2. /\ SubSeq(h, 1, n) \in Seq(S) /\ Len(SubSeq(h, 1, n)) = n
      /\ \A i \in 1 .. n : SubSeq(h, 1, n)[i] = h[i]
  BY <1>1
<1> DEFINE t == SubSeq(h, 1, n)
<1> HIDE DEF t
<1>3. t \in Seq(S) /\ Len(t) = n /\ \A i \in 1 .. n : t[i] = h[i]
  BY <1>2 DEF t
<1>4. /\ s \o t \in Seq(S) /\ Len(s \o t) = Len(s) + n
      /\ \A i \in 1 .. Len(s) : (s \o t)[i] = s[i]
      /\ \A i \in 1 .. n : (s \o t)[Len(s) + i] = t[i]
  BY <1>1, <1>3
<1> DEFINE u == s \o t
<1> HIDE DEF u
<1>5. /\ u \o <<e>> \in Seq(S) /\ Len(u \o <<e>>) = Len(u) + 1
      /\ \A i \in 1 .. Len(u) : (u \o <<e>>)[i] = u[i]
      /\ (u \o <<e>>)[Len(u) + 1] = e
  <2>1. u \in Seq(S)
    BY <1>4 DEF u
  <2> QED BY <2>1
<1>6. \A i \in 1 .. Len(s) : i \in 1 .. Len(u)
  BY <1>1, <1>4 DEF u
<1>7. \A i \in 1 .. n : Len(s) + i \in 1 .. Len(u)
  BY <1>1, <1>4 DEF u
<1>8. Opening(s, h, n, e) = u \o <<e>>
  BY DEF Opening, u, t
<1> QED BY <1>1, <1>3, <1>4, <1>5, <1>6, <1>7, <1>8 DEF u

LEMMA CallOpening ==
    ASSUME NEW c \in Calls
    PROVE  \A s, h \in Seq(Message) : \A k \in 0 .. Len(h) :
              /\ Opening(s, h, k, User(c)) \in Seq(Message)
              /\ Len(Opening(s, h, k, User(c))) = Len(s) + k + 1
              /\ \A i \in 1 .. Len(s) : Opening(s, h, k, User(c))[i] = s[i]
              /\ \A i \in 1 .. k : Opening(s, h, k, User(c))[Len(s) + i] = h[i]
              /\ Opening(s, h, k, User(c))[Len(s) + k + 1] = User(c)
<1>1. User(c) \in Message
  BY MessageTypes
<1>2. \A s, h \in Seq(Message) : \A k \in 0 .. Len(h) :
         Opening(s, h, k, User(c)) \in Seq(Message)
  BY <1>1, OpeningFacts
<1>3. \A s, h \in Seq(Message) : \A k \in 0 .. Len(h) :
         Len(Opening(s, h, k, User(c))) = Len(s) + k + 1
  BY <1>1, OpeningFacts
<1>4. \A s, h \in Seq(Message) : \A k \in 0 .. Len(h) :
         \A i \in 1 .. Len(s) : Opening(s, h, k, User(c))[i] = s[i]
  BY <1>1, OpeningFacts
<1>5. \A s, h \in Seq(Message) : \A k \in 0 .. Len(h) :
         \A i \in 1 .. k : Opening(s, h, k, User(c))[Len(s) + i] = h[i]
  BY <1>1, OpeningFacts
<1>6. \A s, h \in Seq(Message) : \A k \in 0 .. Len(h) :
         Opening(s, h, k, User(c))[Len(s) + k + 1] = User(c)
  BY <1>1, OpeningFacts
<1> QED BY <1>2, <1>3, <1>4, <1>5, <1>6

-----------------------------------------------------------------------------
(* Type correctness.                                                       *)

LEMMA TypeOKInitially == Init => TypeOK
  BY DEF Init, TypeOK, Points, Results, Modes

LEMMA TypeOKInductive == TypeOK /\ [Next]_vars => TypeOK'
<1> SUFFICES ASSUME TypeOK, [Next]_vars PROVE TypeOK'
  OBVIOUS
<1> USE DEF shared, args, locals
<1>0. /\ history \in Seq(Message) /\ \A c \in Calls : messages[c] \in Seq(Message)
  BY DEF TypeOK
<1>1. ASSUME NEW c \in Calls, NEW r \in Results, Return(c, r) PROVE TypeOK'
  BY <1>1 DEF Return, Goto, TypeOK, Points
<1>2. ASSUME NEW c \in Calls, Begin(c) \/ Cancel(c) \/ Query(c) PROVE TypeOK'
  BY <1>2 DEF Begin, Cancel, Query, Goto, TypeOK, Points
<1>3. ASSUME NEW c \in Calls, SetDispatchMode(c) PROVE TypeOK'
  BY <1>3 DEF SetDispatchMode, Goto, TypeOK, Points
<1>4. ASSUME NEW c \in Calls, ReadPrompt(c) PROVE TypeOK'
  <2>1. <<System(systemPrompt[agent[c]])>> \in Seq(Message)
    <3>1. System(systemPrompt[agent[c]]) \in Message
      BY MessageTypes DEF TypeOK
    <3> QED BY <3>1
  <2> QED BY <1>4, <2>1 DEF ReadPrompt, Goto, TypeOK, Points
<1>5. ASSUME NEW c \in Calls, ReadHistory(c) PROVE TypeOK'
  <2>1. PICK n \in 0 .. Len(history) :
           messages' = [messages EXCEPT ![c] = Opening(@, history, n, User(c))]
    BY <1>5 DEF ReadHistory, Opening
  <2>2. Opening(messages[c], history, n, User(c)) \in Seq(Message)
    BY <1>0, CallOpening
  <2>3. messages' \in [Calls -> Seq(Message)]
    BY <2>1, <2>2 DEF TypeOK
  <2> QED BY <1>5, <2>3 DEF ReadHistory, Goto, TypeOK, Points
<1>6. ASSUME NEW c \in Calls, Request(c) PROVE TypeOK'
  <2>1. iteration[c] + 1 \in 0 .. MaxIterations
    BY <1>6 DEF Request, TypeOK
  <2> QED BY <1>6, <2>1 DEF Request, Goto, TypeOK, Points
<1>7. ASSUME NEW c \in Calls, AnswerWithTools(c) PROVE TypeOK'
  <2>1. PICK n \in 1 .. MaxTools :
           /\ messages' = [messages EXCEPT ![c] = Append(@, ToolCalls(n))]
           /\ tools' = [tools EXCEPT ![c] = n]
    BY <1>7 DEF AnswerWithTools
  <2>2. Append(messages[c], ToolCalls(n)) \in Seq(Message)
    BY <1>0, MessageTypes, AppendFacts
  <2>3. messages' \in [Calls -> Seq(Message)] /\ n \in 0 .. MaxTools /\ 1 \in 1 .. MaxTools + 1
    BY <2>1, <2>2 DEF TypeOK
  <2> QED BY <1>7, <2>1, <2>3 DEF AnswerWithTools, Goto, TypeOK, Points
<1>8. ASSUME NEW c \in Calls, FinalAnswer(c) \/ ToolsDone(c) PROVE TypeOK'
  BY <1>8 DEF FinalAnswer, ToolsDone, Goto, TypeOK, Points
<1>9. ASSUME NEW c \in Calls, RunTool(c) PROVE TypeOK'
  <2>1. next[c] \in 1 .. MaxTools /\ next[c] + 1 \in 1 .. MaxTools + 1
    BY <1>9 DEF RunTool, TypeOK
  <2>2. Append(messages[c], Result(next[c])) \in Seq(Message)
    BY <1>0, <2>1, MessageTypes, AppendFacts
  <2>3. messages' \in [Calls -> Seq(Message)]
    BY <1>9, <2>2 DEF RunTool, TypeOK
  <2> QED BY <1>9, <2>1, <2>3 DEF RunTool, TypeOK
<1>10. ASSUME NEW c \in Calls, SaveUser(c) \/ SaveAssistant(c) PROVE TypeOK'
  <2>1. /\ Append(history, User(c)) \in Seq(Message)
        /\ Append(history, Assistant(c)) \in Seq(Message)
    BY <1>0, MessageTypes, AppendFacts
  <2>2. history' \in Seq(Message)
    BY <1>0, <1>10, <2>1 DEF SaveUser, SaveAssistant, Save
  <2> QED BY <1>10, <2>2 DEF SaveUser, SaveAssistant, Save, Goto, TypeOK, Points, Results
<1>11. ASSUME NEW c \in Calls, Exhausted(c) \/ BlankAnswer(c) \/ Fails(c) \/ Cancelled(c)
       PROVE  TypeOK'
  BY <1>1, <1>11 DEF Exhausted, BlankAnswer, Fails, Cancelled, Results
<1>12. CASE Finished \/ UNCHANGED vars
  BY <1>12 DEF Finished, vars, TypeOK
<1> QED BY <1>2, <1>3, <1>4, <1>5, <1>6, <1>7, <1>8, <1>9, <1>10, <1>11, <1>12
        DEF Next, Local, Service

(* Every variable keeps its type; no call sends more requests than the     *)
(* limit allows.                                                           *)
THEOREM TypeCorrect == Spec => []TypeOK
  BY TypeOKInitially, TypeOKInductive, PTL DEF Spec

-----------------------------------------------------------------------------
(* Once the context is done, no request is sent and no tool is started.    *)

LEMMA CancelStopsStep ==
    ASSUME TypeOK, [Next]_vars, NEW c \in Calls, cancelled[c]
    PROVE  (pc'[c] = "model" => pc[c] = "model") /\ next'[c] <= next[c]
<1> USE DEF shared, args, locals
<1>0. next \in [Calls -> 1 .. MaxTools + 1] /\ pc \in [Calls -> Points] /\ 1 <= next[c]
  BY DEF TypeOK
<1>1. ASSUME NEW d \in Calls, NEW r, Return(d, r)
      PROVE  (pc'[c] = "model" => pc[c] = "model") /\ next'[c] <= next[c]
  BY <1>0, <1>1 DEF Return, Goto
<1>2. ASSUME NEW d \in Calls, Begin(d) \/ Cancel(d) \/ Query(d) \/ SetDispatchMode(d)
                              \/ ReadPrompt(d) \/ ReadHistory(d) \/ FinalAnswer(d) \/ ToolsDone(d)
      PROVE  (pc'[c] = "model" => pc[c] = "model") /\ next'[c] <= next[c]
  <2>1. next' = next /\ (pc' = pc \/ \E p \in Points \ {"model"} : pc' = [pc EXCEPT ![d] = p])
    BY <1>2 DEF Begin, Cancel, Query, SetDispatchMode, ReadPrompt, ReadHistory,
                FinalAnswer, ToolsDone, Goto, Points
  <2> QED BY <1>0, <2>1
<1>3. ASSUME NEW d \in Calls, Request(d) \/ RunTool(d) \/ AnswerWithTools(d)
      PROVE  (pc'[c] = "model" => pc[c] = "model") /\ next'[c] <= next[c]
  BY <1>0, <1>3 DEF Request, RunTool, AnswerWithTools, Goto
<1>4. ASSUME NEW d \in Calls, SaveUser(d) \/ SaveAssistant(d)
      PROVE  (pc'[c] = "model" => pc[c] = "model") /\ next'[c] <= next[c]
  BY <1>0, <1>4 DEF SaveUser, SaveAssistant, Save, Goto
<1>5. CASE Finished \/ UNCHANGED vars
  BY <1>0, <1>5 DEF Finished, vars
<1> QED BY <1>1, <1>2, <1>3, <1>4, <1>5
        DEF Next, Local, Service, Exhausted, BlankAnswer, Fails, Cancelled

(* Once the context is done, no request is sent and no tool is started     *)
(* (RunWithOptions).                                                       *)
THEOREM CancelStopsWorkCorrect == Spec => CancelStopsWork
<1>1. TypeOK /\ [Next]_vars =>
         [\A c \in Calls : cancelled[c] =>
             (pc'[c] = "model" => pc[c] = "model") /\ next'[c] <= next[c]]_vars
  BY CancelStopsStep
<1> QED BY <1>1, TypeCorrect, PTL DEF Spec, CancelStopsWork

-----------------------------------------------------------------------------
(* The right prompt: calls on an agent that is not shared exclude each     *)
(* other from the time they set its prompt until they have read it.        *)

Asked == {"history", "request", "model", "tools", "saveUser", "saveAssistant"}

PromptInv ==
    /\ \A c, d \in Calls :
          InProgress(c) /\ InProgress(d) /\ agent[c] = agent[d] /\ agent[c] \notin SharedAgents
              => c = d
    /\ \A c \in Calls : pc[c] \in {"query", "prompt"} /\ agent[c] \notin SharedAgents
              => systemPrompt[agent[c]] = mode[c]
    /\ \A c \in Calls : pc[c] \in Asked => messages[c] # <<>>
    /\ RightPrompt

LEMMA PromptInitially == Init => PromptInv
  BY DEF Init, PromptInv, RightPrompt, InProgress, Asked

(* A step of a call that neither sets nor reads a prompt.                  *)
LEMMA PromptUntouched ==
    ASSUME PromptInv, UNCHANGED <<systemPrompt, args, messages>>,
           \A c \in Calls : \/ pc'[c] = pc[c]
                            \/ /\ InProgress(c)
                               /\ pc'[c] \in {"query", "prompt"} => pc[c] \in {"query", "prompt"}
                               /\ pc'[c] \in Asked => pc[c] \in Asked
    PROVE  PromptInv'
  BY DEF PromptInv, RightPrompt, InProgress, args

(* A step that adds to the messages of a call.                             *)
LEMMA PromptGrows ==
    ASSUME TypeOK, PromptInv, UNCHANGED <<systemPrompt, args>>, NEW c \in Calls,
           pc[c] \in Asked, \A d \in Calls : d # c => pc'[d] = pc[d] /\ messages'[d] = messages[d],
           pc'[c] \in Asked, messages'[c] # <<>>, messages'[c][1] = messages[c][1]
    PROVE  PromptInv'
<1>1. InProgress(c) /\ messages[c] # <<>>
  BY DEF InProgress, Asked, PromptInv
<1>2. \A d \in Calls : /\ InProgress(d)' => InProgress(d)
                       /\ pc'[d] \in {"query", "prompt"} => pc'[d] = pc[d]
  BY <1>1 DEF InProgress, Asked
<1>3. RightPrompt'
  BY <1>1 DEF PromptInv, RightPrompt, args
<1> QED BY <1>2, <1>3 DEF PromptInv, args

LEMMA PromptInductive == TypeOK /\ PromptInv /\ [Next]_vars => PromptInv'
<1> SUFFICES ASSUME TypeOK, PromptInv, [Next]_vars PROVE PromptInv'
  OBVIOUS
<1> USE DEF shared, locals
<1>0. pc \in [Calls -> Points] /\ \A c \in Calls : messages[c] \in Seq(Message)
  BY DEF TypeOK
<1>1. ASSUME NEW c \in Calls,
             Cancel(c) \/ Query(c) \/ Request(c) \/ FinalAnswer(c) \/ ToolsDone(c)
                 \/ SaveUser(c) \/ SaveAssistant(c)
      PROVE  PromptInv'
  <2>1. /\ UNCHANGED <<systemPrompt, args, messages>>
        /\ \/ pc' = pc
           \/ pc[c] = "query" /\ pc' = [pc EXCEPT ![c] = "prompt"]
           \/ pc[c] \in Asked /\ \E p \in Asked \cup {"done"} : pc' = [pc EXCEPT ![c] = p]
    BY <1>1 DEF Cancel, Query, Request, FinalAnswer, ToolsDone, SaveUser, SaveAssistant, Save,
                Goto, Asked
  <2> QED BY <1>0, <2>1, PromptUntouched DEF InProgress, Asked
<1>2. ASSUME NEW c \in Calls, Exhausted(c) \/ BlankAnswer(c) \/ Fails(c) \/ Cancelled(c)
      PROVE  PromptInv'
  <2>1. UNCHANGED <<systemPrompt, args, messages>> /\ pc' = [pc EXCEPT ![c] = "done"]
        /\ InProgress(c)
    BY <1>2 DEF Exhausted, BlankAnswer, Fails, Cancelled, Return, Goto, InProgress
  <2> QED BY <1>0, <2>1, PromptUntouched DEF Asked
<1>3. CASE Finished \/ UNCHANGED vars
  BY <1>3, PromptUntouched DEF Finished, vars
<1>4. ASSUME NEW c \in Calls, Begin(c) PROVE PromptInv'
  <2>1. /\ UNCHANGED <<systemPrompt, args, messages>> /\ pc[c] = "idle"
        /\ pc' = [pc EXCEPT ![c] = "ping"]
        /\ agent[c] \in SharedAgents \/ \A d \in Calls : InProgress(d) => agent[d] # agent[c]
    BY <1>4 DEF Begin, Goto
  <2>2. pc'[c] = "ping" /\ \A d \in Calls : d # c => pc'[d] = pc[d]
    BY <1>0, <2>1
  <2>3. ASSUME NEW d \in Calls, NEW e \in Calls, InProgress(d)', InProgress(e)',
               agent'[d] = agent'[e], agent'[d] \notin SharedAgents
        PROVE  d = e
    BY <2>1, <2>2, <2>3 DEF PromptInv, InProgress, args
  <2> QED BY <2>1, <2>2, <2>3 DEF PromptInv, RightPrompt, Asked, args
<1>5. ASSUME NEW c \in Calls, SetDispatchMode(c) PROVE PromptInv'
  <2>1. /\ UNCHANGED <<args, messages>> /\ InProgress(c)
        /\ pc'[c] = "query" /\ \A d \in Calls : d # c => pc'[d] = pc[d]
        /\ systemPrompt'[agent[c]] = mode[c]
        /\ \A a \in Agents : a # agent[c] => systemPrompt'[a] = systemPrompt[a]
    BY <1>5 DEF SetDispatchMode, Goto, InProgress, TypeOK
  <2>2. \A d \in Calls : InProgress(d)' => InProgress(d)
    BY <2>1 DEF InProgress
  <2>3. ASSUME NEW d \in Calls, pc'[d] \in {"query", "prompt"}, agent'[d] \notin SharedAgents
        PROVE  systemPrompt'[agent'[d]] = mode'[d]
    <3>1. CASE d = c
      BY <2>1, <3>1 DEF args
    <3>2. CASE d # c
      <4>1. agent[d] # agent[c]
        BY <2>1, <2>3, <3>2 DEF PromptInv, InProgress, args
      <4>2. agent[d] \in Agents
        BY DEF TypeOK
      <4> QED BY <2>1, <2>3, <3>2, <4>1, <4>2 DEF PromptInv, args
    <3> QED BY <3>1, <3>2
  <2>4. \A d \in Calls : pc'[d] \in Asked => messages'[d] # <<>>
    BY <2>1 DEF PromptInv, Asked
  <2>5. RightPrompt'
    BY <2>1 DEF PromptInv, RightPrompt, args
  <2> QED BY <2>1, <2>2, <2>3, <2>4, <2>5 DEF PromptInv, args
<1>6. ASSUME NEW c \in Calls, ReadPrompt(c) PROVE PromptInv'
  <2>1. /\ UNCHANGED <<systemPrompt, args>> /\ pc[c] = "prompt"
        /\ pc'[c] = "history" /\ \A d \in Calls : d # c => pc'[d] = pc[d]
        /\ messages'[c] = <<System(systemPrompt[agent[c]])>>
        /\ \A d \in Calls : d # c => messages'[d] = messages[d]
    BY <1>6 DEF ReadPrompt, Goto, TypeOK
  <2>2. messages'[c] # <<>> /\ messages'[c][1] = System(systemPrompt[agent[c]])
    BY <2>1
  <2>3. agent[c] \notin SharedAgents => systemPrompt[agent[c]] = mode[c]
    BY <2>1 DEF PromptInv
  <2>4. RightPrompt'
    BY <2>1, <2>2, <2>3 DEF PromptInv, RightPrompt, args
  <2>5. \A d \in Calls : InProgress(d)' => InProgress(d)
    BY <2>1 DEF InProgress
  <2> QED BY <2>1, <2>2, <2>4, <2>5 DEF PromptInv, args
<1>7. ASSUME NEW c \in Calls, ReadHistory(c) PROVE PromptInv'
  <2>1. PICK n \in 0 .. Len(history) :
           messages' = [messages EXCEPT ![c] = Opening(@, history, n, User(c))]
    BY <1>7 DEF ReadHistory, Opening
  <2>2. /\ UNCHANGED <<systemPrompt, args>> /\ pc[c] = "history"
        /\ pc'[c] = "request" /\ \A d \in Calls : d # c => pc'[d] = pc[d]
    BY <1>7 DEF ReadHistory, Goto, TypeOK
  <2>3. /\ messages'[c] = Opening(messages[c], history, n, User(c))
        /\ \A d \in Calls : d # c => messages'[d] = messages[d]
    BY <2>1 DEF TypeOK
  <2>4. messages[c] # <<>> /\ 1 \in 1 .. Len(messages[c])
    BY <1>0, <2>2 DEF PromptInv, Asked
  <2>5. /\ messages'[c] \in Seq(Message) /\ Len(messages'[c]) = Len(messages[c]) + n + 1
        /\ \A i \in 1 .. Len(messages[c]) : messages'[c][i] = messages[c][i]
    <3>1. history \in Seq(Message) /\ messages[c] \in Seq(Message)
      BY DEF TypeOK
    <3>2. /\ Opening(messages[c], history, n, User(c)) \in Seq(Message)
          /\ Len(Opening(messages[c], history, n, User(c))) = Len(messages[c]) + n + 1
      BY <3>1, CallOpening
    <3>3. \A i \in 1 .. Len(messages[c]) :
             Opening(messages[c], history, n, User(c))[i] = messages[c][i]
      BY <3>1, CallOpening
    <3> QED BY <2>3, <3>2, <3>3
  <2>6. messages'[c] # <<>> /\ messages'[c][1] = messages[c][1]
    BY <1>0, <2>4, <2>5
  <2> QED BY <2>2, <2>3, <2>6, PromptGrows DEF Asked
<1>8. ASSUME NEW c \in Calls, AnswerWithTools(c) \/ RunTool(c) PROVE PromptInv'
  <2>1. PICK e \in Message : messages' = [messages EXCEPT ![c] = Append(@, e)]
    <3>1. RunTool(c) => next[c] \in 1 .. MaxTools
      BY DEF RunTool, TypeOK
    <3> QED BY <1>8, <3>1, MessageTypes DEF AnswerWithTools, RunTool
  <2>2. /\ UNCHANGED <<systemPrompt, args>> /\ pc[c] \in Asked /\ pc'[c] = "tools"
        /\ \A d \in Calls : d # c => pc'[d] = pc[d]
    BY <1>8 DEF AnswerWithTools, RunTool, Goto, Asked, TypeOK
  <2>3. /\ messages'[c] = Append(messages[c], e)
        /\ \A d \in Calls : d # c => messages'[d] = messages[d]
    BY <2>1 DEF TypeOK
  <2>4. messages[c] # <<>> /\ 1 \in 1 .. Len(messages[c])
    BY <1>0, <2>2 DEF PromptInv
  <2>5. messages'[c] # <<>> /\ messages'[c][1] = messages[c][1]
    BY <1>0, <2>3, <2>4, AppendFacts
  <2> QED BY <2>2, <2>3, <2>5, PromptGrows DEF Asked
<1> QED BY <1>1, <1>2, <1>3, <1>4, <1>5, <1>6, <1>7, <1>8 DEF Next, Local, Service

(* The system prompt of a request is that of the mode of its call, on      *)
(* agents that run one call at a time (SetDispatchMode, RunWithOptions).   *)
THEOREM RightPromptCorrect == Spec => []RightPrompt
<1>1. TypeOK /\ PromptInv /\ [Next]_vars => (TypeOK /\ PromptInv)'
  BY TypeOKInductive, PromptInductive
<1>2. PromptInv => RightPrompt
  BY DEF PromptInv
<1> QED BY TypeOKInitially, PromptInitially, <1>1, <1>2, PTL DEF Spec

-----------------------------------------------------------------------------
(* The results of tool calls: when the call executes tools, its last       *)
(* answer that names tools is followed by the results so far, and nothing  *)
(* else; all other answers have all their results.                         *)

Names(m) == "tools" \in DOMAIN m

Pending(s, i, t, n) ==
    /\ s[i].tools = t /\ i + n = Len(s) + 1
    /\ \A k \in 1 .. n - 1 : s[i + k] = Result(k)

AllAnswered(s) == \A i \in 1 .. Len(s) : Names(s[i]) => Answered(s, i)

AllButLast(s, t, n) ==
    \A i \in 1 .. Len(s) : Names(s[i]) => Answered(s, i) \/ Pending(s, i, t, n)

NamesNone(s) == \A i \in 1 .. Len(s) : ~Names(s[i])

ResultsInv ==
    /\ NamesNone(history)
    /\ \A c \in Calls :
          /\ pc[c] = "history" => NamesNone(messages[c])
          /\ pc[c] \in {"request", "model"} => AllAnswered(messages[c])
          /\ pc[c] = "tools" => AllButLast(messages[c], tools[c], next[c])

LEMMA NamesFacts ==
    /\ \A m \in Modes : ~Names(System(m))
    /\ \A c \in Calls : ~Names(User(c)) /\ ~Names(Assistant(c))
    /\ \A n \in 1 .. MaxTools : ~Names(Result(n)) /\ ToolCalls(n).tools = n
    /\ \A m \in Message : Names(m) => m.tools \in 1 .. MaxTools
  BY DEF Names, System, User, Assistant, Result, ToolCalls, Message

(* What the end of a sequence does not change.                             *)
LEMMA AnsweredAppend ==
    ASSUME NEW s \in Seq(Message), NEW e \in Message, NEW i \in 1 .. Len(s), Names(s[i]),
           Answered(s, i)
    PROVE  Answered(Append(s, e), i)
<1>1. s[i].tools \in Nat /\ Len(s) \in Nat
  BY NamesFacts
<1>2. Append(s, e)[i] = s[i] /\ Len(Append(s, e)) = Len(s) + 1
  BY AppendFacts
<1>3. \A k \in 1 .. s[i].tools : i + k \in 1 .. Len(s)
  BY <1>1 DEF Answered
<1> QED BY <1>1, <1>2, <1>3, AppendFacts DEF Answered

(* An answer that names tools.                                             *)
LEMMA AnswerFollows ==
    ASSUME NEW s \in Seq(Message), NEW n \in 1 .. MaxTools, AllAnswered(s)
    PROVE  AllButLast(Append(s, ToolCalls(n)), n, 1)
<1> DEFINE e == ToolCalls(n)
<1>1. e \in Message /\ e.tools = n
  BY MessageTypes, NamesFacts
<1> HIDE DEF e
<1>2. /\ Append(s, e) \in Seq(Message) /\ Len(s) \in Nat /\ Len(Append(s, e)) = Len(s) + 1
      /\ \A i \in 1 .. Len(s) : Append(s, e)[i] = s[i]
      /\ Append(s, e)[Len(s) + 1] = e
  BY <1>1, AppendFacts
<1>3. ASSUME NEW i \in 1 .. Len(Append(s, e)), Names(Append(s, e)[i])
      PROVE  Answered(Append(s, e), i) \/ Pending(Append(s, e), i, n, 1)
  <2>1. CASE i \in 1 .. Len(s)
    BY <1>1, <1>2, <1>3, <2>1, AnsweredAppend DEF AllAnswered
  <2>2. CASE i = Len(s) + 1
    BY <1>1, <1>2, <2>2 DEF Pending
  <2> QED BY <1>2, <2>1, <2>2
<1> QED BY <1>3 DEF AllButLast, e

(* The next result.                                                        *)
LEMMA ResultFollows ==
    ASSUME NEW s \in Seq(Message), NEW t \in 0 .. MaxTools, NEW n \in 1 .. t, AllButLast(s, t, n)
    PROVE  AllButLast(Append(s, Result(n)), t, n + 1)
<1> DEFINE e == Result(n)
<1>1. e \in Message /\ ~Names(e) /\ n \in Nat
  BY MessageTypes, NamesFacts
<1>2. e = Result(n)
  OBVIOUS
<1> HIDE DEF e
<1>3. /\ Append(s, e) \in Seq(Message) /\ Len(s) \in Nat /\ Len(Append(s, e)) = Len(s) + 1
      /\ \A i \in 1 .. Len(s) : Append(s, e)[i] = s[i]
      /\ Append(s, e)[Len(s) + 1] = e
  BY <1>1, AppendFacts
<1>4. ASSUME NEW i \in 1 .. Len(Append(s, e)), Names(Append(s, e)[i])
      PROVE  Answered(Append(s, e), i) \/ Pending(Append(s, e), i, t, n + 1)
  <2>1. i \in 1 .. Len(s) /\ Append(s, e)[i] = s[i] /\ Names(s[i])
    BY <1>1, <1>3, <1>4
  <2>2. CASE Answered(s, i)
    BY <1>1, <2>1, <2>2, AnsweredAppend
  <2>3. CASE Pending(s, i, t, n)
    <3>1. s[i].tools = t /\ i + n = Len(s) + 1 /\ \A k \in 1 .. n - 1 : s[i + k] = Result(k)
      BY <2>3 DEF Pending
    <3>2. ASSUME NEW k \in 1 .. n PROVE Append(s, e)[i + k] = Result(k)
      <4>1. CASE k = n
        BY <1>2, <1>3, <3>1, <4>1
      <4>2. CASE k # n
        <5>1. k \in 1 .. n - 1 /\ i + k \in 1 .. Len(s)
          BY <1>1, <1>3, <2>1, <3>1, <4>2
        <5> QED BY <1>3, <3>1, <5>1
      <4> QED BY <4>1, <4>2
    <3>3. i + (n + 1) = Len(Append(s, e)) + 1 /\ (n + 1) - 1 = n
      BY <1>1, <1>3, <2>1, <3>1
    <3> QED BY <2>1, <3>1, <3>2, <3>3 DEF Pending
  <2> QED BY <2>1, <2>2, <2>3 DEF AllButLast
<1> QED BY <1>2, <1>4 DEF AllButLast

(* The last result.                                                        *)
LEMMA ResultsEnd ==
    ASSUME NEW s \in Seq(Message), NEW t \in 0 .. MaxTools, NEW n \in 1 .. MaxTools + 1, n > t,
           AllButLast(s, t, n)
    PROVE  AllAnswered(s)
<1> SUFFICES ASSUME NEW i \in 1 .. Len(s), Names(s[i]), Pending(s, i, t, n) PROVE Answered(s, i)
  BY DEF AllAnswered, AllButLast
<1>1. Len(s) \in Nat /\ \A k \in 1 .. t : k \in 1 .. n - 1 /\ i + k <= Len(s)
  BY DEF Pending
<1> QED BY <1>1 DEF Pending, Answered

(* The messages a call starts with name no tools.                          *)
LEMMA OpeningNamesNone ==
    ASSUME NEW c \in Calls, NEW s \in Seq(Message), NEW h \in Seq(Message),
           NEW n \in 0 .. Len(h), NamesNone(s), NamesNone(h)
    PROVE  AllAnswered(Opening(s, h, n, User(c)))
<1> DEFINE m == Opening(s, h, n, User(c))
<1>1. /\ Len(m) = Len(s) + n + 1 /\ Len(s) \in Nat /\ Len(h) \in Nat /\ n \in Nat
  BY CallOpening
<1>2. \A i \in 1 .. Len(s) : m[i] = s[i]
  BY CallOpening
<1>3. \A i \in 1 .. n : m[Len(s) + i] = h[i]
  BY CallOpening
<1>4. m[Len(s) + n + 1] = User(c)
  BY CallOpening
<1> HIDE DEF m
<1>5. ASSUME NEW i \in 1 .. Len(m) PROVE ~Names(m[i])
  <2>1. CASE i \in 1 .. Len(s)
    BY <1>2, <2>1 DEF NamesNone
  <2>2. CASE i \in Len(s) + 1 .. Len(s) + n
    <3>1. i - Len(s) \in 1 .. n /\ i = Len(s) + (i - Len(s)) /\ i - Len(s) \in 1 .. Len(h)
      BY <1>1, <2>2
    <3>2. m[i] = h[i - Len(s)]
      BY <1>3, <3>1
    <3> QED BY <3>1, <3>2 DEF NamesNone
  <2>3. CASE i = Len(s) + n + 1
    BY <1>4, <2>3, NamesFacts
  <2> QED BY <1>1, <2>1, <2>2, <2>3
<1>6. AllAnswered(m)
  BY <1>5 DEF AllAnswered
<1> QED BY <1>6 DEF m

LEMMA ResultsInitially == Init => ResultsInv
  BY DEF Init, ResultsInv, NamesNone

LEMMA ResultsInductive == TypeOK /\ ResultsInv /\ [Next]_vars => ResultsInv'
<1> SUFFICES ASSUME TypeOK, ResultsInv, [Next]_vars PROVE ResultsInv'
  OBVIOUS
<1> USE DEF shared, args, locals
<1>0. /\ pc \in [Calls -> Points] /\ history \in Seq(Message)
      /\ messages \in [Calls -> Seq(Message)]
      /\ \A c \in Calls : messages[c] \in Seq(Message)
      /\ tools \in [Calls -> 0 .. MaxTools] /\ next \in [Calls -> 1 .. MaxTools + 1]
  BY DEF TypeOK
<1>1. ASSUME NEW c \in Calls, NEW r, Return(c, r) PROVE ResultsInv'
  BY <1>0, <1>1 DEF Return, Goto, ResultsInv
<1>2. ASSUME NEW c \in Calls, Begin(c) \/ Cancel(c) \/ SetDispatchMode(c) \/ Query(c)
                              \/ Request(c) \/ FinalAnswer(c)
      PROVE  ResultsInv'
  <2>1. /\ UNCHANGED <<history, messages, tools, next>>
        /\ \/ pc' = pc
           \/ \E p \in {"ping", "query", "prompt", "saveUser"} : pc' = [pc EXCEPT ![c] = p]
           \/ pc[c] = "request" /\ pc' = [pc EXCEPT ![c] = "model"]
    BY <1>2 DEF Begin, Cancel, SetDispatchMode, Query, Request, FinalAnswer, Goto
  <2> QED BY <1>0, <2>1 DEF ResultsInv
<1>3. ASSUME NEW c \in Calls, ReadPrompt(c) PROVE ResultsInv'
  <2>1. NamesNone(<<System(systemPrompt[agent[c]])>>)
    BY NamesFacts DEF NamesNone, TypeOK
  <2>2. /\ UNCHANGED <<history, tools, next>>
        /\ pc'[c] = "history" /\ messages'[c] = <<System(systemPrompt[agent[c]])>>
        /\ \A d \in Calls : d # c => pc'[d] = pc[d] /\ messages'[d] = messages[d]
    BY <1>0, <1>3 DEF ReadPrompt, Goto
  <2> QED BY <2>1, <2>2 DEF ResultsInv
<1>4. ASSUME NEW c \in Calls, ReadHistory(c) PROVE ResultsInv'
  <2>1. PICK n \in 0 .. Len(history) :
           messages' = [messages EXCEPT ![c] = Opening(@, history, n, User(c))]
    BY <1>4 DEF ReadHistory, Opening
  <2>2. /\ UNCHANGED <<history, tools, next>> /\ pc[c] = "history"
        /\ pc'[c] = "request" /\ messages'[c] = Opening(messages[c], history, n, User(c))
        /\ \A d \in Calls : d # c => pc'[d] = pc[d] /\ messages'[d] = messages[d]
    BY <1>0, <1>4, <2>1 DEF ReadHistory, Goto
  <2>3. AllAnswered(Opening(messages[c], history, n, User(c)))
    BY <1>0, <2>2, OpeningNamesNone DEF ResultsInv
  <2> QED BY <2>2, <2>3 DEF ResultsInv
<1>5. ASSUME NEW c \in Calls, AnswerWithTools(c) PROVE ResultsInv'
  <2>1. PICK n \in 1 .. MaxTools :
           /\ messages' = [messages EXCEPT ![c] = Append(@, ToolCalls(n))]
           /\ tools' = [tools EXCEPT ![c] = n]
    BY <1>5 DEF AnswerWithTools
  <2>2. /\ UNCHANGED history /\ pc[c] = "model" /\ pc'[c] = "tools"
        /\ messages'[c] = Append(messages[c], ToolCalls(n)) /\ tools'[c] = n /\ next'[c] = 1
        /\ \A d \in Calls : d # c =>
              /\ pc'[d] = pc[d] /\ messages'[d] = messages[d]
              /\ tools'[d] = tools[d] /\ next'[d] = next[d]
    BY <1>0, <1>5, <2>1 DEF AnswerWithTools, Goto
  <2>3. AllButLast(messages'[c], n, 1)
    BY <1>0, <2>2, AnswerFollows DEF ResultsInv
  <2> QED BY <2>2, <2>3 DEF ResultsInv
<1>6. ASSUME NEW c \in Calls, RunTool(c) PROVE ResultsInv'
  <2>1. /\ UNCHANGED <<history, pc, tools>> /\ pc[c] = "tools"
        /\ messages'[c] = Append(messages[c], Result(next[c])) /\ next'[c] = next[c] + 1
        /\ \A d \in Calls : d # c => messages'[d] = messages[d] /\ next'[d] = next[d]
        /\ tools[c] \in 0 .. MaxTools /\ next[c] \in 1 .. tools[c]
    BY <1>0, <1>6 DEF RunTool
  <2>2. AllButLast(messages'[c], tools[c], next[c] + 1)
    BY <1>0, <2>1, ResultFollows DEF ResultsInv
  <2> QED BY <2>1, <2>2 DEF ResultsInv
<1>7. ASSUME NEW c \in Calls, ToolsDone(c) PROVE ResultsInv'
  <2>1. /\ UNCHANGED <<history, messages, tools, next>> /\ pc[c] = "tools"
        /\ pc'[c] = "request" /\ \A d \in Calls : d # c => pc'[d] = pc[d]
        /\ tools[c] \in 0 .. MaxTools /\ next[c] \in 1 .. MaxTools + 1 /\ next[c] > tools[c]
    BY <1>0, <1>7 DEF ToolsDone, Goto
  <2>2. AllAnswered(messages[c])
    BY <1>0, <2>1, ResultsEnd DEF ResultsInv
  <2> QED BY <2>1, <2>2 DEF ResultsInv
<1>8. ASSUME NEW c \in Calls, SaveUser(c) \/ SaveAssistant(c) PROVE ResultsInv'
  <2>1. PICK e \in {User(c), Assistant(c)} :
           /\ history' \in {history, Append(history, e)}
           /\ UNCHANGED <<messages, tools, next>>
           /\ \E p \in {"saveAssistant", "done"} : pc' = [pc EXCEPT ![c] = p]
    BY <1>8 DEF SaveUser, SaveAssistant, Save, Goto
  <2>2. e \in Message /\ ~Names(e)
    BY MessageTypes, NamesFacts
  <2>3. NamesNone(Append(history, e))
    <3>1. /\ Append(history, e) \in Seq(Message) /\ Len(history) \in Nat
          /\ Len(Append(history, e)) = Len(history) + 1
          /\ \A i \in 1 .. Len(history) : Append(history, e)[i] = history[i]
          /\ Append(history, e)[Len(history) + 1] = e
      BY <1>0, <2>2, AppendFacts
    <3>2. \A i \in 1 .. Len(history) + 1 : i \in 1 .. Len(history) \/ i = Len(history) + 1
      BY <3>1
    <3> QED BY <2>2, <3>1, <3>2 DEF ResultsInv, NamesNone
  <2> QED BY <1>0, <2>1, <2>3 DEF ResultsInv
<1>9. CASE Finished \/ UNCHANGED vars
  BY <1>9 DEF Finished, vars, ResultsInv
<1> QED BY <1>1, <1>2, <1>3, <1>4, <1>5, <1>6, <1>7, <1>8, <1>9
        DEF Next, Local, Service, Exhausted, BlankAnswer, Fails, Cancelled

(* In every request each tool call of an earlier answer is followed by its *)
(* results, in order, for any limits (RunWithOptions).                     *)
THEOREM ToolCallsAnsweredCorrect == Spec => []ToolCallsAnswered
<1>1. TypeOK /\ ResultsInv /\ [Next]_vars => (TypeOK /\ ResultsInv)'
  BY TypeOKInductive, ResultsInductive
<1>2. ResultsInv => ToolCallsAnswered
  BY DEF ResultsInv, ToolCallsAnswered, AllAnswered, Names
<1> QED BY TypeOKInitially, ResultsInitially, <1>1, <1>2, PTL DEF Spec

-----------------------------------------------------------------------------
(* The history: a call writes in its last two steps only, and returns "ok" *)
(* in the second of them.                                                  *)

CallMessages == {User(c) : c \in Calls} \cup {Assistant(c) : c \in Calls}

HistoryInv ==
    /\ \A i \in 1 .. Len(history) : history[i] \in CallMessages
    /\ \A c \in Calls : result[c] = "ok" => pc[c] = "done"
    /\ \A c \in Calls : pc[c] = "saveAssistant" /\ ~saveFailed[c] => Saved(c, User(c))
    /\ HistoryTrue

LEMMA CallMessageFacts ==
    /\ \A c \in Calls : User(c).call = c /\ Assistant(c).call = c
    /\ \A c \in Calls : \A d \in Calls : User(c) # Assistant(d)
    /\ \A m \in CallMessages : m.call \in Calls /\ m \in Message
  BY DEF CallMessages, User, Assistant, Message

LEMMA HistoryInitially == Init => HistoryInv
  BY DEF Init, HistoryInv, HistoryTrue

(* A step that saves nothing and ends no call well.                        *)
LEMMA HistoryUntouched ==
    ASSUME HistoryInv, UNCHANGED <<history, saveFailed>>,
           \A c \in Calls : \/ pc'[c] = pc[c] /\ result'[c] = result[c]
                            \/ /\ pc[c] \notin {"saveAssistant", "done"}
                               /\ pc'[c] # "saveAssistant" /\ result'[c] # "ok"
    PROVE  HistoryInv'
<1>1. \A c \in Calls : (result'[c] = "ok") = (result[c] = "ok")
  BY DEF HistoryInv
<1>2. \A c \in Calls : (pc'[c] = "saveAssistant") = (pc[c] = "saveAssistant")
  OBVIOUS
<1>3. \A i \in 1 .. Len(history) : history[i].call \in Calls
  BY CallMessageFacts DEF HistoryInv
<1>4. HistoryTrue'
  BY <1>1, <1>2, <1>3 DEF HistoryInv, HistoryTrue, Saved
<1> QED BY <1>1, <1>2, <1>4 DEF HistoryInv, Saved

(* A step that saves a message e of the call c.                            *)
LEMMA HistoryAppend ==
    ASSUME TypeOK, HistoryInv, NEW c \in Calls, NEW e \in {User(c), Assistant(c)},
           history' = Append(history, e),
           \A i \in 1 .. Len(history) : history[i].call = c =>
               history[i] = User(c) /\ e = Assistant(c)
    PROVE  /\ \A i \in 1 .. Len(history') :
                 history'[i] \in CallMessages
                 /\ ((i \in 1 .. Len(history) /\ history'[i] = history[i])
                     \/ (i = Len(history) + 1 /\ history'[i] = e))
           /\ \A i, j \in 1 .. Len(history') : history'[i] = history'[j] => i = j
           /\ \A i \in 1 .. Len(history') : \A j \in 1 .. i :
                 history'[i].call = history'[j].call =>
                     i = j \/ history'[i] = Assistant(history'[i].call)
           /\ \A d \in Calls : \A m : Saved(d, m) => Saved(d, m)'
           /\ Saved(c, e)'
<1>0. history \in Seq(Message) /\ e \in CallMessages /\ e \in Message /\ e.call = c
  BY CallMessageFacts DEF TypeOK, CallMessages
<1>1. /\ history' \in Seq(Message) /\ Len(history) \in Nat /\ Len(history') = Len(history) + 1
      /\ \A i \in 1 .. Len(history) : history'[i] = history[i]
      /\ history'[Len(history) + 1] = e
  BY <1>0, AppendFacts
<1>2. \A i \in 1 .. Len(history') :
         (i \in 1 .. Len(history) /\ history'[i] = history[i])
         \/ (i = Len(history) + 1 /\ history'[i] = e)
  BY <1>1
<1>3. \A i \in 1 .. Len(history) : history[i] # e
  BY <1>0, CallMessageFacts
<1>4. \A i \in 1 .. Len(history') : history'[i] \in CallMessages
  BY <1>0, <1>2 DEF HistoryInv
<1>5. ASSUME NEW i \in 1 .. Len(history'), NEW j \in 1 .. Len(history'), history'[i] = history'[j]
      PROVE  i = j
  BY <1>2, <1>3, <1>5 DEF HistoryInv, HistoryTrue
<1>6. ASSUME NEW i \in 1 .. Len(history'), NEW j \in 1 .. i, history'[i].call = history'[j].call
      PROVE  i = j \/ history'[i] = Assistant(history'[i].call)
  <2>1. CASE i \in 1 .. Len(history)
    <3>1. j \in 1 .. Len(history) /\ history'[i] = history[i] /\ history'[j] = history[j]
      BY <1>1, <2>1
    <3> QED BY <1>6, <2>1, <3>1 DEF HistoryInv, HistoryTrue
  <2>2. CASE i = Len(history) + 1 /\ j # i
    <3>1. j \in 1 .. Len(history) /\ history'[j] = history[j] /\ history'[i] = e
      BY <1>1, <2>2
    <3> QED BY <1>0, <1>6, <3>1
  <2> QED BY <1>2, <2>1, <2>2
<1>7. \A d \in Calls : \A m : Saved(d, m) => Saved(d, m)'
  <2>1. \A i \in 1 .. Len(history) : i \in 1 .. Len(history')
    BY <1>1
  <2> QED BY <1>1, <2>1 DEF Saved
<1>8. Saved(c, e)'
  <2>1. Len(history) + 1 \in 1 .. Len(history')
    BY <1>1
  <2> QED BY <1>1, <2>1 DEF Saved
<1> QED BY <1>2, <1>4, <1>5, <1>6, <1>7, <1>8

LEMMA HistoryInductive == TypeOK /\ HistoryInv /\ [Next]_vars => HistoryInv'
<1> SUFFICES ASSUME TypeOK, HistoryInv, [Next]_vars PROVE HistoryInv'
  OBVIOUS
<1> USE DEF shared, locals
<1>0. /\ pc \in [Calls -> Points] /\ result \in [Calls -> Results]
      /\ saveFailed \in [Calls -> BOOLEAN]
  BY DEF TypeOK
<1>1. ASSUME NEW c \in Calls,
             Begin(c) \/ Cancel(c) \/ SetDispatchMode(c) \/ Query(c) \/ ReadPrompt(c)
                 \/ ReadHistory(c) \/ Request(c) \/ AnswerWithTools(c) \/ FinalAnswer(c)
                 \/ RunTool(c) \/ ToolsDone(c)
      PROVE  HistoryInv'
  <2>1. /\ UNCHANGED <<history, saveFailed, result>>
        /\ \/ pc' = pc
           \/ /\ pc[c] \notin {"saveAssistant", "done"}
              /\ \E p \in Points \ {"saveAssistant"} : pc' = [pc EXCEPT ![c] = p]
    BY <1>1 DEF Begin, Cancel, SetDispatchMode, Query, ReadPrompt, ReadHistory, Request,
                AnswerWithTools, FinalAnswer, RunTool, ToolsDone, Goto, Points
  <2> QED BY <1>0, <2>1, HistoryUntouched DEF HistoryInv
<1>2. ASSUME NEW c \in Calls, Exhausted(c) \/ BlankAnswer(c) \/ Fails(c) \/ Cancelled(c)
      PROVE  HistoryInv'
  <2>1. /\ UNCHANGED <<history, saveFailed>>
        /\ pc[c] \notin {"saveAssistant", "done"} /\ pc' = [pc EXCEPT ![c] = "done"]
        /\ \E r \in Results \ {"ok"} : result' = [result EXCEPT ![c] = r]
    BY <1>2 DEF Exhausted, BlankAnswer, Fails, Cancelled, Return, Goto, Results
  <2> QED BY <1>0, <2>1, HistoryUntouched
<1>3. CASE Finished \/ UNCHANGED vars
  BY <1>3, HistoryUntouched DEF Finished, vars
<1>4. ASSUME NEW c \in Calls, NEW p, NEW e \in {User(c), Assistant(c)}, Save(c, e, p)
      PROVE  /\ pc'[c] = p
             /\ \A d \in Calls : d # c => pc'[d] = pc[d] /\ saveFailed'[d] = saveFailed[d]
             /\ \/ history' = history /\ saveFailed'[c]
                \/ history' = Append(history, e) /\ saveFailed' = saveFailed
  BY <1>0, <1>4 DEF Save, Goto
<1>5. ASSUME NEW c \in Calls, SaveUser(c) PROVE HistoryInv'
  <2>1. pc[c] = "saveUser" /\ Save(c, User(c), "saveAssistant") /\ result' = result
    BY <1>5 DEF SaveUser
  <2>2. /\ pc'[c] = "saveAssistant" /\ result[c] # "ok"
        /\ \A d \in Calls : d # c => pc'[d] = pc[d] /\ saveFailed'[d] = saveFailed[d]
    BY <1>4, <2>1 DEF HistoryInv
  <2>3. \A i \in 1 .. Len(history) : history[i].call # c /\ history[i].call \in Calls
    BY <2>1, <2>2, CallMessageFacts DEF HistoryInv, HistoryTrue
  <2>4. CASE history' = history /\ saveFailed'[c]
    <3>1. HistoryTrue'
      BY <2>1, <2>2, <2>3, <2>4 DEF HistoryInv, HistoryTrue, Saved
    <3> QED BY <2>1, <2>2, <2>4, <3>1 DEF HistoryInv, Saved
  <2>5. CASE history' = Append(history, User(c)) /\ saveFailed' = saveFailed
    <3> DEFINE e == User(c)
    <3>1. /\ \A i \in 1 .. Len(history') :
                history'[i] \in CallMessages
                /\ ((i \in 1 .. Len(history) /\ history'[i] = history[i])
                    \/ (i = Len(history) + 1 /\ history'[i] = e))
          /\ \A i, j \in 1 .. Len(history') : history'[i] = history'[j] => i = j
          /\ \A i \in 1 .. Len(history') : \A j \in 1 .. i :
                history'[i].call = history'[j].call =>
                    i = j \/ history'[i] = Assistant(history'[i].call)
          /\ \A d \in Calls : \A m : Saved(d, m) => Saved(d, m)'
          /\ Saved(c, e)'
      BY <2>3, <2>5, HistoryAppend
    <3>2. e.call = c
      BY CallMessageFacts
    <3>3. \A i \in 1 .. Len(history') :
             \/ result'[history'[i].call] = "ok"
             \/ pc'[history'[i].call] = "saveAssistant" /\ history'[i] = User(history'[i].call)
      BY <2>1, <2>2, <2>3, <3>1, <3>2 DEF HistoryInv, HistoryTrue
    <3>4. \A d \in Calls : result'[d] = "ok" /\ ~saveFailed'[d] =>
             Saved(d, User(d))' /\ Saved(d, Assistant(d))'
      BY <2>1, <2>5, <3>1 DEF HistoryInv, HistoryTrue
    <3>5. \A d \in Calls : pc'[d] = "saveAssistant" /\ ~saveFailed'[d] => Saved(d, User(d))'
      BY <2>2, <2>5, <3>1 DEF HistoryInv
    <3>6. \A d \in Calls : result'[d] = "ok" => pc'[d] = "done"
      BY <2>1, <2>2 DEF HistoryInv
    <3> QED BY <3>1, <3>3, <3>4, <3>5, <3>6 DEF HistoryInv, HistoryTrue
  <2> QED BY <1>4, <2>1, <2>4, <2>5
<1>6. ASSUME NEW c \in Calls, SaveAssistant(c) PROVE HistoryInv'
  <2>1. pc[c] = "saveAssistant" /\ Save(c, Assistant(c), "done") /\ result'[c] = "ok"
        /\ \A d \in Calls : d # c => result'[d] = result[d]
    BY <1>0, <1>6 DEF SaveAssistant
  <2>2. /\ pc'[c] = "done" /\ result[c] # "ok"
        /\ \A d \in Calls : d # c => pc'[d] = pc[d] /\ saveFailed'[d] = saveFailed[d]
    BY <1>4, <2>1 DEF HistoryInv
  <2>3. \A i \in 1 .. Len(history) :
           history[i].call \in Calls /\ (history[i].call = c => history[i] = User(c))
    BY <2>1, <2>2, CallMessageFacts DEF HistoryInv, HistoryTrue
  <2>4. \A d \in Calls : result'[d] = "ok" => pc'[d] = "done"
    BY <2>1, <2>2 DEF HistoryInv
  <2>5. CASE history' = history /\ saveFailed'[c]
    <3>1. HistoryTrue'
      BY <2>1, <2>2, <2>3, <2>5 DEF HistoryInv, HistoryTrue, Saved
    <3> QED BY <2>1, <2>2, <2>4, <2>5, <3>1 DEF HistoryInv, Saved
  <2>6. CASE history' = Append(history, Assistant(c)) /\ saveFailed' = saveFailed
    <3> DEFINE e == Assistant(c)
    <3>1. /\ \A i \in 1 .. Len(history') :
                history'[i] \in CallMessages
                /\ ((i \in 1 .. Len(history) /\ history'[i] = history[i])
                    \/ (i = Len(history) + 1 /\ history'[i] = e))
          /\ \A i, j \in 1 .. Len(history') : history'[i] = history'[j] => i = j
          /\ \A i \in 1 .. Len(history') : \A j \in 1 .. i :
                history'[i].call = history'[j].call =>
                    i = j \/ history'[i] = Assistant(history'[i].call)
          /\ \A d \in Calls : \A m : Saved(d, m) => Saved(d, m)'
          /\ Saved(c, e)'
      BY <2>3, <2>6, HistoryAppend
    <3>2. e.call = c
      BY CallMessageFacts
    <3>3. \A i \in 1 .. Len(history') :
             \/ result'[history'[i].call] = "ok"
             \/ pc'[history'[i].call] = "saveAssistant" /\ history'[i] = User(history'[i].call)
      BY <2>1, <2>2, <2>3, <3>1, <3>2 DEF HistoryInv, HistoryTrue
    <3>4. \A d \in Calls : result'[d] = "ok" /\ ~saveFailed'[d] =>
             Saved(d, User(d))' /\ Saved(d, Assistant(d))'
      BY <2>1, <2>6, <3>1 DEF HistoryInv, HistoryTrue
    <3>5. \A d \in Calls : pc'[d] = "saveAssistant" /\ ~saveFailed'[d] => Saved(d, User(d))'
      BY <2>2, <2>6, <3>1 DEF HistoryInv
    <3> QED BY <2>4, <3>1, <3>3, <3>4, <3>5 DEF HistoryInv, HistoryTrue
  <2> QED BY <1>4, <2>1, <2>5, <2>6
<1> QED BY <1>1, <1>2, <1>3, <1>5, <1>6 DEF Next, Local, Service

(* The session remembers answered prompts only, each once, the answer      *)
(* after its prompt; a gap means that a message could not be saved         *)
(* (RunWithOptions, SaveMessage).                                          *)
THEOREM HistoryTrueCorrect == Spec => []HistoryTrue
<1>1. TypeOK /\ HistoryInv /\ [Next]_vars => (TypeOK /\ HistoryInv)'
  BY TypeOKInductive, HistoryInductive
<1>2. HistoryInv => HistoryTrue
  BY DEF HistoryInv
<1> QED BY TypeOKInitially, HistoryInitially, <1>1, <1>2, PTL DEF Spec

-----------------------------------------------------------------------------
(* A call is bounded: what is left of it gets less with each of its steps, *)
(* and no step of another call or of the user adds to it.                  *)

(* The steps of the iterations that are left after the i-th.               *)
Left(i) == (MaxIterations - i) * (MaxTools + 4)

(* The steps a call can still take: eight around the iterations, four and  *)
(* one for each tool in an iteration.                                      *)
Remaining(c) ==
    CASE pc[c] = "idle"          -> Left(0) + 8
      [] pc[c] = "ping"          -> Left(0) + 7
      [] pc[c] = "query"         -> Left(0) + 6
      [] pc[c] = "prompt"        -> Left(0) + 5
      [] pc[c] = "history"       -> Left(0) + 4
      [] pc[c] = "request"       -> Left(iteration[c]) + 3
      [] pc[c] = "model"         -> Left(iteration[c]) + MaxTools + 6
      [] pc[c] = "tools"         -> Left(iteration[c]) + MaxTools + 5 - next[c]
      [] pc[c] = "saveUser"      -> 2
      [] pc[c] = "saveAssistant" -> 1
      [] pc[c] = "done"          -> 0

Moves(c) == Begin(c) \/ Local(c) \/ Service(c)

(* The same bound for every call, whenever it is looked at.                *)
Bounded == \A c \in Calls : Remaining(c) \in 0 .. Left(0) + 8

(* A step of a call leaves it less to do; no other step gives it more.     *)
Decreases == \A c \in Calls :
    Remaining(c)' <= Remaining(c) /\ (Moves(c) => Remaining(c)' < Remaining(c))

(* A call takes a bounded number of steps, whatever the services answer.   *)
CallIsBounded == []Bounded /\ [][Decreases]_vars

LEMMA LeftFacts ==
    /\ \A i \in 0 .. MaxIterations : Left(i) \in Nat /\ Left(i) <= Left(0)
    /\ \A i \in 0 .. MaxIterations : i < MaxIterations =>
          Left(i + 1) + MaxTools + 4 = Left(i)
<1>1. \A k, w \in Nat : k * w \in Nat
  OBVIOUS
<1>2. \A j, k, w \in Nat : j <= k => j * w <= k * w
  <2> SUFFICES ASSUME NEW j \in Nat, NEW k \in Nat, NEW w \in Nat, j <= k
               PROVE  j * w <= k * w
    OBVIOUS
  <2>1. k - j \in Nat /\ (k - j) * w \in Nat
    BY <1>1
  <2>2. k * w = j * w + (k - j) * w
    OBVIOUS
  <2>3. j * w \in Nat
    BY <1>1
  <2> QED BY <2>1, <2>2, <2>3
<1>3. ASSUME NEW i \in 0 .. MaxIterations
      PROVE  Left(i) \in Nat /\ Left(i) <= Left(0)
  BY <1>1, <1>2 DEF Left
<1>4. ASSUME NEW i \in 0 .. MaxIterations, i < MaxIterations
      PROVE  Left(i + 1) + MaxTools + 4 = Left(i)
  <2> DEFINE w == MaxTools + 4
  <2>1. ASSUME NEW k \in Int, NEW v \in Int
        PROVE  (k - 1) * v + v = k * v
    OBVIOUS
  <2>2. MaxIterations - (i + 1) = (MaxIterations - i) - 1
    OBVIOUS
  <2>3. (MaxIterations - i - 1) * w + w = (MaxIterations - i) * w
    BY <2>1
  <2>4. w = MaxTools + 4 /\ w \in Int /\ ((MaxIterations - i) - 1) * w \in Int
    OBVIOUS
  <2>5. Left(i + 1) = ((MaxIterations - i) - 1) * w /\ Left(i) = (MaxIterations - i) * w
    BY <2>2 DEF Left
  <2> HIDE DEF w
  <2> QED BY <2>3, <2>4, <2>5
<1> QED BY <1>3, <1>4

LEMMA RemainingType ==
    ASSUME TypeOK, NEW c \in Calls
    PROVE  Remaining(c) \in Nat
<1>1. /\ pc[c] \in Points /\ iteration[c] \in 0 .. MaxIterations
      /\ next[c] \in Nat /\ next[c] <= MaxTools + 1
  BY DEF TypeOK
<1>2. Left(0) \in Nat /\ Left(iteration[c]) \in Nat
  BY <1>1, LeftFacts
<1> QED BY <1>1, <1>2 DEF Remaining, Points

LEMMA RemainingStays ==
    ASSUME NEW c \in Calls, UNCHANGED <<pc[c], iteration[c], next[c]>>
    PROVE  Remaining(c)' = Remaining(c)
  BY DEF Remaining

(* One step of a call.                                                     *)
LEMMA MoveDecreases ==
    ASSUME TypeOK, NEW c \in Calls, Moves(c)
    PROVE  Remaining(c)' < Remaining(c)
<1> USE DEF shared, args, locals
<1>0. /\ pc \in [Calls -> Points] /\ pc[c] \in Points
      /\ iteration \in [Calls -> 0 .. MaxIterations] /\ iteration[c] \in 0 .. MaxIterations
      /\ next \in [Calls -> 1 .. MaxTools + 1] /\ next[c] \in 1 .. MaxTools + 1
      /\ tools[c] \in 0 .. MaxTools
  BY DEF TypeOK
<1>1. /\ Left(0) \in Nat /\ Left(iteration[c]) \in Nat
      /\ Left(iteration[c]) <= Left(0)
      /\ iteration[c] < MaxIterations =>
            /\ Left(iteration[c] + 1) \in Nat
            /\ Left(iteration[c] + 1) + MaxTools + 4 = Left(iteration[c])
  BY <1>0, LeftFacts
<1>2. ASSUME NEW r, Return(c, r), pc[c] \notin {"done"}
      PROVE  Remaining(c)' < Remaining(c)
  <2>1. pc'[c] = "done"
    BY <1>0, <1>2 DEF Return, Goto
  <2>2. Remaining(c)' = 0
    BY <2>1 DEF Remaining
  <2>3. Remaining(c) > 0
    BY <1>0, <1>1, <1>2 DEF Remaining, Points
  <2> QED BY <2>2, <2>3
<1>3. CASE Begin(c) \/ SetDispatchMode(c) \/ Query(c) \/ ReadPrompt(c)
  <2>1. \/ pc[c] = "idle"   /\ pc'[c] = "ping"
        \/ pc[c] = "ping"   /\ pc'[c] = "query"
        \/ pc[c] = "query"  /\ pc'[c] = "prompt"
        \/ pc[c] = "prompt" /\ pc'[c] = "history"
    BY <1>0, <1>3 DEF Begin, SetDispatchMode, Query, ReadPrompt, Goto
  <2> QED BY <1>1, <2>1 DEF Remaining
<1>4. CASE ReadHistory(c)
  <2>1. pc[c] = "history" /\ pc'[c] = "request" /\ iteration' = iteration
    BY <1>0, <1>4 DEF ReadHistory, Goto
  <2>2. Remaining(c) = Left(0) + 4 /\ Remaining(c)' = Left(iteration[c]) + 3
    BY <2>1 DEF Remaining
  <2> QED BY <1>1, <2>2
<1>5. CASE Request(c)
  <2>1. /\ pc[c] = "request" /\ pc'[c] = "model"
        /\ iteration[c] < MaxIterations /\ iteration'[c] = iteration[c] + 1
    BY <1>0, <1>5 DEF Request, Goto
  <2>2. /\ Remaining(c) = Left(iteration[c]) + 3
        /\ Remaining(c)' = Left(iteration[c] + 1) + MaxTools + 6
    BY <2>1 DEF Remaining
  <2> QED BY <1>1, <2>1, <2>2
<1>6. CASE AnswerWithTools(c)
  <2>1. pc[c] = "model" /\ pc'[c] = "tools" /\ iteration' = iteration /\ next'[c] = 1
    BY <1>0, <1>6 DEF AnswerWithTools, Goto
  <2>2. /\ Remaining(c) = Left(iteration[c]) + MaxTools + 6
        /\ Remaining(c)' = Left(iteration[c]) + MaxTools + 5 - 1
    BY <2>1 DEF Remaining
  <2> QED BY <1>1, <2>2
<1>7. CASE RunTool(c)
  <2>1. pc[c] = "tools" /\ pc'[c] = "tools" /\ iteration' = iteration
        /\ next'[c] = next[c] + 1
    BY <1>0, <1>7 DEF RunTool
  <2>2. /\ Remaining(c) = Left(iteration[c]) + MaxTools + 5 - next[c]
        /\ Remaining(c)' = Left(iteration[c]) + MaxTools + 5 - (next[c] + 1)
    BY <2>1 DEF Remaining
  <2> QED BY <1>0, <1>1, <2>2
<1>8. CASE ToolsDone(c)
  <2>1. pc[c] = "tools" /\ pc'[c] = "request" /\ iteration' = iteration
    BY <1>0, <1>8 DEF ToolsDone, Goto
  <2>2. /\ Remaining(c) = Left(iteration[c]) + MaxTools + 5 - next[c]
        /\ Remaining(c)' = Left(iteration[c]) + 3
    BY <2>1 DEF Remaining
  <2> QED BY <1>0, <1>1, <2>2
<1>9. CASE FinalAnswer(c) \/ SaveUser(c) \/ SaveAssistant(c)
  <2>1. \/ pc[c] = "model"         /\ pc'[c] = "saveUser"
        \/ pc[c] = "saveUser"      /\ pc'[c] = "saveAssistant"
        \/ pc[c] = "saveAssistant" /\ pc'[c] = "done"
    BY <1>0, <1>9 DEF FinalAnswer, SaveUser, SaveAssistant, Save, Goto
  <2> QED BY <1>1, <2>1 DEF Remaining
<1>10. CASE Exhausted(c) \/ BlankAnswer(c) \/ Fails(c) \/ Cancelled(c)
  BY <1>2, <1>10 DEF Exhausted, BlankAnswer, Fails, Cancelled
<1> QED BY <1>3, <1>4, <1>5, <1>6, <1>7, <1>8, <1>9, <1>10 DEF Moves, Local, Service

(* A step of another call, of the user or of nobody.                       *)
LEMMA OthersLeaveRemaining ==
    ASSUME TypeOK, [Next]_vars, NEW c \in Calls, ~Moves(c)
    PROVE  Remaining(c)' = Remaining(c)
<1> USE DEF shared, args, locals
<1>0. /\ pc \in [Calls -> Points] /\ iteration \in [Calls -> 0 .. MaxIterations]
      /\ next \in [Calls -> 1 .. MaxTools + 1]
  BY DEF TypeOK
<1>1. CASE (\E d \in Calls : Cancel(d)) \/ Finished \/ UNCHANGED vars
  <2>1. UNCHANGED <<pc, iteration, next>>
    BY <1>1 DEF Cancel, Finished, vars
  <2> QED BY <2>1, RemainingStays
<1>2. ASSUME NEW d \in Calls, Moves(d)
      PROVE  Remaining(c)' = Remaining(c)
  <2>1. d # c
    BY <1>2
  <2>2. CASE Begin(d) \/ SetDispatchMode(d) \/ Query(d) \/ ReadPrompt(d) \/ ReadHistory(d)
             \/ ToolsDone(d) \/ FinalAnswer(d)
    <3>1. pc'[c] = pc[c] /\ UNCHANGED <<iteration, next>>
      BY <1>0, <2>1, <2>2 DEF Begin, SetDispatchMode, Query, ReadPrompt, ReadHistory,
         ToolsDone, FinalAnswer, Goto
    <3> QED BY <3>1, RemainingStays
  <2>3. CASE Request(d) \/ AnswerWithTools(d) \/ RunTool(d)
    <3>1. pc'[c] = pc[c] /\ iteration'[c] = iteration[c] /\ next'[c] = next[c]
      BY <1>0, <2>1, <2>3 DEF Request, AnswerWithTools, RunTool, Goto
    <3> QED BY <3>1, RemainingStays
  <2>4. CASE SaveUser(d) \/ SaveAssistant(d)
    <3>1. pc'[c] = pc[c] /\ UNCHANGED <<iteration, next>>
      BY <1>0, <2>1, <2>4 DEF SaveUser, SaveAssistant, Save, Goto
    <3> QED BY <3>1, RemainingStays
  <2>5. CASE Exhausted(d) \/ BlankAnswer(d) \/ Fails(d) \/ Cancelled(d)
    <3>1. \E r : Return(d, r)
      BY <2>5 DEF Exhausted, BlankAnswer, Fails, Cancelled
    <3>2. pc'[c] = pc[c] /\ UNCHANGED <<iteration, next>>
      BY <1>0, <2>1, <3>1 DEF Return, Goto
    <3> QED BY <3>2, RemainingStays
  <2> QED BY <1>2, <2>2, <2>3, <2>4, <2>5 DEF Moves, Local, Service
<1> QED BY <1>1, <1>2 DEF Next, Moves

(* What is left is a number of steps.                                      *)
RemainingOK == \A c \in Calls : Remaining(c) \in Nat

LEMMA DecreasesStep ==
    ASSUME TypeOK, RemainingOK, RemainingOK', [Next]_vars
    PROVE  Decreases
<1> SUFFICES ASSUME NEW c \in Calls
             PROVE  Remaining(c)' <= Remaining(c) /\ (Moves(c) => Remaining(c)' < Remaining(c))
  BY DEF Decreases
<1>1. Remaining(c) \in Nat /\ Remaining(c)' \in Nat
  BY DEF RemainingOK
<1>2. CASE Moves(c)
  BY <1>1, <1>2, MoveDecreases
<1>3. CASE ~Moves(c)
  BY <1>1, <1>3, OthersLeaveRemaining
<1> QED BY <1>2, <1>3

(* A call takes no more steps than its iterations and their tools allow,   *)
(* whatever the services answer and whoever runs beside it: each of its    *)
(* steps leaves less to do, and none of another gives it more              *)
(* (RunWithOptions, maxIterations).                                        *)
THEOREM CallIsBoundedCorrect == Spec => CallIsBounded
<1>0. TypeOK => RemainingOK
  BY RemainingType DEF RemainingOK
<1>1. TypeOK /\ RemainingOK /\ RemainingOK' /\ [Next]_vars => Decreases
  BY DecreasesStep
<1>2. Init => Bounded
  <2> SUFFICES ASSUME Init, NEW c \in Calls PROVE Remaining(c) \in 0 .. Left(0) + 8
    BY DEF Bounded
  <2>1. pc[c] = "idle"
    BY DEF Init
  <2>2. Left(0) \in Nat
    BY LeftFacts
  <2> QED BY <2>1, <2>2 DEF Remaining
<1>3. RemainingOK' /\ Bounded /\ Decreases => Bounded'
  <2>1. Left(0) \in Nat /\ Left(0)' = Left(0)
    BY LeftFacts DEF Left
  <2> QED BY <2>1 DEF RemainingOK, Bounded, Decreases
<1> QED BY <1>0, <1>1, <1>2, <1>3, TypeCorrect, PTL DEF Spec, CallIsBounded

=============================================================================
