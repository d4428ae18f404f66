--------------------------- MODULE ProviderConnect ----------------------------
(***************************************************************************)
(* Connecting providers and choosing models (AppModel): the modals, the    *)
(* attempts to connect that run as commands beside the loop, the restores  *)
(* of stored providers at start-up, the models found so far, the selection *)
(* of each role and the client its agent gets.                             *)
(*                                                                         *)
(* A command (an attempt, a restore) is a goroutine whose message the loop *)
(* handles later, in any order; only the message of a slash command, which *)
(* does nothing else, is taken to be handled before the next key.          *)
(* Attempts are numbered over all starts of the program; the code counts   *)
(* from zero at each start, and no answer outlives its process.  Which     *)
(* entry of a list is highlighted, and the filters of the models modal,    *)
(* are left open: any entry may be chosen.  The modal for the method of    *)
(* authentication never opens, since each provider of the catalog has one  *)
(* method.                                                                 *)
(***************************************************************************)
EXTENDS Credentials, FiniteSets

CONSTANTS
    Models,             \* the models of each provider
    Roles, Planner,
    Unset,              \* no selection, no provider
    MaxAttempts,        \* bound: attempts to connect
    MaxOutside          \* bound: restarts, plans to review and steps of other
                        \* processes

ASSUME RolesAssumption == Planner \in Roles
ASSUME UnsetAssumption == Unset \notin Providers /\ Unset \notin Providers \X Models
ASSUME ConnectBoundsAssumption ==
    MaxAttempts \in Nat /\ MaxOutside \in Nat

VARIABLES
    visible,            \* the modals that are open
    form,               \* apiKeyModal
    listed,             \* connectModal: who is listed as connected
    offered,            \* modelsModal: its models
    activeReq,          \* activeConnectReq
    nextReq,            \* nextConnectReqID
    attempts, restores, \* the commands in progress and their answers
    discovered, connected, issues,      \* what is known of each provider
    selection, activeRole,              \* roleModels with roleProviderKeys
    client,             \* Agent.Provider of each role
    outside

modals   == <<visible, form, listed, offered>>
requests == <<activeReq, nextReq, attempts, restores>>
known    == <<discovered, connected, issues>>
chosen   == <<selection, activeRole, client>>
vars     == <<credentials, modals, requests, known, chosen, outside>>

Modals   == {"plan", "apiKey", "connect", "roles", "models"}
Attempts == 1 .. MaxAttempts
Choices  == Providers \X Models
Answer   == [at : {"ok"}, models : SUBSET Models] \cup [at : {"failed"}, models : {{}}]
Idle     == [at |-> "none", models |-> {}]
Handled  == [at |-> "handled", provider |-> Unset, key |-> NoKey, models |-> {}]
Closed   == [provider |-> Unset, value |-> NoKey, connecting |-> FALSE]

(* Faulty variant: the models found so far do not count.                   *)
ShowsConnected(p, conn, disc) == conn[p]

(* isProviderConnected, isModelDiscovered and isRoleConfigured.            *)
Shows(p, conn, disc) == conn[p] \/ disc[p] # {}
Found(c, disc) == c[2] \in disc[c[1]]
Configured(c, conn, disc) == c # Unset /\ Shows(c[1], conn, disc) /\ Found(c, disc)

(* applyRoleConfigToAgent; a client of the cache is as good as a new one,  *)
(* since it loads the key when it needs it.                                *)
ClientFor(c, conn, disc) == IF Configured(c, conn, disc) THEN c[1] ELSE Unset

(* syncRoleAndModelDisplay.                                                *)
Synced(sel, conn, disc) == [r \in Roles |-> ClientFor(sel[r], conn, disc)]

(* refreshConnectOptions and buildModelOptions.  What a closed modal holds *)
(* is not kept here: it is refreshed when the modal is opened.             *)
Listing(conn, disc) == {p \in Providers : Shows(p, conn, disc)}
Offers(providers, disc) ==
    {c \in Choices : c[1] \in providers /\ Found(c, disc)}
IfOpen(m, content) == IF m \in visible THEN content ELSE {}

(* collectMissingCredentialIssues and startupProviderRestoreCmds.          *)
Missing(sel) == {p \in Providers : Load(p) = NoKey
                                   /\ \E r \in Roles : sel[r] # Unset /\ sel[r][1] = p}
Restoring == [p \in Providers |->
    IF Load(p) = NoKey THEN Idle ELSE [at |-> "list", models |-> {}]]

TypeOK ==
    /\ CredentialsTypeOK
    /\ visible \subseteq Modals
    /\ form \in [provider : Providers \cup {Unset}, value : Keys \cup {NoKey},
                 connecting : BOOLEAN]
    /\ listed \subseteq Providers /\ offered \subseteq Choices
    /\ activeReq \in 0 .. MaxAttempts /\ nextReq \in 0 .. MaxAttempts
    /\ attempts \in [Attempts ->
            [at : {"none", "store", "list", "ok", "failed", "handled"},
             provider : Providers \cup {Unset}, key : Keys \cup {NoKey},
             models : SUBSET Models]]
    /\ restores \in [Providers ->
            [at : {"none", "list", "ok", "failed"}, models : SUBSET Models]]
    /\ discovered \in [Providers -> SUBSET Models]
    /\ connected \in [Providers -> BOOLEAN] /\ issues \subseteq Providers
    /\ selection \in [Roles -> Choices \cup {Unset}] /\ activeRole \in Roles
    /\ client \in [Roles -> Providers \cup {Unset}]
    /\ outside \in 0 .. MaxOutside

-----------------------------------------------------------------------------
Nobody  == [p \in Providers |-> FALSE]
Nothing == [p \in Providers |-> {}]

(* NewAppModel and Init, with the selection the session holds.             *)
Init ==
    /\ CredentialsInit
    /\ visible = {} /\ form = Closed
    /\ listed = {} /\ offered = {}
    /\ activeReq = 0 /\ nextReq = 0
    /\ attempts = [r \in Attempts |-> [at |-> "none", provider |-> Unset,
                                       key |-> NoKey, models |-> {}]]
    /\ discovered = Nothing /\ connected = Nobody
    /\ selection \in [Roles -> Choices \cup {Unset}] /\ activeRole = Planner
    /\ client = [r \in Roles |-> Unset]
    /\ issues = Missing(selection)
    /\ restores = Restoring
    /\ outside = 0

(* The program ends, with whatever its goroutines were doing, and starts   *)
(* again.                                                                  *)
Relaunch ==
    /\ outside < MaxOutside /\ outside' = outside + 1
    /\ visible' = {} /\ form' = Closed
    /\ listed' = {} /\ offered' = {}
    /\ activeReq' = 0 /\ UNCHANGED nextReq
    /\ attempts' = [r \in Attempts |->
            IF r <= nextReq THEN Handled ELSE attempts[r]]
    /\ discovered' = Nothing /\ connected' = Nobody
    /\ activeRole' = Planner /\ UNCHANGED selection
    /\ client' = [r \in Roles |-> Unset]
    /\ issues' = Missing(selection)
    /\ restores' = Restoring
    /\ UNCHANGED credentials

-----------------------------------------------------------------------------
(* Keys.  Focus is the modal whose keys Update handles, Shown the one that *)
(* View draws.                                                             *)
Focus == IF "plan" \in visible THEN "plan"
         ELSE IF "apiKey" \in visible THEN "apiKey"
         ELSE IF "connect" \in visible THEN "connect"
         ELSE IF "roles" \in visible THEN "roles"
         ELSE IF "models" \in visible THEN "models" ELSE "chat"

Shown == IF "apiKey" \in visible THEN "apiKey"
         ELSE IF "connect" \in visible THEN "connect"
         ELSE IF "plan" \in visible THEN "plan"
         ELSE IF "models" \in visible THEN "models"
         ELSE IF "roles" \in visible THEN "roles" ELSE "chat"

(* Enter on /connect and OpenConnectModalMsg, or on /models or /roles and  *)
(* openModelRolePicker.                                                    *)
OpenList(m) ==
    /\ Focus = "chat"
    /\ visible' = visible \cup {m}
    /\ listed' = IF m = "connect" THEN Listing(connected, discovered) ELSE listed
    /\ UNCHANGED <<credentials, form, offered, requests, known, chosen, outside>>

(* toggleExecutionMode refreshes the agents.                               *)
ToggleMode ==
    /\ Focus = "chat"
    /\ client' = Synced(selection, connected, discovered)
    /\ UNCHANGED <<credentials, modals, requests, known, selection, activeRole,
                   outside>>

(* Esc in a list.                                                          *)
CloseList ==
    /\ Focus \in {"connect", "roles", "models"}
    /\ visible' = visible \ {Focus}
    /\ listed' = IF Focus = "connect" THEN {} ELSE listed
    /\ offered' = IF Focus = "models" THEN {} ELSE offered
    /\ UNCHANGED <<credentials, form, requests, known,
                   chosen, outside>>

(* A key of the plan modal that decides; RunControl models what follows.   *)
DecidePlan ==
    /\ Focus = "plan"
    /\ visible' = visible \ {"plan"}
    /\ UNCHANGED <<credentials, form, listed, offered, requests, known,
                   chosen, outside>>

(* openAPIKeyModal: the form opens over the list, with the stored key.     *)
OpenForm(p) ==
    /\ visible' = visible \cup {"apiKey"}
    /\ form' = [provider |-> p, value |-> Load(p), connecting |-> FALSE]

(* Enter in the list of providers.                                         *)
ChooseProvider(p) ==
    /\ Focus = "connect"
    /\ OpenForm(p)
    /\ UNCHANGED <<credentials, listed, offered, requests, known, chosen,
                   outside>>

(* Typing and deleting in the form.                                        *)
EditKey(k) ==
    /\ Focus = "apiKey" /\ ~form.connecting
    /\ form' = [form EXCEPT !.value = k]
    /\ UNCHANGED <<credentials, visible, listed, offered, requests, known,
                   chosen, outside>>

(* Enter in the form; a blank key is refused.                              *)
SubmitKey ==
    /\ Focus = "apiKey" /\ ~form.connecting /\ form.value # NoKey
    /\ nextReq < MaxAttempts
    /\ nextReq' = nextReq + 1 /\ activeReq' = nextReq + 1
    /\ form' = [form EXCEPT !.connecting = TRUE]
    /\ attempts' = [attempts EXCEPT ![nextReq + 1] =
            [at |-> "store", provider |-> form.provider, key |-> form.value,
             models |-> {}]]
    /\ UNCHANGED <<credentials, visible, listed, offered, restores, known,
                   chosen, outside>>

(* Faulty variant: the attempt remains the active one.                     *)
LeaveFormOnly ==
    /\ Focus = "apiKey"
    /\ visible' = visible \ {"apiKey"} /\ form' = Closed
    /\ UNCHANGED <<credentials, listed, offered, requests, known, chosen,
                   outside>>

(* Esc in the form; an attempt goes on in the background.                  *)
LeaveForm ==
    /\ Focus = "apiKey"
    /\ activeReq' = 0
    /\ visible' = visible \ {"apiKey"} /\ form' = Closed
    /\ UNCHANGED <<credentials, listed, offered, nextReq, attempts,
                   restores, known, chosen, outside>>

(* Enter in the list of roles: setActiveRole, then the models of all       *)
(* providers.                                                              *)
ChooseRole(r) ==
    /\ Focus = "roles"
    /\ activeRole' = r
    /\ client' = Synced(selection, connected, discovered)
    /\ offered' = Offers(Providers, discovered)
    /\ visible' = (visible \ {"roles"}) \cup {"models"}
    /\ UNCHANGED <<credentials, form, listed, requests, known, selection,
                   outside>>

(* applySelectedModel.                                                     *)
Apply(c) ==
    /\ selection' = [selection EXCEPT ![activeRole] = c]
    /\ discovered' = [discovered EXCEPT ![c[1]] = @ \cup {c[2]}]
    /\ connected' = [connected EXCEPT ![c[1]] = TRUE]
    /\ client' = Synced(selection', connected', discovered')

(* Enter in the list of models.                                            *)
SelectModel(c) ==
    /\ Focus = "models" /\ c \in offered
    /\ Apply(c)
    /\ visible' = visible \ {"models"} /\ offered' = {}
    /\ UNCHANGED <<credentials, form, listed, requests, issues, activeRole, outside>>

-----------------------------------------------------------------------------
(* Messages.                                                               *)

(* A plan_ready update.                                                    *)
PlanArrives ==
    /\ "plan" \notin visible
    /\ outside < MaxOutside /\ outside' = outside + 1
    /\ visible' = visible \cup {"plan"}
    /\ UNCHANGED <<credentials, form, listed, offered, requests, known,
                   chosen>>

(* What every failed answer of p changes: setProviderConnected, the hint   *)
(* and the list of providers.  Models found before are kept.               *)
Lose(p) ==
    /\ connected' = [connected EXCEPT ![p] = FALSE]
    /\ issues' = issues \cup {p}
    /\ listed' = IfOpen("connect", Listing(connected', discovered))
    /\ UNCHANGED discovered

(* What every good answer of p changes.                                    *)
Learn(p, models) ==
    /\ connected' = [connected EXCEPT ![p] = TRUE]
    /\ issues' = issues \ {p}
    /\ discovered' = [discovered EXCEPT ![p] = models]

(* ModelsFetchedMsg of an attempt that was given up.                       *)
IgnoreAnswer(r) ==
    /\ attempts[r].at \in {"ok", "failed"} /\ r # activeReq
    /\ attempts' = [attempts EXCEPT ![r] = Handled]
    /\ UNCHANGED <<credentials, modals, activeReq, nextReq, restores, known, chosen,
                   outside>>

(* ModelsFetchedMsg with an error: the form shows it and takes keys again. *)
AttemptFails(r) ==
    /\ attempts[r].at = "failed" /\ r = activeReq
    /\ attempts' = [attempts EXCEPT ![r] = Handled]
    /\ activeReq' = 0
    /\ form' = IF "apiKey" \in visible THEN [form EXCEPT !.connecting = FALSE] ELSE form
    /\ Lose(attempts[r].provider)
    /\ UNCHANGED <<credentials, visible, offered, nextReq, restores, chosen,
                   outside>>

(* ModelsFetchedMsg with models: they are offered in place of the other    *)
(* modals.  The agents are not refreshed.                                  *)
AttemptSucceeds(r) ==
    /\ attempts[r].at = "ok" /\ r = activeReq
    /\ attempts' = [attempts EXCEPT ![r] = Handled]
    /\ activeReq' = 0
    /\ Learn(attempts[r].provider, attempts[r].models)
    /\ visible' = (visible \ {"apiKey", "connect"}) \cup {"models"}
    /\ offered' = {attempts[r].provider} \X attempts[r].models
    /\ listed' = {} /\ form' = Closed
    /\ UNCHANGED <<credentials, nextReq, restores, chosen, outside>>

(* Faulty variant: a failed restore is marked as an attempt is.            *)
RestoreMarked(p) ==
    /\ restores[p].at = "failed"
    /\ restores' = [restores EXCEPT ![p].at = "handled"]
    /\ Lose(p)
    /\ client' = Synced(selection, connected', discovered')
    /\ UNCHANGED <<credentials, visible, form, offered, activeReq, nextReq, attempts,
                   selection, activeRole, outside>>

(* Faulty variant: a failed restore is not announced.                      *)
RestoreFailsSilently(p) ==
    /\ restores[p].at = "failed"
    /\ restores' = [restores EXCEPT ![p] = Idle]
    /\ connected' = [connected EXCEPT ![p] = FALSE]
    /\ listed' = IfOpen("connect", Listing(connected', discovered))
    /\ client' = Synced(selection, connected', discovered)
    /\ UNCHANGED <<credentials, visible, form, offered, activeReq, nextReq,
                   attempts, discovered, issues, selection, activeRole, outside>>

(* ProviderRestoreResultMsg with an error.                                 *)
RestoreFails(p) ==
    /\ restores[p].at = "failed"
    /\ restores' = [restores EXCEPT ![p] = Idle]
    /\ Lose(p)
    /\ client' = Synced(selection, connected', discovered')
    /\ UNCHANGED <<credentials, visible, form, offered, activeReq, nextReq,
                   attempts, selection, activeRole, outside>>

(* Faulty variant: the list of models that is open is not refreshed.       *)
RestoreBehindList(p) ==
    /\ restores[p].at = "ok"
    /\ restores' = [restores EXCEPT ![p] = Idle]
    /\ connected' = [connected EXCEPT ![p] = TRUE]
    /\ issues' = issues \ {p}
    /\ discovered' = [discovered EXCEPT ![p] = restores[p].models]
    /\ listed' = IfOpen("connect", Listing(connected', discovered'))
    /\ client' = Synced(selection, connected', discovered')
    /\ UNCHANGED <<credentials, visible, form, offered, activeReq, nextReq,
                   attempts, selection, activeRole, outside>>

(* ProviderRestoreResultMsg with models.  Nothing tells a late answer from *)
(* a timely one.                                                           *)
RestoreSucceeds(p) ==
    /\ restores[p].at = "ok"
    /\ restores' = [restores EXCEPT ![p] = Idle]
    /\ Learn(p, restores[p].models)
    /\ listed' = IfOpen("connect", Listing(connected', discovered'))
    /\ offered' = IfOpen("models", {p} \X restores[p].models)
    /\ client' = Synced(selection, connected', discovered')
    /\ UNCHANGED <<credentials, visible, form, activeReq, nextReq, attempts,
                   selection, activeRole, outside>>

-----------------------------------------------------------------------------
(* Commands.                                                               *)

(* What DiscoverModels may return for p.  ListModels loads the key when it *)
(* is called, so it is the stored one, not the one of the attempt.  An     *)
(* empty list is an answer, too.                                           *)
Answers(p) == {a \in Answer : a.at = "ok" => Load(p) # NoKey}

(* fetchProviderModelsCmd stores the key first ...                         *)
StoreKey(r) ==
    /\ attempts[r].at = "store"
    /\ \/ /\ Store(attempts[r].provider, attempts[r].key)
          /\ attempts' = [attempts EXCEPT ![r].at = "list"]
       \/ /\ StoreFails(attempts[r].provider, attempts[r].key)
          /\ attempts' = [attempts EXCEPT ![r].at = "failed"]
    /\ UNCHANGED <<modals, activeReq, nextReq, restores, known, chosen, outside>>

(* ... and then asks for the models, within ten seconds.                   *)
ListModels(r) ==
    /\ attempts[r].at = "list"
    /\ \E a \in Answers(attempts[r].provider) :
           attempts' = [attempts EXCEPT ![r].at = a.at, ![r].models = a.models]
    /\ UNCHANGED <<credentials, modals, activeReq, nextReq, restores, known, chosen,
                   outside>>

(* restoreProviderCmd, within twelve seconds.                              *)
RestoreModels(p) ==
    /\ restores[p].at = "list"
    /\ \E a \in Answers(p) : restores' = [restores EXCEPT ![p] = a]
    /\ UNCHANGED <<credentials, modals, activeReq, nextReq, attempts, known, chosen,
                   outside>>

(* Another process, or the keyring itself.                                 *)
Outside ==
    /\ outside < MaxOutside /\ outside' = outside + 1
    /\ \/ \E p \in Providers : (\E k \in Keys : AuthSet(p, k)) \/ AuthRemove(p)
       \/ KeyringChange
    /\ UNCHANGED <<modals, requests, known, chosen>>

-----------------------------------------------------------------------------
Key ==
    \/ \E m \in {"connect", "roles"} : OpenList(m)
    \/ ToggleMode \/ CloseList \/ DecidePlan
    \/ \E p \in Providers : ChooseProvider(p)
    \/ \E k \in Keys \cup {NoKey} : EditKey(k)
    \/ SubmitKey \/ LeaveForm
    \/ \E r \in Roles : ChooseRole(r)
    \/ \E c \in Choices : SelectModel(c)

HandleAnswer(r) == IgnoreAnswer(r) \/ AttemptFails(r) \/ AttemptSucceeds(r)

Message ==
    \/ PlanArrives
    \/ \E r \in Attempts : HandleAnswer(r)
    \/ \E p \in Providers : RestoreFails(p) \/ RestoreSucceeds(p)

Command ==
    \/ \E r \in Attempts : StoreKey(r) \/ ListModels(r)
    \/ \E p \in Providers : RestoreModels(p)

Next == Key \/ Message \/ Command \/ Outside \/ Relaunch
Spec == Init /\ [][Next]_vars

-----------------------------------------------------------------------------
(* The form says "Connecting..." exactly while the newest attempt is the   *)
(* active one and its answer is still to come: no answer of an attempt     *)
(* that was given up ends the wait of another, and the form never waits    *)
(* for an answer that was already used.                                    *)
ConnectingMeansWaiting ==
    /\ form.connecting <=> activeReq # 0
    /\ form.connecting =>
           /\ "apiKey" \in visible /\ activeReq = nextReq
           /\ attempts[activeReq].at \in {"store", "list", "ok", "failed"}
           /\ attempts[activeReq].provider = form.provider
           /\ attempts[activeReq].key = form.value

(* The lists a modal shows were made at some moment; while the user can    *)
(* choose from one it agrees with what is known, whatever answers arrived  *)
(* since it was opened.                                                    *)
ListsCurrent ==
    /\ "connect" \in visible => listed = Listing(connected, discovered)
    /\ "models" \in visible => offered \subseteq Offers(Providers, discovered)

(* A role whose provider does not answer is never silent: once the restore *)
(* of the provider is over, the provider is connected or the hint asks to  *)
(* reconnect it.                                                           *)
UnusableIsAnnounced == \A r \in Roles :
    selection[r] # Unset /\ restores[selection[r][1]].at = "none" =>
        connected[selection[r][1]] \/ selection[r][1] \in issues

(* Answer a without model c is applied in this step.                       *)
Withdrawn(c) ==
    \/ \E r \in Attempts : /\ attempts[r].at = "ok" /\ attempts'[r].at = "handled"
                           /\ r = activeReq
                           /\ attempts[r].provider = c[1]
                           /\ c[2] \notin attempts[r].models
    \/ /\ restores[c[1]].at = "ok" /\ restores'[c[1]].at = "none"
       /\ c[2] \notin restores[c[1]].models

(* A role that is ready stays ready until the user selects another model,  *)
(* the program ends, or its provider answers without that model.  A failed *)
(* attempt, or a restore that fails late, does not take the role away.     *)
FailureKeepsRoles == [][\A r \in Roles :
    /\ Configured(selection[r], connected, discovered)
    /\ selection'[r] = selection[r] /\ ~Relaunch
    /\ ~Configured(selection[r], connected', discovered')
    => Withdrawn(selection[r])]_vars

(* The user decides on a plan only while it is what the screen shows, and  *)
(* so the keys of a form that is shown go to the form ("enter: submit",    *)
(* connect_modals.go:227).                                                 *)
DecidedPlanWasShown == [][DecidePlan => Shown = "plan"]_vars
=============================================================================
