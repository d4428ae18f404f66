------------------------ MODULE ProviderConnect_proofs ------------------------
(***************************************************************************)
(* Proofs about ProviderConnect and Credentials, for any providers, keys,  *)
(* models, roles and bounds: the form waits for one attempt, the stored    *)
(* key is the one that is used, the lists are current, and no role becomes *)
(* unusable unannounced or by a failure.                                   *)
(***************************************************************************)
EXTENDS ProviderConnect, TLAPS

USE KeysAssumption, RolesAssumption, UnsetAssumption, ConnectBoundsAssumption

InProgress == {"store", "list", "ok", "failed"}

(* An attempt in progress and an open form are about a provider.           *)
ProviderInv ==
    /\ \A r \in Attempts : attempts[r].at \in InProgress =>
            attempts[r].provider \in Providers /\ attempts[r].key # NoKey
    /\ "apiKey" \in visible => form.provider \in Providers

(* The latest key is in one of the stores, if it was not removed, and in   *)
(* the keyring, if the file has none.                                      *)
StoresInv == \A p \in Providers :
    /\ latest[p] \in {keyring[p], file[p], NoKey}
    /\ file[p] = NoKey => latest[p] = keyring[p]

IInv == TypeOK /\ ProviderInv /\ ConnectingMeansWaiting

-----------------------------------------------------------------------------
(* The stores of the keys.                                                 *)

CredentialsStep ==
    \/ \E p \in Providers, k \in Keys : Store(p, k) \/ StoreFails(p, k)
    \/ \E p \in Providers, k \in Keys : AuthSet(p, k)
    \/ \E p \in Providers : AuthRemove(p)
    \/ KeyringChange
    \/ UNCHANGED credentials

LEMMA LoadType ==
    ASSUME CredentialsTypeOK, NEW p \in Providers
    PROVE  Load(p) \in Keys \cup {NoKey}
  BY DEF CredentialsTypeOK, Entries, Load

LEMMA CredentialsInitially ==
    ASSUME CredentialsInit
    PROVE  CredentialsTypeOK /\ StoresInv
  BY DEF CredentialsInit, CredentialsTypeOK, StoresInv

LEMMA CredentialsInductive ==
    ASSUME CredentialsTypeOK, StoresInv, CredentialsStep
    PROVE  CredentialsTypeOK' /\ StoresInv'
<1> USE DEF CredentialsTypeOK, StoresInv, Entries
<1>1. CASE \E p \in Providers, k \in Keys : Store(p, k) \/ StoreFails(p, k) \/ AuthSet(p, k)
  <2>1. PICK p \in Providers, k \in Keys : Store(p, k) \/ StoreFails(p, k) \/ AuthSet(p, k)
    BY <1>1
  <2>5. keyringUp' \in BOOLEAN
    BY <2>1 DEF Store, StoreFails, AuthSet
  <2> SUFFICES keyring' \in Entries /\ file' \in Entries /\ latest' \in Entries /\ StoresInv'
    BY <2>5
  <2>2. CASE keyring' = [keyring EXCEPT ![p] = k] /\ file' = file
             /\ latest' = [latest EXCEPT ![p] = k]
    <3>1. /\ keyring' \in Entries /\ file' \in Entries /\ latest' \in Entries
          /\ keyring'[p] = k /\ latest'[p] = k
          /\ \A q \in Providers \ {p} : keyring'[q] = keyring[q] /\ latest'[q] = latest[q]
      BY <2>2
    <3>2. StoresInv'
      BY <2>2, <3>1
    <3> QED BY <3>1, <3>2
  <2>3. CASE file' = [file EXCEPT ![p] = k] /\ keyring' = keyring
             /\ latest' = [latest EXCEPT ![p] = k]
    <3>1. /\ keyring' \in Entries /\ file' \in Entries /\ latest' \in Entries
          /\ file'[p] = k /\ latest'[p] = k /\ k # NoKey
          /\ \A q \in Providers \ {p} : file'[q] = file[q] /\ latest'[q] = latest[q]
      BY <2>3
    <3>2. StoresInv'
      BY <2>3, <3>1
    <3> QED BY <3>1, <3>2
  <2>4. CASE UNCHANGED <<keyring, file, latest>>
    BY <2>4
  <2>6. \/ keyring' = [keyring EXCEPT ![p] = k] /\ file' = file
           /\ latest' = [latest EXCEPT ![p] = k]
        \/ file' = [file EXCEPT ![p] = k] /\ keyring' = keyring
           /\ latest' = [latest EXCEPT ![p] = k]
        \/ UNCHANGED <<keyring, file, latest>>
    BY <2>1 DEF Store, StoreFails, AuthSet
  <2> QED BY <2>2, <2>3, <2>4, <2>5, <2>6
<1>4. CASE \E p \in Providers : AuthRemove(p)
  BY <1>4 DEF AuthRemove
<1>5. CASE KeyringChange
  BY <1>5 DEF KeyringChange
<1>6. CASE UNCHANGED credentials
  BY <1>6 DEF credentials
<1> QED BY <1>1, <1>4, <1>5, <1>6 DEF CredentialsStep

LEMMA NextCredentials ==
    ASSUME TypeOK, ProviderInv, [Next]_vars
    PROVE  CredentialsStep
<1>1. CASE Key
  BY <1>1 DEF Key, OpenList, ToggleMode, CloseList, DecidePlan, ChooseProvider,
     EditKey, SubmitKey, LeaveForm, ChooseRole, SelectModel, CredentialsStep
<1>2. CASE Message
  BY <1>2 DEF Message, PlanArrives, HandleAnswer, IgnoreAnswer, AttemptFails,
     AttemptSucceeds, RestoreFails, RestoreSucceeds, CredentialsStep
<1>3. CASE \E r \in Attempts : StoreKey(r)
  <2>1. PICK r \in Attempts : StoreKey(r)
    BY <1>3
  <2>2. attempts[r].provider \in Providers /\ attempts[r].key \in Keys
    BY <2>1 DEF StoreKey, TypeOK, ProviderInv, InProgress
  <2> QED BY <2>1, <2>2 DEF StoreKey, CredentialsStep
<1>4. CASE \/ \E r \in Attempts : ListModels(r)
           \/ \E p \in Providers : RestoreModels(p)
  BY <1>4 DEF ListModels, RestoreModels, CredentialsStep
<1>5. CASE Outside
  BY <1>5 DEF Outside, CredentialsStep
<1>6. CASE Relaunch
  BY <1>6 DEF Relaunch, CredentialsStep
<1>7. CASE UNCHANGED vars
  BY <1>7 DEF vars, CredentialsStep
<1> QED BY <1>1, <1>2, <1>3, <1>4, <1>5, <1>6, <1>7 DEF Next, Command

-----------------------------------------------------------------------------
(* Type correctness.                                                       *)

LEMMA SyncedType ==
    ASSUME NEW sel \in [Roles -> Choices \cup {Unset}], NEW conn, NEW disc
    PROVE  Synced(sel, conn, disc) \in [Roles -> Providers \cup {Unset}]
  BY DEF Synced, ClientFor, Configured, Choices

LEMMA ListTypes ==
    ASSUME NEW conn, NEW disc, NEW providers
    PROVE  /\ Listing(conn, disc) \subseteq Providers
           /\ Offers(providers, disc) \subseteq Choices
           /\ \A m, content : IfOpen(m, content) \subseteq content
  BY DEF Listing, Offers, IfOpen

LEMMA OfferedType ==
    ASSUME NEW p \in Providers, NEW models \in SUBSET Models
    PROVE  {p} \X models \subseteq Choices
  BY DEF Choices

AttemptType == [at : {"none", "store", "list", "ok", "failed", "handled"},
                provider : Providers \cup {Unset}, key : Keys \cup {NoKey},
                models : SUBSET Models]
RestoreType == [at : {"none", "list", "ok", "failed"}, models : SUBSET Models]

LEMMA HandledType == Handled \in AttemptType /\ Idle \in RestoreType
  BY DEF Handled, AttemptType, Idle, RestoreType

LEMMA AnswerType == \A a \in Answer : a \in RestoreType /\ a.at \in {"ok", "failed"}
  BY DEF Answer, RestoreType

LEMMA RestoringType == Restoring \in [Providers -> RestoreType]
  BY DEF Restoring, RestoreType, Idle

(* Keys change modals, the selection and the client, and start attempts.   *)
LEMMA KeyTypes ==
    ASSUME TypeOK, ProviderInv, Key, CredentialsTypeOK'
    PROVE  TypeOK'
<1> USE DEF TypeOK, modals, requests, known, chosen, Modals
<1>1. CASE \E m \in {"connect", "roles"} : OpenList(m)
  BY <1>1, ListTypes DEF OpenList
<1>2. CASE ToggleMode
  BY <1>2, SyncedType DEF ToggleMode
<1>3. CASE CloseList
  BY <1>3 DEF CloseList
<1>4. CASE DecidePlan
  BY <1>4 DEF DecidePlan
<1>5. CASE \E p \in Providers : ChooseProvider(p)
  BY <1>5, LoadType DEF ChooseProvider, OpenForm
<1>6. CASE \E k \in Keys \cup {NoKey} : EditKey(k)
  BY <1>6 DEF EditKey
<1>7. CASE SubmitKey
  <2>1. nextReq + 1 \in Attempts
    BY <1>7 DEF SubmitKey, Attempts
  <2>2. [at |-> "store", provider |-> form.provider, key |-> form.value, models |-> {}]
            \in AttemptType
    BY DEF AttemptType
  <2>3. attempts' \in [Attempts -> AttemptType]
    BY <1>7, <2>1, <2>2 DEF SubmitKey, AttemptType
  <2>4. form' \in [provider : Providers \cup {Unset}, value : Keys \cup {NoKey},
                   connecting : BOOLEAN]
    BY <1>7 DEF SubmitKey
  <2> QED BY <1>7, <2>1, <2>3, <2>4 DEF SubmitKey, AttemptType, Attempts
<1>8. CASE LeaveForm
  BY <1>8 DEF LeaveForm, Closed
<1>9. CASE \E r \in Roles : ChooseRole(r)
  <2>1. PICK r \in Roles : ChooseRole(r)
    BY <1>9
  <2>2. client' \in [Roles -> Providers \cup {Unset}]
    BY <2>1, SyncedType DEF ChooseRole
  <2>3. offered' \subseteq Choices
    BY <2>1, ListTypes DEF ChooseRole
  <2> QED BY <2>1, <2>2, <2>3 DEF ChooseRole
<1>10. CASE \E c \in Choices : SelectModel(c)
  <2>1. PICK c \in Choices : SelectModel(c)
    BY <1>10
  <2>2. /\ selection' \in [Roles -> Choices \cup {Unset}]
        /\ discovered' \in [Providers -> SUBSET Models]
        /\ connected' \in [Providers -> BOOLEAN]
    BY <2>1 DEF SelectModel, Apply, Choices
  <2>3. client' \in [Roles -> Providers \cup {Unset}]
    BY <2>1, <2>2, SyncedType DEF SelectModel, Apply
  <2> QED BY <2>1, <2>2, <2>3 DEF SelectModel
<1> QED BY <1>1, <1>2, <1>3, <1>4, <1>5, <1>6, <1>7, <1>8, <1>9, <1>10 DEF Key

(* A failed answer.                                                        *)
LEMMA LoseTypes ==
    ASSUME TypeOK, NEW p \in Providers, Lose(p)
    PROVE  /\ connected' \in [Providers -> BOOLEAN] /\ issues' \subseteq Providers
           /\ discovered' \in [Providers -> SUBSET Models] /\ listed' \subseteq Providers
  BY ListTypes DEF TypeOK, Lose

(* A good answer.                                                          *)
LEMMA LearnTypes ==
    ASSUME TypeOK, NEW p \in Providers, NEW models \in SUBSET Models, Learn(p, models)
    PROVE  /\ connected' \in [Providers -> BOOLEAN] /\ issues' \subseteq Providers
           /\ discovered' \in [Providers -> SUBSET Models]
  BY DEF TypeOK, Learn

LEMMA AttemptHandledType ==
    ASSUME attempts \in [Attempts -> AttemptType], NEW r \in Attempts
    PROVE  [attempts EXCEPT ![r] = Handled] \in [Attempts -> AttemptType]
  BY HandledType

LEMMA RestoreHandledType ==
    ASSUME restores \in [Providers -> RestoreType], NEW p \in Providers
    PROVE  [restores EXCEPT ![p] = Idle] \in [Providers -> RestoreType]
  BY HandledType

(* Messages change what is known, and what the modals show of it.          *)
LEMMA MessageTypes ==
    ASSUME TypeOK, ProviderInv, Message, CredentialsTypeOK'
    PROVE  TypeOK'
<1> USE DEF TypeOK, modals, requests, known, chosen, Modals
<1>0. attempts \in [Attempts -> AttemptType] /\ restores \in [Providers -> RestoreType]
  BY DEF AttemptType, RestoreType
<1>1. CASE PlanArrives
  BY <1>1 DEF PlanArrives
<1>2. CASE \E r \in Attempts : IgnoreAnswer(r)
  BY <1>0, <1>2, AttemptHandledType DEF IgnoreAnswer, AttemptType
<1>3. CASE \E r \in Attempts : AttemptFails(r)
  <2>1. PICK r \in Attempts : AttemptFails(r)
    BY <1>3
  <2>2. attempts[r].provider \in Providers
    BY <2>1 DEF AttemptFails, ProviderInv, InProgress
  <2>3. /\ connected' \in [Providers -> BOOLEAN] /\ issues' \subseteq Providers
        /\ discovered' \in [Providers -> SUBSET Models] /\ listed' \subseteq Providers
    BY <2>1, <2>2, LoseTypes DEF AttemptFails
  <2>4. form' \in [provider : Providers \cup {Unset}, value : Keys \cup {NoKey},
                   connecting : BOOLEAN]
    BY <2>1 DEF AttemptFails
  <2>5. attempts' \in [Attempts -> AttemptType]
    BY <1>0, <2>1, AttemptHandledType DEF AttemptFails
  <2> QED BY <2>1, <2>3, <2>4, <2>5 DEF AttemptFails, AttemptType
<1>4. CASE \E r \in Attempts : AttemptSucceeds(r)
  <2>1. PICK r \in Attempts : AttemptSucceeds(r)
    BY <1>4
  <2>2. attempts[r].provider \in Providers /\ attempts[r].models \in SUBSET Models
    BY <2>1 DEF AttemptSucceeds, ProviderInv, InProgress
  <2>3. /\ connected' \in [Providers -> BOOLEAN] /\ issues' \subseteq Providers
        /\ discovered' \in [Providers -> SUBSET Models]
    BY <2>1, <2>2, LearnTypes DEF AttemptSucceeds
  <2>4. offered' \subseteq Choices
    BY <2>1, <2>2, OfferedType DEF AttemptSucceeds
  <2>5. attempts' \in [Attempts -> AttemptType]
    BY <1>0, <2>1, AttemptHandledType DEF AttemptSucceeds
  <2> QED BY <2>1, <2>3, <2>4, <2>5 DEF AttemptSucceeds, AttemptType, Closed
<1>5. CASE \E p \in Providers : RestoreFails(p)
  <2>1. PICK p \in Providers : RestoreFails(p)
    BY <1>5
  <2>2. /\ connected' \in [Providers -> BOOLEAN] /\ issues' \subseteq Providers
        /\ discovered' \in [Providers -> SUBSET Models] /\ listed' \subseteq Providers
    BY <2>1, LoseTypes DEF RestoreFails
  <2>3. restores' \in [Providers -> RestoreType]
    BY <1>0, <2>1, RestoreHandledType DEF RestoreFails
  <2>4. client' \in [Roles -> Providers \cup {Unset}]
    BY <2>1, SyncedType DEF RestoreFails
  <2> QED BY <2>1, <2>2, <2>3, <2>4 DEF RestoreFails, RestoreType
<1>6. CASE \E p \in Providers : RestoreSucceeds(p)
  <2>1. PICK p \in Providers : RestoreSucceeds(p)
    BY <1>6
  <2>2. /\ connected' \in [Providers -> BOOLEAN] /\ issues' \subseteq Providers
        /\ discovered' \in [Providers -> SUBSET Models]
    BY <2>1, LearnTypes DEF RestoreSucceeds
  <2>3. restores' \in [Providers -> RestoreType]
    BY <1>0, <2>1, RestoreHandledType DEF RestoreSucceeds
  <2>4. client' \in [Roles -> Providers \cup {Unset}]
    BY <2>1, SyncedType DEF RestoreSucceeds
  <2>5. listed' \subseteq Providers
    BY <2>1, ListTypes DEF RestoreSucceeds
  <2>6. offered' \subseteq Choices
    <3>1. restores[p].models \in SUBSET Models
      BY <1>0 DEF RestoreType
    <3> QED BY <2>1, <3>1, OfferedType DEF RestoreSucceeds, IfOpen
  <2> QED BY <2>1, <2>2, <2>3, <2>4, <2>5, <2>6 DEF RestoreSucceeds, RestoreType
<1> QED BY <1>1, <1>2, <1>3, <1>4, <1>5, <1>6 DEF Message, HandleAnswer

LEMMA AttemptStepType ==
    ASSUME attempts \in [Attempts -> AttemptType], NEW r \in Attempts,
           NEW at \in InProgress, NEW models \in SUBSET Models
    PROVE  /\ [attempts EXCEPT ![r].at = at] \in [Attempts -> AttemptType]
           /\ [attempts EXCEPT ![r].at = at, ![r].models = models]
                  \in [Attempts -> AttemptType]
<1>1. [attempts[r] EXCEPT !.at = at] \in AttemptType
  BY DEF AttemptType, InProgress
<1>2. [[attempts[r] EXCEPT !.at = at] EXCEPT !.models = models] \in AttemptType
  BY DEF AttemptType, InProgress
<1>3. [attempts EXCEPT ![r].at = at] \in [Attempts -> AttemptType]
  BY <1>1
<1> QED BY <1>2, <1>3

(* Commands change nothing but their own records and the stored keys.      *)
LEMMA CommandTypes ==
    ASSUME TypeOK, Command, CredentialsTypeOK'
    PROVE  TypeOK'
<1> USE DEF TypeOK, modals, known, chosen
<1>0. attempts \in [Attempts -> AttemptType] /\ restores \in [Providers -> RestoreType]
  BY DEF AttemptType, RestoreType
<1>1. CASE \E r \in Attempts : StoreKey(r)
  <2>1. PICK r \in Attempts : StoreKey(r)
    BY <1>1
  <2>2. attempts' \in [Attempts -> AttemptType]
    <3>1. PICK at \in {"list", "failed"} : attempts' = [attempts EXCEPT ![r].at = at]
      BY <2>1 DEF StoreKey
    <3> QED BY <1>0, <3>1, AttemptStepType DEF InProgress
  <2> QED BY <2>1, <2>2 DEF StoreKey, AttemptType
<1>2. CASE \E r \in Attempts : ListModels(r)
  <2>1. PICK r \in Attempts : ListModels(r)
    BY <1>2
  <2>2. attempts' \in [Attempts -> AttemptType]
    <3>1. PICK a \in Answer :
             attempts' = [attempts EXCEPT ![r].at = a.at, ![r].models = a.models]
      BY <2>1 DEF ListModels, Answers
    <3>2. a.at \in InProgress /\ a.models \in SUBSET Models
      BY <3>1, AnswerType DEF InProgress, RestoreType
    <3> QED BY <1>0, <3>1, <3>2, AttemptStepType
  <2> QED BY <2>1, <2>2 DEF ListModels, AttemptType
<1>3. CASE \E p \in Providers : RestoreModels(p)
  <2>1. PICK p \in Providers : RestoreModels(p)
    BY <1>3
  <2>2. restores' \in [Providers -> RestoreType]
    BY <1>0, <2>1, AnswerType DEF RestoreModels, Answers
  <2> QED BY <2>1, <2>2 DEF RestoreModels, RestoreType
<1> QED BY <1>1, <1>2, <1>3 DEF Command

LEMMA RelaunchTypes ==
    ASSUME TypeOK, Relaunch, CredentialsTypeOK'
    PROVE  TypeOK'
<1> USE DEF TypeOK
<1>1. attempts' \in [Attempts -> AttemptType]
  BY HandledType DEF Relaunch, AttemptType
<1>2. restores' \in [Providers -> RestoreType]
  BY RestoringType DEF Relaunch
<1>3. issues' \subseteq Providers
  BY DEF Relaunch, Missing
<1> QED BY <1>1, <1>2, <1>3 DEF Relaunch, AttemptType, RestoreType, Closed, Nobody,
           Nothing

LEMMA TypesInductive ==
    ASSUME TypeOK, ProviderInv, CredentialsTypeOK', [Next]_vars
    PROVE  TypeOK'
<1>1. CASE Outside
  BY <1>1 DEF Outside, TypeOK, modals, requests, known, chosen
<1>2. CASE UNCHANGED vars
  BY <1>2 DEF TypeOK, vars, modals, requests, known, chosen
<1> QED BY <1>1, <1>2, KeyTypes, MessageTypes, CommandTypes, RelaunchTypes DEF Next

LEMMA TypesInitially ==
    ASSUME Init
    PROVE  TypeOK
<1> USE DEF Init
<1>1. CredentialsTypeOK
  BY CredentialsInitially
<1>2. restores \in [Providers -> RestoreType]
  BY RestoringType
<1>3. issues \subseteq Providers
  BY DEF Missing
<1>4. attempts \in [Attempts -> AttemptType]
  BY DEF AttemptType
<1> QED BY <1>1, <1>2, <1>3, <1>4
        DEF TypeOK, AttemptType, RestoreType, Closed, Nobody, Nothing

-----------------------------------------------------------------------------
(* The form and its attempt.                                               *)

LEMMA FormInitially ==
    ASSUME Init
    PROVE  ProviderInv /\ ConnectingMeansWaiting
  BY DEF Init, ProviderInv, InProgress, ConnectingMeansWaiting, Closed

LEMMA KeyKeepsForm ==
    ASSUME IInv, Key
    PROVE  ProviderInv' /\ ConnectingMeansWaiting'
<1> USE DEF IInv, ProviderInv, ConnectingMeansWaiting, requests
<1>1. CASE \/ \E m \in {"connect", "roles"} : OpenList(m)
           \/ ToggleMode \/ CloseList \/ DecidePlan
           \/ \E r \in Roles : ChooseRole(r)
           \/ \E c \in Choices : SelectModel(c)
  <2>1. UNCHANGED <<form, requests>>
    BY <1>1 DEF OpenList, ToggleMode, CloseList, DecidePlan, ChooseRole, SelectModel,
       modals
  <2>2. "apiKey" \in visible' <=> "apiKey" \in visible
    BY <1>1 DEF OpenList, ToggleMode, CloseList, DecidePlan, ChooseRole, SelectModel,
       modals, Focus
  <2> QED BY <2>1, <2>2
<1>2. CASE \E p \in Providers : ChooseProvider(p)
  BY <1>2 DEF ChooseProvider, OpenForm, Focus
<1>3. CASE \E k \in Keys \cup {NoKey} : EditKey(k)
  BY <1>3 DEF EditKey, TypeOK
<1>4. CASE SubmitKey
  <2>1. "apiKey" \in visible /\ UNCHANGED visible
    BY <1>4 DEF SubmitKey, Focus
  <2>2. nextReq + 1 \in Attempts /\ nextReq + 1 # 0
    BY <1>4 DEF SubmitKey, Attempts, TypeOK
  <2>3. /\ form'.provider = form.provider /\ form'.value = form.value
        /\ form'.connecting = TRUE
    BY <1>4 DEF SubmitKey, TypeOK
  <2>4. attempts'[nextReq + 1] = [at |-> "store", provider |-> form.provider,
                                  key |-> form.value, models |-> {}]
    BY <1>4, <2>2 DEF SubmitKey, TypeOK
  <2>5. \A r \in Attempts \ {nextReq + 1} : attempts'[r] = attempts[r]
    BY <1>4 DEF SubmitKey, TypeOK
  <2> QED BY <1>4, <2>1, <2>2, <2>3, <2>4, <2>5 DEF SubmitKey
<1>5. CASE LeaveForm
  BY <1>5 DEF LeaveForm, Closed
<1> QED BY <1>1, <1>2, <1>3, <1>4, <1>5 DEF Key

LEMMA MessageKeepsForm ==
    ASSUME IInv, Message
    PROVE  ProviderInv' /\ ConnectingMeansWaiting'
<1> USE DEF IInv, ProviderInv, ConnectingMeansWaiting
<1>0. activeReq # 0 => activeReq \in Attempts
  BY DEF TypeOK, Attempts
<1>1. CASE PlanArrives
  BY <1>1 DEF PlanArrives, requests
<1>2. CASE \E r \in Attempts : IgnoreAnswer(r)
  <2>1. PICK r \in Attempts : IgnoreAnswer(r)
    BY <1>2
  <2>2. /\ attempts'[r] = Handled
        /\ \A q \in Attempts \ {r} : attempts'[q] = attempts[q]
    BY <2>1 DEF IgnoreAnswer, TypeOK
  <2> QED BY <1>0, <2>1, <2>2 DEF IgnoreAnswer, modals, Handled, InProgress
<1>3. CASE \E r \in Attempts : AttemptFails(r)
  <2>1. PICK r \in Attempts : AttemptFails(r)
    BY <1>3
  <2>2. /\ attempts'[r] = Handled
        /\ \A q \in Attempts \ {r} : attempts'[q] = attempts[q]
    BY <2>1 DEF AttemptFails, TypeOK
  <2>3. "apiKey" \in visible /\ r # 0
    BY <2>1 DEF AttemptFails, Attempts
  <2>4. form'.provider = form.provider /\ form'.connecting = FALSE
    BY <2>1, <2>3 DEF AttemptFails, TypeOK
  <2> QED BY <2>1, <2>2, <2>3, <2>4 DEF AttemptFails, Handled, InProgress
<1>4. CASE \E r \in Attempts : AttemptSucceeds(r)
  <2>1. PICK r \in Attempts : AttemptSucceeds(r)
    BY <1>4
  <2>2. /\ attempts'[r] = Handled
        /\ \A q \in Attempts \ {r} : attempts'[q] = attempts[q]
    BY <2>1 DEF AttemptSucceeds, TypeOK
  <2> QED BY <2>1, <2>2 DEF AttemptSucceeds, Handled, InProgress, Closed
<1>5. CASE \E p \in Providers : RestoreFails(p) \/ RestoreSucceeds(p)
  BY <1>5 DEF RestoreFails, RestoreSucceeds
<1> QED BY <1>1, <1>2, <1>3, <1>4, <1>5 DEF Message, HandleAnswer

LEMMA CommandKeepsForm ==
    ASSUME IInv, Command
    PROVE  ProviderInv' /\ ConnectingMeansWaiting'
<1> USE DEF IInv, ProviderInv, ConnectingMeansWaiting
<1>1. CASE \E r \in Attempts : StoreKey(r) \/ ListModels(r)
  <2>1. PICK r \in Attempts : StoreKey(r) \/ ListModels(r)
    BY <1>1
  <2>2. /\ attempts[r].at \in InProgress /\ attempts'[r].at \in InProgress
        /\ attempts'[r].provider = attempts[r].provider
        /\ attempts'[r].key = attempts[r].key
        /\ \A q \in Attempts \ {r} : attempts'[q] = attempts[q]
    <3>1. CASE StoreKey(r)
      BY <3>1 DEF StoreKey, TypeOK, InProgress
    <3>2. CASE ListModels(r)
      BY <3>2, AnswerType DEF ListModels, Answers, TypeOK, InProgress
    <3> QED BY <2>1, <3>1, <3>2
  <2>3. UNCHANGED <<form, visible, activeReq, nextReq>>
    BY <2>1 DEF StoreKey, ListModels, modals
  <2>4. activeReq # 0 => activeReq \in Attempts
    BY DEF TypeOK, Attempts
  <2> QED BY <2>2, <2>3, <2>4 DEF InProgress
<1>2. CASE \E p \in Providers : RestoreModels(p)
  BY <1>2 DEF RestoreModels, modals
<1> QED BY <1>1, <1>2 DEF Command

LEMMA RelaunchKeepsForm ==
    ASSUME IInv, Relaunch
    PROVE  ProviderInv' /\ ConnectingMeansWaiting'
  BY DEF Relaunch, IInv, ProviderInv, ConnectingMeansWaiting, InProgress, Handled,
     Closed, TypeOK

LEMMA Inductive ==
    ASSUME IInv, StoresInv, [Next]_vars
    PROVE  IInv' /\ StoresInv'
<1>1. CredentialsTypeOK' /\ StoresInv'
  BY NextCredentials, CredentialsInductive DEF IInv, TypeOK
<1>2. TypeOK'
  BY <1>1, TypesInductive DEF IInv
<1>3. CASE Outside
  BY <1>1, <1>2, <1>3
     DEF Outside, modals, requests, IInv, ProviderInv, ConnectingMeansWaiting
<1>4. CASE UNCHANGED vars
  BY <1>1, <1>2, <1>4
     DEF vars, modals, requests, IInv, ProviderInv, ConnectingMeansWaiting
<1> QED BY <1>1, <1>2, <1>3, <1>4, KeyKeepsForm, MessageKeepsForm, CommandKeepsForm,
           RelaunchKeepsForm DEF Next, IInv

LEMMA IInvCorrect == Spec => [](IInv /\ StoresInv)
<1>1. Init => IInv /\ StoresInv
  BY TypesInitially, FormInitially, CredentialsInitially DEF IInv, Init
<1> QED BY <1>1, Inductive, PTL DEF Spec

(* Every variable keeps its type, for all constants.                       *)
THEOREM TypeCorrect == Spec => []TypeOK
  BY IInvCorrect, PTL DEF IInv

(* The form waits exactly while the newest attempt is the active one and   *)
(* its answer is to come (fetchProviderModelsCmd, ModelsFetchedMsg).       *)
THEOREM ConnectingMeansWaitingCorrect == Spec => []ConnectingMeansWaiting
  BY IInvCorrect, PTL DEF IInv

(* Clients load the key that was written last, unless a key in the keyring *)
(* cannot be read or hides that of the file, or a removal uncovered one    *)
(* there (StoreCredential, LoadCredential).                                *)
THEOREM StoredKeyIsUsedCorrect == Spec => []StoredKeyIsUsed
<1>1. IInv /\ StoresInv => StoredKeyIsUsed
  BY DEF IInv, TypeOK, CredentialsTypeOK, StoresInv, StoredKeyIsUsed, Load
<1> QED BY <1>1, IInvCorrect, PTL

-----------------------------------------------------------------------------
(* The lists.                                                              *)

(* The models of an answer, once it is applied, are found.                 *)
LEMMA OffersFound ==
    ASSUME NEW disc, NEW p \in Providers, NEW models \in SUBSET Models, disc[p] = models
    PROVE  {p} \X models \subseteq Offers(Providers, disc)
  BY DEF Offers, Found, Choices

LEMMA LearnsModels ==
    ASSUME TypeOK, NEW p \in Providers, NEW models, Learn(p, models)
    PROVE  discovered'[p] = models
  BY DEF TypeOK, Learn

LEMMA ListsAfterKeys ==
    ASSUME TypeOK, ListsCurrent, Key
    PROVE  ListsCurrent'
<1> USE DEF ListsCurrent, known, requests
<1>1. CASE \E m \in {"connect", "roles"} : OpenList(m)
  BY <1>1 DEF OpenList, Focus
<1>2. CASE ToggleMode \/ SubmitKey \/ DecidePlan
           \/ \E k \in Keys \cup {NoKey} : EditKey(k)
  BY <1>2 DEF ToggleMode, SubmitKey, DecidePlan, EditKey, modals
<1>3. CASE CloseList
  BY <1>3 DEF CloseList
<1>4. CASE \E p \in Providers : ChooseProvider(p)
  BY <1>4 DEF ChooseProvider, OpenForm
<1>5. CASE LeaveForm
  BY <1>5 DEF LeaveForm
<1>6. CASE \E r \in Roles : ChooseRole(r)
  BY <1>6 DEF ChooseRole, Focus
<1>7. CASE \E c \in Choices : SelectModel(c)
  BY <1>7 DEF SelectModel, Focus
<1> QED BY <1>1, <1>2, <1>3, <1>4, <1>5, <1>6, <1>7 DEF Key

LEMMA ListsAfterMessages ==
    ASSUME TypeOK, ProviderInv, ListsCurrent, Message
    PROVE  ListsCurrent'
<1> USE DEF ListsCurrent
<1>1. CASE PlanArrives
  BY <1>1 DEF PlanArrives, known
<1>2. CASE \E r \in Attempts : IgnoreAnswer(r)
  BY <1>2 DEF IgnoreAnswer, modals, known
<1>3. CASE \/ \E r \in Attempts : AttemptFails(r)
           \/ \E p \in Providers : RestoreFails(p)
  BY <1>3 DEF AttemptFails, RestoreFails, Lose, IfOpen
<1>4. CASE \E r \in Attempts : AttemptSucceeds(r)
  <2>1. PICK r \in Attempts : AttemptSucceeds(r)
    BY <1>4
  <2>2. attempts[r].provider \in Providers /\ attempts[r].models \in SUBSET Models
    BY <2>1 DEF AttemptSucceeds, TypeOK, ProviderInv, InProgress
  <2>3. discovered'[attempts[r].provider] = attempts[r].models
    BY <2>1, <2>2, LearnsModels DEF AttemptSucceeds
  <2>4. offered' \subseteq Offers(Providers, discovered')
    BY <2>1, <2>2, <2>3, OffersFound DEF AttemptSucceeds
  <2> QED BY <2>1, <2>4 DEF AttemptSucceeds
<1>5. CASE \E p \in Providers : RestoreSucceeds(p)
  <2>1. PICK p \in Providers : RestoreSucceeds(p)
    BY <1>5
  <2>2. restores[p].models \in SUBSET Models
    BY DEF TypeOK
  <2>3. discovered'[p] = restores[p].models
    BY <2>1, LearnsModels DEF RestoreSucceeds
  <2>4. "models" \in visible => offered' \subseteq Offers(Providers, discovered')
    BY <2>1, <2>2, <2>3, OffersFound DEF RestoreSucceeds, IfOpen
  <2> QED BY <2>1, <2>4 DEF RestoreSucceeds, IfOpen
<1> QED BY <1>1, <1>2, <1>3, <1>4, <1>5 DEF Message, HandleAnswer

(* What an open list offers agrees with what is known, whatever answers    *)
(* arrived since it was opened (AppModel.Update).                          *)
THEOREM ListsCurrentCorrect == Spec => []ListsCurrent
<1>1. Init => ListsCurrent
  BY DEF Init, ListsCurrent
<1>2. IInv /\ ListsCurrent /\ [Next]_vars => ListsCurrent'
  <2> SUFFICES ASSUME IInv, ListsCurrent, [Next]_vars PROVE ListsCurrent'
    OBVIOUS
  <2>1. CASE Command \/ Outside \/ UNCHANGED vars
    BY <2>1 DEF Command, StoreKey, ListModels, RestoreModels, Outside, ListsCurrent,
       vars, modals, known
  <2>2. CASE Relaunch
    BY <2>2 DEF Relaunch, ListsCurrent
  <2> QED BY <2>1, <2>2, ListsAfterKeys, ListsAfterMessages DEF IInv, Next
<1> QED BY <1>1, <1>2, IInvCorrect, PTL DEF Spec

-----------------------------------------------------------------------------
(* Roles.                                                                  *)

(* What a start of the program does not restore, it announces.             *)
LEMMA StartAnnounces ==
    ASSUME TypeOK, NEW r \in Roles, selection[r] # Unset,
           Restoring[selection[r][1]].at = "none"
    PROVE  selection[r][1] \in Missing(selection)
<1>1. selection[r][1] \in Providers
  BY DEF TypeOK, Choices
<1>2. Load(selection[r][1]) = NoKey
  BY <1>1 DEF Restoring
<1> QED BY <1>1, <1>2 DEF Missing

(* An answer never takes an announcement back, and makes one itself.       *)
Usable(p) == connected[p] \/ p \in issues

LEMMA LoseAnnounces ==
    ASSUME TypeOK, NEW p \in Providers, Lose(p)
    PROVE  Usable(p)' /\ \A q \in Providers : Usable(q) => Usable(q)'
  BY DEF TypeOK, Lose, Usable

LEMMA LearnConnects ==
    ASSUME TypeOK, NEW p \in Providers, NEW models, Learn(p, models)
    PROVE  Usable(p)' /\ \A q \in Providers : Usable(q) => Usable(q)'
  BY DEF TypeOK, Learn, Usable

(* A message ends no restore but its own, and announces that provider.     *)
LEMMA MessageAnnounces ==
    ASSUME TypeOK, ProviderInv, Message
    PROVE  /\ UNCHANGED selection
           /\ \A q \in Providers :
                  restores'[q].at = "none" /\ (restores[q].at = "none" => Usable(q))
                  => Usable(q)'
<1> USE DEF requests, known, chosen
<1>1. CASE PlanArrives
  BY <1>1 DEF PlanArrives, Usable
<1>2. CASE \E r \in Attempts : IgnoreAnswer(r)
  BY <1>2 DEF IgnoreAnswer, Usable
<1>3. CASE \E r \in Attempts : AttemptFails(r)
  <2>1. PICK r \in Attempts : AttemptFails(r)
    BY <1>3
  <2>2. attempts[r].provider \in Providers
    BY <2>1 DEF AttemptFails, ProviderInv, InProgress
  <2> QED BY <2>1, <2>2, LoseAnnounces DEF AttemptFails
<1>4. CASE \E r \in Attempts : AttemptSucceeds(r)
  <2>1. PICK r \in Attempts : AttemptSucceeds(r)
    BY <1>4
  <2>2. attempts[r].provider \in Providers
    BY <2>1 DEF AttemptSucceeds, ProviderInv, InProgress
  <2> QED BY <2>1, <2>2, LearnConnects DEF AttemptSucceeds
<1>5. CASE \E p \in Providers : RestoreFails(p)
  <2>1. PICK p \in Providers : RestoreFails(p)
    BY <1>5
  <2>2. \A q \in Providers \ {p} : restores'[q] = restores[q]
    BY <2>1 DEF RestoreFails, TypeOK
  <2>3. Usable(p)' /\ \A q \in Providers : Usable(q) => Usable(q)'
    BY <2>1, LoseAnnounces DEF RestoreFails
  <2> QED BY <2>1, <2>2, <2>3 DEF RestoreFails
<1>6. CASE \E p \in Providers : RestoreSucceeds(p)
  <2>1. PICK p \in Providers : RestoreSucceeds(p)
    BY <1>6
  <2>2. \A q \in Providers \ {p} : restores'[q] = restores[q]
    BY <2>1 DEF RestoreSucceeds, TypeOK
  <2>3. Usable(p)' /\ \A q \in Providers : Usable(q) => Usable(q)'
    BY <2>1, LearnConnects DEF RestoreSucceeds
  <2> QED BY <2>1, <2>2, <2>3 DEF RestoreSucceeds
<1> QED BY <1>1, <1>2, <1>3, <1>4, <1>5, <1>6 DEF Message, HandleAnswer

LEMMA SelectionAnnounced ==
    ASSUME TypeOK, UnusableIsAnnounced, NEW c \in Choices, SelectModel(c)
    PROVE  UnusableIsAnnounced'
<1> SUFFICES ASSUME NEW r \in Roles, selection'[r] # Unset,
                    restores'[selection'[r][1]].at = "none"
             PROVE  connected'[selection'[r][1]] \/ selection'[r][1] \in issues'
  BY DEF UnusableIsAnnounced
<1>1. c[1] \in Providers
  BY DEF Choices
<1>2. UNCHANGED <<restores, issues>>
  BY DEF SelectModel, requests
<1>3. connected'[c[1]] /\ \A p \in Providers : connected[p] => connected'[p]
  BY <1>1 DEF SelectModel, Apply, TypeOK
<1>4. selection' = [selection EXCEPT ![activeRole] = c]
  BY DEF SelectModel, Apply
<1>5. CASE r = activeRole
  <2>1. selection'[r] = c
    BY <1>4, <1>5 DEF TypeOK
  <2> QED BY <1>3, <2>1
<1>6. CASE r # activeRole
  <2>1. selection'[r] = selection[r]
    BY <1>4, <1>6 DEF TypeOK
  <2>2. selection[r][1] \in Providers
    BY <2>1 DEF TypeOK, Choices
  <2>3. connected[selection[r][1]] \/ selection[r][1] \in issues
    BY <1>2, <2>1 DEF UnusableIsAnnounced
  <2> QED BY <1>2, <1>3, <2>1, <2>2, <2>3
<1> QED BY <1>5, <1>6

LEMMA AnnouncedInductive ==
    ASSUME IInv, IInv', UnusableIsAnnounced, [Next]_vars
    PROVE  UnusableIsAnnounced'
<1>0. \A r \in Roles : selection[r] # Unset => selection[r][1] \in Providers
  BY DEF IInv, TypeOK, Choices
<1>1. CASE Key
  <2>1. CASE \E c \in Choices : SelectModel(c)
    BY <2>1, SelectionAnnounced DEF IInv
  <2>2. CASE ~\E c \in Choices : SelectModel(c)
    <3>1. UNCHANGED <<selection, restores, connected, issues>>
      BY <1>1, <2>2 DEF Key, OpenList, ToggleMode, CloseList, DecidePlan,
         ChooseProvider, EditKey, SubmitKey, LeaveForm, ChooseRole, requests, known,
         chosen
    <3> QED BY <3>1 DEF UnusableIsAnnounced
  <2> QED BY <2>1, <2>2
<1>2. CASE Message
  BY <1>0, <1>2, MessageAnnounces DEF IInv, UnusableIsAnnounced, Usable
<1>3. CASE \E r \in Attempts : StoreKey(r) \/ ListModels(r)
  BY <1>3 DEF StoreKey, ListModels, known, chosen, UnusableIsAnnounced
<1>4. CASE \E p \in Providers : RestoreModels(p)
  <2>1. PICK p \in Providers : RestoreModels(p)
    BY <1>4
  <2>2. \A q \in Providers : restores'[q].at = "none" => restores[q].at = "none"
    BY <2>1, AnswerType DEF RestoreModels, Answers, IInv, TypeOK
  <2> QED BY <1>0, <2>1, <2>2 DEF RestoreModels, known, chosen, UnusableIsAnnounced
<1>5. CASE Outside \/ UNCHANGED vars
  BY <1>5 DEF Outside, vars, requests, known, chosen, UnusableIsAnnounced
<1>6. CASE Relaunch
  <2>1. restores' = Restoring /\ issues' = Missing(selection) /\ UNCHANGED selection
    BY <1>6 DEF Relaunch
  <2> QED BY <2>1, StartAnnounces DEF IInv, UnusableIsAnnounced
<1> QED BY <1>1, <1>2, <1>3, <1>4, <1>5, <1>6 DEF Next, Command

(* A role whose provider is not restored is connected or in the hint, with *)
(* every selection and whatever answers when (collectMissingCredentialIssues, *)
(* ModelsFetchedMsg, ProviderRestoreResultMsg).                            *)
THEOREM UnusableIsAnnouncedCorrect == Spec => []UnusableIsAnnounced
<1>1. Init => UnusableIsAnnounced
  BY TypesInitially, StartAnnounces DEF Init, UnusableIsAnnounced
<1>2. IInv /\ IInv' /\ UnusableIsAnnounced /\ [Next]_vars => UnusableIsAnnounced'
  BY AnnouncedInductive
<1> QED BY <1>1, <1>2, IInvCorrect, PTL DEF Spec

(* A role is ready when its model was found: then its provider is listed.  *)
LEMMA ReadyMeansFound ==
    ASSUME NEW c, NEW conn, NEW disc
    PROVE  Configured(c, conn, disc) <=> c # Unset /\ c[2] \in disc[c[1]]
  BY DEF Configured, Shows, Found

(* Models are forgotten only by an answer without them.                    *)
LEMMA ForgetsModels ==
    ASSUME IInv, Next, ~Relaunch, NEW c \in Choices,
           c[2] \in discovered[c[1]], c[2] \notin discovered'[c[1]]
    PROVE  Withdrawn(c)
<1>0. c[1] \in Providers /\ discovered \in [Providers -> SUBSET Models]
  BY DEF IInv, TypeOK, Choices
<1>1. ~\E d \in Choices : SelectModel(d)
  BY <1>0 DEF SelectModel, Apply
<1>2. ~Key
  BY <1>1 DEF Key, OpenList, ToggleMode, CloseList, DecidePlan, ChooseProvider,
     EditKey, SubmitKey, LeaveForm, ChooseRole, known
<1>3. ~Command /\ ~Outside
  BY DEF Command, StoreKey, ListModels, RestoreModels, Outside, known
<1>4. Message
  BY <1>2, <1>3 DEF Next
<1>5. ~PlanArrives
  BY DEF PlanArrives, known
<1>6. \A r \in Attempts : ~IgnoreAnswer(r) /\ ~AttemptFails(r)
  BY DEF IgnoreAnswer, AttemptFails, Lose, known
<1>7. \A p \in Providers : ~RestoreFails(p)
  BY DEF RestoreFails, Lose
<1>8. CASE \E r \in Attempts : AttemptSucceeds(r)
  <2>1. PICK r \in Attempts : AttemptSucceeds(r)
    BY <1>8
  <2>2. discovered' = [discovered EXCEPT ![attempts[r].provider] = attempts[r].models]
    BY <2>1 DEF AttemptSucceeds, Learn
  <2>3. attempts[r].provider = c[1] /\ c[2] \notin attempts[r].models
    BY <1>0, <2>2
  <2>4. attempts'[r].at = "handled"
    BY <2>1 DEF AttemptSucceeds, Handled, IInv, TypeOK
  <2> QED BY <2>1, <2>3, <2>4 DEF AttemptSucceeds, Withdrawn
<1>9. CASE \E p \in Providers : RestoreSucceeds(p)
  <2>1. PICK p \in Providers : RestoreSucceeds(p)
    BY <1>9
  <2>2. discovered' = [discovered EXCEPT ![p] = restores[p].models]
    BY <2>1 DEF RestoreSucceeds, Learn
  <2>3. p = c[1] /\ c[2] \notin restores[p].models
    BY <1>0, <2>2
  <2>4. restores'[p].at = "none"
    BY <2>1 DEF RestoreSucceeds, Idle, IInv, TypeOK
  <2> QED BY <2>1, <2>3, <2>4 DEF RestoreSucceeds, Withdrawn
<1> QED BY <1>4, <1>5, <1>6, <1>7, <1>8, <1>9 DEF Message, HandleAnswer

(* A failed attempt, or a restore that fails late, takes no role away      *)
(* (ModelsFetchedMsg, ProviderRestoreResultMsg, applyRoleConfigToAgent).   *)
THEOREM FailureKeepsRolesCorrect == Spec => FailureKeepsRoles
<1>1. IInv /\ [Next]_vars => [\A r \in Roles :
          /\ Configured(selection[r], connected, discovered)
          /\ selection'[r] = selection[r] /\ ~Relaunch
          /\ ~Configured(selection[r], connected', discovered')
          => Withdrawn(selection[r])]_vars
  <2> SUFFICES ASSUME IInv, Next, NEW r \in Roles,
                      Configured(selection[r], connected, discovered), ~Relaunch,
                      ~Configured(selection[r], connected', discovered')
               PROVE  Withdrawn(selection[r])
    OBVIOUS
  <2>1. selection[r] \in Choices
    BY ReadyMeansFound DEF IInv, TypeOK
  <2> QED BY <2>1, ReadyMeansFound, ForgetsModels
<1> QED BY <1>1, IInvCorrect, PTL DEF Spec, FailureKeepsRoles

=============================================================================
