----------------------------- MODULE SessionStore -----------------------------
(***************************************************************************)
(* The database of sessions: the program that runs one session, saves its  *)
(* prompts, messages and model selections and is left and started again,   *)
(* and "orchestra export" and "orchestra import", which are processes of   *)
(* their own and may run beside it.                                        *)
(*                                                                         *)
(* An import is one transaction, and so one step; one that fails changes   *)
(* nothing.  Memory blocks and task results, which nothing but an import   *)
(* writes, and the execution mode are left out.                            *)
(*                                                                         *)
(* A step that saves something takes one tick of the clock, and a second   *)
(* has Second of them.  The program writes the time of a message as local  *)
(* text, at the offset in force when it saves it, which changes with the   *)
(* season and when the machine is moved; an export writes whole seconds,   *)
(* and an import text in UTC.  Rows are ordered by that text, without its  *)
(* zone.                                                                   *)
(***************************************************************************)
EXTENDS PromptHistory, Integers

CONSTANTS
    Models, Roles,
    Unset,              \* no session, no selection
    Zones,              \* local time less UTC, in ticks: the offsets there may be
    Second,             \* ticks of a second
    MaxClock            \* bound: the steps that save or start something

ASSUME UnsetAssumption == Unset \notin Sessions \cup Models
ASSUME ZoneAssumption == Zones \subseteq Int /\ Second \in Nat \ {0}
ASSUME ClockAssumption == MaxClock \in Nat

VARIABLES
    session,            \* the session of the running program
    created, rows,      \* all sessions there ever were; the table of sessions
    selections,         \* session_model_selections
    roleModels,         \* of the running program
    messages,           \* by session, in the order they were inserted
    files,              \* the exports: the messages of each of their sessions
    clock,              \* UTC
    lastChosen,         \* history: the selection last saved for each role
    evicted             \* history: sessions removed under the running program

program   == <<session, roleModels>>
storeVars == <<program, created, rows, selections, messages, files, lastChosen, evicted>>
vars      == <<lineVars, storeVars, clock>>

NoSelection == [model |-> Unset, at |-> 0]

(* A row of messages: when the message was made, which also tells which    *)
(* one it is, the time of the text of created_at, the offset written with  *)
(* it, and whether the program saved it (own) or an import.                *)
Row    == [made : Nat, at : Int, zone : Int, own : BOOLEAN]
Copied == [made : Nat, at : Int]

(* ORDER BY created_at may return row a before row b: rows with the same   *)
(* text come in any order.                                                 *)
MayPrecede(a, b) == a.at <= b.at

TypeOK ==
    /\ HistoryTypeOK
    /\ session \in Sessions \cup {Unset}
    /\ created \subseteq Sessions /\ rows \subseteq created /\ evicted \subseteq created
    /\ selections \in [Sessions -> [Roles -> [model : Models \cup {Unset}, at : Nat]]]
    /\ roleModels \in [Roles -> Models \cup {Unset}]
    /\ messages \in [Sessions -> Seq(Row)]
    /\ \A f \in files : /\ DOMAIN f \subseteq created
                       /\ \A s \in DOMAIN f : f[s] \in Seq(Copied)
    /\ lastChosen \in [Roles -> Models \cup {Unset}]
    /\ clock \in 0 .. MaxClock

-----------------------------------------------------------------------------
(* An empty database, and the export of one.                               *)
Init ==
    /\ HistoryInit
    /\ session = Unset /\ created = {} /\ rows = {}
    /\ selections = [s \in Sessions |-> [r \in Roles |-> NoSelection]]
    /\ roleModels = [r \in Roles |-> Unset]
    /\ messages = [s \in Sessions |-> <<>>]
    /\ files = {<<>>}
    /\ clock = 0
    /\ lastChosen = [r \in Roles |-> Unset]
    /\ evicted = {}

Tick == clock < MaxClock /\ clock' = clock + 1

(* GetLatestModelSelections.                                               *)
Newer(r, s) == \A t \in Sessions : selections[t][r].at <= selections[s][r].at
Latest(r)   == IF \A s \in Sessions : selections[s][r] = NoSelection THEN Unset
               ELSE selections[CHOOSE s \in Sessions : Newer(r, s)][r].model

(* loadPersistedSessionSelections: a session without any gets a copy of    *)
(* the latest of each role, unless it cannot be saved, which nobody learns.*)
LoadSelections(s) ==
    IF \E r \in Roles : selections[s][r] # NoSelection
    THEN /\ roleModels' = [r \in Roles |-> selections[s][r].model]
         /\ UNCHANGED selections
    ELSE /\ roleModels' = [r \in Roles |-> Latest(r)]
         /\ \E copied \in SUBSET {r \in Roles : Latest(r) # Unset} :
                selections' = [selections EXCEPT ![s] = [r \in Roles |->
                    IF r \in copied THEN [model |-> Latest(r), at |-> clock']
                                    ELSE NoSelection]]

(* bootstrapRuntime and NewAppModel, for a new session (CreateSession) or  *)
(* one to resume (GetSession).                                             *)
Launch(s) ==
    /\ session = Unset
    /\ Tick
    /\ \/ s \notin created
       \/ s \in rows
    /\ session' = s
    /\ created' = created \cup {s} /\ rows' = rows \cup {s}
    /\ LoadSelections(s)
    /\ LoadHistory(s)
    /\ UNCHANGED <<messages, files, lastChosen, evicted>>

(* The program ends, or dies.                                              *)
Quit ==
    /\ session # Unset
    /\ session' = Unset
    /\ UNCHANGED <<lineVars, roleModels, created, rows, selections, messages, files,
                   clock, lastChosen, evicted>>

(* Faulty variant: a row that is updated keeps its time.                   *)
SelectKeepsTime(r, m) ==
    /\ session # Unset
    /\ Tick
    /\ roleModels' = [roleModels EXCEPT ![r] = m]
    /\ selections' = [selections EXCEPT ![session][r] =
           [model |-> m, at |-> IF @ = NoSelection THEN clock' ELSE @.at]]
    /\ lastChosen' = [lastChosen EXCEPT ![r] = m]
    /\ UNCHANGED <<lineVars, session, created, rows, messages, files, evicted>>

(* applySelectedModel with SaveSessionModelSelection, which may fail.      *)
SelectModel(r, m) ==
    /\ session # Unset
    /\ Tick
    /\ roleModels' = [roleModels EXCEPT ![r] = m]
    /\ \/ UNCHANGED <<selections, lastChosen>>
       \/ /\ selections' = [selections EXCEPT ![session][r] = [model |-> m, at |-> clock']]
          /\ lastChosen' = [lastChosen EXCEPT ![r] = m]
    /\ UNCHANGED <<lineVars, session, created, rows, messages, files, evicted>>

(* The text of time t at offset z.                                         *)
Local(t, z) == t + z

(* SaveMessage, for the prompt of an exchange or for its answer.  If it    *)
(* fails, nobody learns of it.                                             *)
SaveMessage ==
    /\ session # Unset
    /\ Tick
    /\ \E z \in Zones :
          messages' = [messages EXCEPT ![session] = Append(@,
              [made |-> clock', at |-> Local(clock', z), zone |-> z, own |-> TRUE])]
    /\ UNCHANGED <<lineVars, program, created, rows, selections, files, lastChosen,
                   evicted>>

(* asString: the second in which a time lies.                              *)
Whole(t) == (t \div Second) * Second

(* Faulty variant: the text of a time is read as if it were UTC.           *)
ExportedLocal(rs) == [i \in DOMAIN rs |-> [made |-> rs[i].made, at |-> Whole(rs[i].at)]]

(* The messages of a session in an export.  In which order they stand does *)
(* not matter: an import gives them no other times.                        *)
Exported(rs) == [i \in DOMAIN rs |->
    [made |-> rs[i].made, at |-> Whole(rs[i].at - rs[i].zone)]]

(* orchestra export, of all sessions or of one.                            *)
Export ==
    /\ Tick
    /\ \E only \in {rows} \cup {{s} : s \in rows} :
           files' = files \cup {[s \in only |-> Exported(messages[s])]}
    /\ UNCHANGED <<lineVars, program, created, rows, selections, messages, lastChosen,
                   evicted>>

(* parseExportedTime: the time of the export, in UTC.                      *)
Imported(list) == [i \in DOMAIN list |->
    [made |-> list[i].made, at |-> list[i].at, zone |-> 0, own |-> FALSE]]

(* The table of messages with those of an export added.                    *)
Added(f) == [s \in Sessions |->
    IF s \in DOMAIN f THEN messages[s] \o Imported(f[s]) ELSE messages[s]]

(* orchestra import --merge=false: the settings, selections and histories  *)
(* of all sessions stay.                                                   *)
Replace(f) ==
    /\ Tick
    /\ rows' = DOMAIN f
    /\ messages' = [s \in Sessions |-> IF s \in DOMAIN f THEN Imported(f[s]) ELSE <<>>]
    /\ evicted' = IF session \in rows THEN evicted \cup ({session} \ DOMAIN f) ELSE evicted
    /\ UNCHANGED <<lineVars, program, created, selections, files, lastChosen>>

(* Faulty variant: the sessions are taken to be there.                     *)
MergeMessages(f) ==
    /\ Tick
    /\ messages' = Added(f)
    /\ UNCHANGED <<lineVars, program, created, rows, selections, files, lastChosen, evicted>>

(* orchestra import: a session that is there keeps its row, and all        *)
(* messages are added.                                                     *)
Merge(f) ==
    /\ Tick
    /\ rows' = rows \cup DOMAIN f
    /\ messages' = Added(f)
    /\ UNCHANGED <<lineVars, program, created, selections, files, lastChosen, evicted>>

-----------------------------------------------------------------------------
InputLine ==
    /\ session # Unset
    /\ \/ \E l \in Lines : Type(l)
       \/ \E l \in Lines : Edit(l)
       \/ \E c \in Commands : Complete(c)
       \/ Up \/ Down
    /\ UNCHANGED <<storeVars, clock>>

EnterLine ==
    /\ session # Unset
    /\ Tick
    /\ Enter(session)
    /\ UNCHANGED storeVars

Next ==
    \/ \E s \in Sessions : Launch(s)
    \/ Quit
    \/ InputLine \/ EnterLine
    \/ \E r \in Roles, m \in Models : SelectModel(r, m)
    \/ SaveMessage
    \/ Export
    \/ \E f \in files : Replace(f) \/ Merge(f)

Spec == Init /\ [][Next]_vars

-----------------------------------------------------------------------------
(* A session without selections of its own starts with the ones that were  *)
(* last chosen in any session: the copies made for a new session never     *)
(* bring an older choice back                                              *)
(* (TestGetLatestModelSelectionsAcrossSessions).                           *)
LatestIsLastChosen == \A r \in Roles : Latest(r) = lastChosen[r]

(* Whatever was exported, merged and replaced, and however the offset      *)
(* changed: of two messages of a session the older one may be read first,  *)
(* if each was added several times then by some of its rows, unless the    *)
(* program saved the newer one at a smaller offset than that of the older: *)
(* after the clock was set back, or west of Greenwich after an import.     *)
(* Only messages of one second may then change places (GetMessages,        *)
(* asString, importRows).                                                  *)
ReadInOrder == \A s \in Sessions : \A i, j \in DOMAIN messages[s] :
    LET rs == messages[s]
    IN  rs[i].made < rs[j].made =>
            \/ rs[j].own /\ rs[j].zone < rs[i].zone
            \/ \E k, l \in DOMAIN rs : /\ rs[k].made = rs[i].made
                                       /\ rs[l].made = rs[j].made
                                       /\ MayPrecede(rs[k], rs[l])

(* Every message belongs to a session that the lists and exports show,     *)
(* unless an import removed the session under the program that ran it.     *)
NoOrphans == \A s \in Sessions \ evicted : messages[s] # <<>> => s \in rows
=============================================================================
