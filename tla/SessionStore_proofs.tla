------------------------- MODULE SessionStore_proofs --------------------------
(***************************************************************************)
(* Proofs about SessionStore and PromptHistory, for any sessions, lines,   *)
(* roles, models, zones and bounds: the input history is recalled and      *)
(* kept, no message is without its session, messages are read in the order *)
(* in which they were made, and a new session starts with the models that  *)
(* were chosen last.                                                       *)
(***************************************************************************)
EXTENDS SessionStore, PromptHistory_proofs

USE UnsetAssumption, ClockAssumption

-----------------------------------------------------------------------------
(* The session of the program and its rows.                                *)

(* A running program has a session, and a row of it unless an import took  *)
(* it away.                                                                *)
SessionInv ==
    /\ session \in Sessions \cup {Unset}
    /\ session # Unset => session \in rows \cup evicted
    /\ messages = [s \in Sessions |-> messages[s]]

Import == \E f \in files : Replace(f) \/ Merge(f)

LEMMA SessionInitially ==
    ASSUME Init
    PROVE  SessionInv /\ NoOrphans
  BY DEF Init, SessionInv, NoOrphans

LEMMA ImportSteps ==
    ASSUME SessionInv, NoOrphans, Import
    PROVE  SessionInv' /\ NoOrphans'
<1> USE DEF SessionInv, NoOrphans
<1>1. PICK f \in files : Replace(f) \/ Merge(f)
  BY DEF Import
<1>2. CASE Replace(f)
  <2>1. messages' = [s \in Sessions |-> messages'[s]] /\ UNCHANGED session
    BY <1>2 DEF Replace, program
  <2>2. \A s \in Sessions : messages'[s] # <<>> => s \in rows'
    BY <1>2 DEF Replace
  <2>3. session # Unset => session \in rows' \cup evicted'
    BY <1>2 DEF Replace
  <2> QED BY <2>1, <2>2, <2>3
<1>3. CASE Merge(f)
  <2>1. messages' = [s \in Sessions |-> messages'[s]]
    BY <1>3 DEF Merge, Added
  <2>2. \A s \in Sessions \ DOMAIN f : messages'[s] = messages[s]
    BY <1>3 DEF Merge, Added
  <2>3. rows' = rows \cup DOMAIN f /\ UNCHANGED <<session, evicted>>
    BY <1>3 DEF Merge, program
  <2> QED BY <2>1, <2>2, <2>3
<1> QED BY <1>1, <1>2, <1>3

LEMMA SessionInductive ==
    ASSUME SessionInv, NoOrphans, [Next]_vars
    PROVE  SessionInv' /\ NoOrphans'
<1> USE DEF SessionInv, NoOrphans, program, storeVars
<1>1. CASE \E s \in Sessions : Launch(s)
  BY <1>1 DEF Launch
<1>2. CASE Quit
  BY <1>2 DEF Quit
<1>3. CASE InputLine \/ EnterLine
  BY <1>3 DEF InputLine, EnterLine
<1>4. CASE \E r \in Roles, m \in Models : SelectModel(r, m)
  BY <1>4 DEF SelectModel
<1>5. CASE SaveMessage
  <2>1. session \in Sessions /\ session \in rows \cup evicted
    BY <1>5 DEF SaveMessage
  <2>2. \E row : messages' = [messages EXCEPT ![session] = Append(@, row)]
    BY <1>5 DEF SaveMessage
  <2>3. /\ messages' = [s \in Sessions |-> messages'[s]]
        /\ \A s \in Sessions \ {session} : messages'[s] = messages[s]
    BY <2>1, <2>2
  <2> QED BY <1>5, <2>1, <2>3 DEF SaveMessage
<1>6. CASE Export
  BY <1>6 DEF Export
<1>7. CASE Import
  BY <1>7, ImportSteps
<1>8. CASE UNCHANGED vars
  BY <1>8 DEF vars
<1> QED BY <1>1, <1>2, <1>3, <1>4, <1>5, <1>6, <1>7, <1>8 DEF Next, Import

LEMMA SessionInvCorrect == Spec => [](SessionInv /\ NoOrphans)
  BY SessionInitially, SessionInductive, PTL DEF Spec

(* Every message belongs to a session that is listed, whatever is exported *)
(* and imported beside the program, unless an import removed the session   *)
(* under it (SaveMessage, importRows).                                     *)
THEOREM NoOrphansCorrect == Spec => []NoOrphans
  BY SessionInvCorrect, PTL

-----------------------------------------------------------------------------
(* The input history.                                                      *)

LEMMA NextHistory ==
    ASSUME SessionInv, [Next]_vars
    PROVE  HistoryStep
<1> USE DEF HistoryStep
<1>1. CASE \E s \in Sessions : Launch(s)
  BY <1>1 DEF Launch
<1>2. CASE InputLine
  BY <1>2 DEF InputLine
<1>3. CASE EnterLine
  BY <1>3 DEF EnterLine, SessionInv
<1>4. CASE \/ Quit \/ SaveMessage \/ Export \/ Import \/ UNCHANGED vars
           \/ \E r \in Roles, m \in Models : SelectModel(r, m)
  BY <1>4 DEF Quit, SaveMessage, Export, Import, Replace, Merge, SelectModel, vars
<1> QED BY <1>1, <1>2, <1>3, <1>4 DEF Next, Import

LEMMA HistoryCorrect == Spec => [](HistoryTypeOK /\ RecallIsSafe /\ HistoryKept)
<1>1. Init => HistoryTypeOK /\ RecallIsSafe /\ HistoryKept
  BY HistoryInitially DEF Init
<1>2. SessionInv /\ HistoryTypeOK /\ RecallIsSafe /\ HistoryKept /\ [Next]_vars
          => HistoryTypeOK' /\ RecallIsSafe' /\ HistoryKept'
  BY NextHistory, HistoryTypes, RecallStep, KeptStep
<1> QED BY <1>1, <1>2, SessionInvCorrect, PTL DEF Spec

(* The variables of the input line keep their types, and the running       *)
(* program holds no more entries than the limit.                           *)
THEOREM HistoryTypeCorrect == Spec => []HistoryTypeOK
  BY HistoryCorrect, PTL

(* Up brings back an entry that exists, and Down the line that was there   *)
(* before (HistoryPrev, HistoryNext).                                      *)
THEOREM RecallIsSafeCorrect == Spec => []RecallIsSafe
  BY HistoryCorrect, PTL

(* The table holds the newest entries of each session in order, whichever  *)
(* of the two statements fails (AppendSessionInputHistory).                *)
THEOREM HistoryKeptCorrect == Spec => []HistoryKept
  BY HistoryCorrect, PTL

-----------------------------------------------------------------------------
(* The selections.                                                         *)

Selection == [model : Models \cup {Unset}, at : Nat]

(* No row is newer than the clock, and a row has a model.                  *)
RowsInv ==
    /\ clock \in Nat
    /\ selections \in [Sessions -> [Roles -> Selection]]
    /\ lastChosen \in [Roles -> Models \cup {Unset}]
    /\ \A s \in Sessions, r \in Roles :
          /\ selections[s][r].at <= clock
          /\ selections[s][r].model = Unset => selections[s][r] = NoSelection

(* The newest rows of a role hold the choice that was saved last.          *)
NoneChosen(r) == \A s \in Sessions : selections[s][r] = NoSelection

NewestChosen(r) ==
    /\ \E s \in Sessions : Newer(r, s)
    /\ \A s \in Sessions : Newer(r, s) =>
          selections[s][r] # NoSelection /\ selections[s][r].model = lastChosen[r]

ChosenInv == \A r \in Roles : (NoneChosen(r) /\ lastChosen[r] = Unset) \/ NewestChosen(r)

LEMMA LatestOfChosen ==
    ASSUME RowsInv, ChosenInv, NEW r \in Roles
    PROVE  Latest(r) = lastChosen[r] /\ (Latest(r) = Unset => NoneChosen(r))
<1>1. CASE NoneChosen(r) /\ lastChosen[r] = Unset
  BY <1>1 DEF Latest, NoneChosen
<1>2. CASE NewestChosen(r)
  <2>1. ~NoneChosen(r)
    BY <1>2 DEF NewestChosen, NoneChosen
  <2>2. Latest(r) = selections[CHOOSE s \in Sessions : Newer(r, s)][r].model
    BY <2>1 DEF Latest, NoneChosen
  <2> DEFINE s == CHOOSE s \in Sessions : Newer(r, s)
  <2>3. s \in Sessions /\ Newer(r, s)
    BY <1>2 DEF NewestChosen
  <2> HIDE DEF s
  <2>4. selections[s][r].model = lastChosen[r] /\ selections[s][r] # NoSelection
    BY <1>2, <2>3 DEF NewestChosen
  <2>5. lastChosen[r] # Unset
    BY <2>3, <2>4 DEF RowsInv
  <2> QED BY <2>2, <2>4, <2>5 DEF s
<1> QED BY <1>1, <1>2 DEF ChosenInv

(* A row written at a new time is the newest one of its role.              *)
LEMMA WriteIsNewest ==
    ASSUME RowsInv, NEW r \in Roles, NEW s \in Sessions, NEW m \in Models,
           clock' = clock + 1,
           selections'[s][r] = [model |-> m, at |-> clock'],
           \A t \in Sessions \ {s} : selections'[t][r] = selections[t][r],
           lastChosen'[r] = m
    PROVE  NewestChosen(r)'
<1>1. clock \in Nat /\ \A t \in Sessions : selections[t][r].at \in Nat
                                         /\ selections[t][r].at <= clock
  BY DEF RowsInv, Selection
<1>2. selections'[s][r].at = clock + 1 /\ selections'[s][r].model = m
  OBVIOUS
<1>3. \A t \in Sessions : selections'[t][r].at <= selections'[s][r].at
  BY <1>1, <1>2
<1>4. \A t \in Sessions \ {s} : ~(selections'[s][r].at <= selections'[t][r].at)
  BY <1>1, <1>2
<1>5. selections'[s][r] # NoSelection
  BY <1>2 DEF NoSelection
<1> QED BY <1>2, <1>3, <1>4, <1>5 DEF NewestChosen, Newer

(* Nothing is written for the role.                                        *)
LEMMA RoleStays ==
    ASSUME NEW r \in Roles, (NoneChosen(r) /\ lastChosen[r] = Unset) \/ NewestChosen(r),
           \A s \in Sessions : selections'[s][r] = selections[s][r],
           lastChosen'[r] = lastChosen[r]
    PROVE  ((NoneChosen(r) /\ lastChosen[r] = Unset) \/ NewestChosen(r))'
  BY DEF NoneChosen, NewestChosen, Newer

LEMMA SelectInductive ==
    ASSUME RowsInv, ChosenInv, SessionInv,
           NEW r \in Roles, NEW m \in Models, SelectModel(r, m)
    PROVE  RowsInv' /\ ChosenInv'
<1>1. session \in Sessions /\ clock' = clock + 1 /\ clock \in Nat
  BY DEF SelectModel, Tick, SessionInv, RowsInv
<1>2. CASE UNCHANGED <<selections, lastChosen>>
  <2>1. ChosenInv'
    BY <1>2 DEF ChosenInv, NoneChosen, NewestChosen, Newer
  <2>2. \A s \in Sessions, q \in Roles : selections[s][q].at \in Nat
    BY DEF RowsInv, Selection
  <2> QED BY <1>1, <1>2, <2>1, <2>2 DEF RowsInv
<1>3. CASE ~UNCHANGED <<selections, lastChosen>>
  <2> DEFINE row == [model |-> m, at |-> clock']
  <2>1. /\ selections' = [selections EXCEPT ![session][r] = row]
        /\ lastChosen' = [lastChosen EXCEPT ![r] = m]
    BY <1>3 DEF SelectModel
  <2>2. row \in Selection /\ row # NoSelection
    BY <1>1 DEF Selection, NoSelection
  <2>3. /\ selections'[session][r] = row
        /\ \A t \in Sessions, q \in Roles : t # session \/ q # r =>
               selections'[t][q] = selections[t][q]
        /\ lastChosen'[r] = m
        /\ \A q \in Roles \ {r} : lastChosen'[q] = lastChosen[q]
    BY <1>1, <2>1 DEF RowsInv
  <2>4. /\ selections' \in [Sessions -> [Roles -> Selection]]
        /\ lastChosen' \in [Roles -> Models \cup {Unset}]
    BY <1>1, <2>1, <2>2 DEF RowsInv
  <2>5. \A t \in Sessions, q \in Roles :
            /\ selections'[t][q].at <= clock'
            /\ selections'[t][q].model = Unset => selections'[t][q] = NoSelection
    <3>1. row.at <= clock' /\ row.model # Unset
      BY <1>1
    <3>2. \A t \in Sessions, q \in Roles : selections[t][q].at \in Nat
      BY DEF RowsInv, Selection
    <3>3. ASSUME NEW t \in Sessions, NEW q \in Roles, t # session \/ q # r
          PROVE  /\ selections'[t][q].at <= clock'
                 /\ selections'[t][q].model = Unset => selections'[t][q] = NoSelection
      <4>1. selections'[t][q] = selections[t][q]
        BY <2>3, <3>3
      <4> QED BY <1>1, <3>2, <4>1 DEF RowsInv
    <3> HIDE DEF row
    <3> QED BY <2>3, <3>1, <3>3
  <2>6. NewestChosen(r)'
    BY <1>1, <2>3, WriteIsNewest
  <2>7. \A q \in Roles \ {r} :
            ((NoneChosen(q) /\ lastChosen[q] = Unset) \/ NewestChosen(q))'
    BY <2>3, RoleStays DEF ChosenInv
  <2> QED BY <1>1, <2>4, <2>5, <2>6, <2>7 DEF RowsInv, ChosenInv
<1> QED BY <1>2, <1>3

(* The copies made for a new session are the newest rows, and no news.     *)
LEMMA LaunchInductive ==
    ASSUME RowsInv, ChosenInv, NEW s \in Sessions, Launch(s)
    PROVE  RowsInv' /\ ChosenInv'
<1>1. clock' = clock + 1 /\ clock \in Nat /\ UNCHANGED lastChosen
  BY DEF Launch, Tick, RowsInv
<1>2. CASE UNCHANGED selections
  <2>1. ChosenInv'
    BY <1>1, <1>2 DEF ChosenInv, NoneChosen, NewestChosen, Newer
  <2>2. \A t \in Sessions, q \in Roles : selections[t][q].at \in Nat
    BY DEF RowsInv, Selection
  <2> QED BY <1>1, <1>2, <2>1, <2>2 DEF RowsInv
<1>3. CASE ~UNCHANGED selections
  <2>1. PICK copied \in SUBSET {r \in Roles : Latest(r) # Unset} :
            selections' = [selections EXCEPT ![s] = [r \in Roles |->
                IF r \in copied THEN [model |-> Latest(r), at |-> clock']
                                ELSE NoSelection]]
    BY <1>3 DEF Launch, LoadSelections
  <2>1a. \A r \in Roles : selections[s][r] = NoSelection
    BY <1>3 DEF Launch, LoadSelections
  <2> DEFINE row(r) == IF r \in copied THEN [model |-> Latest(r), at |-> clock']
                       ELSE NoSelection
  <2>2. \A r \in Roles : Latest(r) = lastChosen[r] /\ (Latest(r) = Unset => NoneChosen(r))
    BY LatestOfChosen
  <2>3. \A r \in Roles : row(r) \in Selection
    BY <1>1, <2>2 DEF RowsInv, Selection, NoSelection
  <2>4. \A r \in Roles : row(r).at <= clock'
                        /\ (row(r).model = Unset => row(r) = NoSelection)
    BY <1>1 DEF NoSelection
  <2>5. /\ \A r \in Roles : selections'[s][r] = row(r)
        /\ \A t \in Sessions \ {s}, r \in Roles : selections'[t][r] = selections[t][r]
    BY <2>1 DEF RowsInv
  <2>6. selections' \in [Sessions -> [Roles -> Selection]]
    BY <2>1, <2>3 DEF RowsInv
  <2>7. \A t \in Sessions, r \in Roles :
            /\ selections'[t][r].at <= clock'
            /\ selections'[t][r].model = Unset => selections'[t][r] = NoSelection
    <3>1. \A t \in Sessions, r \in Roles : selections[t][r].at \in Nat
      BY DEF RowsInv, Selection
    <3> HIDE DEF row
    <3> QED BY <1>1, <2>4, <2>5, <3>1 DEF RowsInv
  <2>8. ASSUME NEW r \in Roles
        PROVE  ((NoneChosen(r) /\ lastChosen[r] = Unset) \/ NewestChosen(r))'
    <3>1. CASE r \notin copied
      <4>1. \A t \in Sessions : selections'[t][r] = selections[t][r]
        BY <2>1a, <2>5, <3>1
      <4> QED BY <1>1, <4>1, RoleStays DEF ChosenInv
    <3>2. CASE r \in copied
      <4>1. Latest(r) \in Models /\ lastChosen'[r] = Latest(r)
        BY <1>1, <2>2, <3>2 DEF RowsInv
      <4>2. selections'[s][r] = [model |-> Latest(r), at |-> clock']
        BY <2>5, <3>2
      <4> QED BY <1>1, <2>5, <4>1, <4>2, WriteIsNewest
    <3> QED BY <3>1, <3>2
  <2> QED BY <1>1, <2>6, <2>7, <2>8 DEF RowsInv, ChosenInv
<1> QED BY <1>2, <1>3

LEMMA SelectionsInductive ==
    ASSUME RowsInv, ChosenInv, SessionInv, [Next]_vars
    PROVE  RowsInv' /\ ChosenInv'
<1>1. CASE (\E s \in Sessions : Launch(s)) \/ \E r \in Roles, m \in Models : SelectModel(r, m)
  BY <1>1, LaunchInductive, SelectInductive
<1>2. CASE Quit \/ InputLine \/ EnterLine \/ SaveMessage \/ Export \/ Import
           \/ UNCHANGED vars
  <2>1. UNCHANGED <<selections, lastChosen>> /\ (clock' = clock \/ clock' = clock + 1)
    BY <1>2 DEF Quit, InputLine, EnterLine, SaveMessage, Export, Import, Replace, Merge,
       Tick, storeVars, vars
  <2>2. ChosenInv'
    BY <2>1 DEF ChosenInv, NoneChosen, NewestChosen, Newer
  <2>3. \A s \in Sessions, r \in Roles : selections[s][r].at \in Nat
    BY DEF RowsInv, Selection
  <2> QED BY <2>1, <2>2, <2>3 DEF RowsInv
<1> QED BY <1>1, <1>2 DEF Next, Import

LEMMA SelectionsInitially ==
    ASSUME Init
    PROVE  RowsInv /\ ChosenInv
<1>1. NoSelection \in Selection
  BY DEF NoSelection, Selection
<1>2. RowsInv
  BY <1>1 DEF Init, RowsInv, NoSelection
<1>3. ChosenInv
  BY DEF Init, ChosenInv, NoneChosen
<1> QED BY <1>2, <1>3

LEMMA SelectionsCorrect == Spec => [](RowsInv /\ ChosenInv)
  BY SelectionsInitially, SelectionsInductive, SessionInvCorrect, PTL DEF Spec

(* The models a new session starts with are the ones chosen last in any    *)
(* session (GetLatestModelSelections, loadPersistedSessionSelections).     *)
THEOREM LatestIsLastChosenCorrect == Spec => []LatestIsLastChosen
<1>1. RowsInv /\ ChosenInv => LatestIsLastChosen
  BY LatestOfChosen DEF LatestIsLastChosen
<1> QED BY <1>1, SelectionsCorrect, PTL

-----------------------------------------------------------------------------
(* Whole seconds.                                                          *)

LEMMA Quotient ==
    ASSUME NEW t \in Nat
    PROVE  /\ t \div Second \in Nat
           /\ Whole(t) \in Nat /\ Whole(t) <= t /\ t < Whole(t) + Second
  BY ZoneAssumption DEF Whole

(* A multiple that is below another one is a whole factor below it.        *)
LEMMA Multiples ==
    ASSUME NEW a \in Nat, NEW b \in Nat, NEW k \in Nat, a * k < (b + 1) * k
    PROVE  a * k <= b * k
<1>1. \A m, n \in Nat : m * n \in Nat
  OBVIOUS
<1>2. CASE a <= b
  <2>1. b - a \in Nat /\ (b - a) * k \in Nat /\ a * k \in Nat
    BY <1>1, <1>2
  <2>2. b * k = a * k + (b - a) * k
    OBVIOUS
  <2> QED BY <2>1, <2>2
<1>3. CASE a >= b + 1
  <2>1. a - (b + 1) \in Nat /\ (a - (b + 1)) * k \in Nat /\ (b + 1) * k \in Nat
    BY <1>1, <1>3
  <2>2. a * k = (b + 1) * k + (a - (b + 1)) * k
    OBVIOUS
  <2>3. FALSE
    BY <2>1, <2>2
  <2> QED BY <2>3
<1> QED BY <1>2, <1>3

LEMMA WholeMonotone ==
    ASSUME NEW t \in Nat, NEW u \in Nat, t <= u
    PROVE  Whole(t) <= Whole(u)
<1> DEFINE a == t \div Second
           b == u \div Second
<1>1. /\ a \in Nat /\ b \in Nat /\ Second \in Nat
      /\ Whole(t) <= t /\ u < Whole(u) + Second /\ Whole(t) \in Nat /\ Whole(u) \in Nat
  BY Quotient, ZoneAssumption
<1>2. Whole(t) = a * Second /\ Whole(u) = b * Second
  BY DEF Whole
<1> HIDE DEF a, b
<1>3. (b + 1) * Second = b * Second + Second
  <2>1. \A m, n \in Int : (m + 1) * n = m * n + n
    OBVIOUS
  <2> QED BY <1>1, <2>1
<1>4. a * Second < (b + 1) * Second
  BY <1>1, <1>2, <1>3
<1> QED BY <1>1, <1>2, <1>4, Multiples

LEMMA WholeOfWhole ==
    ASSUME NEW t \in Nat
    PROVE  Whole(Whole(t)) = Whole(t)
<1> DEFINE a == t \div Second
<1>1. a \in Nat /\ Whole(t) = a * Second
  BY Quotient DEF Whole
<1> HIDE DEF a
<1>2. (a * Second) \div Second = a
  BY <1>1, ZoneAssumption
<1> QED BY <1>1, <1>2 DEF Whole

-----------------------------------------------------------------------------
(* The messages.                                                           *)

(* The rows of a table, and the messages of an export.                     *)
Inside(s) == {s[i] : i \in DOMAIN s}

LEMMA InsideAppend ==
    ASSUME NEW S, NEW s \in Seq(S), NEW e \in S
    PROVE  Append(s, e) \in Seq(S) /\ Inside(Append(s, e)) = Inside(s) \cup {e}
<1> DEFINE t == Append(s, e)
<1>1. /\ t \in Seq(S) /\ DOMAIN t = DOMAIN s \cup {Len(s) + 1}
      /\ Len(s) + 1 \notin DOMAIN s
      /\ t[Len(s) + 1] = e /\ \A i \in DOMAIN s : t[i] = s[i]
  OBVIOUS
<1> HIDE DEF t
<1>2. Inside(t) = Inside(s) \cup {e}
  BY <1>1 DEF Inside
<1> QED BY <1>1, <1>2 DEF t

LEMMA InsideConcat ==
    ASSUME NEW S, NEW s \in Seq(S), NEW t \in Seq(S)
    PROVE  s \o t \in Seq(S) /\ Inside(s \o t) = Inside(s) \cup Inside(t)
<1> DEFINE u == s \o t
<1>1. /\ u \in Seq(S) /\ DOMAIN u = 1 .. Len(s) + Len(t)
      /\ DOMAIN s = 1 .. Len(s) /\ Len(s) \in Nat
      /\ DOMAIN t = 1 .. Len(t) /\ Len(t) \in Nat
      /\ \A i \in DOMAIN s : u[i] = s[i]
      /\ \A i \in DOMAIN t : u[Len(s) + i] = t[i]
  OBVIOUS
<1> HIDE DEF u
<1>2. /\ \A i \in DOMAIN u : i \in DOMAIN s \/ \E k \in DOMAIN t : i = Len(s) + k
      /\ \A i \in DOMAIN s : i \in DOMAIN u
      /\ \A k \in DOMAIN t : Len(s) + k \in DOMAIN u
  <2>1. ASSUME NEW i \in DOMAIN u, i \notin DOMAIN s
        PROVE  \E k \in DOMAIN t : i = Len(s) + k
    <3>1. i - Len(s) \in DOMAIN t /\ i = Len(s) + (i - Len(s))
      BY <1>1, <2>1
    <3> QED BY <3>1
  <2> QED BY <1>1, <2>1
<1>3. Inside(u) = Inside(s) \cup Inside(t)
  BY <1>1, <1>2 DEF Inside
<1> QED BY <1>1, <1>3 DEF u

LEMMA InsideType ==
    ASSUME NEW S, NEW s \in Seq(S)
    PROVE  Inside(s) \subseteq S
  BY DEF Inside

(* A row of the program holds local time, one that was brought a whole     *)
(* second.                                                                 *)
Dated(rs, t) == \A r \in Inside(rs) :
    /\ r.made <= t
    /\ r.own => r.zone \in Zones /\ r.at = r.made + r.zone
    /\ ~r.own => r.zone = 0 /\ r.at = Whole(r.made)

Stamped(list, t) == \A c \in Inside(list) : c.made <= t /\ c.at = Whole(c.made)

Own(rs)      == {r.made : r \in {q \in Inside(rs) : q.own}}
Brought(rs)  == {r.made : r \in {q \in Inside(rs) : ~q.own}}
Listed(list) == {c.made : c \in Inside(list)}

MessagesInv ==
    /\ clock \in 0 .. MaxClock
    /\ messages \in [Sessions -> Seq(Row)]
    /\ \A s \in Sessions : Dated(messages[s], clock)
    /\ \A f \in files : \A s \in DOMAIN f : f[s] \in Seq(Copied) /\ Stamped(f[s], clock)

(* What an export or the rows that were brought have of a session is all   *)
(* that the program had saved in it up to their newest message.            *)
ClosedInv == \A s \in Sessions : \A m \in Own(messages[s]) :
    /\ \A n \in Brought(messages[s]) : n > m => m \in Brought(messages[s])
    /\ \A f \in files : s \in DOMAIN f =>
           \A n \in Listed(f[s]) : n > m => m \in Listed(f[s])

(* Lists and tables of what is dated.                                      *)
LEMMA TableTypes ==
    ASSUME NEW rs \in Seq(Row), NEW t \in Nat, Dated(rs, t)
    PROVE  /\ Own(rs) \subseteq Nat /\ Brought(rs) \subseteq Nat
           /\ \A m \in Own(rs) \cup Brought(rs) : m <= t
<1>1. \A r \in Inside(rs) : r.made \in Nat /\ r.made <= t
  BY InsideType DEF Dated, Row
<1> QED BY <1>1 DEF Own, Brought

LEMMA ListTypes ==
    ASSUME NEW list \in Seq(Copied), NEW t \in Nat, Stamped(list, t)
    PROVE  Listed(list) \subseteq Nat /\ \A m \in Listed(list) : m <= t
<1>1. \A c \in Inside(list) : c.made \in Nat /\ c.made <= t
  BY InsideType DEF Stamped, Copied
<1> QED BY <1>1 DEF Listed

LEMMA LaterIsDated ==
    ASSUME NEW t \in Nat, NEW u \in Nat, t <= u
    PROVE  /\ \A rs \in Seq(Row) : Dated(rs, t) => Dated(rs, u)
           /\ \A list \in Seq(Copied) : Stamped(list, t) => Stamped(list, u)
<1>1. ASSUME NEW rs \in Seq(Row), Dated(rs, t)
      PROVE  Dated(rs, u)
  <2>1. \A r \in Inside(rs) : r.made \in Nat /\ r.made <= t
    BY <1>1, InsideType DEF Dated, Row
  <2>2. \A r \in Inside(rs) : r.made <= u
    BY <2>1
  <2> QED BY <1>1, <2>2 DEF Dated
<1>2. ASSUME NEW list \in Seq(Copied), Stamped(list, t)
      PROVE  Stamped(list, u)
  <2>1. \A c \in Inside(list) : c.made \in Nat /\ c.made <= t
    BY <1>2, InsideType DEF Stamped, Copied
  <2>2. \A c \in Inside(list) : c.made <= u
    BY <2>1
  <2> QED BY <1>2, <2>2 DEF Stamped
<1> QED BY <1>1, <1>2

(* What is imported is brought.                                            *)
LEMMA ImportedRows ==
    ASSUME NEW list \in Seq(Copied)
    PROVE  /\ Imported(list) \in Seq(Row)
           /\ \A t \in Nat : Stamped(list, t) => Dated(Imported(list), t)
           /\ Own(Imported(list)) = {}
           /\ Brought(Imported(list)) = Listed(list)
<1> DEFINE rs == Imported(list)
           row(c) == [made |-> c.made, at |-> c.at, zone |-> 0, own |-> FALSE]
<1>1. \A c \in Copied : row(c) \in Row /\ c.made \in Nat
  BY DEF Row, Copied
<1>2. DOMAIN rs = DOMAIN list /\ \A i \in DOMAIN list : rs[i] = row(list[i])
  BY DEF Imported
<1>3. \A i \in DOMAIN list : list[i] \in Copied
  OBVIOUS
<1>4. rs \in Seq(Row)
  <2>1. rs \in [1 .. Len(list) -> Row] /\ Len(list) \in Nat
    <3>1. DOMAIN list = 1 .. Len(list) /\ Len(list) \in Nat
      OBVIOUS
    <3>2. rs = [i \in 1 .. Len(list) |-> row(list[i])]
      BY <3>1 DEF Imported
    <3> HIDE DEF rs, row
    <3> QED BY <1>1, <1>3, <3>1, <3>2
  <2> HIDE DEF rs
  <2> QED BY <2>1
<1>5. Inside(rs) = {row(c) : c \in Inside(list)}
  <2> HIDE DEF rs, row
  <2> QED BY <1>2 DEF Inside
<1> HIDE DEF rs
<1>6. \A r \in Inside(rs) : ~r.own /\ r.zone = 0
  BY <1>5
<1>7. Own(rs) = {}
  BY <1>6 DEF Own
<1>8. Brought(rs) = Listed(list)
  <2>1. \A c \in Inside(list) : row(c).made = c.made
    OBVIOUS
  <2>2. {q \in Inside(rs) : ~q.own} = Inside(rs)
    BY <1>6
  <2> HIDE DEF row
  <2> QED BY <1>5, <2>1, <2>2 DEF Brought, Listed
<1>9. \A t \in Nat : Stamped(list, t) => Dated(rs, t)
  BY <1>5 DEF Stamped, Dated
<1> QED BY <1>4, <1>7, <1>8, <1>9 DEF rs

(* An export has all messages of a session.                                *)
LEMMA ExportedRows ==
    ASSUME NEW rs \in Seq(Row), NEW t \in Nat, Dated(rs, t)
    PROVE  /\ Exported(rs) \in Seq(Copied) /\ Stamped(Exported(rs), t)
           /\ Listed(Exported(rs)) = Own(rs) \cup Brought(rs)
<1> DEFINE list == Exported(rs)
           copy(r) == [made |-> r.made, at |-> Whole(r.at - r.zone)]
<1>1. ASSUME NEW r \in Inside(rs)
      PROVE  /\ copy(r) \in Copied /\ copy(r).made = r.made
             /\ r.made <= t /\ copy(r).at = Whole(r.made)
  <2>1. r \in Row /\ r.made \in Nat /\ r.own \in BOOLEAN /\ r.zone \in Int
    BY InsideType DEF Row
  <2>2. CASE r.own
    <3>1. r.at = r.made + r.zone
      BY <2>2 DEF Dated
    <3>2. r.at - r.zone = r.made
      BY <2>1, <3>1
    <3>3. Whole(r.made) \in Nat /\ r.made <= t
      BY <2>1, Quotient DEF Dated
    <3>4. copy(r) = [made |-> r.made, at |-> Whole(r.made)]
      BY <3>2
    <3> QED BY <2>1, <3>3, <3>4 DEF Copied
  <2>3. CASE ~r.own
    <3>1. r.zone = 0 /\ r.at = Whole(r.made) /\ Whole(r.made) \in Nat
      BY <2>1, <2>3, Quotient DEF Dated
    <3>2. r.at - r.zone = Whole(r.made)
      BY <3>1
    <3> QED BY <2>1, <3>1, <3>2, WholeOfWhole DEF Dated, Copied
  <2> QED BY <2>2, <2>3
<1>2. DOMAIN list = DOMAIN rs /\ \A i \in DOMAIN rs : list[i] = copy(rs[i])
  BY DEF Exported
<1>3. list \in Seq(Copied)
  <2>1. \A i \in DOMAIN rs : copy(rs[i]) \in Copied
    BY <1>1 DEF Inside
  <2>2. list \in [1 .. Len(rs) -> Copied] /\ Len(rs) \in Nat
    <3>1. DOMAIN rs = 1 .. Len(rs) /\ Len(rs) \in Nat
      OBVIOUS
    <3>2. list = [i \in 1 .. Len(rs) |-> copy(rs[i])]
      BY <3>1 DEF Exported
    <3> HIDE DEF list, copy
    <3> QED BY <2>1, <3>1, <3>2
  <2> HIDE DEF list
  <2> QED BY <2>2
<1>4. Inside(list) = {copy(r) : r \in Inside(rs)}
  <2> HIDE DEF list, copy
  <2> QED BY <1>2 DEF Inside
<1> HIDE DEF list
<1>5. Stamped(list, t)
  <2> HIDE DEF copy
  <2> QED BY <1>1, <1>4 DEF Stamped
<1>6. Listed(list) = {r.made : r \in Inside(rs)}
  <2> HIDE DEF copy
  <2> QED BY <1>1, <1>4 DEF Listed
<1>7. {r.made : r \in Inside(rs)} = Own(rs) \cup Brought(rs)
  BY DEF Own, Brought
<1> QED BY <1>3, <1>5, <1>6, <1>7 DEF list

(* A table of messages to which the program or an import adds.             *)
LEMMA SavedRow ==
    ASSUME NEW rs \in Seq(Row), NEW m \in Nat, NEW z \in Zones, Dated(rs, m),
           NEW new, new = Append(rs, [made |-> m, at |-> Local(m, z),
                                      zone |-> z, own |-> TRUE])
    PROVE  /\ new \in Seq(Row) /\ Dated(new, m)
           /\ Own(new) = Own(rs) \cup {m} /\ Brought(new) = Brought(rs)
<1> DEFINE row == [made |-> m, at |-> Local(m, z), zone |-> z, own |-> TRUE]
<1>1. /\ row \in Row /\ row.made = m /\ row.at = m + z /\ row.zone = z /\ row.own
  BY ZoneAssumption DEF Row, Local
<1>2. new = Append(rs, row)
  OBVIOUS
<1> HIDE DEF row
<1>3. new \in Seq(Row) /\ Inside(new) = Inside(rs) \cup {row}
  <2>1. Append(rs, row) \in Seq(Row) /\ Inside(Append(rs, row)) = Inside(rs) \cup {row}
    BY <1>1, InsideAppend
  <2> QED BY <1>2, <2>1
<1>4. Dated(new, m)
  <2>1. row.made <= m /\ row.zone \in Zones /\ row.at = row.made + row.zone
    BY <1>1
  <2> QED BY <1>1, <1>3, <2>1 DEF Dated
<1>5. Own(new) = Own(rs) \cup {m} /\ Brought(new) = Brought(rs)
  BY <1>1, <1>3 DEF Own, Brought
<1> QED BY <1>3, <1>4, <1>5

LEMMA AddedRows ==
    ASSUME NEW rs \in Seq(Row), NEW list \in Seq(Copied), NEW t \in Nat,
           Dated(rs, t), Stamped(list, t),
           NEW new, new = rs \o Imported(list)
    PROVE  /\ new \in Seq(Row) /\ Dated(new, t)
           /\ Own(new) = Own(rs) /\ Brought(new) = Brought(rs) \cup Listed(list)
<1> DEFINE tail == Imported(list)
<1>1. /\ tail \in Seq(Row) /\ Dated(tail, t)
      /\ Own(tail) = {} /\ Brought(tail) = Listed(list)
  BY ImportedRows
<1> HIDE DEF tail
<1>2. new \in Seq(Row) /\ Inside(new) = Inside(rs) \cup Inside(tail)
  BY <1>1, InsideConcat DEF tail
<1>3. Dated(new, t)
  BY <1>1, <1>2 DEF Dated
<1>4. Own(new) = Own(rs) \cup Own(tail) /\ Brought(new) = Brought(rs) \cup Brought(tail)
  BY <1>2 DEF Own, Brought
<1> QED BY <1>1, <1>2, <1>3, <1>4

(* The sessions of the tables, of the exports and of the program were all  *)
(* created.                                                                *)
TablesInv ==
    /\ session \in created \cup {Unset}
    /\ created \subseteq Sessions /\ rows \subseteq created /\ evicted \subseteq created
    /\ \A f \in files : DOMAIN f \subseteq created
    /\ roleModels \in [Roles -> Models \cup {Unset}]

LEMMA TablesInductive ==
    ASSUME TablesInv, RowsInv, ChosenInv, [Next]_vars
    PROVE  TablesInv'
<1> USE DEF TablesInv, program, storeVars
<1>1. CASE \E s \in Sessions : Launch(s)
  <2>1. PICK s \in Sessions : Launch(s)
    BY <1>1
  <2>2. \A r \in Roles : Latest(r) \in Models \cup {Unset}
    BY LatestOfChosen DEF RowsInv
  <2>3. \A r \in Roles : selections[s][r].model \in Models \cup {Unset}
    BY DEF RowsInv, Selection
  <2>4. roleModels' \in [Roles -> Models \cup {Unset}]
    BY <2>1, <2>2, <2>3 DEF Launch, LoadSelections
  <2> QED BY <2>1, <2>4 DEF Launch
<1>2. CASE Quit
  BY <1>2 DEF Quit
<1>3. CASE InputLine \/ EnterLine
  BY <1>3 DEF InputLine, EnterLine
<1>4. CASE \E r \in Roles, m \in Models : SelectModel(r, m)
  BY <1>4 DEF SelectModel
<1>5. CASE SaveMessage
  BY <1>5 DEF SaveMessage
<1>6. CASE Export
  <2>1. PICK only \in {rows} \cup {{s} : s \in rows} :
            files' = files \cup {[s \in only |-> Exported(messages[s])]}
    BY <1>6 DEF Export
  <2>2. only \subseteq created
    OBVIOUS
  <2> QED BY <1>6, <2>1, <2>2 DEF Export
<1>7. CASE Import
  <2>1. PICK f \in files : Replace(f) \/ Merge(f)
    BY <1>7 DEF Import
  <2> QED BY <2>1 DEF Replace, Merge
<1>8. CASE UNCHANGED vars
  BY <1>8 DEF vars
<1> QED BY <1>1, <1>2, <1>3, <1>4, <1>5, <1>6, <1>7, <1>8 DEF Next, Import

MsgInv == TablesInv /\ MessagesInv /\ ClosedInv

LEMMA ClockSteps ==
    ASSUME clock \in 0 .. MaxClock, Tick
    PROVE  clock' \in 0 .. MaxClock /\ clock' = clock + 1 /\ clock \in Nat
  BY DEF Tick

(* Steps that leave the messages alone.                                    *)
LEMMA TimePasses ==
    ASSUME MessagesInv, ClosedInv, UNCHANGED <<messages, files>>,
           clock' \in 0 .. MaxClock, clock <= clock'
    PROVE  MessagesInv' /\ ClosedInv'
<1>1. clock \in Nat /\ clock' \in Nat
  BY DEF MessagesInv
<1>2. \A s \in Sessions : Dated(messages[s], clock')
  BY <1>1, LaterIsDated DEF MessagesInv
<1>3. \A f \in files : \A s \in DOMAIN f : Stamped(f[s], clock')
  BY <1>1, LaterIsDated DEF MessagesInv
<1>4. MessagesInv'
  BY <1>2, <1>3 DEF MessagesInv
<1>5. ClosedInv'
  BY DEF ClosedInv
<1> QED BY <1>4, <1>5

LEMMA SaveSteps ==
    ASSUME MsgInv, SessionInv, SaveMessage
    PROVE  MessagesInv' /\ ClosedInv'
<1> DEFINE old == messages[session]
           new == messages'[session]
<1>1. session \in Sessions /\ clock' \in 0 .. MaxClock /\ clock' = clock + 1 /\ clock \in Nat
      /\ files' = files
  BY ClockSteps DEF SaveMessage, SessionInv, MsgInv, MessagesInv
<1>2. PICK z \in Zones : messages' = [messages EXCEPT ![session] = Append(@,
          [made |-> clock', at |-> Local(clock', z), zone |-> z, own |-> TRUE])]
  BY DEF SaveMessage
<1>3. /\ \A s \in Sessions : messages[s] \in Seq(Row) /\ Dated(messages[s], clock)
                             /\ Dated(messages[s], clock')
      /\ messages \in [Sessions -> Seq(Row)]
  BY <1>1, LaterIsDated DEF MsgInv, MessagesInv
<1>4. /\ new = Append(old, [made |-> clock', at |-> Local(clock', z),
                            zone |-> z, own |-> TRUE])
      /\ \A s \in Sessions \ {session} : messages'[s] = messages[s]
  BY <1>1, <1>2, <1>3
<1>5. /\ new \in Seq(Row) /\ Dated(new, clock')
      /\ Own(new) = Own(old) \cup {clock'} /\ Brought(new) = Brought(old)
  <2>1. clock' \in Nat /\ old \in Seq(Row) /\ Dated(old, clock')
    BY <1>1, <1>3
  <2> HIDE DEF old, new
  <2> QED BY <1>4, <2>1, SavedRow
<1>6. \A m \in Brought(old) : m \in Nat /\ m <= clock
  BY <1>1, <1>3, TableTypes
<1>7. \A f \in files : \A s \in DOMAIN f : /\ f[s] \in Seq(Copied) /\ Stamped(f[s], clock')
                                          /\ \A n \in Listed(f[s]) : n \in Nat /\ n <= clock
  BY <1>1, LaterIsDated, ListTypes DEF MsgInv, MessagesInv
<1>8. messages' \in [Sessions -> Seq(Row)]
  <2>1. \A s \in Sessions : messages'[s] \in Seq(Row)
    BY <1>3, <1>4, <1>5
  <2>2. messages' = [s \in Sessions |-> messages'[s]]
    BY <1>2, <1>3
  <2> HIDE DEF new
  <2> QED BY <2>1, <2>2
<1>9. \A s \in Sessions : Dated(messages'[s], clock')
  BY <1>3, <1>4, <1>5
<1>10. MessagesInv'
  BY <1>1, <1>7, <1>8, <1>9 DEF MessagesInv
<1>11. ASSUME NEW s \in Sessions, NEW m \in Own(messages'[s])
       PROVE  /\ \A n \in Brought(messages'[s]) : n > m => m \in Brought(messages'[s])
              /\ \A f \in files : s \in DOMAIN f =>
                     \A n \in Listed(f[s]) : n > m => m \in Listed(f[s])
  <2>1. CASE s # session
    BY <1>4, <1>11, <2>1 DEF MsgInv, ClosedInv
  <2>2. CASE s = session
    <3>1. m \in Own(old) \cup {clock'} /\ Brought(messages'[s]) = Brought(old)
      BY <1>5, <1>11, <2>2
    <3>2. CASE m \in Own(old)
      BY <1>1, <2>2, <3>1, <3>2 DEF MsgInv, ClosedInv
    <3>3. CASE m = clock'
      <4>1. \A n \in Nat : n <= clock => ~(n > m)
        BY <1>1, <3>3
      <4> QED BY <1>6, <1>7, <3>1, <4>1
    <3> QED BY <3>1, <3>2, <3>3
  <2> QED BY <2>1, <2>2
<1> QED BY <1>1, <1>10, <1>11 DEF ClosedInv

LEMMA ExportSteps ==
    ASSUME MsgInv, Export
    PROVE  MessagesInv' /\ ClosedInv'
<1>1. clock' \in 0 .. MaxClock /\ clock' = clock + 1 /\ clock \in Nat /\ clock' \in Nat
      /\ clock <= clock' /\ messages' = messages
  BY ClockSteps DEF Export, MsgInv, MessagesInv
<1>2. PICK only \in {rows} \cup {{s} : s \in rows} :
          files' = files \cup {[s \in only |-> Exported(messages[s])]}
  BY DEF Export
<1> DEFINE file == [s \in only |-> Exported(messages[s])]
<1>3. only \subseteq Sessions
  BY DEF MsgInv, TablesInv
<1>4. \A s \in Sessions : messages[s] \in Seq(Row) /\ Dated(messages[s], clock')
  BY <1>1, LaterIsDated DEF MsgInv, MessagesInv
<1>5. \A s \in only : /\ file[s] \in Seq(Copied) /\ Stamped(file[s], clock')
                     /\ Listed(file[s]) = Own(messages[s]) \cup Brought(messages[s])
  BY <1>1, <1>3, <1>4, ExportedRows
<1>6. DOMAIN file = only /\ files' = files \cup {file}
  BY <1>2
<1> HIDE DEF file
<1>7. \A f \in files' : \A s \in DOMAIN f : f[s] \in Seq(Copied) /\ Stamped(f[s], clock')
  <2>1. \A f \in files : \A s \in DOMAIN f : f[s] \in Seq(Copied) /\ Stamped(f[s], clock')
    BY <1>1, LaterIsDated DEF MsgInv, MessagesInv
  <2> QED BY <1>5, <1>6, <2>1
<1>8. MessagesInv'
  BY <1>1, <1>4, <1>7 DEF MsgInv, MessagesInv
<1>9. ClosedInv'
  BY <1>1, <1>5, <1>6 DEF MsgInv, ClosedInv
<1> QED BY <1>8, <1>9

LEMMA AddedTables ==
    ASSUME MsgInv, NEW f \in files, NEW s \in Sessions
    PROVE  /\ Added(f)[s] \in Seq(Row) /\ Dated(Added(f)[s], clock)
           /\ Own(Added(f)[s]) = Own(messages[s])
           /\ Brought(Added(f)[s]) = IF s \in DOMAIN f
                  THEN Brought(messages[s]) \cup Listed(f[s]) ELSE Brought(messages[s])
<1>1. messages[s] \in Seq(Row) /\ Dated(messages[s], clock) /\ clock \in Nat
  BY DEF MsgInv, MessagesInv
<1>2. CASE s \in DOMAIN f
  <2>1. f[s] \in Seq(Copied) /\ Stamped(f[s], clock)
    BY <1>2 DEF MsgInv, MessagesInv
  <2>2. Added(f)[s] = messages[s] \o Imported(f[s])
    BY <1>2 DEF Added
  <2> QED BY <1>1, <1>2, <2>1, <2>2, AddedRows
<1>3. CASE s \notin DOMAIN f
  BY <1>1, <1>3 DEF Added
<1> QED BY <1>2, <1>3

LEMMA MergeSteps ==
    ASSUME MsgInv, NEW f \in files, Merge(f)
    PROVE  MessagesInv' /\ ClosedInv'
<1>1. clock' \in 0 .. MaxClock /\ clock' = clock + 1 /\ clock \in Nat /\ clock' \in Nat
      /\ clock <= clock' /\ files' = files /\ messages' = Added(f)
  BY ClockSteps DEF Merge, MsgInv, MessagesInv
<1>2. \A s \in Sessions : messages'[s] \in Seq(Row) /\ Dated(messages'[s], clock')
  <2>1. \A s \in Sessions : Added(f)[s] \in Seq(Row) /\ Dated(Added(f)[s], clock)
    BY AddedTables
  <2> QED BY <1>1, <2>1, LaterIsDated
<1>3. messages' \in [Sessions -> Seq(Row)]
  <2>1. messages' = [s \in Sessions |-> messages'[s]]
    BY <1>1 DEF Added
  <2> QED BY <1>2, <2>1
<1>4. \A g \in files : \A s \in DOMAIN g : g[s] \in Seq(Copied) /\ Stamped(g[s], clock')
  BY <1>1, LaterIsDated DEF MsgInv, MessagesInv
<1>5. ASSUME NEW s \in Sessions, NEW m \in Own(messages'[s])
      PROVE  /\ \A n \in Brought(messages'[s]) : n > m => m \in Brought(messages'[s])
             /\ \A g \in files : s \in DOMAIN g =>
                    \A n \in Listed(g[s]) : n > m => m \in Listed(g[s])
  <2>1. m \in Own(messages[s])
    BY <1>1, <1>5, AddedTables
  <2>2. Brought(messages'[s]) = IF s \in DOMAIN f
            THEN Brought(messages[s]) \cup Listed(f[s]) ELSE Brought(messages[s])
    BY <1>1, AddedTables
  <2> QED BY <2>1, <2>2 DEF MsgInv, ClosedInv
<1> QED BY <1>1, <1>2, <1>3, <1>4, <1>5 DEF MessagesInv, ClosedInv

LEMMA ReplaceSteps ==
    ASSUME MsgInv, NEW f \in files, Replace(f)
    PROVE  MessagesInv' /\ ClosedInv'
<1>1. clock' \in 0 .. MaxClock /\ clock' = clock + 1 /\ clock \in Nat /\ clock' \in Nat
      /\ clock <= clock' /\ files' = files
  BY ClockSteps DEF Replace, MsgInv, MessagesInv
<1>2. messages' = [s \in Sessions |-> IF s \in DOMAIN f THEN Imported(f[s]) ELSE <<>>]
  BY DEF Replace
<1>3. \A g \in files : \A s \in DOMAIN g : g[s] \in Seq(Copied) /\ Stamped(g[s], clock')
  BY <1>1, LaterIsDated DEF MsgInv, MessagesInv
<1>4. ASSUME NEW s \in Sessions
      PROVE  /\ messages'[s] \in Seq(Row) /\ Dated(messages'[s], clock')
             /\ Own(messages'[s]) = {}
  <2>1. CASE s \in DOMAIN f
    BY <1>1, <1>2, <1>3, <2>1, ImportedRows
  <2>2. CASE s \notin DOMAIN f
    BY <1>2, <2>2 DEF Dated, Own, Inside
  <2> QED BY <2>1, <2>2
<1>5. messages' \in [Sessions -> Seq(Row)]
  BY <1>2, <1>4
<1> QED BY <1>1, <1>3, <1>4, <1>5 DEF MessagesInv, ClosedInv

LEMMA MsgInductive ==
    ASSUME MsgInv, SessionInv, RowsInv, ChosenInv, [Next]_vars
    PROVE  MsgInv'
<1>1. TablesInv'
  BY TablesInductive DEF MsgInv
<1>2. CASE SaveMessage
  BY <1>1, <1>2, SaveSteps DEF MsgInv
<1>3. CASE Export
  BY <1>1, <1>3, ExportSteps DEF MsgInv
<1>4. CASE Import
  BY <1>1, <1>4, MergeSteps, ReplaceSteps DEF MsgInv, Import
<1>5. CASE \/ \E s \in Sessions : Launch(s)
           \/ Quit \/ InputLine \/ EnterLine
           \/ \E r \in Roles, m \in Models : SelectModel(r, m)
           \/ UNCHANGED vars
  <2>1. UNCHANGED <<messages, files>> /\ (clock' = clock \/ Tick)
    BY <1>5 DEF Launch, Quit, InputLine, EnterLine, SelectModel, storeVars, vars
  <2>2. clock' \in 0 .. MaxClock /\ clock <= clock'
    BY <2>1, ClockSteps DEF MsgInv, MessagesInv
  <2> QED BY <1>1, <2>1, <2>2, TimePasses DEF MsgInv
<1> QED BY <1>2, <1>3, <1>4, <1>5 DEF Next, Import

LEMMA MsgInitially ==
    ASSUME Init
    PROVE  MsgInv
<1>1. TablesInv
  BY DEF Init, TablesInv
<1>2. Dated(<<>>, 0) /\ Own(<<>>) = {}
  BY DEF Dated, Own, Inside
<1>3. MessagesInv /\ ClosedInv
  BY <1>2 DEF Init, MessagesInv, ClosedInv
<1> QED BY <1>1, <1>3 DEF MsgInv

LEMMA MsgCorrect == Spec => []MsgInv
  BY MsgInitially, MsgInductive, SelectionsCorrect, SessionInvCorrect, PTL DEF Spec

(* All variables keep their types: in particular the lists of an export    *)
(* are sequences, however the rows they are read from were written.        *)
THEOREM TypeCorrect == Spec => []TypeOK
<1>1. HistoryTypeOK /\ RowsInv /\ MsgInv => TypeOK
  BY DEF RowsInv, Selection, MsgInv, TablesInv, MessagesInv, Row, TypeOK
<1> QED BY <1>1, HistoryCorrect, SelectionsCorrect, MsgCorrect, PTL

(* Two rows of a table, the older of which may not be read first: it was   *)
(* saved by the program, and the newer one was brought.                    *)
LEMMA OutOfOrder ==
    ASSUME NEW rs \in Seq(Row), NEW t \in Nat, Dated(rs, t),
           NEW a \in Inside(rs), NEW b \in Inside(rs),
           a.made < b.made, ~MayPrecede(a, b), ~(b.own /\ b.zone < a.zone)
    PROVE  a.own /\ ~b.own
<1>1. /\ a \in Row /\ a.made \in Nat /\ a.at \in Int /\ a.zone \in Int /\ a.own \in BOOLEAN
      /\ b \in Row /\ b.made \in Nat /\ b.at \in Int /\ b.zone \in Int /\ b.own \in BOOLEAN
  BY InsideType DEF Row
<1>2. a.at > b.at
  BY <1>1 DEF MayPrecede
<1>3. CASE a.own /\ b.own
  <2>1. a.at = a.made + a.zone /\ b.at = b.made + b.zone /\ b.zone >= a.zone
    BY <1>1, <1>3 DEF Dated
  <2> QED BY <1>1, <1>2, <2>1
<1>4. CASE ~a.own /\ b.own
  <2>1. a.at = Whole(a.made) /\ a.zone = 0 /\ b.at = b.made + b.zone /\ b.zone >= a.zone
    BY <1>1, <1>4 DEF Dated
  <2>2. Whole(a.made) <= a.made
    BY <1>1, Quotient
  <2> QED BY <1>1, <1>2, <2>1, <2>2
<1>5. CASE ~a.own /\ ~b.own
  <2>1. a.at = Whole(a.made) /\ b.at = Whole(b.made)
    BY <1>5 DEF Dated
  <2>2. Whole(a.made) <= Whole(b.made)
    BY <1>1, WholeMonotone
  <2> QED BY <1>1, <1>2, <2>1, <2>2
<1> QED BY <1>1, <1>3, <1>4, <1>5

(* The older one was then brought as well, with the newer one.             *)
LEMMA ReadsInOrder ==
    ASSUME MsgInv, NEW s \in Sessions,
           NEW i \in DOMAIN messages[s], NEW j \in DOMAIN messages[s],
           messages[s][i].made < messages[s][j].made,
           ~(messages[s][j].own /\ messages[s][j].zone < messages[s][i].zone)
    PROVE  \E k, l \in DOMAIN messages[s] :
               /\ messages[s][k].made = messages[s][i].made
               /\ messages[s][l].made = messages[s][j].made
               /\ MayPrecede(messages[s][k], messages[s][l])
<1> DEFINE rs == messages[s]
           a == rs[i]
           b == rs[j]
<1>1. rs \in Seq(Row) /\ Dated(rs, clock) /\ clock \in Nat
  BY DEF MsgInv, MessagesInv
<1>2. /\ a \in Inside(rs) /\ b \in Inside(rs)
      /\ a.made \in Nat /\ b.made \in Nat
  <2>1. a \in Inside(rs) /\ b \in Inside(rs)
    BY DEF Inside
  <2>2. a \in Row /\ b \in Row
    BY <1>1, <2>1, InsideType
  <2> QED BY <2>1, <2>2 DEF Row
<1>3. CASE MayPrecede(a, b)
  BY <1>3
<1>4. CASE ~MayPrecede(a, b)
  <2>1. a.own /\ ~b.own
    BY <1>1, <1>2, <1>4, OutOfOrder
  <2>2. a.made \in Own(rs) /\ b.made \in Brought(rs)
    BY <1>2, <2>1 DEF Own, Brought
  <2>3. a.made \in Brought(rs)
    BY <1>2, <2>2 DEF MsgInv, ClosedInv
  <2>4. PICK k \in DOMAIN rs : ~rs[k].own /\ rs[k].made = a.made
    BY <2>3 DEF Brought, Inside
  <2>5. rs[k].at = Whole(a.made) /\ b.at = Whole(b.made)
    BY <1>1, <1>2, <2>1, <2>4 DEF Dated, Inside
  <2>6. Whole(a.made) <= Whole(b.made)
    BY <1>2, WholeMonotone
  <2>7. MayPrecede(rs[k], b)
    BY <2>5, <2>6 DEF MayPrecede
  <2> QED BY <2>4, <2>7
<1> QED BY <1>3, <1>4

(* Of two messages of a session the older one may be read first, if each   *)
(* was added several times then by some of its rows, unless the program    *)
(* saved the newer one at a smaller offset: for any offsets in any order,  *)
(* and any number of exports and imports (GetMessages, asString,           *)
(* importRows).                                                            *)
THEOREM ReadInOrderCorrect == Spec => []ReadInOrder
<1>1. MsgInv => ReadInOrder
  BY ReadsInOrder DEF ReadInOrder
<1> QED BY <1>1, MsgCorrect, PTL

=============================================================================
