------------------------- MODULE PromptHistory_proofs -------------------------
(***************************************************************************)
(* Lemmas about the operators of PromptHistory, for any lines and any      *)
(* limit: what each step of the input line does to its type, to the line   *)
(* that is recalled and to the table that keeps the history.               *)
(***************************************************************************)
EXTENDS PromptHistory, Integers, SequenceTheorems, TLAPS

USE LimitAssumption, LinesAssumption

-----------------------------------------------------------------------------
(* The newest elements of a sequence.                                      *)

LEMMA NewestType ==
    ASSUME NEW S, NEW s \in Seq(S)
    PROVE  /\ Newest(s) \in Seq(S)
           /\ Len(Newest(s)) = IF Len(s) <= Limit THEN Len(s) ELSE Limit
           /\ \A i \in 1 .. Len(Newest(s)) :
                 Newest(s)[i] = s[Len(s) - Len(Newest(s)) + i]
<1>1. CASE Len(s) <= Limit
  BY <1>1 DEF Newest
<1>2. CASE Len(s) > Limit
  <2> DEFINE m == Len(s) - Limit + 1
             t == SubSeq(s, m, Len(s))
  <2>1. m \in 1 .. Len(s) + 1 /\ Len(s) - m + 1 = Limit
    BY <1>2
  <2>2. /\ t \in Seq(S) /\ Len(t) = Limit
        /\ \A i \in 1 .. Limit : t[i] = s[m + i - 1]
    BY <1>2, <2>1, SubSeqProperties
  <2>3. \A i \in 1 .. Limit : m + i - 1 = Len(s) - Limit + i
    BY <1>2
  <2>4. Newest(s) = t
    BY <1>2 DEF Newest
  <2> HIDE DEF t, m
  <2> QED BY <1>2, <2>2, <2>3, <2>4
<1> QED BY <1>1, <1>2

LEMMA SameSequence ==
    ASSUME NEW S, NEW s \in Seq(S), NEW t \in Seq(S), Len(s) = Len(t),
           \A i \in 1 .. Len(s) : s[i] = t[i]
    PROVE  s = t
  OBVIOUS

(* Cutting before an entry is added does not change what is kept.          *)
LEMMA NewestAppend ==
    ASSUME NEW S, NEW s \in Seq(S), NEW e \in S
    PROVE  Newest(Append(Newest(s), e)) = Newest(Append(s, e))
<1> DEFINE t == Newest(s)
           u == Append(t, e)
           v == Append(s, e)
           a == Newest(u)
           b == Newest(v)
<1>1. t \in Seq(S) /\ u \in Seq(S) /\ v \in Seq(S)
  BY NewestType
<1>2. /\ Len(t) = IF Len(s) <= Limit THEN Len(s) ELSE Limit
      /\ \A i \in 1 .. Len(t) : t[i] = s[Len(s) - Len(t) + i]
  BY NewestType
<1> HIDE DEF t
<1>3. /\ Len(u) = Len(t) + 1 /\ u[Len(u)] = e
      /\ \A i \in 1 .. Len(t) : u[i] = t[i]
  BY <1>1
<1>4. /\ Len(v) = Len(s) + 1 /\ v[Len(v)] = e
      /\ \A i \in 1 .. Len(s) : v[i] = s[i]
  OBVIOUS
<1> HIDE DEF u, v
<1>5. /\ a \in Seq(S) /\ Len(a) = IF Len(u) <= Limit THEN Len(u) ELSE Limit
      /\ \A i \in 1 .. Len(a) : a[i] = u[Len(u) - Len(a) + i]
  BY <1>1, NewestType
<1>6. /\ b \in Seq(S) /\ Len(b) = IF Len(v) <= Limit THEN Len(v) ELSE Limit
      /\ \A i \in 1 .. Len(b) : b[i] = v[Len(v) - Len(b) + i]
  BY <1>1, NewestType
<1> HIDE DEF a, b
<1>7. Len(s) \in Nat /\ Len(t) \in Nat /\ Len(a) \in Nat
  BY <1>1, <1>5
<1>8. Len(a) = Len(b)
  BY <1>2, <1>3, <1>4, <1>5, <1>6, <1>7
<1>9. ASSUME NEW i \in 1 .. Len(a) PROVE a[i] = b[i]
  <2> DEFINE j == Len(u) - Len(a) + i
             k == Len(v) - Len(b) + i
  <2>1. a[i] = u[j] /\ b[i] = v[k]
    BY <1>5, <1>6, <1>8
  <2>2. CASE i = Len(a)
    <3>1. j = Len(u) /\ k = Len(v)
      BY <1>3, <1>4, <1>7, <1>8, <2>2
    <3> QED BY <1>3, <1>4, <2>1, <3>1
  <2>3. CASE i < Len(a)
    <3>1. j \in 1 .. Len(t)
      BY <1>3, <1>5, <1>7, <2>3
    <3>2. k \in 1 .. Len(s)
      BY <1>4, <1>6, <1>7, <1>8, <2>3
    <3>3. k = Len(s) - Len(t) + j
      BY <1>3, <1>4, <1>7, <1>8
    <3> HIDE DEF j, k
    <3>4. u[j] = t[j] /\ t[j] = s[k]
      BY <1>2, <1>3, <3>1, <3>3
    <3>5. v[k] = s[k]
      BY <1>4, <3>2
    <3> QED BY <2>1, <3>4, <3>5
  <2> QED BY <1>7, <2>2, <2>3
<1>10. a = b
  BY <1>5, <1>6, <1>8, <1>9, SameSequence
<1> QED BY <1>10 DEF a, b, u, v, t

(* Cutting twice is cutting once.                                          *)
LEMMA NewestTwice ==
    ASSUME NEW S, NEW s \in Seq(S)
    PROVE  Newest(Newest(s)) = Newest(s)
<1>1. Newest(s) \in Seq(S) /\ Len(Newest(s)) <= Limit
  BY NewestType
<1> QED BY <1>1 DEF Newest

-----------------------------------------------------------------------------
(* The steps of the input line and of the start of the program.            *)

HistoryStep ==
    \/ \E s \in Sessions : LoadHistory(s) \/ Enter(s)
    \/ \E l \in Lines : Type(l)
    \/ \E c \in Commands : Complete(c)
    \/ \E l \in Lines : Edit(l)
    \/ Up \/ Down
    \/ UNCHANGED lineVars

LEMMA HistoryInitially ==
    ASSUME HistoryInit
    PROVE  HistoryTypeOK /\ RecallIsSafe /\ HistoryKept
<1>1. <<>> \in Seq(Entries) /\ Len(<<>>) = 0
  OBVIOUS
<1>2. Newest(<<>>) = <<>>
  BY DEF Newest
<1>3. HistoryTypeOK
  <2>1. line \in Lines /\ draft \in Lines /\ typed \in Lines
    BY DEF HistoryInit, Lines
  <2>2. inputHistory \in Seq(Entries) /\ Len(inputHistory) <= Limit
    <3>1. inputHistory = <<>>
      BY DEF HistoryInit
    <3>2. 0 <= Limit
      OBVIOUS
    <3> QED BY <1>1, <3>1, <3>2
  <2>3. table \in [Sessions -> Seq(Entries)] /\ said \in [Sessions -> Seq(Entries)]
    BY <1>1 DEF HistoryInit
  <2> QED BY <2>1, <2>2, <2>3 DEF HistoryInit, HistoryTypeOK
<1>4. RecallIsSafe
  BY DEF HistoryInit, RecallIsSafe
<1>5. HistoryKept
  BY <1>2 DEF HistoryInit, HistoryKept
<1> QED BY <1>3, <1>4, <1>5

(* Enter takes a line or a completion that is an entry.                    *)
LEMMA EnterTakes ==
    ASSUME HistoryTypeOK, NEW s \in Sessions, Enter(s)
    PROVE  \E e \in Entries :
              /\ inputHistory' = Newest(Append(inputHistory, e))
              /\ said' = [said EXCEPT ![s] = Newest(Append(@, e))]
              /\ Save(s, e)
<1>1. PICK e \in IF Suggestions(line) # {} THEN Suggestions(line) ELSE {line} \ {Empty} :
          /\ inputHistory' = Newest(Append(inputHistory, e))
          /\ said' = [said EXCEPT ![s] = Newest(Append(@, e))]
          /\ Save(s, e)
  BY DEF Enter
<1>2. e \in Entries
  <2>1. CASE Suggestions(line) # {}
    BY <1>1, <2>1 DEF Suggestions, Entries
  <2>2. CASE Suggestions(line) = {}
    BY <1>1, <2>2 DEF Suggestions, Entries, Lines, HistoryTypeOK
  <2> QED BY <2>1, <2>2
<1> QED BY <1>1, <1>2

LEMMA AppendedType ==
    ASSUME NEW h \in Seq(Entries), NEW e \in Entries
    PROVE  /\ Append(h, e) \in Seq(Entries)
           /\ Newest(Append(h, e)) \in Seq(Entries)
           /\ Len(Newest(Append(h, e))) <= Limit
<1> DEFINE s == Append(h, e)
<1>1. s \in Seq(Entries) /\ Len(s) \in Nat
  OBVIOUS
<1> HIDE DEF s
<1>2. Newest(s) \in Seq(Entries) /\ Len(Newest(s)) <= Limit
  BY <1>1, NewestType
<1> QED BY <1>1, <1>2 DEF s

LEMMA BrowsingTypes ==
    ASSUME HistoryTypeOK, RecallIsSafe, Up \/ Down
    PROVE  line' \in Lines /\ draft' \in Lines /\ index' \in Nat /\ browsing' \in BOOLEAN
<1> USE DEF HistoryTypeOK
<1>1. Kept \in Lines /\ Start \in Nat
  BY DEF Kept, Start
<1>2. \A i \in 1 .. Len(inputHistory) : inputHistory[i] \in Lines
  BY DEF Lines
<1>3. Len(inputHistory) \in Nat \ {0}
  BY DEF Up, Down, Browses
<1>4. CASE Down
  <2>1. Start + 1 < Len(inputHistory) => Start + 2 \in 1 .. Len(inputHistory)
    BY <1>1, <1>3
  <2>2. CASE Start + 1 < Len(inputHistory)
    <3>1. index' = Start + 1 /\ line' = inputHistory[Start + 2]
      BY <1>1, <1>4, <2>2 DEF Down
    <3> QED BY <1>1, <1>2, <1>4, <2>1, <2>2, <3>1 DEF Down
  <2>3. CASE ~(Start + 1 < Len(inputHistory))
    BY <1>1, <1>3, <1>4, <2>3 DEF Down
  <2> QED BY <2>2, <2>3
<1>5. CASE Up
  <2>1. Start \in 0 .. Len(inputHistory)
    BY <1>1, <1>3 DEF Start, RecallIsSafe
  <2>2. index' \in Nat /\ index' + 1 \in 1 .. Len(inputHistory)
    BY <1>3, <1>5, <2>1 DEF Up
  <2> QED BY <1>1, <1>2, <1>5, <2>2 DEF Up
<1> QED BY <1>4, <1>5

LEMMA ResetTypes ==
    ASSUME inputHistory' \in Seq(Entries), ResetNavigation
    PROVE  index' \in Nat /\ draft' \in Lines /\ browsing' \in BOOLEAN
<1>1. Len(inputHistory') \in Nat
  OBVIOUS
<1> QED BY <1>1 DEF ResetNavigation, Lines

LEMMA HistoryTypes ==
    ASSUME HistoryTypeOK, RecallIsSafe, HistoryStep
    PROVE  HistoryTypeOK'
<1> USE DEF HistoryTypeOK
<1>1. CASE \E s \in Sessions : LoadHistory(s)
  <2>1. PICK s \in Sessions : LoadHistory(s)
    BY <1>1
  <2>2. inputHistory' \in Seq(Entries) /\ Len(inputHistory') <= Limit
    BY <2>1, NewestType DEF LoadHistory
  <2> QED BY <2>1, <2>2, ResetTypes DEF LoadHistory, Lines
<1>2. CASE \E s \in Sessions : Enter(s)
  <2>1. PICK s \in Sessions : Enter(s)
    BY <1>2
  <2>2. PICK e \in Entries :
            /\ inputHistory' = Newest(Append(inputHistory, e))
            /\ said' = [said EXCEPT ![s] = Newest(Append(@, e))]
            /\ Save(s, e)
    BY <2>1, EnterTakes
  <2>3. inputHistory' \in Seq(Entries) /\ Len(inputHistory') <= Limit
    BY <2>2, AppendedType
  <2>4. said' \in [Sessions -> Seq(Entries)]
    BY <2>2, AppendedType
  <2>5. table' \in [Sessions -> Seq(Entries)] /\ unsaved' \subseteq Sessions
    <3>1. table[s] \in Seq(Entries)
      OBVIOUS
    <3>2. Append(table[s], e) \in Seq(Entries)
          /\ Newest(Append(table[s], e)) \in Seq(Entries)
      BY <3>1, AppendedType
    <3> QED BY <2>2, <3>2 DEF Save
  <2> QED BY <2>1, <2>3, <2>4, <2>5, ResetTypes DEF Enter, Lines
<1>3. CASE \E l \in Lines : Type(l)
  BY <1>3, ResetTypes DEF Type
<1>4. CASE (\E c \in Commands : Complete(c)) \/ (\E l \in Lines : Edit(l))
  BY <1>4 DEF Complete, Edit, navigation, Lines, Entries
<1>5. CASE Up \/ Down
  BY <1>5, BrowsingTypes DEF Up, Down
<1>6. CASE UNCHANGED lineVars
  BY <1>6 DEF lineVars, navigation
<1> QED BY <1>1, <1>2, <1>3, <1>4, <1>5, <1>6 DEF HistoryStep

(* Up and Down find the line that stood there before the first of them.    *)
LEMMA RecallStep ==
    ASSUME HistoryTypeOK, RecallIsSafe, HistoryStep
    PROVE  RecallIsSafe'
<1> USE DEF HistoryTypeOK, RecallIsSafe
<1>0. Kept = typed
  BY DEF Kept
<1>1. CASE \/ \E s \in Sessions : LoadHistory(s) \/ Enter(s)
           \/ \E l \in Lines : Type(l)
  BY <1>1 DEF LoadHistory, Enter, Type, ResetNavigation
<1>2. CASE (\E c \in Commands : Complete(c)) \/ (\E l \in Lines : Edit(l))
  BY <1>2 DEF Complete, Edit, navigation
<1>3. CASE Up
  <2>1. Len(inputHistory) \in Nat \ {0} /\ Start \in 0 .. Len(inputHistory)
    BY <1>3 DEF Up, Browses, Start
  <2> QED BY <1>0, <1>3, <2>1 DEF Up, Start
<1>4. CASE Down
  <2>1. Start \in Nat
    BY DEF Start
  <2> QED BY <1>0, <1>4, <2>1 DEF Down
<1>5. CASE UNCHANGED lineVars
  BY <1>5 DEF lineVars, navigation
<1> QED BY <1>1, <1>2, <1>3, <1>4, <1>5 DEF HistoryStep

(* A failed trim leaves more rows, and the same newest ones.               *)
LEMMA SaveKeeps ==
    ASSUME HistoryTypeOK, NEW s \in Sessions, NEW e \in Entries, Save(s, e),
           Newest(table[s]) = said[s]
    PROVE  s \in unsaved' \/ Newest(table'[s]) = Newest(Append(said[s], e))
<1>1. table[s] \in Seq(Entries) /\ Append(table[s], e) \in Seq(Entries)
  BY DEF HistoryTypeOK
<1>2. Newest(Append(said[s], e)) = Newest(Append(table[s], e))
  BY <1>1, NewestAppend
<1>3. Newest(Newest(Append(table[s], e))) = Newest(Append(table[s], e))
  BY <1>1, NewestTwice
<1>4. s \in unsaved' \/ table'[s] = Newest(Append(table[s], e))
                     \/ table'[s] = Append(table[s], e)
  BY DEF Save, HistoryTypeOK
<1> QED BY <1>2, <1>3, <1>4

LEMMA KeptStep ==
    ASSUME HistoryTypeOK, HistoryKept, HistoryStep
    PROVE  HistoryKept'
<1>1. CASE \E s \in Sessions : Enter(s)
  <2>1. PICK s \in Sessions : Enter(s)
    BY <1>1
  <2>2. PICK e \in Entries :
            /\ inputHistory' = Newest(Append(inputHistory, e))
            /\ said' = [said EXCEPT ![s] = Newest(Append(@, e))]
            /\ Save(s, e)
    BY <2>1, EnterTakes
  <2>3. unsaved \subseteq unsaved'
    BY <2>2 DEF Save
  <2>4. \A t \in Sessions \ {s} : table'[t] = table[t] /\ said'[t] = said[t]
    BY <2>2 DEF Save, HistoryTypeOK
  <2>5. said'[s] = Newest(Append(said[s], e))
    BY <2>2 DEF HistoryTypeOK
  <2>6. s \in unsaved' \/ Newest(table'[s]) = said'[s]
    BY <2>2, <2>3, <2>5, SaveKeeps DEF HistoryKept
  <2> QED BY <2>3, <2>4, <2>6 DEF HistoryKept
<1>2. CASE ~\E s \in Sessions : Enter(s)
  <2>1. UNCHANGED <<table, said, unsaved>>
    BY <1>2 DEF HistoryStep, LoadHistory, Type, Complete, Edit, Up, Down, lineVars
  <2> QED BY <2>1 DEF HistoryKept
<1> QED BY <1>1, <1>2

=============================================================================
