---------------------------- MODULE RagStore_proofs ----------------------------
(***************************************************************************)
(* Proofs about RagStore, for any files, texts, searchers and limits: the  *)
(* two tables agree as far as the switch promises, and together they       *)
(* implement ChunkMap.                                                     *)
(***************************************************************************)
EXTENDS RagStore, FiniteSetTheorems, TLAPS

USE TextAssumption, BoundsAssumption

-----------------------------------------------------------------------------
(* Type correctness.                                                       *)

LEMMA NoRowIsUnused == \A row \in Row : row # NoRow
  BY DEF Row, NoRow, Ids

LEMMA CallIsSome == \A c \in Call : c # NoCall
  BY DEF Call, NoCall

(* What PutRow and DropRows do to the table of chunks.                     *)
LEMMA PutRowTypes ==
    ASSUME TypeOK, NEW row \in Row, PutRow(row)
    PROVE  files' \in [Rows -> Row \cup {NoRow}] /\ lastRow' \in 0 .. MaxRows
  BY DEF TypeOK, PutRow, FreshRow, Rows

LEMMA DropRowsTypes ==
    ASSUME TypeOK, NEW path, DropRows(path)
    PROVE  files' \in [Rows -> Row \cup {NoRow}]
  BY DEF TypeOK, DropRows

LEMMA TheRowType ==
    ASSUME TypeOK, writer.at # "idle", writer.call.op = "save"
    PROVE  TheRow \in Row
<1>1. writer.call \in Call /\ writer.wide \in BOOLEAN
  BY DEF TypeOK, Idle
<1>2. writer.call.id \in Ids /\ writer.call.text \in Texts
  BY <1>1 DEF Call
<1> QED BY <1>1, <1>2 DEF TheRow, Row

LEMMA AnswerTypes ==
    ASSUME TypeOK, NEW s \in Searchers, NEW rows \in SUBSET Used, Answer(s, rows)
    PROVE  /\ found' \in [Searchers -> SUBSET (Ids \X Texts)]
           /\ \A q \in Searchers : Cardinality(found'[q]) <= SearchLimit
           /\ reader' \in [Searchers -> [at : {"idle", "vec", "off", "table"},
                                         wide : BOOLEAN]]
<1> DEFINE pair == [r \in rows |-> <<files[r].id, files[r].text>>]
           answer == {<<files[r].id, files[r].text>> : r \in rows}
<1>1. rows \subseteq Rows /\ \A r \in rows : files[r] \in Row
  BY DEF Used, TypeOK
<1>2. answer \subseteq Ids \X Texts
  BY <1>1 DEF Row
<1>3. IsFiniteSet(rows) /\ Cardinality(rows) \in Nat
  <2>1. IsFiniteSet(Rows)
    BY FS_Interval DEF Rows
  <2> QED BY <1>1, <2>1, FS_Subset, FS_CardinalityType
<1>4. pair \in Surjection(rows, answer)
  BY DEF Surjection
<1>5. IsFiniteSet(answer) /\ Cardinality(answer) <= Cardinality(rows)
  <2> HIDE DEF pair, answer
  <2> QED BY <1>3, <1>4, FS_Surjection
<1>6. Cardinality(answer) <= SearchLimit
  <2>1. Cardinality(answer) \in Nat
    BY <1>5, FS_CardinalityType
  <2> HIDE DEF answer
  <2> QED BY <1>3, <1>5, <2>1 DEF Answer
<1>7. reader' \in [Searchers -> [at : {"idle", "vec", "off", "table"}, wide : BOOLEAN]]
  BY DEF TypeOK, Answer, Waiting
<1>8. found' = [found EXCEPT ![s] = answer]
  BY DEF Answer
<1> HIDE DEF answer
<1> QED BY <1>2, <1>6, <1>7, <1>8 DEF TypeOK

LEMMA TypeOKInitially == Init => TypeOK
<1> SUFFICES ASSUME Init PROVE TypeOK
  OBVIOUS
<1>1. Cardinality({}) = 0
  BY FS_EmptySet
<1>2. /\ files \in [Rows -> Row \cup {NoRow}] /\ vec \in [Rows -> Texts \cup {NoText}]
      /\ found \in [Searchers -> SUBSET (Ids \X Texts)]
      /\ \A s \in Searchers : Cardinality(found[s]) <= SearchLimit
  BY <1>1 DEF Init
<1>3. reader \in [Searchers -> [at : {"idle", "vec", "off", "table"}, wide : BOOLEAN]]
  BY DEF Init, Waiting
<1>4. up \in BOOLEAN /\ vecEnabled \in BOOLEAN /\ begunWhole \in BOOLEAN
  BY Zenon DEF Init
<1>5. lastRow \in 0 .. MaxRows /\ result \in {"none", "ok", "error"} /\ writer = Idle
  BY DEF Init
<1> QED BY <1>2, <1>3, <1>4, <1>5 DEF TypeOK

LEMMA TypeOKInductive == TypeOK /\ [Next]_vars => TypeOK'
<1> SUFFICES ASSUME TypeOK, [Next]_vars PROVE TypeOK'
  OBVIOUS
<1>1. CASE Begin
  <2>1. PICK c \in Call, w \in BOOLEAN :
            writer' = [at |-> IF vecEnabled /\ (c.op = "save" => w) THEN "vec" ELSE "table",
                       call |-> c, wide |-> w]
    BY <1>1 DEF Begin
  <2>2. writer' \in [at : {"vec", "off", "table"}, call : Call, wide : BOOLEAN] \cup {Idle}
    BY <2>1
  <2> QED BY <1>1, <2>2 DEF Begin, TypeOK
<1>2. CASE SaveVec
  <2>1. TheRow \in Row
    BY <1>2, TheRowType DEF SaveVec
  <2>2. files' \in [Rows -> Row \cup {NoRow}] /\ lastRow' \in 0 .. MaxRows
    BY <1>2, <2>1, PutRowTypes DEF SaveVec
  <2>3. vec' \in [Rows -> Texts \cup {NoText}]
    BY <1>2, <2>1 DEF SaveVec, TypeOK, Row
  <2>4. UNCHANGED <<up, vecEnabled, reader, found, begunWhole>>
        /\ writer' = Idle /\ result' = "ok"
    BY <1>2 DEF SaveVec, Return
  <2> QED BY <2>2, <2>3, <2>4 DEF TypeOK
<1>3. CASE ClearVec
  <2>1. files' \in [Rows -> Row \cup {NoRow}]
    BY <1>3, DropRowsTypes DEF ClearVec
  <2>2. vec' \in [Rows -> Texts \cup {NoText}]
    BY <1>3 DEF ClearVec, TypeOK
  <2>3. UNCHANGED <<lastRow, up, vecEnabled, reader, found, begunWhole>>
        /\ writer' = Idle /\ result' = "ok"
    BY <1>3 DEF ClearVec, Return
  <2> QED BY <2>1, <2>2, <2>3 DEF TypeOK
<1>4. CASE VecFails
  <2>1. writer \in [at : {"vec", "off", "table"}, call : Call, wide : BOOLEAN]
    BY <1>4 DEF VecFails, TypeOK, Idle
  <2>2. writer' \in [at : {"vec", "off", "table"}, call : Call, wide : BOOLEAN]
    BY <1>4, <2>1 DEF VecFails
  <2> QED BY <1>4, <2>2 DEF VecFails, TypeOK
<1>5. CASE TurnOff
  <2>1. writer \in [at : {"vec", "off", "table"}, call : Call, wide : BOOLEAN]
    BY <1>5 DEF TurnOff, TypeOK, Idle
  <2>2. writer' \in [at : {"vec", "off", "table"}, call : Call, wide : BOOLEAN]
    BY <1>5, <2>1 DEF TurnOff
  <2> QED BY <1>5, <2>2 DEF TurnOff, TypeOK
<1>6. CASE SaveTable
  <2>1. TheRow \in Row
    BY <1>6, TheRowType DEF SaveTable
  <2>2. files' \in [Rows -> Row \cup {NoRow}] /\ lastRow' \in 0 .. MaxRows
    BY <1>6, <2>1, PutRowTypes DEF SaveTable
  <2>3. UNCHANGED <<vec, up, vecEnabled, reader, found, begunWhole>>
        /\ writer' = Idle /\ result' = "ok"
    BY <1>6 DEF SaveTable, Return
  <2> QED BY <2>2, <2>3 DEF TypeOK
<1>7. CASE ClearTable
  <2>1. files' \in [Rows -> Row \cup {NoRow}]
    BY <1>7, DropRowsTypes DEF ClearTable
  <2>2. UNCHANGED <<vec, lastRow, up, vecEnabled, reader, found, begunWhole>>
        /\ writer' = Idle /\ result' = "ok"
    BY <1>7 DEF ClearTable, Return
  <2> QED BY <2>1, <2>2 DEF TypeOK
<1>8. CASE CallFails
  BY <1>8 DEF CallFails, Return, TypeOK
<1>9. ASSUME NEW s \in Searchers, BeginSearch(s) PROVE TypeOK'
  <2>1. PICK w \in BOOLEAN :
            reader' = [reader EXCEPT ![s] =
                          [at |-> IF vecEnabled /\ w THEN "vec" ELSE "table", wide |-> w]]
    BY <1>9 DEF BeginSearch
  <2>2. reader' \in [Searchers -> [at : {"idle", "vec", "off", "table"}, wide : BOOLEAN]]
    BY <2>1 DEF TypeOK
  <2> QED BY <1>9, <2>2 DEF BeginSearch, TypeOK
<1>10. ASSUME NEW s \in Searchers, SearchVec(s) \/ SearchTable(s) PROVE TypeOK'
  <2>1. PICK rows \in SUBSET Used : Answer(s, rows)
    BY <1>10 DEF SearchVec, SearchTable
  <2>2. UNCHANGED <<files, vec, lastRow, up, vecEnabled, writer, result, begunWhole>>
    BY <1>10 DEF SearchVec, SearchTable
  <2> QED BY <2>1, <2>2, AnswerTypes DEF TypeOK
<1>11. ASSUME NEW s \in Searchers, SearchVecFails(s) PROVE TypeOK'
  BY <1>11 DEF SearchVecFails, TypeOK
<1>12. ASSUME NEW s \in Searchers, SearchTurnsOff(s) PROVE TypeOK'
  BY <1>12 DEF SearchTurnsOff, TypeOK
<1>13. ASSUME NEW s \in Searchers, SearchFails(s) PROVE TypeOK'
  BY <1>13 DEF SearchFails, TypeOK, Waiting
<1>14. CASE Crash
  BY <1>14 DEF Crash, TypeOK, Waiting
<1>15. CASE ClearIndex
  BY <1>15 DEF ClearIndex, TypeOK
<1>16. CASE Restart
  <2>1. begunWhole' \in BOOLEAN
    BY <1>16 DEF Restart
  <2> QED BY <1>16, <2>1 DEF Restart, TypeOK
<1>17. CASE UNCHANGED vars
  BY <1>17 DEF vars, TypeOK
<1> QED BY <1>1, <1>2, <1>3, <1>4, <1>5, <1>6, <1>7, <1>8, <1>9, <1>10, <1>11, <1>12,
           <1>13, <1>14, <1>15, <1>16, <1>17 DEF Next, Writer, Reader

(* Every variable keeps its type, and every answer its length.             *)
THEOREM TypeCorrect == Spec => []TypeOK
  BY TypeOKInitially, TypeOKInductive, PTL DEF Spec

-----------------------------------------------------------------------------
(* The invariant of the tables.  Rows that were not handed out yet are     *)
(* empty in both; an id has one row; and a call that is about to write a   *)
(* wide chunk without its vector has found or turned the vectors off.      *)

FutureEmpty == \A r \in Rows : r > lastRow => files[r] = NoRow /\ vec[r] = NoText

UniqueIds == \A r, q \in Used : files[r].id = files[q].id => r = q

WriterInv ==
    /\ ~up => writer = Idle
    /\ writer.at \in {"vec", "off"} /\ writer.call.op = "save" => writer.wide
    /\ writer.at = "table" /\ writer.call.op = "save" /\ writer.wide => ~vecEnabled

TablesInv == FutureEmpty /\ UniqueIds /\ WriterInv /\ VectorsBelong /\ VectorsComplete

(* Saving a chunk, seen row by row.                                        *)
LEMMA PutRowFacts ==
    ASSUME TypeOK, TablesInv, NEW row \in Row, PutRow(row)
    PROVE  /\ FreshRow \in Rows /\ files'[FreshRow] = row /\ lastRow' = FreshRow
           /\ files[FreshRow] = NoRow /\ vec[FreshRow] = NoText
           /\ \A r \in Rows : r # FreshRow =>
                 files'[r] = IF files[r].id = row.id THEN NoRow ELSE files[r]
           /\ \A r \in Rows : r > lastRow' => r # FreshRow /\ r > lastRow
           /\ Used' = {FreshRow} \cup {r \in Used : files[r].id # row.id}
<1>1. /\ FreshRow \in Rows /\ files'[FreshRow] = row /\ lastRow' = FreshRow
      /\ \A r \in Rows : r # FreshRow =>
                 files'[r] = IF files[r].id = row.id THEN NoRow ELSE files[r]
  BY DEF PutRow
<1>2. FreshRow > lastRow
  BY DEF FreshRow, TypeOK
<1>3. files[FreshRow] = NoRow /\ vec[FreshRow] = NoText
  BY <1>1, <1>2 DEF TablesInv, FutureEmpty
<1>4. \A r \in Rows : r > lastRow' => r # FreshRow /\ r > lastRow
  BY <1>1, <1>2 DEF TypeOK, Rows, FreshRow
<1>5. Used' = {FreshRow} \cup {r \in Used : files[r].id # row.id}
  <2>1. row # NoRow
    BY NoRowIsUnused
  <2>2. \A r \in Rows : r \in Used' <=> (r = FreshRow \/ (r \in Used /\ files[r].id # row.id))
    BY <1>1, <1>3, <2>1 DEF Used
  <2>3. Used' \subseteq Rows /\ Used \subseteq Rows
    BY DEF Used
  <2> QED BY <1>1, <2>2, <2>3
<1> QED BY <1>1, <1>3, <1>4, <1>5

LEMMA DropRowsFacts ==
    ASSUME NEW path, DropRows(path)
    PROVE  /\ \A r \in Rows : files'[r] = IF r \in Used /\ files[r].id[1] = path
                                          THEN NoRow ELSE files[r]
           /\ Used' = {r \in Used : files[r].id[1] # path}
<1>1. \A r \in Rows : files'[r] = IF r \in Used /\ files[r].id[1] = path
                                  THEN NoRow ELSE files[r]
  BY DEF DropRows
<1>2. Used' = {r \in Used : files[r].id[1] # path}
  BY <1>1 DEF Used
<1> QED BY <1>1, <1>2

LEMMA TablesInitially == Init => TablesInv
<1> SUFFICES ASSUME Init PROVE TablesInv
  OBVIOUS
<1>1. Used = {}
  BY DEF Init, Used
<1> QED BY <1>1 DEF Init, TablesInv, FutureEmpty, UniqueIds, WriterInv, Idle, NoCall,
           VectorsBelong, VectorsComplete, WideRows

(* A step that leaves the tables alone and turns no switch on.             *)
LEMMA SameTables ==
    ASSUME TablesInv, UNCHANGED <<files, vec, lastRow, begunWhole>>,
           vecEnabled' => vecEnabled, up' => up, WriterInv'
    PROVE  TablesInv'
  BY DEF TablesInv, FutureEmpty, UniqueIds, VectorsBelong, VectorsComplete, Used, WideRows

LEMMA SaveVecTables ==
    ASSUME TypeOK, TablesInv, SaveVec
    PROVE  TablesInv'
<1>0. /\ TheRow \in Row /\ PutRow(TheRow) /\ TheRow.wide = writer.wide
      /\ writer.at = "vec" /\ writer.call.op = "save"
  BY TheRowType DEF SaveVec, TheRow
<1>1. /\ FreshRow \in Rows /\ files'[FreshRow] = TheRow /\ lastRow' = FreshRow
      /\ files[FreshRow] = NoRow /\ vec[FreshRow] = NoText
      /\ \A r \in Rows : r # FreshRow =>
            files'[r] = IF files[r].id = TheRow.id THEN NoRow ELSE files[r]
      /\ \A r \in Rows : r > lastRow' => r # FreshRow /\ r > lastRow
      /\ Used' = {FreshRow} \cup {r \in Used : files[r].id # TheRow.id}
  BY <1>0, PutRowFacts
<1>2. /\ vec'[FreshRow] = TheRow.text
      /\ \A r \in Rows : r # FreshRow =>
            vec'[r] = IF files[r].id = TheRow.id THEN NoText ELSE vec[r]
      /\ UNCHANGED <<up, vecEnabled, begunWhole>> /\ writer' = Idle
  BY <1>1 DEF SaveVec, Return
<1>3. Used \subseteq Rows
  BY DEF Used
<1> HIDE DEF FreshRow, TheRow
<1>4. FutureEmpty'
  <2>1. \A r \in Rows : r > lastRow => files[r] = NoRow /\ vec[r] = NoText
    BY DEF TablesInv, FutureEmpty
  <2> QED BY <1>1, <1>2, <2>1 DEF FutureEmpty
<1>5. UniqueIds'
  BY <1>1, <1>3 DEF TablesInv, UniqueIds
<1>6. VectorsBelong'
  BY <1>1, <1>2, <1>3 DEF TablesInv, VectorsBelong
<1>7. VectorsComplete'
  BY <1>1, <1>2, <1>3 DEF TablesInv, VectorsComplete, WideRows
<1>8. WriterInv'
  BY <1>2 DEF WriterInv, Idle, NoCall
<1> QED BY <1>4, <1>5, <1>6, <1>7, <1>8 DEF TablesInv

LEMMA SaveTableTables ==
    ASSUME TypeOK, TablesInv, SaveTable
    PROVE  TablesInv'
<1>0. /\ TheRow \in Row /\ PutRow(TheRow) /\ TheRow.wide = writer.wide
      /\ writer.at = "table" /\ writer.call.op = "save"
  BY TheRowType DEF SaveTable, TheRow
<1>1. /\ FreshRow \in Rows /\ files'[FreshRow] = TheRow /\ lastRow' = FreshRow
      /\ files[FreshRow] = NoRow /\ vec[FreshRow] = NoText
      /\ \A r \in Rows : r # FreshRow =>
            files'[r] = IF files[r].id = TheRow.id THEN NoRow ELSE files[r]
      /\ \A r \in Rows : r > lastRow' => r # FreshRow /\ r > lastRow
      /\ Used' = {FreshRow} \cup {r \in Used : files[r].id # TheRow.id}
  BY <1>0, PutRowFacts
<1>2. UNCHANGED <<vec, up, vecEnabled, begunWhole>> /\ writer' = Idle
  BY DEF SaveTable, Return
<1>3. Used \subseteq Rows
  BY DEF Used
<1> HIDE DEF FreshRow, TheRow
<1>4. FutureEmpty'
  <2>1. \A r \in Rows : r > lastRow => files[r] = NoRow /\ vec[r] = NoText
    BY DEF TablesInv, FutureEmpty
  <2> QED BY <1>1, <1>2, <2>1 DEF FutureEmpty
<1>5. UniqueIds'
  BY <1>1, <1>3 DEF TablesInv, UniqueIds
<1>6. VectorsBelong'
  BY <1>1, <1>2, <1>3 DEF TablesInv, VectorsBelong
<1>7. VectorsComplete'
  <2>1. TheRow.wide => ~vecEnabled
    BY <1>0 DEF TablesInv, WriterInv
  <2> QED BY <1>1, <1>2, <1>3, <2>1 DEF TablesInv, VectorsComplete, WideRows
<1>8. WriterInv'
  BY <1>2 DEF WriterInv, Idle, NoCall
<1> QED BY <1>4, <1>5, <1>6, <1>7, <1>8 DEF TablesInv

(* ClearFile, with or without the vectors of the cleared rows.             *)
LEMMA ClearTables ==
    ASSUME TypeOK, TablesInv, ClearVec \/ ClearTable
    PROVE  TablesInv'
<1> DEFINE path == writer.call.path
<1>1. /\ \A r \in Rows : files'[r] = IF r \in Used /\ files[r].id[1] = path
                                     THEN NoRow ELSE files[r]
      /\ Used' = {r \in Used : files[r].id[1] # path}
  BY DropRowsFacts DEF ClearVec, ClearTable
<1>2. /\ UNCHANGED <<lastRow, up, vecEnabled, begunWhole>> /\ writer' = Idle
      /\ \A r \in Rows : r \notin Used \/ files[r].id[1] # path => vec'[r] = vec[r]
  BY DEF ClearVec, ClearTable, Return
<1>3. Used \subseteq Rows /\ \A r \in Rows : files[r] = NoRow => r \notin Used
  BY DEF Used
<1> HIDE DEF path
<1>4. FutureEmpty'
  <2>1. \A r \in Rows : r > lastRow => files[r] = NoRow /\ vec[r] = NoText
    BY DEF TablesInv, FutureEmpty
  <2> QED BY <1>1, <1>2, <1>3, <2>1 DEF FutureEmpty
<1>5. UniqueIds'
  BY <1>1, <1>3 DEF TablesInv, UniqueIds
<1>6. VectorsBelong'
  BY <1>1, <1>2, <1>3 DEF TablesInv, VectorsBelong
<1>7. VectorsComplete'
  BY <1>1, <1>2, <1>3 DEF TablesInv, VectorsComplete, WideRows
<1>8. WriterInv'
  BY <1>2 DEF WriterInv, Idle, NoCall
<1> QED BY <1>4, <1>5, <1>6, <1>7, <1>8 DEF TablesInv

LEMMA TablesInductive == TypeOK /\ TablesInv /\ [Next]_vars => TablesInv'
<1> SUFFICES ASSUME TypeOK, TablesInv, [Next]_vars PROVE TablesInv'
  OBVIOUS
<1>0. WriterInv
  BY DEF TablesInv
<1>1. CASE Begin
  <2>1. PICK c \in Call, w \in BOOLEAN :
            writer' = [at |-> IF vecEnabled /\ (c.op = "save" => w) THEN "vec" ELSE "table",
                       call |-> c, wide |-> w]
    BY <1>1 DEF Begin
  <2>2. UNCHANGED <<files, vec, lastRow, begunWhole, vecEnabled, up>>
    BY <1>1 DEF Begin
  <2>3. WriterInv'
    <3>1. CASE vecEnabled /\ (c.op = "save" => w)
      BY <1>1, <2>1, <2>2, <3>1 DEF WriterInv, Begin
    <3>2. CASE ~(vecEnabled /\ (c.op = "save" => w))
      BY <1>1, <2>1, <2>2, <3>2 DEF WriterInv, Begin
    <3> QED BY <3>1, <3>2
  <2> QED BY <2>2, <2>3, SameTables
<1>2. CASE SaveVec
  BY <1>2, SaveVecTables
<1>3. CASE SaveTable
  BY <1>3, SaveTableTables
<1>4. CASE ClearVec \/ ClearTable
  BY <1>4, ClearTables
<1>5. CASE VecFails \/ TurnOff
  <2>1. writer \in [at : {"vec", "off", "table"}, call : Call, wide : BOOLEAN]
    BY <1>5 DEF VecFails, TurnOff, TypeOK, Idle
  <2>2. /\ UNCHANGED <<files, vec, lastRow, begunWhole, up>> /\ (vecEnabled' => vecEnabled)
        /\ writer'.call = writer.call /\ writer'.wide = writer.wide /\ up
        /\ \/ writer.at = "vec" /\ writer'.at = "off"
           \/ writer.at = "off" /\ writer'.at = "table" /\ ~vecEnabled'
    BY <1>0, <1>5, <2>1 DEF VecFails, TurnOff, WriterInv, Idle
  <2>3. WriterInv'
    BY <1>0, <2>2 DEF WriterInv
  <2> QED BY <2>2, <2>3, SameTables
<1>6. CASE CallFails \/ Crash
  <2>1. /\ UNCHANGED <<files, vec, lastRow, begunWhole, vecEnabled>> /\ (up' => up)
        /\ writer' = Idle
    BY <1>6 DEF CallFails, Crash, Return
  <2>2. WriterInv'
    BY <2>1 DEF WriterInv, Idle, NoCall
  <2> QED BY <2>1, <2>2, SameTables
<1>7. ASSUME NEW s \in Searchers, Reader(s) PROVE TablesInv'
  <2>1. UNCHANGED <<files, vec, lastRow, begunWhole, up, writer>> /\ (vecEnabled' => vecEnabled)
    BY <1>7 DEF Reader, BeginSearch, SearchVec, SearchVecFails, SearchTurnsOff,
                SearchTable, SearchFails
  <2>2. WriterInv'
    BY <1>0, <2>1 DEF WriterInv
  <2> QED BY <2>1, <2>2, SameTables
<1>8. CASE ClearIndex
  <2>1. /\ \A r \in Rows : files'[r] = NoRow /\ vec'[r] = NoText
        /\ Used' = {} /\ UNCHANGED <<up, vecEnabled, writer>>
    BY <1>8 DEF ClearIndex, Used
  <2> QED BY <1>0, <2>1 DEF TablesInv, FutureEmpty, UniqueIds, VectorsBelong,
             VectorsComplete, WideRows, WriterInv
<1>9. CASE Restart
  <2>1. /\ UNCHANGED <<files, vec, lastRow, writer>>
        /\ begunWhole' = (\A r \in WideRows : vec[r] = files[r].text)
    BY <1>9 DEF Restart
  <2>2. VectorsComplete'
    BY <2>1 DEF VectorsComplete, WideRows, Used
  <2>3. FutureEmpty' /\ UniqueIds' /\ VectorsBelong'
    BY <2>1 DEF TablesInv, FutureEmpty, UniqueIds, VectorsBelong, Used
  <2>4. WriterInv'
    BY <1>0, <1>9, <2>1 DEF WriterInv, Restart, Idle
  <2> QED BY <2>2, <2>3, <2>4 DEF TablesInv
<1>10. CASE UNCHANGED vars
  <2>1. UNCHANGED <<files, vec, lastRow, begunWhole, up, writer, vecEnabled>>
    BY <1>10 DEF vars
  <2>2. WriterInv'
    BY <1>0, <2>1 DEF WriterInv
  <2> QED BY <2>1, <2>2, SameTables
<1> QED BY <1>1, <1>2, <1>3, <1>4, <1>5, <1>6, <1>7, <1>8, <1>9, <1>10 DEF Next, Writer

-----------------------------------------------------------------------------
(* Safety.                                                                 *)

LEMMA SafetyInductive == Spec => [](TypeOK /\ TablesInv)
  BY TypeOKInitially, TypeOKInductive, TablesInitially, TablesInductive, PTL DEF Spec

(* The join of a search pairs each vector with the text it was computed    *)
(* from (saveChunkWithVec, SaveChunk, ClearFile).                          *)
THEOREM VectorsBelongCorrect == Spec => []VectorsBelong
<1>1. TablesInv => VectorsBelong
  BY DEF TablesInv
<1> QED BY <1>1, SafetyInductive, PTL

(* While the vectors are in use no chunk of their width is missing, if the *)
(* process started on complete tables (SaveChunk).                         *)
THEOREM VectorsCompleteCorrect == Spec => []VectorsComplete
<1>1. TablesInv => VectorsComplete
  BY DEF TablesInv
<1> QED BY <1>1, SafetyInductive, PTL

(* Both at once, as searches that use the vectors need them.               *)
THEOREM VectorsAgreeCorrect == Spec => []VectorsAgree
  BY VectorsBelongCorrect, VectorsCompleteCorrect, PTL DEF VectorsAgree

-----------------------------------------------------------------------------
(* The tables implement the map of chunks.                                 *)

(* The map read from a table f whose used rows are U.                      *)
MapOf(f, U) == [id \in Ids |->
    IF \E r \in U : f[r].id = id THEN f[CHOOSE r \in U : f[r].id = id].text ELSE NoText]

LEMMA Lookup ==
    ASSUME NEW f \in [Rows -> Row \cup {NoRow}], NEW U, U = {r \in Rows : f[r] # NoRow},
           \A q, r \in U : f[q].id = f[r].id => q = r
    PROVE  /\ \A r \in U : f[r].id \in Ids /\ f[r].text \in Texts
                           /\ MapOf(f, U)[f[r].id] = f[r].text
           /\ \A id \in Ids : (\A r \in U : f[r].id # id) => MapOf(f, U)[id] = NoText
           /\ MapOf(f, U) \in [Ids -> Texts \cup {NoText}]
<1>1. \A r \in U : f[r].id \in Ids /\ f[r].text \in Texts
  BY DEF Row
<1>2. ASSUME NEW r \in U PROVE MapOf(f, U)[f[r].id] = f[r].text
  <2> DEFINE q == CHOOSE x \in U : f[x].id = f[r].id
  <2>1. q \in U /\ f[q].id = f[r].id
    OBVIOUS
  <2>2. q = r
    BY <2>1
  <2>3. MapOf(f, U)[f[r].id] = f[q].text
    BY <1>1 DEF MapOf
  <2> QED BY <2>2, <2>3
<1>3. \A id \in Ids : (\A r \in U : f[r].id # id) => MapOf(f, U)[id] = NoText
  BY DEF MapOf
<1>4. ASSUME NEW id \in Ids PROVE MapOf(f, U)[id] \in Texts \cup {NoText}
  <2>1. CASE \E r \in U : f[r].id = id
    BY <1>1, <1>2, <2>1
  <2>2. CASE \A r \in U : f[r].id # id
    BY <1>3, <2>2
  <2> QED BY <2>1, <2>2
<1>5. MapOf(f, U) \in [Ids -> Texts \cup {NoText}]
  BY <1>4 DEF MapOf
<1> QED BY <1>1, <1>2, <1>3, <1>5

LEMMA LookupNow ==
    ASSUME TypeOK, UniqueIds
    PROVE  /\ \A r \in Used : files[r].id \in Ids /\ files[r].text \in Texts
                              /\ ChunksOf[files[r].id] = files[r].text
           /\ \A id \in Ids : (\A r \in Used : files[r].id # id) => ChunksOf[id] = NoText
           /\ ChunksOf \in [Ids -> Texts \cup {NoText}]
<1>1. ChunksOf = MapOf(files, Used)
  BY DEF ChunksOf, MapOf
<1>2. /\ files \in [Rows -> Row \cup {NoRow}] /\ Used = {r \in Rows : files[r] # NoRow}
      /\ \A q, r \in Used : files[q].id = files[r].id => q = r
  BY DEF TypeOK, Used, UniqueIds
<1> QED BY <1>1, <1>2, Lookup

LEMMA LookupNext ==
    ASSUME TypeOK', UniqueIds'
    PROVE  /\ \A r \in Used' : ChunksOf'[files'[r].id] = files'[r].text
           /\ \A id \in Ids : (\A r \in Used' : files'[r].id # id) => ChunksOf'[id] = NoText
           /\ ChunksOf' \in [Ids -> Texts \cup {NoText}]
<1>1. ChunksOf' = MapOf(files', Used')
  BY DEF ChunksOf, MapOf
<1>2. /\ files' \in [Rows -> Row \cup {NoRow}] /\ Used' = {r \in Rows : files'[r] # NoRow}
      /\ \A q, r \in Used' : files'[q].id = files'[r].id => q = r
  BY DEF TypeOK, Used, UniqueIds
<1> QED BY <1>1, <1>2, Lookup

LEMMA SaveKeepsMap ==
    ASSUME TypeOK, TablesInv, TypeOK', TablesInv', SaveVec \/ SaveTable
    PROVE  ChunksOf' = [ChunksOf EXCEPT ![writer.call.id] = writer.call.text]
<1>0. /\ TheRow \in Row /\ PutRow(TheRow)
      /\ TheRow.id = writer.call.id /\ TheRow.text = writer.call.text
  BY TheRowType DEF SaveVec, SaveTable, TheRow
<1>1. /\ FreshRow \in Rows /\ files'[FreshRow] = TheRow
      /\ \A r \in Rows : r # FreshRow =>
            files'[r] = IF files[r].id = TheRow.id THEN NoRow ELSE files[r]
      /\ Used' = {FreshRow} \cup {r \in Used : files[r].id # TheRow.id}
      /\ FreshRow \notin Used
  BY <1>0, PutRowFacts DEF Used
<1>2. UniqueIds /\ UniqueIds' /\ Used \subseteq Rows /\ TheRow.id \in Ids
  BY <1>0 DEF TablesInv, Used, Row
<1>3. /\ \A r \in Used : files[r].id \in Ids /\ ChunksOf[files[r].id] = files[r].text
      /\ \A id \in Ids : (\A r \in Used : files[r].id # id) => ChunksOf[id] = NoText
      /\ ChunksOf \in [Ids -> Texts \cup {NoText}]
  BY <1>2, LookupNow
<1>4. /\ \A r \in Used' : ChunksOf'[files'[r].id] = files'[r].text
      /\ \A id \in Ids : (\A r \in Used' : files'[r].id # id) => ChunksOf'[id] = NoText
      /\ ChunksOf' \in [Ids -> Texts \cup {NoText}]
  BY <1>2, LookupNext
<1> HIDE DEF FreshRow, TheRow, ChunksOf
<1>5. ASSUME NEW id \in Ids
      PROVE  ChunksOf'[id] = IF id = TheRow.id THEN TheRow.text ELSE ChunksOf[id]
  <2>1. CASE id = TheRow.id
    <3>1. FreshRow \in Used' /\ files'[FreshRow] = TheRow
      BY <1>1
    <3>2. ChunksOf'[files'[FreshRow].id] = files'[FreshRow].text
      BY <1>4, <3>1
    <3> QED BY <2>1, <3>1, <3>2
  <2>2. CASE id # TheRow.id /\ \E r \in Used : files[r].id = id
    <3>1. PICK r \in Used : files[r].id = id
      BY <2>2
    <3>2. r \in Used' /\ files'[r] = files[r]
      BY <1>1, <1>2, <2>2, <3>1
    <3> QED BY <1>3, <1>4, <2>2, <3>1, <3>2
  <2>3. CASE id # TheRow.id /\ \A r \in Used : files[r].id # id
    <3>1. \A r \in Used' : files'[r].id # id
      BY <1>1, <1>2, <2>3
    <3> QED BY <1>3, <1>4, <2>3, <3>1
  <2> QED BY <2>1, <2>2, <2>3
<1> QED BY <1>0, <1>3, <1>4, <1>5

LEMMA ClearKeepsMap ==
    ASSUME TypeOK, TablesInv, TypeOK', TablesInv', ClearVec \/ ClearTable
    PROVE  ChunksOf' = [id \in Ids |-> IF id[1] = writer.call.path THEN NoText
                                       ELSE ChunksOf[id]]
<1> DEFINE path == writer.call.path
<1>1. /\ \A r \in Rows : files'[r] = IF r \in Used /\ files[r].id[1] = path
                                     THEN NoRow ELSE files[r]
      /\ Used' = {r \in Used : files[r].id[1] # path}
  BY DropRowsFacts DEF ClearVec, ClearTable
<1>2. UniqueIds /\ UniqueIds' /\ Used \subseteq Rows
  BY DEF TablesInv, Used
<1>3. /\ \A r \in Used : files[r].id \in Ids /\ ChunksOf[files[r].id] = files[r].text
      /\ \A id \in Ids : (\A r \in Used : files[r].id # id) => ChunksOf[id] = NoText
  BY <1>2, LookupNow
<1>4. /\ \A r \in Used' : ChunksOf'[files'[r].id] = files'[r].text
      /\ \A id \in Ids : (\A r \in Used' : files'[r].id # id) => ChunksOf'[id] = NoText
      /\ ChunksOf' \in [Ids -> Texts \cup {NoText}]
  BY <1>2, LookupNext
<1> HIDE DEF ChunksOf, path
<1>5. ASSUME NEW id \in Ids
      PROVE  ChunksOf'[id] = IF id[1] = path THEN NoText ELSE ChunksOf[id]
  <2>1. CASE \E r \in Used' : files'[r].id = id
    <3>1. PICK r \in Used' : files'[r].id = id
      BY <2>1
    <3>2. r \in Used /\ files'[r] = files[r] /\ id[1] # path
      BY <1>1, <1>2, <3>1
    <3> QED BY <1>3, <1>4, <3>1, <3>2
  <2>2. CASE \A r \in Used' : files'[r].id # id
    <3>1. ChunksOf'[id] = NoText
      BY <1>4, <2>2
    <3>2. id[1] # path => \A r \in Used : files[r].id # id
      BY <1>1, <1>2, <2>2
    <3> QED BY <1>3, <3>1, <3>2
  <2> QED BY <2>1, <2>2
<1> QED BY <1>4, <1>5 DEF path

LEMMA MapInitially == Init => Map!Init
<1> SUFFICES ASSUME Init PROVE Map!Init
  OBVIOUS
<1>1. Used = {}
  BY DEF Init, Used
<1>2. ChunksOf = [id \in Ids |-> NoText]
  BY <1>1 DEF ChunksOf
<1> QED BY <1>2 DEF Init, Map!Init, Map!Empty, Map!Ids, Ids, Idle, NoCall, Map!NoCall

LEMMA MapStep ==
    TypeOK /\ TablesInv /\ TypeOK' /\ TablesInv' /\ [Next]_vars => [Map!Next]_(Map!vars)
<1> SUFFICES ASSUME TypeOK, TablesInv, TypeOK', TablesInv', [Next]_vars
             PROVE  [Map!Next]_(Map!vars)
  OBVIOUS
<1>0. /\ Map!Ids = Ids /\ Map!NoCall = NoCall /\ Map!Call = Call
      /\ Idle.call = NoCall
  BY DEF Map!Ids, Map!NoCall, Map!Call, Ids, NoCall, Call, Idle
<1>1. ASSUME UNCHANGED <<files, result, found>>, writer'.call = writer.call
      PROVE  UNCHANGED Map!vars
  BY <1>1 DEF Map!vars, ChunksOf, Used
<1>2. writer.at # "idle" => writer.call \in Call /\ writer.call # NoCall
  BY CallIsSome DEF TypeOK, Idle
<1>3. CASE Begin
  <2>1. writer.call = NoCall /\ writer'.call \in Call
    BY <1>0, <1>3 DEF Begin
  <2>2. UNCHANGED <<ChunksOf, result, found>>
    BY <1>3 DEF Begin, ChunksOf, Used
  <2>3. Map!Invoke
    BY <1>0, <2>1, <2>2 DEF Map!Invoke
  <2> QED BY <2>3 DEF Map!Next
<1>4. CASE SaveVec \/ SaveTable
  <2>1. /\ writer.at # "idle" /\ writer.call.op = "save" /\ writer' = Idle
        /\ result' = "ok" /\ UNCHANGED found
    BY <1>4 DEF SaveVec, SaveTable, Return
  <2>2. ChunksOf' = [ChunksOf EXCEPT ![writer.call.id] = writer.call.text]
    BY <1>4, SaveKeepsMap
  <2>3. ChunksOf' = Map!Effect(writer.call)
    BY <2>1, <2>2 DEF Map!Effect
  <2>4. Map!Complete
    BY <1>0, <1>2, <2>1, <2>3 DEF Map!Complete
  <2> QED BY <2>4 DEF Map!Next
<1>5. CASE ClearVec \/ ClearTable
  <2>1. /\ writer.at # "idle" /\ writer.call.op = "clear" /\ writer' = Idle
        /\ result' = "ok" /\ UNCHANGED found
    BY <1>5 DEF ClearVec, ClearTable, Return
  <2>2. ChunksOf' = [id \in Ids |-> IF id[1] = writer.call.path THEN NoText
                                    ELSE ChunksOf[id]]
    BY <1>5, ClearKeepsMap
  <2>3. ChunksOf' = Map!Effect(writer.call)
    BY <1>0, <2>1, <2>2 DEF Map!Effect
  <2>4. Map!Complete
    BY <1>0, <1>2, <2>1, <2>3 DEF Map!Complete
  <2> QED BY <2>4 DEF Map!Next
<1>6. CASE VecFails \/ TurnOff
  <2>1. writer'.call = writer.call /\ UNCHANGED <<files, result, found>>
    <3>1. writer \in [at : {"vec", "off", "table"}, call : Call, wide : BOOLEAN]
      BY <1>6 DEF VecFails, TurnOff, TypeOK, Idle
    <3> QED BY <1>6, <3>1 DEF VecFails, TurnOff
  <2> QED BY <1>1, <2>1
<1>7. CASE CallFails
  <2>1. /\ writer.at # "idle" /\ writer' = Idle /\ result' = "error"
        /\ UNCHANGED <<ChunksOf, found>>
    BY <1>7 DEF CallFails, Return, ChunksOf, Used
  <2>2. Map!Fail
    BY <1>0, <1>2, <2>1 DEF Map!Fail
  <2> QED BY <2>2 DEF Map!Next
<1>8. CASE Crash
  <2>1. writer' = Idle /\ UNCHANGED <<ChunksOf, result, found>>
    BY <1>8 DEF Crash, ChunksOf, Used
  <2>2. Map!Crash
    BY <1>0, <2>1 DEF Map!Crash
  <2> QED BY <2>2 DEF Map!Next
<1>9. CASE ClearIndex
  <2>1. Used' = {} /\ UNCHANGED <<writer, result, found>>
    BY <1>9 DEF ClearIndex, Used
  <2>2. ChunksOf' = Map!Empty
    BY <1>0, <2>1 DEF ChunksOf, Map!Empty
  <2>3. Map!Wipe
    BY <2>1, <2>2 DEF Map!Wipe
  <2> QED BY <2>3 DEF Map!Next
<1>10. CASE Restart \/ UNCHANGED vars
  BY <1>1, <1>10 DEF Restart, vars
<1>11. ASSUME NEW s \in Searchers,
              BeginSearch(s) \/ SearchVecFails(s) \/ SearchTurnsOff(s) \/ SearchFails(s)
       PROVE  UNCHANGED Map!vars
  BY <1>1, <1>11 DEF BeginSearch, SearchVecFails, SearchTurnsOff, SearchFails
<1>12. ASSUME NEW s \in Searchers, SearchVec(s) \/ SearchTable(s)
       PROVE  Map!Search(s)
  <2>1. PICK rows \in SUBSET Used : Answer(s, rows)
    BY <1>12 DEF SearchVec, SearchTable
  <2> DEFINE answer == {<<files[r].id, files[r].text>> : r \in rows}
  <2>2. found' = [found EXCEPT ![s] = answer]
    BY <2>1 DEF Answer
  <2>3. UNCHANGED <<files, writer, result>>
    BY <1>12 DEF SearchVec, SearchTable
  <2>4. UNCHANGED <<ChunksOf, writer.call, result>>
    BY <2>3 DEF ChunksOf, Used
  <2>5. answer \in SUBSET Map!Stored
    <3>1. UniqueIds
      BY DEF TablesInv
    <3>2. \A r \in Used : files[r].id \in Ids /\ files[r].text \in Texts
                          /\ ChunksOf[files[r].id] = files[r].text
      BY <3>1, LookupNow
    <3>3. ASSUME NEW r \in rows
          PROVE  <<files[r].id, files[r].text>> \in Map!Stored
      <4>1. files[r].id \in {j \in Ids : ChunksOf[j] # NoText}
        BY <3>2
      <4> QED BY <1>0, <3>2, <4>1 DEF Map!Stored
    <3> QED BY <3>3
  <2> HIDE DEF answer
  <2> QED BY <2>2, <2>4, <2>5 DEF Map!Search
<1> QED BY <1>3, <1>4, <1>5, <1>6, <1>7, <1>8, <1>9, <1>10, <1>11, <1>12
        DEF Next, Writer, Reader, Map!Next

(* Every behaviour of the store is, seen through ChunksOf, a behaviour of  *)
(* ChunkMap: a call takes effect at once or not at all, and searches       *)
(* answer stored chunks (SaveChunk, ClearFile, Search).                    *)
THEOREM KeepsMapCorrect == Spec => KeepsMap
<1>1. TypeOK /\ TablesInv /\ TypeOK' /\ TablesInv' /\ [Next]_vars
      => [Map!Next]_(Map!vars)
  BY MapStep
<1> QED BY <1>1, MapInitially, SafetyInductive, PTL DEF Spec, KeepsMap, Map!Spec
=============================================================================
