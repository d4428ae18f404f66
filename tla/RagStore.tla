------------------------------- MODULE RagStore -------------------------------
(***************************************************************************)
(* The store of the code index: a table of chunks, a table of vectors with *)
(* the same row ids, and a switch that turns the vectors off for the rest  *)
(* of the process after any failure.  The indexer is the one writer; the   *)
(* agents search at the same time.  An embedding is abstracted to its text *)
(* and to whether it has the width of the vector table.  Which of the      *)
(* candidates are close to a query is left open.  The SQLite library runs  *)
(* each transaction or statement as one step, and may fail it: the context *)
(* is done, the file is locked, the extension refuses the statement.       *)
(***************************************************************************)
EXTENDS Integers, FiniteSets

CONSTANTS
    Paths, Indexes,     \* chunk ids are made of a path and an index
    Texts, NoText,
    Searchers,
    SearchLimit,        \* 5 in Indexer.Query
    MaxRows             \* bound: row ids SQLite hands out

ASSUME TextAssumption == NoText \notin Texts
ASSUME BoundsAssumption == SearchLimit \in Nat /\ MaxRows \in Nat

VARIABLES
    files,          \* file_chunks
    vec,            \* vec_chunks: the text each vector was computed from
    lastRow,        \* sqlite_sequence: the last row id that was handed out
    up, vecEnabled, \* the process and Store.vecEnabled
    writer, reader, \* where SaveChunk or ClearFile, and each Search, is
    result, found,  \* what they returned
    begunWhole      \* history: every wide chunk had its vector at the start

vars == <<files, vec, lastRow, up, vecEnabled, writer, reader, result, found,
          begunWhole>>

Rows    == 1 .. MaxRows
Ids     == Paths \X Indexes
Row     == [id : Ids, text : Texts, wide : BOOLEAN]
NoRow   == [id |-> <<>>, text |-> NoText, wide |-> FALSE]
NoCall  == [op |-> "none"]
Call    == [op : {"save"}, id : Ids, text : Texts] \cup [op : {"clear"}, path : Paths]
Idle    == [at |-> "idle", call |-> NoCall, wide |-> FALSE]
Waiting == [at |-> "idle", wide |-> FALSE]

Used      == {r \in Rows : files[r] # NoRow}
WideRows  == {r \in Used : files[r].wide}

-----------------------------------------------------------------------------
Init ==
    /\ files = [r \in Rows |-> NoRow]
    /\ vec = [r \in Rows |-> NoText]
    /\ lastRow = 0
    /\ up = TRUE /\ vecEnabled \in BOOLEAN
    /\ writer = Idle /\ reader = [s \in Searchers |-> Waiting]
    /\ result = "none" /\ found = [s \in Searchers |-> {}]
    /\ begunWhole = TRUE

-----------------------------------------------------------------------------
(* What the statements do to the tables.                                   *)

(* Faulty variant: without AUTOINCREMENT the id of a deleted last row is   *)
(* handed out again.                                                       *)
ReusedRow == IF Used = {} THEN 1
             ELSE CHOOSE r \in 1 .. lastRow + 1 :
                     r - 1 \in Used /\ \A q \in Used : q < r

(* INSERT, once the row with the same id is gone: AUTOINCREMENT never      *)
(* hands out a row id twice.                                               *)
FreshRow == lastRow + 1

PutRow(row) ==
    /\ FreshRow \in Rows
    /\ lastRow' = FreshRow
    /\ files' = [r \in Rows |-> IF r = FreshRow THEN row
                                ELSE IF files[r].id = row.id THEN NoRow
                                ELSE files[r]]

DropRows(path) ==
    files' = [r \in Rows |-> IF r \in Used /\ files[r].id[1] = path THEN NoRow
                             ELSE files[r]]

TheRow == [id |-> writer.call.id, text |-> writer.call.text, wide |-> writer.wide]

-----------------------------------------------------------------------------
(* SaveChunk and ClearFile.                                                *)

(* The checks of the arguments and of the switch.                          *)
Begin ==
    /\ up /\ writer = Idle
    /\ \E c \in Call, w \in BOOLEAN :
          writer' = [at |-> IF vecEnabled /\ (c.op = "save" => w) THEN "vec" ELSE "table",
                     call |-> c, wide |-> w]
    /\ UNCHANGED <<files, vec, lastRow, up, vecEnabled, reader, result, found,
                   begunWhole>>

Return(r) == writer' = Idle /\ result' = r

(* saveChunkWithVec commits: both rows of an old chunk are replaced.       *)
SaveVec ==
    /\ writer.at = "vec" /\ writer.call.op = "save"
    /\ PutRow(TheRow)
    /\ vec' = [r \in Rows |-> IF r = FreshRow THEN TheRow.text
                              ELSE IF files[r].id = TheRow.id THEN NoText
                              ELSE vec[r]]
    /\ Return("ok")
    /\ UNCHANGED <<up, vecEnabled, reader, found, begunWhole>>

(* clearFileWithVec commits.                                               *)
ClearVec ==
    /\ writer.at = "vec" /\ writer.call.op = "clear"
    /\ DropRows(writer.call.path)
    /\ vec' = [r \in Rows |-> IF r \in Used /\ files[r].id[1] = writer.call.path
                              THEN NoText ELSE vec[r]]
    /\ Return("ok")
    /\ UNCHANGED <<lastRow, up, vecEnabled, reader, found, begunWhole>>

(* The transaction is rolled back, and then the switch is turned off.      *)
VecFails ==
    /\ writer.at = "vec"
    /\ writer' = [writer EXCEPT !.at = "off"]
    /\ UNCHANGED <<files, vec, lastRow, up, vecEnabled, reader, result, found,
                   begunWhole>>

TurnOff ==
    /\ writer.at = "off"
    /\ vecEnabled' = FALSE
    /\ writer' = [writer EXCEPT !.at = "table"]
    /\ UNCHANGED <<files, vec, lastRow, up, reader, result, found, begunWhole>>

(* INSERT OR REPLACE: the vector of a replaced row stays behind.           *)
SaveTable ==
    /\ writer.at = "table" /\ writer.call.op = "save"
    /\ PutRow(TheRow)
    /\ Return("ok")
    /\ UNCHANGED <<vec, up, vecEnabled, reader, found, begunWhole>>

(* Faulty variant: nothing is deleted once the vectors are off.            *)
ClearNothing ==
    /\ writer.at = "table" /\ writer.call.op = "clear"
    /\ Return("ok")
    /\ UNCHANGED <<files, vec, lastRow, up, vecEnabled, reader, found, begunWhole>>

ClearTable ==
    /\ writer.at = "table" /\ writer.call.op = "clear"
    /\ DropRows(writer.call.path)
    /\ Return("ok")
    /\ UNCHANGED <<vec, lastRow, up, vecEnabled, reader, found, begunWhole>>

(* A bad argument, a lost connection, or the last statement failed.        *)
CallFails ==
    /\ writer.at \in {"vec", "table"}
    /\ Return("error")
    /\ UNCHANGED <<files, vec, lastRow, up, vecEnabled, reader, found, begunWhole>>

-----------------------------------------------------------------------------
(* Search, with a query of either width.                                   *)

BeginSearch(s) ==
    /\ up /\ reader[s].at = "idle"
    /\ \E w \in BOOLEAN :
          reader' = [reader EXCEPT ![s] =
                        [at |-> IF vecEnabled /\ w THEN "vec" ELSE "table", wide |-> w]]
    /\ UNCHANGED <<files, vec, lastRow, up, vecEnabled, writer, result, found,
                   begunWhole>>

Answer(s, rows) ==
    /\ Cardinality(rows) <= SearchLimit
    /\ found' = [found EXCEPT ![s] = {<<files[r].id, files[r].text>> : r \in rows}]
    /\ reader' = [reader EXCEPT ![s] = Waiting]

(* searchWithVec joins the tables on the row id.                           *)
SearchVec(s) ==
    /\ reader[s].at = "vec"
    /\ \E rows \in SUBSET {r \in Used : vec[r] # NoText} : Answer(s, rows)
    /\ UNCHANGED <<files, vec, lastRow, up, vecEnabled, writer, result, begunWhole>>

SearchVecFails(s) ==
    /\ reader[s].at = "vec"
    /\ reader' = [reader EXCEPT ![s].at = "off"]
    /\ UNCHANGED <<files, vec, lastRow, up, vecEnabled, writer, result, found,
                   begunWhole>>

SearchTurnsOff(s) ==
    /\ reader[s].at = "off"
    /\ vecEnabled' = FALSE
    /\ reader' = [reader EXCEPT ![s].at = "table"]
    /\ UNCHANGED <<files, vec, lastRow, up, writer, result, found, begunWhole>>

(* Faulty variant: the answer is not cut to the limit.                     *)
SearchTableUnlimited(s) ==
    /\ reader[s].at = "table"
    /\ found' = [found EXCEPT ![s] = {<<files[r].id, files[r].text>> : r \in
                     {q \in Used : files[q].wide = reader[s].wide}}]
    /\ reader' = [reader EXCEPT ![s] = Waiting]
    /\ UNCHANGED <<files, vec, lastRow, up, vecEnabled, writer, result, begunWhole>>

(* searchFallback skips embeddings of another width.                       *)
SearchTable(s) ==
    /\ reader[s].at = "table"
    /\ \E rows \in SUBSET {r \in Used : files[r].wide = reader[s].wide} : Answer(s, rows)
    /\ UNCHANGED <<files, vec, lastRow, up, vecEnabled, writer, result, begunWhole>>

SearchFails(s) ==
    /\ reader[s].at \in {"vec", "table"}
    /\ reader' = [reader EXCEPT ![s] = Waiting]
    /\ UNCHANGED <<files, vec, lastRow, up, vecEnabled, writer, result, found,
                   begunWhole>>

-----------------------------------------------------------------------------
(* The process.                                                            *)

Crash ==
    /\ up /\ up' = FALSE
    /\ writer' = Idle /\ reader' = [s \in Searchers |-> Waiting]
    /\ UNCHANGED <<files, vec, lastRow, vecEnabled, result, found, begunWhole>>

(* orchestra db clear-index removes the database file.                     *)
ClearIndex ==
    /\ ~up
    /\ files' = [r \in Rows |-> NoRow] /\ vec' = [r \in Rows |-> NoText]
    /\ lastRow' = 0
    /\ UNCHANGED <<up, vecEnabled, writer, reader, result, found, begunWhole>>

(* NewStore: the extension may be missing.                                 *)
Restart ==
    /\ ~up /\ up' = TRUE
    /\ vecEnabled' \in BOOLEAN
    /\ begunWhole' = (\A r \in WideRows : vec[r] = files[r].text)
    /\ UNCHANGED <<files, vec, lastRow, writer, reader, result, found>>

-----------------------------------------------------------------------------
Writer == Begin \/ SaveVec \/ ClearVec \/ VecFails \/ TurnOff \/ SaveTable
          \/ ClearTable \/ CallFails

Reader(s) == BeginSearch(s) \/ SearchVec(s) \/ SearchVecFails(s)
             \/ SearchTurnsOff(s) \/ SearchTable(s) \/ SearchFails(s)

Next == Writer \/ (\E s \in Searchers : Reader(s)) \/ Crash \/ ClearIndex \/ Restart

Spec == Init /\ [][Next]_vars

-----------------------------------------------------------------------------
(* Properties.                                                             *)

(* The variables have their types, and no answer is longer than the limit. *)
TypeOK ==
    /\ files \in [Rows -> Row \cup {NoRow}] /\ vec \in [Rows -> Texts \cup {NoText}]
    /\ lastRow \in 0 .. MaxRows
    /\ up \in BOOLEAN /\ vecEnabled \in BOOLEAN /\ begunWhole \in BOOLEAN
    /\ writer \in [at : {"vec", "off", "table"}, call : Call, wide : BOOLEAN] \cup {Idle}
    /\ reader \in [Searchers -> [at : {"idle", "vec", "off", "table"}, wide : BOOLEAN]]
    /\ result \in {"none", "ok", "error"}
    /\ found \in [Searchers -> SUBSET (Ids \X Texts)]
    /\ \A s \in Searchers : Cardinality(found[s]) <= SearchLimit

(* The join of a search pairs each vector with the text it was computed    *)
(* from, although rows replaced or cleared while the vectors were off      *)
(* leave their vectors behind (saveChunkWithVec, SaveChunk, ClearFile).    *)
VectorsBelong ==
    \A r \in Used : vec[r] # NoText => vec[r] = files[r].text

(* While the vectors are in use no chunk that has their width is missing   *)
(* from them, if the process did not start on incomplete tables: whoever   *)
(* writes without vectors has turned them off before (SaveChunk).          *)
VectorsComplete ==
    up /\ vecEnabled /\ begunWhole => \A r \in WideRows : vec[r] = files[r].text

(* No search that uses the vectors pairs them wrongly or misses one.       *)
VectorsAgree == VectorsBelong /\ VectorsComplete

(* The tables implement the map of chunks: a call takes effect at once or  *)
(* not at all, whatever fails or crashes in between, and a search answers  *)
(* chunks that are stored, through either path (SaveChunk, ClearFile,      *)
(* Search).                                                                *)
ChunksOf == [id \in Ids |->
    IF \E r \in Used : files[r].id = id
    THEN files[CHOOSE r \in Used : files[r].id = id].text ELSE NoText]

Map == INSTANCE ChunkMap WITH chunks <- ChunksOf, call <- writer.call

KeepsMap == Map!Spec
=============================================================================
