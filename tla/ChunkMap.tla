------------------------------- MODULE ChunkMap -------------------------------
(***************************************************************************)
(* What the index of the code promises to the indexer, which saves and     *)
(* clears chunks, and to the agents, which search: a map from chunk ids to *)
(* texts.  A call of the indexer takes effect at once and is reported as   *)
(* done, or changes nothing and is reported as failed; an interrupted call *)
(* changes nothing or everything.  A search answers chunks of the map.     *)
(***************************************************************************)
CONSTANTS Paths, Indexes, Texts, NoText, Searchers

VARIABLES chunks,   \* the text of each chunk id, NoText if there is none
          call,     \* the call of the indexer in progress
          result,   \* what the last call returned
          found     \* the last answer to each searcher

vars == <<chunks, call, result, found>>

Ids    == Paths \X Indexes
Empty  == [id \in Ids |-> NoText]
NoCall == [op |-> "none"]
Call   == [op : {"save"}, id : Ids, text : Texts] \cup [op : {"clear"}, path : Paths]
Stored == {<<id, chunks[id]>> : id \in {j \in Ids : chunks[j] # NoText}}

(* The map after the call c.                                               *)
Effect(c) ==
    IF c.op = "save" THEN [chunks EXCEPT ![c.id] = c.text]
    ELSE [id \in Ids |-> IF id[1] = c.path THEN NoText ELSE chunks[id]]

Init == chunks = Empty /\ call = NoCall /\ result = "none"
        /\ found = [s \in Searchers |-> {}]

Invoke == /\ call = NoCall /\ call' \in Call
          /\ UNCHANGED <<chunks, result, found>>

Complete == /\ call # NoCall
            /\ chunks' = Effect(call) /\ result' = "ok" /\ call' = NoCall
            /\ UNCHANGED found

Fail == /\ call # NoCall
        /\ result' = "error" /\ call' = NoCall
        /\ UNCHANGED <<chunks, found>>

Search(s) == \E answer \in SUBSET Stored :
                /\ found' = [found EXCEPT ![s] = answer]
                /\ UNCHANGED <<chunks, call, result>>

Crash == call' = NoCall /\ UNCHANGED <<chunks, result, found>>

Wipe == chunks' = Empty /\ UNCHANGED <<call, result, found>>

Next == Invoke \/ Complete \/ Fail \/ Crash \/ Wipe \/ \E s \in Searchers : Search(s)

Spec == Init /\ [][Next]_vars
=============================================================================
