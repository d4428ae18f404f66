------------------------------ MODULE MCIndexer ------------------------------
(* Instances of Indexer for TLC.                                           *)
EXTENDS Indexer

CONSTANTS f1, f2, root, sub

TwoDirs  == {root, sub}
TwoFiles == {f1, f2}
Places   == [f \in TwoFiles |-> IF f = f1 THEN root ELSE sub]
Sizes    == [v \in Versions |-> IF v % 2 = 1 THEN 2 ELSE 1]
=============================================================================
