------------------------------ MODULE MCRagStore ------------------------------
(* Instances of RagStore for TLC.                                          *)
EXTENDS RagStore, TLC

Symmetry == Permutations(Paths) \cup Permutations(Texts)
=============================================================================
