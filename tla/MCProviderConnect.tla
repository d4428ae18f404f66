-------------------------- MODULE MCProviderConnect ---------------------------
(* Instances of ProviderConnect for TLC.                                   *)
EXTENDS ProviderConnect
=============================================================================
