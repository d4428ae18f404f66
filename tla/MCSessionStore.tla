---------------------------- MODULE MCSessionStore ----------------------------
(* Instances of SessionStore for TLC.                                      *)
EXTENDS SessionStore

(* West of Greenwich, there and east of it, two seconds apart.             *)
SomeZones == {-4, 0, 4}
=============================================================================
