-------------------------- MODULE MCSessionEvents --------------------------
(* Small instances of a session's events for TLC.                            *)
EXTENDS SessionEvents

CONSTANTS o1, o2
=============================================================================
