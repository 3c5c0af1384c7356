-------------------------- MODULE MCSessionManager --------------------------
(* Instance of SessionManager for TLC.                                     *)
EXTENDS SessionManager, TLC
=============================================================================
