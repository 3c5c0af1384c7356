-------------------------- MODULE MCRequestStream --------------------------
(* Instances of RequestStream for TLC.                                     *)
EXTENDS RequestStream, TLC
=============================================================================
