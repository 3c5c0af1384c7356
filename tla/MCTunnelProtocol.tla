-------------------------- MODULE MCTunnelProtocol --------------------------
(* Instance of TunnelProtocol for TLC.                                       *)
EXTENDS TunnelProtocol
=============================================================================
