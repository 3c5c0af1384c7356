---------------------------- MODULE MCTunnelClient ----------------------------
(* Instances of TunnelClient for TLC.                                         *)
EXTENDS TunnelClient, TLC

\* every token belongs to one user, every client has a token
OneUser == [p \in Principals |-> CHOOSE u \in Users : TRUE]
OneToken == [k \in Clients |-> CHOOSE p \in Principals : TRUE]
===============================================================================
