--------------------------- MODULE MCControlServer ---------------------------
(* Instances of ControlServer for TLC.                                      *)
EXTENDS ControlServer, TLC

\* every token belongs to one user
OneUser == [p \in Principals |-> CHOOSE u \in Users : TRUE]

\* no operation orders connections, ids or labels
ControlSymmetry ==
  Permutations(Conns) \cup Permutations(Sids) \cup Permutations(Subdomains)
=============================================================================
