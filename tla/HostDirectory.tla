--------------------------- MODULE HostDirectory ---------------------------
(***************************************************************************)
(* What the session manager promises to the HTTP side: one map from public *)
(* hosts to sessions.  A host has at most one holder; a holder that is     *)
(* live keeps its host until it goes down or the daemon restarts; a host   *)
(* whose holder is down may be claimed by a new session.  SessionManager   *)
(* implements this with two pairs of indexes and a session table.          *)
(***************************************************************************)
CONSTANTS Hosts, Sids, None

VARIABLES
  holder,   \* [Hosts -> Sids \cup {None}]: the session a lookup of the host finds
  live      \* the hosts whose holder answers requests

dvars == <<holder, live>>

DirectoryInit ==
  /\ holder = [h \in Hosts |-> None]
  /\ live = {}

\* a session that holds no host yet takes one whose holder is not live
Claim(h, s) ==
  /\ h \notin live
  /\ \A g \in Hosts : holder[g] # s
  /\ holder' = [holder EXCEPT ![h] = s]
  /\ live' \in {live, live \cup {h}}

\* a host is given up: only when nobody answers for it
Vacate(h) ==
  /\ h \notin live
  /\ holder' = [holder EXCEPT ![h] = None]
  /\ UNCHANGED live

\* the holder of a host comes (back) up, or goes down and keeps the host
Up(h) ==
  /\ holder[h] # None
  /\ live' = live \cup {h}
  /\ UNCHANGED holder

Down(h) ==
  /\ live' = live \ {h}
  /\ UNCHANGED holder

\* the daemon restarts
Forget ==
  /\ holder' = [h \in Hosts |-> None]
  /\ live' = {}

DirectoryNext ==
  \/ \E h \in Hosts :
       \/ \E s \in Sids : Claim(h, s)
       \/ Vacate(h)
       \/ Up(h)
       \/ Down(h)
  \/ Forget

DirectorySpec == DirectoryInit /\ [][DirectoryNext]_dvars
=============================================================================
