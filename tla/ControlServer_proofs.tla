------------------------ MODULE ControlServer_proofs ------------------------
(***************************************************************************)
(* Proofs about ControlServer, for any number of connections, HTTP calls,  *)
(* public requests, users, sessions and restarts, and any plan.            *)
(*                                                                         *)
(* Three things are proved.  The handlers call the session manager only in *)
(* ways SessionManager allows, so that what is proved there holds here.    *)
(* The places in a plan and the session, the peer entry and the connection *)
(* of a handler stay together through every order of registrations,        *)
(* resumes, cleanups and restarts.  And a forwarded request reaches the    *)
(* owner of its host.                                                      *)
(*                                                                         *)
(* None of the invariants the runs check is inductive alone.  Handlers     *)
(* says what a handler has at each stage: its register message, its        *)
(* session, which is its own or the one it resumed, and its reservation    *)
(* exactly while it is owed one.  Forwarding remembers for a request what  *)
(* its first lookup found, which stays true while the host changes hands.  *)
(*                                                                         *)
(* The steps are taken in any environment (AnyStep): connections may close *)
(* at any time, several at once, and a restart may keep any connections    *)
(* that have not been read from.  TunnelClient_proofs relies on that.      *)
(***************************************************************************)
EXTENDS ControlServer, SessionManager_proofs, FiniteSetTheorems

-----------------------------------------------------------------------------
(* The invariant.                                                          *)

\* The stages of a handler before RegisterTunnel has returned a session, or after it
\* failed, and those after it returned one.
Sessionless == {"accepted", "authed", "reserved", "allocated", "failed"}
Owed == {"reserved", "allocated", "stored", "peered"}

\* What a handler has at each stage.
HasMessage ==
  /\ \A c \in Conns : pc[c] \notin {"accepted", "done"} => req[c] \in RegisterMsg
  /\ \A h \in Conns \cup Calls : pc[h] = "allocated" => sub[h] # None
  /\ \A c \in Conns : pc[c] = "allocated" => Fresh(c)
HasSession ==
  /\ \A c \in Conns : pc[c] \in Sessionless => sid[c] = None
  /\ \A c \in Conns : pc[c] \in Stages \ (Sessionless \cup {"done"}) => sid[c] # None
  /\ \A c \in Conns : sid[c] # None =>
       /\ req[c] \in RegisterMsg
       /\ sid[c] \in issued
       /\ ~Fresh(c) => sid[c] = req[c].resume
HasPlace ==
  /\ \A c \in Conns : resv[c] # None => Fresh(c) /\ pc[c] \in Owed \cup {"failed"}
  /\ \A c \in Conns : pc[c] \in Owed /\ Fresh(c) => resv[c] = User(c)

\* What the first lookup found stays true of the session it found, and the
\* connection the second one found is the one that registered it.
Forwarding ==
  \A r \in Requests :
    /\ fwd[r].at \in {"looked", "sent"} =>
         /\ fwd[r].sid \in issued
         /\ store[fwd[r].sid] # None
         /\ store[fwd[r].sid].sub = fwd[r].host
    /\ fwd[r].at = "sent" => fwd[r].peer # None /\ sid[fwd[r].peer] = fwd[r].sid

ControlInv ==
  /\ ControlTypeOK
  /\ ManagerInv
  /\ HasMessage
  /\ HasSession
  /\ HasPlace
  /\ NoGhostSession
  /\ PeerTable
  /\ PlacesHeld
  /\ FreshTunnelsWithinPlan
  /\ Forwarding

\* The steps of the server, whatever closes its connections and whatever a restart
\* finds waiting.
Closing == open' \in SUBSET open /\
  UNCHANGED <<mvars, qvars, pc, req, sub, sid, resv, peers, told, fwd>>
Restarting ==
  \E waiting \in SUBSET (Conns \cup Calls) :
    (\A h \in waiting : pc[h] = "accepted") /\ RestartKeeping(waiting)

AnyStep ==
  \/ \E c \in Conns : Handle(c)
  \/ \E h \in Conns \cup Calls : StoreSteps(h)
  \/ \E r \in Requests : LookupPeer(r) \/ \E d \in Subdomains : LookupHost(r, d)
  \/ Closing
  \/ Restarting

-----------------------------------------------------------------------------
(* The places of a plan.                                                   *)

\* The tunnels counted for a user are finitely many, because connections are.
LEMMA ActiveFinite ==
  ASSUME PlacesHeld, NEW u \in Users
  PROVE  IsFiniteSet(activeTunnels[u])
<1> DEFINE held == {sid[c] : c \in Conns}
<1>1. activeTunnels[u] \subseteq held
  BY DEF PlacesHeld
<1>2. IsFiniteSet(held)
  <2>1. [c \in Conns |-> sid[c]] \in Surjection(Conns, held)
    BY DEF Surjection
  <2>2. QED
    BY <2>1, FS_Surjection, ControlAssumption
<1>3. QED
  BY <1>1, <1>2, FS_Subset

\* So are those that were never resumed.
LEMMA FreshFinite ==
  ASSUME PlacesHeld, NEW u \in Users
  PROVE  IsFiniteSet(FreshTunnels(u))
<1>1. FreshTunnels(u) \subseteq activeTunnels[u]
  BY DEF FreshTunnels
<1>2. QED
  BY <1>1, ActiveFinite, FS_Subset

\* TunnelQuota counts as this module does.
LEMMA SameCount == \A S : Quota!Cardinality(S) = Cardinality(S)
BY DEF Quota!Cardinality, Cardinality

\* Room for one more tunnel of a user, when the plan has a limit.
LEMMA RoomMeans ==
  ASSUME NEW u \in Users, Quota!TunnelRoom(u), MaxActiveTunnels # 0
  PROVE  Cardinality(activeTunnels[u]) + reservedTunnels[u] + 1 <= MaxActiveTunnels
<1>1. Quota!TunnelLoad(u) + 1 <= MaxActiveTunnels
  BY DEF Quota!TunnelRoom
<1>2. Quota!TunnelLoad(u) = Cardinality(activeTunnels[u]) + reservedTunnels[u]
  BY SameCount DEF Quota!TunnelLoad
<1>3. QED
  BY <1>1, <1>2

-----------------------------------------------------------------------------
(* What a step of one handler moves.                                       *)

\* Goto changes the stage of one handler.
LEMMA Moved ==
  ASSUME ControlTypeOK, NEW h \in Conns \cup Calls, NEW stage \in Stages, Goto(h, stage)
  PROVE  /\ pc' \in [Conns \cup Calls -> Stages]
         /\ pc'[h] = stage
         /\ \A g \in Conns \cup Calls : g # h => pc'[g] = pc[g]
BY DEF ControlTypeOK, Goto

\* A handler's session is its own from RegisterTunnel on, whatever the others do.
SidsKept == \A c \in Conns : sid[c] # None => sid'[c] = sid[c]

\* A registry record outlives every step but keeps its subdomain.
RecordsKept ==
  /\ issued \subseteq issued'
  /\ \A s \in issued : store[s] # None => store'[s] # None /\ store'[s].sub = store[s].sub

\* No ghost appears while the session table is left alone and no handler that
\* would detach a session goes on to the end.
LEMMA NoGhostKept ==
  ASSUME NoGhostSession, sessions' = sessions,
         \A c \in Conns : pc[c] \in Holding => pc'[c] \in Holding /\ sid'[c] = sid[c]
  PROVE  NoGhostSession'
BY DEF NoGhostSession, Connected, Known

\* The peer table is untouched by handlers that have no entry before or after.
LEMMA PeersKept ==
  ASSUME ControlTypeOK, PeerTable, peers' = peers, open' \subseteq open,
         \A c \in Conns : pc'[c] \in Peered <=> pc[c] \in Peered,
         \A c \in Conns : pc[c] \in Peered => sid'[c] = sid[c]
  PROVE  PeerTable'
BY DEF PeerTable, ControlTypeOK

\* The places are held as before while the quota and the reservations are left
\* alone and no handler of a counted tunnel ends.
LEMMA PlacesKept ==
  ASSUME PlacesHeld, UNCHANGED qvars, resv' = resv,
         \A c \in Conns : pc[c] \in Counted =>
           pc'[c] \in Counted /\ sid'[c] = sid[c] /\ req'[c] = req[c]
  PROVE  PlacesHeld'
<1>1. ASSUME NEW u \in Users
      PROVE  /\ reservedTunnels'[u] = Cardinality({c \in Conns : resv'[c] = u})
             /\ \A s \in activeTunnels'[u] :
                  \E c \in Conns : sid'[c] = s /\ pc'[c] \in Counted /\ User(c)' = u
  BY DEF PlacesHeld, qvars, User
<1>2. QED
  BY <1>1 DEF PlacesHeld

\* A tunnel that was never resumed counts as before while the quota is left alone;
\* a resume only takes tunnels off that count.
LEMMA FreshKept ==
  ASSUME ControlTypeOK, FreshTunnelsWithinPlan, UNCHANGED qvars, SidsKept, PlacesHeld,
         \A c \in Conns : sid[c] # None => req'[c] = req[c]
  PROVE  FreshTunnelsWithinPlan'
<1>1. SUFFICES ASSUME MaxActiveTunnels > 0, NEW u \in Users
               PROVE  Cardinality(FreshTunnels(u)') + reservedTunnels'[u] <= MaxActiveTunnels
  BY DEF FreshTunnelsWithinPlan
<1>2. FreshTunnels(u)' \subseteq FreshTunnels(u)
  BY ManagerAssumption DEF FreshTunnels, SidsKept, Fresh, ControlTypeOK, qvars
<1>3. IsFiniteSet(FreshTunnels(u))
  BY FreshFinite
<1>4. /\ Cardinality(FreshTunnels(u)') <= Cardinality(FreshTunnels(u))
      /\ Cardinality(FreshTunnels(u)') \in Nat /\ Cardinality(FreshTunnels(u)) \in Nat
  BY <1>2, <1>3, FS_Subset, FS_CardinalityType
<1>5. reservedTunnels[u] \in Nat /\ reservedTunnels'[u] = reservedTunnels[u]
  BY DEF ControlTypeOK, qvars
<1>6. Cardinality(FreshTunnels(u)) + reservedTunnels[u] <= MaxActiveTunnels
  BY <1>1 DEF FreshTunnelsWithinPlan
<1>7. QED
  BY <1>4, <1>5, <1>6, ControlAssumption

\* What the lookups of the requests found stays true.
LEMMA ForwardingKept ==
  ASSUME ControlTypeOK, Forwarding, fwd' = fwd, SidsKept, RecordsKept
  PROVE  Forwarding'
<1>1. SUFFICES ASSUME NEW r \in Requests
               PROVE  /\ fwd'[r].at \in {"looked", "sent"} =>
                           /\ fwd'[r].sid \in issued'
                           /\ store'[fwd'[r].sid] # None
                           /\ store'[fwd'[r].sid].sub = fwd'[r].host
                      /\ fwd'[r].at = "sent" =>
                           fwd'[r].peer # None /\ sid'[fwd'[r].peer] = fwd'[r].sid
  BY DEF Forwarding
<1>2. CASE fwd[r].at \in {"looked", "sent"}
  <2>1. fwd[r].sid \in issued /\ store[fwd[r].sid] # None /\ store[fwd[r].sid].sub = fwd[r].host
    BY <1>2 DEF Forwarding
  <2>2. fwd[r].at = "sent" => sid'[fwd[r].peer] = fwd[r].sid
    <3>1. SUFFICES ASSUME fwd[r].at = "sent"
                   PROVE  sid'[fwd[r].peer] = fwd[r].sid
      OBVIOUS
    <3>2. fwd[r].peer \in Conns /\ sid[fwd[r].peer] = fwd[r].sid
      BY <3>1 DEF Forwarding, ControlTypeOK, Forward
    <3>3. fwd[r].sid # None
      BY <2>1, ManagerAssumption DEF ControlTypeOK, ManagerTypeOK
    <3>4. QED
      BY <3>2, <3>3 DEF SidsKept
  <2>3. QED
    BY <1>2, <2>1, <2>2 DEF RecordsKept, Forwarding
<1>3. CASE fwd[r].at \notin {"looked", "sent"}
  BY <1>3
<1>4. QED
  BY <1>2, <1>3

-----------------------------------------------------------------------------
(* The session manager underneath.                                         *)

\* Nothing the session manager does forgets an id, or moves a registry record to
\* another subdomain: an id that is stored again belongs to a session in memory,
\* whose record has its subdomain.
LEMMA ManagerKeeps ==
  ASSUME ManagerInv, [ManagerNext]_mvars
  PROVE  RecordsKept
<1> USE NoneIsNoRecord, ManagerAssumption
<1> USE DEF ManagerInv, ManagerTypeOK
<1>1. CASE \E s \in Sids, new \in Created \cup Registered :
             StoreSession(s, new) \/ StoreUnsaved(s, new) \/ StoreConflict(s, new)
  <2>1. PICK s \in Sids, new \in Created \cup Registered :
          StoreSession(s, new) \/ StoreUnsaved(s, new) \/ StoreConflict(s, new)
    BY <1>1
  <2>2. s \notin issued /\ issued' = issued \cup {s}
    BY <2>1 DEF StoreSession, StoreUnsaved, StoreConflict, Draw
  <2>3. \A t \in Sids : t # s => store'[t] = store[t]
    BY <2>1 DEF StoreSession, StoreUnsaved, StoreConflict, Upsert
  <2>4. QED
    BY <2>2, <2>3 DEF RecordsKept
<1>2. ASSUME NEW s \in Sids, NEW status \in Statuses, NEW saved, sessions[s] # None,
             store' = Upsert(s, sessions[s].sub, status, saved), issued' = issued
      PROVE  RecordsKept
  <2>1. /\ store[s] # None /\ store[s].sub = sessions[s].sub
        /\ sessions[s].sub \in Subdomains
    BY <1>2 DEF DurableBacked, Session
  <2>2. [sub |-> sessions[s].sub, status |-> status] \in StoredTunnel
    BY <1>2, <2>1 DEF StoredTunnel
  <2>3. \A t \in Sids : store[t] # None => store'[t] # None /\ store'[t].sub = store[t].sub
    BY <1>2, <2>1, <2>2 DEF Upsert
  <2>4. QED
    BY <1>2, <2>3 DEF RecordsKept
<1>3. CASE \E s \in Sids, saved \in BOOLEAN :
             \E c \in Conns, t \in Sids, p \in Principals, sh \in Shapes :
               ResumeTunnel(s, c, t, p, sh, saved)
  BY <1>2, <1>3 DEF ResumeTunnel, CanResume, Known, Statuses
<1>4. CASE \E s \in Sids, saved \in BOOLEAN : TouchHeartbeat(s, saved)
  BY <1>2, <1>4 DEF TouchHeartbeat, Known, Statuses
<1>5. CASE \E s \in Sids, saved \in BOOLEAN : DetachConnection(s, saved)
  <2>1. PICK s \in Sids, saved \in BOOLEAN : DetachConnection(s, saved)
    BY <1>5
  <2>2. CASE Known(s)
    BY <1>2, <2>1, <2>2 DEF DetachConnection, Known, Statuses
  <2>3. CASE ~Known(s)
    BY <2>1, <2>3 DEF DetachConnection, mvars, RecordsKept
  <2>4. QED
    BY <2>2, <2>3
<1>6. CASE ManagerRestart
  BY <1>6 DEF ManagerRestart, RecordsKept
<1>7. CASE UNCHANGED mvars
  BY <1>7 DEF mvars, RecordsKept
<1>8. QED
  BY <1>1, <1>3, <1>4, <1>5, <1>6, <1>7 DEF ManagerNext

\* A step that leaves the session manager alone keeps its invariant.
LEMMA ManagerAlone == ManagerInv /\ UNCHANGED mvars => ManagerInv' /\ RecordsKept
BY NextInv, ManagerKeeps

\* What a handler stores is what storeSession is called with.
LEMMA NewSessionIsNew ==
  ASSUME ControlInv, NEW h \in Conns \cup Calls, pc[h] = "allocated"
  PROVE  NewSession(h) \in Created \cup Registered
<1>1. sub[h] \in Subdomains
  BY DEF ControlInv, ControlTypeOK, HasMessage
<1>2. CASE h \in Conns
  <2>1. req[h] \in RegisterMsg
    BY <1>2 DEF ControlInv, HasMessage
  <2>2. req[h].principal \in Principals /\ req[h].shape \in Shapes
    BY <2>1 DEF RegisterMsg
  <2>3. NewSession(h) \in Registered
    BY <1>1, <1>2, <2>2 DEF NewSession, Registered
  <2>4. QED
    BY <2>3
<1>3. CASE h \notin Conns
  <2>1. (CHOOSE sh \in Shapes : TRUE) \in Shapes
    BY ControlAssumption
  <2>2. NewSession(h) \in Created
    BY <1>1, <1>3, <2>1 DEF NewSession, Created
  <2>3. QED
    BY <2>2
<1>4. QED
  BY <1>2, <1>3

\* Every step of the handlers is a step of the session manager, or leaves it alone.
LEMMA StepManages ==
  ASSUME ControlInv, AnyStep
  PROVE  [ManagerNext]_mvars
<1>1. ASSUME NEW c \in Conns, Handle(c)
      PROVE  [ManagerNext]_mvars
  <2>1. CASE Resume(c)
    <3>1. PICK saved \in BOOLEAN :
            ResumeTunnel(req[c].resume, c, req[c].token, req[c].principal, req[c].shape, saved)
      BY <2>1 DEF Resume
    <3>2. req[c] \in RegisterMsg /\ req[c].resume # None
      BY <2>1 DEF Resume, ControlInv, HasMessage, Fresh
    <3>3. req[c].token = req[c].resume
      BY <3>1 DEF ResumeTunnel, CanResume
    <3>4. /\ req[c].resume \in Sids /\ req[c].token \in Sids
          /\ req[c].principal \in Principals /\ req[c].shape \in Shapes
      BY <3>2, <3>3 DEF RegisterMsg
    <3>5. QED
      BY <3>1, <3>4 DEF ManagerNext
  <2>2. CASE Ping(c)
    <3>1. PICK saved \in BOOLEAN : TouchHeartbeat(sid[c], saved)
      BY <2>2 DEF Ping
    <3>2. sid[c] \in Sids
      BY <3>1 DEF TouchHeartbeat, Known, ControlInv, ControlTypeOK
    <3>3. QED
      BY <3>1, <3>2 DEF ManagerNext
  <2>3. CASE Detach(c)
    <3>1. PICK saved \in BOOLEAN : DetachConnection(sid[c], saved)
      BY <2>3 DEF Detach
    <3>2. sid[c] \in Sids
      BY <2>3 DEF Detach, ControlInv, ControlTypeOK, HasSession, Stages, Sessionless
    <3>3. QED
      BY <3>1, <3>2 DEF ManagerNext
  <2>4. CASE ~Resume(c) /\ ~Ping(c) /\ ~Detach(c)
    BY <1>1, <2>4
    DEF Handle, ReadRegister, RefuseRegister, Reserve, OverLimit, InvalidResume, AddPeer,
        CountTunnel, SendRegistered, NotSent, UnknownSession, LeaveLoop, ReleaseReservation,
        RemovePeer, CloseTunnel
  <2>5. QED
    BY <2>1, <2>2, <2>3, <2>4
<1>2. ASSUME NEW h \in Conns \cup Calls, StoreSteps(h)
      PROVE  [ManagerNext]_mvars
  <2>1. CASE Store(h)
    <3>1. PICK s \in Sids : StoreSession(s, NewSession(h))
      BY <2>1 DEF Store
    <3>2. NewSession(h) \in Created \cup Registered
      BY <2>1, NewSessionIsNew DEF Store
    <3>3. QED
      BY <3>1, <3>2 DEF ManagerNext
  <2>2. CASE NotStored(h)
    <3>1. PICK s \in Sids : StoreUnsaved(s, NewSession(h)) \/ StoreConflict(s, NewSession(h))
      BY <2>2 DEF NotStored
    <3>2. NewSession(h) \in Created \cup Registered
      BY <2>2, NewSessionIsNew DEF NotStored
    <3>3. QED
      BY <3>1, <3>2 DEF ManagerNext
  <2>3. CASE Allocate(h) \/ NotAllocated(h)
    BY <2>3 DEF Allocate, NotAllocated
  <2>4. QED
    BY <1>2, <2>1, <2>2, <2>3 DEF StoreSteps
<1>3. CASE \E r \in Requests : LookupPeer(r) \/ \E d \in Subdomains : LookupHost(r, d)
  BY <1>3 DEF LookupPeer, LookupHost
<1>4. CASE Closing
  BY <1>4 DEF Closing
<1>5. CASE Restarting
  BY <1>5 DEF Restarting, RestartKeeping, ManagerNext
<1>6. QED
  BY <1>1, <1>2, <1>3, <1>4, <1>5 DEF AnyStep

-----------------------------------------------------------------------------
(* Steps that only move a handler on.                                      *)

\* The session manager has the invariant, keeps its records and no handler's
\* session changes.
Undisturbed == ManagerInv' /\ RecordsKept /\ SidsKept

\* The edges along which a handler only moves: refusals, the end of the handshake
\* and the ways out of the read loop.
PlainEdges ==
  {<<"accepted", "done">>, <<"authed", "done">>, <<"reserved", "failed">>,
   <<"counted", "serving">>, <<"counted", "closing">>, <<"serving", "closing">>}

\* Such a step keeps the invariant, also if it closes connections.
LEMMA PlainMove ==
  ASSUME ControlInv, NEW h \in Conns \cup Calls, NEW stage,
         <<pc[h], stage>> \in PlainEdges, Goto(h, stage),
         open' \subseteq open, told' \in SUBSET Sids,
         UNCHANGED <<mvars, qvars, req, sub, sid, resv, peers, fwd>>
  PROVE  ControlInv'
<1>1. stage \in Stages
  BY DEF PlainEdges, Stages
<1>2. /\ pc' \in [Conns \cup Calls -> Stages]
      /\ pc'[h] = stage
      /\ \A g \in Conns \cup Calls : g # h => pc'[g] = pc[g]
  BY <1>1, Moved DEF ControlInv
<1>3. Undisturbed
  BY ManagerAlone DEF ControlInv, Undisturbed, SidsKept
<1>4. ControlTypeOK'
  BY <1>2, <1>3 DEF ControlInv, ControlTypeOK, Undisturbed, ManagerInv, qvars
<1>5. HasMessage'
  BY <1>2 DEF ControlInv, HasMessage, PlainEdges, Fresh
<1>6. HasSession'
  BY <1>2 DEF ControlInv, HasSession, PlainEdges, Sessionless, Stages, Fresh, mvars
<1>7. HasPlace'
  BY <1>2 DEF ControlInv, HasPlace, PlainEdges, Owed, Fresh, User
<1>8. \A c \in Conns : pc[c] \in Holding => pc'[c] \in Holding
  BY <1>2 DEF PlainEdges, Holding
<1>9. \A c \in Conns : pc'[c] \in Peered <=> pc[c] \in Peered
  BY <1>2 DEF PlainEdges, Peered
<1>10. \A c \in Conns : pc[c] \in Counted => pc'[c] \in Counted
  BY <1>2 DEF PlainEdges, Counted
<1>11. NoGhostSession'
  BY <1>8, NoGhostKept DEF ControlInv, mvars
<1>12. PeerTable'
  BY <1>9, PeersKept DEF ControlInv
<1>13. PlacesHeld'
  BY <1>10, PlacesKept DEF ControlInv
<1>14. FreshTunnelsWithinPlan'
  BY <1>3, FreshKept DEF ControlInv, Undisturbed
<1>15. Forwarding'
  BY <1>3, ForwardingKept DEF ControlInv, Undisturbed
<1>16. QED
  BY <1>3, <1>4, <1>5, <1>6, <1>7, <1>11, <1>12, <1>13, <1>14, <1>15
  DEF ControlInv, Undisturbed

\* The refusals, the registered message and the ways out of the read loop.
LEMMA PlainSteps ==
  ASSUME ControlInv, NEW c \in Conns,
         \/ RefuseRegister(c) \/ OverLimit(c) \/ InvalidResume(c)
         \/ SendRegistered(c) \/ NotSent(c) \/ UnknownSession(c) \/ LeaveLoop(c)
  PROVE  ControlInv'
<1>1. told \in SUBSET Sids
  BY DEF ControlInv, ControlTypeOK
<1>2. CASE RefuseRegister(c)
  BY <1>1, <1>2, PlainMove DEF RefuseRegister, PlainEdges
<1>3. CASE OverLimit(c)
  BY <1>1, <1>3, PlainMove DEF OverLimit, PlainEdges
<1>4. CASE InvalidResume(c)
  BY <1>1, <1>4, PlainMove DEF InvalidResume, PlainEdges
<1>5. CASE SendRegistered(c)
  <2>1. sid[c] \in Sids
    BY <1>5 DEF SendRegistered, ControlInv, ControlTypeOK, HasSession, Stages, Sessionless
  <2>2. told' \in SUBSET Sids
    BY <1>1, <1>5, <2>1 DEF SendRegistered
  <2>3. QED
    BY <1>5, <2>2, PlainMove DEF SendRegistered, PlainEdges
<1>6. CASE NotSent(c)
  BY <1>1, <1>6, PlainMove DEF NotSent, PlainEdges
<1>7. CASE UnknownSession(c)
  BY <1>1, <1>7, PlainMove DEF UnknownSession, PlainEdges
<1>8. CASE LeaveLoop(c)
  BY <1>1, <1>8, PlainMove DEF LeaveLoop, PlainEdges
<1>9. QED
  BY <1>2, <1>3, <1>4, <1>5, <1>6, <1>7, <1>8

\* allocateSubdomain finds no label, for a connection or for an HTTP call.
LEMMA NotAllocatedKeeps ==
  ASSUME ControlInv, NEW h \in Conns \cup Calls, NotAllocated(h)
  PROVE  ControlInv'
<1>1. told \in SUBSET Sids
  BY DEF ControlInv, ControlTypeOK
<1>2. PICK stage : Goto(h, stage) /\ <<pc[h], stage>> \in PlainEdges
  BY DEF NotAllocated, PlainEdges
<1>3. QED
  BY <1>1, <1>2, PlainMove DEF NotAllocated

-----------------------------------------------------------------------------
(* Reservations.                                                           *)

Holders(u) == {c \in Conns : resv[c] = u}

\* A place taken is one more holder of that user, and no other's.
LEMMA PlaceTaken ==
  ASSUME ControlTypeOK, NEW c \in Conns, NEW u \in Users, resv[c] = None,
         resv' = [resv EXCEPT ![c] = u], NEW v \in Users
  PROVE  Cardinality(Holders(v)') =
           IF v = u THEN Cardinality(Holders(v)) + 1 ELSE Cardinality(Holders(v))
<1>1. resv \in [Conns -> Users \cup {None}] /\ None \notin Users
  BY ControlAssumption DEF ControlTypeOK
<1>2. IsFiniteSet(Holders(v))
  BY FS_Subset, ControlAssumption DEF Holders
<1>3. CASE v = u
  <2>1. Holders(v)' = Holders(v) \cup {c} /\ c \notin Holders(v)
    BY <1>1, <1>3 DEF Holders
  <2>2. QED
    BY <1>2, <1>3, <2>1, FS_AddElement
<1>4. CASE v # u
  <2>1. Holders(v)' = Holders(v)
    BY <1>1, <1>4 DEF Holders
  <2>2. QED
    BY <1>4, <2>1
<1>5. QED
  BY <1>3, <1>4

\* A place given up is one holder less of the user who had it; there was one.
LEMMA PlaceGivenUp ==
  ASSUME ControlTypeOK, NEW c \in Conns, NEW u \in Users, resv[c] = u,
         resv' = [resv EXCEPT ![c] = None], NEW v \in Users
  PROVE  /\ Cardinality(Holders(v)) \in Nat
         /\ v = u => Cardinality(Holders(v)) > 0
         /\ Cardinality(Holders(v)') =
              IF v = u THEN Cardinality(Holders(v)) - 1 ELSE Cardinality(Holders(v))
<1>1. resv \in [Conns -> Users \cup {None}] /\ None \notin Users
  BY ControlAssumption DEF ControlTypeOK
<1>2. IsFiniteSet(Holders(v))
  BY FS_Subset, ControlAssumption DEF Holders
<1>3. Cardinality(Holders(v)) \in Nat
  BY <1>2, FS_CardinalityType
<1>4. CASE v = u
  <2>1. Holders(v)' = Holders(v) \ {c} /\ c \in Holders(v)
    BY <1>1, <1>4 DEF Holders
  <2>2. Cardinality(Holders(v)) # 0
    BY <1>2, <2>1, FS_EmptySet
  <2>3. Cardinality(Holders(v)') = Cardinality(Holders(v)) - 1
    BY <1>2, <2>1, FS_RemoveElement
  <2>4. Cardinality(Holders(v)) > 0
    BY <1>3, <2>2
  <2>5. QED
    BY <1>3, <1>4, <2>3, <2>4
<1>5. CASE v # u
  <2>1. Holders(v)' = Holders(v)
    BY <1>1, <1>5 DEF Holders
  <2>2. QED
    BY <1>3, <1>5, <2>1
<1>6. QED
  BY <1>4, <1>5

\* PlacesHeld by its two halves.
LEMMA PlacesAre ==
  PlacesHeld <=>
    /\ \A u \in Users : reservedTunnels[u] = Cardinality(Holders(u))
    /\ \A u \in Users : \A s \in activeTunnels[u] :
         \E c \in Conns : sid[c] = s /\ pc[c] \in Counted /\ User(c) = u
BY DEF PlacesHeld, Holders

\* The user of a handler that has read its register message.
LEMMA UserIsUser ==
  ASSUME ControlInv, NEW c \in Conns, pc[c] \notin {"accepted", "done"}
  PROVE  User(c) \in Users
BY ControlAssumption DEF ControlInv, HasMessage, RegisterMsg, User

\* The register message of a handler that has no session yet.
LEMMA ReadRegisterKeeps ==
  ASSUME ControlInv, NEW c \in Conns, ReadRegister(c)
  PROVE  ControlInv'
<1> USE ManagerAssumption, ControlAssumption
<1>1. /\ pc' \in [Conns \cup Calls -> Stages]
      /\ pc'[c] = "authed"
      /\ \A g \in Conns \cup Calls : g # c => pc'[g] = pc[g]
  BY Moved DEF ReadRegister, ControlInv, Stages
<1>2. PICK m \in RegisterMsg : req' = [req EXCEPT ![c] = m]
  <2>1. PICK p \in Principals, sh \in Shapes, s \in Sids \cup {None}, t \in told \cup {None} :
          /\ (s = None) = (t = None)
          /\ req' = [req EXCEPT ![c] = [principal |-> p, shape |-> sh, resume |-> s, token |-> t]]
    BY DEF ReadRegister
  <2>2. t \in Sids \cup {None}
    BY DEF ControlInv, ControlTypeOK
  <2>3. [principal |-> p, shape |-> sh, resume |-> s, token |-> t] \in RegisterMsg
    BY <2>2 DEF RegisterMsg
  <2>4. QED
    BY <2>1, <2>3
<1>3. pc[c] = "accepted" /\ sid[c] = None /\ resv[c] = None
  BY DEF ReadRegister, ControlInv, HasSession, HasPlace, Sessionless, Owed
<1>4. /\ req' \in [Conns -> RegisterMsg \cup {None}]
      /\ req'[c] \in RegisterMsg
      /\ \A g \in Conns : g # c => req'[g] = req[g]
  BY <1>2 DEF ControlInv, ControlTypeOK
<1>5. UNCHANGED <<mvars, qvars, sub, sid, resv, open, peers, told, fwd>>
  BY DEF ReadRegister
<1>6. Undisturbed
  BY <1>5, ManagerAlone DEF ControlInv, Undisturbed, SidsKept
<1>7. ControlTypeOK'
  BY <1>1, <1>4, <1>5, <1>6 DEF ControlInv, ControlTypeOK, Undisturbed, ManagerInv, qvars
<1>8. HasMessage'
  BY <1>1, <1>3, <1>4, <1>5 DEF ControlInv, HasMessage, Fresh
<1>9. HasSession'
  BY <1>1, <1>3, <1>4, <1>5 DEF ControlInv, HasSession, Sessionless, Stages, Fresh, mvars
<1>10. HasPlace'
  BY <1>1, <1>3, <1>4, <1>5 DEF ControlInv, HasPlace, Owed, Fresh, User
<1>11. NoGhostSession'
  BY <1>1, <1>3, <1>5, NoGhostKept DEF ControlInv, mvars, Holding
<1>12. PeerTable'
  BY <1>1, <1>3, <1>5, PeersKept DEF ControlInv, Peered
<1>13. PlacesHeld'
  BY <1>1, <1>3, <1>4, <1>5, PlacesKept DEF ControlInv, Counted
<1>14. FreshTunnelsWithinPlan'
  BY <1>3, <1>4, <1>5, <1>6, FreshKept DEF ControlInv, Undisturbed
<1>15. Forwarding'
  BY <1>5, <1>6, ForwardingKept DEF ControlInv, Undisturbed
<1>16. QED
  BY <1>6, <1>7, <1>8, <1>9, <1>10, <1>11, <1>12, <1>13, <1>14, <1>15
  DEF ControlInv, Undisturbed

\* The quota's part of a reservation: the plan has room for it, and one more holder
\* has it.
LEMMA ReserveKeeps ==
  ASSUME ControlInv, NEW c \in Conns, Reserve(c)
  PROVE  ControlInv'
<1> USE ManagerAssumption, ControlAssumption
<1> DEFINE u == User(c)
<1>1. /\ pc' \in [Conns \cup Calls -> Stages]
      /\ pc'[c] = "reserved" /\ pc[c] = "authed"
      /\ \A g \in Conns \cup Calls : g # c => pc'[g] = pc[g]
  BY Moved DEF Reserve, ControlInv, Stages
<1>2. UNCHANGED <<mvars, req, sub, sid, open, peers, told, fwd>>
  BY DEF Reserve
<1>3. Undisturbed
  BY <1>2, ManagerAlone DEF ControlInv, Undisturbed, SidsKept
<1>4. u \in Users /\ resv[c] = None /\ req[c] \in RegisterMsg /\ sid[c] = None
  BY <1>1, UserIsUser DEF ControlInv, HasPlace, HasMessage, HasSession, Owed, Sessionless
<1>5. HasMessage'
  BY <1>1, <1>2 DEF ControlInv, HasMessage, Fresh
<1>6. HasSession'
  BY <1>1, <1>2 DEF ControlInv, HasSession, Sessionless, Stages, Fresh, mvars
<1>7. NoGhostSession'
  BY <1>1, <1>2, NoGhostKept DEF ControlInv, mvars, Holding
<1>8. PeerTable'
  BY <1>1, <1>2, PeersKept DEF ControlInv, Peered
<1>9. Forwarding'
  BY <1>2, <1>3, ForwardingKept DEF ControlInv, Undisturbed
<1>10. CASE Fresh(c)
  <2>1. /\ Quota!TunnelRoom(u)
        /\ reservedTunnels' = [reservedTunnels EXCEPT ![u] = reservedTunnels[u] + 1]
        /\ activeTunnels' = activeTunnels
        /\ resv' = [resv EXCEPT ![c] = u]
    BY <1>10 DEF Reserve, Quota!ReserveTunnel
  <2>2. reservedTunnels \in [Users -> Nat] /\ resv \in [Conns -> Users \cup {None}]
    BY DEF ControlInv, ControlTypeOK
  <2>3. ControlTypeOK'
    BY <1>1, <1>2, <1>3, <1>4, <2>1, <2>2
    DEF ControlInv, ControlTypeOK, Undisturbed, ManagerInv
  <2>4. HasPlace'
    BY <1>1, <1>2, <1>4, <1>10, <2>1, <2>2 DEF ControlInv, HasPlace, Owed, Fresh, User
  <2>5. PlacesHeld'
    <3>1. ASSUME NEW v \in Users
          PROVE  reservedTunnels'[v] = Cardinality(Holders(v)')
      <4>1. reservedTunnels[v] = Cardinality(Holders(v))
        BY PlacesAre DEF ControlInv
      <4>2. Cardinality(Holders(v)') =
              IF v = u THEN Cardinality(Holders(v)) + 1 ELSE Cardinality(Holders(v))
        BY <1>4, <2>1, PlaceTaken DEF ControlInv
      <4>3. QED
        BY <1>4, <2>1, <2>2, <4>1, <4>2
    <3>2. ASSUME NEW v \in Users, NEW s \in activeTunnels'[v]
          PROVE  \E g \in Conns : sid'[g] = s /\ pc'[g] \in Counted /\ User(g)' = v
      BY <1>1, <1>2, <2>1, <3>2, PlacesAre DEF ControlInv, Counted, User
    <3>3. QED
      BY <3>1, <3>2 DEF PlacesHeld, Holders
  <2>6. FreshTunnelsWithinPlan'
    <3>1. SUFFICES ASSUME MaxActiveTunnels > 0, NEW v \in Users
                   PROVE  Cardinality(FreshTunnels(v)') + reservedTunnels'[v] <= MaxActiveTunnels
      BY DEF FreshTunnelsWithinPlan
    <3>2. FreshTunnels(v)' = FreshTunnels(v)
      BY <1>2, <2>1 DEF FreshTunnels, Fresh
    <3>3. /\ IsFiniteSet(activeTunnels[v]) /\ FreshTunnels(v) \subseteq activeTunnels[v]
      BY ActiveFinite DEF ControlInv, FreshTunnels
    <3>4. /\ Cardinality(FreshTunnels(v)) <= Cardinality(activeTunnels[v])
          /\ Cardinality(FreshTunnels(v)) \in Nat /\ Cardinality(activeTunnels[v]) \in Nat
      BY <3>3, FS_Subset, FS_CardinalityType
    <3>5. Cardinality(FreshTunnels(v)) + reservedTunnels[v] <= MaxActiveTunnels
      BY <3>1 DEF ControlInv, FreshTunnelsWithinPlan
    <3>6. CASE v = u
      <4>1. Cardinality(activeTunnels[u]) + reservedTunnels[u] + 1 <= MaxActiveTunnels
        BY <1>4, <2>1, <3>1, RoomMeans
      <4>2. reservedTunnels[v] \in Nat /\ reservedTunnels'[v] = reservedTunnels[v] + 1
        BY <1>4, <2>1, <2>2, <3>6
      <4>3. QED
        BY <3>2, <3>4, <3>6, <4>1, <4>2
    <3>7. CASE v # u
      BY <1>4, <2>1, <2>2, <3>2, <3>5, <3>7
    <3>8. QED
      BY <3>6, <3>7
  <2>7. QED
    BY <1>3, <1>5, <1>6, <1>7, <1>8, <1>9, <2>3, <2>4, <2>5, <2>6 DEF ControlInv, Undisturbed
<1>11. CASE ~Fresh(c)
  <2>1. UNCHANGED <<qvars, resv>>
    BY <1>11 DEF Reserve
  <2>2. ControlTypeOK'
    BY <1>1, <1>2, <1>3, <2>1 DEF ControlInv, ControlTypeOK, Undisturbed, ManagerInv, qvars
  <2>3. HasPlace'
    BY <1>1, <1>2, <1>11, <2>1 DEF ControlInv, HasPlace, Owed, Fresh, User
  <2>4. PlacesHeld'
    BY <1>1, <1>2, <2>1, PlacesKept DEF ControlInv, Counted
  <2>5. FreshTunnelsWithinPlan'
    BY <1>2, <1>3, <2>1, FreshKept DEF ControlInv, Undisturbed
  <2>6. QED
    BY <1>3, <1>5, <1>6, <1>7, <1>8, <1>9, <2>2, <2>3, <2>4, <2>5 DEF ControlInv, Undisturbed
<1>12. QED
  BY <1>10, <1>11

\* ReleaseTunnelReservation and ConfirmTunnel take one off the count of the user who
\* had the place: the guard of their decrement never bites.
LEMMA PlaceReturned ==
  ASSUME ControlInv, NEW c \in Conns, NEW u \in Users, resv[c] = u,
         resv' = [resv EXCEPT ![c] = None], reservedTunnels' = Quota!Unreserved(u)
  PROVE  /\ reservedTunnels' \in [Users -> Nat]
         /\ reservedTunnels'[u] = reservedTunnels[u] - 1
         /\ \A v \in Users : v # u => reservedTunnels'[v] = reservedTunnels[v]
         /\ \A v \in Users : reservedTunnels'[v] = Cardinality(Holders(v)')
<1>1. reservedTunnels \in [Users -> Nat]
  BY DEF ControlInv, ControlTypeOK
<1>2. \A v \in Users : reservedTunnels[v] = Cardinality(Holders(v))
  BY PlacesAre DEF ControlInv
<1>3. Cardinality(Holders(u)) > 0
  BY PlaceGivenUp DEF ControlInv
<1>4. reservedTunnels[u] > 0
  BY <1>2, <1>3
<1>5. reservedTunnels' = [reservedTunnels EXCEPT ![u] = reservedTunnels[u] - 1]
  BY <1>1, <1>4 DEF Quota!Unreserved
<1>6. /\ reservedTunnels' \in [Users -> Nat]
      /\ reservedTunnels'[u] = reservedTunnels[u] - 1
      /\ \A v \in Users : v # u => reservedTunnels'[v] = reservedTunnels[v]
  BY <1>1, <1>4, <1>5
<1>7. ASSUME NEW v \in Users
      PROVE  reservedTunnels'[v] = Cardinality(Holders(v)')
  <2>1. Cardinality(Holders(v)') =
          IF v = u THEN Cardinality(Holders(v)) - 1 ELSE Cardinality(Holders(v))
    BY PlaceGivenUp DEF ControlInv
  <2>2. QED
    BY <1>2, <1>6, <2>1
<1>8. QED
  BY <1>6, <1>7

\* A registration that failed gives its place back, if it had one.
LEMMA ReleaseReservationKeeps ==
  ASSUME ControlInv, NEW c \in Conns, ReleaseReservation(c)
  PROVE  ControlInv'
<1> USE ManagerAssumption, ControlAssumption
<1>1. /\ pc' \in [Conns \cup Calls -> Stages]
      /\ pc'[c] = "done" /\ pc[c] = "failed"
      /\ \A g \in Conns \cup Calls : g # c => pc'[g] = pc[g]
  BY Moved DEF ReleaseReservation, ControlInv, Stages
<1>2. UNCHANGED <<mvars, req, sub, sid, peers, told, fwd>> /\ open' \subseteq open
  BY DEF ReleaseReservation
<1>3. resv' = [resv EXCEPT ![c] = None] /\ resv \in [Conns -> Users \cup {None}]
  BY DEF ReleaseReservation, ControlInv, ControlTypeOK
<1>4. Undisturbed
  BY <1>2, ManagerAlone DEF ControlInv, Undisturbed, SidsKept
<1>5. /\ activeTunnels' = activeTunnels
      /\ reservedTunnels' \in [Users -> Nat]
      /\ \A v \in Users : reservedTunnels'[v] <= reservedTunnels[v]
      /\ \A v \in Users : reservedTunnels'[v] = Cardinality(Holders(v)')
  <2>1. reservedTunnels \in [Users -> Nat]
    BY DEF ControlInv, ControlTypeOK
  <2>2. CASE resv[c] # None
    <3>1. /\ resv[c] \in Users
          /\ reservedTunnels' = Quota!Unreserved(resv[c]) /\ activeTunnels' = activeTunnels
      BY <1>3, <2>2 DEF ReleaseReservation, Quota!ReleaseTunnelReservation
    <3>2. /\ reservedTunnels' \in [Users -> Nat]
          /\ reservedTunnels'[resv[c]] = reservedTunnels[resv[c]] - 1
          /\ \A v \in Users : v # resv[c] => reservedTunnels'[v] = reservedTunnels[v]
          /\ \A v \in Users : reservedTunnels'[v] = Cardinality(Holders(v)')
      BY <1>3, <3>1, PlaceReturned
    <3>3. \A v \in Users : reservedTunnels'[v] <= reservedTunnels[v]
      BY <2>1, <3>1, <3>2
    <3>4. QED
      BY <3>1, <3>2, <3>3
  <2>3. CASE resv[c] = None
    <3>1. UNCHANGED qvars
      BY <2>3 DEF ReleaseReservation
    <3>2. resv' = resv
      BY <1>3, <2>3
    <3>3. \A v \in Users : Holders(v)' = Holders(v)
      BY <3>2 DEF Holders
    <3>4. \A v \in Users : reservedTunnels'[v] = Cardinality(Holders(v)')
      BY <3>1, <3>3, PlacesAre DEF ControlInv, qvars
    <3>5. QED
      BY <2>1, <3>1, <3>4 DEF qvars
  <2>4. QED
    BY <2>2, <2>3
<1>6. ControlTypeOK'
  BY <1>1, <1>2, <1>3, <1>4, <1>5 DEF ControlInv, ControlTypeOK, Undisturbed, ManagerInv
<1>7. HasMessage'
  BY <1>1, <1>2 DEF ControlInv, HasMessage, Fresh
<1>8. HasSession'
  BY <1>1, <1>2 DEF ControlInv, HasSession, Sessionless, Stages, Fresh, mvars
<1>9. HasPlace'
  BY <1>1, <1>2, <1>3 DEF ControlInv, HasPlace, Owed, Fresh, User
<1>10. NoGhostSession'
  BY <1>1, <1>2, NoGhostKept DEF ControlInv, mvars, Holding
<1>11. PeerTable'
  BY <1>1, <1>2, PeersKept DEF ControlInv, Peered
<1>12. PlacesHeld'
  <2>1. ASSUME NEW v \in Users, NEW s \in activeTunnels'[v]
        PROVE  \E g \in Conns : sid'[g] = s /\ pc'[g] \in Counted /\ User(g)' = v
    BY <1>1, <1>2, <1>5, <2>1, PlacesAre DEF ControlInv, Counted, User
  <2>2. QED
    BY <1>5, <2>1 DEF PlacesHeld, Holders
<1>13. FreshTunnelsWithinPlan'
  <2>1. SUFFICES ASSUME MaxActiveTunnels > 0, NEW v \in Users
                 PROVE  Cardinality(FreshTunnels(v)') + reservedTunnels'[v] <= MaxActiveTunnels
    BY DEF FreshTunnelsWithinPlan
  <2>2. FreshTunnels(v)' = FreshTunnels(v)
    BY <1>2, <1>5 DEF FreshTunnels, Fresh
  <2>3. Cardinality(FreshTunnels(v)) \in Nat
    BY FreshFinite, FS_CardinalityType DEF ControlInv
  <2>4. Cardinality(FreshTunnels(v)) + reservedTunnels[v] <= MaxActiveTunnels
    BY <2>1 DEF ControlInv, FreshTunnelsWithinPlan
  <2>5. /\ reservedTunnels[v] \in Nat /\ reservedTunnels'[v] \in Nat
        /\ reservedTunnels'[v] <= reservedTunnels[v]
    BY <1>5 DEF ControlInv, ControlTypeOK
  <2>6. QED
    BY <2>2, <2>3, <2>4, <2>5
<1>14. Forwarding'
  BY <1>2, <1>4, ForwardingKept DEF ControlInv, Undisturbed
<1>15. QED
  BY <1>4, <1>6, <1>7, <1>8, <1>9, <1>10, <1>11, <1>12, <1>13, <1>14
  DEF ControlInv, Undisturbed

\* A fresh tunnel takes the place that was reserved for it; a resumed tunnel is
\* counted without one, and is not fresh.
LEMMA CountTunnelKeeps ==
  ASSUME ControlInv, NEW c \in Conns, CountTunnel(c)
  PROVE  ControlInv'
<1> USE ManagerAssumption, ControlAssumption
<1> DEFINE u == User(c)
<1>1. /\ pc' \in [Conns \cup Calls -> Stages]
      /\ pc'[c] = "counted" /\ pc[c] = "peered"
      /\ \A g \in Conns \cup Calls : g # c => pc'[g] = pc[g]
  BY Moved DEF CountTunnel, ControlInv, Stages
<1>2. UNCHANGED <<mvars, req, sub, sid, open, peers, told, fwd>>
  BY DEF CountTunnel
<1>3. resv' = [resv EXCEPT ![c] = None] /\ resv \in [Conns -> Users \cup {None}]
  BY DEF CountTunnel, ControlInv, ControlTypeOK
<1>4. Undisturbed
  BY <1>2, ManagerAlone DEF ControlInv, Undisturbed, SidsKept
<1>5. u \in Users /\ sid[c] \in Sids
  <2>1. sid[c] # None
    BY <1>1 DEF ControlInv, HasSession, Stages, Sessionless
  <2>2. QED
    BY <1>1, <2>1, UserIsUser DEF ControlInv, ControlTypeOK
<1>6. /\ reservedTunnels \in [Users -> Nat] /\ activeTunnels \in [Users -> SUBSET Sids]
  BY DEF ControlInv, ControlTypeOK
<1>7. activeTunnels' = [activeTunnels EXCEPT ![u] = activeTunnels[u] \cup {sid[c]}]
  <2>1. Fresh(c) => resv[c] = u
    BY <1>1 DEF ControlInv, HasPlace, Owed
  <2>2. QED
    BY <2>1 DEF CountTunnel, Quota!ConfirmTunnel, Quota!RestoreTunnel
<1>8. /\ reservedTunnels' \in [Users -> Nat]
      /\ \A v \in Users : reservedTunnels'[v] = Cardinality(Holders(v)')
      /\ \A v \in Users : v # u => reservedTunnels'[v] = reservedTunnels[v]
      /\ reservedTunnels'[u] = IF Fresh(c) THEN reservedTunnels[u] - 1 ELSE reservedTunnels[u]
  <2>1. CASE Fresh(c)
    <3>1. resv[c] = u
      BY <1>1, <2>1 DEF ControlInv, HasPlace, Owed
    <3>2. reservedTunnels' = Quota!Unreserved(u)
      BY <2>1, <3>1 DEF CountTunnel, Quota!ConfirmTunnel
    <3>3. QED
      BY <1>3, <1>5, <2>1, <3>1, <3>2, PlaceReturned
  <2>2. CASE ~Fresh(c)
    <3>1. reservedTunnels' = reservedTunnels
      BY <2>2 DEF CountTunnel, Quota!RestoreTunnel
    <3>2. resv[c] = None
      BY <2>2 DEF ControlInv, HasPlace
    <3>3. resv' = resv
      BY <1>3, <3>2
    <3>4. \A v \in Users : Holders(v)' = Holders(v)
      BY <3>3 DEF Holders
    <3>5. \A v \in Users : reservedTunnels'[v] = Cardinality(Holders(v)')
      BY <3>1, <3>4, PlacesAre DEF ControlInv
    <3>6. QED
      BY <1>6, <2>2, <3>1, <3>5
  <2>3. QED
    BY <2>1, <2>2
<1>9. /\ activeTunnels' \in [Users -> SUBSET Sids]
      /\ activeTunnels'[u] = activeTunnels[u] \cup {sid[c]}
      /\ \A v \in Users : v # u => activeTunnels'[v] = activeTunnels[v]
  BY <1>5, <1>6, <1>7
<1>10. ControlTypeOK'
  BY <1>1, <1>2, <1>3, <1>4, <1>8, <1>9
  DEF ControlInv, ControlTypeOK, Undisturbed, ManagerInv
<1>11. HasMessage'
  BY <1>1, <1>2 DEF ControlInv, HasMessage, Fresh
<1>12. HasSession'
  BY <1>1, <1>2 DEF ControlInv, HasSession, Sessionless, Stages, Fresh, mvars
<1>13. HasPlace'
  BY <1>1, <1>2, <1>3 DEF ControlInv, HasPlace, Owed, Fresh, User
<1>14. NoGhostSession'
  BY <1>1, <1>2, NoGhostKept DEF ControlInv, mvars, Holding
<1>15. PeerTable'
  BY <1>1, <1>2, PeersKept DEF ControlInv, Peered
<1>16. PlacesHeld'
  <2>1. ASSUME NEW v \in Users, NEW s \in activeTunnels'[v]
        PROVE  \E g \in Conns : sid'[g] = s /\ pc'[g] \in Counted /\ User(g)' = v
    <3>1. CASE s \in activeTunnels[v]
      BY <1>1, <1>2, <2>1, <3>1, PlacesAre DEF ControlInv, Counted, User
    <3>2. CASE s \notin activeTunnels[v]
      <4>1. v = u /\ s = sid[c]
        BY <1>9, <2>1, <3>2
      <4>2. User(c)' = User(c)
        BY <1>2 DEF User
      <4>3. QED
        BY <1>1, <1>2, <4>1, <4>2 DEF Counted
    <3>3. QED
      BY <3>1, <3>2
  <2>2. QED
    BY <1>8, <2>1 DEF PlacesHeld, Holders
<1>17. FreshTunnelsWithinPlan'
  <2>1. SUFFICES ASSUME MaxActiveTunnels > 0, NEW v \in Users
                 PROVE  Cardinality(FreshTunnels(v)') + reservedTunnels'[v] <= MaxActiveTunnels
    BY DEF FreshTunnelsWithinPlan
  <2>2. /\ IsFiniteSet(FreshTunnels(v)) /\ Cardinality(FreshTunnels(v)) \in Nat
        /\ reservedTunnels[v] \in Nat
    BY <1>6, FreshFinite, FS_CardinalityType DEF ControlInv
  <2>3. Cardinality(FreshTunnels(v)) + reservedTunnels[v] <= MaxActiveTunnels
    BY <2>1 DEF ControlInv, FreshTunnelsWithinPlan
  <2>4. CASE v # u \/ ~Fresh(c)
    <3>1. FreshTunnels(v)' \subseteq FreshTunnels(v)
      BY <1>2, <1>9, <2>4 DEF FreshTunnels, Fresh
    <3>2. /\ Cardinality(FreshTunnels(v)') <= Cardinality(FreshTunnels(v))
          /\ Cardinality(FreshTunnels(v)') \in Nat
      BY <2>2, <3>1, FS_Subset, FS_CardinalityType
    <3>3. reservedTunnels'[v] = reservedTunnels[v]
      BY <1>8, <2>4
    <3>4. QED
      BY <2>2, <2>3, <3>2, <3>3
  <2>5. CASE v = u /\ Fresh(c)
    <3>1. FreshTunnels(v)' \subseteq FreshTunnels(v) \cup {sid[c]}
      BY <1>2, <1>9, <2>5 DEF FreshTunnels, Fresh
    <3>2. /\ IsFiniteSet(FreshTunnels(v) \cup {sid[c]})
          /\ Cardinality(FreshTunnels(v) \cup {sid[c]}) <= Cardinality(FreshTunnels(v)) + 1
      <4>1. /\ IsFiniteSet(FreshTunnels(v) \cup {sid[c]})
            /\ Cardinality(FreshTunnels(v) \cup {sid[c]}) =
                 IF sid[c] \in FreshTunnels(v) THEN Cardinality(FreshTunnels(v))
                                               ELSE Cardinality(FreshTunnels(v)) + 1
        BY <2>2, FS_AddElement
      <4>2. QED
        BY <2>2, <4>1
    <3>3. /\ Cardinality(FreshTunnels(v)') <= Cardinality(FreshTunnels(v) \cup {sid[c]})
          /\ Cardinality(FreshTunnels(v)') \in Nat
          /\ Cardinality(FreshTunnels(v) \cup {sid[c]}) \in Nat
      BY <3>1, <3>2, FS_Subset, FS_CardinalityType
    <3>4. reservedTunnels'[v] = reservedTunnels[v] - 1
      BY <1>8, <2>5
    <3>5. QED
      BY <2>2, <2>3, <3>2, <3>3, <3>4
  <2>6. QED
    BY <2>4, <2>5
<1>18. Forwarding'
  BY <1>2, <1>4, ForwardingKept DEF ControlInv, Undisturbed
<1>19. QED
  BY <1>4, <1>10, <1>11, <1>12, <1>13, <1>14, <1>15, <1>16, <1>17, <1>18
  DEF ControlInv, Undisturbed

\* The last step of the cleanup takes the tunnel off its user's plan, so that the
\* handler that ends leaves nothing it alone answered for.
LEMMA CloseTunnelKeeps ==
  ASSUME ControlInv, NEW c \in Conns, CloseTunnel(c)
  PROVE  ControlInv'
<1> USE ManagerAssumption, ControlAssumption
<1> DEFINE u == User(c)
<1>1. /\ pc' \in [Conns \cup Calls -> Stages]
      /\ pc'[c] = "done" /\ pc[c] = "detached"
      /\ \A g \in Conns \cup Calls : g # c => pc'[g] = pc[g]
  BY Moved DEF CloseTunnel, ControlInv, Stages
<1>2. /\ UNCHANGED <<mvars, req, sub, sid, resv, peers, told, fwd, reservedTunnels>>
      /\ open' \subseteq open
  BY DEF CloseTunnel, Quota!TrackTunnelClosed
<1>3. activeTunnels' = [activeTunnels EXCEPT ![u] = activeTunnels[u] \ {sid[c]}]
  BY DEF CloseTunnel, Quota!TrackTunnelClosed
<1>4. Undisturbed
  BY <1>2, ManagerAlone DEF ControlInv, Undisturbed, SidsKept
<1>5. u \in Users /\ activeTunnels \in [Users -> SUBSET Sids]
  BY <1>1, UserIsUser DEF ControlInv, ControlTypeOK
<1>6. /\ activeTunnels' \in [Users -> SUBSET Sids]
      /\ activeTunnels'[u] = activeTunnels[u] \ {sid[c]}
      /\ \A v \in Users : activeTunnels'[v] \subseteq activeTunnels[v]
  BY <1>3, <1>5
<1>7. ControlTypeOK'
  BY <1>1, <1>2, <1>4, <1>6 DEF ControlInv, ControlTypeOK, Undisturbed, ManagerInv
<1>8. HasMessage'
  BY <1>1, <1>2 DEF ControlInv, HasMessage, Fresh
<1>9. HasSession'
  BY <1>1, <1>2 DEF ControlInv, HasSession, Sessionless, Stages, Fresh, mvars
<1>10. HasPlace'
  BY <1>1, <1>2 DEF ControlInv, HasPlace, Owed, Fresh, User
<1>11. NoGhostSession'
  BY <1>1, <1>2, NoGhostKept DEF ControlInv, mvars, Holding
<1>12. PeerTable'
  BY <1>1, <1>2, PeersKept DEF ControlInv, Peered
<1>13. PlacesHeld'
  <2>1. \A v \in Users : Holders(v)' = Holders(v)
    BY <1>2 DEF Holders
  <2>2. ASSUME NEW v \in Users, NEW s \in activeTunnels'[v]
        PROVE  \E g \in Conns : sid'[g] = s /\ pc'[g] \in Counted /\ User(g)' = v
    <3>1. PICK g \in Conns : sid[g] = s /\ pc[g] \in Counted /\ User(g) = v
      BY <1>6, <2>2, PlacesAre DEF ControlInv
    <3>2. g # c
      BY <1>6, <2>2, <3>1
    <3>3. User(g)' = User(g)
      BY <1>2 DEF User
    <3>4. QED
      BY <1>1, <1>2, <3>1, <3>2, <3>3
  <2>3. QED
    BY <1>2, <2>1, <2>2, PlacesAre DEF ControlInv, PlacesHeld, Holders
<1>14. FreshTunnelsWithinPlan'
  <2>1. SUFFICES ASSUME MaxActiveTunnels > 0, NEW v \in Users
                 PROVE  Cardinality(FreshTunnels(v)') + reservedTunnels'[v] <= MaxActiveTunnels
    BY DEF FreshTunnelsWithinPlan
  <2>2. FreshTunnels(v)' \subseteq FreshTunnels(v)
    BY <1>2, <1>6 DEF FreshTunnels, Fresh
  <2>3. /\ Cardinality(FreshTunnels(v)') <= Cardinality(FreshTunnels(v))
        /\ Cardinality(FreshTunnels(v)') \in Nat /\ Cardinality(FreshTunnels(v)) \in Nat
    BY <2>2, FreshFinite, FS_Subset, FS_CardinalityType DEF ControlInv
  <2>4. Cardinality(FreshTunnels(v)) + reservedTunnels[v] <= MaxActiveTunnels
    BY <2>1 DEF ControlInv, FreshTunnelsWithinPlan
  <2>5. reservedTunnels[v] \in Nat /\ reservedTunnels'[v] = reservedTunnels[v]
    BY <1>2 DEF ControlInv, ControlTypeOK
  <2>6. QED
    BY <2>3, <2>4, <2>5
<1>15. Forwarding'
  BY <1>2, <1>4, ForwardingKept DEF ControlInv, Undisturbed
<1>16. QED
  BY <1>4, <1>7, <1>8, <1>9, <1>10, <1>11, <1>12, <1>13, <1>14, <1>15
  DEF ControlInv, Undisturbed

-----------------------------------------------------------------------------
(* Sessions and peers.                                                     *)

\* The plan and the requests are not concerned by a step that neither touches the
\* quota nor ends the handler of a counted tunnel.
LEMMA PlanUntouched ==
  ASSUME ControlInv, Undisturbed, UNCHANGED <<qvars, resv, req, fwd>>,
         \A c \in Conns : pc[c] \in Counted => pc'[c] \in Counted
  PROVE  PlacesHeld' /\ FreshTunnelsWithinPlan' /\ Forwarding'
<1>1. \A c \in Conns : pc[c] \in Counted => sid[c] # None
  BY DEF ControlInv, HasSession, Counted, Stages, Sessionless
<1>2. \A c \in Conns : pc[c] \in Counted => sid'[c] = sid[c]
  BY <1>1 DEF Undisturbed, SidsKept
<1>3. PlacesHeld'
  BY <1>2, PlacesKept DEF ControlInv
<1>4. FreshTunnelsWithinPlan'
  BY FreshKept DEF ControlInv, Undisturbed
<1>5. Forwarding'
  BY ForwardingKept DEF ControlInv, Undisturbed
<1>6. QED
  BY <1>3, <1>4, <1>5

\* A step that leaves the handlers' sessions alone leaves the rest of the manager
\* and of the requests to SessionManager.
LEMMA ManagerStep ==
  ASSUME ControlInv, AnyStep, SidsKept
  PROVE  Undisturbed
BY StepManages, NextInv, ManagerKeeps DEF ControlInv, Undisturbed

\* allocateSubdomain finds a label and claims nothing.
LEMMA AllocateKeeps ==
  ASSUME ControlInv, NEW h \in Conns \cup Calls, Allocate(h)
  PROVE  ControlInv'
<1> USE ManagerAssumption, ControlAssumption
<1>1. /\ pc' \in [Conns \cup Calls -> Stages]
      /\ pc'[h] = "allocated"
      /\ \A g \in Conns \cup Calls : g # h => pc'[g] = pc[g]
  BY Moved DEF Allocate, ControlInv, Stages
<1>2. UNCHANGED <<mvars, qvars, req, sid, resv, open, peers, told, fwd>>
  BY DEF Allocate
<1>3. PICK d \in Subdomains : sub' = [sub EXCEPT ![h] = d]
  BY DEF Allocate
<1>4. /\ sub' \in [Conns \cup Calls -> Subdomains \cup {None}]
      /\ sub'[h] # None
      /\ \A g \in Conns \cup Calls : g # h => sub'[g] = sub[g]
  BY <1>3 DEF ControlInv, ControlTypeOK
<1>5. h \in Conns => pc[h] = "reserved" /\ Fresh(h)
  BY DEF Allocate
<1>6. Undisturbed
  BY <1>2, ManagerAlone DEF ControlInv, Undisturbed, SidsKept
<1>7. ControlTypeOK'
  BY <1>1, <1>2, <1>4, <1>6 DEF ControlInv, ControlTypeOK, Undisturbed, ManagerInv, qvars
<1>8. HasMessage'
  BY <1>1, <1>2, <1>4, <1>5 DEF ControlInv, HasMessage, Fresh
<1>9. HasSession'
  BY <1>1, <1>2, <1>5 DEF ControlInv, HasSession, Sessionless, Stages, Fresh, mvars
<1>10. HasPlace'
  BY <1>1, <1>2, <1>5 DEF ControlInv, HasPlace, Owed, Fresh, User
<1>11. NoGhostSession'
  BY <1>1, <1>2, <1>5, NoGhostKept DEF ControlInv, mvars, Holding
<1>12. PeerTable'
  BY <1>1, <1>2, <1>5, PeersKept DEF ControlInv, Peered
<1>13. PlacesHeld' /\ FreshTunnelsWithinPlan' /\ Forwarding'
  <2>1. \A c \in Conns : pc[c] \in Counted => pc'[c] \in Counted
    BY <1>1, <1>5 DEF Counted
  <2>2. QED
    BY <1>2, <1>6, <2>1, PlanUntouched
<1>14. QED
  BY <1>6, <1>7, <1>8, <1>9, <1>10, <1>11, <1>12, <1>13 DEF ControlInv, Undisturbed

\* A resumed session is held by the handler that resumed it.
LEMMA ResumeKeeps ==
  ASSUME ControlInv, NEW c \in Conns, Resume(c)
  PROVE  ControlInv'
<1> USE ManagerAssumption, ControlAssumption
<1> DEFINE s == req[c].resume
<1>1. /\ pc' \in [Conns \cup Calls -> Stages]
      /\ pc'[c] = "stored" /\ pc[c] = "reserved"
      /\ \A g \in Conns \cup Calls : g # c => pc'[g] = pc[g]
  BY Moved DEF Resume, ControlInv, Stages
<1>2. UNCHANGED <<qvars, req, sub, resv, open, peers, told, fwd>> /\ ~Fresh(c)
  BY DEF Resume
<1>3. PICK saved \in BOOLEAN :
        ResumeTunnel(req[c].resume, c, req[c].token, req[c].principal, req[c].shape, saved)
  BY DEF Resume
<1>4. req[c] \in RegisterMsg /\ s \in Sids /\ sessions[s] # None
  <2>1. Known(s) /\ req[c] \in RegisterMsg
    BY <1>1, <1>3 DEF ResumeTunnel, CanResume, ControlInv, HasMessage
  <2>2. QED
    BY <2>1 DEF Known, RegisterMsg
<1>5. sid[c] = None /\ s \in issued
  BY <1>1, <1>4 DEF ControlInv, ManagerInv, KnownIssued, HasSession, Sessionless
<1>6. /\ sid' \in [Conns -> Sids \cup {None}]
      /\ sid'[c] = s
      /\ \A g \in Conns : g # c => sid'[g] = sid[g]
  BY <1>4 DEF Resume, ControlInv, ControlTypeOK
<1>7. SidsKept
  BY <1>5, <1>6 DEF SidsKept
<1>8. Undisturbed
  <2>1. AnyStep
    BY DEF AnyStep, Handle
  <2>2. QED
    BY <1>7, <2>1, ManagerStep
<1>9. ControlTypeOK'
  BY <1>1, <1>2, <1>6, <1>8 DEF ControlInv, ControlTypeOK, Undisturbed, ManagerInv, qvars
<1>10. HasMessage'
  BY <1>1, <1>2 DEF ControlInv, HasMessage, Fresh
<1>11. HasSession'
  BY <1>1, <1>2, <1>4, <1>5, <1>6, <1>8
  DEF ControlInv, HasSession, Sessionless, Stages, Fresh, Undisturbed, RecordsKept
<1>12. HasPlace'
  BY <1>1, <1>2 DEF ControlInv, HasPlace, Owed, Fresh, User
<1>13. NoGhostSession'
  <2>1. ASSUME NEW t \in Sids, Connected(t)'
        PROVE  \E g \in Conns : sid'[g] = t /\ pc'[g] \in Holding
    <3>1. CASE t = s
      BY <1>1, <1>6, <3>1 DEF Holding
    <3>2. CASE t # s
      <4>1. sessions'[t] = sessions[t]
        BY <1>3, <1>4, <3>2 DEF ResumeTunnel, ControlInv, ControlTypeOK, ManagerTypeOK
      <4>2. PICK g \in Conns : sid[g] = t /\ pc[g] \in Holding
        BY <2>1, <4>1 DEF Connected, Known, ControlInv, NoGhostSession
      <4>3. QED
        BY <1>1, <1>6, <4>2 DEF Holding
    <3>3. QED
      BY <3>1, <3>2
  <2>2. QED
    BY <2>1 DEF NoGhostSession
<1>14. PeerTable'
  BY <1>1, <1>2, <1>6, PeersKept DEF ControlInv, Peered
<1>15. PlacesHeld' /\ FreshTunnelsWithinPlan' /\ Forwarding'
  BY <1>1, <1>2, <1>8, PlanUntouched DEF Counted
<1>16. QED
  BY <1>8, <1>9, <1>10, <1>11, <1>12, <1>13, <1>14, <1>15 DEF ControlInv, Undisturbed

\* A stored session is held by the handler that registered it, one created over HTTP
\* is not connected, and the session whose host was taken is gone.
LEMMA StoreKeeps ==
  ASSUME ControlInv, NEW h \in Conns \cup Calls, Store(h)
  PROVE  ControlInv'
<1> USE ManagerAssumption, ControlAssumption
<1> DEFINE new == NewSession(h)
<1>1. /\ pc' \in [Conns \cup Calls -> Stages]
      /\ pc'[h] = (IF h \in Conns THEN "stored" ELSE "done") /\ pc[h] = "allocated"
      /\ \A g \in Conns \cup Calls : g # h => pc'[g] = pc[g]
  BY Moved DEF Store, ControlInv, Stages
<1>2. UNCHANGED <<qvars, req, sub, resv, open, peers, told, fwd>>
  BY DEF Store
<1>3. PICK s \in Sids : /\ StoreSession(s, new)
                        /\ sid' = IF h \in Conns THEN [sid EXCEPT ![h] = s] ELSE sid
  BY DEF Store
<1>4. h \in Conns => sid[h] = None /\ Fresh(h) /\ req[h] \in RegisterMsg
  BY <1>1 DEF ControlInv, HasSession, HasMessage, Sessionless
<1>5. /\ sid' \in [Conns -> Sids \cup {None}]
      /\ h \in Conns => sid'[h] = s
      /\ \A g \in Conns : g # h => sid'[g] = sid[g]
  BY <1>3 DEF ControlInv, ControlTypeOK
<1>6. SidsKept
  BY <1>4, <1>5 DEF SidsKept
<1>7. Undisturbed
  <2>1. AnyStep
    BY DEF AnyStep, StoreSteps
  <2>2. QED
    BY <1>6, <2>1, ManagerStep
<1>8. s \in issued'
  BY <1>3 DEF StoreSession, Draw
<1>9. ControlTypeOK'
  BY <1>1, <1>2, <1>5, <1>7 DEF ControlInv, ControlTypeOK, Undisturbed, ManagerInv, qvars
<1>10. HasMessage'
  BY <1>1, <1>2 DEF ControlInv, HasMessage, Fresh
<1>11. HasSession'
  BY <1>1, <1>2, <1>4, <1>5, <1>7, <1>8
  DEF ControlInv, HasSession, Sessionless, Stages, Fresh, Undisturbed, RecordsKept
<1>12. HasPlace'
  BY <1>1, <1>2 DEF ControlInv, HasPlace, Owed, Fresh, User
<1>13. NoGhostSession'
  <2>1. /\ sessions'[s] = new
        /\ \A t \in Sids : t # s => sessions'[t] = None \/ sessions'[t] = sessions[t]
    BY <1>3 DEF StoreSession, Evicted
  <2>2. ASSUME NEW t \in Sids, Connected(t)'
        PROVE  \E g \in Conns : sid'[g] = t /\ pc'[g] \in Holding
    <3>1. CASE t = s
      <4>1. new.connection = "connected"
        BY <2>1, <2>2, <3>1 DEF Connected
      <4>2. h \in Conns
        BY <4>1 DEF NewSession
      <4>3. QED
        BY <1>1, <1>5, <3>1, <4>2 DEF Holding
    <3>2. CASE t # s
      <4>1. sessions'[t] = sessions[t]
        BY <2>1, <2>2, <3>2 DEF Connected, Known
      <4>2. PICK g \in Conns : sid[g] = t /\ pc[g] \in Holding
        BY <2>2, <4>1 DEF Connected, Known, ControlInv, NoGhostSession
      <4>3. QED
        BY <1>1, <1>5, <4>2 DEF Holding
    <3>3. QED
      BY <3>1, <3>2
  <2>3. QED
    BY <2>2 DEF NoGhostSession
<1>14. PeerTable'
  BY <1>1, <1>2, <1>5, PeersKept DEF ControlInv, Peered
<1>15. PlacesHeld' /\ FreshTunnelsWithinPlan' /\ Forwarding'
  BY <1>1, <1>2, <1>7, PlanUntouched DEF Counted
<1>16. QED
  BY <1>7, <1>9, <1>10, <1>11, <1>12, <1>13, <1>14, <1>15 DEF ControlInv, Undisturbed

\* A session that could not be stored may have evicted another one, never a
\* connected one.
LEMMA NotStoredKeeps ==
  ASSUME ControlInv, NEW h \in Conns \cup Calls, NotStored(h)
  PROVE  ControlInv'
<1> USE ManagerAssumption, ControlAssumption
<1>1. /\ pc' \in [Conns \cup Calls -> Stages]
      /\ pc'[h] = (IF h \in Conns THEN "failed" ELSE "done") /\ pc[h] = "allocated"
      /\ \A g \in Conns \cup Calls : g # h => pc'[g] = pc[g]
  BY Moved DEF NotStored, ControlInv, Stages
<1>2. UNCHANGED <<qvars, req, sub, sid, resv, open, peers, told, fwd>>
  BY DEF NotStored
<1>3. Undisturbed
  <2>1. AnyStep
    BY DEF AnyStep, StoreSteps
  <2>2. QED
    BY <1>2, <2>1, ManagerStep DEF SidsKept
<1>4. ControlTypeOK'
  BY <1>1, <1>2, <1>3 DEF ControlInv, ControlTypeOK, Undisturbed, ManagerInv, qvars
<1>5. HasMessage'
  BY <1>1, <1>2 DEF ControlInv, HasMessage, Fresh
<1>6. HasSession'
  BY <1>1, <1>2, <1>3
  DEF ControlInv, HasSession, Sessionless, Stages, Fresh, Undisturbed, RecordsKept
<1>7. HasPlace'
  BY <1>1, <1>2 DEF ControlInv, HasPlace, Owed, Fresh, User
<1>8. NoGhostSession'
  <2>1. \A t \in Sids : sessions'[t] = None \/ sessions'[t] = sessions[t]
    BY DEF NotStored, StoreUnsaved, StoreConflict, Evicted
  <2>2. ASSUME NEW t \in Sids, Connected(t)'
        PROVE  \E g \in Conns : sid'[g] = t /\ pc'[g] \in Holding
    <3>1. PICK g \in Conns : sid[g] = t /\ pc[g] \in Holding
      BY <2>1, <2>2 DEF Connected, Known, ControlInv, NoGhostSession
    <3>2. QED
      BY <1>1, <1>2, <3>1 DEF Holding
  <2>3. QED
    BY <2>2 DEF NoGhostSession
<1>9. PeerTable'
  BY <1>1, <1>2, PeersKept DEF ControlInv, Peered
<1>10. PlacesHeld' /\ FreshTunnelsWithinPlan' /\ Forwarding'
  BY <1>1, <1>2, <1>3, PlanUntouched DEF Counted
<1>11. QED
  BY <1>3, <1>4, <1>5, <1>6, <1>7, <1>8, <1>9, <1>10 DEF ControlInv, Undisturbed

\* addPeer takes the entry of its session, and closes the connection of whoever had
\* it: of those with that session only the newest stays open.
LEMMA AddPeerKeeps ==
  ASSUME ControlInv, NEW c \in Conns, AddPeer(c)
  PROVE  ControlInv'
<1> USE ManagerAssumption, ControlAssumption
<1> DEFINE s == sid[c]
<1>1. /\ pc' \in [Conns \cup Calls -> Stages]
      /\ pc'[c] = "peered" /\ pc[c] = "stored"
      /\ \A g \in Conns \cup Calls : g # c => pc'[g] = pc[g]
  BY Moved DEF AddPeer, ControlInv, Stages
<1>2. UNCHANGED <<mvars, qvars, req, sub, sid, resv, told, fwd>>
  BY DEF AddPeer
<1>3. s \in Sids
  BY <1>1 DEF ControlInv, ControlTypeOK, HasSession, Stages, Sessionless
<1>4. /\ peers' \in [Sids -> Conns \cup {None}]
      /\ peers'[s] = c
      /\ \A t \in Sids : t # s => peers'[t] = peers[t]
  BY <1>3 DEF AddPeer, ControlInv, ControlTypeOK
<1>5. open' = open \ ({peers[s]} \ {c})
  BY DEF AddPeer
<1>6. Undisturbed
  BY <1>2, ManagerAlone DEF ControlInv, Undisturbed, SidsKept
<1>7. ControlTypeOK'
  BY <1>1, <1>2, <1>4, <1>5, <1>6 DEF ControlInv, ControlTypeOK, Undisturbed, ManagerInv, qvars
<1>8. HasMessage'
  BY <1>1, <1>2 DEF ControlInv, HasMessage, Fresh
<1>9. HasSession'
  BY <1>1, <1>2 DEF ControlInv, HasSession, Sessionless, Stages, Fresh, mvars
<1>10. HasPlace'
  BY <1>1, <1>2 DEF ControlInv, HasPlace, Owed, Fresh, User
<1>11. NoGhostSession'
  BY <1>1, <1>2, NoGhostKept DEF ControlInv, mvars, Holding
<1>12. PeerTable'
  <2>1. ASSUME NEW t \in Sids, peers'[t] # None
        PROVE  sid'[peers'[t]] = t /\ pc'[peers'[t]] \in Peered
    <3>1. CASE t = s
      BY <1>1, <1>2, <1>4, <3>1 DEF Peered
    <3>2. CASE t # s
      <4>1. peers'[t] = peers[t] /\ peers[t] \in Conns
        BY <1>4, <2>1, <3>2 DEF ControlInv, ControlTypeOK
      <4>2. sid[peers[t]] = t /\ pc[peers[t]] \in Peered
        BY <2>1, <4>1 DEF ControlInv, PeerTable
      <4>3. QED
        BY <1>1, <1>2, <4>1, <4>2 DEF Peered
    <3>3. QED
      BY <3>1, <3>2
  <2>2. ASSUME NEW g \in Conns, pc'[g] \in Peered, g \in open'
        PROVE  peers'[sid'[g]] = g
    <3>1. CASE g = c
      BY <1>2, <1>4, <3>1
    <3>2. CASE g # c
      <4>1. peers[sid[g]] = g /\ sid[g] \in Sids
        <5>1. pc[g] \in Peered /\ g \in open
          BY <1>1, <1>5, <2>2, <3>2
        <5>2. QED
          BY <5>1 DEF ControlInv, PeerTable, ControlTypeOK, HasSession, Peered, Stages, Sessionless
      <4>2. sid[g] # s
        BY <1>5, <2>2, <3>2, <4>1
      <4>3. QED
        BY <1>2, <1>4, <4>1, <4>2
    <3>3. QED
      BY <3>1, <3>2
  <2>3. QED
    BY <2>1, <2>2 DEF PeerTable
<1>13. PlacesHeld' /\ FreshTunnelsWithinPlan' /\ Forwarding'
  BY <1>1, <1>2, <1>6, PlanUntouched DEF Counted
<1>14. QED
  BY <1>6, <1>7, <1>8, <1>9, <1>10, <1>11, <1>12, <1>13 DEF ControlInv, Undisturbed

\* removePeer takes away its own entry only.
LEMMA RemovePeerKeeps ==
  ASSUME ControlInv, NEW c \in Conns, RemovePeer(c)
  PROVE  ControlInv'
<1> USE ManagerAssumption, ControlAssumption
<1> DEFINE s == sid[c]
<1>1. /\ pc' \in [Conns \cup Calls -> Stages]
      /\ pc'[c] = "removed" /\ pc[c] = "closing"
      /\ \A g \in Conns \cup Calls : g # c => pc'[g] = pc[g]
  BY Moved DEF RemovePeer, ControlInv, Stages
<1>2. UNCHANGED <<mvars, qvars, req, sub, sid, resv, open, told, fwd>>
  BY DEF RemovePeer
<1>3. s \in Sids
  BY <1>1 DEF ControlInv, ControlTypeOK, HasSession, Stages, Sessionless
<1>4. /\ peers' \in [Sids -> Conns \cup {None}]
      /\ peers'[s] = IF peers[s] = c THEN None ELSE peers[s]
      /\ \A t \in Sids : t # s => peers'[t] = peers[t]
  BY <1>3 DEF RemovePeer, ControlInv, ControlTypeOK
<1>5. Undisturbed
  BY <1>2, ManagerAlone DEF ControlInv, Undisturbed, SidsKept
<1>6. ControlTypeOK'
  BY <1>1, <1>2, <1>4, <1>5 DEF ControlInv, ControlTypeOK, Undisturbed, ManagerInv, qvars
<1>7. HasMessage'
  BY <1>1, <1>2 DEF ControlInv, HasMessage, Fresh
<1>8. HasSession'
  BY <1>1, <1>2 DEF ControlInv, HasSession, Sessionless, Stages, Fresh, mvars
<1>9. HasPlace'
  BY <1>1, <1>2 DEF ControlInv, HasPlace, Owed, Fresh, User
<1>10. NoGhostSession'
  BY <1>1, <1>2, NoGhostKept DEF ControlInv, mvars, Holding
<1>11. PeerTable'
  <2>1. ASSUME NEW t \in Sids, peers'[t] # None
        PROVE  sid'[peers'[t]] = t /\ pc'[peers'[t]] \in Peered
    <3>1. peers'[t] = peers[t] /\ peers[t] \in Conns
      BY <1>4, <2>1 DEF ControlInv, ControlTypeOK
    <3>2. sid[peers[t]] = t /\ pc[peers[t]] \in Peered
      BY <2>1, <3>1 DEF ControlInv, PeerTable
    <3>3. peers[t] # c
      BY <1>4, <2>1, <3>1, <3>2
    <3>4. QED
      BY <1>1, <1>2, <3>1, <3>2, <3>3
  <2>2. ASSUME NEW g \in Conns, pc'[g] \in Peered, g \in open'
        PROVE  peers'[sid'[g]] = g
    <3>1. g # c /\ pc[g] \in Peered /\ g \in open
      BY <1>1, <1>2, <2>2 DEF Peered
    <3>2. peers[sid[g]] = g /\ sid[g] \in Sids
      BY <3>1 DEF ControlInv, PeerTable, ControlTypeOK, HasSession, Peered, Stages, Sessionless
    <3>3. QED
      BY <1>2, <1>4, <3>1, <3>2
  <2>3. QED
    BY <2>1, <2>2 DEF PeerTable
<1>12. PlacesHeld' /\ FreshTunnelsWithinPlan' /\ Forwarding'
  BY <1>1, <1>2, <1>5, PlanUntouched DEF Counted
<1>13. QED
  BY <1>5, <1>6, <1>7, <1>8, <1>9, <1>10, <1>11, <1>12 DEF ControlInv, Undisturbed

\* A ping connects a session that a handler still holds, its own.
LEMMA PingKeeps ==
  ASSUME ControlInv, NEW c \in Conns, Ping(c)
  PROVE  ControlInv'
<1> USE ManagerAssumption, ControlAssumption
<1>1. UNCHANGED <<qvars, hvars, fwd>> /\ pc[c] = "serving"
  BY DEF Ping
<1>2. UNCHANGED <<pc, req, sub, sid, resv, open, peers, told>>
  BY <1>1 DEF hvars
<1>3. Undisturbed
  <2>1. AnyStep
    BY DEF AnyStep, Handle
  <2>2. QED
    BY <1>2, <2>1, ManagerStep DEF SidsKept
<1>4. ControlTypeOK'
  BY <1>1, <1>2, <1>3 DEF ControlInv, ControlTypeOK, Undisturbed, ManagerInv, qvars
<1>5. HasMessage'
  BY <1>2 DEF ControlInv, HasMessage, Fresh
<1>6. HasSession'
  BY <1>2, <1>3
  DEF ControlInv, HasSession, Sessionless, Stages, Fresh, Undisturbed, RecordsKept
<1>7. HasPlace'
  BY <1>2 DEF ControlInv, HasPlace, Owed, Fresh, User
<1>8. NoGhostSession'
  <2>1. PICK saved \in BOOLEAN : TouchHeartbeat(sid[c], saved)
    BY DEF Ping
  <2>2. \A t \in Sids : t # sid[c] => sessions'[t] = sessions[t]
    BY <2>1 DEF TouchHeartbeat, ControlInv, ControlTypeOK, ManagerTypeOK
  <2>3. ASSUME NEW t \in Sids, Connected(t)'
        PROVE  \E g \in Conns : sid'[g] = t /\ pc'[g] \in Holding
    <3>1. CASE t = sid[c]
      BY <1>1, <1>2, <3>1 DEF Holding
    <3>2. CASE t # sid[c]
      BY <1>2, <2>2, <2>3, <3>2 DEF Connected, Known, ControlInv, NoGhostSession
    <3>3. QED
      BY <3>1, <3>2
  <2>4. QED
    BY <2>3 DEF NoGhostSession
<1>9. PeerTable'
  BY <1>2, PeersKept DEF ControlInv
<1>10. PlacesHeld' /\ FreshTunnelsWithinPlan' /\ Forwarding'
  BY <1>1, <1>2, <1>3, PlanUntouched
<1>11. QED
  BY <1>3, <1>4, <1>5, <1>6, <1>7, <1>8, <1>9, <1>10 DEF ControlInv, Undisturbed

\* The cleanup detaches its session before it stops holding it.
LEMMA DetachKeeps ==
  ASSUME ControlInv, NEW c \in Conns, Detach(c)
  PROVE  ControlInv'
<1> USE ManagerAssumption, ControlAssumption
<1>1. /\ pc' \in [Conns \cup Calls -> Stages]
      /\ pc'[c] = "detached" /\ pc[c] = "removed"
      /\ \A g \in Conns \cup Calls : g # c => pc'[g] = pc[g]
  BY Moved DEF Detach, ControlInv, Stages
<1>2. UNCHANGED <<qvars, req, sub, sid, resv, open, peers, told, fwd>>
  BY DEF Detach
<1>3. Undisturbed
  <2>1. AnyStep
    BY DEF AnyStep, Handle
  <2>2. QED
    BY <1>2, <2>1, ManagerStep DEF SidsKept
<1>4. ControlTypeOK'
  BY <1>1, <1>2, <1>3 DEF ControlInv, ControlTypeOK, Undisturbed, ManagerInv, qvars
<1>5. HasMessage'
  BY <1>1, <1>2 DEF ControlInv, HasMessage, Fresh
<1>6. HasSession'
  BY <1>1, <1>2, <1>3
  DEF ControlInv, HasSession, Sessionless, Stages, Fresh, Undisturbed, RecordsKept
<1>7. HasPlace'
  BY <1>1, <1>2 DEF ControlInv, HasPlace, Owed, Fresh, User
<1>8. NoGhostSession'
  <2>1. PICK saved \in BOOLEAN : DetachConnection(sid[c], saved)
    BY DEF Detach
  <2>2. sessions \in [Sids -> Session \cup {None}] /\ sid[c] \in Sids
    BY <1>1
    DEF ControlInv, ControlTypeOK, ManagerTypeOK, HasSession, Stages, Sessionless
  <2>3. ~Connected(sid[c])' /\ \A t \in Sids : t # sid[c] => sessions'[t] = sessions[t]
    <3>1. CASE Known(sid[c])
      <4>1. sessions' = [sessions EXCEPT ![sid[c]] =
                           [@ EXCEPT !.connection = "disconnected", !.conn = None]]
        BY <2>1, <3>1 DEF DetachConnection
      <4>2. sessions[sid[c]] \in Session
        BY <2>2, <3>1 DEF Known
      <4>3. sessions'[sid[c]].connection = "disconnected"
        BY <2>2, <4>1, <4>2 DEF Session
      <4>4. sid'[c] = sid[c]
        BY <1>2
      <4>5. QED
        BY <2>2, <4>1, <4>3, <4>4 DEF Connected
    <3>2. CASE ~Known(sid[c])
      BY <1>2, <2>1, <3>2 DEF DetachConnection, mvars, Connected, Known
    <3>3. QED
      BY <3>1, <3>2
  <2>4. ASSUME NEW t \in Sids, Connected(t)'
        PROVE  \E g \in Conns : sid'[g] = t /\ pc'[g] \in Holding
    <3>1. t # sid[c]
      BY <1>2, <2>3, <2>4
    <3>2. PICK g \in Conns : sid[g] = t /\ pc[g] \in Holding
      BY <2>3, <2>4, <3>1 DEF Connected, Known, ControlInv, NoGhostSession
    <3>3. g # c
      BY <3>1, <3>2
    <3>4. QED
      BY <1>1, <1>2, <3>2, <3>3
  <2>5. QED
    BY <2>4 DEF NoGhostSession
<1>9. PeerTable'
  BY <1>1, <1>2, PeersKept DEF ControlInv, Peered
<1>10. PlacesHeld' /\ FreshTunnelsWithinPlan' /\ Forwarding'
  BY <1>1, <1>2, <1>3, PlanUntouched DEF Counted
<1>11. QED
  BY <1>3, <1>4, <1>5, <1>6, <1>7, <1>8, <1>9, <1>10 DEF ControlInv, Undisturbed

-----------------------------------------------------------------------------
(* Requests, and the environment.                                          *)

\* A lookup changes only what its request knows.
LEMMA LookupKeeps ==
  ASSUME ControlInv, UNCHANGED <<mvars, qvars, hvars>>,
         fwd' \in [Requests -> Forward], Forwarding'
  PROVE  ControlInv'
<1>1. UNCHANGED <<pc, req, sub, sid, resv, open, peers, told>>
  BY DEF hvars
<1>2. Undisturbed
  BY <1>1, ManagerAlone DEF ControlInv, Undisturbed, SidsKept
<1>3. ControlTypeOK'
  BY <1>1, <1>2 DEF ControlInv, ControlTypeOK, Undisturbed, ManagerInv, qvars
<1>4. HasMessage' /\ HasSession' /\ HasPlace'
  BY <1>1 DEF ControlInv, HasMessage, HasSession, HasPlace, Fresh, User, mvars
<1>5. NoGhostSession' /\ PeerTable'
  BY <1>1, NoGhostKept, PeersKept DEF ControlInv, mvars
<1>6. PlacesHeld'
  BY <1>1, PlacesKept DEF ControlInv
<1>7. FreshTunnelsWithinPlan'
  BY <1>1, <1>2, FreshKept DEF ControlInv, Undisturbed
<1>8. QED
  BY <1>2, <1>3, <1>4, <1>5, <1>6, <1>7 DEF ControlInv, Undisturbed

\* The first lookup finds a session that owns the host, and is registered for it.
LEMMA LookupHostKeeps ==
  ASSUME ControlInv, NEW r \in Requests, NEW d \in Subdomains, LookupHost(r, d)
  PROVE  ControlInv'
<1> USE ManagerAssumption, ControlAssumption
<1> DEFINE s == Lookup(d)
<1>1. UNCHANGED <<mvars, qvars, hvars>> /\ fwd \in [Requests -> Forward]
  BY DEF LookupHost, ControlInv, ControlTypeOK
<1>2. UNCHANGED <<sid, issued, store>>
  BY <1>1 DEF hvars, mvars
<1>3. PICK f \in Forward :
        /\ fwd' = [fwd EXCEPT ![r] = f]
        /\ f.at # "sent"
        /\ f.at = "looked" => f.sid \in issued /\ store[f.sid] # None /\ store[f.sid].sub = f.host
  <2>1. CASE Connected(s) /\ sessions[s].shape \in HTTPShapes
    <3>1. s = route[d]
      BY <2>1, HolderIsRoute DEF ControlInv, ManagerInv, ManagerTypeOK, ActiveIffConnected, Lookup
    <3>2. s \in Sids /\ sessions[s] # None
      BY <2>1, <3>1 DEF Connected, Known, ControlInv, ManagerInv, ManagerTypeOK
    <3>3. sessions[s].sub = d
      BY <3>1, <3>2 DEF ControlInv, ManagerInv, RouteIndex
    <3>4. s \in issued /\ store[s] # None /\ store[s].sub = d
      BY <3>2, <3>3 DEF ControlInv, ManagerInv, KnownIssued, DurableBacked
    <3>5. [at |-> "looked", host |-> d, sid |-> s, peer |-> None] \in Forward
      BY <3>2 DEF Forward
    <3>6. fwd' = [fwd EXCEPT ![r] = [at |-> "looked", host |-> d, sid |-> s, peer |-> None]]
      BY <2>1 DEF LookupHost
    <3>7. QED
      BY <3>4, <3>5, <3>6
  <2>2. CASE ~(Connected(s) /\ sessions[s].shape \in HTTPShapes)
    <3>1. fwd' = [fwd EXCEPT ![r] = [fwd[r] EXCEPT !.at = "refused"]]
      BY <1>1, <2>2 DEF LookupHost
    <3>2. fwd[r] \in Forward
      BY <1>1
    <3>3. /\ [fwd[r] EXCEPT !.at = "refused"] \in Forward
          /\ [fwd[r] EXCEPT !.at = "refused"].at = "refused"
      BY <3>2 DEF Forward
    <3>4. QED
      BY <3>1, <3>3
  <2>3. QED
    BY <2>1, <2>2
<1>4. /\ fwd' \in [Requests -> Forward]
      /\ fwd'[r] = f
      /\ \A q \in Requests : q # r => fwd'[q] = fwd[q]
  BY <1>1, <1>3
<1>5. Forwarding'
  BY <1>2, <1>3, <1>4 DEF ControlInv, Forwarding
<1>6. QED
  BY <1>1, <1>4, <1>5, LookupKeeps

\* The second lookup finds the connection that registered that session.
LEMMA LookupPeerKeeps ==
  ASSUME ControlInv, NEW r \in Requests, LookupPeer(r)
  PROVE  ControlInv'
<1> USE ManagerAssumption, ControlAssumption
<1> DEFINE peer == peers[fwd[r].sid]
           at == IF peer # None THEN "sent" ELSE "refused"
<1>1. /\ UNCHANGED <<mvars, qvars, hvars>> /\ fwd \in [Requests -> Forward]
      /\ fwd[r].at = "looked" /\ fwd[r] \in Forward
  BY DEF LookupPeer, ControlInv, ControlTypeOK
<1>2. UNCHANGED <<sid, issued, store>>
  BY <1>1 DEF hvars, mvars
<1>3. fwd[r].sid \in Sids /\ peer \in Conns \cup {None}
  BY <1>1 DEF ControlInv, ControlTypeOK, ManagerTypeOK, Forwarding
<1>4. peer # None => sid[peer] = fwd[r].sid
  BY <1>3 DEF ControlInv, PeerTable
<1>5. /\ fwd' \in [Requests -> Forward]
      /\ fwd'[r].peer = peer /\ fwd'[r].at = at
      /\ fwd'[r].sid = fwd[r].sid /\ fwd'[r].host = fwd[r].host
      /\ \A q \in Requests : q # r => fwd'[q] = fwd[q]
  <2>1. fwd' = [fwd EXCEPT ![r] = [fwd[r] EXCEPT !.peer = peer, !.at = at]]
    BY <1>1 DEF LookupPeer
  <2>2. /\ [fwd[r] EXCEPT !.peer = peer, !.at = at] \in Forward
        /\ [fwd[r] EXCEPT !.peer = peer, !.at = at].peer = peer
        /\ [fwd[r] EXCEPT !.peer = peer, !.at = at].at = at
        /\ [fwd[r] EXCEPT !.peer = peer, !.at = at].sid = fwd[r].sid
        /\ [fwd[r] EXCEPT !.peer = peer, !.at = at].host = fwd[r].host
    BY <1>1, <1>3 DEF Forward
  <2>3. QED
    BY <1>1, <2>1, <2>2
<1>6. Forwarding'
  <2>1. ASSUME NEW q \in Requests
        PROVE  /\ fwd'[q].at \in {"looked", "sent"} =>
                    /\ fwd'[q].sid \in issued' /\ store'[fwd'[q].sid] # None
                    /\ store'[fwd'[q].sid].sub = fwd'[q].host
               /\ fwd'[q].at = "sent" =>
                    fwd'[q].peer # None /\ sid'[fwd'[q].peer] = fwd'[q].sid
    <3>1. CASE q = r
      BY <1>1, <1>2, <1>4, <1>5, <3>1 DEF ControlInv, Forwarding
    <3>2. CASE q # r
      BY <1>2, <1>5, <3>2 DEF ControlInv, Forwarding
    <3>3. QED
      BY <3>1, <3>2
  <2>2. QED
    BY <2>1 DEF Forwarding
<1>7. QED
  BY <1>1, <1>5, <1>6, LookupKeeps

\* Closing connections disturbs nothing, however many.
LEMMA ClosingKeeps == ControlInv /\ Closing => ControlInv'
<1> SUFFICES ASSUME ControlInv, Closing
             PROVE  ControlInv'
  OBVIOUS
<1>1. UNCHANGED <<mvars, qvars, pc, req, sub, sid, resv, peers, told, fwd>> /\ open' \subseteq open
  BY DEF Closing
<1>2. Undisturbed
  BY <1>1, ManagerAlone DEF ControlInv, Undisturbed, SidsKept
<1>3. ControlTypeOK'
  BY <1>1, <1>2 DEF ControlInv, ControlTypeOK, Undisturbed, ManagerInv, qvars
<1>4. HasMessage' /\ HasSession' /\ HasPlace'
  BY <1>1 DEF ControlInv, HasMessage, HasSession, HasPlace, Fresh, User, mvars
<1>5. NoGhostSession' /\ PeerTable'
  BY <1>1, NoGhostKept, PeersKept DEF ControlInv, mvars
<1>6. PlacesHeld' /\ FreshTunnelsWithinPlan' /\ Forwarding'
  BY <1>1, <1>2, PlanUntouched
<1>7. QED
  BY <1>2, <1>3, <1>4, <1>5, <1>6 DEF ControlInv, Undisturbed

\* A restart leaves connections that have not been read from, requests that have
\* looked nothing up, and nothing else.
LEMMA RestartKeeps == ControlInv /\ Restarting => ControlInv'
<1> SUFFICES ASSUME ControlInv, Restarting
             PROVE  ControlInv'
  OBVIOUS
<1> USE ManagerAssumption, ControlAssumption
<1>1. PICK waiting \in SUBSET (Conns \cup Calls) :
        (\A h \in waiting : pc[h] = "accepted") /\ RestartKeeping(waiting)
  BY DEF Restarting
<1>2. ManagerRestart /\ UNCHANGED <<req, sub, told>> /\ open' \subseteq open
  BY <1>1 DEF RestartKeeping
<1>3. pc' \in [Conns \cup Calls -> {"accepted", "done"}]
  BY <1>1 DEF RestartKeeping
<1>4. sid' = [c \in Conns |-> None] /\ resv' = [c \in Conns |-> None]
  BY <1>1 DEF RestartKeeping
<1>5. peers' = [s \in Sids |-> None]
  BY <1>1 DEF RestartKeeping
<1>6. /\ activeTunnels' = [u \in Users |-> {}]
      /\ reservedTunnels' = [u \in Users |-> 0]
  BY <1>1 DEF RestartKeeping, Quota!QuotaRestart
<1>7. /\ fwd' \in [Requests -> Forward]
      /\ \A r \in Requests : fwd'[r].at \notin {"looked", "sent"}
  <2>1. fwd' = [r \in Requests |-> IF fwd[r].at = "new" THEN fwd[r]
                                   ELSE [NewForward EXCEPT !.at = "refused"]]
    BY <1>1 DEF RestartKeeping
  <2>2. [NewForward EXCEPT !.at = "refused"] \in Forward
        /\ [NewForward EXCEPT !.at = "refused"].at = "refused"
    BY DEF NewForward, Forward
  <2>3. fwd \in [Requests -> Forward]
    BY DEF ControlInv, ControlTypeOK
  <2>4. QED
    BY <2>1, <2>2, <2>3
<1>8. ManagerInv'
  BY <1>2, RestartInv DEF ControlInv
<1>9. ControlTypeOK'
  <2>1. pc' \in [Conns \cup Calls -> Stages]
    BY <1>3 DEF Stages
  <2>2. QED
    BY <1>2, <1>4, <1>5, <1>6, <1>7, <1>8, <2>1 DEF ControlInv, ControlTypeOK, ManagerInv
<1>10. HasMessage'
  BY <1>3 DEF HasMessage
<1>11. HasSession'
  BY <1>3, <1>4 DEF HasSession, Stages, Sessionless
<1>12. HasPlace'
  BY <1>3, <1>4 DEF HasPlace, Owed
<1>13. NoGhostSession'
  BY <1>2 DEF ManagerRestart, NoGhostSession, Connected, Known
<1>14. PeerTable'
  BY <1>3, <1>5 DEF PeerTable, Peered
<1>15. PlacesHeld'
  <2>1. \A u \in Users : Holders(u)' = {}
    BY <1>4 DEF Holders
  <2>2. QED
    BY <1>6, <2>1, FS_EmptySet DEF PlacesHeld, Holders
<1>16. FreshTunnelsWithinPlan'
  <2>1. \A u \in Users : FreshTunnels(u)' = {} /\ reservedTunnels'[u] = 0
    BY <1>6 DEF FreshTunnels
  <2>2. ASSUME NEW u \in Users PROVE Cardinality(FreshTunnels(u)') + reservedTunnels'[u] = 0
    <3>1. Cardinality(FreshTunnels(u)') = 0
      BY <2>1, FS_EmptySet
    <3>2. QED
      BY <2>1, <3>1
  <2>3. QED
    BY <2>2 DEF FreshTunnelsWithinPlan
<1>17. Forwarding'
  BY <1>7 DEF Forwarding
<1>18. QED
  BY <1>8, <1>9, <1>10, <1>11, <1>12, <1>13, <1>14, <1>15, <1>16, <1>17 DEF ControlInv

-----------------------------------------------------------------------------
(* The theorems.                                                           *)

\* A daemon that has just started satisfies the invariant.
LEMMA ControlInitInv == ControlInit => ControlInv
<1> SUFFICES ASSUME ControlInit
             PROVE  ControlInv
  OBVIOUS
<1> USE ManagerAssumption, ControlAssumption DEF ControlInit
<1>1. ManagerInv
  BY InitInv
<1>2. /\ activeTunnels = [u \in Users |-> {}]
      /\ reservedTunnels = [u \in Users |-> 0]
  BY DEF Quota!QuotaInit
<1>3. NewForward \in Forward /\ NewForward.at = "new"
  BY DEF NewForward, Forward
<1>4. ControlTypeOK
  BY <1>1, <1>2, <1>3 DEF ControlTypeOK, ManagerInv, Stages
<1>5. HasMessage /\ HasSession /\ HasPlace
  BY DEF HasMessage, HasSession, HasPlace, Stages, Sessionless, Owed
<1>6. NoGhostSession
  BY DEF NoGhostSession, Connected, Known, ManagerInit
<1>7. PeerTable
  BY DEF PeerTable, Peered
<1>8. PlacesHeld
  <2>1. \A u \in Users : Holders(u) = {}
    BY DEF Holders
  <2>2. QED
    BY <1>2, <2>1, FS_EmptySet DEF PlacesHeld, Holders
<1>9. FreshTunnelsWithinPlan
  <2>1. \A u \in Users : FreshTunnels(u) = {} /\ reservedTunnels[u] = 0
    BY <1>2 DEF FreshTunnels
  <2>2. ASSUME NEW u \in Users PROVE Cardinality(FreshTunnels(u)) + reservedTunnels[u] = 0
    <3>1. Cardinality(FreshTunnels(u)) = 0
      BY <2>1, FS_EmptySet
    <3>2. QED
      BY <2>1, <3>1
  <2>3. QED
    BY <2>2 DEF FreshTunnelsWithinPlan
<1>10. Forwarding
  BY <1>3 DEF Forwarding
<1>11. QED
  BY <1>1, <1>4, <1>5, <1>6, <1>7, <1>8, <1>9, <1>10 DEF ControlInv

\* Every step preserves the invariant, in whatever environment it is taken.
LEMMA AnyStepInv == ControlInv /\ AnyStep => ControlInv'
<1> SUFFICES ASSUME ControlInv, AnyStep
             PROVE  ControlInv'
  OBVIOUS
<1>1. ASSUME NEW c \in Conns, Handle(c)
      PROVE  ControlInv'
  BY <1>1, ReadRegisterKeeps, ReserveKeeps, ResumeKeeps, AddPeerKeeps, CountTunnelKeeps,
     PingKeeps, ReleaseReservationKeeps, RemovePeerKeeps, DetachKeeps, CloseTunnelKeeps,
     PlainSteps DEF Handle
<1>2. ASSUME NEW h \in Conns \cup Calls, StoreSteps(h)
      PROVE  ControlInv'
  BY <1>2, AllocateKeeps, NotAllocatedKeeps, StoreKeeps, NotStoredKeeps DEF StoreSteps
<1>3. CASE \E r \in Requests : LookupPeer(r) \/ \E d \in Subdomains : LookupHost(r, d)
  BY <1>3, LookupPeerKeeps, LookupHostKeeps
<1>4. CASE Closing
  BY <1>4, ClosingKeeps
<1>5. CASE Restarting
  BY <1>5, RestartKeeps
<1>6. QED
  BY <1>1, <1>2, <1>3, <1>4, <1>5 DEF AnyStep

\* Steps that leave the server alone.
LEMMA StutterInv == ControlInv /\ UNCHANGED cvars => ControlInv'
<1> SUFFICES ASSUME ControlInv, UNCHANGED cvars
             PROVE  ControlInv'
  OBVIOUS
<1>1. Closing
  BY DEF Closing, cvars, hvars, qvars
<1>2. QED
  BY <1>1, ClosingKeeps

\* The steps of the server on its own are among them.
LEMMA ControlNextIsAny == ControlNext => AnyStep
<1> SUFFICES ASSUME ControlNext
             PROVE  AnyStep
  OBVIOUS
<1>1. ASSUME NEW c \in Conns, Disconnect(c)
      PROVE  Closing
  BY <1>1 DEF Disconnect, Closing
<1>2. ASSUME Restart
      PROVE  Restarting
  BY <1>2 DEF Restart, Restarting
<1>3. QED
  BY <1>1, <1>2 DEF ControlNext, AnyStep

\* Every step of the server preserves the invariant.
LEMMA ControlNextInv == ControlInv /\ [ControlNext]_cvars => ControlInv'
BY AnyStepInv, ControlNextIsAny, StutterInv

\* The invariant holds in every reachable state of the server.
THEOREM ControlInductive == ControlSpec => []ControlInv
BY ControlInitInv, ControlNextInv, PTL DEF ControlSpec

\* Every variable of the handlers, of the session manager and of the quota under
\* them has its type.
THEOREM ControlTyped == ControlSpec => []ControlTypeOK
<1>1. ControlInv => ControlTypeOK
  BY DEF ControlInv
<1>2. QED
  BY <1>1, ControlInductive, PTL

\* The handlers, the HTTP calls and the restarts of the server call the session
\* manager only as SessionManager allows: whatever order its callers interleave in
\* is one of the orders its theorems are about (handleConnection, createSession).
THEOREM ManagerImplemented == ControlSpec => ManagerSpec
<1>1. ControlInit => ManagerInit
  BY DEF ControlInit
<1>2. ControlInv /\ [ControlNext]_cvars => [ManagerNext]_mvars
  <2>1. UNCHANGED cvars => UNCHANGED mvars
    BY DEF cvars
  <2>2. QED
    BY <2>1, StepManages, ControlNextIsAny
<1>3. QED
  BY <1>1, <1>2, ControlInductive, PTL DEF ControlSpec, ManagerSpec

\* A session is connected only while a handler will still detach it, over every
\* order of resumes, pings, takeovers and cleanups (handleConnection).
THEOREM NoGhostSessionHolds == ControlSpec => []NoGhostSession
<1>1. ControlInv => NoGhostSession
  BY DEF ControlInv
<1>2. QED
  BY <1>1, ControlInductive, PTL

\* The peer table leads to the one open connection of its session, however many
\* resumes of that session race (addPeer, removePeer).
THEOREM PeerTableHolds == ControlSpec => []PeerTable
<1>1. ControlInv => PeerTable
  BY DEF ControlInv
<1>2. QED
  BY <1>1, ControlInductive, PTL

\* Every place reserved and every tunnel counted has a handler that will give it
\* back, whatever fails (ReserveTunnel, ReleaseTunnelReservation, ConfirmTunnel,
\* RestoreTunnel, TrackTunnelClosed as handleConnection calls them).
THEOREM PlacesHeldHolds == ControlSpec => []PlacesHeld
<1>1. ControlInv => PlacesHeld
  BY DEF ControlInv
<1>2. QED
  BY <1>1, ControlInductive, PTL

\* Registrations that race for the last place of a plan do not overshoot it
\* (ReserveTunnel, ConfirmTunnel).
THEOREM FreshTunnelsWithinPlanHolds == ControlSpec => []FreshTunnelsWithinPlan
<1>1. ControlInv => FreshTunnelsWithinPlan
  BY DEF ControlInv
<1>2. QED
  BY <1>1, ControlInductive, PTL

\* A request is handed to the connection of the session that owns its host, although
\* hosts and connections change between the two lookups (ForwardRequest).
THEOREM RequestReachesOwnerHolds == ControlSpec => []RequestReachesOwner
<1>1. ControlInv => RequestReachesOwner
  BY DEF ControlInv, Forwarding, RequestReachesOwner
<1>2. QED
  BY <1>1, ControlInductive, PTL

\* What the HTTP side looks up is one directory, and no tunnel changes hands, also
\* when it is the handlers that call the session manager (LookupByHost, storeSession,
\* resumeTunnel).
THEOREM ServerDirectory == ControlSpec => ImplementsDirectory /\ IdentityStable
BY ManagerImplemented, DirectoryImplemented, IdentityStableHolds, PTL
=============================================================================
