----------------------- MODULE SessionManager_proofs -----------------------
(***************************************************************************)
(* Proofs about SessionManager, for every set of sessions, subdomains,     *)
(* principals, shapes and connections, and any number of restarts.         *)
(*                                                                         *)
(* The inductive invariant is the conjunction of the four invariants the   *)
(* runs check and of one more fact, KnownIssued: an id that is in use has  *)
(* been drawn.  None of the four is inductive alone: storeSession keeps    *)
(* RouteIndex only because the id it draws is not already in the table,    *)
(* and keeps ActiveIffConnected only because at most one index entry leads *)
(* to the session it evicts.                                               *)
(*                                                                         *)
(* One lemma per operation: each says that the operation preserves the     *)
(* invariant for whatever arguments it is called with, so that modules     *)
(* whose handlers call the operations can use them too.                    *)
(***************************************************************************)
EXTENDS SessionManager, TLAPS

KnownIssued == \A s \in Sids : sessions[s] # None => s \in issued

ManagerInv ==
  /\ ManagerTypeOK
  /\ RouteIndex
  /\ ActiveIffConnected
  /\ DurableBacked
  /\ KnownIssued

-----------------------------------------------------------------------------
(* Typing lemmas.                                                          *)

\* None is neither a session nor a registry record.
LEMMA NoneIsNoRecord == None \notin Session /\ None \notin StoredTunnel
BY ManagerAssumption DEF Session, StoredTunnel, Connections, Statuses

\* What storeSession is called with is a session.
LEMMA NewIsSession == Created \cup Registered \subseteq Session
BY DEF Created, Registered, Session, Connections

-----------------------------------------------------------------------------
(* Initial states, and one lemma per operation.                            *)

\* Empty maps satisfy the invariant.
LEMMA InitInv == ManagerInit => ManagerInv
BY ManagerAssumption
DEF ManagerInit, ManagerInv, ManagerTypeOK, RouteIndex, ActiveIffConnected,
    DurableBacked, KnownIssued, Connected, Known

\* storeSession takes a host over, evicting its old session, and keeps the invariant.
LEMMA StoreInv ==
  ASSUME NEW s \in Sids, NEW new \in Created \cup Registered,
         ManagerInv, StoreSession(s, new)
  PROVE  ManagerInv'
<1> DEFINE old == route[new.sub]
<1> USE NoneIsNoRecord, ManagerAssumption
<1>1. new \in Session
  BY NewIsSession
<1>2. /\ s \notin issued /\ issued' = issued \cup {s}
      /\ ~Connected(old)
      /\ sessions' = [Evicted(old) EXCEPT ![s] = new]
      /\ route' = [route EXCEPT ![new.sub] = s]
      /\ activeRoute' = IF new.connection = "connected" THEN Activate(new.sub, s)
                                                        ELSE Deactivate(new.sub, old)
      /\ store' = [store EXCEPT ![s] = [sub |-> new.sub, status |-> StatusOf(new.connection)]]
      /\ UNCHANGED restarts
  BY DEF StoreSession, Draw, HostTaken, Upsert
<1>3. sessions[s] = None
  BY <1>2 DEF ManagerInv, KnownIssued
<1>4. new.sub \in Subdomains /\ new.connection \in Connections
  BY <1>1 DEF Session
<1>5. old \in Sids \cup {None} /\ s # old
  BY <1>3, <1>4 DEF ManagerInv, ManagerTypeOK, RouteIndex
<1>6. /\ sessions' \in [Sids -> Session \cup {None}]
      /\ sessions'[s] = new
      /\ \A t \in Sids : t # s /\ t # old => sessions'[t] = sessions[t]
      /\ old # None => sessions'[old] = None
  <2>1. sessions' = [t \in Sids |-> IF t = s THEN new
                                    ELSE IF t = old THEN None ELSE sessions[t]]
    BY <1>2 DEF Evicted
  <2>2. sessions \in [Sids -> Session \cup {None}]
    BY DEF ManagerInv, ManagerTypeOK
  <2>3. QED
    BY <1>1, <1>5, <2>1, <2>2
<1>7. /\ route' \in [Subdomains -> Sids \cup {None}]
      /\ route'[new.sub] = s
      /\ \A d \in Subdomains : d # new.sub => route'[d] = route[d]
  BY <1>2, <1>4 DEF ManagerInv, ManagerTypeOK
<1>8. /\ activeRoute' \in [Subdomains -> Sids \cup {None}]
      /\ activeRoute'[new.sub] = IF new.connection = "connected" THEN s ELSE None
      /\ \A d \in Subdomains : d # new.sub => activeRoute'[d] = activeRoute[d]
  <2>1. activeRoute[new.sub] = None
    BY <1>2, <1>4 DEF ManagerInv, ActiveIffConnected
  <2>2. activeRoute \in [Subdomains -> Sids \cup {None}]
    BY DEF ManagerInv, ManagerTypeOK
  <2>3. QED
    BY <1>2, <1>4, <2>1, <2>2 DEF Activate, Deactivate
<1>9. [sub |-> new.sub, status |-> StatusOf(new.connection)] \in StoredTunnel
  BY <1>4 DEF StoredTunnel, Statuses, StatusOf, Connections
<1>10. ManagerTypeOK'
  BY <1>2, <1>6, <1>7, <1>8, <1>9 DEF ManagerInv, ManagerTypeOK
<1>11. RouteIndex'
  <2>1. ASSUME NEW d \in Subdomains, route'[d] # None
        PROVE  sessions'[route'[d]] # None /\ sessions'[route'[d]].sub = d
    <3>1. CASE d = new.sub
      BY <1>1, <1>6, <1>7, <3>1
    <3>2. CASE d # new.sub
      <4>1. /\ route'[d] = route[d] /\ route[d] \in Sids
            /\ sessions[route[d]] # None /\ sessions[route[d]].sub = d
        BY <1>7, <2>1, <3>2 DEF ManagerInv, ManagerTypeOK, RouteIndex
      <4>2. route[d] # s /\ route[d] # old
        BY <1>3, <1>4, <3>2, <4>1 DEF ManagerInv, RouteIndex
      <4>3. QED
        BY <1>6, <4>1, <4>2
    <3>3. QED
      BY <3>1, <3>2
  <2>2. ASSUME NEW t \in Sids, sessions'[t] # None
        PROVE  route'[sessions'[t].sub] = t
    <3>1. CASE t = s
      BY <1>6, <1>7, <3>1
    <3>2. CASE t # s
      <4>1. t # old /\ sessions'[t] = sessions[t] /\ sessions[t] \in Session
        BY <1>6, <2>2, <3>2 DEF ManagerInv, ManagerTypeOK
      <4>2. sessions[t].sub \in Subdomains /\ route[sessions[t].sub] = t
        BY <4>1 DEF ManagerInv, RouteIndex, Session
      <4>3. QED
        BY <1>7, <4>1, <4>2
    <3>3. QED
      BY <3>1, <3>2
  <2>3. QED
    BY <2>1, <2>2 DEF RouteIndex
<1>12. ActiveIffConnected'
  <2>1. ASSUME NEW d \in Subdomains
        PROVE  activeRoute'[d] = IF Connected(route[d])' THEN route'[d] ELSE None
    <3>1. CASE d = new.sub
      BY <1>1, <1>6, <1>7, <1>8, <3>1 DEF Connected, Known
    <3>2. CASE d # new.sub
      <4>1. route[d] # None => route[d] # s /\ route[d] # old
        BY <1>3, <1>4, <3>2 DEF ManagerInv, RouteIndex
      <4>2. Connected(route[d])' = Connected(route[d])
        BY <1>6, <1>7, <3>2, <4>1 DEF Connected, Known, ManagerInv, ManagerTypeOK
      <4>3. QED
        BY <1>7, <1>8, <3>2, <4>2 DEF ManagerInv, ActiveIffConnected
    <3>3. QED
      BY <3>1, <3>2
  <2>2. QED
    BY <2>1 DEF ActiveIffConnected
<1>13. DurableBacked' /\ KnownIssued'
  <2>1. ASSUME NEW t \in Sids, sessions'[t] # None, t # s
        PROVE  sessions'[t] = sessions[t]
    BY <1>5, <1>6, <2>1
  <2>2. /\ store'[s] # None /\ store'[s].sub = new.sub
        /\ \A t \in Sids : t # s => store'[t] = store[t]
    BY <1>2, <1>9 DEF ManagerInv, ManagerTypeOK
  <2>3. QED
    BY <1>2, <1>6, <2>1, <2>2 DEF ManagerInv, DurableBacked, KnownIssued
<1>14. QED
  BY <1>10, <1>11, <1>12, <1>13 DEF ManagerInv

\* A failed save leaves the host without a session, and the old one evicted.
LEMMA UnsavedInv ==
  ASSUME NEW s \in Sids, NEW new \in Created \cup Registered,
         ManagerInv, StoreUnsaved(s, new)
  PROVE  ManagerInv'
<1> DEFINE old == route[new.sub]
<1> USE NoneIsNoRecord, ManagerAssumption
<1>1. new \in Session
  BY NewIsSession
<1>2. /\ issued' = issued \cup {s}
      /\ ~Connected(old)
      /\ sessions' = [t \in Sids |-> IF t = old THEN None ELSE sessions[t]]
      /\ route' = [route EXCEPT ![new.sub] = None]
      /\ activeRoute' = IF new.connection = "connected" THEN Activate(new.sub, None)
                                                        ELSE Deactivate(new.sub, old)
      /\ UNCHANGED <<store, restarts>>
  BY DEF StoreUnsaved, Draw, HostTaken, Evicted
<1>3. new.sub \in Subdomains
  BY <1>1 DEF Session
<1>4. ManagerTypeOK'
  BY <1>2, <1>3 DEF ManagerInv, ManagerTypeOK, Activate, Deactivate
<1>5. RouteIndex'
  BY <1>2, <1>3 DEF ManagerInv, ManagerTypeOK, RouteIndex, Session
<1>6. ActiveIffConnected'
  BY <1>2, <1>3
  DEF ManagerInv, ManagerTypeOK, RouteIndex, ActiveIffConnected, Connected, Known,
      Activate, Deactivate, Session
<1>7. DurableBacked' /\ KnownIssued'
  BY <1>2, <1>3 DEF ManagerInv, ManagerTypeOK, DurableBacked, KnownIssued
<1>8. QED
  BY <1>4, <1>5, <1>6, <1>7 DEF ManagerInv

\* A refused registration only uses up an id.
LEMMA ConflictInv ==
  ASSUME NEW s \in Sids, NEW new, ManagerInv, StoreConflict(s, new)
  PROVE  ManagerInv'
BY DEF StoreConflict, Draw, ManagerInv, ManagerTypeOK, RouteIndex, ActiveIffConnected,
       DurableBacked, KnownIssued, Connected, Known

\* An operation that replaces the record of a session, keeps its subdomain, and
\* sets the active index to match, preserves the invariant, saved or not.
LEMMA UpdateInv ==
  ASSUME ManagerInv, NEW s \in Sids, sessions[s] # None,
         NEW new \in Session, new.sub = sessions[s].sub,
         NEW status \in Statuses, NEW saved,
         sessions' = [sessions EXCEPT ![s] = new],
         activeRoute' = IF new.connection = "connected" THEN Activate(new.sub, s)
                                                        ELSE Deactivate(new.sub, s),
         store' = Upsert(s, new.sub, status, saved),
         UNCHANGED <<route, issued, restarts>>
  PROVE  ManagerInv'
<1> USE NoneIsNoRecord, ManagerAssumption
<1>1. new.sub \in Subdomains /\ route[new.sub] = s
  BY DEF Session, ManagerInv, RouteIndex
<1>2. sessions'[s] = new /\ \A r \in Sids : r # s => sessions'[r] = sessions[r]
  BY DEF ManagerInv, ManagerTypeOK
<1>3. [sub |-> new.sub, status |-> status] \in StoredTunnel
  BY <1>1 DEF StoredTunnel
<1>4. ManagerTypeOK'
  BY <1>1, <1>2, <1>3 DEF ManagerInv, ManagerTypeOK, Activate, Deactivate, Upsert
<1>5. RouteIndex'
  BY <1>1, <1>2 DEF ManagerInv, ManagerTypeOK, RouteIndex
<1>6. ActiveIffConnected'
  BY <1>1, <1>2
  DEF ManagerInv, ManagerTypeOK, RouteIndex, ActiveIffConnected, Connected, Known,
      Activate, Deactivate
<1>7. DurableBacked' /\ KnownIssued'
  BY <1>1, <1>2, <1>3
  DEF ManagerInv, ManagerTypeOK, DurableBacked, KnownIssued, Upsert
<1>8. QED
  BY <1>4, <1>5, <1>6, <1>7 DEF ManagerInv

\* A resume connects the session it names.
LEMMA ResumeInv ==
  ASSUME NEW s \in Sids \cup {None}, NEW c \in Conns, NEW t, NEW p \in Principals, NEW sh,
         NEW saved, ManagerInv, ResumeTunnel(s, c, t, p, sh, saved)
  PROVE  ManagerInv'
<1> DEFINE new == [sessions[s] EXCEPT !.connection = "connected", !.conn = c, !.owner = p]
<1>1. s \in Sids /\ sessions[s] # None /\ sessions[s] \in Session
  BY DEF ResumeTunnel, CanResume, Known, ManagerInv, ManagerTypeOK
<1>2. new \in Session /\ new.sub = sessions[s].sub /\ new.connection = "connected"
  BY <1>1 DEF Session, Connections
<1>3. QED
  BY <1>1, <1>2, UpdateInv DEF ResumeTunnel, Statuses

\* A heartbeat connects its session, whatever happened to it meanwhile.
LEMMA TouchInv ==
  ASSUME NEW s \in Sids \cup {None}, NEW saved, ManagerInv, TouchHeartbeat(s, saved)
  PROVE  ManagerInv'
<1> DEFINE new == [sessions[s] EXCEPT !.connection = "connected"]
<1>1. s \in Sids /\ sessions[s] # None /\ sessions[s] \in Session
  BY DEF TouchHeartbeat, Known, ManagerInv, ManagerTypeOK
<1>2. new \in Session /\ new.sub = sessions[s].sub /\ new.connection = "connected"
  BY <1>1 DEF Session, Connections
<1>3. QED
  BY <1>1, <1>2, UpdateInv DEF TouchHeartbeat, Statuses

\* A detach takes the session off the active index and leaves it routed.
LEMMA DetachInv ==
  ASSUME NEW s \in Sids \cup {None}, NEW saved, ManagerInv, DetachConnection(s, saved)
  PROVE  ManagerInv'
<1>1. CASE Known(s)
  <2> DEFINE new == [sessions[s] EXCEPT !.connection = "disconnected", !.conn = None]
  <2>1. s \in Sids /\ sessions[s] # None /\ sessions[s] \in Session
    BY <1>1 DEF Known, ManagerInv, ManagerTypeOK
  <2>2. /\ new \in Session /\ new.sub = sessions[s].sub
        /\ new.connection = "disconnected"
    BY <2>1 DEF Session, Connections
  <2>3. QED
    BY <1>1, <2>1, <2>2, UpdateInv DEF DetachConnection, Statuses
<1>2. CASE ~Known(s)
  BY <1>2 DEF DetachConnection, mvars, ManagerInv, ManagerTypeOK, RouteIndex,
     ActiveIffConnected, DurableBacked, KnownIssued, Connected, Known
<1>3. QED
  BY <1>1, <1>2

\* A restart empties the maps; the registry only loses its claim on memory.
LEMMA RestartInv == ManagerInv /\ ManagerRestart => ManagerInv'
BY ManagerAssumption
DEF ManagerRestart, ManagerInv, ManagerTypeOK, RouteIndex, ActiveIffConnected,
    DurableBacked, KnownIssued, Connected, Known

\* Every step preserves the invariant.
LEMMA NextInv == ManagerInv /\ [ManagerNext]_mvars => ManagerInv'
<1> SUFFICES ASSUME ManagerInv, [ManagerNext]_mvars
             PROVE  ManagerInv'
  OBVIOUS
<1>1. CASE \E s \in Sids, new \in Created \cup Registered :
             StoreSession(s, new) \/ StoreUnsaved(s, new) \/ StoreConflict(s, new)
  BY <1>1, StoreInv, UnsavedInv, ConflictInv
<1>2. CASE \E s \in Sids, saved \in BOOLEAN :
             \E c \in Conns, t \in Sids, p \in Principals, sh \in Shapes :
               ResumeTunnel(s, c, t, p, sh, saved)
  BY <1>2, ResumeInv
<1>3. CASE \E s \in Sids, saved \in BOOLEAN : TouchHeartbeat(s, saved)
  BY <1>3, TouchInv
<1>4. CASE \E s \in Sids, saved \in BOOLEAN : DetachConnection(s, saved)
  BY <1>4, DetachInv
<1>5. CASE ManagerRestart
  BY <1>5, RestartInv
<1>6. CASE UNCHANGED mvars
  BY <1>6 DEF mvars, ManagerInv, ManagerTypeOK, RouteIndex, ActiveIffConnected,
     DurableBacked, KnownIssued, Connected, Known
<1>7. QED
  BY <1>1, <1>2, <1>3, <1>4, <1>5, <1>6 DEF ManagerNext

-----------------------------------------------------------------------------
(* The theorems.                                                           *)

\* The invariant holds in every reachable state.
THEOREM Inductive == ManagerSpec => []ManagerInv
BY InitInv, NextInv, PTL DEF ManagerSpec

\* Every variable of the session manager has its type.
THEOREM TypeCorrect == ManagerSpec => []ManagerTypeOK
<1>1. ManagerInv => ManagerTypeOK
  BY DEF ManagerInv
<1>2. QED
  BY <1>1, Inductive, PTL

\* The host index and the session table agree, whatever the order of
\* registrations, takeovers, failed saves and restarts (storeSession).
THEOREM RouteIndexHolds == ManagerSpec => []RouteIndex
<1>1. ManagerInv => RouteIndex
  BY DEF ManagerInv
<1>2. QED
  BY <1>1, Inductive, PTL

\* The active index names exactly the hosts whose session is connected
\* (activateRoutingLocked, deactivateRoutingLocked).
THEOREM ActiveIffConnectedHolds == ManagerSpec => []ActiveIffConnected
<1>1. ManagerInv => ActiveIffConnected
  BY DEF ManagerInv
<1>2. QED
  BY <1>1, Inductive, PTL

\* Every session in memory has a registry record with its subdomain
\* (persistTunnelLocked).
THEOREM DurableBackedHolds == ManagerSpec => []DurableBacked
<1>1. ManagerInv => DurableBacked
  BY DEF ManagerInv
<1>2. QED
  BY <1>1, Inductive, PTL
-----------------------------------------------------------------------------
(* Identity.                                                               *)

\* No step changes the subdomain, the owner or the shape of a session that
\* exists before and after it: a resume is only for the principal that owns it.
LEMMA IdentityStep ==
  ASSUME ManagerInv, [ManagerNext]_mvars,
         NEW s \in Sids, sessions[s] # None, sessions'[s] # None
  PROVE  /\ sessions'[s].sub = sessions[s].sub
         /\ sessions'[s].owner = sessions[s].owner
         /\ sessions'[s].shape = sessions[s].shape
<1> USE NoneIsNoRecord, ManagerAssumption
<1> USE DEF ManagerInv, ManagerTypeOK
<1>1. CASE \E t \in Sids, new \in Created \cup Registered :
             StoreSession(t, new) \/ StoreUnsaved(t, new) \/ StoreConflict(t, new)
  <2>1. PICK t \in Sids, new \in Created \cup Registered :
          StoreSession(t, new) \/ StoreUnsaved(t, new) \/ StoreConflict(t, new)
    BY <1>1
  <2>2. t \notin issued
    BY <2>1 DEF StoreSession, StoreUnsaved, StoreConflict, Draw
  <2>3. s # t
    BY <2>2 DEF KnownIssued
  <2>4. sessions'[s] = sessions[s]
    BY <2>1, <2>3 DEF StoreSession, StoreUnsaved, StoreConflict, Evicted
  <2>5. QED
    BY <2>4
<1>2. CASE \E t \in Sids, saved \in BOOLEAN :
             \E c \in Conns, k \in Sids, p \in Principals, sh \in Shapes :
               ResumeTunnel(t, c, k, p, sh, saved)
  <2>1. PICK t \in Sids, c \in Conns, p \in Principals, k \in Sids, sh \in Shapes,
             saved \in BOOLEAN : ResumeTunnel(t, c, k, p, sh, saved)
    BY <1>2
  <2>2. sessions[t] \in Session /\ sessions[t].owner = p
    BY <2>1 DEF ResumeTunnel, CanResume, Known
  <2>3. sessions' = [sessions EXCEPT ![t] =
                       [@ EXCEPT !.connection = "connected", !.conn = c, !.owner = p]]
    BY <2>1 DEF ResumeTunnel
  <2>4. QED
    BY <2>2, <2>3 DEF Session
<1>3. CASE \E t \in Sids, saved \in BOOLEAN : TouchHeartbeat(t, saved)
  <2>1. PICK t \in Sids, saved \in BOOLEAN : TouchHeartbeat(t, saved)
    BY <1>3
  <2>2. QED
    BY <2>1 DEF TouchHeartbeat, Known, Session
<1>4. CASE \E t \in Sids, saved \in BOOLEAN : DetachConnection(t, saved)
  <2>1. PICK t \in Sids, saved \in BOOLEAN : DetachConnection(t, saved)
    BY <1>4
  <2>2. CASE Known(t)
    <3>1. sessions' = [sessions EXCEPT ![t] =
                         [@ EXCEPT !.connection = "disconnected", !.conn = None]]
      BY <2>1, <2>2 DEF DetachConnection
    <3>2. QED
      BY <2>2, <3>1 DEF Known, Session
  <2>3. CASE ~Known(t)
    BY <2>1, <2>3 DEF DetachConnection, mvars
  <2>4. QED
    BY <2>2, <2>3
<1>5. CASE ManagerRestart
  BY <1>5 DEF ManagerRestart
<1>6. CASE UNCHANGED mvars
  BY <1>6 DEF mvars
<1>7. QED
  BY <1>1, <1>2, <1>3, <1>4, <1>5, <1>6 DEF ManagerNext

\* A session keeps its subdomain, its owner and its shape for as long as it
\* exists (resumeTunnel's checks).
THEOREM IdentityStableHolds == ManagerSpec => IdentityStable
<1>1. ManagerInv /\ [ManagerNext]_mvars =>
        [\A s \in Sids : sessions[s] # None /\ sessions'[s] # None =>
           /\ sessions'[s].sub = sessions[s].sub
           /\ sessions'[s].owner = sessions[s].owner
           /\ sessions'[s].shape = sessions[s].shape]_mvars
  BY IdentityStep
<1>2. QED
  BY <1>1, Inductive, PTL DEF ManagerSpec, IdentityStable

-----------------------------------------------------------------------------
(* The session manager implements the host directory.                      *)

\* What LookupByHost answers is the entry of the index of all known hosts; the
\* active index decides only whether the host is live.
LEMMA HolderIsRoute == ManagerInv => [d \in Subdomains |-> Lookup(d)] = route
BY DEF ManagerInv, ManagerTypeOK, ActiveIffConnected, Lookup

\* The same in the next state.
LEMMA HolderIsRouteNext == ManagerInv' => [d \in Subdomains |-> Lookup(d)]' = route'
BY DEF ManagerInv, ManagerTypeOK, ActiveIffConnected, Lookup

\* The initial state is the empty directory.
LEMMA InitRefines == ManagerInit => Directory!DirectoryInit
BY DEF ManagerInit, Directory!DirectoryInit, Lookup

\* storeSession claims the host for the new session: nobody answered for it.
LEMMA StoreRefines ==
  ASSUME NEW s \in Sids, NEW new \in Created \cup Registered,
         ManagerInv, StoreSession(s, new)
  PROVE  Directory!Claim(new.sub, s)
<1> USE NoneIsNoRecord, ManagerAssumption
<1>1. ManagerInv'
  BY StoreInv
<1>2. new \in Session /\ new.sub \in Subdomains
  BY NewIsSession DEF Session
<1>3. activeRoute[new.sub] = None
  BY <1>2 DEF StoreSession, HostTaken, ManagerInv, ActiveIffConnected
<1>4. \A g \in Subdomains : route[g] # s
  BY DEF StoreSession, Draw, ManagerInv, ManagerTypeOK, RouteIndex, KnownIssued
<1>5. route' = [route EXCEPT ![new.sub] = s]
  BY DEF StoreSession
<1>6. \A d \in Subdomains : d # new.sub => activeRoute'[d] = activeRoute[d]
  BY <1>2 DEF StoreSession, Activate, Deactivate, ManagerInv, ManagerTypeOK
<1>7. QED
  BY <1>1, <1>2, <1>3, <1>4, <1>5, <1>6, HolderIsRoute, HolderIsRouteNext
  DEF Directory!Claim

\* A failed save vacates the host: nobody answered for it.
LEMMA UnsavedRefines ==
  ASSUME NEW s \in Sids, NEW new \in Created \cup Registered,
         ManagerInv, StoreUnsaved(s, new)
  PROVE  Directory!Vacate(new.sub)
<1> USE NoneIsNoRecord, ManagerAssumption
<1>1. ManagerInv'
  BY UnsavedInv
<1>2. new.sub \in Subdomains
  BY NewIsSession DEF Session
<1>3. activeRoute[new.sub] = None
  BY <1>2 DEF StoreUnsaved, HostTaken, ManagerInv, ActiveIffConnected
<1>4. activeRoute' = activeRoute
  BY <1>2, <1>3 DEF StoreUnsaved, Activate, Deactivate, ManagerInv, ManagerTypeOK
<1>5. QED
  BY <1>1, <1>2, <1>3, <1>4, HolderIsRoute, HolderIsRouteNext DEF StoreUnsaved, Directory!Vacate

\* A session that is connected (again) brings its own host up.
LEMMA ActivateRefines ==
  ASSUME NEW s \in Sids, ManagerInv, ManagerInv', sessions[s] # None,
         activeRoute' = Activate(sessions[s].sub, s), UNCHANGED route
  PROVE  \E d \in Subdomains : Directory!Up(d)
<1> USE NoneIsNoRecord, ManagerAssumption
<1>1. sessions[s].sub \in Subdomains /\ route[sessions[s].sub] = s
  BY DEF ManagerInv, ManagerTypeOK, RouteIndex, Session
<1>2. PICK d \in Subdomains : d = sessions[s].sub
  BY <1>1
<1>3. Directory!Up(d)
  BY <1>1, <1>2, HolderIsRoute, HolderIsRouteNext
  DEF Directory!Up, Activate, ManagerInv, ManagerTypeOK
<1>4. QED
  BY <1>3

\* A session that is detached takes its own host down.
LEMMA DeactivateRefines ==
  ASSUME NEW s \in Sids, ManagerInv, ManagerInv', sessions[s] # None,
         activeRoute' = Deactivate(sessions[s].sub, s), UNCHANGED route
  PROVE  \E d \in Subdomains : Directory!Down(d)
<1> USE NoneIsNoRecord, ManagerAssumption
<1>1. sessions[s].sub \in Subdomains
  BY DEF ManagerInv, ManagerTypeOK, Session
<1>2. activeRoute[sessions[s].sub] \in {s, None}
  BY <1>1 DEF ManagerInv, ActiveIffConnected, RouteIndex
<1>3. PICK d \in Subdomains : d = sessions[s].sub
  BY <1>1
<1>4. Directory!Down(d)
  BY <1>1, <1>2, <1>3, HolderIsRoute, HolderIsRouteNext
  DEF Directory!Down, Deactivate, ManagerInv, ManagerTypeOK
<1>5. QED
  BY <1>4

\* A restart forgets every host.
LEMMA RestartRefines == ManagerRestart => Directory!Forget
BY DEF ManagerRestart, Directory!Forget, Lookup

\* Every step of the manager is a step of the directory, or changes nothing in it.
LEMMA NextRefines ==
  ManagerInv /\ [ManagerNext]_mvars => [Directory!DirectoryNext]_(Directory!dvars)
<1> SUFFICES ASSUME ManagerInv, [ManagerNext]_mvars
             PROVE  Directory!DirectoryNext \/ UNCHANGED Directory!dvars
  OBVIOUS
<1> USE NoneIsNoRecord, ManagerAssumption
<1>0. ManagerInv'
  BY NextInv
<1>1. ASSUME NEW s \in Sids, NEW new \in Created \cup Registered,
             \/ StoreSession(s, new)
             \/ StoreUnsaved(s, new)
             \/ StoreConflict(s, new)
      PROVE  Directory!DirectoryNext \/ UNCHANGED Directory!dvars
  <2>1. new.sub \in Subdomains
    BY NewIsSession DEF Session
  <2>2. CASE StoreSession(s, new)
    BY <2>1, <2>2, StoreRefines DEF Directory!DirectoryNext
  <2>3. CASE StoreUnsaved(s, new)
    BY <2>1, <2>3, UnsavedRefines DEF Directory!DirectoryNext
  <2>4. CASE StoreConflict(s, new)
    BY <2>4 DEF StoreConflict, Directory!dvars, Lookup
  <2>5. QED
    BY <1>1, <2>2, <2>3, <2>4
<1>2. ASSUME NEW s \in Sids, NEW c \in Conns, NEW t \in Sids, NEW p \in Principals,
             NEW sh \in Shapes, NEW saved \in BOOLEAN, ResumeTunnel(s, c, t, p, sh, saved)
      PROVE  Directory!DirectoryNext
  <2>1. /\ sessions[s] # None
        /\ activeRoute' = Activate(sessions[s].sub, s) /\ UNCHANGED route
    BY <1>2 DEF ResumeTunnel, CanResume, Known
  <2>2. \E d \in Subdomains : Directory!Up(d)
    BY <1>0, <2>1, ActivateRefines
  <2>3. QED
    BY <2>2 DEF Directory!DirectoryNext
<1>3. ASSUME NEW s \in Sids, NEW saved \in BOOLEAN, TouchHeartbeat(s, saved)
      PROVE  Directory!DirectoryNext
  <2>1. /\ sessions[s] # None
        /\ activeRoute' = Activate(sessions[s].sub, s) /\ UNCHANGED route
    BY <1>3 DEF TouchHeartbeat, Known
  <2>2. \E d \in Subdomains : Directory!Up(d)
    BY <1>0, <2>1, ActivateRefines
  <2>3. QED
    BY <2>2 DEF Directory!DirectoryNext
<1>4. ASSUME NEW s \in Sids, NEW saved \in BOOLEAN, DetachConnection(s, saved)
      PROVE  Directory!DirectoryNext \/ UNCHANGED Directory!dvars
  <2>1. CASE Known(s)
    <3>1. /\ sessions[s] # None
          /\ activeRoute' = Deactivate(sessions[s].sub, s) /\ UNCHANGED route
      BY <1>4, <2>1 DEF DetachConnection, Known
    <3>2. \E d \in Subdomains : Directory!Down(d)
      BY <1>0, <3>1, DeactivateRefines
    <3>3. QED
      BY <3>2 DEF Directory!DirectoryNext
  <2>2. CASE ~Known(s)
    BY <1>4, <2>2 DEF DetachConnection, mvars, Directory!dvars, Lookup
  <2>3. QED
    BY <2>1, <2>2
<1>5. CASE ManagerRestart
  BY <1>5, RestartRefines DEF Directory!DirectoryNext
<1>6. CASE UNCHANGED mvars
  BY <1>6 DEF mvars, Directory!dvars, Lookup
<1>7. QED
  BY <1>1, <1>2, <1>3, <1>4, <1>5, <1>6 DEF ManagerNext

\* Through registrations, takeovers, failed saves, resumes and restarts, what the
\* HTTP side looks up is one directory, in which no host is taken from a session
\* that answers for it (LookupByHost, storeSession).
THEOREM DirectoryImplemented == ManagerSpec => ImplementsDirectory
BY InitRefines, NextRefines, Inductive, PTL
DEF ManagerSpec, ImplementsDirectory, Directory!DirectorySpec
=============================================================================
