--------------------------- MODULE SessionManager ---------------------------
(***************************************************************************)
(* The session manager of the daemon (internal/session/session.go) and the *)
(* durable tunnel registry it writes through (internal/tunnel/store.go).   *)
(*                                                                         *)
(* Every operation takes Manager.mu for its whole body, so each is one     *)
(* action.  Callers and their interleaving are in ControlServer; here any  *)
(* operation may be called at any time.                                    *)
(*                                                                         *)
(* Data that is abstracted: a public host is its subdomain label (the host *)
(* is label.publicHost, an injection), so byHost and bySubdomain are one   *)
(* index, route, and activeByHost and activeBySubdomain another,           *)
(* activeRoute.  A resume token is the id of the session it was drawn for. *)
(* A shape is the pair (protocol, local port).  byResume is never read.    *)
(***************************************************************************)
EXTENDS Naturals

CONSTANTS
  Sids,         \* session (tunnel) ids, drawn at random by newSessionID
  Subdomains,   \* subdomain labels
  Principals,   \* authenticated tokens: (token id, user id)
  Shapes,       \* (protocol, local port) pairs
  Conns,        \* control connections
  None,         \* nil, or the empty string
  MaxRestarts   \* bound on daemon restarts

ASSUME ManagerAssumption ==
  /\ None \notin Sids
  /\ None \notin [sub : Subdomains, owner : Principals \cup {None}, shape : Shapes,
                  connection : {"idle", "connected", "disconnected"},
                  conn : Conns \cup {None}]
  /\ None \notin [sub : Subdomains, status : {"ready", "connected", "disconnected"}]
  /\ MaxRestarts \in Nat

VARIABLES
  sessions,     \* [Sids -> Session or None]          Manager.sessions
  route,        \* [Subdomains -> Sids or None]       byHost, bySubdomain
  activeRoute,  \* [Subdomains -> Sids or None]       activeByHost, activeBySubdomain
  store,        \* [Sids -> StoredTunnel or None]     the tunnel database file
  issued,       \* ids drawn so far
  restarts      \* daemon restarts so far

mvars == <<sessions, route, activeRoute, store, issued, restarts>>

Connections == {"idle", "connected", "disconnected"}

Session == [sub : Subdomains, owner : Principals \cup {None}, shape : Shapes,
            connection : Connections, conn : Conns \cup {None}]

\* what storeSession is called with: a session created through the HTTP API has
\* no owner and no connection, a registered tunnel is connected from the start
Created == [sub : Subdomains, owner : {None}, shape : Shapes,
            connection : {"idle"}, conn : {None}]
Registered == [sub : Subdomains, owner : Principals, shape : Shapes,
               connection : {"connected"}, conn : Conns]

\* the status a session is registered with: a created session is "ready"
Statuses == {"ready", "connected", "disconnected"}
StatusOf(connection) == IF connection = "idle" THEN "ready" ELSE connection

StoredTunnel == [sub : Subdomains, status : Statuses]

ManagerInit ==
  /\ sessions = [s \in Sids |-> None]
  /\ route = [d \in Subdomains |-> None]
  /\ activeRoute = [d \in Subdomains |-> None]
  /\ store = [s \in Sids |-> None]
  /\ issued = {}
  /\ restarts = 0

-----------------------------------------------------------------------------
(* Helpers on the indexes and the registry.                                *)

Known(s) == s # None /\ sessions[s] # None

Connected(s) == Known(s) /\ sessions[s].connection = "connected"

\* activateRoutingLocked: activeByHost[host] = sessionID
Activate_Swapped(d, s) == [activeRoute EXCEPT ![d] = d]
Activate(d, s) == [activeRoute EXCEPT ![d] = s]

\* deactivateRoutingLocked: delete the entry only if it still names this session
Deactivate_Never(d, s) == activeRoute
Deactivate(d, s) == [activeRoute EXCEPT ![d] = IF @ = s THEN None ELSE @]

\* Store.Upsert of the record's tunnel; a save that fails leaves the file alone
Upsert(s, d, status, saved) ==
  IF saved THEN [store EXCEPT ![s] = [sub |-> d, status |-> status]] ELSE store

\* ensureSubdomainAvailable: neither routed in memory nor in the registry
Available(d) ==
  /\ route[d] = None
  /\ \A s \in Sids : store[s] # None => store[s].sub # d

\* LookupByHost: the active index first, then the index of all known hosts
Lookup(d) == IF activeRoute[d] # None THEN activeRoute[d] ELSE route[d]

\* storeSession refuses a host whose present session is connected
HostTaken_Never(d) == FALSE
HostTaken(d) == Connected(route[d])

\* resumeTunnel's checks: id, resume token, shape and principal must all match.  The
\* protocol of a shape is the normalized one, which is what the client sends.
CanResume_AnyOwner(s, token, p, sh) ==
  Known(s) /\ token = s /\ sessions[s].shape = sh
CanResume(s, token, p, sh) ==
  /\ Known(s)
  /\ token = s
  /\ sessions[s].shape = sh
  /\ sessions[s].owner = p

-----------------------------------------------------------------------------
(* storeSession, from Lock to the end, in its three outcomes.  s is the id *)
(* drawn for the session; new is its record.                               *)

Draw_Reuse(s) == ~Known(s) /\ issued' = issued \cup {s}
Draw(s) == s \notin issued /\ issued' = issued \cup {s}

\* sessions with the old holder of the host removed (removeSessionLocked)
Evicted(old) == [s \in Sids |-> IF s = old THEN None ELSE sessions[s]]

\* the host is free or its session is not connected: take it over, and save
StoreSession(s, new) ==
  LET old == route[new.sub] IN
  /\ Draw(s)
  /\ ~HostTaken(new.sub)
  /\ sessions' = [Evicted(old) EXCEPT ![s] = new]
  /\ route' = [route EXCEPT ![new.sub] = s]
  /\ activeRoute' = IF new.connection = "connected" THEN Activate(new.sub, s)
                                                    ELSE Deactivate(new.sub, old)
  /\ store' = Upsert(s, new.sub, StatusOf(new.connection), TRUE)
  /\ UNCHANGED restarts

\* the save fails: the new session is removed again, the old one stays evicted
StoreUnsaved_Kept(s, new) ==
  /\ Draw(s)
  /\ ~HostTaken(new.sub)
  /\ sessions' = [Evicted(route[new.sub]) EXCEPT ![s] = new]
  /\ route' = [route EXCEPT ![new.sub] = s]
  /\ activeRoute' = Activate(new.sub, s)
  /\ UNCHANGED <<store, restarts>>
StoreUnsaved_KeepsRoute(s, new) ==
  /\ Draw(s)
  /\ ~HostTaken(new.sub)
  /\ sessions' = Evicted(route[new.sub])
  /\ route' = [route EXCEPT ![new.sub] = s]
  /\ activeRoute' = Deactivate(new.sub, route[new.sub])
  /\ UNCHANGED <<store, restarts>>
StoreUnsaved(s, new) ==
  LET old == route[new.sub] IN
  /\ Draw(s)
  /\ ~HostTaken(new.sub)
  /\ sessions' = Evicted(old)
  /\ route' = [route EXCEPT ![new.sub] = None]
  /\ activeRoute' = IF new.connection = "connected" THEN Activate(new.sub, None)
                                                    ELSE Deactivate(new.sub, old)
  /\ UNCHANGED <<store, restarts>>

\* the host belongs to a connected session: error, nothing else changes
StoreConflict(s, new) ==
  /\ Draw(s)
  /\ HostTaken(new.sub)
  /\ UNCHANGED <<sessions, route, activeRoute, store, restarts>>

-----------------------------------------------------------------------------
(* The operations on an existing session.  saved says whether the registry *)
(* write succeeds; its error is ignored by the code.                       *)

\* resumeTunnel, after its checks
ResumeTunnel(s, c, token, p, sh, saved) ==
  /\ CanResume(s, token, p, sh)
  /\ sessions' = [sessions EXCEPT ![s] =
                    [@ EXCEPT !.connection = "connected", !.conn = c, !.owner = p]]
  /\ activeRoute' = Activate(sessions[s].sub, s)
  /\ store' = Upsert(s, sessions[s].sub, "connected", saved)
  /\ UNCHANGED <<route, issued, restarts>>

\* TouchHeartbeat of a session that exists
TouchHeartbeat(s, saved) ==
  /\ Known(s)
  /\ sessions' = [sessions EXCEPT ![s] = [@ EXCEPT !.connection = "connected"]]
  /\ activeRoute' = Activate(sessions[s].sub, s)
  /\ store' = Upsert(s, sessions[s].sub, "connected", saved)
  /\ UNCHANGED <<route, issued, restarts>>

\* DetachConnection: unconditional, whoever holds the session now
DetachConnection(s, saved) ==
  IF Known(s)
  THEN /\ sessions' = [sessions EXCEPT ![s] =
                         [@ EXCEPT !.connection = "disconnected", !.conn = None]]
       /\ activeRoute' = Deactivate(sessions[s].sub, s)
       /\ store' = Upsert(s, sessions[s].sub, "disconnected", saved)
       /\ UNCHANGED <<route, issued, restarts>>
  ELSE UNCHANGED mvars

\* The daemon stops, however it stops, and starts again: NewManagerWithStore
\* starts from empty maps and never reads the registry back.
ManagerRestart ==
  /\ restarts < MaxRestarts
  /\ restarts' = restarts + 1
  /\ sessions' = [s \in Sids |-> None]
  /\ route' = [d \in Subdomains |-> None]
  /\ activeRoute' = [d \in Subdomains |-> None]
  /\ UNCHANGED <<store, issued>>

ManagerNext ==
  \/ \E s \in Sids, new \in Created \cup Registered :
       \/ StoreSession(s, new)
       \/ StoreUnsaved(s, new)
       \/ StoreConflict(s, new)
  \/ \E s \in Sids, saved \in BOOLEAN :
       \/ \E c \in Conns, t \in Sids, p \in Principals, sh \in Shapes :
            ResumeTunnel(s, c, t, p, sh, saved)
       \/ TouchHeartbeat(s, saved)
       \/ DetachConnection(s, saved)
  \/ ManagerRestart

ManagerSpec == ManagerInit /\ [][ManagerNext]_mvars

-----------------------------------------------------------------------------
(* Properties.                                                             *)

\* Every variable has its type.
ManagerTypeOK ==
  /\ sessions \in [Sids -> Session \cup {None}]
  /\ route \in [Subdomains -> Sids \cup {None}]
  /\ activeRoute \in [Subdomains -> Sids \cup {None}]
  /\ store \in [Sids -> StoredTunnel \cup {None}]
  /\ issued \in SUBSET Sids
  /\ restarts \in 0..MaxRestarts

\* The host index and the session table agree in both directions, also after a
\* takeover of a disconnected session's host and after a failed save: a host
\* leads to a session that exists and owns it, and every session is reachable
\* (storeSession, removeSessionLocked).
RouteIndex ==
  /\ \A d \in Subdomains : route[d] # None =>
       sessions[route[d]] # None /\ sessions[route[d]].sub = d
  /\ \A s \in Sids : sessions[s] # None => route[sessions[s].sub] = s

\* The active index names a host exactly when the session that owns the host is
\* connected, and names that session: what ForwardRequest reads from
\* LookupByHost never contradicts the session's own state.
ActiveIffConnected ==
  \A d \in Subdomains :
    activeRoute[d] = IF Connected(route[d]) THEN route[d] ELSE None

\* Every session in memory has a registry record with its subdomain, so that a
\* subdomain in use is never handed out again, not even after a restart
\* (persistTunnelLocked in storeSession, ensureSubdomainAvailable).
DurableBacked ==
  \A s \in Sids : sessions[s] # None =>
    store[s] # None /\ store[s].sub = sessions[s].sub

\* A session keeps its subdomain, its owner and its shape for as long as it
\* exists: a resume never moves a tunnel to another principal or target
\* (resumeTunnel's checks).
IdentityStable ==
  [][\A s \in Sids : sessions[s] # None /\ sessions'[s] # None =>
       /\ sessions'[s].sub = sessions[s].sub
       /\ sessions'[s].owner = sessions[s].owner
       /\ sessions'[s].shape = sessions[s].shape]_mvars

\* What the HTTP side sees, a host looked up through the active index and then
\* through the index of all known hosts, is one directory: at most one holder
\* per host, and no registration, however stale its availability check, takes a
\* host from a connected session (LookupByHost, storeSession).
Directory == INSTANCE HostDirectory WITH
  Hosts <- Subdomains,
  holder <- [d \in Subdomains |-> Lookup(d)],
  live <- {d \in Subdomains : activeRoute[d] # None}

ImplementsDirectory == Directory!DirectorySpec
=============================================================================
