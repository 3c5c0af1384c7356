--------------------------- MODULE ControlServer ---------------------------
(***************************************************************************)
(* The control server of the daemon (internal/control/protocol_server.go): *)
(* one goroutine per control connection, which registers or resumes a      *)
(* tunnel, serves it until the connection ends and then cleans up, next to *)
(* session creation over HTTP and to the lookups of the public listener.   *)
(* The components it calls, the session manager and the tunnel quota, are  *)
(* SessionManager and TunnelQuota; each call is atomic there, and handlers *)
(* interleave between calls.                                               *)
(*                                                                         *)
(* pc of a handler, by the call it makes next:                             *)
(*   accepted   read and validate the register message                     *)
(*   authed     ReserveTunnel, for a fresh tunnel                          *)
(*   reserved   RegisterTunnel: resumeTunnel, or allocateSubdomain         *)
(*   allocated  storeSession                                               *)
(*   stored     newProtocolPeer, addPeer                                   *)
(*   peered     RestoreTunnel or ConfirmTunnel                             *)
(*   counted    send the registered message                                *)
(*   serving    the read loop                                              *)
(*   failed     the deferred ReleaseTunnelReservation                      *)
(*   closing    the deferred cleanup: peer.close, removePeer               *)
(*   removed    DetachConnection                                           *)
(*   detached   TrackTunnelClosed, failPending, conn.Close                 *)
(*   done                                                                  *)
(* The streams of requests inside a connection are in RequestStream.       *)
(***************************************************************************)
EXTENDS SessionManager, FiniteSets

CONSTANTS
  Calls,            \* HTTP calls that create a session
  Requests,         \* public HTTP requests to be forwarded
  Users,            \* user ids
  UserOf,           \* [Principals -> Users]: the user a token belongs to
  HTTPShapes,       \* the shapes whose protocol is http or https
  MaxActiveTunnels  \* plan limit on active tunnels per user; 0 means no limit

ASSUME ControlAssumption ==
  /\ Calls \cap Conns = {}
  /\ UserOf \in [Principals -> Users]
  /\ None \notin Conns \cup Users \cup Subdomains
  /\ IsFiniteSet(Conns)
  /\ Shapes # {} /\ HTTPShapes \subseteq Shapes
  /\ MaxActiveTunnels \in Nat

VARIABLES
  pc,       \* [Conns \cup Calls -> Stages]
  req,      \* [Conns -> RegisterMsg or None]: the register message and its principal
  sub,      \* [Conns \cup Calls -> Subdomains or None]: the subdomain allocated
  sid,      \* [Conns -> Sids or None]: sessionID of the handler
  resv,     \* [Conns -> Users or None]: tunnelReservation
  open,     \* the connections that are open
  peers,    \* [Sids -> Conns or None]: protocolServer.peers
  told,     \* sessions whose resume token was sent to a client
  fwd,      \* [Requests -> Forward]: progress of ForwardRequest
  activeTunnels, reservedTunnels   \* the state of TunnelQuota

Quota == INSTANCE TunnelQuota

hvars == <<pc, req, sub, sid, resv, open, peers, told>>
cvars == <<mvars, hvars, fwd, activeTunnels, reservedTunnels>>
qvars == <<activeTunnels, reservedTunnels>>

Stages == {"accepted", "authed", "reserved", "allocated", "stored", "peered",
           "counted", "serving", "failed", "closing", "removed", "detached", "done"}

RegisterMsg == [principal : Principals, shape : Shapes,
                resume : Sids \cup {None}, token : Sids \cup {None}]

Forward == [at : {"new", "looked", "sent", "refused"}, host : Subdomains \cup {None},
            sid : Sids \cup {None}, peer : Conns \cup {None}]

NewForward == [at |-> "new", host |-> None, sid |-> None, peer |-> None]

ControlInit ==
  /\ ManagerInit
  /\ Quota!QuotaInit
  /\ pc = [h \in Conns \cup Calls |-> "accepted"]
  /\ req = [c \in Conns |-> None]
  /\ sub = [h \in Conns \cup Calls |-> None]
  /\ sid = [c \in Conns |-> None]
  /\ resv = [c \in Conns |-> None]
  /\ open = Conns
  /\ peers = [s \in Sids |-> None]
  /\ told = {}
  /\ fwd = [r \in Requests |-> NewForward]

Goto(h, stage) == pc' = [pc EXCEPT ![h] = stage]

User(c) == UserOf[req[c].principal]

Fresh(c) == req[c].resume = None

-----------------------------------------------------------------------------
(* Registration.                                                           *)

\* the register message is read, well formed, and its token valid: a fresh
\* tunnel names neither a session nor a resume token, a resume names both
ReadRegister(c) ==
  /\ pc[c] = "accepted" /\ c \in open
  /\ \E p \in Principals, sh \in Shapes, s \in Sids \cup {None}, t \in told \cup {None} :
       /\ (s = None) = (t = None)
       /\ req' = [req EXCEPT ![c] = [principal |-> p, shape |-> sh,
                                     resume |-> s, token |-> t]]
  /\ Goto(c, "authed")
  /\ UNCHANGED <<mvars, qvars, sub, sid, resv, open, peers, told, fwd>>

\* no message in time, a malformed one, or a token that is not valid
RefuseRegister(c) ==
  /\ pc[c] = "accepted"
  /\ Goto(c, "done")
  /\ open' = open \ {c}
  /\ UNCHANGED <<mvars, qvars, req, sub, sid, resv, peers, told, fwd>>

\* ReserveTunnel for a fresh tunnel; a resume takes no reservation
Reserve_ForToken(c) ==
  /\ pc[c] = "authed"
  /\ IF Fresh(c)
     THEN Quota!ReserveTunnel(User(c)) /\ resv' = [resv EXCEPT ![c] = req[c].principal]
     ELSE UNCHANGED <<qvars, resv>>
  /\ Goto(c, "reserved")
  /\ UNCHANGED <<mvars, req, sub, sid, open, peers, told, fwd>>
Reserve_Unchecked(c) ==
  /\ pc[c] = "authed"
  /\ IF Fresh(c)
     THEN /\ reservedTunnels' = [reservedTunnels EXCEPT ![User(c)] = @ + 1]
          /\ resv' = [resv EXCEPT ![c] = User(c)]
     ELSE UNCHANGED <<reservedTunnels, resv>>
  /\ Goto(c, "reserved")
  /\ UNCHANGED <<mvars, activeTunnels, req, sub, sid, open, peers, told, fwd>>
Reserve(c) ==
  /\ pc[c] = "authed"
  /\ IF Fresh(c)
     THEN Quota!ReserveTunnel(User(c)) /\ resv' = [resv EXCEPT ![c] = User(c)]
     ELSE UNCHANGED <<qvars, resv>>
  /\ Goto(c, "reserved")
  /\ UNCHANGED <<mvars, req, sub, sid, open, peers, told, fwd>>

OverLimit(c) ==
  /\ pc[c] = "authed" /\ Fresh(c) /\ ~Quota!TunnelRoom(User(c))
  /\ Goto(c, "done")
  /\ open' = open \ {c}
  /\ UNCHANGED <<mvars, qvars, req, sub, sid, resv, peers, told, fwd>>

\* resumeTunnel succeeds
Resume(c) ==
  /\ pc[c] = "reserved" /\ ~Fresh(c)
  /\ \E saved \in BOOLEAN :
       ResumeTunnel(req[c].resume, c, req[c].token, req[c].principal, req[c].shape, saved)
  /\ sid' = [sid EXCEPT ![c] = req[c].resume]
  /\ Goto(c, "stored")
  /\ UNCHANGED <<qvars, req, sub, resv, open, peers, told, fwd>>

InvalidResume(c) ==
  /\ pc[c] = "reserved" /\ ~Fresh(c)
  /\ ~CanResume(req[c].resume, req[c].token, req[c].principal, req[c].shape)
  /\ Goto(c, "failed")
  /\ UNCHANGED <<mvars, qvars, req, sub, sid, resv, open, peers, told, fwd>>

\* allocateSubdomain, for a fresh tunnel and for a session created over HTTP.
\* The subdomain is not claimed before storeSession.
Allocate(h) ==
  /\ \/ h \in Conns /\ pc[h] = "reserved" /\ Fresh(h)
     \/ h \in Calls /\ pc[h] = "accepted"
  /\ \E d \in Subdomains : Available(d) /\ sub' = [sub EXCEPT ![h] = d]
  /\ Goto(h, "allocated")
  /\ UNCHANGED <<mvars, qvars, req, sid, resv, open, peers, told, fwd>>

\* 32 labels in a row are taken, or the request itself is refused
NotAllocated(h) ==
  /\ \/ h \in Conns /\ pc[h] = "reserved" /\ Fresh(h) /\ Goto(h, "failed")
     \/ h \in Calls /\ pc[h] = "accepted" /\ Goto(h, "done")
  /\ UNCHANGED <<mvars, qvars, req, sub, sid, resv, open, peers, told, fwd>>

\* the record a handler stores
NewSession(h) ==
  IF h \in Conns
  THEN [sub |-> sub[h], owner |-> req[h].principal, shape |-> req[h].shape,
        connection |-> "connected", conn |-> h]
  ELSE [sub |-> sub[h], owner |-> None, shape |-> CHOOSE sh \in Shapes : TRUE,
        connection |-> "idle", conn |-> None]

Store(h) ==
  /\ pc[h] = "allocated"
  /\ \E s \in Sids :
       /\ StoreSession(s, NewSession(h))
       /\ sid' = IF h \in Conns THEN [sid EXCEPT ![h] = s] ELSE sid
  /\ Goto(h, IF h \in Conns THEN "stored" ELSE "done")
  /\ UNCHANGED <<qvars, req, sub, resv, open, peers, told, fwd>>

NotStored(h) ==
  /\ pc[h] = "allocated"
  /\ \E s \in Sids : StoreUnsaved(s, NewSession(h)) \/ StoreConflict(s, NewSession(h))
  /\ Goto(h, IF h \in Conns THEN "failed" ELSE "done")
  /\ UNCHANGED <<qvars, req, sub, sid, resv, open, peers, told, fwd>>

\* addPeer: the peer it replaces has its requests failed and its connection closed
AddPeer_LeavesOld(c) ==
  /\ pc[c] = "stored"
  /\ peers' = [peers EXCEPT ![sid[c]] = c]
  /\ Goto(c, "peered")
  /\ UNCHANGED <<mvars, qvars, req, sub, sid, resv, open, told, fwd>>
AddPeer(c) ==
  /\ pc[c] = "stored"
  /\ open' = open \ ({peers[sid[c]]} \ {c})
  /\ peers' = [peers EXCEPT ![sid[c]] = c]
  /\ Goto(c, "peered")
  /\ UNCHANGED <<mvars, qvars, req, sub, sid, resv, told, fwd>>

\* RestoreTunnel of a resumed tunnel, ConfirmTunnel of a fresh one
CountTunnel(c) ==
  /\ pc[c] = "peered"
  /\ IF Fresh(c) THEN Quota!ConfirmTunnel(resv[c], sid[c])
                 ELSE Quota!RestoreTunnel(User(c), sid[c])
  /\ resv' = [resv EXCEPT ![c] = None]
  /\ Goto(c, "counted")
  /\ UNCHANGED <<mvars, req, sub, sid, open, peers, told, fwd>>

\* the registered message reaches the client, with the resume token if the
\* session still exists
SendRegistered(c) ==
  /\ pc[c] = "counted" /\ c \in open
  /\ told' = IF Known(sid[c]) THEN told \cup {sid[c]} ELSE told
  /\ Goto(c, "serving")
  /\ UNCHANGED <<mvars, qvars, req, sub, sid, resv, open, peers, fwd>>

\* the connection fails before or while the message is sent
NotSent(c) ==
  /\ pc[c] = "counted"
  /\ Goto(c, "closing")
  /\ UNCHANGED <<mvars, qvars, req, sub, sid, resv, open, peers, told, fwd>>

-----------------------------------------------------------------------------
(* Serving.                                                                *)

\* a ping, possibly one that was buffered before the connection was closed
Ping(c) ==
  /\ pc[c] = "serving"
  /\ \E saved \in BOOLEAN : TouchHeartbeat(sid[c], saved)
  /\ UNCHANGED <<qvars, hvars, fwd>>

\* a ping for a session that no longer exists ends the connection
UnknownSession(c) ==
  /\ pc[c] = "serving" /\ ~Known(sid[c])
  /\ Goto(c, "closing")
  /\ UNCHANGED <<mvars, qvars, req, sub, sid, resv, open, peers, told, fwd>>

\* end of stream, read error, missed heartbeats, a close or an error message
LeaveLoop(c) ==
  /\ pc[c] = "serving"
  /\ Goto(c, "closing")
  /\ UNCHANGED <<mvars, qvars, req, sub, sid, resv, open, peers, told, fwd>>

-----------------------------------------------------------------------------
(* The deferred calls, last one first.                                     *)

\* RegisterTunnel failed: give the place back; there is no session to clean up
ReleaseReservation_Forgotten(c) ==
  /\ pc[c] = "failed"
  /\ UNCHANGED qvars
  /\ resv' = [resv EXCEPT ![c] = None]
  /\ Goto(c, "done")
  /\ open' = open \ {c}
  /\ UNCHANGED <<mvars, req, sub, sid, peers, told, fwd>>
ReleaseReservation(c) ==
  /\ pc[c] = "failed"
  /\ IF resv[c] # None THEN Quota!ReleaseTunnelReservation(resv[c]) ELSE UNCHANGED qvars
  /\ resv' = [resv EXCEPT ![c] = None]
  /\ Goto(c, "done")
  /\ open' = open \ {c}
  /\ UNCHANGED <<mvars, req, sub, sid, peers, told, fwd>>

\* removePeer: only if the entry still is this peer
RemovePeer_SkipsDetach(c) ==
  /\ pc[c] = "closing"
  /\ peers' = [peers EXCEPT ![sid[c]] = IF @ = c THEN None ELSE @]
  /\ Goto(c, IF peers[sid[c]] = c THEN "removed" ELSE "detached")
  /\ UNCHANGED <<mvars, qvars, req, sub, sid, resv, open, told, fwd>>
RemovePeer(c) ==
  /\ pc[c] = "closing"
  /\ peers' = [peers EXCEPT ![sid[c]] = IF @ = c THEN None ELSE @]
  /\ Goto(c, "removed")
  /\ UNCHANGED <<mvars, qvars, req, sub, sid, resv, open, told, fwd>>

\* DetachConnection: of the session, not of this connection's hold on it
Detach(c) ==
  /\ pc[c] = "removed"
  /\ \E saved \in BOOLEAN : DetachConnection(sid[c], saved)
  /\ Goto(c, "detached")
  /\ UNCHANGED <<qvars, req, sub, sid, resv, open, peers, told, fwd>>

CloseTunnel(c) ==
  /\ pc[c] = "detached"
  /\ Quota!TrackTunnelClosed(User(c), sid[c])
  /\ Goto(c, "done")
  /\ open' = open \ {c}
  /\ UNCHANGED <<mvars, req, sub, sid, resv, peers, told, fwd>>

-----------------------------------------------------------------------------
(* ForwardRequest: the session of the host, then the peer of the session.  *)

LookupHost(r, d) ==
  /\ fwd[r].at = "new"
  /\ fwd' = [fwd EXCEPT ![r] =
       IF Connected(Lookup(d)) /\ sessions[Lookup(d)].shape \in HTTPShapes
       THEN [at |-> "looked", host |-> d, sid |-> Lookup(d), peer |-> None]
       ELSE [@ EXCEPT !.at = "refused"]]
  /\ UNCHANGED <<mvars, qvars, hvars>>

LookupPeer(r) ==
  LET peer == peers[fwd[r].sid] IN
  /\ fwd[r].at = "looked"
  /\ fwd' = [fwd EXCEPT ![r].peer = peer,
                        ![r].at = IF peer # None THEN "sent" ELSE "refused"]
  /\ UNCHANGED <<mvars, qvars, hvars>>

-----------------------------------------------------------------------------
(* The environment.                                                        *)

\* the client or the network closes a connection
Disconnect(c) ==
  /\ c \in open
  /\ open' = open \ {c}
  /\ UNCHANGED <<mvars, qvars, pc, req, sub, sid, resv, peers, told, fwd>>

\* The process stops and starts again: every connection accepted so far, every
\* handler and every request is gone.  waiting are the connections and calls that
\* have not reached the daemon yet.
RestartKeeping(waiting) ==
  /\ ManagerRestart
  /\ Quota!QuotaRestart
  /\ pc' = [h \in Conns \cup Calls |-> IF h \in waiting THEN pc[h] ELSE "done"]
  /\ open' = open \cap waiting
  /\ sid' = [c \in Conns |-> None]
  /\ resv' = [c \in Conns |-> None]
  /\ peers' = [s \in Sids |-> None]
  /\ fwd' = [r \in Requests |-> IF fwd[r].at = "new" THEN fwd[r]
                                ELSE [NewForward EXCEPT !.at = "refused"]]
  /\ UNCHANGED <<req, sub, told>>

Restart == RestartKeeping({h \in Conns \cup Calls : pc[h] = "accepted"})

\* one step of the handler of a connection
Handle(c) ==
  \/ ReadRegister(c) \/ RefuseRegister(c)
  \/ Reserve(c) \/ OverLimit(c)
  \/ Resume(c) \/ InvalidResume(c)
  \/ AddPeer(c) \/ CountTunnel(c)
  \/ SendRegistered(c) \/ NotSent(c)
  \/ Ping(c) \/ UnknownSession(c) \/ LeaveLoop(c)
  \/ ReleaseReservation(c)
  \/ RemovePeer(c) \/ Detach(c) \/ CloseTunnel(c)

\* the steps shared with session creation over HTTP
StoreSteps(h) == Allocate(h) \/ NotAllocated(h) \/ Store(h) \/ NotStored(h)

ControlNext ==
  \/ \E c \in Conns : Handle(c) \/ Disconnect(c)
  \/ \E h \in Conns \cup Calls : StoreSteps(h)
  \/ \E r \in Requests : LookupPeer(r) \/ \E d \in Subdomains : LookupHost(r, d)
  \/ Restart

ControlSpec == ControlInit /\ [][ControlNext]_cvars
-----------------------------------------------------------------------------
(* Properties.                                                             *)

\* Every variable has its type.
ControlTypeOK ==
  /\ ManagerTypeOK
  /\ pc \in [Conns \cup Calls -> Stages]
  /\ req \in [Conns -> RegisterMsg \cup {None}]
  /\ sub \in [Conns \cup Calls -> Subdomains \cup {None}]
  /\ sid \in [Conns -> Sids \cup {None}]
  /\ resv \in [Conns -> Users \cup {None}]
  /\ open \in SUBSET Conns
  /\ peers \in [Sids -> Conns \cup {None}]
  /\ told \in SUBSET Sids
  /\ fwd \in [Requests -> Forward]
  /\ activeTunnels \in [Users -> SUBSET Sids]
  /\ reservedTunnels \in [Users -> Nat]

\* the handlers between RegisterTunnel and DetachConnection, those with a peer
\* entry of their own, and those whose tunnel has been counted
Holding == {"stored", "peered", "counted", "serving", "closing", "removed"}
Peered == {"peered", "counted", "serving", "closing"}
Counted == {"counted", "serving", "closing", "removed", "detached"}

\* A session is connected only while a handler exists that will detach it: no
\* order of resumes, pings and cleanups leaves a session that answers for its
\* host with nobody behind it (handleConnection's deferred cleanup).
NoGhostSession ==
  \A s \in Sids : Connected(s) => \E c \in Conns : sid[c] = s /\ pc[c] \in Holding

\* The peer table and the open connections agree: an entry leads to a handler that
\* serves that session or is about to remove the entry, and of the connections that
\* registered the same session only the one in the table stays open, also when two
\* resumes race between RegisterTunnel and addPeer (addPeer, removePeer).
PeerTable ==
  /\ \A s \in Sids : peers[s] # None =>
       sid[peers[s]] = s /\ pc[peers[s]] \in Peered
  /\ \A c \in Conns : pc[c] \in Peered /\ c \in open => peers[sid[c]] = c

\* No place in a plan leaks: every reservation counted for a user is held by a
\* handler that will confirm it or give it back, and every tunnel counted has a
\* handler of that user that will take it off again, over refused, failed and
\* interrupted registrations and resumes (ReserveTunnel, ReleaseTunnelReservation,
\* ConfirmTunnel, RestoreTunnel, TrackTunnelClosed).
PlacesHeld ==
  \A u \in Users :
    /\ reservedTunnels[u] = Cardinality({c \in Conns : resv[c] = u})
    /\ \A s \in activeTunnels[u] :
         \E c \in Conns : sid[c] = s /\ pc[c] \in Counted /\ User(c) = u

\* The tunnels that were never resumed, and the places reserved for more, stay
\* within the plan: registrations that race for the last place do not overshoot
\* it (ReserveTunnel, ConfirmTunnel).
FreshTunnels(u) ==
  {s \in activeTunnels[u] : \A c \in Conns : sid[c] = s => Fresh(c)}
FreshTunnelsWithinPlan ==
  MaxActiveTunnels > 0 => \A u \in Users :
    Cardinality(FreshTunnels(u)) + reservedTunnels[u] <= MaxActiveTunnels

\* A forwarded request is handed to the connection of the session that owns the
\* host it asked for, although the host may change hands and connections may be
\* replaced between the two lookups (ForwardRequest).
RequestReachesOwner ==
  \A r \in Requests : fwd[r].at = "sent" =>
    /\ sid[fwd[r].peer] = fwd[r].sid
    /\ store[fwd[r].sid].sub = fwd[r].host

\* A tunnel that is being served by the current peer of its session is counted
\* against its user's plan (RestoreTunnel "marks a resumed tunnel active").
ServedIsCounted ==
  \A c \in Conns : pc[c] = "serving" /\ peers[sid[c]] = c =>
    sid[c] \in activeTunnels[User(c)]
=============================================================================
