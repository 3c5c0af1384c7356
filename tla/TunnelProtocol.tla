--------------------------- MODULE TunnelProtocol ---------------------------
(***************************************************************************)
(* Both ends of one control connection and the requests multiplexed on it: *)
(* the daemon (internal/control/protocol_server.go, protocol_peer.go) and  *)
(* the client (pkg/client/tunnel.go, tunnel_request.go, upgrade.go).       *)
(*                                                                         *)
(* A request is forwarded with request_start, request_body*, request_end,  *)
(* answered with response_start, response_body*, response_end, and ended   *)
(* early by request_cancel or by an error that carries its id.  Each end   *)
(* reads its connection in one goroutine.  The daemon has a goroutine for  *)
(* the request body, the client a worker that calls the local service.     *)
(*                                                                         *)
(* A request ends in one step on the daemon's side (RequestStream has the  *)
(* goroutines that race to end it).  Payloads, headers and flow control    *)
(* are left out.  An upgraded request has the same frames, but the daemon  *)
(* sends no body before the response has started, and at the client        *)
(* another goroutine writes the body to the local connection and cancels   *)
(* the request when that fails (pumpUpgradeInput).  Ids are never used     *)
(* twice (newRequestID), so a duplicate request_start is left out.         *)
(***************************************************************************)
EXTENDS Naturals, FiniteSets, SequencesExt

CONSTANTS
  Reqs,         \* request ids
  Upgrades,     \* those that ask for an upgrade
  MaxStreams,   \* MaxConcurrentStreams, the same at both ends
  Capacity,     \* frames of one request enqueued or on the connection, in one direction
  MaxErrors     \* bound on the errors enqueued or on the connection, in one direction

ASSUME ProtocolAssumption ==
  /\ IsFiniteSet(Reqs) /\ Upgrades \subseteq Reqs
  /\ {MaxStreams, Capacity, MaxErrors} \subseteq Nat \ {0}

VARIABLES
  server,     \* [Reqs -> string]: the daemon's side of a request
  upload,     \* [Reqs -> string]: streamRequestReader
  active,     \* the client's map of requests
  worker,     \* [Reqs -> string]: executeRequest
  ctx,        \* [Reqs -> string]: the client's context of a request; "stopped" by its
              \* deadline or by a failing write to the local connection, which
              \* the daemon is not told
  enqueuing,  \* the request whose body frame the client's read loop is handing over
  toClient, toServer,    \* [Reqs -> Seq]: messages enqueued or on the connection
  serverUp, clientUp     \* the read loops are running

daemonSide == <<server, upload, serverUp>>
clientSide == <<active, worker, ctx, enqueuing, clientUp>>
vars == <<daemonSide, clientSide, toClient, toServer>>

Pending == {"waiting", "started"}
Working == {"proxy", "stream"}

ToClientTypes == {"request_start", "request_body", "request_end", "request_cancel", "error"}
ToServerTypes == {"response_start", "response_body", "response_end", "error"}

Empty == [r \in Reqs |-> <<>>]

ProtocolInit ==
  /\ server = [r \in Reqs |-> "new"]
  /\ upload = [r \in Reqs |-> "closed"]
  /\ active = {} /\ enqueuing = {}
  /\ worker = [r \in Reqs |-> "none"]
  /\ ctx = [r \in Reqs |-> "live"]
  /\ toClient = Empty /\ toServer = Empty
  /\ serverUp = TRUE /\ clientUp = TRUE

\* The frames of a request and the control messages of the connection have queues of
\* their own.
Errors(queue) == {i \in DOMAIN queue : queue[i] = "error"}
Room(queues, r, type) ==
  IF type = "error"
  THEN MapThenSumSet(LAMBDA q : Cardinality(Errors(queues[q])), Reqs) < MaxErrors
  ELSE Len(queues[r]) - Cardinality(Errors(queues[r])) < Capacity

\* Where the dispatcher may place a message among those of its request: a frame at the
\* end; an error ahead of the frames that are not written yet, and how many are is
\* arbitrary.  The other end may read messages of different requests in any order.
Put(queue, type) ==
  IF type = "error"
  THEN {InsertAt(queue, i, type) : i \in
         {j \in 1..(Len(queue) + 1) : \A k \in j..Len(queue) : queue[k] # "error"}}
  ELSE {Append(queue, type)}

\* nothing is kept for an end that has stopped reading
Tell(r, type) ==
  IF ~clientUp THEN UNCHANGED toClient
  ELSE /\ Room(toClient, r, type)
       /\ \E q \in Put(toClient[r], type) : toClient' = [toClient EXCEPT ![r] = q]
Answer(r, type) ==
  IF ~serverUp THEN UNCHANGED toServer
  ELSE /\ Room(toServer, r, type)
       /\ \E q \in Put(toServer[r], type) : toServer' = [toServer EXCEPT ![r] = q]

-----------------------------------------------------------------------------
(* The ends of the session.                                                *)

\* RunControlProtocol returns: failPending finishes every request
ServerEnds ==
  /\ serverUp' = FALSE
  /\ server' = [r \in Reqs |-> IF server[r] \in Pending THEN "over" ELSE server[r]]
  /\ toServer' = Empty

\* The context is cancelled and there is nothing left that the daemon should hear, but
\* for the idle timer's error.
Stop(r) == IF ctx[r] = "idle" THEN "idle" ELSE "canceled"

\* Run returns: cancelActiveRequests, and the dispatcher and the connection are closed
ClientEnds ==
  /\ clientUp' = FALSE
  /\ ctx' = [r \in Reqs |-> IF r \in active THEN Stop(r) ELSE ctx[r]]
  /\ active' = {} /\ enqueuing' = {}
  /\ toClient' = Empty

\* reading fails: the connection has failed or the other end has closed it
ServerReadFails ==
  /\ serverUp
  /\ ServerEnds
  /\ UNCHANGED <<upload, clientSide, toClient>>

ClientReadFails ==
  /\ clientUp
  /\ ClientEnds
  /\ UNCHANGED <<daemonSide, worker, toServer>>

-----------------------------------------------------------------------------
(* The daemon sends.                                                       *)

\* forwardHTTP, once a stream slot is free
Forward(r) ==
  /\ serverUp /\ server[r] = "new"
  /\ Cardinality({q \in Reqs : server[q] \in Pending}) < MaxStreams
  /\ server' = [server EXCEPT ![r] = "waiting"]
  /\ upload' = [upload EXCEPT ![r] = IF r \in Upgrades THEN @ ELSE "open"]
  /\ Tell(r, "request_start")
  /\ UNCHANGED <<serverUp, clientSide, toServer>>

\* streamRequestReader.  It looks at the context before each read: once the request
\* is over it may send one frame more.
SendBody(r) ==
  /\ serverUp /\ upload[r] = "open"
  /\ Tell(r, "request_body")
  /\ upload' = [upload EXCEPT ![r] = IF server[r] \in Pending THEN @ ELSE "closed"]
  /\ UNCHANGED <<server, serverUp, clientSide, toServer>>

SendEnd(r) ==
  /\ serverUp /\ upload[r] = "open"
  /\ Tell(r, "request_end")
  /\ upload' = [upload EXCEPT ![r] = "closed"]
  /\ UNCHANGED <<server, serverUp, clientSide, toServer>>

\* cancel: the HTTP client is gone, the stream timed out or was idle, or its body
\* failed.  With a full queue the request_cancel may not be accepted in time.
Cancel(r) ==
  /\ serverUp /\ server[r] \in Pending
  /\ server' = [server EXCEPT ![r] = "aborted"]
  /\ \/ Tell(r, "request_cancel")
     \/ ~Room(toClient, r, "request_cancel") /\ UNCHANGED toClient
  /\ UNCHANGED <<upload, serverUp, clientSide, toServer>>

-----------------------------------------------------------------------------
(* The daemon receives.                                                    *)

Receive(queue, type) == queue # <<>> /\ Head(queue) = type
ServerReads(r, type) ==
  /\ serverUp
  /\ Receive(toServer[r], type)
  /\ toServer' = [toServer EXCEPT ![r] = Tail(@)]

\* a frame out of order is answered with an error that the client gets first
Reject(r) ==
  /\ Tell(r, "error")
  /\ UNCHANGED server
Become(r, fate) ==
  /\ server' = [server EXCEPT ![r] = fate]
  /\ UNCHANGED toClient

\* the handler of an upgraded request now starts streamUpgradeData
RecvResponseStart(r) ==
  /\ ServerReads(r, "response_start")
  /\ IF server[r] = "waiting" THEN Become(r, "started") ELSE Reject(r)
  /\ upload' = [upload EXCEPT ![r] =
       IF server[r] = "waiting" /\ r \in Upgrades THEN "open" ELSE @]
  /\ UNCHANGED <<serverUp, clientSide>>

RecvResponseBody(r) ==
  /\ ServerReads(r, "response_body")
  /\ IF server[r] = "started" THEN UNCHANGED <<server, toClient>> ELSE Reject(r)
  /\ UNCHANGED <<upload, serverUp, clientSide>>

RecvResponseEnd(r) ==
  /\ ServerReads(r, "response_end")
  /\ IF server[r] \in Pending THEN Become(r, "over") ELSE Reject(r)
  /\ UNCHANGED <<upload, serverUp, clientSide>>

\* an error of a pending request ends the request, any other the session
RecvRequestError(r) ==
  /\ ServerReads(r, "error") /\ server[r] \in Pending
  /\ Become(r, "over")
  /\ UNCHANGED <<upload, serverUp, clientSide>>

RecvSessionError(r) ==
  /\ serverUp /\ Receive(toServer[r], "error") /\ server[r] \notin Pending
  /\ ServerEnds
  /\ UNCHANGED <<upload, clientSide, toClient>>

DaemonStep(r) ==
  \/ Forward(r) \/ SendBody(r) \/ SendEnd(r) \/ Cancel(r)
  \/ RecvResponseStart(r) \/ RecvResponseBody(r) \/ RecvResponseEnd(r)
  \/ RecvRequestError(r) \/ RecvSessionError(r)

-----------------------------------------------------------------------------
(* The client receives.                                                    *)

ClientReads(r, type) ==
  /\ clientUp /\ enqueuing = {}
  /\ Receive(toClient[r], type)
  /\ toClient' = [toClient EXCEPT ![r] = Tail(@)]

\* handleRequestStart
AcceptStart_NoLimit(r) ==
  /\ active' = active \cup {r}
  /\ worker' = [worker EXCEPT ![r] = "proxy"]
  /\ UNCHANGED toServer
AcceptStart(r) ==
  /\ Cardinality(active) < MaxStreams
  /\ active' = active \cup {r}
  /\ worker' = [worker EXCEPT ![r] = "proxy"]
  /\ UNCHANGED toServer
RefuseStart_Silently(r) ==
  /\ Cardinality(active) >= MaxStreams
  /\ UNCHANGED <<active, worker, toServer>>
RefuseStart(r) ==
  /\ Cardinality(active) >= MaxStreams
  /\ Answer(r, "error")
  /\ UNCHANGED <<active, worker>>
RecvRequestStart(r) ==
  /\ ClientReads(r, "request_start")
  /\ AcceptStart(r) \/ RefuseStart(r)
  /\ UNCHANGED <<daemonSide, ctx, enqueuing, clientUp>>

\* handleRequestBody and handleRequestEnd of a request that the client does not know
RecvUnknown(r) ==
  /\ r \notin active
  /\ ClientReads(r, "request_body") \/ ClientReads(r, "request_end")
  /\ Answer(r, "error")
  /\ UNCHANGED <<daemonSide, clientSide>>

\* enqueueBody, up to the unlock
RecvRequestBody(r) ==
  /\ r \in active /\ ClientReads(r, "request_body")
  /\ worker[r] # "leave"
  /\ enqueuing' = {r}
  /\ UNCHANGED <<daemonSide, active, worker, ctx, clientUp, toServer>>

\* its select, after the unlock: the chunk goes into bodyChunks
Enqueued(r) ==
  /\ r \in enqueuing /\ r \in active
  /\ enqueuing' = {}
  /\ UNCHANGED <<daemonSide, active, worker, ctx, clientUp, toClient, toServer>>

\* The request is finished, or its context is done, or bodyChunks has been closed
\* meanwhile and the send panics: in every case the session ends.
EnqueueFails(r) ==
  /\ \/ r \in active /\ worker[r] = "leave" /\ Receive(toClient[r], "request_body") /\ enqueuing = {}
     \/ r \in enqueuing /\ (ctx[r] # "live" \/ r \notin active)
  /\ ClientEnds
  /\ UNCHANGED <<daemonSide, worker, toServer>>

\* handleRequestEnd: the local service sees the end of the body
RecvRequestEnd(r) ==
  /\ r \in active /\ ClientReads(r, "request_end")
  /\ UNCHANGED <<daemonSide, clientSide, toServer>>

\* handleRequestCancel
RecvCancel_KeepsWork(r) ==
  /\ ClientReads(r, "request_cancel")
  /\ active' = active \ {r}
  /\ UNCHANGED <<daemonSide, ctx, worker, enqueuing, clientUp, toServer>>
RecvCancel(r) ==
  /\ ClientReads(r, "request_cancel")
  /\ active' = active \ {r}
  /\ ctx' = [ctx EXCEPT ![r] = IF r \in active THEN Stop(r) ELSE @]
  /\ UNCHANGED <<daemonSide, worker, enqueuing, clientUp, toServer>>

\* Run returns on any error, whatever its id
RecvError(r) ==
  /\ clientUp /\ enqueuing = {} /\ Receive(toClient[r], "error")
  /\ ClientEnds
  /\ UNCHANGED <<daemonSide, worker, toServer>>

-----------------------------------------------------------------------------
(* The client's worker for a request: executeRequest.  Once the session is *)
(* over it can tell nobody, and what it does then is left out.             *)

Work(r, from) == clientUp /\ worker[r] \in from
Goto(r, l) == worker' = [worker EXCEPT ![r] = l]

\* finish, then the deferred finishRequest is left
Finish(r) ==
  /\ Goto(r, "leave")
  /\ ctx' = [ctx EXCEPT ![r] = Stop(r)]

ProxyAnswers(r) ==
  /\ Work(r, {"proxy"})
  /\ Goto(r, "stream")
  /\ Answer(r, "response_start")
  /\ UNCHANGED <<daemonSide, active, ctx, enqueuing, clientUp, toClient>>

StreamBody(r) ==
  /\ Work(r, {"stream"})
  /\ Answer(r, "response_body")
  /\ UNCHANGED <<daemonSide, clientSide, toClient>>

StreamEnd(r) ==
  /\ Work(r, {"stream"})
  /\ Finish(r)
  /\ Answer(r, "response_end")
  /\ UNCHANGED <<daemonSide, active, enqueuing, clientUp, toClient>>

\* The local service fails, the deadline passes, or, once the response has started,
\* reading it fails because the context is done: the daemon is told.
WorkFails(r) ==
  /\ Work(r, Working)
  /\ Finish(r)
  /\ Answer(r, "error")
  /\ UNCHANGED <<daemonSide, active, enqueuing, clientUp, toClient>>

\* Cancelled before the response has started: no error.  A frame that cannot be
\* enqueued because the context is done: no error either.
WorkCanceled(r) ==
  /\ Work(r, Working) /\ ctx[r] # "live"
  /\ Goto(r, "leave")
  /\ UNCHANGED <<daemonSide, active, ctx, enqueuing, clientUp, toClient, toServer>>

\* finishRequest
Leave(r) ==
  /\ Work(r, {"leave"})
  /\ Goto(r, "done")
  /\ active' = active \ {r}
  /\ UNCHANGED <<daemonSide, ctx, enqueuing, clientUp, toClient, toServer>>

\* the idle timer cancels the context, ...
ClientIdle(r) ==
  /\ Work(r, Working) /\ r \in active /\ ctx[r] \in {"live", "stopped"}
  /\ ctx' = [ctx EXCEPT ![r] = "idle"]
  /\ UNCHANGED <<daemonSide, active, worker, enqueuing, clientUp, toClient, toServer>>

\* ... then tells the daemon, whatever has become of the request
IdleError(r) ==
  /\ clientUp /\ ctx[r] = "idle"
  /\ ctx' = [ctx EXCEPT ![r] = "canceled"]
  /\ Answer(r, "error")
  /\ UNCHANGED <<daemonSide, active, worker, enqueuing, clientUp, toClient>>

\* StreamTimeout
Expire(r) ==
  /\ Work(r, Working) /\ ctx[r] = "live"
  /\ ctx' = [ctx EXCEPT ![r] = "stopped"]
  /\ UNCHANGED <<daemonSide, active, worker, enqueuing, clientUp, toClient, toServer>>

\* pumpUpgradeInput: the write of a body frame to the local connection fails and
\* cancels the context; nobody is told.  That a frame has come is not kept.
UpgradeInputFails(r) ==
  /\ Work(r, {"stream"}) /\ r \in Upgrades /\ ctx[r] = "live"
  /\ ctx' = [ctx EXCEPT ![r] = "stopped"]
  /\ UNCHANGED <<daemonSide, active, worker, enqueuing, clientUp, toClient, toServer>>

ClientStep(r) ==
  \/ RecvRequestStart(r) \/ RecvUnknown(r) \/ RecvRequestBody(r) \/ RecvRequestEnd(r)
  \/ RecvCancel(r) \/ RecvError(r) \/ Enqueued(r) \/ EnqueueFails(r)
  \/ ProxyAnswers(r) \/ StreamBody(r) \/ StreamEnd(r) \/ WorkFails(r) \/ WorkCanceled(r)
  \/ Leave(r) \/ ClientIdle(r) \/ IdleError(r) \/ Expire(r) \/ UpgradeInputFails(r)

ProtocolNext ==
  \/ \E r \in Reqs : DaemonStep(r) \/ ClientStep(r)
  \/ ServerReadFails \/ ClientReadFails

ProtocolSpec == ProtocolInit /\ [][ProtocolNext]_vars

-----------------------------------------------------------------------------
(* Properties.                                                             *)

\* Every variable has its type; neither end works on more requests than it may.
ProtocolTypeOK ==
  /\ server \in [Reqs -> {"new", "over", "aborted"} \cup Pending]
  /\ upload \in [Reqs -> {"open", "closed"}]
  /\ active \subseteq Reqs /\ Cardinality(active) <= MaxStreams
  /\ enqueuing \subseteq Reqs
  /\ worker \in [Reqs -> {"none", "leave", "done"} \cup Working]
  /\ ctx \in [Reqs -> {"live", "idle", "canceled", "stopped"}]
  /\ toClient \in [Reqs -> Seq(ToClientTypes)]
  /\ toServer \in [Reqs -> Seq(ToServerTypes)]
  /\ {serverUp, clientUp} \subseteq BOOLEAN

\* While both ends are up, a request that the daemon waits for is on its way to the
\* client, or being worked on, or its end is on the way back or about to be sent:
\* nobody waits for an answer that nobody will send, except past the client's own
\* deadline and after a failing write to an upgraded local connection, where the
\* daemon may be left to its own timeouts (handleRequestStart, executeRequest,
\* handleRequestError, pumpUpgradeInput).
PendingIsServed ==
  \A r \in Reqs : serverUp /\ clientUp /\ server[r] \in Pending =>
    \/ "request_start" \in Range(toClient[r])
    \/ worker[r] \in Working
    \/ Range(toServer[r]) \cap {"response_end", "error"} # {}
    \/ ctx[r] = "idle"
    \/ ctx[r] = "stopped"

\* The client never goes on working for a request that it has dropped from its map,
\* by a cancellation or with the session: the context of such work is done
\* (handleRequestCancel, cancelActiveRequests).
NoOrphanWork ==
  \A r \in Reqs : worker[r] \in Working /\ r \notin active => ctx[r] # "live"

\* Cancellation is "request-scoped": what is still to be said about a request that the
\* daemon has cancelled ends no session, and with it no other request (request_cancel,
\* the client's answer to it, and the daemon's to a late frame).
CancelIsScoped ==
  [][\A r \in Reqs : server[r] = "aborted" => ~(RecvSessionError(r) \/ RecvError(r))]_vars
=============================================================================
