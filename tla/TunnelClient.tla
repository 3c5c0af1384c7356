---------------------------- MODULE TunnelClient ----------------------------
(***************************************************************************)
(* The reconnecting client (pkg/client/tunnel.go, Connect and Run)         *)
(* composed with the control server it registers with.  A client dials,    *)
(* sends one register message, reads one answer, serves until the session  *)
(* ends, sleeps and dials again with the tunnel id and resume token it was *)
(* last given.  ControlServer is taken as it is, except that the register  *)
(* messages are those of the clients and that its answers reach them.      *)
(*                                                                         *)
(* A connection is used once.  The delays of the backoff are abstracted to *)
(* the fact that the client sleeps.                                        *)
(***************************************************************************)
EXTENDS ControlServer

CONSTANTS
  Clients,      \* binboi processes, each with its token
  PrincipalOf,  \* [Clients -> Principals]
  MaxFaults     \* bound on lost, refused and timed out exchanges and connections

ASSUME ClientAssumption ==
  /\ PrincipalOf \in [Clients -> Principals]
  /\ MaxFaults \in Nat

VARIABLES
  cst,     \* [Clients -> ClientStates]
  conn,    \* [Clients -> Conns or None]: the connection of Connect or of session.Run
  resume,  \* [Clients -> [id, token : Sids or None]]: resumeTunnelID, resumeToken
  answer,  \* [Conns -> Answer]: what the server wrote in answer to the register message
  dialed,  \* connections dialled so far
  faults   \* faults so far

clvars == <<cst, conn, resume>>
tvars == <<cvars, clvars, answer, dialed, faults>>

\* connect    about to call Connect
\* registering  the register message is sent, its answer not read
\* running    in session.Run
\* backoff    in sleepContext
\* stopped    the context was cancelled
\* failed     Run returned the error of a fatal answer
ClientStates == {"connect", "registering", "running", "backoff", "stopped", "failed"}

Fatal == {"invalid_token", "usage_limit_exceeded"}
Codes == {"none", "registered", "invalid_resume", "registration_failed"} \cup Fatal

Answer == [code : Codes, id : Sids \cup {None}, token : Sids \cup {None}]

Says(code) == [code |-> code, id |-> None, token |-> None]

ClientInit ==
  /\ ControlInit
  /\ cst = [k \in Clients |-> "connect"]
  /\ conn = [k \in Clients |-> None]
  /\ resume = [k \in Clients |-> [id |-> None, token |-> None]]
  /\ answer = [c \in Conns |-> Says("none")]
  /\ dialed = {}
  /\ faults = 0

Become(k, state) == cst' = [cst EXCEPT ![k] = state]

Fault == faults < MaxFaults /\ faults' = faults + 1

Reading(k) == cst[k] = "registering"

\* the client closes its connection, and the server's handler will notice
HangUp(k) ==
  /\ open' = open \ {conn[k]}
  /\ conn' = [conn EXCEPT ![k] = None]
  /\ UNCHANGED <<mvars, qvars, pc, req, sub, sid, resv, peers, told, fwd>>

-----------------------------------------------------------------------------
(* Connect.                                                                *)

\* DialContext succeeds and the register message is on its way
Dial(k) ==
  /\ cst[k] = "connect" /\ Conns # dialed
  /\ LET c == CHOOSE c \in Conns \ dialed : TRUE IN
       /\ conn' = [conn EXCEPT ![k] = c]
       /\ dialed' = dialed \cup {c}
  /\ Become(k, "registering")
  /\ UNCHANGED <<cvars, resume, answer, faults>>

\* DialContext fails: the client sleeps and tries again
DialFails(k) ==
  /\ cst[k] = "connect"
  /\ Fault
  /\ Become(k, "backoff")
  /\ UNCHANGED <<cvars, conn, resume, answer, dialed>>

\* the registered message: keep its id, and its token unless it is empty
GetRegistered_KeepsOldId(k) ==
  /\ Reading(k) /\ answer[conn[k]].code = "registered"
  /\ resume' = [resume EXCEPT ![k].token =
                  IF answer[conn[k]].token # None THEN answer[conn[k]].token ELSE @]
  /\ Become(k, "running")
  /\ UNCHANGED <<cvars, conn, answer, dialed, faults>>
GetRegistered(k) ==
  LET a == answer[conn[k]] IN
  /\ Reading(k) /\ a.code = "registered"
  /\ resume' = [resume EXCEPT ![k] =
                  [id |-> a.id, token |-> IF a.token # None THEN a.token ELSE @.token]]
  /\ Become(k, "running")
  /\ UNCHANGED <<cvars, conn, answer, dialed, faults>>

\* invalid_resume: forget the tunnel and connect again at once
GetInvalidResume_Insists(k) ==
  /\ Reading(k) /\ answer[conn[k]].code = "invalid_resume"
  /\ Become(k, "connect")
  /\ HangUp(k)
  /\ UNCHANGED <<resume, answer, dialed, faults>>
GetInvalidResume(k) ==
  /\ Reading(k) /\ answer[conn[k]].code = "invalid_resume"
  /\ resume' = [resume EXCEPT ![k] = [id |-> None, token |-> None]]
  /\ Become(k, "connect")
  /\ HangUp(k)
  /\ UNCHANGED <<answer, dialed, faults>>

\* an answer Run gives up on
GetFatal(k) ==
  /\ Reading(k) /\ answer[conn[k]].code \in Fatal
  /\ Become(k, "failed")
  /\ HangUp(k)
  /\ UNCHANGED <<resume, answer, dialed, faults>>

\* any other error answer, or a connection that ended without one
GetNothing(k) ==
  /\ Reading(k)
  /\ \/ answer[conn[k]].code = "registration_failed"
     \/ answer[conn[k]].code = "none" /\ conn[k] \notin open
  /\ Become(k, "backoff")
  /\ HangUp(k)
  /\ UNCHANGED <<resume, answer, dialed, faults>>

\* The answer is lost with the connection, or not there within the handshake
\* timeout.
AnswerLost(k) ==
  /\ Reading(k)
  /\ Fault
  /\ Become(k, "backoff")
  /\ HangUp(k)
  /\ UNCHANGED <<resume, answer, dialed>>

-----------------------------------------------------------------------------
(* Run, after Connect.                                                     *)

\* the read loop of session.Run ends: the connection is closed
SessionEnds_Forgets(k) ==
  /\ cst[k] = "running" /\ conn[k] \notin open
  /\ resume' = [resume EXCEPT ![k] = [id |-> None, token |-> None]]
  /\ Become(k, "backoff")
  /\ HangUp(k)
  /\ UNCHANGED <<answer, dialed, faults>>
SessionEnds(k) ==
  /\ cst[k] = "running" /\ conn[k] \notin open
  /\ Become(k, "backoff")
  /\ HangUp(k)
  /\ UNCHANGED <<resume, answer, dialed, faults>>

\* ... or nothing was read for two heartbeats and five seconds, a ping could not
\* be sent, or the server sent an error
SessionFails(k) ==
  /\ cst[k] = "running" /\ conn[k] \in open
  /\ Fault
  /\ Become(k, "backoff")
  /\ HangUp(k)
  /\ UNCHANGED <<resume, answer, dialed>>

\* sleepContext returns
Wake(k) ==
  /\ cst[k] = "backoff"
  /\ Become(k, "connect")
  /\ UNCHANGED <<cvars, conn, resume, answer, dialed, faults>>

\* the context is cancelled; a running session sends close and hangs up
Quit(k) ==
  /\ cst[k] \notin {"stopped", "failed"}
  /\ Become(k, "stopped")
  /\ HangUp(k)
  /\ UNCHANGED <<resume, answer, dialed, faults>>

ClientStep(k) ==
  \/ Dial(k) \/ DialFails(k)
  \/ GetRegistered(k) \/ GetInvalidResume(k) \/ GetFatal(k) \/ GetNothing(k)
  \/ AnswerLost(k)
  \/ SessionEnds(k) \/ SessionFails(k)
  \/ Wake(k) \/ Quit(k)

-----------------------------------------------------------------------------
(* The server's end.                                                       *)

\* Session ids and labels are random and nothing depends on their names: new ones
\* are drawn in a fixed order.  A label may also be one that another handler has
\* allocated and not stored yet.
FirstOf(S) == CHOOSE x \in S : TRUE
Allocated == {sub[h] : h \in {g \in Conns \cup Calls : pc[g] = "allocated"}}
DrawInOrder ==
  /\ \A s \in issued' \ issued : s = FirstOf(Sids \ issued)
  /\ \A h \in Conns \cup Calls : sub'[h] # sub[h] =>
       \/ sub'[h] \in Allocated
       \/ sub'[h] = FirstOf({d \in Subdomains : Available(d)} \ Allocated)

\* what a handler writes in answer to the register message
Writes(c, a) == answer' = [answer EXCEPT ![c] = a] /\ UNCHANGED <<clvars, dialed>>

\* the register message of the client at the other end
ReceiveRegister(c) ==
  \E k \in Clients :
    /\ conn[k] = c
    /\ ReadRegister(c)
    /\ req'[c] = [principal |-> PrincipalOf[k], shape |-> CHOOSE sh \in Shapes : TRUE,
                  resume |-> resume[k].id, token |-> resume[k].token]
    /\ UNCHANGED <<clvars, answer, dialed, faults>>

\* the handlers' steps that write no answer
Silently(c) ==
  /\ \/ Reserve(c) \/ Resume(c) \/ Allocate(c) \/ Store(c)
     \/ AddPeer(c) \/ CountTunnel(c)
     \/ ReleaseReservation(c) \/ RemovePeer(c) \/ Detach(c) \/ CloseTunnel(c)
  /\ DrawInOrder
  /\ UNCHANGED <<clvars, answer, dialed, faults>>

\* the steps that answer
Answers(c) ==
  \/ OverLimit(c) /\ Writes(c, Says("usage_limit_exceeded")) /\ UNCHANGED faults
  \/ InvalidResume(c) /\ Writes(c, Says("invalid_resume")) /\ UNCHANGED faults
  \/ /\ SendRegistered(c)
     /\ Writes(c, [code |-> "registered", id |-> sid[c],
                   token |-> IF Known(sid[c]) THEN sid[c] ELSE None])
     /\ UNCHANGED faults

\* the register message does not arrive in time, no label is free, the registry
\* cannot be written, or the token is refused, also because the validator failed
Refuses(c) ==
  /\ Fault
  /\ \/ RefuseRegister(c) /\ \E code \in {"none", "invalid_token"} : Writes(c, Says(code))
     \/ (NotAllocated(c) \/ NotStored(c)) /\ Writes(c, Says("registration_failed"))
  /\ DrawInOrder

\* the connection has ended, and the handler finds out
FindsClosed(c) ==
  /\ c \notin open
  /\ RefuseRegister(c) \/ NotSent(c) \/ LeaveLoop(c)
  /\ UNCHANGED <<clvars, answer, dialed, faults>>

\* heartbeats
Heartbeat(c) ==
  /\ Ping(c) \/ UnknownSession(c)
  /\ UNCHANGED <<clvars, answer, dialed, faults>>

\* the connection is cut, or the handler gives it up: heartbeats do not arrive in
\* time, or a message cannot be sent
Fails(c) ==
  /\ Fault
  /\ \/ Disconnect(c)
     \/ c \in open /\ (NotSent(c) \/ LeaveLoop(c))
  /\ UNCHANGED <<clvars, answer, dialed>>

ServerStep(c) ==
  ReceiveRegister(c) \/ Silently(c) \/ Answers(c) \/ Refuses(c) \/ FindsClosed(c)
    \/ Heartbeat(c) \/ Fails(c)

\* a session created over HTTP, which competes for the labels
OtherCall(h) == StoreSteps(h) /\ DrawInOrder /\ UNCHANGED <<clvars, answer, dialed, faults>>

\* the daemon is restarted: connections it had not read from are reset as well
RestartServer ==
  /\ RestartKeeping((Conns \ dialed) \cup {h \in Calls : pc[h] = "accepted"})
  /\ UNCHANGED <<clvars, answer, dialed, faults>>

ClientNext ==
  \/ \E k \in Clients : ClientStep(k)
  \/ \E c \in dialed : ServerStep(c)
  \/ \E h \in Calls : OtherCall(h)
  \/ RestartServer

ClientSpec == ClientInit /\ [][ClientNext]_tvars

\* The goroutines are scheduled, the client's too; a sleep ends, a closed
\* connection is noticed, and pings are read while the client is running.  Nothing
\* is assumed of faults, of restarts or of the user who quits.
ClientFairness ==
  /\ \A k \in Clients :
       /\ WF_tvars(Dial(k) \/ Wake(k))
       /\ WF_tvars(GetRegistered(k) \/ GetInvalidResume(k) \/ GetFatal(k) \/ GetNothing(k))
       /\ WF_tvars(SessionEnds(k))
  /\ \A c \in Conns :
       /\ WF_tvars(ReceiveRegister(c) \/ Silently(c) \/ Answers(c))
       /\ WF_tvars(FindsClosed(c))
       /\ WF_tvars(c \in open /\ Heartbeat(c))

FairClientSpec == ClientSpec /\ ClientFairness
-----------------------------------------------------------------------------
(* Properties.                                                             *)

\* Every variable has its type, those of the server included.
ClientTypeOK ==
  /\ ControlTypeOK
  /\ cst \in [Clients -> ClientStates]
  /\ conn \in [Clients -> Conns \cup {None}]
  /\ resume \in [Clients -> [id : Sids \cup {None}, token : Sids \cup {None}]]
  /\ answer \in [Conns -> Answer]
  /\ dialed \in SUBSET Conns
  /\ faults \in 0..MaxFaults

\* A client that is serving over an open connection serves the tunnel it believes
\* it has: the handler at the other end holds the session of that id, and the
\* client has that session's resume token (Run's bookkeeping of RegisteredPayload,
\* handleConnection).
ServesItsTunnel ==
  \A k \in Clients : cst[k] = "running" /\ conn[k] \in open =>
    /\ sid[conn[k]] = resume[k].id
    /\ Known(resume[k].id) => resume[k].token = resume[k].id

\* A client keeps its tunnel over any disconnects, timeouts and lost answers, and
\* gives it up only once the daemon does not know it any more: after a restart,
\* or when its host was taken over while it was disconnected (Run's resume
\* attempts, resumeTunnel).
TunnelKept ==
  [][\A k \in Clients :
       resume[k].id # None /\ resume'[k].id # resume[k].id => ~Known(resume[k].id)]_tvars

\* Once faults cease the client serves, unless its user stopped it or the daemon
\* gave it a fatal answer: no sequence of faults, restarts and takeovers leaves it
\* retrying for ever (Run).  Its tunnel is then routed, also if the late cleanup of
\* an earlier connection detached it (TouchHeartbeat), and the daemon keeps nothing
\* else for it: what earlier connections registered is disconnected, has no peer and
\* takes no place in the plan (handleConnection's cleanup).
Serving(k) == cst[k] = "running"
Settled ==
  /\ \A k \in Clients : cst[k] \in {"running", "stopped", "failed"}
  /\ \A s \in Sids :
       LET served == \E k \in Clients : Serving(k) /\ resume[k].id = s IN
         /\ served => Connected(s) /\ peers[s] # None
         /\ ~served => ~Connected(s) /\ peers[s] = None
  /\ \A u \in Users :
       Quota!TunnelLoad(u) <= Cardinality({k \in Clients : Serving(k) /\ UserOf[PrincipalOf[k]] = u})
Settles == <>[]Settled

=============================================================================
