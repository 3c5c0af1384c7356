------------------------ MODULE TunnelClient_proofs -------------------------
(***************************************************************************)
(* Proofs about TunnelClient, for any number of clients, connections,      *)
(* faults and restarts: a client that serves serves its own tunnel, and    *)
(* does not give a tunnel up that the daemon still knows.                  *)
(*                                                                         *)
(* Clients and handlers share no state: what one knows of the other passes *)
(* through one message and one answer, each of which may be read long      *)
(* after it was written, after takeovers and restarts.  The invariant      *)
(* therefore follows a tunnel from the session through the answer to the   *)
(* client and back through the next register message (Tunnel): its id has  *)
(* been drawn, so that a session of that id, if there still is one, is the *)
(* client's, and the token the client has is that session's.  That an id   *)
(* is never drawn twice makes this stable (TunnelStays).                   *)
(*                                                                         *)
(* The daemon is ControlServer, so its invariant is part of this one.      *)
(***************************************************************************)
EXTENDS TunnelClient, ControlServer_proofs

-----------------------------------------------------------------------------
(* The invariant.                                                          *)

TheShape == CHOOSE sh \in Shapes : TRUE

\* The session of this id, if there is one, is that principal's, and this is its token.
Tunnel(id, token, p) ==
  /\ id \in issued
  /\ Known(id) => token = id /\ sessions[id].owner = p /\ sessions[id].shape = TheShape

\* A connection belongs to the one client that dialled it, and before that to nobody.
Dials ==
  /\ \A c \in Conns \ dialed : pc[c] = "accepted" /\ answer[c].code = "none"
  /\ \A k \in Clients : conn[k] # None => conn[k] \in dialed
  /\ \A k \in Clients, j \in Clients : conn[k] = conn[j] /\ conn[k] # None => k = j
  /\ \A k \in Clients : cst[k] \in {"registering", "running"} => conn[k] # None

\* The stages in which a handler has answered.  It does so once, and what it called
\* registered is what it serves for as long as the connection is open.
Answered == {"serving", "closing", "removed", "detached", "failed", "done"}
AnswersOnce(c) ==
  /\ answer[c].code # "none" => pc[c] \in Answered
  /\ answer[c].code = "registered" /\ c \in open => sid[c] # None /\ sid[c] = answer[c].id
Answering == \A c \in Conns : AnswersOnce(c)

\* What a client would resume is its own.
KeepsTunnel ==
  \A k \in Clients :
    resume[k].id # None => Tunnel(resume[k].id, resume[k].token, PrincipalOf[k])

\* The handler of a registering client works on what the client asks for.
Asks(k) ==
  LET c == conn[k] IN
  /\ pc[c] \notin {"accepted", "done"} =>
       /\ req[c].principal = PrincipalOf[k] /\ req[c].shape = TheShape
       /\ req[c].resume = resume[k].id /\ req[c].token = resume[k].token
  /\ pc[c] \in {"stored", "peered", "counted"} => Tunnel(sid[c], sid[c], PrincipalOf[k])

\* The answer under way to a registering client stays true until it is read.
Hears(k) ==
  LET a == answer[conn[k]] IN
  /\ a.code = "registered" =>
       /\ Tunnel(a.id, a.token, PrincipalOf[k])
       /\ resume[k].id # None => a.id = resume[k].id
  /\ a.code = "invalid_resume" => resume[k].id # None /\ ~Known(resume[k].id)
Handshakes == \A k \in Clients : cst[k] = "registering" => Asks(k) /\ Hears(k)

\* A running client has the tunnel it was answered with.
Serves(k) == answer[conn[k]].code = "registered" /\ answer[conn[k]].id = resume[k].id
RunningServes == \A k \in Clients : cst[k] = "running" => Serves(k)

ClientInv ==
  /\ ClientTypeOK
  /\ ControlInv
  /\ Dials
  /\ Answering
  /\ KeepsTunnel
  /\ Handshakes
  /\ RunningServes

-----------------------------------------------------------------------------
(* Tunnels.                                                                *)

\* A session that does not exist never comes back under an id that was drawn: what
\* is gone stays gone.
LEMMA GoneStays ==
  ASSUME ManagerInv, [ManagerNext]_mvars, NEW id, id \in issued, ~Known(id)
  PROVE  id \in issued' /\ ~Known(id)'
<1> USE ManagerAssumption, NoneIsNoRecord
<1>1. id \in Sids /\ sessions[id] = None /\ id # None
  BY DEF ManagerInv, ManagerTypeOK, Known
<1>2. RecordsKept
  BY ManagerKeeps
<1>3. sessions'[id] = None
  <2>1. CASE \E s \in Sids, new \in Created \cup Registered :
               StoreSession(s, new) \/ StoreUnsaved(s, new) \/ StoreConflict(s, new)
    <3>1. PICK s \in Sids, new \in Created \cup Registered :
            StoreSession(s, new) \/ StoreUnsaved(s, new) \/ StoreConflict(s, new)
      BY <2>1
    <3>2. id # s
      BY <3>1 DEF StoreSession, StoreUnsaved, StoreConflict, Draw
    <3>3. QED
      BY <1>1, <3>1, <3>2 DEF StoreSession, StoreUnsaved, StoreConflict, Evicted
  <2>2. CASE \E s \in Sids, saved \in BOOLEAN :
               \E c \in Conns, t \in Sids, p \in Principals, sh \in Shapes :
                 ResumeTunnel(s, c, t, p, sh, saved)
    BY <1>1, <2>2 DEF ResumeTunnel, CanResume, Known, ManagerInv, ManagerTypeOK
  <2>3. CASE \E s \in Sids, saved \in BOOLEAN : TouchHeartbeat(s, saved)
    BY <1>1, <2>3 DEF TouchHeartbeat, Known, ManagerInv, ManagerTypeOK
  <2>4. CASE \E s \in Sids, saved \in BOOLEAN : DetachConnection(s, saved)
    <3>1. PICK s \in Sids, saved \in BOOLEAN : DetachConnection(s, saved)
      BY <2>4
    <3>2. CASE Known(s)
      BY <1>1, <3>1, <3>2 DEF DetachConnection, Known, ManagerInv, ManagerTypeOK
    <3>3. CASE ~Known(s)
      BY <1>1, <3>1, <3>3 DEF DetachConnection, mvars
    <3>4. QED
      BY <3>2, <3>3
  <2>5. CASE ManagerRestart
    BY <1>1, <2>5 DEF ManagerRestart
  <2>6. CASE UNCHANGED mvars
    BY <1>1, <2>6 DEF mvars
  <2>7. QED
    BY <2>1, <2>2, <2>3, <2>4, <2>5, <2>6 DEF ManagerNext
<1>4. QED
  BY <1>2, <1>3 DEF RecordsKept, Known

\* Nothing the daemon does makes a tunnel another principal's.
LEMMA TunnelStays ==
  ASSUME ManagerInv, [ManagerNext]_mvars, NEW id, NEW token, NEW p, Tunnel(id, token, p)
  PROVE  Tunnel(id, token, p)'
<1>1. id \in issued /\ id \in issued'
  BY ManagerKeeps DEF Tunnel, RecordsKept
<1>2. CASE ~Known(id)
  BY <1>1, <1>2, GoneStays DEF Tunnel
<1>3. CASE Known(id) /\ Known(id)'
  <2>1. id \in Sids /\ sessions[id] # None /\ sessions'[id] # None
    BY <1>1, <1>3 DEF Known, ManagerInv, ManagerTypeOK
  <2>2. /\ sessions'[id].owner = sessions[id].owner
        /\ sessions'[id].shape = sessions[id].shape
    BY <2>1, IdentityStep
  <2>3. QED
    BY <1>1, <1>3, <2>2 DEF Tunnel
<1>4. CASE ~Known(id)'
  BY <1>1, <1>4 DEF Tunnel
<1>5. QED
  BY <1>2, <1>3, <1>4

\* The same of the state after a step, for ids and tokens of the state before.
StaysTunnel(id, token, p) ==
  /\ id \in issued'
  /\ id # None /\ sessions'[id] # None =>
       token = id /\ sessions'[id].owner = p /\ sessions'[id].shape = TheShape

LEMMA TunnelsStay ==
  ASSUME ManagerInv, [ManagerNext]_mvars
  PROVE  \A id, token, p : Tunnel(id, token, p) => StaysTunnel(id, token, p)
<1>1. SUFFICES ASSUME NEW id, NEW token, NEW p, Tunnel(id, token, p)
               PROVE  StaysTunnel(id, token, p)
  OBVIOUS
<1>2. Tunnel(id, token, p)'
  BY <1>1, TunnelStays
<1>3. QED
  BY <1>2 DEF Tunnel, Known, StaysTunnel

-----------------------------------------------------------------------------
(* What a step of one handler leaves alone.                                *)

\* Only the handler that moves changes its stage, its message and its session, and a
\* session it has is not changed either.
LEMMA OneHandler ==
  ASSUME ControlInv, NEW h \in Conns \cup Calls,
         StoreSteps(h) \/ (h \in Conns /\ Handle(h))
  PROVE  /\ \A g \in Conns : g # h => pc'[g] = pc[g] /\ req'[g] = req[g] /\ sid'[g] = sid[g]
         /\ SidsKept
         /\ open' \subseteq open
<1>1. pc \in [Conns \cup Calls -> Stages] /\ sid \in [Conns -> Sids \cup {None}]
      /\ req \in [Conns -> RegisterMsg \cup {None}]
  BY DEF ControlInv, ControlTypeOK
<1>2. CASE StoreSteps(h)
  <2>1. CASE Store(h)
    <3>1. PICK s \in Sids : sid' = IF h \in Conns THEN [sid EXCEPT ![h] = s] ELSE sid
      BY <2>1 DEF Store
    <3>2. h \in Conns => sid[h] = None
      BY <2>1 DEF Store, ControlInv, HasSession, Sessionless
    <3>3. UNCHANGED <<req, open>> /\ \A g \in Conns : g # h => pc'[g] = pc[g]
      BY <1>1, <2>1 DEF Store, Goto
    <3>4. QED
      BY <1>1, <3>1, <3>2, <3>3 DEF SidsKept
  <2>2. CASE Allocate(h) \/ NotAllocated(h) \/ NotStored(h)
    <3>1. UNCHANGED <<req, sid, open>> /\ \A g \in Conns : g # h => pc'[g] = pc[g]
      BY <1>1, <2>2 DEF Allocate, NotAllocated, NotStored, Goto
    <3>2. QED
      BY <3>1 DEF SidsKept
  <2>3. QED
    BY <1>2, <2>1, <2>2 DEF StoreSteps
<1>3. CASE h \in Conns /\ Handle(h)
  <2>1. CASE ReadRegister(h)
    BY <1>1, <2>1 DEF ReadRegister, Goto, SidsKept
  <2>2. CASE Resume(h)
    <3>1. sid[h] = None
      BY <1>3, <2>2 DEF Resume, ControlInv, HasSession, Sessionless
    <3>2. QED
      BY <1>1, <2>2, <3>1 DEF Resume, Goto, SidsKept
  <2>3. CASE Ping(h)
    BY <2>3 DEF Ping, hvars, SidsKept
  <2>4. CASE ~ReadRegister(h) /\ ~Resume(h) /\ ~Ping(h)
    <3>1. UNCHANGED <<req, sid>> /\ open' \subseteq open /\ \E stage : Goto(h, stage)
      BY <1>3, <2>4
      DEF Handle, RefuseRegister, Reserve, OverLimit, InvalidResume, AddPeer,
          CountTunnel, SendRegistered, NotSent, UnknownSession, LeaveLoop,
          ReleaseReservation, RemovePeer, Detach, CloseTunnel
    <3>2. QED
      BY <1>1, <3>1 DEF Goto, SidsKept
  <2>5. QED
    BY <2>1, <2>2, <2>3, <2>4
<1>4. QED
  BY <1>2, <1>3

-----------------------------------------------------------------------------
(* The daemon's steps.                                                     *)

\* What was said to a client stays true while the session manager takes a step and
\* the answer is left alone.
LEMMA WordStays ==
  ASSUME ClientInv, [ManagerNext]_mvars, UNCHANGED clvars,
         NEW k \in Clients, cst[k] = "registering", answer'[conn[k]] = answer[conn[k]]
  PROVE  Hears(k)'
<1> DEFINE a == answer[conn[k]]
<1>1. ManagerInv /\ UNCHANGED <<conn, resume>>
  BY DEF ClientInv, ControlInv, clvars
<1>2. Hears(k)
  BY DEF ClientInv, Handshakes
<1>3. a.code = "registered" =>
        /\ StaysTunnel(a.id, a.token, PrincipalOf[k])
        /\ resume[k].id # None => a.id = resume[k].id
  <2>1. a.code = "registered" =>
          /\ Tunnel(a.id, a.token, PrincipalOf[k])
          /\ resume[k].id # None => a.id = resume[k].id
    BY <1>2 DEF Hears
  <2>2. QED
    BY <1>1, <2>1, TunnelsStay
<1>4. a.code = "invalid_resume" => resume[k].id # None /\ sessions'[resume[k].id] = None
  <2>1. a.code = "invalid_resume" => resume[k].id # None /\ ~Known(resume[k].id)
    BY <1>2 DEF Hears
  <2>2. resume[k].id # None => resume[k].id \in issued
    BY DEF ClientInv, KeepsTunnel, Tunnel
  <2>3. \A id \in issued : ~Known(id) => id = None \/ sessions'[id] = None
    <3>1. SUFFICES ASSUME NEW id \in issued, ~Known(id)
                   PROVE  id = None \/ sessions'[id] = None
      OBVIOUS
    <3>2. ~Known(id)'
      BY <1>1, <3>1, GoneStays
    <3>3. QED
      BY <3>2 DEF Known
  <2>4. QED
    BY <2>1, <2>2, <2>3
<1>5. conn'[k] = conn[k] /\ resume'[k] = resume[k] /\ answer'[conn'[k]] = a
  BY <1>1
<1>6. QED
  BY <1>3, <1>4, <1>5 DEF Hears, Tunnel, Known, StaysTunnel

\* A step of one handler, or of one HTTP call, keeps the invariant if it keeps what is
\* said of that handler and of the client at its other end.
LEMMA ServerKeeps ==
  ASSUME ClientInv, ControlInv', [ManagerNext]_mvars, NEW h \in Conns \cup Calls,
         h \in Conns => h \in dialed,
         UNCHANGED <<clvars, dialed>>, SidsKept, open' \subseteq open,
         answer' \in [Conns -> Answer], faults' \in 0..MaxFaults,
         \A g \in Conns : g # h => /\ pc'[g] = pc[g] /\ req'[g] = req[g]
                                   /\ sid'[g] = sid[g] /\ answer'[g] = answer[g],
         h \in Conns => AnswersOnce(h)',
         \A k \in Clients : h \in Conns /\ conn[k] = h /\ cst[k] = "registering" =>
           Asks(k)' /\ Hears(k)',
         \A k \in Clients : h \in Conns /\ conn[k] = h /\ cst[k] = "running" => Serves(k)'
  PROVE  ClientInv'
<1> USE ControlAssumption
<1>1. ManagerInv /\ UNCHANGED <<cst, conn, resume, dialed>>
  BY DEF ClientInv, ControlInv, clvars
<1>2. \A id, token, p : Tunnel(id, token, p) => StaysTunnel(id, token, p)
  BY <1>1, TunnelsStay
<1>3. ClientTypeOK'
  BY <1>1 DEF ClientInv, ClientTypeOK, ControlInv
<1>4. Dials'
  <2>1. \A c \in Conns \ dialed : pc'[c] = "accepted" /\ answer'[c].code = "none"
    BY DEF ClientInv, Dials
  <2>2. QED
    BY <1>1, <2>1 DEF ClientInv, Dials
<1>5. Answering'
  <2>1. ASSUME NEW g \in Conns, g # h
        PROVE  AnswersOnce(g)'
    <3>1. AnswersOnce(g)
      BY DEF ClientInv, Answering
    <3>2. pc'[g] = pc[g] /\ sid'[g] = sid[g] /\ answer'[g] = answer[g] /\ open' \subseteq open
      BY <2>1
    <3>3. QED
      BY <3>1, <3>2 DEF AnswersOnce
  <2>2. QED
    BY <2>1 DEF Answering
<1>6. KeepsTunnel'
  <2>1. SUFFICES ASSUME NEW k \in Clients, resume[k].id # None
                 PROVE  Tunnel(resume[k].id, resume[k].token, PrincipalOf[k])'
    BY <1>1 DEF KeepsTunnel
  <2>2. StaysTunnel(resume[k].id, resume[k].token, PrincipalOf[k])
    BY <1>2, <2>1 DEF ClientInv, KeepsTunnel
  <2>3. QED
    BY <1>1, <2>2 DEF Tunnel, Known, StaysTunnel
<1>7. ASSUME NEW k \in Clients, cst[k] \in {"registering", "running"}, conn[k] # h
      PROVE  /\ conn[k] \in Conns /\ pc'[conn[k]] = pc[conn[k]] /\ req'[conn[k]] = req[conn[k]]
             /\ sid'[conn[k]] = sid[conn[k]] /\ answer'[conn[k]] = answer[conn[k]]
  <2>1. conn[k] \in Conns
    BY <1>7 DEF ClientInv, Dials, ClientTypeOK
  <2>2. QED
    BY <1>7, <2>1
<1>8. Handshakes'
  <2>1. SUFFICES ASSUME NEW k \in Clients, cst[k] = "registering"
                 PROVE  Asks(k)' /\ Hears(k)'
    BY <1>1 DEF Handshakes
  <2>2. CASE conn[k] = h /\ h \in Conns
    BY <2>1, <2>2
  <2>3. CASE conn[k] # h
    <3>1. /\ conn[k] \in Conns /\ pc'[conn[k]] = pc[conn[k]] /\ req'[conn[k]] = req[conn[k]]
          /\ sid'[conn[k]] = sid[conn[k]] /\ answer'[conn[k]] = answer[conn[k]]
      BY <1>7, <2>1, <2>3
    <3>2. Asks(k) /\ Hears(k)
      BY <2>1 DEF ClientInv, Handshakes
    <3>3. pc'[conn[k]] \in {"stored", "peered", "counted"} =>
            StaysTunnel(sid[conn[k]], sid[conn[k]], PrincipalOf[k])
      <4>1. pc'[conn[k]] \in {"stored", "peered", "counted"} =>
              Tunnel(sid[conn[k]], sid[conn[k]], PrincipalOf[k])
        BY <3>1, <3>2 DEF Asks
      <4>2. QED
        BY <1>2, <4>1
    <3>4. Asks(k)'
      <4>1. pc'[conn[k]] \notin {"accepted", "done"} =>
              /\ req'[conn[k]].principal = PrincipalOf[k] /\ req'[conn[k]].shape = TheShape
              /\ req'[conn[k]].resume = resume[k].id /\ req'[conn[k]].token = resume[k].token
        BY <3>1, <3>2 DEF Asks
      <4>2. sid'[conn[k]] = sid[conn[k]] /\ conn'[k] = conn[k] /\ resume'[k] = resume[k]
        BY <1>1, <3>1
      <4>3. QED
        BY <3>3, <4>1, <4>2 DEF Asks, TheShape, Tunnel, Known, StaysTunnel
    <3>5. Hears(k)'
      BY <2>1, <3>1, WordStays
    <3>6. QED
      BY <3>4, <3>5
  <2>4. conn[k] \in Conns
    BY <2>1 DEF ClientInv, Dials, ClientTypeOK
  <2>5. QED
    BY <2>2, <2>3, <2>4
<1>9. RunningServes'
  <2>1. SUFFICES ASSUME NEW k \in Clients, cst[k] = "running"
                 PROVE  Serves(k)'
    BY <1>1 DEF RunningServes
  <2>2. conn[k] \in Conns
    BY <2>1 DEF ClientInv, Dials, ClientTypeOK
  <2>3. CASE conn[k] = h
    BY <2>1, <2>2, <2>3
  <2>4. CASE conn[k] # h
    <3>1. answer'[conn[k]] = answer[conn[k]]
      BY <1>7, <2>1, <2>4
    <3>2. QED
      BY <1>1, <2>1, <3>1 DEF ClientInv, RunningServes, Serves
  <2>5. QED
    BY <2>3, <2>4
<1>10. QED
  BY <1>3, <1>4, <1>5, <1>6, <1>8, <1>9 DEF ClientInv

\* What a handler's step is to the daemon, wherever it is taken.
LEMMA DaemonMoves ==
  ASSUME ClientInv, NEW h \in Conns \cup Calls, StoreSteps(h) \/ (h \in Conns /\ Handle(h))
  PROVE  ControlInv' /\ [ManagerNext]_mvars
<1>1. ControlInv /\ AnyStep
  BY DEF ClientInv, AnyStep
<1>2. QED
  BY <1>1, AnyStepInv, StepManages

\* The stages of a handler that has a session and has not answered yet.
HasTunnel == {"stored", "peered", "counted"}

\* A step that answers nothing, and takes the handler no session, keeps the invariant.
LEMMA QuietKeeps ==
  ASSUME ClientInv, NEW h \in Conns \cup Calls, StoreSteps(h) \/ (h \in Conns /\ Handle(h)),
         h \in Conns => h \in dialed,
         UNCHANGED <<clvars, answer, dialed>>, faults' \in 0..MaxFaults,
         h \in Conns =>
           /\ req'[h] = req[h]
           /\ pc[h] \in Answered => pc'[h] \in Answered
           /\ pc'[h] \notin {"accepted", "done"} => pc[h] \notin {"accepted", "done"}
           /\ pc'[h] \in HasTunnel => pc[h] \in HasTunnel
  PROVE  ClientInv'
<1>1. ControlInv /\ ManagerInv /\ UNCHANGED <<cst, conn, resume, answer, dialed>>
  BY DEF ClientInv, ControlInv, clvars
<1>2. ControlInv' /\ [ManagerNext]_mvars
  BY DaemonMoves
<1>3. /\ \A g \in Conns : g # h => pc'[g] = pc[g] /\ req'[g] = req[g] /\ sid'[g] = sid[g]
      /\ SidsKept /\ open' \subseteq open
  BY <1>1, OneHandler
<1>4. ASSUME h \in Conns
      PROVE  AnswersOnce(h)'
  BY <1>1, <1>3, <1>4 DEF ClientInv, Answering, AnswersOnce, SidsKept
<1>5. ASSUME NEW k \in Clients, h \in Conns, conn[k] = h, cst[k] = "registering"
      PROVE  Asks(k)' /\ Hears(k)'
  <2>1. Hears(k)'
    BY <1>1, <1>2, <1>5, WordStays
  <2>2. Asks(k)
    BY <1>5 DEF ClientInv, Handshakes
  <2>3. pc'[h] \notin {"accepted", "done"} =>
          /\ req'[h].principal = PrincipalOf[k] /\ req'[h].shape = TheShape
          /\ req'[h].resume = resume[k].id /\ req'[h].token = resume[k].token
    BY <1>5, <2>2 DEF Asks
  <2>4. pc'[h] \in HasTunnel =>
          sid'[h] = sid[h] /\ StaysTunnel(sid[h], sid[h], PrincipalOf[k])
    <3>1. pc'[h] \in HasTunnel => sid[h] # None /\ Tunnel(sid[h], sid[h], PrincipalOf[k])
      <4>1. pc[h] \in HasTunnel => sid[h] # None
        BY <1>1, <1>5
        DEF HasTunnel, ControlInv, HasSession, ControlTypeOK, Stages, Sessionless
      <4>2. QED
        BY <1>5, <2>2, <4>1 DEF Asks, HasTunnel
    <3>2. QED
      BY <1>1, <1>2, <1>3, <1>5, <3>1, TunnelsStay DEF SidsKept
  <2>5. conn'[k] = h /\ resume'[k] = resume[k]
    BY <1>1, <1>5
  <2>6. Asks(k)'
    BY <2>3, <2>4, <2>5 DEF Asks, TheShape, Tunnel, Known, StaysTunnel, HasTunnel
  <2>7. QED
    BY <2>1, <2>6
<1>6. ASSUME NEW k \in Clients, h \in Conns, conn[k] = h, cst[k] = "running"
      PROVE  Serves(k)'
  BY <1>1, <1>6 DEF ClientInv, RunningServes, Serves
<1>7. answer' \in [Conns -> Answer]
  BY <1>1 DEF ClientInv, ClientTypeOK
<1>8. \A g \in Conns : g # h => answer'[g] = answer[g]
  BY <1>1
<1>9. QED
  BY <1>1, <1>2, <1>3, <1>4, <1>5, <1>6, <1>7, <1>8, ServerKeeps

\* A step that answers keeps the invariant if what it says is true.
LEMMA AnswerKeeps ==
  ASSUME ClientInv, NEW c \in dialed, StoreSteps(c) \/ Handle(c), NEW a \in Answer,
         Writes(c, a), faults' \in 0..MaxFaults,
         pc[c] \notin Answered, pc'[c] \in Answered, pc[c] = "accepted" => pc'[c] = "done",
         req'[c] = req[c],
         a.code = "registered" => sid'[c] # None /\ sid'[c] = a.id,
         \A k \in Clients : conn[k] = c /\ cst[k] = "registering" => Hears(k)'
  PROVE  ClientInv'
<1>1. ControlInv /\ ManagerInv /\ UNCHANGED <<cst, conn, resume, dialed, clvars>>
  BY DEF ClientInv, ControlInv, clvars, Writes
<1>2. c \in Conns /\ answer \in [Conns -> Answer]
  BY DEF ClientInv, ClientTypeOK
<1>3. ControlInv' /\ [ManagerNext]_mvars
  BY <1>2, DaemonMoves
<1>4. /\ \A g \in Conns : g # c => pc'[g] = pc[g] /\ req'[g] = req[g] /\ sid'[g] = sid[g]
      /\ SidsKept /\ open' \subseteq open
  BY <1>1, <1>2, OneHandler
<1>5. /\ answer' \in [Conns -> Answer] /\ answer'[c] = a
      /\ \A g \in Conns : g # c => answer'[g] = answer[g]
  BY <1>2 DEF Writes
<1>6. AnswersOnce(c)'
  BY <1>5 DEF AnswersOnce
<1>7. ASSUME NEW k \in Clients, conn[k] = c, cst[k] = "registering"
      PROVE  Asks(k)' /\ Hears(k)'
  <2>1. Hears(k)'
    BY <1>7
  <2>2. Asks(k)
    BY <1>7 DEF ClientInv, Handshakes
  <2>3. pc'[c] \notin {"accepted", "done"} =>
          /\ req'[c].principal = PrincipalOf[k] /\ req'[c].shape = TheShape
          /\ req'[c].resume = resume[k].id /\ req'[c].token = resume[k].token
    BY <1>7, <2>2 DEF Asks, Answered
  <2>4. conn'[k] = c /\ resume'[k] = resume[k]
    BY <1>1, <1>7
  <2>5. Asks(k)'
    BY <2>3, <2>4 DEF Asks, TheShape, Answered
  <2>6. QED
    BY <2>1, <2>5
<1>8. ASSUME NEW k \in Clients, conn[k] = c, cst[k] = "running"
      PROVE  Serves(k)'
  BY <1>2, <1>8 DEF ClientInv, RunningServes, Serves, Answering, AnswersOnce
<1>9. QED
  BY <1>1, <1>2, <1>3, <1>4, <1>5, <1>6, <1>7, <1>8, ServerKeeps

\* A step before the answer that gives the handler a message or a session keeps the
\* invariant if it is what the client asks for.
LEMMA AskedKeeps ==
  ASSUME ClientInv, NEW c \in dialed, StoreSteps(c) \/ Handle(c),
         UNCHANGED <<clvars, answer, dialed, faults>>, pc[c] \notin Answered,
         \A k \in Clients : conn[k] = c /\ cst[k] = "registering" => Asks(k)'
  PROVE  ClientInv'
<1>1. ControlInv /\ ManagerInv /\ UNCHANGED <<cst, conn, resume, answer, dialed, faults>>
  BY DEF ClientInv, ControlInv, clvars
<1>2. /\ c \in Conns /\ answer' \in [Conns -> Answer] /\ faults' \in 0..MaxFaults
  BY <1>1 DEF ClientInv, ClientTypeOK
<1>3. ControlInv' /\ [ManagerNext]_mvars
  BY <1>2, DaemonMoves
<1>4. /\ \A g \in Conns : g # c => pc'[g] = pc[g] /\ req'[g] = req[g] /\ sid'[g] = sid[g]
      /\ SidsKept /\ open' \subseteq open
  BY <1>1, <1>2, OneHandler
<1>5. answer[c].code = "none"
  BY <1>2 DEF ClientInv, Answering, AnswersOnce
<1>6. AnswersOnce(c)'
  BY <1>1, <1>5 DEF AnswersOnce
<1>7. ASSUME NEW k \in Clients, conn[k] = c, cst[k] = "registering"
      PROVE  Asks(k)' /\ Hears(k)'
  BY <1>1, <1>3, <1>7, WordStays
<1>8. ASSUME NEW k \in Clients, conn[k] = c, cst[k] = "running"
      PROVE  Serves(k)'
  BY <1>5, <1>8 DEF ClientInv, RunningServes, Serves
<1>9. \A g \in Conns : g # c => answer'[g] = answer[g]
  BY <1>1
<1>10. QED
  BY <1>1, <1>2, <1>3, <1>4, <1>6, <1>7, <1>8, <1>9, ServerKeeps

\* The register message says what the client would resume.
LEMMA ReceiveRegisterKeeps ==
  ASSUME ClientInv, NEW c \in dialed, ReceiveRegister(c)
  PROVE  ClientInv'
<1>1. PICK k \in Clients :
        /\ conn[k] = c
        /\ ReadRegister(c)
        /\ req'[c] = [principal |-> PrincipalOf[k], shape |-> CHOOSE sh \in Shapes : TRUE,
                      resume |-> resume[k].id, token |-> resume[k].token]
        /\ UNCHANGED <<clvars, answer, dialed, faults>>
  BY DEF ReceiveRegister
<1>2. c \in Conns /\ pc[c] = "accepted" /\ pc'[c] = "authed"
  BY <1>1 DEF ClientInv, ClientTypeOK, ControlTypeOK, ReadRegister, Goto
<1>3. ASSUME NEW j \in Clients, conn[j] = c, cst[j] = "registering"
      PROVE  Asks(j)'
  <2>1. j = k
    BY <1>1, <1>2, <1>3, ControlAssumption DEF ClientInv, Dials
  <2>2. conn'[k] = c /\ resume'[k] = resume[k]
    BY <1>1 DEF clvars
  <2>3. QED
    BY <1>1, <1>2, <2>1, <2>2 DEF Asks, TheShape
<1>4. QED
  BY <1>1, <1>2, <1>3, AskedKeeps DEF Handle, Answered

\* A resume gives the handler the session its client would resume.
LEMMA ClientResumes ==
  ASSUME ClientInv, NEW c \in dialed, Resume(c),
         UNCHANGED <<clvars, answer, dialed, faults>>
  PROVE  ClientInv'
<1>1. c \in Conns /\ pc[c] = "reserved" /\ pc'[c] = "stored" /\ req'[c] = req[c]
  BY DEF ClientInv, ClientTypeOK, ControlTypeOK, Resume, Goto
<1>2. ManagerInv /\ [ManagerNext]_mvars
  BY <1>1, DaemonMoves DEF ClientInv, ControlInv, Handle
<1>3. sid'[c] = req[c].resume
  BY <1>1 DEF ClientInv, ClientTypeOK, ControlTypeOK, Resume
<1>4. ASSUME NEW k \in Clients, conn[k] = c, cst[k] = "registering"
      PROVE  Asks(k)'
  <2>1. Asks(k)
    BY <1>4 DEF ClientInv, Handshakes
  <2>2. /\ req[c].principal = PrincipalOf[k] /\ req[c].shape = TheShape
        /\ req[c].resume = resume[k].id /\ req[c].token = resume[k].token
    BY <1>1, <1>4, <2>1 DEF Asks
  <2>3. resume[k].id # None
    BY <2>2 DEF Resume, Fresh
  <2>4. StaysTunnel(resume[k].id, resume[k].token, PrincipalOf[k])
    BY <1>2, <2>3, TunnelsStay DEF ClientInv, KeepsTunnel
  <2>5. StaysTunnel(resume[k].id, resume[k].id, PrincipalOf[k])
    BY <2>4 DEF StaysTunnel
  <2>6. conn'[k] = c /\ resume'[k] = resume[k]
    BY <1>4 DEF clvars
  <2>7. QED
    BY <1>1, <1>3, <2>2, <2>5, <2>6 DEF Asks, TheShape, Tunnel, Known, StaysTunnel
<1>5. QED
  BY <1>1, <1>4, AskedKeeps DEF Handle, Answered

\* A session that is stored for a client is the client's.
LEMMA ClientStores ==
  ASSUME ClientInv, NEW c \in dialed, Store(c),
         UNCHANGED <<clvars, answer, dialed, faults>>
  PROVE  ClientInv'
<1>1. c \in Conns /\ pc[c] = "allocated" /\ pc'[c] = "stored" /\ req'[c] = req[c]
  BY DEF ClientInv, ClientTypeOK, ControlTypeOK, Store, Goto
<1>2. PICK s \in Sids : StoreSession(s, NewSession(c)) /\ sid' = [sid EXCEPT ![c] = s]
  BY <1>1 DEF Store
<1>3. sid'[c] = s /\ s \in issued'
  BY <1>1, <1>2 DEF ClientInv, ClientTypeOK, ControlTypeOK, StoreSession, Draw
<1>4. sessions'[s] = NewSession(c)
  BY <1>2 DEF StoreSession, Evicted
<1>5. ASSUME NEW k \in Clients, conn[k] = c, cst[k] = "registering"
      PROVE  Asks(k)'
  <2>1. /\ req[c].principal = PrincipalOf[k] /\ req[c].shape = TheShape
        /\ req[c].resume = resume[k].id /\ req[c].token = resume[k].token
    BY <1>1, <1>5 DEF ClientInv, Handshakes, Asks
  <2>2. NewSession(c).owner = PrincipalOf[k] /\ NewSession(c).shape = TheShape
    BY <1>1, <2>1 DEF NewSession
  <2>3. StaysTunnel(s, s, PrincipalOf[k])
    BY <1>3, <1>4, <2>2 DEF StaysTunnel
  <2>4. conn'[k] = c /\ resume'[k] = resume[k]
    BY <1>5 DEF clvars
  <2>5. QED
    BY <1>1, <1>3, <2>1, <2>3, <2>4 DEF Asks, TheShape, Tunnel, Known, StaysTunnel
<1>6. QED
  BY <1>1, <1>5, AskedKeeps DEF StoreSteps, Answered

\* The steps of a handler that neither answer nor give it a message or a session.
LEMMA QuietSteps ==
  ASSUME ClientInv, NEW c \in dialed,
         \/ Reserve(c) \/ Allocate(c) \/ AddPeer(c) \/ CountTunnel(c)
         \/ ReleaseReservation(c) \/ RemovePeer(c) \/ Detach(c) \/ CloseTunnel(c)
         \/ RefuseRegister(c) \/ NotSent(c) \/ LeaveLoop(c) \/ UnknownSession(c) \/ Ping(c),
         UNCHANGED <<clvars, answer, dialed>>, faults' \in 0..MaxFaults
  PROVE  ClientInv'
<1>1. c \in Conns /\ pc \in [Conns \cup Calls -> Stages]
  BY DEF ClientInv, ClientTypeOK, ControlTypeOK
<1>2. StoreSteps(c) \/ Handle(c)
  BY DEF StoreSteps, Handle
<1>3. req' = req
  BY DEF Reserve, Allocate, AddPeer, CountTunnel, ReleaseReservation, RemovePeer, Detach,
         CloseTunnel, RefuseRegister, NotSent, LeaveLoop, UnknownSession, Ping, hvars
<1>4. \/ pc[c] = "authed" /\ pc'[c] = "reserved"
      \/ pc[c] = "reserved" /\ pc'[c] = "allocated"
      \/ pc[c] \in HasTunnel /\ pc'[c] \in HasTunnel \cup Answered
      \/ pc[c] \in Answered /\ pc'[c] \in Answered
      \/ pc[c] = "accepted" /\ pc'[c] = "done"
  <2>1. CASE \/ Reserve(c) \/ ReleaseReservation(c) \/ RemovePeer(c) \/ Detach(c)
             \/ CloseTunnel(c) \/ RefuseRegister(c) \/ NotSent(c) \/ LeaveLoop(c)
             \/ UnknownSession(c)
    BY <1>1, <2>1
    DEF Reserve, ReleaseReservation, RemovePeer, Detach, CloseTunnel, RefuseRegister,
        NotSent, LeaveLoop, UnknownSession, Goto, HasTunnel, Answered
  <2>2. CASE AddPeer(c) \/ CountTunnel(c)
    BY <1>1, <2>2 DEF AddPeer, CountTunnel, Goto, HasTunnel
  <2>3. CASE Allocate(c)
    BY <1>1, <2>3, ControlAssumption DEF Allocate, Goto
  <2>4. CASE Ping(c)
    BY <2>4 DEF Ping, hvars, Answered
  <2>5. QED
    BY <2>1, <2>2, <2>3, <2>4
<1>5. /\ pc[c] \in Answered => pc'[c] \in Answered
      /\ pc'[c] \notin {"accepted", "done"} => pc[c] \notin {"accepted", "done"}
      /\ pc'[c] \in HasTunnel => pc[c] \in HasTunnel
  <2>1. CASE Ping(c)
    BY <2>1 DEF Ping, hvars
  <2>2. CASE pc[c] # "done"
    BY <1>4, <2>2 DEF HasTunnel, Answered
  <2>3. CASE pc[c] = "done"
    BY <1>4, <2>3
    DEF HasTunnel, Answered, Reserve, Allocate, AddPeer, CountTunnel, ReleaseReservation,
        RemovePeer, Detach, CloseTunnel, RefuseRegister, NotSent, LeaveLoop, UnknownSession,
        Ping, hvars
  <2>4. QED
    BY <2>1, <2>2, <2>3
<1>6. QED
  BY <1>1, <1>2, <1>3, <1>5, QuietKeeps

\* What a refusal says promises nothing.
LEMMA RefusalTrue ==
  ASSUME ClientInv, NEW c \in dialed, NEW code \in Codes \ {"registered", "invalid_resume"},
         Writes(c, Says(code)), NEW k \in Clients, conn[k] = c
  PROVE  Hears(k)'
<1>1. c \in Conns /\ answer \in [Conns -> Answer] /\ conn' = conn
  BY DEF ClientInv, ClientTypeOK, Writes, clvars
<1>2. answer'[conn'[k]].code = code
  BY <1>1 DEF Writes, Says
<1>3. QED
  BY <1>2 DEF Hears

\* A refusal, after the plan, the validator or the registry.
LEMMA RefusalKeeps ==
  ASSUME ClientInv, NEW c \in dialed, OverLimit(c) \/ RefuseRegister(c) \/ NotAllocated(c)
           \/ NotStored(c),
         NEW code \in Codes \ {"registered", "invalid_resume"}, Writes(c, Says(code)),
         faults' \in 0..MaxFaults
  PROVE  ClientInv'
<1>1. c \in Conns /\ pc \in [Conns \cup Calls -> Stages]
  BY DEF ClientInv, ClientTypeOK, ControlTypeOK
<1>2. StoreSteps(c) \/ Handle(c)
  BY DEF StoreSteps, Handle
<1>3. req' = req
  BY DEF OverLimit, RefuseRegister, NotAllocated, NotStored
<1>4. pc[c] \notin Answered /\ pc'[c] \in Answered /\ (pc[c] = "accepted" => pc'[c] = "done")
  BY <1>1, ControlAssumption
  DEF OverLimit, RefuseRegister, NotAllocated, NotStored, Goto, Answered
<1>5. Says(code) \in Answer /\ Says(code).code # "registered"
  BY DEF Says, Answer
<1>6. \A k \in Clients : conn[k] = c /\ cst[k] = "registering" => Hears(k)'
  BY RefusalTrue
<1>7. QED
  BY <1>2, <1>3, <1>4, <1>5, <1>6, AnswerKeeps

\* invalid_resume is said of a tunnel the daemon does not know: it is the client's and
\* so is the token, or there would be nothing to refuse.
LEMMA InvalidResumeKeeps ==
  ASSUME ClientInv, NEW c \in dialed, InvalidResume(c), Writes(c, Says("invalid_resume")),
         UNCHANGED faults
  PROVE  ClientInv'
<1>1. c \in Conns /\ pc[c] = "reserved" /\ pc'[c] = "failed" /\ req' = req
      /\ faults' \in 0..MaxFaults /\ answer \in [Conns -> Answer]
  BY DEF ClientInv, ClientTypeOK, ControlTypeOK, InvalidResume, Goto
<1>2. ASSUME NEW k \in Clients, conn[k] = c, cst[k] = "registering"
      PROVE  Hears(k)'
  <2>1. /\ req[c].principal = PrincipalOf[k] /\ req[c].shape = TheShape
        /\ req[c].resume = resume[k].id /\ req[c].token = resume[k].token
    BY <1>1, <1>2 DEF ClientInv, Handshakes, Asks
  <2>2. resume[k].id # None
    BY <2>1 DEF InvalidResume, Fresh
  <2>3. Tunnel(resume[k].id, resume[k].token, PrincipalOf[k])
    BY <2>2 DEF ClientInv, KeepsTunnel
  <2>4. ~Known(resume[k].id)
    BY <2>1, <2>3 DEF InvalidResume, CanResume, Tunnel
  <2>5. sessions' = sessions /\ conn'[k] = c /\ resume'[k] = resume[k]
    BY <1>2 DEF InvalidResume, mvars, Writes, clvars
  <2>6. answer'[c].code = "invalid_resume"
    BY <1>1 DEF Writes, Says
  <2>7. QED
    BY <2>2, <2>4, <2>5, <2>6 DEF Hears, Known
<1>3. Says("invalid_resume") \in Answer /\ Says("invalid_resume").code = "invalid_resume"
  BY DEF Says, Answer, Codes
<1>4. Handle(c)
  BY DEF Handle
<1>5. QED
  BY <1>1, <1>2, <1>3, <1>4, AnswerKeeps DEF Answered

\* The registered message names the session of the handler and its token.
LEMMA SendRegisteredKeeps ==
  ASSUME ClientInv, NEW c \in dialed, SendRegistered(c), UNCHANGED faults,
         Writes(c, [code |-> "registered", id |-> sid[c],
                    token |-> IF Known(sid[c]) THEN sid[c] ELSE None])
  PROVE  ClientInv'
<1> DEFINE a == [code |-> "registered", id |-> sid[c],
                 token |-> IF Known(sid[c]) THEN sid[c] ELSE None]
<1>1. c \in Conns /\ pc[c] = "counted" /\ pc'[c] = "serving" /\ req' = req
      /\ faults' \in 0..MaxFaults /\ answer \in [Conns -> Answer]
  BY DEF ClientInv, ClientTypeOK, ControlTypeOK, SendRegistered, Goto
<1>2. sid[c] \in Sids /\ sid[c] # None /\ sid' = sid
  BY <1>1
  DEF SendRegistered, ClientInv, ControlInv, HasSession, ControlTypeOK, Stages, Sessionless
<1>3. a \in Answer /\ a.code = "registered" /\ a.id = sid[c]
      /\ (Known(sid[c]) => a.token = sid[c])
  BY <1>2 DEF Answer, Codes
<1>4. ASSUME NEW k \in Clients, conn[k] = c, cst[k] = "registering"
      PROVE  Hears(k)'
  <2>1. Asks(k)
    BY <1>4 DEF ClientInv, Handshakes
  <2>2. req[c].resume = resume[k].id /\ Tunnel(sid[c], sid[c], PrincipalOf[k])
    BY <1>1, <1>4, <2>1 DEF Asks
  <2>3. resume[k].id # None => sid[c] = resume[k].id
    BY <1>1, <1>2, <2>2 DEF ClientInv, ControlInv, HasSession, Fresh
  <2>4. Tunnel(a.id, a.token, PrincipalOf[k])
    BY <1>3, <2>2 DEF Tunnel
  <2>5. /\ sessions' = sessions /\ issued' = issued
        /\ conn'[k] = c /\ resume'[k] = resume[k] /\ answer'[c] = a
    BY <1>1, <1>4 DEF SendRegistered, mvars, Writes, clvars
  <2>6. QED
    BY <1>3, <2>3, <2>4, <2>5 DEF Hears, Tunnel, Known
<1>5. Handle(c)
  BY DEF Handle
<1> HIDE DEF a
<1>6. Writes(c, a)
  BY DEF a
<1>7. sid'[c] # None /\ sid'[c] = a.id
  BY <1>2, <1>3
<1>8. \A k \in Clients : conn[k] = c /\ cst[k] = "registering" => Hears(k)'
  BY <1>4
<1>9. pc[c] \notin Answered /\ pc'[c] \in Answered /\ pc[c] # "accepted" /\ req'[c] = req[c]
  BY <1>1 DEF Answered
<1>10. QED
  BY <1>1, <1>3, <1>5, <1>6, <1>7, <1>8, <1>9, AnswerKeeps

\* A connection that is cut.
LEMMA CutKeeps ==
  ASSUME ClientInv, ControlInv', open' \subseteq open, faults' \in 0..MaxFaults,
         UNCHANGED <<mvars, pc, req, sid, clvars, answer, dialed>>
  PROVE  ClientInv'
<1>1. UNCHANGED <<cst, conn, resume, sessions, issued>>
  BY DEF clvars, mvars
<1>2. ClientTypeOK'
  BY <1>1 DEF ClientInv, ClientTypeOK, ControlInv
<1>3. Dials'
  BY <1>1 DEF ClientInv, Dials
<1>4. Answering'
  BY DEF ClientInv, Answering, AnswersOnce
<1>5. KeepsTunnel'
  BY <1>1 DEF ClientInv, KeepsTunnel, Tunnel, Known
<1>6. Handshakes'
  BY <1>1 DEF ClientInv, Handshakes, Asks, Hears, TheShape, Tunnel, Known
<1>7. RunningServes'
  BY <1>1 DEF ClientInv, RunningServes, Serves
<1>8. QED
  BY <1>2, <1>3, <1>4, <1>5, <1>6, <1>7 DEF ClientInv

\* Every step of a handler keeps the invariant.
LEMMA ServerStepKeeps ==
  ASSUME ClientInv, NEW c \in dialed, ServerStep(c)
  PROVE  ClientInv'
<1>1. faults \in 0..MaxFaults /\ (Fault => faults' \in 0..MaxFaults)
  BY ClientAssumption DEF ClientInv, ClientTypeOK, Fault
<1>2. CASE ReceiveRegister(c)
  BY <1>2, ReceiveRegisterKeeps
<1>3. CASE Silently(c)
  BY <1>1, <1>3, QuietSteps, ClientResumes, ClientStores DEF Silently
<1>4. CASE Answers(c)
  <2>1. "usage_limit_exceeded" \in Codes \ {"registered", "invalid_resume"}
    BY DEF Codes, Fatal
  <2>2. CASE OverLimit(c) /\ Writes(c, Says("usage_limit_exceeded")) /\ UNCHANGED faults
    BY <1>1, <2>1, <2>2, RefusalKeeps
  <2>3. CASE InvalidResume(c) /\ Writes(c, Says("invalid_resume")) /\ UNCHANGED faults
    BY <2>3, InvalidResumeKeeps
  <2>4. QED
    BY <1>4, <2>2, <2>3, SendRegisteredKeeps DEF Answers
<1>5. CASE Refuses(c)
  <2>1. {"none", "invalid_token", "registration_failed"}
          \subseteq Codes \ {"registered", "invalid_resume"}
    BY DEF Codes, Fatal
  <2>2. CASE RefuseRegister(c) /\ \E code \in {"none", "invalid_token"} : Writes(c, Says(code))
    BY <1>1, <1>5, <2>1, <2>2, RefusalKeeps DEF Refuses
  <2>3. CASE (NotAllocated(c) \/ NotStored(c)) /\ Writes(c, Says("registration_failed"))
    BY <1>1, <1>5, <2>1, <2>3, RefusalKeeps DEF Refuses
  <2>4. QED
    BY <1>5, <2>2, <2>3 DEF Refuses
<1>6. CASE FindsClosed(c)
  BY <1>1, <1>6, QuietSteps DEF FindsClosed
<1>7. CASE Heartbeat(c)
  BY <1>1, <1>7, QuietSteps DEF Heartbeat
<1>8. CASE Fails(c)
  <2>1. CASE Disconnect(c)
    <3>1. Closing
      BY <2>1 DEF Disconnect, Closing
    <3>2. ControlInv'
      BY <3>1, ClosingKeeps DEF ClientInv
    <3>3. QED
      BY <1>1, <1>8, <2>1, <3>2, CutKeeps DEF Fails, Disconnect
  <2>2. CASE NotSent(c) \/ LeaveLoop(c)
    BY <1>1, <1>8, <2>2, QuietSteps DEF Fails
  <2>3. QED
    BY <1>8, <2>1, <2>2 DEF Fails
<1>9. QED
  BY <1>2, <1>3, <1>4, <1>5, <1>6, <1>7, <1>8 DEF ServerStep

\* A session created over HTTP does not concern the clients.
LEMMA OtherCallKeeps ==
  ASSUME ClientInv, NEW h \in Calls, OtherCall(h)
  PROVE  ClientInv'
<1>1. h \notin Conns
  BY ControlAssumption
<1>2. StoreSteps(h) /\ UNCHANGED <<clvars, answer, dialed>> /\ faults' \in 0..MaxFaults
  BY DEF OtherCall, ClientInv, ClientTypeOK
<1>3. QED
  BY <1>1, <1>2, QuietKeeps

\* After a restart no handler is left of a connection that was dialled, and what the
\* clients hold is a session that is gone.
LEMMA RestartServerKeeps ==
  ASSUME ClientInv, RestartServer
  PROVE  ClientInv' /\ AnyStep
<1> DEFINE waiting == (Conns \ dialed) \cup {h \in Calls : pc[h] = "accepted"}
<1>1. RestartKeeping(waiting) /\ UNCHANGED <<cst, conn, resume, answer, dialed, faults>>
  BY DEF RestartServer, clvars
<1>2. \A h \in waiting : pc[h] = "accepted"
  BY DEF ClientInv, Dials
<1>3. Restarting
  <2>1. waiting \in SUBSET (Conns \cup Calls)
    OBVIOUS
  <2>2. QED
    BY <1>1, <1>2, <2>1 DEF Restarting
<1>4. AnyStep
  BY <1>3 DEF AnyStep
<1>5. ControlInv' /\ [ManagerNext]_mvars
  BY <1>4, AnyStepInv, StepManages DEF ClientInv
<1>6. /\ \A h \in Conns \cup Calls : pc'[h] = IF h \in waiting THEN pc[h] ELSE "done"
      /\ open' = open \cap waiting
  BY <1>1 DEF RestartKeeping
<1>7. /\ \A c \in Conns \ dialed : pc'[c] = "accepted" /\ c \in Conns \ dialed'
      /\ \A c \in dialed : pc'[c] = "done" /\ c \notin open'
  <2>1. \A c \in Conns \ dialed : c \in waiting
    OBVIOUS
  <2>2. \A c \in dialed : c \in Conns /\ c \notin waiting
    BY ControlAssumption DEF ClientInv, ClientTypeOK
  <2>3. QED
    BY <1>1, <1>2, <1>6, <2>1, <2>2
<1> HIDE DEF waiting
<1>8. ClientTypeOK'
  BY <1>1, <1>5 DEF ClientInv, ClientTypeOK, ControlInv
<1>9. Dials'
  <2>1. \A c \in Conns \ dialed : answer'[c].code = "none"
    BY <1>1 DEF ClientInv, Dials
  <2>2. QED
    BY <1>1, <1>7, <2>1 DEF ClientInv, Dials
<1>10. Answering'
  <2>1. ASSUME NEW c \in Conns
        PROVE  AnswersOnce(c)'
    <3>1. CASE c \in dialed
      BY <1>7, <3>1 DEF AnswersOnce, Answered
    <3>2. CASE c \notin dialed
      BY <1>1, <3>2 DEF ClientInv, Dials, AnswersOnce
    <3>3. QED
      BY <3>1, <3>2
  <2>2. QED
    BY <2>1 DEF Answering
<1>11. KeepsTunnel'
  <2>1. SUFFICES ASSUME NEW k \in Clients, resume[k].id # None
                 PROVE  Tunnel(resume[k].id, resume[k].token, PrincipalOf[k])'
    BY <1>1 DEF KeepsTunnel
  <2>2. StaysTunnel(resume[k].id, resume[k].token, PrincipalOf[k])
    BY <1>5, <2>1, TunnelsStay DEF ClientInv, KeepsTunnel, ControlInv
  <2>3. QED
    BY <1>1, <2>2 DEF Tunnel, Known, StaysTunnel
<1>12. Handshakes'
  <2>1. SUFFICES ASSUME NEW k \in Clients, cst[k] = "registering"
                 PROVE  Asks(k)' /\ Hears(k)'
    BY <1>1 DEF Handshakes
  <2>2. pc'[conn'[k]] = "done"
    BY <1>1, <1>7, <2>1 DEF ClientInv, Dials
  <2>3. Hears(k)'
    <3>1. UNCHANGED clvars /\ answer'[conn[k]] = answer[conn[k]]
      BY <1>1 DEF clvars
    <3>2. QED
      BY <1>5, <2>1, <3>1, WordStays
  <2>4. QED
    BY <2>2, <2>3 DEF Asks
<1>13. RunningServes'
  BY <1>1 DEF ClientInv, RunningServes, Serves
<1>14. QED
  BY <1>4, <1>5, <1>8, <1>9, <1>10, <1>11, <1>12, <1>13 DEF ClientInv

-----------------------------------------------------------------------------
(* The clients' steps.                                                     *)

\* A step of one client leaves the daemon alone, but for a connection it may close, and
\* keeps the invariant if it keeps what is said of that client.
LEMMA ClientKeeps ==
  ASSUME ClientInv, NEW k \in Clients, ControlInv', ClientTypeOK', Dials',
         UNCHANGED <<mvars, pc, req, sid, answer>>, open' \subseteq open,
         \A j \in Clients : j # k =>
           cst'[j] = cst[j] /\ conn'[j] = conn[j] /\ resume'[j] = resume[j],
         resume'[k].id # None => Tunnel(resume[k].id, resume[k].token, PrincipalOf[k])',
         cst'[k] = "registering" => Asks(k)' /\ Hears(k)',
         cst'[k] = "running" => Serves(k)'
  PROVE  ClientInv'
<1>1. UNCHANGED <<sessions, issued>>
  BY DEF mvars
<1>2. Answering'
  BY DEF ClientInv, Answering, AnswersOnce
<1>3. KeepsTunnel'
  <2>1. SUFFICES ASSUME NEW j \in Clients, resume'[j].id # None
                 PROVE  Tunnel(resume[j].id, resume[j].token, PrincipalOf[j])'
    BY DEF KeepsTunnel
  <2>2. CASE j # k
    BY <1>1, <2>1, <2>2 DEF ClientInv, KeepsTunnel, Tunnel, Known
  <2>3. QED
    BY <2>1, <2>2
<1>4. Handshakes'
  <2>1. SUFFICES ASSUME NEW j \in Clients, cst'[j] = "registering"
                 PROVE  Asks(j)' /\ Hears(j)'
    BY DEF Handshakes
  <2>2. CASE j # k
    <3>1. cst[j] = "registering" /\ conn'[j] = conn[j] /\ resume'[j] = resume[j]
      BY <2>1, <2>2
    <3>2. Asks(j) /\ Hears(j)
      BY <3>1 DEF ClientInv, Handshakes
    <3>3. Asks(j)'
      BY <1>1, <3>1, <3>2 DEF Asks, TheShape, Tunnel, Known
    <3>4. Hears(j)'
      BY <1>1, <3>1, <3>2 DEF Hears, Tunnel, Known
    <3>5. QED
      BY <3>3, <3>4
  <2>3. QED
    BY <2>1, <2>2
<1>5. RunningServes'
  <2>1. SUFFICES ASSUME NEW j \in Clients, cst'[j] = "running"
                 PROVE  Serves(j)'
    BY DEF RunningServes
  <2>2. CASE j # k
    BY <2>1, <2>2 DEF ClientInv, RunningServes, Serves
  <2>3. QED
    BY <2>1, <2>2
<1>6. QED
  BY <1>2, <1>3, <1>4, <1>5 DEF ClientInv

\* The steps that hang up: the client is left without a connection, and with its tunnel
\* or without any.
LEMMA HangUpKeeps ==
  ASSUME ClientInv, NEW k \in Clients, HangUp(k), UNCHANGED <<answer, dialed>>,
         NEW state \in ClientStates \ {"registering", "running"}, Become(k, state),
         faults' \in 0..MaxFaults,
         resume' = resume \/ resume' = [resume EXCEPT ![k] = [id |-> None, token |-> None]]
  PROVE  ClientInv' /\ Closing
<1>1. Closing
  BY DEF HangUp, Closing, mvars, qvars
<1>2. ControlInv'
  BY <1>1, ClosingKeeps DEF ClientInv
<1>3. /\ cst \in [Clients -> ClientStates] /\ conn \in [Clients -> Conns \cup {None}]
      /\ resume \in [Clients -> [id : Sids \cup {None}, token : Sids \cup {None}]]
  BY DEF ClientInv, ClientTypeOK
<1>4. /\ cst'[k] = state /\ conn'[k] = None
      /\ \A j \in Clients : j # k =>
           cst'[j] = cst[j] /\ conn'[j] = conn[j] /\ resume'[j] = resume[j]
  BY <1>3 DEF HangUp, Become
<1>5. cst' \in [Clients -> ClientStates] /\ conn' \in [Clients -> Conns \cup {None}]
  BY <1>3 DEF HangUp, Become
<1>6. /\ resume' \in [Clients -> [id : Sids \cup {None}, token : Sids \cup {None}]]
      /\ resume'[k].id # None => resume'[k] = resume[k]
  BY <1>3
<1>7. UNCHANGED <<mvars, pc, req, sid, answer, dialed>> /\ open' \subseteq open
  BY DEF HangUp
<1>8. ClientTypeOK'
  BY <1>2, <1>5, <1>6, <1>7 DEF ClientInv, ClientTypeOK, ControlInv
<1>9. Dials'
  BY <1>4, <1>7 DEF ClientInv, Dials
<1>10. ASSUME resume'[k].id # None
       PROVE  Tunnel(resume[k].id, resume[k].token, PrincipalOf[k])'
  BY <1>6, <1>7, <1>10 DEF ClientInv, KeepsTunnel, Tunnel, Known, mvars
<1>11. cst'[k] \notin {"registering", "running"}
  BY <1>4
<1>12. ClientInv'
  BY <1>2, <1>4, <1>7, <1>8, <1>9, <1>10, <1>11, ClientKeeps
<1>13. QED
  BY <1>1, <1>12

\* Connect takes a connection that nobody had, and nothing has been said on it.
LEMMA DialKeeps ==
  ASSUME ClientInv, NEW k \in Clients, Dial(k)
  PROVE  ClientInv'
<1> DEFINE c == CHOOSE c \in Conns \ dialed : TRUE
<1>1. c \in Conns \ dialed
  BY DEF Dial, ClientInv, ClientTypeOK
<1>2. conn' = [conn EXCEPT ![k] = c] /\ dialed' = dialed \cup {c}
  BY DEF Dial
<1> HIDE DEF c
<1>3. /\ cst \in [Clients -> ClientStates] /\ conn \in [Clients -> Conns \cup {None}]
      /\ cst' = [cst EXCEPT ![k] = "registering"] /\ UNCHANGED <<cvars, resume, answer, faults>>
  BY DEF ClientInv, ClientTypeOK, Dial, Become
<1>4. UNCHANGED <<mvars, pc, req, sid, answer, open>>
  BY <1>3 DEF cvars, hvars
<1>5. ControlInv'
  BY <1>3, StutterInv DEF ClientInv
<1>6. /\ cst'[k] = "registering" /\ conn'[k] = c /\ resume'[k] = resume[k]
      /\ \A j \in Clients : j # k =>
           cst'[j] = cst[j] /\ conn'[j] = conn[j] /\ resume'[j] = resume[j]
  BY <1>2, <1>3
<1>7. ClientTypeOK'
  <2>1. cst' \in [Clients -> ClientStates] /\ conn' \in [Clients -> Conns \cup {None}]
    BY <1>1, <1>2, <1>3 DEF ClientStates
  <2>2. QED
    BY <1>1, <1>2, <1>3, <1>5, <2>1 DEF ClientInv, ClientTypeOK, ControlInv
<1>8. c # None
  BY <1>1, ControlAssumption
<1>9. \A j \in Clients : conn[j] # c
  BY <1>1, <1>8 DEF ClientInv, Dials
<1>10. Dials'
  <2>1. \A g \in Conns \ dialed' : pc'[g] = "accepted" /\ answer'[g].code = "none"
    BY <1>2, <1>4 DEF ClientInv, Dials
  <2>2. \A j \in Clients : conn'[j] # None => conn'[j] \in dialed'
    BY <1>2, <1>6 DEF ClientInv, Dials
  <2>3. \A j \in Clients, i \in Clients : conn'[j] = conn'[i] /\ conn'[j] # None => j = i
    <3>1. SUFFICES ASSUME NEW j \in Clients, NEW i \in Clients,
                          conn'[j] = conn'[i], conn'[j] # None
                   PROVE  j = i
      OBVIOUS
    <3>2. CASE j # k /\ i # k
      BY <1>6, <3>1, <3>2 DEF ClientInv, Dials
    <3>3. CASE j = k \/ i = k
      BY <1>6, <1>9, <3>1, <3>3
    <3>4. QED
      BY <3>2, <3>3
  <2>4. \A j \in Clients : cst'[j] \in {"registering", "running"} => conn'[j] # None
    BY <1>6, <1>8 DEF ClientInv, Dials
  <2>5. QED
    BY <2>1, <2>2, <2>3, <2>4 DEF Dials
<1>11. pc'[c] = "accepted" /\ answer'[c].code = "none"
  BY <1>1, <1>4 DEF ClientInv, Dials
<1>12. Asks(k)' /\ Hears(k)'
  BY <1>6, <1>11 DEF Asks, Hears
<1>13. ASSUME resume'[k].id # None
       PROVE  Tunnel(resume[k].id, resume[k].token, PrincipalOf[k])'
  BY <1>4, <1>6, <1>13 DEF ClientInv, KeepsTunnel, Tunnel, Known, mvars
<1>14. QED
  BY <1>4, <1>5, <1>6, <1>7, <1>10, <1>12, <1>13, ClientKeeps

\* The steps of a client that has no connection yet.
LEMMA SleepKeeps ==
  ASSUME ClientInv, NEW k \in Clients, NEW state \in {"backoff", "connect"},
         Become(k, state), faults' \in 0..MaxFaults,
         UNCHANGED <<cvars, conn, resume, answer, dialed>>
  PROVE  ClientInv'
<1>1. ControlInv' /\ UNCHANGED <<mvars, pc, req, sid, answer, open>>
  BY StutterInv DEF ClientInv, cvars, hvars
<1>2. cst \in [Clients -> ClientStates] /\ state \in ClientStates
  BY DEF ClientInv, ClientTypeOK, ClientStates
<1>3. /\ cst' \in [Clients -> ClientStates] /\ cst'[k] = state
      /\ \A j \in Clients : j # k => cst'[j] = cst[j]
  BY <1>2 DEF Become
<1>4. ClientTypeOK'
  BY <1>1, <1>3 DEF ClientInv, ClientTypeOK, ControlInv
<1>5. Dials'
  BY <1>1, <1>3 DEF ClientInv, Dials
<1>6. ASSUME resume'[k].id # None
      PROVE  Tunnel(resume[k].id, resume[k].token, PrincipalOf[k])'
  BY <1>1, <1>6 DEF ClientInv, KeepsTunnel, Tunnel, Known, mvars
<1>7. cst'[k] \notin {"registering", "running"}
  BY <1>3
<1>8. QED
  BY <1>1, <1>3, <1>4, <1>5, <1>6, <1>7, ClientKeeps

\* The registered message gives the client the tunnel it names.  A client that had a
\* tunnel is given the same one; no token comes only with a tunnel that is gone again.
LEMMA GetRegisteredKeeps ==
  ASSUME ClientInv, NEW k \in Clients, GetRegistered(k)
  PROVE  /\ ClientInv'
         /\ resume[k].id # None => resume'[k].id = resume[k].id
<1> DEFINE a == answer[conn[k]]
           token == IF a.token # None THEN a.token ELSE resume[k].token
<1>1. cst[k] = "registering" /\ a.code = "registered"
      /\ UNCHANGED <<cvars, conn, answer, dialed, faults>>
      /\ cst' = [cst EXCEPT ![k] = "running"]
  BY DEF GetRegistered, Reading, Become
<1>2. ControlInv' /\ UNCHANGED <<mvars, pc, req, sid, answer, open>>
  BY <1>1, StutterInv DEF ClientInv, cvars, hvars
<1>3. /\ cst \in [Clients -> ClientStates] /\ conn[k] \in Conns /\ answer \in [Conns -> Answer]
      /\ resume \in [Clients -> [id : Sids \cup {None}, token : Sids \cup {None}]]
  BY <1>1 DEF ClientInv, ClientTypeOK, Dials
<1>4. resume' = [resume EXCEPT ![k] = [id |-> a.id, token |-> token]]
  BY <1>3 DEF GetRegistered
<1>5. a \in Answer /\ a.id \in Sids \cup {None} /\ token \in Sids \cup {None}
  BY <1>3 DEF Answer
<1>6. /\ Tunnel(a.id, a.token, PrincipalOf[k])
      /\ resume[k].id # None => a.id = resume[k].id
  BY <1>1 DEF ClientInv, Handshakes, Hears
<1>7. Tunnel(a.id, token, PrincipalOf[k])
  <2>1. CASE a.token # None
    BY <1>6, <2>1
  <2>2. CASE a.token = None
    BY <1>6, <2>2 DEF Tunnel, Known
  <2>3. QED
    BY <2>1, <2>2
<1> HIDE DEF token
<1>8. /\ resume'[k].id = a.id /\ resume'[k].token = token
      /\ resume' \in [Clients -> [id : Sids \cup {None}, token : Sids \cup {None}]]
      /\ \A j \in Clients : j # k => resume'[j] = resume[j]
  BY <1>3, <1>4, <1>5
<1>9. /\ cst' \in [Clients -> ClientStates] /\ cst'[k] = "running"
      /\ \A j \in Clients : j # k => cst'[j] = cst[j]
  BY <1>1, <1>3 DEF ClientStates
<1>10. ClientTypeOK'
  BY <1>1, <1>2, <1>8, <1>9 DEF ClientInv, ClientTypeOK, ControlInv
<1>11. Dials'
  BY <1>1, <1>2, <1>9 DEF ClientInv, Dials
<1>12. Tunnel(resume[k].id, resume[k].token, PrincipalOf[k])'
  BY <1>2, <1>7, <1>8 DEF Tunnel, Known, mvars
<1>13. Serves(k)'
  BY <1>1, <1>8 DEF Serves
<1>14. \A j \in Clients : j # k =>
         cst'[j] = cst[j] /\ conn'[j] = conn[j] /\ resume'[j] = resume[j]
  BY <1>1, <1>8, <1>9
<1>15. cst'[k] # "registering"
  BY <1>9
<1>16. ClientInv'
  BY <1>2, <1>10, <1>11, <1>12, <1>13, <1>14, <1>15, ClientKeeps
<1>17. QED
  BY <1>6, <1>8, <1>16

\* Every step of a client keeps the invariant, and is no step of the daemon's unless it
\* closes a connection.
LEMMA ClientStepKeeps ==
  ASSUME ClientInv, NEW k \in Clients, ClientStep(k)
  PROVE  ClientInv' /\ (Closing \/ UNCHANGED cvars)
<1>1. faults \in 0..MaxFaults /\ (Fault => faults' \in 0..MaxFaults)
  BY ClientAssumption DEF ClientInv, ClientTypeOK, Fault
<1>2. {"connect", "failed", "backoff", "stopped"}
        \subseteq ClientStates \ {"registering", "running"}
  BY DEF ClientStates
<1>3. CASE Dial(k)
  BY <1>3, DialKeeps DEF Dial
<1>4. CASE DialFails(k)
  BY <1>1, <1>4, SleepKeeps DEF DialFails
<1>5. CASE GetRegistered(k)
  BY <1>5, GetRegisteredKeeps DEF GetRegistered
<1>6. CASE GetInvalidResume(k)
  BY <1>1, <1>2, <1>6, HangUpKeeps DEF GetInvalidResume
<1>7. CASE GetFatal(k)
  BY <1>1, <1>2, <1>7, HangUpKeeps DEF GetFatal
<1>8. CASE GetNothing(k)
  BY <1>1, <1>2, <1>8, HangUpKeeps DEF GetNothing
<1>9. CASE AnswerLost(k)
  BY <1>1, <1>2, <1>9, HangUpKeeps DEF AnswerLost
<1>10. CASE SessionEnds(k)
  BY <1>1, <1>2, <1>10, HangUpKeeps DEF SessionEnds
<1>11. CASE SessionFails(k)
  BY <1>1, <1>2, <1>11, HangUpKeeps DEF SessionFails
<1>12. CASE Wake(k)
  BY <1>1, <1>12, SleepKeeps DEF Wake
<1>13. CASE Quit(k)
  BY <1>1, <1>2, <1>13, HangUpKeeps DEF Quit
<1>14. QED
  BY <1>3, <1>4, <1>5, <1>6, <1>7, <1>8, <1>9, <1>10, <1>11, <1>12, <1>13 DEF ClientStep

-----------------------------------------------------------------------------
(* The specification.                                                      *)

LEMMA ClientInitInv == ClientInit => ClientInv
<1> SUFFICES ASSUME ClientInit
             PROVE  ClientInv
  OBVIOUS
<1>1. ControlInv
  BY ControlInitInv DEF ClientInit
<1>2. pc = [h \in Conns \cup Calls |-> "accepted"]
  BY DEF ClientInit, ControlInit
<1>3. /\ \A k \in Clients : cst[k] = "connect" /\ conn[k] = None /\ resume[k].id = None
      /\ \A c \in Conns : answer[c].code = "none"
  BY DEF ClientInit, Says
<1>4. ClientTypeOK
  <2>1. Says("none") \in Answer
    BY DEF Says, Answer, Codes
  <2>2. answer \in [Conns -> Answer]
    BY <2>1 DEF ClientInit
  <2>3. faults \in 0..MaxFaults
    BY ClientAssumption DEF ClientInit
  <2>4. QED
    BY <1>1, <2>2, <2>3 DEF ClientInit, ClientTypeOK, ClientStates, ControlInv
<1>5. Dials
  BY <1>2, <1>3 DEF Dials
<1>6. Answering
  BY <1>3 DEF Answering, AnswersOnce
<1>7. KeepsTunnel /\ Handshakes /\ RunningServes
  BY <1>3 DEF KeepsTunnel, Handshakes, RunningServes
<1>8. QED
  BY <1>1, <1>4, <1>5, <1>6, <1>7 DEF ClientInv

\* Every step keeps the invariant, and is one of the daemon's in some environment.
LEMMA ClientNextKeeps ==
  ASSUME ClientInv, ClientNext
  PROVE  ClientInv' /\ (AnyStep \/ UNCHANGED cvars)
<1>1. ASSUME NEW k \in Clients, ClientStep(k)
      PROVE  ClientInv' /\ (AnyStep \/ UNCHANGED cvars)
  BY <1>1, ClientStepKeeps DEF AnyStep
<1>2. ASSUME NEW c \in dialed, ServerStep(c)
      PROVE  ClientInv' /\ AnyStep
  <2>1. c \in Conns
    BY DEF ClientInv, ClientTypeOK
  <2>2. Disconnect(c) => Closing
    BY DEF Disconnect, Closing
  <2>3. Handle(c) \/ StoreSteps(c) \/ Closing
    BY <1>2, <2>2
    DEF ServerStep, ReceiveRegister, Silently, Answers, Refuses, FindsClosed, Heartbeat,
        Fails, Handle, StoreSteps
  <2>4. QED
    BY <1>2, <2>1, <2>3, ServerStepKeeps DEF AnyStep
<1>3. ASSUME NEW h \in Calls, OtherCall(h)
      PROVE  ClientInv' /\ AnyStep
  BY <1>3, OtherCallKeeps DEF OtherCall, AnyStep
<1>4. CASE RestartServer
  BY <1>4, RestartServerKeeps
<1>5. QED
  BY <1>1, <1>2, <1>3, <1>4 DEF ClientNext

\* Steps that leave everything alone.
LEMMA ClientStutters == ClientInv /\ UNCHANGED tvars => ClientInv'
<1> SUFFICES ASSUME ClientInv, UNCHANGED tvars
             PROVE  ClientInv'
  OBVIOUS
<1>1. ControlInv' /\ UNCHANGED <<mvars, pc, req, sid, open>>
  BY StutterInv DEF ClientInv, tvars, cvars, hvars
<1>2. open' \subseteq open /\ UNCHANGED <<clvars, answer, dialed>> /\ faults' \in 0..MaxFaults
  BY <1>1 DEF ClientInv, ClientTypeOK, tvars
<1>3. QED
  BY <1>1, <1>2, CutKeeps

LEMMA ClientNextInv == ClientInv /\ [ClientNext]_tvars => ClientInv'
BY ClientNextKeeps, ClientStutters

\* What clients and daemon know of each other holds in every reachable state.
THEOREM ClientInductive == ClientSpec => []ClientInv
BY ClientInitInv, ClientNextInv, PTL DEF ClientSpec

\* Every variable of the clients has its type, and with the clients around so has every
\* variable of the daemon.
THEOREM ClientTyped == ClientSpec => []ClientTypeOK
<1>1. ClientInv => ClientTypeOK
  BY DEF ClientInv
<1>2. QED
  BY <1>1, ClientInductive, PTL

\* A client that serves over an open connection serves the tunnel it believes it has,
\* and has its token, through lost answers, takeovers and restarts (Run, handleConnection).
THEOREM ServesItsTunnelHolds == ClientSpec => []ServesItsTunnel
<1>1. ClientInv => ServesItsTunnel
  <2>1. SUFFICES ASSUME ClientInv, NEW k \in Clients, cst[k] = "running", conn[k] \in open
                 PROVE  /\ sid[conn[k]] = resume[k].id
                        /\ Known(resume[k].id) => resume[k].token = resume[k].id
    BY DEF ServesItsTunnel
  <2>2. answer[conn[k]].code = "registered" /\ answer[conn[k]].id = resume[k].id
    BY <2>1 DEF ClientInv, RunningServes, Serves
  <2>3. conn[k] \in Conns
    BY <2>1 DEF ClientInv, ClientTypeOK, ControlTypeOK
  <2>4. sid[conn[k]] # None /\ sid[conn[k]] = resume[k].id
    BY <2>1, <2>2, <2>3 DEF ClientInv, Answering, AnswersOnce
  <2>5. Tunnel(resume[k].id, resume[k].token, PrincipalOf[k])
    BY <2>1, <2>4 DEF ClientInv, KeepsTunnel
  <2>6. QED
    BY <2>4, <2>5 DEF Tunnel
<1>2. QED
  BY <1>1, ClientInductive, PTL

\* A client changes the tunnel it would resume only once the daemon does not know it any
\* more, whatever was lost, delayed or refused before (Run's bookkeeping of
\* RegisteredPayload and invalid_resume, resumeTunnel).
THEOREM TunnelKeptHolds == ClientSpec => TunnelKept
<1> DEFINE Kept == \A k \in Clients :
             resume[k].id # None /\ resume'[k].id # resume[k].id => ~Known(resume[k].id)
<1>1. ClientInv /\ [ClientNext]_tvars => Kept
  <2>1. SUFFICES ASSUME ClientInv, [ClientNext]_tvars, NEW k \in Clients, resume[k].id # None,
                        resume'[k].id # resume[k].id
                 PROVE  ~Known(resume[k].id)
    OBVIOUS
  <2>2. resume' # resume
    BY <2>1
  <2>3. PICK j \in Clients : ClientStep(j)
    BY <2>1, <2>2
    DEF ClientNext, tvars, clvars, ServerStep, ReceiveRegister, Silently, Answers, Refuses,
        Writes, FindsClosed, Heartbeat, Fails, OtherCall, RestartServer
  <2>4. CASE GetInvalidResume(j)
    <3>1. cst[j] = "registering" /\ answer[conn[j]].code = "invalid_resume"
          /\ resume' = [resume EXCEPT ![j] = [id |-> None, token |-> None]]
      BY <2>4 DEF GetInvalidResume, Reading
    <3>2. j = k
      BY <2>1, <3>1
    <3>3. QED
      BY <2>1, <3>1, <3>2 DEF ClientInv, Handshakes, Hears
  <2>5. CASE GetRegistered(j)
    <3>1. j # k
      BY <2>1, <2>5, GetRegisteredKeeps
    <3>2. resume'[k] = resume[k]
      BY <2>5, <3>1 DEF GetRegistered, ClientInv, ClientTypeOK
    <3>3. QED
      BY <2>1, <3>2
  <2>6. CASE ~GetInvalidResume(j) /\ ~GetRegistered(j)
    BY <2>2, <2>3, <2>6
    DEF ClientStep, Dial, DialFails, GetFatal, GetNothing, AnswerLost, SessionEnds,
        SessionFails, Wake, Quit
  <2>7. QED
    BY <2>4, <2>5, <2>6
<1>2. ClientSpec => [][Kept]_tvars
  BY <1>1, ClientInductive, PTL DEF ClientSpec
<1>3. QED
  BY <1>2 DEF TunnelKept

\* With clients that reconnect and resume, and restarts that also lose what was on its
\* way, the daemon keeps every invariant it keeps with arbitrary ones.
THEOREM DaemonHolds ==
  ClientSpec => [](NoGhostSession /\ PeerTable /\ PlacesHeld /\ FreshTunnelsWithinPlan
                     /\ RequestReachesOwner)
<1>1. ClientInv => /\ NoGhostSession /\ PeerTable /\ PlacesHeld /\ FreshTunnelsWithinPlan
                   /\ RequestReachesOwner
  BY DEF ClientInv, ControlInv, Forwarding, RequestReachesOwner
<1>2. QED
  BY <1>1, ClientInductive, PTL

\* Its steps are still those the session manager allows: one directory of hosts, and no
\* tunnel that changes hands (LookupByHost, storeSession, resumeTunnel).
THEOREM DaemonDirectory == ClientSpec => ManagerSpec /\ ImplementsDirectory /\ IdentityStable
<1>1. ClientInit => ManagerInit
  BY DEF ClientInit, ControlInit
<1>2. ClientInv /\ [ClientNext]_tvars => [ManagerNext]_mvars
  <2>1. UNCHANGED cvars \/ UNCHANGED tvars => UNCHANGED mvars
    BY DEF cvars, tvars
  <2>2. QED
    BY <2>1, ClientNextKeeps, StepManages DEF ClientInv
<1>3. ClientSpec => ManagerSpec
  BY <1>1, <1>2, ClientInductive, PTL DEF ClientSpec, ManagerSpec
<1>4. QED
  BY <1>3, DirectoryImplemented, IdentityStableHolds, PTL
=============================================================================
