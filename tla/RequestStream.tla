--------------------------- MODULE RequestStream ---------------------------
(***************************************************************************)
(* One forwarded HTTP request inside the daemon: the pendingRequest of     *)
(* internal/control/protocol_peer.go and the goroutines that share it.     *)
(*                                                                         *)
(*   reader   the read loop of the control connection (protocol_server.go) *)
(*   pump     pumpResponseBody: response frames to the pipe                *)
(*   handler  the public HTTP handler (server.go): forwards the request,   *)
(*            waits for the response and copies it downstream              *)
(*   body     streamRequestBody: the request body to the dispatcher        *)
(*   watcher  watchRequestContext                                          *)
(*   idle     the idle timer                                               *)
(*   failer   failPending called by a connection that replaces this one    *)
(*                                                                         *)
(* Steps are as large as a critical section of pendingRequest.mu or        *)
(* peer.pendingMu allows, or one channel or pipe operation.  The client    *)
(* sends frames in order: response_start, bodies, response_end, or an      *)
(* error at any point; the connection may fail.  Headers, payloads and     *)
(* byte counts are left out: a frame is counted.                           *)
(*                                                                         *)
(* The actors that cancel or finish the request run the same code.  The pc *)
(* of an actor inside it is                                                *)
(*   cancel   cancel, up to the unlock       send    its request_cancel    *)
(*   finish   finish, up to the unlock       close   close pipe and chunks *)
(*   drain    <-pumpDone                     notify  the rest of finish    *)
(*   remove   removePending after cancel                                   *)
(***************************************************************************)
EXTENDS Naturals, FiniteSets

CONSTANTS
  MaxFrames,  \* bound on response_body frames
  Capacity,   \* capacity of responseChunks
  MaxResume   \* bound on those frames if a resumed connection takes over

ASSUME StreamAssumption ==
  /\ MaxFrames \in Nat
  /\ Capacity \in Nat \ {0}
  /\ MaxResume \in 0..MaxFrames

VARIABLES
  pc,             \* [Actors -> string]
  pump,           \* "receive", "write" (it holds a frame), "done"
  stage,          \* response messages read: "waiting", "started", "ended", "failed"
  frames,         \* response_body frames read from the connection
  dropped,        \* those of them refused because the request was over
  chunks,         \* frames in responseChunks
  chunksClosed,
  pipe,           \* "open", "error", "eof"
  delivered,      \* frames the handler took from the pipe
  startCh,        \* "empty", "start", "error"
  doneCh,         \* a value is in doneCh
  ctxDone,        \* pending.ctx: deadline, HTTP client gone, or cancelFn
  completed, cancelSent, responseStart, timerOn,   \* under pendingRequest.mu
  inMap,          \* the request is in peer.pending
  slot,           \* it holds a stream slot
  released,       \* ReleaseRequest was called
  counted         \* CompleteRequest calls

flags == <<completed, cancelSent, responseStart, timerOn>>
channels == <<chunks, chunksClosed, pipe, startCh, doneCh>>
account == <<inMap, slot, released, counted>>
traffic == <<stage, frames, dropped, delivered>>
vars == <<pc, pump, traffic, channels, ctxDone, flags, account>>

Actors == {"reader", "handler", "body", "watcher", "idle", "failer"}

Cancelling == {"cancel", "send"}
Finishing == {"close", "drain", "notify"}

StreamInit ==
  /\ pc = [a \in Actors |->
            CASE a = "handler" -> "forward" [] a = "reader" -> "loop"
              [] a = "idle" -> "armed" [] a = "failer" -> "ready"
              [] OTHER -> "unborn"]
  /\ pump = "receive"
  /\ stage = "waiting" /\ frames = 0 /\ dropped = 0 /\ delivered = 0
  /\ chunks = 0 /\ chunksClosed = FALSE /\ pipe = "open"
  /\ startCh = "empty" /\ doneCh = FALSE /\ ctxDone = FALSE
  /\ completed = FALSE /\ cancelSent = FALSE /\ responseStart = FALSE /\ timerOn = TRUE
  /\ inMap = TRUE /\ slot = TRUE /\ released = FALSE /\ counted = 0

\* the process is running: no goroutine has panicked
Alive == pc["reader"] # "dead"

Goto(a, l) == pc' = [pc EXCEPT ![a] = l]

-----------------------------------------------------------------------------
(* forwardHTTP, after newPendingRequest and the insertion in peer.pending. *)

\* removePending: take the request out of the map and, if it was there, give
\* its slot back
RemovePending ==
  /\ inMap' = FALSE
  /\ slot' = (slot /\ ~inMap)

\* request_start is in the dispatcher: the client may answer from now on
StartQueued ==
  /\ pc["handler"] = "forward"
  /\ Goto("handler", "queued")
  /\ UNCHANGED <<pump, traffic, channels, ctxDone, flags, account>>

\* the goroutines for the request body and the context are started
StartStreams ==
  /\ pc["handler"] = "queued"
  /\ pc' = [pc EXCEPT !["handler"] = "start", !["body"] = "stream", !["watcher"] = "watch"]
  /\ UNCHANGED <<pump, traffic, channels, ctxDone, flags, account>>

\* The dispatcher is closed or the context done: forwardHTTP removes the request
\* and ForwardRequest releases its reservation.  Nobody finishes the request.
StartNotSent ==
  /\ pc["handler"] = "forward"
  /\ RemovePending
  /\ released' = TRUE
  /\ Goto("handler", "returned")
  /\ ctxDone' = TRUE
  /\ UNCHANGED <<pump, traffic, channels, flags, counted>>

-----------------------------------------------------------------------------
(* cancel and finish, for every actor that calls them.                     *)

\* where an actor goes on after cancel (through removePending) or finish
AfterCancel(a) == CASE a = "handler" -> "wait" [] a = "idle" -> "armed" [] OTHER -> "done"
AfterFinish(a) ==
  CASE a = "reader" -> IF stage = "broken" THEN "gone" ELSE "loop"
    [] a = "failer" -> "done"
    [] OTHER -> "remove"

\* the request is already over or being cancelled: nothing more to do
CancelLost(a) ==
  /\ pc[a] = "cancel" /\ (completed \/ cancelSent)
  /\ Goto(a, "remove")
  /\ UNCHANGED <<pump, traffic, channels, ctxDone, flags, account>>

CancelWon(a) ==
  /\ pc[a] = "cancel" /\ ~completed /\ ~cancelSent
  /\ cancelSent' = TRUE
  /\ timerOn' = TRUE
  /\ Goto(a, "send")
  /\ UNCHANGED <<pump, traffic, channels, ctxDone, completed, responseStart, account>>

\* request_cancel is sent, or a second passes
CancelSend(a) ==
  /\ pc[a] = "send"
  /\ Goto(a, "finish")
  /\ UNCHANGED <<pump, traffic, channels, ctxDone, flags, account>>

FinishLost(a) ==
  /\ pc[a] = "finish" /\ completed
  /\ Goto(a, AfterFinish(a))
  /\ UNCHANGED <<pump, traffic, channels, ctxDone, flags, account>>

FinishWon_Again(a) ==
  /\ pc[a] = "finish"
  /\ completed' = TRUE
  /\ timerOn' = FALSE
  /\ Goto(a, "close")
  /\ UNCHANGED <<pump, traffic, channels, ctxDone, cancelSent, responseStart, account>>
FinishWon(a) ==
  /\ pc[a] = "finish" /\ ~completed
  /\ completed' = TRUE
  /\ timerOn' = FALSE
  /\ Goto(a, "close")
  /\ UNCHANGED <<pump, traffic, channels, ctxDone, cancelSent, responseStart, account>>

\* only the read loop, at response_end, finishes a request without an error
Cleanly(a) == a = "reader" /\ stage = "ended"

\* CloseWithError unless the end is clean, then closeChunkStream
CloseStream_PipeStaysOpen(a) ==
  /\ pc[a] = "close"
  /\ chunksClosed' = TRUE
  /\ Goto(a, "drain")
  /\ UNCHANGED <<pump, traffic, chunks, pipe, startCh, doneCh, ctxDone, flags, account>>
CloseStream(a) ==
  /\ pc[a] = "close"
  /\ pipe' = IF Cleanly(a) \/ pipe # "open" THEN pipe ELSE "error"
  /\ chunksClosed' = TRUE
  /\ Goto(a, "drain")
  /\ UNCHANGED <<pump, traffic, chunks, startCh, doneCh, ctxDone, flags, account>>

Drained_NotAwaited(a) ==
  /\ pc[a] = "drain"
  /\ pipe' = IF pipe = "open" THEN "eof" ELSE pipe
  /\ Goto(a, "notify")
  /\ UNCHANGED <<pump, traffic, chunks, chunksClosed, startCh, doneCh, ctxDone, flags, account>>
Drained(a) ==
  /\ pc[a] = "drain" /\ pump = "done"
  /\ pipe' = IF Cleanly(a) /\ pipe = "open" THEN "eof" ELSE pipe
  /\ Goto(a, "notify")
  /\ UNCHANGED <<pump, traffic, chunks, chunksClosed, startCh, doneCh, ctxDone, flags, account>>

\* tell the waiters, release the slot, stop the context, count the request
Notify_KeepsSlot(a) ==
  /\ pc[a] = "notify"
  /\ startCh' = IF responseStart THEN startCh ELSE "error"
  /\ doneCh' = TRUE
  /\ ctxDone' = TRUE
  /\ counted' = counted + 1
  /\ Goto(a, AfterFinish(a))
  /\ UNCHANGED <<pump, traffic, chunks, chunksClosed, pipe, flags, inMap, slot, released>>
Notify(a) ==
  /\ pc[a] = "notify"
  /\ startCh' = IF responseStart THEN startCh ELSE "error"
  /\ doneCh' = TRUE
  /\ slot' = FALSE
  /\ ctxDone' = TRUE
  /\ counted' = counted + 1
  /\ Goto(a, AfterFinish(a))
  /\ UNCHANGED <<pump, traffic, chunks, chunksClosed, pipe, flags, inMap, released>>

Remove(a) ==
  /\ pc[a] = "remove"
  /\ RemovePending
  /\ Goto(a, AfterCancel(a))
  /\ UNCHANGED <<pump, traffic, channels, ctxDone, flags, released, counted>>

\* the steps of cancel and finish that never wait
Settle(a) ==
  \/ CancelLost(a) \/ CancelWon(a) \/ CancelSend(a)
  \/ FinishLost(a) \/ FinishWon(a) \/ CloseStream(a) \/ Notify(a) \/ Remove(a)

-----------------------------------------------------------------------------
(* The read loop.                                                          *)

\* the client has been sent the request
Requested == pc["handler"] # "forward" /\ ~released

\* A frame for a request that is unknown or over, or out of order, is answered
\* with a protocol error and otherwise ignored.
RecvStart ==
  /\ pc["reader"] = "loop" /\ stage = "waiting" /\ Requested
  /\ stage' = "started"
  /\ IF inMap /\ ~completed
     THEN responseStart' = TRUE /\ startCh' = "start" /\ timerOn' = TRUE
     ELSE UNCHANGED <<responseStart, startCh, timerOn>>
  /\ UNCHANGED <<pc, pump, frames, dropped, delivered, chunks, chunksClosed, pipe, doneCh,
                 ctxDone, completed, cancelSent, account>>

\* writeResponseBody, up to the unlock
RecvBody ==
  /\ pc["reader"] = "loop" /\ stage = "started"
  /\ frames < IF pc["failer"] = "ready" THEN MaxFrames ELSE MaxResume
  /\ frames' = frames + 1
  /\ IF inMap /\ ~completed /\ responseStart
     THEN timerOn' = TRUE /\ Goto("reader", "body") /\ UNCHANGED dropped
     ELSE dropped' = dropped + 1 /\ UNCHANGED <<timerOn, pc>>
  /\ UNCHANGED <<pump, stage, delivered, channels, ctxDone, completed, cancelSent,
                 responseStart, account>>

\* Its select, after the unlock: the frame fits, or the context is done, or the
\* channel has been closed meanwhile and the send panics, which ends the process.
\* When several are ready, any may be taken.
BodyQueued_Unbounded ==
  /\ pc["reader"] = "body" /\ ~chunksClosed
  /\ chunks' = chunks + 1
  /\ Goto("reader", "loop")
  /\ UNCHANGED <<pump, traffic, chunksClosed, pipe, startCh, doneCh, ctxDone, flags, account>>
BodyQueued ==
  /\ pc["reader"] = "body" /\ ~chunksClosed /\ chunks < Capacity
  /\ chunks' = chunks + 1
  /\ Goto("reader", "loop")
  /\ UNCHANGED <<pump, traffic, chunksClosed, pipe, startCh, doneCh, ctxDone, flags, account>>

BodyRefused ==
  /\ pc["reader"] = "body" /\ ctxDone
  /\ dropped' = dropped + 1
  /\ Goto("reader", "loop")
  /\ UNCHANGED <<pump, stage, frames, delivered, channels, ctxDone, flags, account>>

BodyPanics ==
  /\ pc["reader"] = "body" /\ chunksClosed
  /\ pc' = [a \in Actors |-> "dead"]
  /\ pump' = "done"
  /\ UNCHANGED <<traffic, channels, ctxDone, flags, account>>

\* takePending, for response_end, an error of the request, and failPending once
\* the connection has failed; then finish, if the request was still there
Take(a, skip) ==
  /\ inMap' = FALSE
  /\ Goto(a, IF inMap THEN "finish" ELSE skip)

RecvEnd ==
  /\ pc["reader"] = "loop" /\ stage = "started"
  /\ stage' = "ended"
  /\ Take("reader", "loop")
  /\ UNCHANGED <<pump, frames, dropped, delivered, channels, ctxDone, flags, slot, released, counted>>

RecvError ==
  /\ pc["reader"] = "loop" /\ stage \in {"waiting", "started"} /\ Requested
  /\ stage' = "failed"
  /\ Take("reader", "loop")
  /\ UNCHANGED <<pump, frames, dropped, delivered, channels, ctxDone, flags, slot, released, counted>>

ReadFails ==
  /\ pc["reader"] = "loop"
  /\ stage' = "broken"
  /\ Take("reader", "gone")
  /\ UNCHANGED <<pump, frames, dropped, delivered, channels, ctxDone, flags, slot, released, counted>>

\* a resumed connection takes over: addPeer calls failPending on this peer
Replaced ==
  /\ pc["failer"] = "ready" /\ frames <= MaxResume
  /\ Take("failer", "done")
  /\ UNCHANGED <<pump, traffic, channels, ctxDone, flags, slot, released, counted>>

-----------------------------------------------------------------------------
(* The pump and the pipe.                                                  *)

PumpReceive ==
  /\ pump = "receive" /\ chunks > 0
  /\ chunks' = chunks - 1
  /\ pump' = "write"
  /\ UNCHANGED <<pc, traffic, chunksClosed, pipe, startCh, doneCh, ctxDone, flags, account>>

\* the channel is closed and drained, or the pipe is closed under a write
PumpEnds ==
  /\ \/ pump = "receive" /\ chunks = 0 /\ chunksClosed
     \/ pump = "write" /\ pipe # "open"
  /\ pump' = "done"
  /\ UNCHANGED <<pc, traffic, channels, ctxDone, flags, account>>

\* a pipe is synchronous: a write returns when the handler has read it
CopyFrame ==
  /\ pump = "write" /\ pipe = "open" /\ pc["handler"] = "copy"
  /\ delivered' = delivered + 1
  /\ pump' = "receive"
  /\ Goto("handler", "write")
  /\ UNCHANGED <<stage, frames, dropped, channels, ctxDone, flags, account>>

-----------------------------------------------------------------------------
(* The HTTP handler.  When it returns, net/http cancels its context.       *)

\* waitForResponseStart
StartArrives ==
  /\ pc["handler"] = "start" /\ startCh = "start"
  /\ startCh' = "empty"
  /\ Goto("handler", "copy")
  /\ UNCHANGED <<pump, traffic, chunks, chunksClosed, pipe, doneCh, ctxDone, flags, account>>

StartFails ==
  /\ pc["handler"] = "start" /\ (startCh = "error" \/ ctxDone)
  /\ ctxDone' = TRUE
  /\ Goto("handler", "returned")
  /\ UNCHANGED <<pump, traffic, channels, flags, account>>

\* io.Copy downstream: the write succeeds, or the HTTP client is gone.  The connection
\* has no write deadline: while the HTTP client does not read, the write may never return.
WriteDownstream ==
  /\ pc["handler"] = "write"
  /\ Goto("handler", "copy") \/ Goto("handler", "cancel")
  /\ UNCHANGED <<pump, traffic, channels, ctxDone, flags, account>>

CopyEnds ==
  /\ pc["handler"] = "copy" /\ pipe # "open"
  /\ Goto("handler", IF pipe = "eof" THEN "wait" ELSE "cancel")
  /\ UNCHANGED <<pump, traffic, channels, ctxDone, flags, account>>

\* waitForDone
HandlerReturns ==
  /\ pc["handler"] = "wait" /\ (doneCh \/ ctxDone)
  /\ ctxDone' = TRUE
  /\ Goto("handler", "returned")
  /\ UNCHANGED <<pump, traffic, channels, flags, account>>

-----------------------------------------------------------------------------
(* The other goroutines.                                                   *)

\* a chunk of the request body is sent: the idle timer is set again, even if
\* the request is over by now
BodyChunk ==
  /\ pc["body"] = "stream" /\ ~ctxDone
  /\ timerOn' = TRUE
  /\ UNCHANGED <<pc, pump, traffic, channels, ctxDone, completed, cancelSent,
                 responseStart, account>>

\* request_end is sent, or the context is done between two reads
BodyEnds ==
  /\ pc["body"] = "stream"
  /\ Goto("body", "done")
  /\ UNCHANGED <<pump, traffic, channels, ctxDone, flags, account>>

\* reading the body or sending a chunk of it fails
BodyFails ==
  /\ pc["body"] = "stream"
  /\ Goto("body", "cancel")
  /\ UNCHANGED <<pump, traffic, channels, ctxDone, flags, account>>

\* watchRequestContext: of finishedCh and ctx.Done, whichever it sees
WatcherWakes ==
  /\ pc["watcher"] = "watch" /\ ctxDone
  /\ \/ Goto("watcher", "cancel")
     \/ doneCh /\ Goto("watcher", "done")
  /\ UNCHANGED <<pump, traffic, channels, ctxDone, flags, account>>

\* onIdleTimeout runs on a goroutine of its own, however busy the others are
IdleFires ==
  /\ pc["idle"] = "armed" /\ timerOn
  /\ timerOn' = FALSE
  /\ Goto("idle", "cancel")
  /\ UNCHANGED <<pump, traffic, channels, ctxDone, completed, cancelSent, responseStart, account>>

\* the stream's deadline passes or the HTTP client goes away
ContextDone ==
  /\ Alive /\ ~ctxDone
  /\ ctxDone' = TRUE
  /\ UNCHANGED <<pc, pump, traffic, channels, flags, account>>

-----------------------------------------------------------------------------

ReaderStep == RecvStart \/ RecvBody \/ RecvEnd \/ RecvError \/ ReadFails
BodyStep == BodyQueued \/ BodyRefused \/ BodyPanics
HandlerGoesOn ==
  StartQueued \/ StartNotSent \/ StartStreams \/ StartArrives \/ StartFails
    \/ CopyEnds \/ HandlerReturns
HandlerStep == HandlerGoesOn \/ WriteDownstream
PumpStep == PumpReceive \/ PumpEnds \/ CopyFrame

StreamNext ==
  \/ ReaderStep \/ BodyStep \/ HandlerStep \/ PumpStep
  \/ \E a \in Actors : Settle(a) \/ Drained(a)
  \/ BodyChunk \/ BodyEnds \/ BodyFails
  \/ WatcherWakes \/ IdleFires \/ Replaced \/ ContextDone

StreamSpec == StreamInit /\ [][StreamNext]_vars

\* Goroutines are scheduled and the deadline of the stream passes.  Nothing is assumed
\* of the tunnel client, which may stop sending frames, nor of the HTTP client, which
\* may stop reading: a write downstream need not return.
FairStreamSpec ==
  /\ StreamSpec
  /\ \A a \in Actors : WF_vars(Settle(a) \/ Drained(a))
  /\ WF_vars(BodyStep)
  /\ WF_vars(HandlerGoesOn)
  /\ WF_vars(PumpStep)
  /\ WF_vars(WatcherWakes)
  /\ WF_vars(IdleFires)
  /\ WF_vars(ContextDone)

-----------------------------------------------------------------------------
(* Properties.                                                             *)

\* Every variable has its type.
StreamTypeOK ==
  /\ pc \in [Actors -> {"forward", "queued", "start", "copy", "write", "wait", "returned",
                        "loop", "body", "gone", "dead", "unborn", "stream", "watch",
                        "armed", "ready", "done", "cancel", "send", "finish", "close",
                        "drain", "notify", "remove"}]
  /\ pump \in {"receive", "write", "done"}
  /\ stage \in {"waiting", "started", "ended", "failed", "broken"}
  /\ {frames, dropped, delivered} \subseteq 0..MaxFrames
  /\ chunks \in 0..Capacity
  /\ pipe \in {"open", "error", "eof"}
  /\ startCh \in {"empty", "start", "error"}
  /\ {chunksClosed, doneCh, ctxDone, completed, cancelSent, responseStart, timerOn,
      inMap, slot, released} \subseteq BOOLEAN
  /\ counted \in Nat

\* Of the six goroutines that may end a request at the same time exactly one runs
\* the end of finish, so the request is counted at most once.  And a request that has
\* left peer.pending is not forgotten: it is over, or someone who will finish it is on
\* the way, or it was refused and released before it started (finish, cancel,
\* takePending, removePending).
EndedOnce ==
  Alive =>
    /\ counted + Cardinality({a \in Actors : pc[a] \in Finishing}) = IF completed THEN 1 ELSE 0
    /\ inMap \/ completed \/ released
         \/ \E a \in Actors : pc[a] \in {"cancel", "send", "finish"}

\* The slot is given back with the request, and not before somebody has decided to
\* end it: a request still in peer.pending that nobody is ending holds its slot
\* (releaseSlot).
SlotFollowsRequest ==
  /\ inMap /\ ~completed => slot
  /\ counted = 1 => ~slot

\* The handler sees a clean end of the response only after every frame that was
\* queued for it: response_end never overtakes the body (finish waits for the pump).
CleanEndIsDrained ==
  pipe = "eof" => frames = dropped + delivered

\* However the connection, the timers and the downstream fail, the request gives its
\* slot back and nobody stays inside finish ("StreamTimeout returns the maximum lifetime
\* for a single request stream", protocol.go), also while a write to an HTTP client that
\* does not read holds the handler, which otherwise returns.  Two ends are different: the
\* daemon panics, or the read loop, finishing at response_end, waits for a pump that
\* holds a frame for a handler that has left or stays in its write.
Ended == ~slot /\ \A a \in Actors : pc[a] # "drain"
Abandoned == pc["reader"] = "drain" /\ pump = "write"
Stalled == pc["handler"] = "write"
AllOver ==
  <>[](~Alive \/ ((pc["handler"] = "returned" \/ Stalled) /\ (Ended \/ Abandoned)))

\* A body frame after completion is an error ("response_body after completion"), not
\* the end of the daemon.
NoPanic == Alive
=============================================================================
