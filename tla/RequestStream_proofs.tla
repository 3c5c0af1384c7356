------------------------- MODULE RequestStream_proofs -------------------------
(***************************************************************************)
(* A request ends once, gives its slot back once, and ends cleanly only    *)
(* when its body is through: a proof for a response of any length and a    *)
(* channel of any capacity.                                                *)
(*                                                                         *)
(* None of the properties is inductive.  That exactly one goroutine runs   *)
(* the end of finish needs that a goroutine is in it only once completed is*)
(* set (OneEnd).  That a request which has left peer.pending is not        *)
(* forgotten needs that whoever removes it after losing the race in cancel *)
(* lost it to somebody who is on the way to finish (OnTheWay).  A clean end*)
(* needs an account of the frames (Flow) and that the pump, while the pipe *)
(* has not failed, stops only at the end of the channel (CleanEnd).        *)
(***************************************************************************)
EXTENDS RequestStream, FiniteSetTheorems, TLAPS

Places ==
  {"forward", "queued", "start", "copy", "write", "wait", "returned", "loop", "body", "gone",
   "dead", "unborn", "stream", "watch", "armed", "ready", "done", "cancel", "send", "finish",
   "close", "drain", "notify", "remove"}

\* The type invariant, with what makes it inductive.
Typed ==
  /\ pc \in [Actors -> Places]
  /\ pump \in {"receive", "write", "done"}
  /\ stage \in {"waiting", "started", "ended", "failed", "broken"}
  /\ frames \in Nat /\ dropped \in Nat /\ delivered \in Nat /\ chunks \in Nat
  /\ frames <= MaxFrames /\ chunks <= Capacity
  /\ pipe \in {"open", "error", "eof"} /\ startCh \in {"empty", "start", "error"}
  /\ chunksClosed \in BOOLEAN /\ doneCh \in BOOLEAN /\ ctxDone \in BOOLEAN
  /\ completed \in BOOLEAN /\ cancelSent \in BOOLEAN /\ responseStart \in BOOLEAN
  /\ timerOn \in BOOLEAN /\ inMap \in BOOLEAN /\ slot \in BOOLEAN /\ released \in BOOLEAN
  /\ counted \in {0, 1}

\* The goroutines that forwardHTTP starts do not exist before.
Unborn ==
  pc["handler"] \in {"forward", "queued"} => pc["body"] = "unborn" /\ pc["watcher"] = "unborn"

\* Frames in the hand of the pump, and of the read loop.
Writing == IF pump = "write" THEN 1 ELSE 0
Passing == IF pc["reader"] = "body" THEN 1 ELSE 0

\* No frame is delivered twice; while the pipe has not failed, none is missing.
Flow ==
  /\ dropped + delivered + chunks + Writing + Passing <= frames
  /\ Alive /\ pipe # "error" => frames = dropped + delivered + chunks + Writing + Passing

CleanEnd ==
  /\ pipe = "eof" =>
       /\ pump = "done" /\ chunksClosed /\ frames = dropped + delivered
       /\ stage \in {"ended", "broken"} /\ pc["reader"] # "body"
  /\ Alive /\ pump = "done" /\ pipe # "error" => chunksClosed /\ chunks = 0

\* At most one goroutine is at the end of finish, and it has not counted yet.
OneEnd ==
  /\ ~completed => counted = 0
  /\ \A a \in Actors : pc[a] \in Finishing =>
       completed /\ counted = 0 /\ \A b \in Actors : pc[b] \in Finishing => b = a
  /\ Alive /\ completed /\ counted = 0 => \E a \in Actors : pc[a] \in Finishing

\* Somebody is on the way to finish a request that is out of the map, or cancelled.
OnTheWay ==
  /\ \A a \in Actors : pc[a] = "remove" => completed \/ cancelSent
  /\ Alive /\ cancelSent => completed \/ \E a \in Actors : pc[a] \in {"send", "finish"}
  /\ Alive => \/ inMap \/ completed \/ released
              \/ \E a \in Actors : pc[a] \in {"cancel", "send", "finish"}

StreamInv == Typed /\ Unborn /\ Flow /\ CleanEnd /\ OneEnd /\ OnTheWay /\ SlotFollowsRequest

-----------------------------------------------------------------------------
(* Moves.                                                                  *)

\* Where an actor is while it ends the request, passes a frame or is dead.
Marked == {"remove", "cancel", "send", "finish", "close", "drain", "notify", "body", "dead"}

\* What a move of one actor does to pc.
LEMMA Moved ==
  ASSUME NEW a \in Actors, NEW l \in Places, pc \in [Actors -> Places], Goto(a, l)
  PROVE  /\ pc' \in [Actors -> Places]
         /\ pc'[a] = l
         /\ \A b \in Actors : b # a => pc'[b] = pc[b]
BY DEF Goto

\* A move that does not touch the reader, or moves it between live places, kills nobody.
LEMMA StillAlive ==
  ASSUME NEW a \in Actors, NEW l \in Places, pc \in [Actors -> Places], Goto(a, l),
         pc[a] # "dead", l # "dead"
  PROVE  Alive' <=> Alive
<1>1. "reader" \in Actors
  BY DEF Actors
<1>2. QED
  BY <1>1, Moved DEF Alive

-----------------------------------------------------------------------------
(* Steps that touch nothing the invariant is about.                        *)

Plain ==
  /\ pc' \in [Actors -> Places]
  /\ \A a \in Actors :
       pc'[a] = pc[a] \/ (pc[a] \notin Marked /\ pc'[a] \notin Marked \ {"cancel"})
  /\ Unborn'
  /\ stage' = stage \/ (stage = "waiting" /\ stage' = "started")
  /\ startCh' \in {"empty", "start", "error"}
  /\ doneCh' \in BOOLEAN /\ ctxDone' \in BOOLEAN /\ responseStart' \in BOOLEAN
  /\ timerOn' \in BOOLEAN
  /\ UNCHANGED <<pump, frames, dropped, delivered, chunks, chunksClosed, pipe, completed,
                 cancelSent, account>>

\* A plain step keeps the invariant.
LEMMA PlainKeeps ==
  ASSUME StreamInv, Plain
  PROVE  StreamInv'
<1> USE DEF StreamInv, Plain, account
<1>1. "reader" \in Actors /\ "handler" \in Actors
  BY DEF Actors
<1>2. Typed'
  BY DEF Typed
<1>3. /\ Alive' <=> Alive
      /\ Passing' = Passing /\ Writing' = Writing
  BY <1>1 DEF Alive, Passing, Writing, Marked
<1>4. Flow'
  BY <1>3 DEF Flow
<1>5. CleanEnd'
  BY <1>1, <1>3 DEF CleanEnd, Marked
<1>6. \A a \in Actors : pc'[a] \in Finishing <=> pc[a] \in Finishing
  BY DEF Finishing, Marked
<1>7. OneEnd'
  BY <1>3, <1>6 DEF OneEnd
<1>8. \A a \in Actors : /\ pc'[a] \in {"send", "finish"} <=> pc[a] \in {"send", "finish"}
                        /\ pc[a] = "cancel" => pc'[a] = "cancel"
                        /\ pc'[a] = "remove" <=> pc[a] = "remove"
  BY DEF Marked
<1>9. OnTheWay'
  BY <1>3, <1>8 DEF OnTheWay
<1>10. SlotFollowsRequest'
  BY DEF SlotFollowsRequest
<1>11. QED
  BY <1>2, <1>4, <1>5, <1>7, <1>9, <1>10

\* A move of one actor between plain places, and changes of what the invariant leaves alone.
LEMMA OnePlain ==
  ASSUME StreamInv, NEW a \in Actors, NEW l \in Places, Goto(a, l),
         pc[a] \notin Marked, l \notin Marked \ {"cancel"},
         l \in {"forward", "queued"} => a = "handler" /\ pc[a] = "forward",
         a \in {"body", "watcher"} => pc[a] # "unborn",
         stage' = stage, startCh' \in {"empty", "start", "error"}, doneCh' \in BOOLEAN,
         ctxDone' \in BOOLEAN, responseStart' \in BOOLEAN, timerOn' \in BOOLEAN,
         UNCHANGED <<pump, frames, dropped, delivered, chunks, chunksClosed, pipe, completed,
                     cancelSent, account>>
  PROVE  StreamInv'
<1>1. pc \in [Actors -> Places] /\ Unborn
  BY DEF StreamInv, Typed
<1>2. /\ pc' \in [Actors -> Places] /\ pc'[a] = l
      /\ \A b \in Actors : b # a => pc'[b] = pc[b]
  BY <1>1, Moved
<1>3. {"handler", "body", "watcher"} \subseteq Actors
  BY DEF Actors
<1>4. Unborn'
  BY <1>1, <1>2, <1>3 DEF Unborn
<1>5. Plain
  BY <1>2, <1>4 DEF Plain
<1>6. QED
  BY <1>5, PlainKeeps

\* The steps of the handler and of the other goroutines between their places, except for
\* StartNotSent and for the steps that move a frame.
LEMMA PlainSteps ==
  ASSUME StreamInv,
         \/ StartQueued \/ StartStreams \/ StartArrives \/ StartFails \/ WriteDownstream
         \/ CopyEnds \/ HandlerReturns \/ BodyChunk \/ BodyEnds \/ BodyFails \/ WatcherWakes
         \/ IdleFires \/ ContextDone \/ RecvStart \/ UNCHANGED vars
  PROVE  StreamInv'
<1> USE DEF flags, channels, traffic, account
<1>1. Typed /\ Unborn
  BY DEF StreamInv
<1>2. {"handler", "body", "watcher", "idle", "reader"} \subseteq Actors
  BY DEF Actors
<1>3. CASE StartQueued \/ WriteDownstream \/ CopyEnds
  <2>1. PICK l \in {"queued", "copy", "wait", "cancel"} :
             /\ Goto("handler", l)
             /\ l = "queued" => pc["handler"] = "forward"
    BY <1>3 DEF StartQueued, WriteDownstream, CopyEnds
  <2>2. /\ pc["handler"] \notin Marked
        /\ UNCHANGED <<pump, traffic, channels, ctxDone, flags, account>>
    BY <1>3 DEF StartQueued, WriteDownstream, CopyEnds, Marked
  <2>3. l \in Places /\ l \notin Marked \ {"cancel"}
    BY DEF Places, Marked
  <2>4. QED
    BY <1>1, <1>2, <2>1, <2>2, <2>3, OnePlain DEF Typed
<1>4. CASE StartArrives \/ StartFails \/ HandlerReturns
  <2>1. PICK l \in {"copy", "returned"} : Goto("handler", l)
    BY <1>4 DEF StartArrives, StartFails, HandlerReturns
  <2>2. /\ pc["handler"] \notin Marked
        /\ startCh' \in {startCh, "empty"} /\ ctxDone' \in {ctxDone, TRUE}
        /\ UNCHANGED <<pump, traffic, chunks, chunksClosed, pipe, doneCh, flags, account>>
    BY <1>4 DEF StartArrives, StartFails, HandlerReturns, Marked
  <2>3. l \in Places /\ l \notin Marked \ {"cancel"}
    BY DEF Places, Marked
  <2>4. QED
    BY <1>1, <1>2, <2>1, <2>2, <2>3, OnePlain DEF Typed
<1>5. CASE BodyEnds \/ BodyFails
  <2>1. PICK l \in {"done", "cancel"} : Goto("body", l)
    BY <1>5 DEF BodyEnds, BodyFails
  <2>2. /\ pc["body"] = "stream"
        /\ UNCHANGED <<pump, traffic, channels, ctxDone, flags, account>>
    BY <1>5 DEF BodyEnds, BodyFails
  <2>3. l \in Places /\ l \notin Marked \ {"cancel"} /\ "stream" \notin Marked
    BY DEF Places, Marked
  <2>4. QED
    BY <1>1, <1>2, <2>1, <2>2, <2>3, OnePlain DEF Typed
<1>6. CASE WatcherWakes
  <2>1. PICK l \in {"done", "cancel"} : Goto("watcher", l)
    BY <1>6 DEF WatcherWakes
  <2>2. /\ pc["watcher"] = "watch"
        /\ UNCHANGED <<pump, traffic, channels, ctxDone, flags, account>>
    BY <1>6 DEF WatcherWakes
  <2>3. l \in Places /\ l \notin Marked \ {"cancel"} /\ "watch" \notin Marked
    BY DEF Places, Marked
  <2>4. QED
    BY <1>1, <1>2, <2>1, <2>2, <2>3, OnePlain DEF Typed
<1>7. CASE IdleFires
  <2>1. /\ Goto("idle", "cancel") /\ pc["idle"] = "armed" /\ timerOn' = FALSE
        /\ UNCHANGED <<pump, traffic, channels, ctxDone, completed, cancelSent, responseStart,
                       account>>
    BY <1>7 DEF IdleFires
  <2>2. "cancel" \in Places /\ "cancel" \notin Marked \ {"cancel"} /\ "armed" \notin Marked
    BY DEF Places, Marked
  <2>3. QED
    BY <1>1, <1>2, <2>1, <2>2, OnePlain DEF Typed
<1>8. CASE StartStreams
  <2>1. /\ pc["handler"] = "queued"
        /\ pc' = [pc EXCEPT !["handler"] = "start", !["body"] = "stream",
                            !["watcher"] = "watch"]
    BY <1>8 DEF StartStreams
  <2>2. /\ pc' \in [Actors -> Places] /\ pc'["handler"] = "start"
        /\ pc'["body"] = "stream" /\ pc'["watcher"] = "watch"
        /\ \A b \in Actors : b \notin {"handler", "body", "watcher"} => pc'[b] = pc[b]
    BY <1>1, <1>2, <2>1 DEF Typed, Places
  <2>3. pc["body"] = "unborn" /\ pc["watcher"] = "unborn"
    BY <1>1, <2>1 DEF Unborn
  <2>4. \A b \in Actors : pc'[b] = pc[b] \/ (pc[b] \notin Marked /\ pc'[b] \notin Marked)
    BY <2>1, <2>2, <2>3 DEF Marked
  <2>5. Unborn'
    BY <2>2 DEF Unborn
  <2>6. UNCHANGED <<pump, traffic, channels, ctxDone, flags, account>>
    BY <1>8 DEF StartStreams
  <2>7. Plain
    BY <1>1, <2>2, <2>4, <2>5, <2>6 DEF Plain, Typed
  <2>8. QED
    BY <2>7, PlainKeeps
<1>9. CASE BodyChunk \/ ContextDone \/ RecvStart \/ UNCHANGED vars
  <2>1. /\ UNCHANGED <<pc, pump, frames, dropped, delivered, chunks, chunksClosed, pipe, doneCh,
                       completed, cancelSent, account>>
        /\ stage' = stage \/ (stage = "waiting" /\ stage' = "started")
        /\ startCh' \in {startCh, "start"} /\ ctxDone' \in {ctxDone, TRUE}
        /\ responseStart' \in {responseStart, TRUE} /\ timerOn' \in {timerOn, TRUE}
    <3>1. CASE BodyChunk
      BY <3>1 DEF BodyChunk
    <3>2. CASE ContextDone
      BY <3>2 DEF ContextDone
    <3>3. CASE RecvStart
      BY <3>3 DEF RecvStart
    <3>4. CASE UNCHANGED vars
      BY <3>4 DEF vars
    <3>5. QED
      BY <1>9, <3>1, <3>2, <3>3, <3>4
  <2>2. Unborn'
    BY <1>1, <2>1 DEF Unborn
  <2>3. Plain
    BY <1>1, <2>1, <2>2 DEF Plain, Typed
  <2>4. QED
    BY <2>3, PlainKeeps
<1>10. QED
  BY <1>3, <1>4, <1>5, <1>6, <1>7, <1>8, <1>9

-----------------------------------------------------------------------------
(* The end of a request: cancel and finish.                                *)

\* What a step of an actor inside cancel or finish does to pc.
LEMMA EndingMove ==
  ASSUME StreamInv, NEW a \in Actors, NEW l \in Places, Goto(a, l),
         pc[a] \in Marked \ {"body", "dead"},
         l \notin {"forward", "queued", "body", "dead"}
  PROVE  /\ pc' \in [Actors -> Places] /\ pc'[a] = l
         /\ \A b \in Actors : b # a => pc'[b] = pc[b]
         /\ Unborn'
         /\ Alive' <=> Alive
         /\ pc'["reader"] = "body" <=> pc["reader"] = "body"
<1>1. pc \in [Actors -> Places] /\ Unborn
  BY DEF StreamInv, Typed
<1>2. /\ pc' \in [Actors -> Places] /\ pc'[a] = l
      /\ \A b \in Actors : b # a => pc'[b] = pc[b]
  BY <1>1, Moved
<1>3. {"reader", "handler", "body", "watcher"} \subseteq Actors
  BY DEF Actors
<1>4. Alive' <=> Alive
  BY <1>1, StillAlive DEF Marked
<1>5. Unborn'
  BY <1>1, <1>2, <1>3 DEF Unborn, Marked
<1>6. QED
  BY <1>2, <1>3, <1>4, <1>5 DEF Marked

\* The frames stay where they are.
LEMMA TrafficStays ==
  ASSUME Flow, CleanEnd, Alive' <=> Alive,
         pc'["reader"] = "body" <=> pc["reader"] = "body",
         UNCHANGED <<pump, traffic, chunks, chunksClosed, pipe>>
  PROVE  Flow' /\ CleanEnd'
<1> USE DEF traffic
<1>1. Passing' = Passing /\ Writing' = Writing
  BY DEF Passing, Writing
<1>2. Flow'
  BY <1>1 DEF Flow
<1>3. CleanEnd'
  BY DEF CleanEnd
<1>4. QED
  BY <1>2, <1>3

\* A step of cancel, or the start of finish: the frames, the slot, the count and the map
\* stay as they are, and nobody leaves the end of finish.
LEMMA BeforeFinish ==
  ASSUME StreamInv, NEW a \in Actors, NEW l \in Places, Goto(a, l),
         pc[a] \in {"cancel", "send", "finish"},
         l \notin {"forward", "queued", "body", "dead", "drain", "notify"},
         completed' \in BOOLEAN, cancelSent' \in BOOLEAN, timerOn' \in BOOLEAN,
         completed => completed', cancelSent => cancelSent',
         l = "close" <=> completed' # completed,
         l = "remove" => completed \/ cancelSent,
         cancelSent' /\ ~completed' => l \in {"send", "finish"} \/ cancelSent,
         l \in {"send", "finish"} \/ completed' \/ pc[a] = "cancel",
         l \in {"cancel", "send", "finish"} \/ completed' \/ cancelSent,
         UNCHANGED <<pump, traffic, channels, ctxDone, responseStart, account>>
  PROVE  StreamInv'
<1> USE DEF channels, traffic, account
<1>1. Typed /\ Flow /\ CleanEnd /\ OneEnd /\ OnTheWay /\ SlotFollowsRequest
  BY DEF StreamInv
<1>2. /\ pc' \in [Actors -> Places] /\ pc'[a] = l
      /\ \A b \in Actors : b # a => pc'[b] = pc[b]
      /\ Unborn'
      /\ Alive' <=> Alive
      /\ pc'["reader"] = "body" <=> pc["reader"] = "body"
  BY EndingMove DEF Marked
<1>3. Typed'
  BY <1>1, <1>2 DEF Typed
<1>4. Flow' /\ CleanEnd'
  BY <1>1, <1>2, TrafficStays
<1>5. OneEnd'
  <2>1. CASE l = "close"
    <3>1. ~completed /\ completed' /\ counted = 0 /\ \A b \in Actors : pc[b] \notin Finishing
      BY <1>1, <2>1 DEF OneEnd, Typed
    <3>2. \A b \in Actors : pc'[b] \in Finishing <=> b = a
      BY <1>2, <2>1, <3>1 DEF Finishing
    <3>3. QED
      BY <3>1, <3>2 DEF OneEnd
  <2>2. CASE l # "close"
    <3>1. \A b \in Actors : pc'[b] \in Finishing <=> pc[b] \in Finishing
      BY <1>2, <2>2 DEF Finishing
    <3>2. completed' = completed
      BY <2>2
    <3>3. QED
      BY <1>1, <1>2, <3>1, <3>2 DEF OneEnd
  <2>3. QED
    BY <2>1, <2>2
<1>6. \A b \in Actors : b # a \/ l \in {"send", "finish"} =>
        (pc[b] \in {"send", "finish"} => pc'[b] \in {"send", "finish"})
  BY <1>2
<1>7. Alive /\ cancelSent' => completed' \/ \E b \in Actors : pc'[b] \in {"send", "finish"}
  BY <1>1, <1>2, <1>6 DEF OnTheWay
<1>8. Alive => \/ inMap \/ completed' \/ released
               \/ \E b \in Actors : pc'[b] \in {"cancel", "send", "finish"}
  BY <1>1, <1>2, <1>7 DEF OnTheWay
<1>9. OnTheWay'
  BY <1>1, <1>2, <1>7, <1>8 DEF OnTheWay
<1>10. SlotFollowsRequest'
  BY <1>1 DEF SlotFollowsRequest
<1>11. QED
  BY <1>2, <1>3, <1>4, <1>5, <1>9, <1>10 DEF StreamInv

\* Where finish leads.
LEMMA AfterFinishPlace ==
  ASSUME NEW a
  PROVE  AfterFinish(a) \in {"gone", "loop", "done", "remove"}
BY DEF AfterFinish

\* cancel and the start of finish.
LEMMA CancelKeeps ==
  ASSUME StreamInv, NEW a \in Actors,
         CancelLost(a) \/ CancelWon(a) \/ CancelSend(a) \/ FinishLost(a) \/ FinishWon(a)
  PROVE  StreamInv'
<1> USE DEF flags
<1>1. completed \in BOOLEAN /\ cancelSent \in BOOLEAN /\ timerOn \in BOOLEAN
  BY DEF StreamInv, Typed
<1>2. {"gone", "loop", "done", "remove", "send", "finish", "close"} \subseteq Places
  BY DEF Places
<1>3. CASE CancelLost(a)
  <2>1. /\ Goto(a, "remove") /\ pc[a] = "cancel" /\ (completed \/ cancelSent)
        /\ UNCHANGED <<pump, traffic, channels, ctxDone, flags, account>>
    BY <1>3 DEF CancelLost
  <2>2. QED
    BY <1>1, <1>2, <2>1, BeforeFinish
<1>4. CASE CancelWon(a)
  <2>1. /\ Goto(a, "send") /\ pc[a] = "cancel" /\ cancelSent' = TRUE /\ timerOn' = TRUE
        /\ UNCHANGED <<pump, traffic, channels, ctxDone, completed, responseStart, account>>
    BY <1>4 DEF CancelWon
  <2>2. QED
    BY <1>1, <1>2, <2>1, BeforeFinish
<1>5. CASE CancelSend(a)
  <2>1. /\ Goto(a, "finish") /\ pc[a] = "send"
        /\ UNCHANGED <<pump, traffic, channels, ctxDone, flags, account>>
    BY <1>5 DEF CancelSend
  <2>2. QED
    BY <1>1, <1>2, <2>1, BeforeFinish
<1>6. CASE FinishLost(a)
  <2>1. PICK l \in {"gone", "loop", "done", "remove"} : l = AfterFinish(a)
    BY AfterFinishPlace
  <2>2. /\ Goto(a, l) /\ pc[a] = "finish" /\ completed
        /\ UNCHANGED <<pump, traffic, channels, ctxDone, flags, account>>
    BY <1>6, <2>1 DEF FinishLost
  <2>3. QED
    BY <1>1, <1>2, <2>2, BeforeFinish
<1>7. CASE FinishWon(a)
  <2>1. /\ Goto(a, "close") /\ pc[a] = "finish" /\ ~completed
        /\ completed' = TRUE /\ timerOn' = FALSE
        /\ UNCHANGED <<pump, traffic, channels, ctxDone, cancelSent, responseStart, account>>
    BY <1>7 DEF FinishWon
  <2>2. QED
    BY <1>1, <1>2, <2>1, BeforeFinish
<1>8. QED
  BY <1>3, <1>4, <1>5, <1>6, <1>7

\* The steps that close the pipe and the channel: the actor stays at the end of finish.
LEMMA InsideFinish ==
  ASSUME StreamInv, NEW a \in Actors, NEW l \in {"drain", "notify"}, Goto(a, l),
         pc[a] \in {"close", "drain"}, Flow', CleanEnd',
         pipe' \in {"open", "error", "eof"}, chunksClosed' \in BOOLEAN,
         UNCHANGED <<pump, traffic, chunks, startCh, doneCh, ctxDone, flags, account>>
  PROVE  StreamInv'
<1> USE DEF flags, traffic, account
<1>1. Typed /\ OneEnd /\ OnTheWay /\ SlotFollowsRequest
  BY DEF StreamInv
<1>2. l \in Places
  BY DEF Places
<1>3. /\ pc' \in [Actors -> Places] /\ pc'[a] = l
      /\ \A b \in Actors : b # a => pc'[b] = pc[b]
      /\ Unborn'
      /\ Alive' <=> Alive
  BY <1>2, EndingMove DEF Marked
<1>4. Typed'
  BY <1>1, <1>3 DEF Typed
<1>5. \A b \in Actors : pc'[b] \in Finishing <=> pc[b] \in Finishing
  BY <1>3 DEF Finishing
<1>6. OneEnd'
  BY <1>1, <1>3, <1>5 DEF OneEnd
<1>7. \A b \in Actors : pc[b] \in {"remove", "cancel", "send", "finish"} <=>
                          pc'[b] \in {"remove", "cancel", "send", "finish"}
  BY <1>3
<1>8. \A b \in Actors : b # a => pc'[b] = pc[b]
  BY <1>3
<1>9. OnTheWay'
  BY <1>1, <1>3, <1>7, <1>8 DEF OnTheWay
<1>10. SlotFollowsRequest'
  BY <1>1 DEF SlotFollowsRequest
<1>11. QED
  BY <1>3, <1>4, <1>6, <1>9, <1>10 DEF StreamInv

\* finish closes the pipe with an error unless the end is clean, then the channel.
LEMMA CloseKeeps ==
  ASSUME StreamInv, NEW a \in Actors, CloseStream(a)
  PROVE  StreamInv'
<1> USE DEF traffic
<1>1. Typed /\ Flow /\ CleanEnd
  BY DEF StreamInv
<1>2. /\ pc[a] = "close" /\ Goto(a, "drain")
      /\ pipe' \in {pipe, "error"} /\ (pipe' # pipe => pipe = "open")
      /\ chunksClosed' = TRUE
      /\ UNCHANGED <<pump, traffic, chunks, startCh, doneCh, ctxDone, flags, account>>
  BY DEF CloseStream
<1>3. "drain" \in Places
  BY DEF Places
<1>4. (Alive' <=> Alive) /\ (pc'["reader"] = "body" <=> pc["reader"] = "body")
  BY <1>2, <1>3, EndingMove DEF Marked
<1>5. Passing' = Passing /\ Writing' = Writing
  BY <1>2, <1>4 DEF Passing, Writing
<1>6. Flow'
  BY <1>1, <1>2, <1>4, <1>5 DEF Flow
<1>7. CleanEnd'
  BY <1>1, <1>2, <1>4 DEF CleanEnd
<1>8. pipe' \in {"open", "error", "eof"} /\ chunksClosed' \in BOOLEAN
  BY <1>1, <1>2 DEF Typed
<1>9. QED
  BY <1>2, <1>6, <1>7, <1>8, InsideFinish

\* finish has waited for the pump: if the end is clean, the pipe ends as well, and all that
\* was read is delivered or was refused.
LEMMA DrainedKeeps ==
  ASSUME StreamInv, NEW a \in Actors, Drained(a)
  PROVE  StreamInv'
<1> USE DEF traffic
<1>1. Typed /\ Flow /\ CleanEnd
  BY DEF StreamInv
<1>2. /\ pc[a] = "drain" /\ pump = "done" /\ Goto(a, "notify")
      /\ pipe' = IF Cleanly(a) /\ pipe = "open" THEN "eof" ELSE pipe
      /\ UNCHANGED <<pump, traffic, chunks, chunksClosed, startCh, doneCh, ctxDone, flags,
                     account>>
  BY DEF Drained
<1>3. "notify" \in Places
  BY DEF Places
<1>4. (Alive' <=> Alive) /\ (pc'["reader"] = "body" <=> pc["reader"] = "body")
  BY <1>2, <1>3, EndingMove DEF Marked
<1>5. Passing' = Passing /\ Writing' = Writing
  BY <1>2, <1>4 DEF Passing, Writing
<1>6. Flow'
  BY <1>1, <1>2, <1>4, <1>5 DEF Flow
<1>7. CleanEnd'
  <2>1. CASE Cleanly(a) /\ pipe = "open"
    <3>1. pc["reader"] = "drain" /\ stage = "ended" /\ Alive
      BY <1>2, <2>1 DEF Cleanly, Alive
    <3>2. chunksClosed /\ chunks = 0
      BY <1>1, <1>2, <2>1, <3>1 DEF CleanEnd
    <3>3. frames = dropped + delivered
      BY <1>1, <1>2, <2>1, <3>1, <3>2 DEF Flow, Typed, Passing, Writing
    <3>4. QED
      BY <1>2, <1>4, <2>1, <3>1, <3>2, <3>3 DEF CleanEnd
  <2>2. CASE ~(Cleanly(a) /\ pipe = "open")
    BY <1>1, <1>2, <1>4, <2>2 DEF CleanEnd
  <2>3. QED
    BY <2>1, <2>2
<1>8. pipe' \in {"open", "error", "eof"} /\ chunksClosed' \in BOOLEAN
  BY <1>1, <1>2 DEF Typed
<1>9. QED
  BY <1>2, <1>6, <1>7, <1>8, InsideFinish

\* The rest of finish: the slot is given back and the request is counted.
LEMMA NotifyKeeps ==
  ASSUME StreamInv, NEW a \in Actors, Notify(a)
  PROVE  StreamInv'
<1> USE DEF flags, traffic, account
<1>1. Typed /\ Flow /\ CleanEnd /\ OneEnd /\ OnTheWay /\ SlotFollowsRequest
  BY DEF StreamInv
<1>2. PICK l \in {"gone", "loop", "done", "remove"} : l = AfterFinish(a)
  BY AfterFinishPlace
<1>3. /\ pc[a] = "notify" /\ Goto(a, l)
      /\ startCh' \in {startCh, "error"} /\ doneCh' = TRUE /\ slot' = FALSE /\ ctxDone' = TRUE
      /\ counted' = counted + 1
      /\ UNCHANGED <<pump, traffic, chunks, chunksClosed, pipe, flags, inMap, released>>
  BY <1>2 DEF Notify
<1>4. l \in Places
  BY DEF Places
<1>5. /\ pc' \in [Actors -> Places] /\ pc'[a] = l
      /\ \A b \in Actors : b # a => pc'[b] = pc[b]
      /\ Unborn'
      /\ Alive' <=> Alive
      /\ pc'["reader"] = "body" <=> pc["reader"] = "body"
  BY <1>3, <1>4, EndingMove DEF Marked
<1>6. Flow' /\ CleanEnd'
  BY <1>1, <1>3, <1>5, TrafficStays
<1>7. completed /\ counted = 0 /\ \A b \in Actors : pc[b] \in Finishing => b = a
  BY <1>1, <1>3 DEF OneEnd, Finishing
<1>8. Typed'
  <2>1. slot' \in BOOLEAN /\ doneCh' \in BOOLEAN /\ ctxDone' \in BOOLEAN
    BY <1>3
  <2>2. counted' = 1
    BY <1>3, <1>7
  <2>3. QED
    BY <1>1, <1>3, <1>5, <2>1, <2>2 DEF Typed
<1>9. \A b \in Actors : pc'[b] \notin Finishing
  BY <1>5, <1>7 DEF Finishing
<1>10. OneEnd'
  BY <1>3, <1>7, <1>9 DEF OneEnd
<1>11. OnTheWay'
  BY <1>3, <1>7 DEF OnTheWay
<1>12. SlotFollowsRequest'
  BY <1>3, <1>7 DEF SlotFollowsRequest
<1>13. QED
  BY <1>5, <1>6, <1>8, <1>10, <1>11, <1>12 DEF StreamInv

\* removePending after cancel: if the request is not over, whoever won the race in cancel is
\* on the way to finish it.
LEMMA RemoveKeeps ==
  ASSUME StreamInv, NEW a \in Actors, Remove(a)
  PROVE  StreamInv'
<1> USE DEF flags, traffic, channels
<1>1. Typed /\ Flow /\ CleanEnd /\ OneEnd /\ OnTheWay /\ SlotFollowsRequest
  BY DEF StreamInv
<1>2. PICK l \in {"wait", "armed", "done"} : l = AfterCancel(a)
  BY DEF AfterCancel
<1>3. /\ pc[a] = "remove" /\ Goto(a, l)
      /\ inMap' = FALSE /\ slot' = (slot /\ ~inMap)
      /\ UNCHANGED <<pump, traffic, channels, ctxDone, flags, released, counted>>
  BY <1>2 DEF Remove, RemovePending
<1>4. l \in Places
  BY DEF Places
<1>5. /\ pc' \in [Actors -> Places] /\ pc'[a] = l
      /\ \A b \in Actors : b # a => pc'[b] = pc[b]
      /\ Unborn'
      /\ Alive' <=> Alive
      /\ pc'["reader"] = "body" <=> pc["reader"] = "body"
  BY <1>3, <1>4, EndingMove DEF Marked
<1>6. Flow' /\ CleanEnd'
  BY <1>1, <1>3, <1>5, TrafficStays
<1>7. Typed'
  <2>1. slot' \in BOOLEAN /\ inMap' \in BOOLEAN
    BY <1>3
  <2>2. QED
    BY <1>1, <1>3, <1>5, <2>1 DEF Typed
<1>8. \A b \in Actors : pc'[b] \in Finishing <=> pc[b] \in Finishing
  BY <1>3, <1>5 DEF Finishing
<1>9. OneEnd'
  BY <1>1, <1>3, <1>5, <1>8 DEF OneEnd
<1>10. completed \/ cancelSent
  BY <1>1, <1>3 DEF OnTheWay
<1>11. \A b \in Actors : pc[b] \in {"send", "finish"} => pc'[b] = pc[b]
  BY <1>3, <1>5
<1>12. Alive => completed \/ \E b \in Actors : pc'[b] \in {"send", "finish"}
  BY <1>1, <1>10, <1>11 DEF OnTheWay
<1>13. \A b \in Actors : pc'[b] = "remove" => pc[b] = "remove"
  BY <1>5
<1>14. OnTheWay'
  BY <1>3, <1>5, <1>10, <1>12, <1>13 DEF OnTheWay
<1>15. SlotFollowsRequest'
  BY <1>1, <1>3 DEF SlotFollowsRequest
<1>16. QED
  BY <1>5, <1>6, <1>7, <1>9, <1>14, <1>15 DEF StreamInv

-----------------------------------------------------------------------------
(* The read loop, the pump and the start.                                  *)

\* A step that nobody takes inside cancel or finish, and that ends nothing.
LEMMA EndUntouched ==
  ASSUME StreamInv,
         \A a \in Actors : \/ pc'[a] = pc[a]
                           \/ pc[a] \notin Marked \ {"body"} /\ pc'[a] \notin Marked \ {"body"},
         UNCHANGED <<completed, cancelSent, account>>
  PROVE  /\ Alive' <=> Alive
         /\ OneEnd' /\ OnTheWay' /\ SlotFollowsRequest'
<1> USE DEF account
<1>1. OneEnd /\ OnTheWay /\ SlotFollowsRequest
  BY DEF StreamInv
<1>2. "reader" \in Actors
  BY DEF Actors
<1>3. Alive' <=> Alive
  BY <1>2 DEF Alive, Marked
<1>4. \A a \in Actors : pc'[a] \in Finishing <=> pc[a] \in Finishing
  BY DEF Finishing, Marked
<1>5. OneEnd'
  BY <1>1, <1>3, <1>4 DEF OneEnd
<1>6. \A a \in Actors : /\ pc'[a] \in {"send", "finish"} <=> pc[a] \in {"send", "finish"}
                        /\ pc'[a] = "cancel" <=> pc[a] = "cancel"
                        /\ pc'[a] = "remove" <=> pc[a] = "remove"
  BY DEF Marked
<1>7. OnTheWay'
  BY <1>1, <1>3, <1>6 DEF OnTheWay
<1>8. SlotFollowsRequest'
  BY <1>1 DEF SlotFollowsRequest
<1>9. QED
  BY <1>3, <1>5, <1>7, <1>8

\* A response_body frame is accepted, or refused because the request is over.
LEMMA RecvBodyKeeps ==
  ASSUME StreamInv, RecvBody
  PROVE  StreamInv'
<1> USE DEF channels, account
<1>1. Typed /\ Unborn /\ Flow /\ CleanEnd
  BY DEF StreamInv
<1>2. "reader" \in Actors /\ "handler" \in Actors /\ "body" \in Places
  BY DEF Actors, Places
<1>3. /\ pc["reader"] = "loop" /\ stage = "started"
      /\ frames < MaxFrames /\ frames' = frames + 1
      /\ \/ timerOn' = TRUE /\ Goto("reader", "body") /\ dropped' = dropped
         \/ dropped' = dropped + 1 /\ UNCHANGED <<timerOn, pc>>
      /\ UNCHANGED <<pump, stage, delivered, channels, ctxDone, completed, cancelSent,
                     responseStart, account>>
  BY <1>1, StreamAssumption DEF RecvBody, Typed
<1>4. /\ pc' \in [Actors -> Places]
      /\ \A b \in Actors : b # "reader" => pc'[b] = pc[b]
      /\ pc'["reader"] \in {"loop", "body"}
      /\ pc'["reader"] = "body" <=> dropped' = dropped
  <2>1. CASE Goto("reader", "body") /\ dropped' = dropped
    BY <1>1, <1>2, <2>1, Moved DEF Typed
  <2>2. CASE dropped' = dropped + 1 /\ pc' = pc
    BY <1>1, <1>2, <1>3, <2>2 DEF Typed
  <2>3. QED
    BY <1>3, <2>1, <2>2
<1>5. /\ Alive' <=> Alive
      /\ OneEnd' /\ OnTheWay' /\ SlotFollowsRequest'
  BY <1>3, <1>4, EndUntouched DEF Marked
<1>6. /\ dropped' \in Nat /\ frames' \in Nat /\ frames' <= MaxFrames
      /\ timerOn' \in BOOLEAN
  <2>1. dropped' \in {dropped, dropped + 1}
    BY <1>3
  <2>2. timerOn' = TRUE \/ timerOn' = timerOn
    BY <1>3
  <2>3. timerOn' \in BOOLEAN
    BY <1>1, <2>2 DEF Typed
  <2>4. QED
    BY <1>1, <1>3, <2>1, <2>3, StreamAssumption DEF Typed
<1>7. Typed'
  <2>1. UNCHANGED <<pump, stage, delivered, channels, ctxDone, completed, cancelSent,
                    responseStart, account>>
    BY <1>3
  <2>2. pc' \in [Actors -> Places]
    BY <1>4
  <2>3. QED
    BY <1>1, <1>6, <2>1, <2>2 DEF Typed
<1>8. Unborn'
  BY <1>1, <1>2, <1>4 DEF Unborn, Actors
<1>9. Writing' = Writing /\ dropped' + Passing' = dropped + 1 /\ Passing = 0
  BY <1>1, <1>3, <1>4 DEF Writing, Passing, Typed
<1>10. Flow'
  BY <1>1, <1>3, <1>5, <1>9 DEF Flow, Typed, Writing, Passing
<1>11. CleanEnd'
  BY <1>1, <1>3, <1>5 DEF CleanEnd
<1>12. QED
  BY <1>5, <1>7, <1>8, <1>10, <1>11 DEF StreamInv

\* The frame goes into the channel.
LEMMA BodyQueuedKeeps ==
  ASSUME StreamInv, BodyQueued
  PROVE  StreamInv'
<1> USE DEF traffic, flags, account
<1>1. Typed /\ Unborn /\ Flow /\ CleanEnd
  BY DEF StreamInv
<1>2. "reader" \in Actors /\ "loop" \in Places
  BY DEF Actors, Places
<1>3. /\ pc["reader"] = "body" /\ ~chunksClosed /\ chunks < Capacity
      /\ chunks' = chunks + 1 /\ Goto("reader", "loop")
      /\ UNCHANGED <<pump, traffic, chunksClosed, pipe, startCh, doneCh, ctxDone, flags,
                     account>>
  BY DEF BodyQueued
<1>4. /\ pc' \in [Actors -> Places] /\ pc'["reader"] = "loop"
      /\ \A b \in Actors : b # "reader" => pc'[b] = pc[b]
  BY <1>1, <1>2, <1>3, Moved DEF Typed
<1>5. /\ Alive' <=> Alive
      /\ OneEnd' /\ OnTheWay' /\ SlotFollowsRequest'
  BY <1>3, <1>4, EndUntouched DEF Marked
<1>6. chunks' \in Nat /\ chunks' <= Capacity
  BY <1>1, <1>3, StreamAssumption DEF Typed
<1>7. Typed'
  BY <1>1, <1>3, <1>4, <1>6 DEF Typed
<1>8. Unborn'
  BY <1>1, <1>4 DEF Unborn, Actors
<1>9. Writing' = Writing /\ Passing = 1 /\ Passing' = 0
  BY <1>3, <1>4 DEF Writing, Passing
<1>10. Flow'
  BY <1>1, <1>3, <1>5, <1>9 DEF Flow, Typed, Writing
<1>11. CleanEnd'
  BY <1>1, <1>3, <1>5 DEF CleanEnd
<1>12. QED
  BY <1>5, <1>7, <1>8, <1>10, <1>11 DEF StreamInv

\* The frame is refused because the context is done.
LEMMA BodyRefusedKeeps ==
  ASSUME StreamInv, BodyRefused
  PROVE  StreamInv'
<1> USE DEF channels, flags, account
<1>1. Typed /\ Unborn /\ Flow /\ CleanEnd
  BY DEF StreamInv
<1>2. "reader" \in Actors /\ "loop" \in Places
  BY DEF Actors, Places
<1>3. /\ pc["reader"] = "body" /\ dropped' = dropped + 1 /\ Goto("reader", "loop")
      /\ UNCHANGED <<pump, stage, frames, delivered, channels, ctxDone, flags, account>>
  BY DEF BodyRefused
<1>4. /\ pc' \in [Actors -> Places] /\ pc'["reader"] = "loop"
      /\ \A b \in Actors : b # "reader" => pc'[b] = pc[b]
  BY <1>1, <1>2, <1>3, Moved DEF Typed
<1>5. /\ Alive' <=> Alive
      /\ OneEnd' /\ OnTheWay' /\ SlotFollowsRequest'
  BY <1>3, <1>4, EndUntouched DEF Marked
<1>6. dropped' \in Nat
  BY <1>1, <1>3 DEF Typed
<1>7. Typed'
  BY <1>1, <1>3, <1>4, <1>6 DEF Typed
<1>8. Unborn'
  BY <1>1, <1>4 DEF Unborn, Actors
<1>9. Writing' = Writing /\ Passing = 1 /\ Passing' = 0
  BY <1>3, <1>4 DEF Writing, Passing
<1>10. Flow'
  BY <1>1, <1>3, <1>5, <1>9 DEF Flow, Typed, Writing
<1>11. CleanEnd'
  BY <1>1, <1>3, <1>5 DEF CleanEnd
<1>12. QED
  BY <1>5, <1>7, <1>8, <1>10, <1>11 DEF StreamInv

\* The send panics and the process ends.
LEMMA BodyPanicsKeeps ==
  ASSUME StreamInv, BodyPanics
  PROVE  StreamInv'
<1> USE DEF channels, traffic, flags, account
<1>1. Typed /\ Unborn /\ Flow /\ CleanEnd /\ OneEnd /\ OnTheWay /\ SlotFollowsRequest
  BY DEF StreamInv
<1>2. /\ pc["reader"] = "body" /\ chunksClosed
      /\ pc' = [a \in Actors |-> "dead"] /\ pump' = "done"
      /\ UNCHANGED <<traffic, channels, ctxDone, flags, account>>
  BY DEF BodyPanics
<1>3. /\ pc' \in [Actors -> Places] /\ \A a \in Actors : pc'[a] = "dead"
      /\ ~Alive' /\ "reader" \in Actors
  BY <1>2 DEF Places, Alive, Actors
<1>4. Typed'
  BY <1>1, <1>2, <1>3 DEF Typed
<1>5. Unborn'
  BY <1>2 DEF Unborn, Actors
<1>6. Writing' = 0 /\ Passing' = 0 /\ Writing >= 0 /\ Passing >= 0
  BY <1>2, <1>3 DEF Writing, Passing
<1>7. Flow'
  BY <1>1, <1>2, <1>3, <1>6 DEF Flow, Typed, Writing, Passing
<1>8. CleanEnd'
  BY <1>1, <1>2, <1>3 DEF CleanEnd
<1>9. OneEnd'
  BY <1>1, <1>2, <1>3 DEF OneEnd, Finishing
<1>10. OnTheWay'
  BY <1>3 DEF OnTheWay
<1>11. SlotFollowsRequest'
  BY <1>1, <1>2 DEF SlotFollowsRequest
<1>12. QED
  BY <1>4, <1>5, <1>7, <1>8, <1>9, <1>10, <1>11 DEF StreamInv

\* takePending, then finish: whoever takes the request out of the map will finish it.
LEMMA TakeKeeps ==
  ASSUME StreamInv, NEW a \in {"reader", "failer"}, NEW skip \in {"loop", "gone", "done"},
         Take(a, skip), pc[a] \in {"loop", "ready"},
         stage' \in {"waiting", "started", "ended", "failed", "broken"},
         pipe = "eof" => stage' \in {"ended", "broken"},
         UNCHANGED <<pump, frames, dropped, delivered, channels, ctxDone, flags, slot, released,
                     counted>>
  PROVE  StreamInv'
<1> USE DEF channels, flags
<1>1. Typed /\ Unborn /\ Flow /\ CleanEnd /\ OneEnd /\ OnTheWay /\ SlotFollowsRequest
  BY DEF StreamInv
<1>2. a \in Actors /\ "reader" \in Actors
  BY DEF Actors
<1>3. PICK l \in {skip, "finish"} :
           /\ l = IF inMap THEN "finish" ELSE skip
           /\ inMap' = FALSE /\ Goto(a, l)
  BY DEF Take
<1>4. l \in Places
  BY DEF Places
<1>5. /\ pc' \in [Actors -> Places] /\ pc'[a] = l
      /\ \A b \in Actors : b # a => pc'[b] = pc[b]
  BY <1>1, <1>2, <1>3, <1>4, Moved DEF Typed
<1>6. Alive' <=> Alive
  BY <1>2, <1>5 DEF Alive
<1>7. Typed'
  <2>1. inMap' \in BOOLEAN /\ pc' \in [Actors -> Places]
    BY <1>3, <1>5
  <2>2. QED
    BY <1>1, <2>1 DEF Typed
<1>8. Unborn'
  BY <1>1, <1>5 DEF Unborn, Actors
<1>9. Passing' = Passing /\ Writing' = Writing
  BY <1>2, <1>5 DEF Passing, Writing
<1>10. Flow'
  BY <1>1, <1>6, <1>9 DEF Flow
<1>11. CleanEnd'
  BY <1>1, <1>2, <1>5, <1>6 DEF CleanEnd
<1>12. \A b \in Actors : pc'[b] \in Finishing <=> pc[b] \in Finishing
  BY <1>5 DEF Finishing
<1>13. OneEnd'
  BY <1>1, <1>6, <1>12 DEF OneEnd
<1>14. \A b \in Actors : /\ pc[b] \in {"cancel", "send", "finish"} => pc'[b] = pc[b]
                         /\ pc'[b] = "remove" => pc[b] = "remove"
  BY <1>5
<1>15. OnTheWay'
  <2>1. \A b \in Actors : pc'[b] = "remove" => completed \/ cancelSent
    BY <1>1, <1>14 DEF OnTheWay
  <2>2. Alive /\ cancelSent => completed \/ \E b \in Actors : pc'[b] \in {"send", "finish"}
    BY <1>1, <1>14 DEF OnTheWay
  <2>3. Alive => \/ completed \/ released
                 \/ \E b \in Actors : pc'[b] \in {"cancel", "send", "finish"}
    <3>1. CASE inMap
      BY <1>2, <1>3, <1>5, <3>1
    <3>2. CASE ~inMap
      BY <1>1, <1>14, <3>2 DEF OnTheWay
    <3>3. QED
      BY <3>1, <3>2
  <2>4. QED
    BY <1>6, <2>1, <2>2, <2>3 DEF OnTheWay
<1>16. SlotFollowsRequest'
  BY <1>1, <1>3 DEF SlotFollowsRequest
<1>17. QED
  BY <1>7, <1>8, <1>10, <1>11, <1>13, <1>15, <1>16 DEF StreamInv

\* The ends of a request that come from the connection: response_end, an error, the loss of
\* the connection and its replacement.
LEMMA ConnectionEnds ==
  ASSUME StreamInv, RecvEnd \/ RecvError \/ ReadFails \/ Replaced
  PROVE  StreamInv'
<1> USE DEF traffic
<1>1. Typed /\ CleanEnd
  BY DEF StreamInv
<1>2. CASE RecvEnd
  <2>1. /\ pc["reader"] = "loop" /\ stage = "started" /\ stage' = "ended"
        /\ Take("reader", "loop")
        /\ UNCHANGED <<pump, frames, dropped, delivered, channels, ctxDone, flags, slot,
                       released, counted>>
    BY <1>2 DEF RecvEnd
  <2>2. QED
    BY <2>1, TakeKeeps
<1>3. CASE RecvError
  <2>1. /\ pc["reader"] = "loop" /\ stage \in {"waiting", "started"} /\ stage' = "failed"
        /\ Take("reader", "loop")
        /\ UNCHANGED <<pump, frames, dropped, delivered, channels, ctxDone, flags, slot,
                       released, counted>>
    BY <1>3 DEF RecvError
  <2>2. pipe # "eof"
    BY <1>1, <2>1 DEF CleanEnd
  <2>3. QED
    BY <2>1, <2>2, TakeKeeps
<1>4. CASE ReadFails
  <2>1. /\ pc["reader"] = "loop" /\ stage' = "broken" /\ Take("reader", "gone")
        /\ UNCHANGED <<pump, frames, dropped, delivered, channels, ctxDone, flags, slot,
                       released, counted>>
    BY <1>4 DEF ReadFails
  <2>2. QED
    BY <2>1, TakeKeeps
<1>5. CASE Replaced
  <2>1. /\ pc["failer"] = "ready" /\ stage' = stage /\ Take("failer", "done")
        /\ UNCHANGED <<pump, frames, dropped, delivered, channels, ctxDone, flags, slot,
                       released, counted>>
    BY <1>5 DEF Replaced
  <2>2. /\ stage' \in {"waiting", "started", "ended", "failed", "broken"}
        /\ pipe = "eof" => stage' \in {"ended", "broken"}
    BY <1>1, <2>1 DEF Typed, CleanEnd
  <2>3. QED
    BY <2>1, <2>2, TakeKeeps
<1>6. QED
  BY <1>2, <1>3, <1>4, <1>5

\* forwardHTTP fails before the request is sent: it is released and no longer in the map.
LEMMA StartNotSentKeeps ==
  ASSUME StreamInv, StartNotSent
  PROVE  StreamInv'
<1> USE DEF channels, flags, traffic
<1>1. Typed /\ Unborn /\ Flow /\ CleanEnd /\ OneEnd /\ OnTheWay /\ SlotFollowsRequest
  BY DEF StreamInv
<1>2. /\ pc["handler"] = "forward" /\ Goto("handler", "returned")
      /\ inMap' = FALSE /\ slot' = (slot /\ ~inMap) /\ released' = TRUE /\ ctxDone' = TRUE
      /\ UNCHANGED <<pump, traffic, channels, flags, counted>>
  BY DEF StartNotSent, RemovePending
<1>3. "handler" \in Actors /\ "reader" \in Actors /\ "returned" \in Places
  BY DEF Actors, Places
<1>4. /\ pc' \in [Actors -> Places] /\ pc'["handler"] = "returned"
      /\ \A b \in Actors : b # "handler" => pc'[b] = pc[b]
  BY <1>1, <1>2, <1>3, Moved DEF Typed
<1>5. (Alive' <=> Alive) /\ (pc'["reader"] = "body" <=> pc["reader"] = "body")
  BY <1>3, <1>4 DEF Alive
<1>6. Flow' /\ CleanEnd'
  BY <1>1, <1>2, <1>5, TrafficStays
<1>7. Typed'
  <2>1. slot' \in BOOLEAN /\ inMap' \in BOOLEAN /\ released' \in BOOLEAN /\ ctxDone' \in BOOLEAN
    BY <1>2
  <2>2. UNCHANGED <<pump, traffic, channels, flags, counted>>
    BY <1>2
  <2>3. QED
    BY <1>1, <1>4, <2>1, <2>2 DEF Typed
<1>8. Unborn'
  BY <1>4 DEF Unborn
<1>9. \A b \in Actors : /\ pc'[b] \in Finishing <=> pc[b] \in Finishing
                        /\ pc'[b] \in {"send", "finish"} <=> pc[b] \in {"send", "finish"}
                        /\ pc'[b] = "remove" => pc[b] = "remove"
  BY <1>2, <1>4 DEF Finishing
<1>10. OneEnd'
  BY <1>1, <1>2, <1>5, <1>9 DEF OneEnd
<1>11. OnTheWay'
  BY <1>1, <1>2, <1>5, <1>9 DEF OnTheWay
<1>12. SlotFollowsRequest'
  BY <1>1, <1>2 DEF SlotFollowsRequest
<1>13. QED
  BY <1>6, <1>7, <1>8, <1>10, <1>11, <1>12 DEF StreamInv

\* The pump moves a frame on, or ends.
LEMMA PumpKeeps ==
  ASSUME StreamInv, PumpReceive \/ PumpEnds \/ CopyFrame
  PROVE  StreamInv'
<1> USE DEF flags, account
<1>1. Typed /\ Unborn /\ Flow /\ CleanEnd
  BY DEF StreamInv
<1>2. {"handler", "reader", "body", "watcher"} \subseteq Actors /\ "write" \in Places
  BY DEF Actors, Places
<1>3. CASE PumpReceive
  <2> USE DEF traffic
  <2>1. /\ pump = "receive" /\ chunks > 0 /\ chunks' = chunks - 1 /\ pump' = "write"
        /\ UNCHANGED <<pc, traffic, chunksClosed, pipe, startCh, doneCh, ctxDone, flags,
                       account>>
    BY <1>3 DEF PumpReceive
  <2>2. (Alive' <=> Alive) /\ OneEnd' /\ OnTheWay' /\ SlotFollowsRequest'
    BY <2>1, EndUntouched
  <2>3. chunks' \in Nat /\ chunks' <= Capacity
    BY <1>1, <2>1, StreamAssumption DEF Typed
  <2>4. Typed'
    BY <1>1, <2>1, <2>3 DEF Typed
  <2>5. Unborn'
    BY <1>1, <2>1 DEF Unborn
  <2>6. Passing' = Passing /\ Writing = 0 /\ Writing' = 1
    BY <2>1 DEF Passing, Writing
  <2>7. Flow'
    BY <1>1, <2>1, <2>2, <2>6 DEF Flow, Typed, Passing
  <2>8. CleanEnd'
    BY <1>1, <2>1, <2>2 DEF CleanEnd
  <2>9. QED
    BY <2>2, <2>4, <2>5, <2>7, <2>8 DEF StreamInv
<1>4. CASE PumpEnds
  <2> USE DEF traffic, channels
  <2>1. /\ \/ pump = "receive" /\ chunks = 0 /\ chunksClosed
           \/ pump = "write" /\ pipe # "open"
        /\ pump' = "done"
        /\ UNCHANGED <<pc, traffic, channels, ctxDone, flags, account>>
    BY <1>4 DEF PumpEnds
  <2>2. (Alive' <=> Alive) /\ OneEnd' /\ OnTheWay' /\ SlotFollowsRequest'
    BY <2>1, EndUntouched
  <2>3. Typed'
    BY <1>1, <2>1 DEF Typed
  <2>4. Unborn'
    BY <1>1, <2>1 DEF Unborn
  <2>5. Passing' = Passing /\ Writing' = 0 /\ (pump = "receive" => Writing = 0)
    BY <2>1 DEF Passing, Writing
  <2>6. pipe # "error" => pump = "receive" /\ chunks = 0 /\ chunksClosed /\ pipe = "open"
    BY <1>1, <2>1 DEF CleanEnd, Typed
  <2>7. Flow'
    BY <1>1, <2>1, <2>2, <2>5, <2>6 DEF Flow, Typed, Passing, Writing
  <2>8. CleanEnd'
    BY <2>1, <2>2, <2>6 DEF CleanEnd
  <2>9. QED
    BY <2>2, <2>3, <2>4, <2>7, <2>8 DEF StreamInv
<1>5. CASE CopyFrame
  <2> USE DEF channels
  <2>1. /\ pump = "write" /\ pipe = "open" /\ pc["handler"] = "copy"
        /\ delivered' = delivered + 1 /\ pump' = "receive" /\ Goto("handler", "write")
        /\ UNCHANGED <<stage, frames, dropped, channels, ctxDone, flags, account>>
    BY <1>5 DEF CopyFrame
  <2>2. /\ pc' \in [Actors -> Places] /\ pc'["handler"] = "write"
        /\ \A b \in Actors : b # "handler" => pc'[b] = pc[b]
    BY <1>1, <1>2, <2>1, Moved DEF Typed
  <2>3. (Alive' <=> Alive) /\ OneEnd' /\ OnTheWay' /\ SlotFollowsRequest'
    BY <2>1, <2>2, EndUntouched DEF Marked
  <2>4. delivered' \in Nat
    BY <1>1, <2>1 DEF Typed
  <2>5. Typed'
    BY <1>1, <2>1, <2>2, <2>4 DEF Typed
  <2>6. Unborn'
    BY <2>2 DEF Unborn
  <2>7. Passing' = Passing /\ Writing = 1 /\ Writing' = 0
    BY <1>2, <2>1, <2>2 DEF Passing, Writing
  <2>8. Flow'
    BY <1>1, <2>1, <2>3, <2>7 DEF Flow, Typed, Passing
  <2>9. CleanEnd'
    BY <1>1, <2>1, <2>3 DEF CleanEnd
  <2>10. QED
    BY <2>3, <2>5, <2>6, <2>8, <2>9 DEF StreamInv
<1>6. QED
  BY <1>3, <1>4, <1>5

-----------------------------------------------------------------------------
(* The theorems.                                                           *)

\* The invariant holds initially.
LEMMA InitInv == StreamInit => StreamInv
<1> SUFFICES ASSUME StreamInit
             PROVE  StreamInv
  OBVIOUS
<1>1. /\ pc = [a \in Actors |->
                 CASE a = "handler" -> "forward" [] a = "reader" -> "loop"
                   [] a = "idle" -> "armed" [] a = "failer" -> "ready"
                   [] OTHER -> "unborn"]
      /\ "reader" \in Actors /\ "handler" \in Actors
      /\ "body" \in Actors /\ "watcher" \in Actors
  BY DEF StreamInit, Actors
<1>2. \A a \in Actors : pc[a] \in {"forward", "loop", "armed", "ready", "unborn"}
  <2> TAKE a \in Actors
  <2>1. pc[a] = CASE a = "handler" -> "forward" [] a = "reader" -> "loop"
                  [] a = "idle" -> "armed" [] a = "failer" -> "ready"
                  [] OTHER -> "unborn"
    BY <1>1
  <2>2. QED
    BY <2>1
<1>3. pc["reader"] = "loop" /\ pc["body"] = "unborn" /\ pc["watcher"] = "unborn"
  BY <1>1
<1>4. pc \in [Actors -> Places]
  BY <1>1, <1>2 DEF Places
<1>5. Typed
  <2>1. /\ pump = "receive" /\ stage = "waiting" /\ pipe = "open" /\ startCh = "empty"
        /\ frames = 0 /\ dropped = 0 /\ delivered = 0 /\ chunks = 0 /\ counted = 0
    BY DEF StreamInit
  <2>2. /\ chunksClosed = FALSE /\ doneCh = FALSE /\ ctxDone = FALSE /\ completed = FALSE
        /\ cancelSent = FALSE /\ responseStart = FALSE /\ timerOn = TRUE /\ inMap = TRUE
        /\ slot = TRUE /\ released = FALSE
    BY DEF StreamInit
  <2>3. 0 <= MaxFrames /\ 0 <= Capacity
    BY StreamAssumption
  <2>4. QED
    BY <1>4, <2>1, <2>2, <2>3 DEF Typed
<1>6. Unborn
  BY <1>3 DEF Unborn
<1>7. Flow
  BY <1>3 DEF StreamInit, Flow, Writing, Passing
<1>8. CleanEnd
  BY DEF StreamInit, CleanEnd
<1>9. OneEnd
  BY <1>2 DEF StreamInit, OneEnd, Finishing
<1>10. OnTheWay
  BY <1>2 DEF StreamInit, OnTheWay
<1>11. SlotFollowsRequest
  BY DEF StreamInit, SlotFollowsRequest
<1>12. QED
  BY <1>5, <1>6, <1>7, <1>8, <1>9, <1>10, <1>11 DEF StreamInv

\* Every step keeps it.
LEMMA NextInv == StreamInv /\ [StreamNext]_vars => StreamInv'
<1> SUFFICES ASSUME StreamInv, [StreamNext]_vars
             PROVE  StreamInv'
  OBVIOUS
<1>1. CASE ReaderStep
  BY <1>1, PlainSteps, RecvBodyKeeps, ConnectionEnds DEF ReaderStep
<1>2. CASE BodyStep
  BY <1>2, BodyQueuedKeeps, BodyRefusedKeeps, BodyPanicsKeeps DEF BodyStep
<1>3. CASE HandlerStep
  BY <1>3, PlainSteps, StartNotSentKeeps DEF HandlerStep, HandlerGoesOn
<1>4. CASE PumpStep
  BY <1>4, PumpKeeps DEF PumpStep
<1>5. CASE \E a \in Actors : Settle(a) \/ Drained(a)
  BY <1>5, CancelKeeps, CloseKeeps, DrainedKeeps, NotifyKeeps, RemoveKeeps DEF Settle
<1>6. CASE BodyChunk \/ BodyEnds \/ BodyFails \/ WatcherWakes \/ IdleFires \/ ContextDone
           \/ UNCHANGED vars
  BY <1>6, PlainSteps
<1>7. CASE Replaced
  BY <1>7, ConnectionEnds
<1>8. QED
  BY <1>1, <1>2, <1>3, <1>4, <1>5, <1>6, <1>7 DEF StreamNext

\* Frames, flags, the goroutines inside finish and those on the way to it agree with each
\* other in every reachable state.
THEOREM StreamInductive == StreamSpec => []StreamInv
<1>1. StreamInit => StreamInv
  BY InitInv
<1>2. StreamInv /\ [StreamNext]_vars => StreamInv'
  BY NextInv
<1>3. QED
  BY <1>1, <1>2, PTL DEF StreamSpec

\* The request's flags, channels and program counters have their types, and a channel never
\* holds more than its capacity (newPendingRequest, responseChunks).
THEOREM StreamTyped == StreamSpec => []StreamTypeOK
<1>1. StreamInv => StreamTypeOK
  <2> SUFFICES ASSUME StreamInv
               PROVE  StreamTypeOK
    OBVIOUS
  <2>1. Typed /\ Flow
    BY DEF StreamInv
  <2>2. Writing \in {0, 1} /\ Passing \in {0, 1}
    BY DEF Writing, Passing
  <2>3. dropped <= frames /\ delivered <= frames
    BY <2>1, <2>2 DEF Typed, Flow
  <2>4. {frames, dropped, delivered} \subseteq 0..MaxFrames
    BY <2>1, <2>3, StreamAssumption DEF Typed
  <2>5. chunks \in 0..Capacity /\ counted \in Nat
    BY <2>1, StreamAssumption DEF Typed
  <2>6. {chunksClosed, doneCh, ctxDone, completed, cancelSent, responseStart, timerOn,
         inMap, slot, released} \subseteq BOOLEAN
    BY <2>1 DEF Typed
  <2>7. QED
    BY <2>1, <2>4, <2>5, <2>6 DEF Typed, StreamTypeOK, Places
<1>2. QED
  BY <1>1, StreamInductive, PTL

\* Of all the goroutines that may end a request exactly one runs the end of finish, and a
\* request out of peer.pending is over, refused, or about to be finished by somebody (finish,
\* cancel, takePending, removePending).
THEOREM EndedOnceHolds == StreamSpec => []EndedOnce
<1>1. StreamInv => EndedOnce
  <2> SUFFICES ASSUME StreamInv, Alive
               PROVE  EndedOnce
    BY DEF EndedOnce
  <2> DEFINE F == {a \in Actors : pc[a] \in Finishing}
  <2>1. Typed /\ OneEnd /\ OnTheWay
    BY DEF StreamInv
  <2>2. counted + Cardinality(F) = IF completed THEN 1 ELSE 0
    <3>1. CASE F = {}
      <4>1. Cardinality(F) = 0
        BY <3>1, FS_EmptySet
      <4>2. \A a \in Actors : pc[a] \notin Finishing
        BY <3>1
      <4>3. completed => counted = 1
        BY <2>1, <4>2 DEF OneEnd, Typed
      <4>4. ~completed => counted = 0
        BY <2>1 DEF OneEnd
      <4>5. QED
        BY <4>1, <4>3, <4>4
    <3>2. CASE F # {}
      <4>1. PICK a \in F : TRUE
        BY <3>2
      <4>2. completed /\ counted = 0 /\ F = {a}
        BY <2>1, <4>1 DEF OneEnd
      <4>3. Cardinality({a}) = 1
        BY FS_Singleton
      <4>4. QED
        BY <4>2, <4>3
    <3>3. QED
      BY <3>1, <3>2
  <2>3. QED
    BY <2>1, <2>2 DEF OnTheWay, EndedOnce
<1>2. QED
  BY <1>1, StreamInductive, PTL

\* The slot is given back with the request and not before somebody has decided to end it
\* (releaseSlot, removePending).
THEOREM SlotFollowsRequestHolds == StreamSpec => []SlotFollowsRequest
<1>1. StreamInv => SlotFollowsRequest
  BY DEF StreamInv
<1>2. QED
  BY <1>1, StreamInductive, PTL

\* A response of any length ends cleanly for the handler only after every frame of it that was
\* queued: response_end never overtakes the body (finish, pumpResponseBody).
THEOREM CleanEndIsDrainedHolds == StreamSpec => []CleanEndIsDrained
<1>1. StreamInv => CleanEndIsDrained
  BY DEF StreamInv, CleanEnd, CleanEndIsDrained
<1>2. QED
  BY <1>1, StreamInductive, PTL
=============================================================================
