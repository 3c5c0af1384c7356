------------------------- MODULE MessageDispatcher -------------------------
(***************************************************************************)
(* The outbound dispatcher of a control connection (pkg/api/dispatcher.go),*)
(* used by the daemon and by the client: goroutines enqueue messages of    *)
(* streams, each in a bounded queue of its own, and one goroutine sends    *)
(* them, control messages first and streams in round-robin order.          *)
(*                                                                         *)
(* EnqueueStream takes the lock twice, and pushes to the queue in between  *)
(* without it.  pc of a writer:                                            *)
(*   idle     before a call                                                *)
(*   push     holds a dispatchStream, waits for room in its queue          *)
(*   mark     the message is in the queue, the second lock is not taken    *)
(*   aborted  a call returned an error: it may still send a final message  *)
(*   stopped  it has sent its final message, or given up                   *)
(* A dispatchStream is an object: a writer keeps the one it looked up      *)
(* while the dispatcher may delete it from the map.                        *)
(*                                                                         *)
(* pc of the dispatcher (run, next):                                       *)
(*   next     about to lock        receive  has a stream, reads its queue  *)
(*   after    afterStreamMessage   empty    afterEmptyStream               *)
(*   send     has a message        wait     waits for wakeCh or closeCh    *)
(*   exit                                                                  *)
(* Control messages differ in nothing the properties see: they are counted.*)
(***************************************************************************)
EXTENDS Naturals, Sequences, FiniteSets

CONSTANTS
  Streams,      \* request ids
  Writers,      \* goroutines that call EnqueueStream
  StreamOf,     \* [Writers -> Streams]
  Capacity,     \* StreamQueueCapacity
  MaxCalls,     \* bound on the calls of a writer
  MaxControl,   \* bound on control messages
  None

ASSUME DispatcherAssumption ==
  /\ StreamOf \in [Writers -> Streams]
  /\ Capacity \in Nat \ {0}
  /\ {MaxCalls, MaxControl} \subseteq Nat
  /\ IsFiniteSet(Writers)

VARIABLES
  streams,    \* [Streams -> Ids or 0]: the map; 0 is nil
  object,     \* [Streams \X Ids -> DispatchStream]: the objects of a stream
  ready,      \* stream ids waiting for their turn
  control,    \* control messages waiting
  closed,     \* d.closed
  closeCh,    \* closeCh is closed
  wake,       \* wakeCh holds its one value
  wpc,        \* [Writers -> string]
  held,       \* [Writers -> Ids or 0]: the object of the call in progress
  calls,      \* [Writers -> Nat]: messages so far; the last is the current one
  final,      \* [Writers -> BOOLEAN]: the current message is final
  dpc,
  taken,      \* the message or the stream id the dispatcher holds
  accepted,   \* messages whose call returned nil
  sent,       \* messages written to the connection
  passed,     \* [Streams -> Nat]: turns of others since the stream became ready
  requests    \* control messages enqueued so far

mvars == <<streams, object>>
queues == <<ready, control, wake>>
shut == <<closed, closeCh>>
wvars == <<wpc, held, calls, final>>
dvars == <<dpc, taken>>
hist == <<accepted, sent, passed, requests>>
vars == <<mvars, queues, shut, wvars, dvars, hist>>

Messages == Writers \X (1..MaxCalls)

ASSUME NothingAssumption == None \notin Messages

\* the objects of a stream that can be in use at a time: one in the map, and one
\* held by each writer
Ids == 1..(Cardinality(Writers) + 1)

DispatchStream == [queue : Seq(Messages), scheduled : BOOLEAN, draining : BOOLEAN]
NewStream == [queue |-> <<>>, scheduled |-> FALSE, draining |-> FALSE]

DispatcherInit ==
  /\ streams = [s \in Streams |-> 0]
  /\ object = [o \in Streams \X Ids |-> NewStream]
  /\ ready = <<>> /\ control = 0 /\ wake = FALSE
  /\ closed = FALSE /\ closeCh = FALSE
  /\ wpc = [w \in Writers |-> "idle"]
  /\ held = [w \in Writers |-> 0]
  /\ calls = [w \in Writers |-> 0]
  /\ final = [w \in Writers |-> FALSE]
  /\ dpc = "next" /\ taken = None
  /\ accepted = {} /\ sent = {}
  /\ passed = [s \in Streams |-> 0]
  /\ requests = 0

GotoW(w, l) == wpc' = [wpc EXCEPT ![w] = l]

Current(w) == <<w, calls[w]>>

\* the object of the call in progress, and the object of a stream in the map
Held(w) == <<StreamOf[w], held[w]>>
Mapped(s) == <<s, streams[s]>>

\* the id of an object of a stream that nobody refers to
FreeId(s) ==
  CHOOSE i \in Ids : i # streams[s] /\ \A w \in Writers : StreamOf[w] = s => held[w] # i

-----------------------------------------------------------------------------
(* EnqueueStream.                                                          *)

\* the first critical section: get or create the stream
Enter(w, last) ==
  LET s == StreamOf[w]
      i == IF streams[s] # 0 THEN streams[s] ELSE FreeId(s) IN
  /\ wpc[w] = "idle" \/ (wpc[w] = "aborted" /\ last)
  /\ ~closed
  /\ calls[w] < MaxCalls
  /\ streams' = [streams EXCEPT ![s] = i]
  /\ object' = IF streams[s] # 0 THEN object ELSE [object EXCEPT ![<<s, i>>] = NewStream]
  /\ held' = [held EXCEPT ![w] = i]
  /\ calls' = [calls EXCEPT ![w] = @ + 1]
  /\ final' = [final EXCEPT ![w] = last]
  /\ GotoW(w, "push")
  /\ UNCHANGED <<queues, shut, dvars, hist>>

\* the dispatcher is closed, or the writer has nothing more to send
GiveUp(w) ==
  /\ wpc[w] \in {"idle", "aborted"}
  /\ GotoW(w, "stopped")
  /\ UNCHANGED <<mvars, queues, shut, held, calls, final, dvars, hist>>

\* the select: room in the queue
Push_Unbounded(w) ==
  /\ wpc[w] = "push"
  /\ object' = [object EXCEPT ![Held(w)].queue = Append(@, Current(w))]
  /\ GotoW(w, "mark")
  /\ UNCHANGED <<streams, queues, shut, held, calls, final, dvars, hist>>
Push(w) ==
  /\ wpc[w] = "push"
  /\ Len(object[Held(w)].queue) < Capacity
  /\ object' = [object EXCEPT ![Held(w)].queue = Append(@, Current(w))]
  /\ GotoW(w, "mark")
  /\ UNCHANGED <<streams, queues, shut, held, calls, final, dvars, hist>>

\* how a call ends with an error
Fail(w) ==
  /\ held' = [held EXCEPT ![w] = 0]
  /\ GotoW(w, IF final[w] THEN "stopped" ELSE "aborted")

\* the select: the context is done first
PushCanceled(w) ==
  /\ wpc[w] = "push"
  /\ Fail(w)
  /\ UNCHANGED <<mvars, queues, shut, calls, final, dvars, hist>>

\* the select: the dispatcher has been closed
PushClosed_Never(w) == FALSE
PushClosed(w) ==
  /\ wpc[w] = "push" /\ closeCh
  /\ Fail(w)
  /\ UNCHANGED <<mvars, queues, shut, calls, final, dvars, hist>>

\* the second critical section, on the object of the call
Schedule(o, drain) ==
  object' = [object EXCEPT ![o].scheduled = TRUE, ![o].draining = @ \/ drain]

Accept(w) ==
  /\ accepted' = accepted \cup {Current(w)}
  /\ held' = [held EXCEPT ![w] = 0]
  /\ GotoW(w, IF final[w] THEN "stopped" ELSE "idle")

Mark_NoWake(w) ==
  /\ wpc[w] = "mark" /\ ~closed
  /\ Schedule(Held(w), final[w])
  /\ ready' = IF object[Held(w)].scheduled THEN ready ELSE Append(ready, StreamOf[w])
  /\ Accept(w)
  /\ UNCHANGED <<streams, control, wake, shut, calls, final, dvars,
                 sent, passed, requests>>
Mark(w) ==
  /\ wpc[w] = "mark" /\ ~closed
  /\ Schedule(Held(w), final[w])
  /\ IF object[Held(w)].scheduled
     THEN UNCHANGED <<ready, wake>>
     ELSE ready' = Append(ready, StreamOf[w]) /\ wake' = TRUE
  /\ Accept(w)
  /\ UNCHANGED <<streams, control, shut, calls, final, dvars,
                 sent, passed, requests>>

\* closed meanwhile: an error, with the message in the queue
MarkClosed(w) ==
  /\ wpc[w] = "mark" /\ closed
  /\ Fail(w)
  /\ UNCHANGED <<mvars, queues, shut, calls, final, dvars, hist>>

\* EnqueueControl, from anyone
EnqueueControl ==
  /\ ~closed
  /\ requests < MaxControl
  /\ requests' = requests + 1
  /\ control' = control + 1
  /\ wake' = TRUE
  /\ UNCHANGED <<mvars, ready, shut, wvars, dvars, accepted, sent, passed>>

-----------------------------------------------------------------------------
(* The dispatcher goroutine.  Only it removes streams from the map, so the *)
(* stream it took a turn for is still there when it locks again.           *)

GotoD(l) == dpc' = l

NextControl ==
  /\ dpc = "next" /\ control > 0
  /\ control' = control - 1
  /\ GotoD("send")
  /\ taken' = None
  /\ UNCHANGED <<mvars, ready, wake, shut, wvars, hist>>

\* the next stream in line; the id of a stream deleted meanwhile is skipped
NextStream ==
  /\ dpc = "next" /\ control = 0 /\ ready # <<>>
  /\ ready' = Tail(ready)
  /\ LET s == Head(ready) IN
     IF streams[s] = 0
     THEN UNCHANGED <<object, dvars, passed>>
     ELSE /\ object' = [object EXCEPT ![Mapped(s)].scheduled = FALSE]
          /\ passed' = [t \in Streams |->
               IF t # s /\ streams[t] # 0 /\ object[Mapped(t)].scheduled
               THEN passed[t] + 1 ELSE 0]
          /\ taken' = s
          /\ GotoD("receive")
  /\ UNCHANGED <<streams, control, wake, shut, wvars, accepted, sent, requests>>

\* nothing to send: the end after a close, else wait
NextIdle ==
  /\ dpc = "next" /\ control = 0 /\ ready = <<>>
  /\ GotoD(IF closed THEN "exit" ELSE "wait")
  /\ UNCHANGED <<mvars, queues, shut, wvars, taken, hist>>

Wake ==
  /\ dpc = "wait" /\ wake
  /\ wake' = FALSE
  /\ GotoD("next")
  /\ UNCHANGED <<mvars, ready, control, shut, wvars, taken, hist>>

WaitEnds ==
  /\ dpc = "wait" /\ closeCh
  /\ GotoD("exit")
  /\ UNCHANGED <<mvars, queues, shut, wvars, taken, hist>>

\* the receive that does not block
Receive_Last ==
  /\ dpc = "receive"
  /\ LET q == object[Mapped(taken)].queue IN
     IF q = <<>>
     THEN GotoD("empty") /\ UNCHANGED <<object, taken>>
     ELSE /\ object' = [object EXCEPT ![Mapped(taken)].queue = SubSeq(q, 1, Len(q) - 1)]
          /\ taken' = q[Len(q)]
          /\ GotoD("after")
  /\ UNCHANGED <<streams, queues, shut, wvars, hist>>
Receive ==
  /\ dpc = "receive"
  /\ LET q == object[Mapped(taken)].queue IN
     IF q = <<>>
     THEN GotoD("empty") /\ UNCHANGED <<object, taken>>
     ELSE /\ object' = [object EXCEPT ![Mapped(taken)].queue = Tail(q)]
          /\ taken' = Head(q)
          /\ GotoD("after")
  /\ UNCHANGED <<streams, queues, shut, wvars, hist>>

\* delete the stream once its final message is out and nothing is queued.  A
\* push that falls between the test and the deletion is one after it: nobody
\* sees the difference, the queue is the writer's alone by then.
DeleteIfDrained(s) ==
  streams' = IF object[Mapped(s)].queue = <<>> /\ object[Mapped(s)].draining
             THEN [streams EXCEPT ![s] = 0] ELSE streams

After_NotRescheduled ==
  /\ dpc = "after"
  /\ DeleteIfDrained(StreamOf[taken[1]])
  /\ UNCHANGED <<object, ready, wake>>
  /\ GotoD("send")
  /\ UNCHANGED <<control, shut, wvars, taken, hist>>
After_DropsDraining ==
  LET s == StreamOf[taken[1]]
      o == Mapped(s) IN
  /\ dpc = "after"
  /\ IF object[o].draining
     THEN streams' = [streams EXCEPT ![s] = 0] /\ UNCHANGED <<object, ready, wake>>
     ELSE /\ IF object[o].queue # <<>> /\ ~object[o].scheduled
             THEN Schedule(o, FALSE) /\ ready' = Append(ready, s) /\ wake' = TRUE
             ELSE UNCHANGED <<object, ready, wake>>
          /\ UNCHANGED streams
  /\ GotoD("send")
  /\ UNCHANGED <<control, shut, wvars, taken, hist>>
After_ToFront ==
  LET s == StreamOf[taken[1]]
      o == Mapped(s) IN
  /\ dpc = "after"
  /\ IF object[o].queue # <<>> /\ ~object[o].scheduled
     THEN /\ Schedule(o, FALSE)
          /\ ready' = <<s>> \o ready /\ wake' = TRUE
          /\ UNCHANGED streams
     ELSE DeleteIfDrained(s) /\ UNCHANGED <<object, ready, wake>>
  /\ GotoD("send")
  /\ UNCHANGED <<control, shut, wvars, taken, hist>>
After_KeepsStream ==
  LET s == StreamOf[taken[1]]
      o == Mapped(s) IN
  /\ dpc = "after"
  /\ IF object[o].queue # <<>> /\ ~object[o].scheduled
     THEN Schedule(o, FALSE) /\ ready' = Append(ready, s) /\ wake' = TRUE
     ELSE UNCHANGED <<object, ready, wake>>
  /\ GotoD("send")
  /\ UNCHANGED <<mvars, control, shut, wvars, taken, hist>>
\* afterStreamMessage: back to the end of the line if more is queued
After ==
  LET s == StreamOf[taken[1]]
      o == Mapped(s) IN
  /\ dpc = "after"
  /\ IF object[o].queue # <<>> /\ ~object[o].scheduled
     THEN /\ Schedule(o, FALSE)
          /\ ready' = Append(ready, s) /\ wake' = TRUE
          /\ UNCHANGED streams
     ELSE DeleteIfDrained(s) /\ UNCHANGED <<object, ready, wake>>
  /\ GotoD("send")
  /\ UNCHANGED <<control, shut, wvars, taken, hist>>

\* afterEmptyStream
Empty ==
  /\ dpc = "empty"
  /\ DeleteIfDrained(taken)
  /\ GotoD("next")
  /\ taken' = None
  /\ UNCHANGED <<object, queues, shut, wvars, hist>>

Send ==
  /\ dpc = "send"
  /\ sent' = sent \cup ({taken} \ {None})
  /\ GotoD("next")
  /\ taken' = None
  /\ UNCHANGED <<mvars, queues, shut, wvars, accepted, passed, requests>>

\* the connection is broken: Close, unless it is closed already, and the end
SendFails ==
  /\ dpc = "send"
  /\ closed' = TRUE
  /\ GotoD("exit")
  /\ UNCHANGED <<mvars, queues, closeCh, wvars, taken, hist>>

\* Close, from the owner of the connection: its critical section, then the rest
Close ==
  /\ ~closed
  /\ closed' = TRUE
  /\ UNCHANGED <<mvars, queues, closeCh, wvars, dvars, hist>>

Signal ==
  /\ closed /\ ~closeCh
  /\ closeCh' = TRUE
  /\ wake' = TRUE
  /\ UNCHANGED <<mvars, ready, control, closed, wvars, dvars, hist>>

DispatcherStep ==
  NextControl \/ NextStream \/ NextIdle \/ Wake \/ WaitEnds \/ Receive \/ After \/ Empty
    \/ Send \/ SendFails

WriterStep(w) ==
  \/ \E last \in BOOLEAN : Enter(w, last)
  \/ GiveUp(w) \/ Push(w) \/ PushCanceled(w) \/ PushClosed(w) \/ Mark(w) \/ MarkClosed(w)

DispatcherNext ==
  \/ DispatcherStep
  \/ \E w \in Writers : WriterStep(w)
  \/ EnqueueControl
  \/ Close \/ Signal

DispatcherSpec == DispatcherInit /\ [][DispatcherNext]_vars

\* The goroutines are scheduled: one that can go on does.  Contexts need not end,
\* the dispatcher need not be closed, and a write to the connection returns.
FairDispatcherSpec ==
  /\ DispatcherSpec
  /\ WF_vars(DispatcherStep)
  /\ WF_vars(Signal)
  /\ \A w \in Writers : WF_vars(Mark(w) \/ MarkClosed(w)) /\ WF_vars(PushClosed(w))

-----------------------------------------------------------------------------
(* Properties.                                                             *)

\* Every variable has its type, and no queue exceeds its capacity.
DispatcherTypeOK ==
  /\ streams \in [Streams -> Ids \cup {0}]
  /\ DOMAIN object = Streams \X Ids
  /\ \A o \in Streams \X Ids :
       /\ object[o].queue \in UNION {[1..n -> Messages] : n \in 0..Capacity}
       /\ {object[o].scheduled, object[o].draining} \subseteq BOOLEAN
  /\ \A i \in 1..Len(ready) : ready[i] \in Streams
  /\ {control, requests} \subseteq 0..MaxControl
  /\ {closed, closeCh, wake} \subseteq BOOLEAN
  /\ wpc \in [Writers -> {"idle", "push", "mark", "aborted", "stopped"}]
  /\ held \in [Writers -> Ids \cup {0}]
  /\ calls \in [Writers -> 0..MaxCalls]
  /\ final \in [Writers -> BOOLEAN]
  /\ dpc \in {"next", "receive", "after", "empty", "send", "wait", "exit"}
  /\ taken \in Messages \cup Streams \cup {None}
  /\ accepted \subseteq Messages /\ sent \subseteq Messages
  /\ passed \in [Streams -> Nat]

\* A stream that is in the map with messages in its queue is never left out of the
\* line: it is scheduled, or the writer that pushed last or the dispatcher that
\* just took its turn is about to schedule it (EnqueueStream, afterStreamMessage).
NothingStranded ==
  ~closed => \A s \in Streams :
    streams[s] # 0 /\ object[Mapped(s)].queue # <<>> =>
      \/ object[Mapped(s)].scheduled /\ (\E i \in 1..Len(ready) : ready[i] = s)
      \/ \E w \in Writers : wpc[w] = "mark" /\ Held(w) = Mapped(s)
      \/ dpc = "receive" /\ taken = s
      \/ dpc = "after" /\ StreamOf[taken[1]] = s

\* The messages of a goroutine are sent in the order it enqueued them, whatever
\* becomes of the stream between two calls.
InOrder ==
  [][\A w \in Writers : \A m, n \in 1..MaxCalls :
       <<w, n>> \in sent' \ sent /\ m > n => <<w, m>> \notin sent]_vars

InQueue(m) ==
  \E s \in Streams : streams[s] # 0 /\
    \E i \in 1..Len(object[Mapped(s)].queue) : object[Mapped(s)].queue[i] = m

OnItsWay(m) ==
  m \in sent \/ InQueue(m) \/ (dpc \in {"after", "send"} /\ taken = m)

\* A message whose EnqueueStream returned nil is sent, or still on its way, unless the
\* connection is closed.  Where two goroutines write to one stream, as a body and a
\* cancellation do, only a message that another goroutine's final message has
\* overtaken is lost ("EnqueueStream queues a request- or response-scoped message").
LostAfterFinal ==
  ~closed => \A m \in accepted :
    \/ OnItsWay(m)
    \/ \E w \in Writers \ {m[1]} :
         /\ StreamOf[w] = StreamOf[m[1]]
         /\ final[w]
         /\ Current(w) \in accepted

\* Round robin, where each stream has one writer: a stream that waits for its turn
\* sees each other stream served at most once, however much they have to send
\* (docs/architecture.md: "large bodies ... do not monopolize the connection").
RoundRobin == \A s \in Streams : passed[s] < Cardinality(Streams)

\* An accepted message is sent in the end: no order of pushes, marks and wake-ups
\* lets the dispatcher sleep on it (wakeCh, next).
EventuallySent == \A m \in Messages : m \in accepted ~> m \in sent \/ closed

\* A stream whose final message was accepted is removed from the map in the end, so
\* finished requests leave nothing behind (draining).
StreamFreed ==
  \A w \in Writers :
    (final[w] /\ Current(w) \in accepted) ~> (streams[StreamOf[w]] = 0 \/ closed)

\* "Close shuts down the dispatcher and unblocks pending writers."
CloseReleases ==
  closed ~> dpc = "exit" /\ \A w \in Writers : wpc[w] \notin {"push", "mark"}
=============================================================================
