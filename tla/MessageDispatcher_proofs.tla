---------------------- MODULE MessageDispatcher_proofs ----------------------
(***************************************************************************)
(* No stream with messages to send is left out of the line, messages are   *)
(* sent in order, none is lost before a final one, turns are fair, and the *)
(* dispatcher sleeps on nothing: proofs for any number of goroutines,      *)
(* streams and calls, and any capacity of a queue.                         *)
(*                                                                         *)
(* NothingStranded is not inductive.  The dispatcher works on the stream   *)
(* whose turn it took as if nobody could delete it (InHand), takes from its*)
(* queue a message of that stream (OwnMessages), and relies on a scheduled *)
(* stream being in the line (ScheduledInLine); a new stream needs an object*)
(* that no goroutine still holds from before a deletion (FreeObject).      *)
(***************************************************************************)
EXTENDS MessageDispatcher, SequenceTheorems, FiniteSetTheorems, TLAPS

-----------------------------------------------------------------------------
(* The invariant.                                                          *)

Objects == Streams \X Ids
Busy == {"push", "mark"}

InLine(s) == \E i \in 1..Len(ready) : ready[i] = s

\* The type invariant, with what makes it inductive.
Typed ==
  /\ streams \in [Streams -> Ids \cup {0}]
  /\ object \in [Objects -> DispatchStream]
  /\ \A o \in Objects : Len(object[o].queue) <= Capacity
  /\ ready \in Seq(Streams)
  /\ control \in Nat /\ requests \in Nat /\ control <= requests /\ requests <= MaxControl
  /\ closed \in BOOLEAN /\ closeCh \in BOOLEAN /\ wake \in BOOLEAN
  /\ wpc \in [Writers -> {"idle", "push", "mark", "aborted", "stopped"}]
  /\ held \in [Writers -> Ids \cup {0}]
  /\ calls \in [Writers -> 0..MaxCalls]
  /\ final \in [Writers -> BOOLEAN]
  /\ dpc \in {"next", "receive", "after", "empty", "send", "wait", "exit"}
  /\ taken \in Messages \cup Streams \cup {None}
  /\ accepted \subseteq Messages /\ sent \subseteq Messages
  /\ passed \in [Streams -> Nat]

\* A call that is under way has an object and a number.
CallsUnderWay == \A w \in Writers : wpc[w] \in Busy => held[w] # 0 /\ calls[w] # 0

\* A stream is in the map as long as the dispatcher works on it.
InHand ==
  /\ dpc \in {"receive", "empty"} => taken \in Streams /\ streams[taken] # 0
  /\ dpc = "after" => taken \in Messages /\ streams[StreamOf[taken[1]]] # 0
  /\ dpc = "send" => taken \in Messages \cup {None}

\* A queue holds messages of its own stream.
OwnMessages ==
  \A o \in Objects : \A i \in 1..Len(object[o].queue) : StreamOf[object[o].queue[i][1]] = o[1]

\* Who is scheduled is in the line.
ScheduledInLine ==
  \A s \in Streams : streams[s] # 0 /\ object[Mapped(s)].scheduled => InLine(s)

\* Who will serve a stream: its turn, a writer, or the dispatcher.
LookedAfter(s) ==
  \/ object[Mapped(s)].scheduled /\ InLine(s)
  \/ \E w \in Writers : wpc[w] = "mark" /\ Held(w) = Mapped(s)
  \/ dpc = "receive" /\ taken = s
  \/ dpc = "after" /\ StreamOf[taken[1]] = s

DispatcherInv ==
  Typed /\ CallsUnderWay /\ InHand /\ OwnMessages /\ ScheduledInLine /\ NothingStranded

-----------------------------------------------------------------------------
(* Queues and objects.                                                     *)

\* The four changes of an object.
PushedOnto(f, o, m) == [f EXCEPT ![o].queue = Append(@, m)]
PoppedFrom(f, o) == [f EXCEPT ![o].queue = Tail(f[o].queue)]
ScheduledIn(f, o, d) == [f EXCEPT ![o].scheduled = TRUE, ![o].draining = @ \/ d]
UnscheduledIn(f, o) == [f EXCEPT ![o].scheduled = FALSE]

\* A message is pushed (EnqueueStream's select).
LEMMA Pushed ==
  ASSUME NEW f \in [Objects -> DispatchStream], NEW o \in Objects, NEW m \in Messages
  PROVE  /\ PushedOnto(f, o, m) \in [Objects -> DispatchStream]
         /\ \A p \in Objects : p # o => PushedOnto(f, o, m)[p] = f[p]
         /\ PushedOnto(f, o, m)[o].scheduled = f[o].scheduled
         /\ PushedOnto(f, o, m)[o].draining = f[o].draining
         /\ PushedOnto(f, o, m)[o].queue = Append(f[o].queue, m)
         /\ Len(f[o].queue) \in Nat /\ Len(PushedOnto(f, o, m)[o].queue) = Len(f[o].queue) + 1
         /\ \A i \in 1..Len(f[o].queue) : PushedOnto(f, o, m)[o].queue[i] = f[o].queue[i]
         /\ PushedOnto(f, o, m)[o].queue[Len(f[o].queue) + 1] = m
<1> DEFINE g == PushedOnto(f, o, m)
           q == Append(f[o].queue, m)
<1>1. f[o] \in DispatchStream /\ f[o].queue \in Seq(Messages)
  BY DEF DispatchStream
<1>2. /\ q \in Seq(Messages) /\ Len(f[o].queue) \in Nat /\ Len(q) = Len(f[o].queue) + 1
      /\ \A i \in 1..Len(f[o].queue) : q[i] = f[o].queue[i]
      /\ q[Len(f[o].queue) + 1] = m
  BY <1>1, AppendProperties, LenProperties
<1>3. g = [f EXCEPT ![o] = [f[o] EXCEPT !.queue = q]]
  BY DEF PushedOnto
<1> HIDE DEF q
<1>4. g[o] = [f[o] EXCEPT !.queue = q] /\ \A p \in Objects : p # o => g[p] = f[p]
  BY <1>3
<1>5. q \in Seq(Messages)
  BY <1>2
<1>6. /\ g[o] \in DispatchStream /\ g[o].queue = q
      /\ g[o].scheduled = f[o].scheduled /\ g[o].draining = f[o].draining
  BY <1>1, <1>4, <1>5 DEF DispatchStream
<1>7. g \in [Objects -> DispatchStream]
  BY <1>3, <1>4, <1>6
<1>8. QED
  BY <1>2, <1>4, <1>6, <1>7 DEF q

\* The first message is received (the dispatcher's turn).
LEMMA Popped ==
  ASSUME NEW f \in [Objects -> DispatchStream], NEW o \in Objects, f[o].queue # <<>>
  PROVE  /\ PoppedFrom(f, o) \in [Objects -> DispatchStream]
         /\ \A p \in Objects : p # o => PoppedFrom(f, o)[p] = f[p]
         /\ PoppedFrom(f, o)[o].scheduled = f[o].scheduled
         /\ PoppedFrom(f, o)[o].draining = f[o].draining
         /\ PoppedFrom(f, o)[o].queue = Tail(f[o].queue)
         /\ Len(f[o].queue) \in Nat \ {0} /\ Len(PoppedFrom(f, o)[o].queue) = Len(f[o].queue) - 1
         /\ \A i \in 1..Len(PoppedFrom(f, o)[o].queue) :
              PoppedFrom(f, o)[o].queue[i] = f[o].queue[i + 1]
         /\ Head(f[o].queue) = f[o].queue[1] /\ Head(f[o].queue) \in Messages
<1> DEFINE g == PoppedFrom(f, o)
           q == Tail(f[o].queue)
<1>1. f[o] \in DispatchStream /\ f[o].queue \in Seq(Messages)
  BY DEF DispatchStream
<1>2. /\ q \in Seq(Messages) /\ Len(f[o].queue) \in Nat \ {0} /\ Len(q) = Len(f[o].queue) - 1
      /\ \A i \in 1..Len(q) : q[i] = f[o].queue[i + 1]
      /\ Head(f[o].queue) = f[o].queue[1] /\ Head(f[o].queue) \in Messages
  BY <1>1, HeadTailProperties, LenProperties, EmptySeq
<1>3. g = [f EXCEPT ![o] = [f[o] EXCEPT !.queue = q]]
  BY DEF PoppedFrom
<1> HIDE DEF q
<1>4. g[o] = [f[o] EXCEPT !.queue = q] /\ \A p \in Objects : p # o => g[p] = f[p]
  BY <1>3
<1>5. q \in Seq(Messages)
  BY <1>2
<1>6. /\ g[o] \in DispatchStream /\ g[o].queue = q
      /\ g[o].scheduled = f[o].scheduled /\ g[o].draining = f[o].draining
  BY <1>1, <1>4, <1>5 DEF DispatchStream
<1>7. g \in [Objects -> DispatchStream]
  BY <1>3, <1>4, <1>6
<1>8. QED
  BY <1>2, <1>4, <1>6, <1>7 DEF q

\* A stream joins the line.
LEMMA Scheduled ==
  ASSUME NEW f \in [Objects -> DispatchStream], NEW o \in Objects, NEW d \in BOOLEAN
  PROVE  /\ ScheduledIn(f, o, d) \in [Objects -> DispatchStream]
         /\ \A p \in Objects : p # o => ScheduledIn(f, o, d)[p] = f[p]
         /\ ScheduledIn(f, o, d)[o].scheduled
         /\ ScheduledIn(f, o, d)[o].draining = (f[o].draining \/ d)
         /\ \A p \in Objects : ScheduledIn(f, o, d)[p].queue = f[p].queue
<1> DEFINE g == ScheduledIn(f, o, d)
<1>1. /\ g \in [Objects -> DispatchStream]
      /\ \A p \in Objects : p # o => g[p] = f[p]
      /\ g[o].scheduled /\ g[o].draining = (f[o].draining \/ d)
  BY DEF DispatchStream, ScheduledIn
<1>2. g[o].queue = f[o].queue
  BY DEF DispatchStream, ScheduledIn
<1>3. QED
  BY <1>1, <1>2

\* Or leaves it.
LEMMA Unscheduled ==
  ASSUME NEW f \in [Objects -> DispatchStream], NEW o \in Objects
  PROVE  /\ UnscheduledIn(f, o) \in [Objects -> DispatchStream]
         /\ \A p \in Objects : p # o => UnscheduledIn(f, o)[p] = f[p]
         /\ ~UnscheduledIn(f, o)[o].scheduled /\ UnscheduledIn(f, o)[o].draining = f[o].draining
         /\ \A p \in Objects : UnscheduledIn(f, o)[p].queue = f[p].queue
<1> DEFINE g == UnscheduledIn(f, o)
<1>1. /\ g \in [Objects -> DispatchStream]
      /\ \A p \in Objects : p # o => g[p] = f[p]
      /\ ~g[o].scheduled /\ g[o].draining = f[o].draining
  BY DEF DispatchStream, UnscheduledIn
<1>2. g[o].queue = f[o].queue
  BY DEF DispatchStream, UnscheduledIn
<1>3. QED
  BY <1>1, <1>2

\* A stream is appended to the line (ready).
LEMMA Joined ==
  ASSUME NEW q \in Seq(Streams), NEW s \in Streams
  PROVE  /\ Append(q, s) \in Seq(Streams)
         /\ \A t : (\E i \in 1..Len(Append(q, s)) : Append(q, s)[i] = t) <=>
                     (\E i \in 1..Len(q) : q[i] = t) \/ t = s
<1>1. /\ Append(q, s) \in Seq(Streams) /\ Len(q) \in Nat /\ Len(Append(q, s)) = Len(q) + 1
      /\ \A i \in 1..Len(q) : Append(q, s)[i] = q[i]
      /\ Append(q, s)[Len(q) + 1] = s
  BY AppendProperties, LenProperties
<1>2. QED
  BY <1>1

\* The first in line leaves it; the others keep their places.
LEMMA Left ==
  ASSUME NEW q \in Seq(Streams), q # <<>>
  PROVE  /\ Tail(q) \in Seq(Streams) /\ Head(q) \in Streams
         /\ \A t : (\E i \in 1..Len(q) : q[i] = t) /\ t # Head(q) =>
                     \E i \in 1..Len(Tail(q)) : Tail(q)[i] = t
<1>1. /\ Tail(q) \in Seq(Streams) /\ Len(q) \in Nat \ {0} /\ Len(Tail(q)) = Len(q) - 1
      /\ \A i \in 1..Len(Tail(q)) : Tail(q)[i] = q[i + 1]
      /\ Head(q) = q[1] /\ Head(q) \in Streams
  BY HeadTailProperties, LenProperties, EmptySeq
<1>2. ASSUME NEW t, NEW i \in 1..Len(q), q[i] = t, t # Head(q)
      PROVE  \E j \in 1..Len(Tail(q)) : Tail(q)[j] = t
  <2>1. i - 1 \in 1..Len(Tail(q)) /\ Tail(q)[i - 1] = q[i]
    BY <1>1, <1>2
  <2>2. QED
    BY <1>2, <2>1
<1>3. QED
  BY <1>1, <1>2

\* There is always an object to take: each writer holds one at most.
LEMMA FreeObject ==
  ASSUME held \in [Writers -> Ids \cup {0}], NEW s \in Streams, streams[s] = 0
  PROVE  /\ FreeId(s) \in Ids
         /\ \A w \in Writers : StreamOf[w] = s => held[w] # FreeId(s)
<1> DEFINE H == {held[w] : w \in Writers}
           n == Cardinality(Writers)
<1>1. n \in Nat /\ IsFiniteSet(Writers)
  BY DispatcherAssumption, FS_CardinalityType
<1>2. IsFiniteSet(H) /\ Cardinality(H) <= n /\ Cardinality(H) \in Nat
  <2>1. held \in Surjection(Writers, H)
    BY DEF Surjection
  <2>2. QED
    BY <1>1, <2>1, FS_Surjection, FS_CardinalityType
<1>3. IsFiniteSet(Ids) /\ Cardinality(Ids) = n + 1
  BY <1>1, FS_Interval DEF Ids
<1>4. ~(Ids \subseteq H)
  BY <1>1, <1>2, <1>3, FS_Subset
<1>5. PICK i \in Ids : i \notin H
  BY <1>4
<1>6. i # 0
  BY <1>1 DEF Ids
<1>7. QED
  BY <1>5, <1>6 DEF FreeId

-----------------------------------------------------------------------------
(* Steps that leave the streams, their queues and the line alone.          *)

\* Nobody is stranded by a step that moves neither a message nor a stream.
LEMMA QuietKeepsInv ==
  ASSUME DispatcherInv, UNCHANGED <<streams, object, ready>>, closed => closed',
         \/ closed'
         \/ /\ \A w \in Writers : wpc[w] = "mark" => wpc'[w] = "mark" /\ held'[w] = held[w]
            /\ dpc \in {"receive", "after"} => dpc' = dpc /\ taken' = taken,
         Typed', CallsUnderWay', InHand'
  PROVE  DispatcherInv'
<1>1. OwnMessages' /\ ScheduledInLine'
  BY DEF DispatcherInv, OwnMessages, ScheduledInLine, InLine, Mapped
<1>2. NothingStranded'
  <2>1. SUFFICES ASSUME ~closed', NEW s \in Streams, streams[s] # 0,
                        object[Mapped(s)].queue # <<>>
                 PROVE  \/ object[Mapped(s)].scheduled /\ (\E i \in 1..Len(ready) : ready[i] = s)
                        \/ \E w \in Writers : wpc'[w] = "mark" /\ Held(w)' = Mapped(s)
                        \/ dpc' = "receive" /\ taken' = s
                        \/ dpc' = "after" /\ StreamOf[taken'[1]] = s
    BY DEF NothingStranded, Mapped
  <2>2. \/ object[Mapped(s)].scheduled /\ (\E i \in 1..Len(ready) : ready[i] = s)
        \/ \E w \in Writers : wpc[w] = "mark" /\ Held(w) = Mapped(s)
        \/ dpc = "receive" /\ taken = s
        \/ dpc = "after" /\ StreamOf[taken[1]] = s
    BY <2>1 DEF DispatcherInv, NothingStranded
  <2>3. ASSUME NEW w \in Writers, wpc[w] = "mark", Held(w) = Mapped(s)
        PROVE  wpc'[w] = "mark" /\ Held(w)' = Mapped(s)
    BY <2>1, <2>3 DEF Held
  <2>4. QED
    BY <2>1, <2>2, <2>3
<1>3. QED
  BY <1>1, <1>2 DEF DispatcherInv

\* Steps of the dispatcher between two turns, control messages, and the end.
LEMMA BetweenTurnsKeepsInv ==
  ASSUME DispatcherInv,
         \/ EnqueueControl \/ NextControl \/ NextIdle \/ Wake \/ WaitEnds \/ Send \/ SendFails
         \/ Close \/ Signal \/ UNCHANGED vars
  PROVE  DispatcherInv'
<1> USE DEF mvars, queues, shut, wvars, dvars, hist
<1>1. Typed /\ CallsUnderWay /\ InHand
  BY DEF DispatcherInv
<1>2. MaxControl \in Nat
  BY DispatcherAssumption
<1>3. CASE EnqueueControl
  <2>1. Typed'
    BY <1>1, <1>2, <1>3 DEF EnqueueControl, Typed
  <2>2. QED
    BY <1>1, <1>3, <2>1, QuietKeepsInv DEF EnqueueControl, CallsUnderWay, InHand
<1>4. CASE NextControl
  <2>1. Typed'
    BY <1>1, <1>4 DEF NextControl, GotoD, Typed
  <2>2. QED
    BY <1>1, <1>4, <2>1, QuietKeepsInv DEF NextControl, GotoD, CallsUnderWay, InHand
<1>5. CASE NextIdle
  <2>1. Typed'
    BY <1>1, <1>5 DEF NextIdle, GotoD, Typed
  <2>2. QED
    BY <1>1, <1>5, <2>1, QuietKeepsInv DEF NextIdle, GotoD, CallsUnderWay, InHand
<1>6. CASE Wake \/ WaitEnds
  <2>1. Typed'
    BY <1>1, <1>6 DEF Wake, WaitEnds, GotoD, Typed
  <2>2. QED
    BY <1>1, <1>6, <2>1, QuietKeepsInv DEF Wake, WaitEnds, GotoD, CallsUnderWay, InHand
<1>7. CASE Send
  <2>1. Typed'
    <3>1. sent' \subseteq Messages
      BY <1>1, <1>7 DEF Send, Typed, InHand
    <3>2. QED
      BY <1>1, <1>7, <3>1 DEF Send, GotoD, Typed
  <2>2. QED
    BY <1>1, <1>7, <2>1, QuietKeepsInv DEF Send, GotoD, CallsUnderWay, InHand
<1>8. CASE SendFails
  <2>1. Typed'
    BY <1>1, <1>8 DEF SendFails, GotoD, Typed
  <2>2. QED
    BY <1>1, <1>8, <2>1, QuietKeepsInv DEF SendFails, GotoD, CallsUnderWay, InHand
<1>9. CASE Close \/ Signal
  <2>1. Typed'
    BY <1>1, <1>9 DEF Close, Signal, Typed
  <2>2. QED
    BY <1>1, <1>9, <2>1, QuietKeepsInv DEF Close, Signal, CallsUnderWay, InHand
<1>10. CASE UNCHANGED vars
  <2>1. Typed'
    BY <1>1, <1>10 DEF vars, Typed
  <2>2. QED
    BY <1>1, <1>10, <2>1, QuietKeepsInv DEF vars, CallsUnderWay, InHand
<1>11. QED
  BY <1>3, <1>4, <1>5, <1>6, <1>7, <1>8, <1>9, <1>10

\* A call that fails leaves no message to be served, unless the dispatcher is closed.
LEMMA FailureKeepsInv ==
  ASSUME DispatcherInv, NEW w \in Writers,
         GiveUp(w) \/ PushCanceled(w) \/ PushClosed(w) \/ MarkClosed(w)
  PROVE  DispatcherInv'
<1> USE DEF mvars, queues, shut, wvars, dvars, hist
<1>1. Typed /\ CallsUnderWay /\ InHand
  BY DEF DispatcherInv
<1>2. /\ wpc[w] # "mark" \/ closed
      /\ wpc' \in [Writers -> {"idle", "push", "mark", "aborted", "stopped"}]
      /\ wpc'[w] \notin Busy /\ \A v \in Writers : v # w => wpc'[v] = wpc[v]
      /\ held' \in [Writers -> Ids \cup {0}]
      /\ \A v \in Writers : v # w => held'[v] = held[v]
      /\ UNCHANGED <<streams, object, ready, control, wake, closed, closeCh, calls, final, dpc,
                     taken, accepted, sent, passed, requests>>
  BY <1>1 DEF GiveUp, PushCanceled, PushClosed, MarkClosed, Fail, GotoW, Typed, Busy
<1>3. Typed'
  BY <1>1, <1>2 DEF Typed
<1>4. CallsUnderWay' /\ InHand'
  BY <1>1, <1>2 DEF CallsUnderWay, InHand
<1>5. closed' \/ \A v \in Writers : wpc[v] = "mark" => wpc'[v] = "mark" /\ held'[v] = held[v]
  BY <1>2
<1>6. QED
  BY <1>2, <1>3, <1>4, <1>5, QuietKeepsInv

-----------------------------------------------------------------------------
(* EnqueueStream.                                                          *)

\* The object of a stream in the map, and the object of a call under way.
LEMMA ObjectsInUse ==
  ASSUME Typed, CallsUnderWay
  PROVE  /\ \A s \in Streams : streams[s] # 0 => Mapped(s) \in Objects /\ streams[s] \in Ids
         /\ \A w \in Writers : /\ StreamOf[w] \in Streams
                               /\ wpc[w] \in Busy => Held(w) \in Objects /\ Current(w) \in Messages
         /\ \A o \in Objects : /\ object[o] \in DispatchStream
                               /\ object[o].queue \in Seq(Messages)
                               /\ object[o].scheduled \in BOOLEAN
                               /\ object[o].draining \in BOOLEAN
BY DispatcherAssumption
   DEF Typed, CallsUnderWay, Mapped, Held, Current, Objects, Messages, DispatchStream

\* The first critical section: a stream that is new to the map has an empty queue.
LEMMA EnterEffect ==
  ASSUME Typed, NEW w \in Writers, NEW last \in BOOLEAN, Enter(w, last)
  PROVE  /\ streams' \in [Streams -> Ids \cup {0}] /\ object' \in [Objects -> DispatchStream]
         /\ held' \in [Writers -> Ids \cup {0}]
         /\ held'[w] = streams'[StreamOf[w]] /\ held'[w] \in Ids
         /\ \A v \in Writers : v # w => held'[v] = held[v]
         /\ \A s \in Streams : s # StreamOf[w] => streams'[s] = streams[s]
         /\ streams[StreamOf[w]] # 0 => UNCHANGED <<streams, object>>
         /\ streams[StreamOf[w]] = 0 =>
              /\ object'[<<StreamOf[w], held'[w]>>] = NewStream
              /\ \A o \in Objects : o # <<StreamOf[w], held'[w]>> => object'[o] = object[o]
              /\ \A v \in Writers : held[v] = held'[w] => StreamOf[v] # StreamOf[w]
<1> DEFINE s == StreamOf[w]
           i == IF streams[s] # 0 THEN streams[s] ELSE FreeId(s)
<1>1. s \in Streams
  BY DispatcherAssumption
<1>2. /\ streams' = [streams EXCEPT ![s] = i]
      /\ object' = IF streams[s] # 0 THEN object ELSE [object EXCEPT ![<<s, i>>] = NewStream]
      /\ held' = [held EXCEPT ![w] = i]
  BY DEF Enter
<1>3. /\ i \in Ids
      /\ streams[s] = 0 => \A v \in Writers : StreamOf[v] = s => held[v] # i
  <2>1. CASE streams[s] = 0
    BY <1>1, <2>1, FreeObject DEF Typed
  <2>2. CASE streams[s] # 0
    BY <1>1, <2>2 DEF Typed
  <2>3. QED
    BY <2>1, <2>2
<1>4. NewStream \in DispatchStream /\ <<s, i>> \in Objects
  BY <1>1, <1>3 DEF NewStream, DispatchStream, Objects
<1> HIDE DEF i
<1>5. CASE streams[s] = 0
  BY <1>1, <1>2, <1>3, <1>4, <1>5 DEF Typed
<1>6. CASE streams[s] # 0
  <2>1. i = streams[s]
    BY <1>6 DEF i
  <2>2. streams' = streams
    BY <1>1, <1>2, <2>1 DEF Typed
  <2>3. QED
    BY <1>1, <1>2, <1>3, <1>6, <2>1, <2>2 DEF Typed
<1>7. QED
  BY <1>5, <1>6

\* A call that starts strands nobody: a stream it adds to the map has nothing to send.
LEMMA EnterKeepsInv ==
  ASSUME DispatcherInv, NEW w \in Writers, NEW last \in BOOLEAN, Enter(w, last)
  PROVE  DispatcherInv'
<1> USE DEF mvars, queues, shut, wvars, dvars, hist
<1> DEFINE s == StreamOf[w]
<1>1. Typed /\ CallsUnderWay /\ InHand /\ s \in Streams
  BY DispatcherAssumption DEF DispatcherInv
<1>2. /\ streams' \in [Streams -> Ids \cup {0}] /\ object' \in [Objects -> DispatchStream]
      /\ held' \in [Writers -> Ids \cup {0}]
      /\ held'[w] = streams'[s] /\ held'[w] \in Ids
      /\ \A v \in Writers : v # w => held'[v] = held[v]
      /\ \A t \in Streams : t # s => streams'[t] = streams[t]
      /\ streams[s] # 0 => UNCHANGED <<streams, object>>
      /\ streams[s] = 0 =>
           /\ object'[<<s, held'[w]>>] = NewStream
           /\ \A o \in Objects : o # <<s, held'[w]>> => object'[o] = object[o]
  BY <1>1, EnterEffect
<1>3. /\ wpc[w] \in {"idle", "aborted"} /\ calls[w] < MaxCalls
      /\ wpc' = [wpc EXCEPT ![w] = "push"] /\ calls' = [calls EXCEPT ![w] = @ + 1]
      /\ final' = [final EXCEPT ![w] = last]
      /\ UNCHANGED <<ready, control, wake, closed, closeCh, dpc, taken, accepted, sent, passed,
                     requests>>
  BY DEF Enter, GotoW
<1>4. NewStream \in DispatchStream /\ NewStream.queue = <<>> /\ NewStream.scheduled = FALSE
      /\ Len(NewStream.queue) = 0
  BY DEF NewStream, DispatchStream
<1>5. \A o \in Objects : object'[o] = object[o] \/ object'[o] = NewStream
  BY <1>2
<1>6. Typed'
  <2>1. \A o \in Objects : Len(object'[o].queue) <= Capacity
    <3>1. Capacity \in Nat /\ \A o \in Objects : Len(object[o].queue) <= Capacity
      BY <1>1, DispatcherAssumption DEF Typed
    <3>2. TAKE o \in Objects
    <3>3. CASE object'[o] = object[o]
      BY <3>1, <3>3
    <3>4. CASE object'[o] = NewStream
      <4>1. Len(object'[o].queue) = 0
        BY <1>4, <3>4
      <4>2. QED
        BY <3>1, <4>1
    <3>5. QED
      BY <1>5, <3>3, <3>4
  <2>2. calls' \in [Writers -> 0..MaxCalls]
    BY <1>1, <1>3, DispatcherAssumption DEF Typed
  <2>3. /\ wpc' \in [Writers -> {"idle", "push", "mark", "aborted", "stopped"}]
        /\ final' \in [Writers -> BOOLEAN]
    <3>1. /\ wpc \in [Writers -> {"idle", "push", "mark", "aborted", "stopped"}]
          /\ final \in [Writers -> BOOLEAN]
      BY <1>1 DEF Typed
    <3>2. wpc' \in [Writers -> {"idle", "push", "mark", "aborted", "stopped"}]
      BY <1>3, <3>1
    <3>3. final' \in [Writers -> BOOLEAN]
      BY <1>3, <3>1
    <3>4. QED
      BY <3>2, <3>3
  <2>4. UNCHANGED <<ready, control, wake, closed, closeCh, dpc, taken, accepted, sent, passed,
                    requests>>
    BY <1>3
  <2>5. QED
    BY <1>1, <1>2, <2>1, <2>2, <2>3, <2>4 DEF Typed
<1>7. CallsUnderWay'
  BY <1>1, <1>2, <1>3, DispatcherAssumption DEF CallsUnderWay, Typed, Busy, Ids
<1>8. InHand'
  <2>1. \A t \in Streams : streams[t] # 0 => streams'[t] # 0
    BY <1>2
  <2>2. dpc = "after" => StreamOf[taken[1]] \in Streams
    BY <1>1, DispatcherAssumption DEF InHand, Messages
  <2>3. QED
    BY <1>1, <1>3, <2>1, <2>2 DEF InHand
<1>9. OwnMessages'
  BY <1>4, <1>5 DEF DispatcherInv, OwnMessages
<1>10. ASSUME NEW t \in Streams, streams'[t] # 0,
              object'[<<t, streams'[t]>>].scheduled \/ object'[<<t, streams'[t]>>].queue # <<>>
       PROVE  streams[t] # 0 /\ streams'[t] = streams[t]
              /\ object'[<<t, streams'[t]>>] = object[<<t, streams[t]>>]
  <2>1. CASE streams[s] # 0
    BY <1>2, <1>10, <2>1
  <2>2. CASE streams[s] = 0
    <3>1. t # s
      BY <1>2, <1>4, <1>10, <2>2
    <3>2. <<t, streams[t]>> \in Objects /\ <<t, streams[t]>> # <<s, held'[w]>>
      BY <1>1, <1>2, <1>10, <3>1, ObjectsInUse DEF Mapped
    <3>3. QED
      BY <1>2, <1>10, <2>2, <3>1, <3>2
  <2>3. QED
    BY <2>1, <2>2
<1>11. ScheduledInLine'
  BY <1>3, <1>10 DEF DispatcherInv, ScheduledInLine, InLine, Mapped
<1>12. NothingStranded'
  <2>1. SUFFICES ASSUME ~closed', NEW t \in Streams, streams'[t] # 0,
                        object'[<<t, streams'[t]>>].queue # <<>>
                 PROVE  \/ /\ object'[<<t, streams'[t]>>].scheduled
                           /\ \E i \in 1..Len(ready') : ready'[i] = t
                        \/ \E v \in Writers :
                             wpc'[v] = "mark" /\ <<StreamOf[v], held'[v]>> = <<t, streams'[t]>>
                        \/ dpc' = "receive" /\ taken' = t
                        \/ dpc' = "after" /\ StreamOf[taken'[1]] = t
    BY DEF NothingStranded, Mapped, Held
  <2>2. /\ streams[t] # 0 /\ streams'[t] = streams[t]
        /\ object'[<<t, streams'[t]>>] = object[<<t, streams[t]>>]
    BY <1>10, <2>1
  <2>3. \/ object[Mapped(t)].scheduled /\ (\E i \in 1..Len(ready) : ready[i] = t)
        \/ \E v \in Writers : wpc[v] = "mark" /\ Held(v) = Mapped(t)
        \/ dpc = "receive" /\ taken = t
        \/ dpc = "after" /\ StreamOf[taken[1]] = t
    BY <1>3, <2>1, <2>2 DEF DispatcherInv, NothingStranded, Mapped
  <2>4. ASSUME NEW v \in Writers, wpc[v] = "mark"
        PROVE  wpc'[v] = "mark" /\ held'[v] = held[v]
    BY <1>1, <1>2, <1>3, <2>4 DEF Typed
  <2>5. QED
    BY <1>3, <2>2, <2>3, <2>4 DEF Mapped, Held
<1>13. QED
  BY <1>6, <1>7, <1>8, <1>9, <1>11, <1>12 DEF DispatcherInv

\* Restates NothingStranded with LookedAfter.
LEMMA StrandedMeans ==
  NothingStranded <=>
    (~closed => \A s \in Streams :
       streams[s] # 0 /\ object[Mapped(s)].queue # <<>> => LookedAfter(s))
BY DEF NothingStranded, LookedAfter, InLine

\* A message is pushed: its writer is about to schedule the stream.
LEMMA PushKeepsInv ==
  ASSUME DispatcherInv, NEW w \in Writers, Push(w)
  PROVE  DispatcherInv'
<1> USE DEF mvars, queues, shut, wvars, dvars, hist
<1> DEFINE o == Held(w)
           q == object[o].queue
           m == Current(w)
<1>1. Typed /\ CallsUnderWay /\ InHand
  BY DEF DispatcherInv
<1>2. /\ wpc[w] = "push" /\ Len(q) < Capacity
      /\ object' = [object EXCEPT ![o].queue = Append(@, m)]
      /\ wpc' = [wpc EXCEPT ![w] = "mark"]
      /\ UNCHANGED <<streams, ready, control, wake, closed, closeCh, held, calls, final, dpc,
                     taken, accepted, sent, passed, requests>>
  BY DEF Push, GotoW
<1>3. o \in Objects /\ m \in Messages /\ o = <<StreamOf[w], held[w]>> /\ m = <<w, calls[w]>>
  BY <1>1, <1>2, ObjectsInUse DEF Busy, Held, Current
<1>4. object \in [Objects -> DispatchStream]
  BY <1>1 DEF Typed
<1> HIDE DEF o, m
<1>5. /\ object' \in [Objects -> DispatchStream]
      /\ \A p \in Objects : p # o => object'[p] = object[p]
      /\ object'[o].scheduled = object[o].scheduled
      /\ Len(q) \in Nat /\ Len(object'[o].queue) = Len(q) + 1
      /\ \A i \in 1..Len(q) : object'[o].queue[i] = q[i]
      /\ object'[o].queue[Len(q) + 1] = m
  <2>1. object' = PushedOnto(object, o, m) /\ o \in Objects /\ m \in Messages
    BY <1>2, <1>3 DEF PushedOnto
  <2>2. QED
    BY <1>4, <2>1, Pushed
<1>6. /\ wpc' \in [Writers -> {"idle", "push", "mark", "aborted", "stopped"}]
      /\ wpc'[w] = "mark" /\ \A v \in Writers : v # w => wpc'[v] = wpc[v]
  BY <1>1, <1>2 DEF Typed
<1>7. Typed'
  <2>1. Capacity \in Nat /\ \A p \in Objects : Len(object[p].queue) <= Capacity
    BY <1>1, DispatcherAssumption DEF Typed
  <2>2. \A p \in Objects : Len(object'[p].queue) <= Capacity
    <3>1. TAKE p \in Objects
    <3>2. CASE p = o
      BY <1>2, <1>5, <2>1, <3>2
    <3>3. CASE p # o
      BY <1>5, <2>1, <3>3
    <3>4. QED
      BY <3>2, <3>3
  <2>3. QED
    BY <1>1, <1>2, <1>5, <1>6, <2>2 DEF Typed
<1>8. CallsUnderWay'
  BY <1>1, <1>2, <1>6 DEF CallsUnderWay, Busy
<1>9. InHand'
  BY <1>1, <1>2 DEF InHand
<1>10. OwnMessages'
  <2>1. SUFFICES ASSUME NEW p \in Objects, NEW i \in 1..Len(object'[p].queue)
                 PROVE  StreamOf[object'[p].queue[i][1]] = p[1]
    BY DEF OwnMessages
  <2>2. \A n \in 1..Len(object[p].queue) : StreamOf[object[p].queue[n][1]] = p[1]
    BY DEF DispatcherInv, OwnMessages
  <2>3. CASE p # o
    BY <1>5, <2>2, <2>3
  <2>4. CASE p = o /\ i \in 1..Len(q)
    BY <1>5, <2>2, <2>4
  <2>5. CASE p = o /\ i = Len(q) + 1
    <3>1. object'[p].queue[i] = m
      BY <1>5, <2>5
    <3>2. m[1] = w /\ o[1] = StreamOf[w]
      BY <1>3
    <3>3. QED
      BY <2>5, <3>1, <3>2
  <2>6. QED
    BY <1>5, <2>1, <2>3, <2>4, <2>5
<1>11. ScheduledInLine'
  <2>1. \A s \in Streams : streams[s] # 0 => Mapped(s) \in Objects
    BY <1>1, ObjectsInUse
  <2>2. \A p \in Objects : object'[p].scheduled = object[p].scheduled
    BY <1>5
  <2>3. QED
    BY <1>2, <2>1, <2>2 DEF DispatcherInv, ScheduledInLine, InLine, Mapped
<1>12. NothingStranded'
  <2>1. SUFFICES ASSUME ~closed, NEW s \in Streams, streams[s] # 0,
                        object'[Mapped(s)].queue # <<>>
                 PROVE  LookedAfter(s)'
    BY <1>2, StrandedMeans DEF NothingStranded, LookedAfter, InLine, Mapped
  <2>2. Mapped(s) \in Objects /\ Mapped(s)' = Mapped(s)
    BY <1>1, <1>2, <2>1, ObjectsInUse DEF Mapped
  <2>3. \A v \in Writers : Held(v)' = Held(v)
    BY <1>2 DEF Held
  <2>4. CASE Mapped(s) = o
    BY <1>6, <2>2, <2>3, <2>4 DEF LookedAfter, o
  <2>5. CASE Mapped(s) # o
    <3>1. object'[Mapped(s)] = object[Mapped(s)]
      BY <1>5, <2>2, <2>5
    <3>2. LookedAfter(s)
      BY <2>1, <3>1, StrandedMeans DEF DispatcherInv
    <3>3. \A v \in Writers : wpc[v] = "mark" => wpc'[v] = "mark"
      BY <1>6
    <3>4. QED
      BY <1>2, <2>2, <2>3, <3>1, <3>2, <3>3 DEF LookedAfter, InLine
  <2>6. QED
    BY <2>4, <2>5
<1>13. QED
  BY <1>7, <1>8, <1>9, <1>10, <1>11, <1>12 DEF DispatcherInv

\* The second critical section: the stream is in the line from here on.
LEMMA MarkKeepsInv ==
  ASSUME DispatcherInv, NEW w \in Writers, Mark(w)
  PROVE  DispatcherInv'
<1> USE DEF mvars, queues, shut, wvars, dvars, hist
<1> DEFINE o == Held(w)
           x == StreamOf[w]
<1>1. Typed /\ CallsUnderWay /\ InHand
  BY DEF DispatcherInv
<1>2. /\ wpc[w] = "mark" /\ ~closed
      /\ object' = [object EXCEPT ![o].scheduled = TRUE, ![o].draining = @ \/ final[w]]
      /\ \/ object[o].scheduled /\ UNCHANGED <<ready, wake>>
         \/ ~object[o].scheduled /\ ready' = Append(ready, x) /\ wake' = TRUE
      /\ accepted' = accepted \cup {Current(w)}
      /\ held' = [held EXCEPT ![w] = 0]
      /\ wpc' = [wpc EXCEPT ![w] = IF final[w] THEN "stopped" ELSE "idle"]
      /\ UNCHANGED <<streams, control, closed, closeCh, calls, final, dpc, taken, sent, passed,
                     requests>>
  BY DEF Mark, Schedule, Accept, GotoW
<1>3. /\ o \in Objects /\ Current(w) \in Messages /\ x \in Streams /\ o = <<x, held[w]>>
      /\ object \in [Objects -> DispatchStream] /\ ready \in Seq(Streams) /\ final[w] \in BOOLEAN
  BY <1>1, <1>2, ObjectsInUse DEF Busy, Held, Typed
<1> HIDE DEF o, x
<1>4. /\ object' \in [Objects -> DispatchStream]
      /\ \A p \in Objects : p # o => object'[p] = object[p]
      /\ object'[o].scheduled
      /\ \A p \in Objects : object'[p].queue = object[p].queue
  <2>1. /\ object' = ScheduledIn(object, o, final[w])
        /\ o \in Objects /\ final[w] \in BOOLEAN /\ object \in [Objects -> DispatchStream]
    BY <1>2, <1>3 DEF ScheduledIn
  <2>2. QED
    BY <2>1, Scheduled
<1>5. /\ ready' \in Seq(Streams) /\ \A t : InLine(t) => InLine(t)'
      /\ ~object[o].scheduled => InLine(x)'
  <2>1. CASE object[o].scheduled
    BY <1>2, <1>3, <2>1 DEF InLine
  <2>2. CASE ~object[o].scheduled
    <3>1. ready' = Append(ready, x) /\ ready \in Seq(Streams) /\ x \in Streams
      BY <1>2, <1>3, <2>2
    <3>2. /\ ready' \in Seq(Streams)
          /\ \A t : InLine(t)' <=> InLine(t) \/ t = x
      BY <3>1, Joined DEF InLine
    <3>3. QED
      BY <3>2
  <2>3. QED
    BY <2>1, <2>2
<1>6. /\ wpc' \in [Writers -> {"idle", "push", "mark", "aborted", "stopped"}]
      /\ wpc'[w] \notin Busy
      /\ held' \in [Writers -> Ids \cup {0}]
      /\ \A v \in Writers : v # w => wpc'[v] = wpc[v] /\ held'[v] = held[v]
  BY <1>1, <1>2 DEF Typed, Busy
<1>7. Typed'
  <2>1. \A p \in Objects : Len(object'[p].queue) <= Capacity
    BY <1>1, <1>4 DEF Typed
  <2>2. wake' \in BOOLEAN /\ accepted' \subseteq Messages
    BY <1>1, <1>2, <1>3 DEF Typed
  <2>3. QED
    BY <1>1, <1>2, <1>4, <1>5, <1>6, <2>1, <2>2 DEF Typed
<1>8. CallsUnderWay' /\ InHand'
  BY <1>1, <1>2, <1>6 DEF CallsUnderWay, InHand
<1>9. OwnMessages'
  BY <1>4 DEF DispatcherInv, OwnMessages
<1>10. ScheduledInLine'
  <2>1. SUFFICES ASSUME NEW s \in Streams, streams[s] # 0, object'[Mapped(s)].scheduled
                 PROVE  InLine(s)'
    BY <1>2 DEF ScheduledInLine, Mapped
  <2>2. Mapped(s) \in Objects /\ Mapped(s)[1] = s
    BY <1>1, <2>1, ObjectsInUse DEF Mapped
  <2>3. CASE object[Mapped(s)].scheduled
    BY <1>5, <2>1, <2>3 DEF DispatcherInv, ScheduledInLine
  <2>4. CASE ~object[Mapped(s)].scheduled
    <3>1. Mapped(s) = o
      BY <1>4, <2>1, <2>2, <2>4
    <3>2. QED
      BY <1>3, <1>5, <2>2, <2>4, <3>1
  <2>5. QED
    BY <2>3, <2>4
<1>11. NothingStranded'
  <2>1. SUFFICES ASSUME ~closed, NEW s \in Streams, streams[s] # 0,
                        object'[Mapped(s)].queue # <<>>
                 PROVE  LookedAfter(s)'
    BY <1>2, StrandedMeans DEF NothingStranded, LookedAfter, InLine, Mapped
  <2>2. Mapped(s) \in Objects /\ Mapped(s)' = Mapped(s)
    BY <1>1, <1>2, <2>1, ObjectsInUse DEF Mapped
  <2>3. CASE Mapped(s) = o
    <3>1. object'[Mapped(s)].scheduled
      BY <1>4, <2>3
    <3>2. InLine(s)'
      BY <1>2, <1>10, <2>1, <2>2, <3>1 DEF ScheduledInLine
    <3>3. QED
      BY <2>2, <3>1, <3>2 DEF LookedAfter
  <2>4. CASE Mapped(s) # o
    <3>1. object'[Mapped(s)] = object[Mapped(s)]
      BY <1>4, <2>2, <2>4
    <3>2. LookedAfter(s)
      BY <2>1, <3>1, StrandedMeans DEF DispatcherInv
    <3>3. ASSUME NEW v \in Writers, wpc[v] = "mark", Held(v) = Mapped(s)
          PROVE  wpc'[v] = "mark" /\ Held(v)' = Mapped(s)
      BY <1>6, <2>4, <3>3 DEF Held, o
    <3>4. QED
      BY <1>2, <1>5, <2>2, <3>1, <3>2, <3>3 DEF LookedAfter
  <2>5. QED
    BY <2>3, <2>4
<1>12. QED
  BY <1>7, <1>8, <1>9, <1>10, <1>11 DEF DispatcherInv

-----------------------------------------------------------------------------
(* The dispatcher's turns.                                                 *)

\* The turn of the first stream in line, unless it is gone.
LEMMA NextStreamKeepsInv ==
  ASSUME DispatcherInv, NextStream
  PROVE  DispatcherInv'
<1> USE DEF mvars, queues, shut, wvars, dvars, hist
<1> DEFINE x == Head(ready)
           o == Mapped(x)
<1>1. Typed /\ CallsUnderWay /\ InHand
  BY DEF DispatcherInv
<1>2. /\ dpc = "next" /\ ready # <<>> /\ ready' = Tail(ready)
      /\ UNCHANGED <<streams, control, wake, closed, closeCh, wpc, held, calls, final, accepted,
                     sent, requests>>
  BY DEF NextStream
<1>3. /\ streams[x] = 0 => UNCHANGED <<object, dpc, taken, passed>>
      /\ streams[x] # 0 =>
           /\ object' = [object EXCEPT ![o].scheduled = FALSE]
           /\ passed' = [t \in Streams |->
                IF t # x /\ streams[t] # 0 /\ object[Mapped(t)].scheduled
                THEN passed[t] + 1 ELSE 0]
           /\ taken' = x /\ dpc' = "receive"
  BY DEF NextStream, GotoD
<1>4. /\ ready' \in Seq(Streams) /\ x \in Streams
      /\ \A t : InLine(t) /\ t # x => InLine(t)'
  BY <1>1, <1>2, Left DEF InLine, Typed
<1>5. /\ object' \in [Objects -> DispatchStream]
      /\ \A p \in Objects : object'[p].queue = object[p].queue
      /\ \A p \in Objects : streams[x] = 0 \/ p # o => object'[p] = object[p]
      /\ streams[x] # 0 => o \in Objects /\ ~object'[o].scheduled
  <2>1. CASE streams[x] = 0
    BY <1>1, <1>3, <2>1 DEF Typed
  <2>2. CASE streams[x] # 0
    <3>1. o \in Objects /\ object \in [Objects -> DispatchStream]
      BY <1>1, <1>4, <2>2, ObjectsInUse DEF Typed
    <3>2. object' = UnscheduledIn(object, o)
      BY <1>3, <2>2 DEF UnscheduledIn
    <3> HIDE DEF o
    <3>3. QED
      BY <2>2, <3>1, <3>2, Unscheduled
  <2>3. QED
    BY <2>1, <2>2
<1>6. passed' \in [Streams -> Nat]
  <2>1. passed \in [Streams -> Nat]
    BY <1>1 DEF Typed
  <2>2. CASE streams[x] = 0
    BY <1>3, <2>1, <2>2
  <2>3. CASE streams[x] # 0
    <3> DEFINE f(t) == IF t # x /\ streams[t] # 0 /\ object[Mapped(t)].scheduled
                       THEN passed[t] + 1 ELSE 0
    <3>1. \A t \in Streams : f(t) \in Nat
      BY <2>1
    <3>2. passed' = [t \in Streams |-> f(t)]
      BY <1>3, <2>3
    <3> HIDE DEF f
    <3>3. QED
      BY <3>1, <3>2
  <2>4. QED
    BY <2>2, <2>3
<1>7. \/ taken' = taken /\ dpc' = dpc
      \/ streams[x] # 0 /\ taken' = x /\ dpc' = "receive"
  BY <1>3
<1>8. Typed'
  <2>1. \A p \in Objects : Len(object'[p].queue) <= Capacity
    BY <1>1, <1>5 DEF Typed
  <2>2. taken' \in Messages \cup Streams \cup {None}
        /\ dpc' \in {"next", "receive", "after", "empty", "send", "wait", "exit"}
    BY <1>1, <1>4, <1>7 DEF Typed
  <2>3. QED
    BY <1>1, <1>2, <1>4, <1>5, <1>6, <2>1, <2>2 DEF Typed
<1>9. CallsUnderWay' /\ InHand'
  BY <1>1, <1>2, <1>4, <1>7 DEF CallsUnderWay, InHand
<1>10. OwnMessages'
  BY <1>5 DEF DispatcherInv, OwnMessages
<1>11. ASSUME NEW s \in Streams, streams[s] # 0
       PROVE  /\ Mapped(s) \in Objects /\ Mapped(s)' = Mapped(s)
              /\ s # x => object'[Mapped(s)] = object[Mapped(s)]
              /\ s = x => ~object'[Mapped(s)].scheduled
  BY <1>1, <1>2, <1>5, <1>11, ObjectsInUse DEF Mapped
<1>12. ScheduledInLine'
  <2>1. SUFFICES ASSUME NEW s \in Streams, streams[s] # 0, object'[Mapped(s)].scheduled
                 PROVE  InLine(s)'
    BY <1>2, <1>11 DEF ScheduledInLine
  <2>2. s # x /\ object[Mapped(s)].scheduled
    BY <1>11, <2>1
  <2>3. QED
    BY <1>4, <2>1, <2>2 DEF DispatcherInv, ScheduledInLine
<1>13. NothingStranded'
  <2>1. SUFFICES ASSUME ~closed, NEW s \in Streams, streams[s] # 0,
                        object'[Mapped(s)].queue # <<>>
                 PROVE  LookedAfter(s)'
    BY <1>2, StrandedMeans DEF NothingStranded, LookedAfter, InLine, Mapped
  <2>2. \A v \in Writers : Held(v)' = Held(v) /\ wpc'[v] = wpc[v]
    BY <1>2 DEF Held
  <2>3. CASE s = x
    BY <1>7, <1>3, <2>1, <2>3 DEF LookedAfter
  <2>4. CASE s # x
    <3>1. object'[Mapped(s)] = object[Mapped(s)] /\ Mapped(s)' = Mapped(s)
      BY <1>11, <2>1, <2>4
    <3>2. LookedAfter(s)
      BY <2>1, <3>1, StrandedMeans DEF DispatcherInv
    <3>3. QED
      BY <1>2, <1>4, <2>2, <2>4, <3>1, <3>2 DEF LookedAfter
  <2>5. QED
    BY <2>3, <2>4
<1>14. QED
  BY <1>8, <1>9, <1>10, <1>12, <1>13 DEF DispatcherInv

\* The dispatcher takes a message of the stream whose turn it is, or finds none.
LEMMA ReceiveKeepsInv ==
  ASSUME DispatcherInv, Receive
  PROVE  DispatcherInv'
<1> USE DEF mvars, queues, shut, wvars, dvars, hist
<1> DEFINE o == Mapped(taken)
           q == object[o].queue
<1>1. Typed /\ CallsUnderWay /\ InHand
  BY DEF DispatcherInv
<1>2. /\ dpc = "receive"
      /\ UNCHANGED <<streams, ready, control, wake, closed, closeCh, wpc, held, calls, final,
                     accepted, sent, passed, requests>>
      /\ q = <<>> => dpc' = "empty" /\ UNCHANGED <<object, taken>>
      /\ q # <<>> => /\ object' = [object EXCEPT ![o].queue = Tail(q)]
                     /\ taken' = Head(q) /\ dpc' = "after"
  BY DEF Receive, GotoD
<1>3. /\ taken \in Streams /\ streams[taken] # 0 /\ o \in Objects /\ o[1] = taken
      /\ object \in [Objects -> DispatchStream]
  BY <1>1, <1>2, ObjectsInUse DEF InHand, Typed, Mapped
<1>4. \A s \in Streams : streams[s] # 0 =>
        Mapped(s) \in Objects /\ Mapped(s)' = Mapped(s) /\ (s # taken => Mapped(s) # o)
  BY <1>1, <1>2, ObjectsInUse DEF Mapped
<1>5. \A i \in 1..Len(q) : StreamOf[q[i][1]] = taken
  BY <1>3 DEF DispatcherInv, OwnMessages
<1>6. \A v \in Writers : Held(v)' = Held(v) /\ wpc'[v] = wpc[v]
  BY <1>2 DEF Held
<1> HIDE DEF o
<1>7. CASE q = <<>>
  <2>1. Typed'
    BY <1>1, <1>2, <1>7 DEF Typed
  <2>2. CallsUnderWay' /\ InHand' /\ OwnMessages' /\ ScheduledInLine'
    BY <1>1, <1>2, <1>3, <1>7
       DEF CallsUnderWay, InHand, DispatcherInv, OwnMessages, ScheduledInLine, InLine, Mapped
  <2>3. NothingStranded'
    <3>1. SUFFICES ASSUME ~closed, NEW s \in Streams, streams[s] # 0,
                          object[Mapped(s)].queue # <<>>
                   PROVE  LookedAfter(s)'
      BY <1>2, <1>7, StrandedMeans DEF NothingStranded, LookedAfter, InLine, Mapped
    <3>2. LookedAfter(s)
      BY <3>1, StrandedMeans DEF DispatcherInv
    <3>3. s # taken
      BY <1>7, <3>1 DEF o
    <3>4. QED
      BY <1>2, <1>4, <1>6, <1>7, <3>1, <3>2, <3>3 DEF LookedAfter, InLine
  <2>4. QED
    BY <2>1, <2>2, <2>3 DEF DispatcherInv
<1>8. CASE q # <<>>
  <2>1. object' = PoppedFrom(object, o)
    BY <1>2, <1>8 DEF PoppedFrom
  <2>2. /\ object' \in [Objects -> DispatchStream]
        /\ \A p \in Objects : p # o => object'[p] = object[p]
        /\ object'[o].scheduled = object[o].scheduled
        /\ Len(q) \in Nat \ {0} /\ Len(object'[o].queue) = Len(q) - 1
        /\ \A i \in 1..Len(object'[o].queue) : object'[o].queue[i] = q[i + 1]
        /\ Head(q) = q[1] /\ Head(q) \in Messages
    BY <1>3, <1>8, <2>1, Popped
  <2>3. /\ taken' = q[1] /\ taken' \in Messages /\ dpc' = "after"
        /\ StreamOf[taken'[1]] = taken
    BY <1>2, <1>5, <1>8, <2>2
  <2>4. Typed'
    <3>1. Capacity \in Nat /\ \A p \in Objects : Len(object[p].queue) <= Capacity
      BY <1>1, DispatcherAssumption DEF Typed
    <3>2. \A p \in Objects : Len(object'[p].queue) <= Capacity
      <4>1. TAKE p \in Objects
      <4>2. CASE p = o
        BY <1>3, <2>2, <3>1, <4>2
      <4>3. CASE p # o
        BY <2>2, <3>1, <4>3
      <4>4. QED
        BY <4>2, <4>3
    <3>3. QED
      BY <1>1, <1>2, <2>2, <2>3, <3>2 DEF Typed
  <2>5. CallsUnderWay' /\ InHand'
    BY <1>1, <1>2, <1>3, <2>3 DEF CallsUnderWay, InHand
  <2>6. OwnMessages'
    <3>1. SUFFICES ASSUME NEW p \in Objects, NEW i \in 1..Len(object'[p].queue)
                   PROVE  StreamOf[object'[p].queue[i][1]] = p[1]
      BY DEF OwnMessages
    <3>2. CASE p # o
      BY <2>2, <3>1, <3>2 DEF DispatcherInv, OwnMessages
    <3>3. CASE p = o
      <4>1. i + 1 \in 1..Len(q) /\ object'[p].queue[i] = q[i + 1]
        BY <2>2, <3>1, <3>3
      <4>2. QED
        BY <1>3, <1>5, <3>3, <4>1
    <3>4. QED
      BY <3>2, <3>3
  <2>7. ScheduledInLine'
    <3>1. \A p \in Objects : object'[p].scheduled = object[p].scheduled
      BY <2>2
    <3>2. QED
      BY <1>2, <1>4, <3>1 DEF DispatcherInv, ScheduledInLine, InLine
  <2>8. NothingStranded'
    <3>1. SUFFICES ASSUME ~closed, NEW s \in Streams, streams[s] # 0,
                          object'[Mapped(s)].queue # <<>>
                   PROVE  LookedAfter(s)'
      BY <1>2, StrandedMeans DEF NothingStranded, LookedAfter, InLine, Mapped
    <3>2. CASE s = taken
      BY <2>3, <3>2 DEF LookedAfter
    <3>3. CASE s # taken
      <4>1. object'[Mapped(s)] = object[Mapped(s)] /\ Mapped(s)' = Mapped(s)
        BY <1>4, <2>2, <3>1, <3>3
      <4>2. LookedAfter(s)
        BY <3>1, <4>1, StrandedMeans DEF DispatcherInv
      <4>3. QED
        BY <1>2, <1>6, <3>3, <4>1, <4>2 DEF LookedAfter, InLine
    <3>4. QED
      BY <3>2, <3>3
  <2>9. QED
    BY <2>4, <2>5, <2>6, <2>7, <2>8 DEF DispatcherInv
<1>9. QED
  BY <1>7, <1>8

\* A stream is deleted only when nothing is queued in it.
LEMMA Deleted ==
  ASSUME Typed, NEW s \in Streams, DeleteIfDrained(s)
  PROVE  /\ streams' \in [Streams -> Ids \cup {0}]
         /\ \A t \in Streams : streams'[t] # 0 => streams'[t] = streams[t]
         /\ \A t \in Streams : t # s => streams'[t] = streams[t]
BY DEF Typed, DeleteIfDrained

\* What a turn ends with: the line and the map follow the queue.
LEMMA TurnEndKeepsInv ==
  ASSUME DispatcherInv, NEW s \in Streams, DeleteIfDrained(s),
         UNCHANGED <<object, ready, wake, control, closed, closeCh, wvars, accepted, passed,
                     sent, requests>>,
         \/ dpc = "after" /\ StreamOf[taken[1]] = s /\ dpc' = "send" /\ taken' = taken
         \/ dpc = "empty" /\ taken = s /\ dpc' = "next" /\ taken' = None,
         dpc = "after" => object[Mapped(s)].queue = <<>> \/ object[Mapped(s)].scheduled
  PROVE  DispatcherInv'
<1> USE DEF wvars
<1>1. Typed /\ CallsUnderWay /\ InHand
  BY DEF DispatcherInv
<1>2. /\ streams' \in [Streams -> Ids \cup {0}]
      /\ \A t \in Streams : streams'[t] # 0 => streams'[t] = streams[t]
  BY <1>1, Deleted
<1>3. Typed'
  <2>1. taken' \in Messages \cup Streams \cup {None}
        /\ dpc' \in {"next", "receive", "after", "empty", "send", "wait", "exit"}
    BY <1>1 DEF Typed
  <2>2. QED
    BY <1>1, <1>2, <2>1 DEF Typed
<1>4. CallsUnderWay' /\ InHand' /\ OwnMessages'
  BY <1>1 DEF CallsUnderWay, InHand, DispatcherInv, OwnMessages
<1>5. ScheduledInLine'
  BY <1>2 DEF DispatcherInv, ScheduledInLine, InLine, Mapped
<1>6. NothingStranded'
  <2>1. SUFFICES ASSUME ~closed, NEW t \in Streams, streams'[t] # 0,
                        object[Mapped(t)'].queue # <<>>
                 PROVE  LookedAfter(t)'
    BY StrandedMeans DEF NothingStranded, LookedAfter, InLine, Mapped
  <2>2. streams[t] # 0 /\ Mapped(t)' = Mapped(t) /\ \A v \in Writers : Held(v)' = Held(v)
    BY <1>2, <2>1 DEF Mapped, Held
  <2>3. LookedAfter(t)
    BY <2>1, <2>2, StrandedMeans DEF DispatcherInv
  <2>4. dpc = "after" /\ t = s => object[Mapped(t)].scheduled /\ InLine(t)
    BY <2>1, <2>2 DEF DispatcherInv, ScheduledInLine
  <2>5. QED
    BY <2>2, <2>3, <2>4 DEF LookedAfter, InLine
<1>7. QED
  BY <1>3, <1>4, <1>5, <1>6 DEF DispatcherInv

\* afterEmptyStream.
LEMMA EmptyKeepsInv ==
  ASSUME DispatcherInv, Empty
  PROVE  DispatcherInv'
<1>1. taken \in Streams
  BY DEF Empty, DispatcherInv, InHand
<1>2. QED
  BY <1>1, TurnEndKeepsInv DEF Empty, GotoD, queues, shut, hist

\* afterStreamMessage.
LEMMA AfterKeepsInv ==
  ASSUME DispatcherInv, After
  PROVE  DispatcherInv'
<1> USE DEF queues, shut, wvars, hist
<1> DEFINE x == StreamOf[taken[1]]
           o == Mapped(x)
<1>1. Typed /\ CallsUnderWay /\ InHand
  BY DEF DispatcherInv
<1>2. /\ dpc = "after" /\ dpc' = "send"
      /\ UNCHANGED <<control, closed, closeCh, wpc, held, calls, final, taken, accepted, sent,
                     passed, requests>>
      /\ \/ /\ object[o].queue # <<>> /\ ~object[o].scheduled
            /\ object' = [object EXCEPT ![o].scheduled = TRUE, ![o].draining = @ \/ FALSE]
            /\ ready' = Append(ready, x) /\ wake' = TRUE /\ streams' = streams
         \/ /\ object[o].queue = <<>> \/ object[o].scheduled
            /\ DeleteIfDrained(x) /\ UNCHANGED <<object, ready, wake>>
  BY DEF After, GotoD, Schedule
<1>3. /\ x \in Streams /\ streams[x] # 0 /\ o \in Objects /\ o[1] = x
      /\ object \in [Objects -> DispatchStream] /\ ready \in Seq(Streams)
  <2>1. x \in Streams /\ streams[x] # 0
    BY <1>1, <1>2, DispatcherAssumption DEF InHand, Messages
  <2>2. QED
    BY <1>1, <2>1, ObjectsInUse DEF Typed, Mapped
<1>4. CASE DeleteIfDrained(x) /\ UNCHANGED <<object, ready, wake>>
           /\ (object[o].queue = <<>> \/ object[o].scheduled)
  BY <1>2, <1>3, <1>4, TurnEndKeepsInv
<1>5. CASE /\ object' = [object EXCEPT ![o].scheduled = TRUE, ![o].draining = @ \/ FALSE]
           /\ ready' = Append(ready, x) /\ wake' = TRUE /\ streams' = streams
  <2>1. PICK d \in BOOLEAN : /\ object' = ScheduledIn(object, o, d)
                             /\ o \in Objects /\ object \in [Objects -> DispatchStream]
    BY <1>3, <1>5 DEF ScheduledIn
  <2>2. \A s \in Streams : streams[s] # 0 =>
          /\ Mapped(s) \in Objects /\ Mapped(s)' = Mapped(s)
          /\ s # x => Mapped(s) # o
    BY <1>1, <1>3, <1>5, ObjectsInUse DEF Mapped
  <2> HIDE DEF o
  <2>3. /\ object' \in [Objects -> DispatchStream]
        /\ \A p \in Objects : p # o => object'[p] = object[p]
        /\ \A p \in Objects : object'[p].queue = object[p].queue
    BY <2>1, Scheduled
  <2> HIDE DEF x
  <2>4. /\ ready' \in Seq(Streams)
        /\ \A t : InLine(t)' <=> InLine(t) \/ t = x
    BY <1>3, <1>5, Joined DEF InLine
  <2>5. Typed'
    <3>1. \A p \in Objects : Len(object'[p].queue) <= Capacity
      BY <1>1, <2>3 DEF Typed
    <3>2. QED
      BY <1>1, <1>2, <1>5, <2>3, <2>4, <3>1 DEF Typed
  <2>6. CallsUnderWay' /\ InHand'
    BY <1>1, <1>2, <1>5 DEF CallsUnderWay, InHand
  <2>7. OwnMessages'
    BY <2>3 DEF DispatcherInv, OwnMessages
  <2>8. ScheduledInLine'
    <3>1. SUFFICES ASSUME NEW s \in Streams, streams[s] # 0, object'[Mapped(s)].scheduled
                   PROVE  InLine(s)'
      BY <1>5, <2>2 DEF ScheduledInLine
    <3>2. CASE s # x
      <4>1. object[Mapped(s)].scheduled
        BY <2>2, <2>3, <3>1, <3>2
      <4>2. QED
        BY <2>4, <3>1, <4>1 DEF DispatcherInv, ScheduledInLine
    <3>3. QED
      BY <2>4, <3>2
  <2>9. NothingStranded'
    <3>1. SUFFICES ASSUME ~closed, NEW s \in Streams, streams[s] # 0,
                          object'[Mapped(s)].queue # <<>>
                   PROVE  LookedAfter(s)'
      BY <1>2, <1>5, StrandedMeans DEF NothingStranded, LookedAfter, InLine, Mapped
    <3>2. object[Mapped(s)].queue # <<>> /\ Mapped(s)' = Mapped(s)
      BY <2>2, <2>3, <3>1
    <3>3. LookedAfter(s)
      BY <3>1, <3>2, StrandedMeans DEF DispatcherInv
    <3>4. \A v \in Writers : Held(v)' = Held(v) /\ wpc'[v] = wpc[v]
      BY <1>2 DEF Held
    <3>5. CASE s # x
      <4>1. object'[Mapped(s)] = object[Mapped(s)]
        BY <2>2, <2>3, <3>1, <3>5
      <4>2. QED
        BY <1>2, <2>4, <3>2, <3>3, <3>4, <3>5, <4>1 DEF LookedAfter, x
    <3>6. CASE s = x
      <4>1. object'[o].scheduled
        BY <2>1, Scheduled
      <4>2. QED
        BY <2>4, <3>2, <3>6, <4>1 DEF LookedAfter, o
    <3>7. QED
      BY <3>5, <3>6
  <2>10. QED
    BY <2>5, <2>6, <2>7, <2>8, <2>9 DEF DispatcherInv
<1>6. QED
  BY <1>2, <1>4, <1>5

-----------------------------------------------------------------------------
(* The theorems.                                                           *)

\* The invariant holds when the connection is accepted.
LEMMA InitInv == DispatcherInit => DispatcherInv
<1> SUFFICES ASSUME DispatcherInit PROVE DispatcherInv
  OBVIOUS
<1>1. /\ NewStream \in DispatchStream /\ NewStream.queue = <<>> /\ ~NewStream.scheduled
      /\ Len(NewStream.queue) = 0
  BY DEF NewStream, DispatchStream
<1>2. \A o \in Objects : object[o] = NewStream
  BY DEF DispatcherInit, Objects
<1>3. Typed
  <2>1. object \in [Objects -> DispatchStream]
    BY <1>1 DEF DispatcherInit, Objects
  <2>2. \A o \in Objects : Len(object[o].queue) <= Capacity
    BY <1>1, <1>2, DispatcherAssumption
  <2>3. ready \in Seq(Streams)
    BY EmptySeq DEF DispatcherInit
  <2>4. 0 \in 0..MaxCalls /\ 0 <= MaxControl
    BY DispatcherAssumption
  <2>5. /\ streams \in [Streams -> Ids \cup {0}] /\ held \in [Writers -> Ids \cup {0}]
        /\ calls \in [Writers -> 0..MaxCalls] /\ final \in [Writers -> BOOLEAN]
        /\ wpc \in [Writers -> {"idle", "push", "mark", "aborted", "stopped"}]
        /\ passed \in [Streams -> Nat]
    BY <2>4 DEF DispatcherInit
  <2>6. /\ control \in Nat /\ requests \in Nat /\ control <= requests
        /\ requests <= MaxControl /\ dpc = "next"
    BY <2>4 DEF DispatcherInit
  <2>7. /\ accepted \subseteq Messages /\ sent \subseteq Messages
        /\ taken \in Messages \cup Streams \cup {None}
    BY DEF DispatcherInit
  <2>8. closed \in BOOLEAN /\ closeCh \in BOOLEAN /\ wake \in BOOLEAN
    BY DEF DispatcherInit
  <2>9. QED
    BY <2>1, <2>2, <2>3, <2>5, <2>6, <2>7, <2>8 DEF Typed
<1>4. CallsUnderWay /\ InHand
  BY DEF DispatcherInit, CallsUnderWay, InHand, Busy
<1>5. OwnMessages /\ ScheduledInLine /\ NothingStranded
  BY <1>1, <1>2 DEF OwnMessages, ScheduledInLine, NothingStranded, DispatcherInit
<1>6. QED
  BY <1>3, <1>4, <1>5 DEF DispatcherInv

\* Every step keeps the invariant.
LEMMA NextInv == DispatcherInv /\ [DispatcherNext]_vars => DispatcherInv'
<1> SUFFICES ASSUME DispatcherInv, [DispatcherNext]_vars PROVE DispatcherInv'
  OBVIOUS
<1>1. CASE DispatcherStep
  BY <1>1, BetweenTurnsKeepsInv, NextStreamKeepsInv, ReceiveKeepsInv, AfterKeepsInv, EmptyKeepsInv
     DEF DispatcherStep
<1>2. ASSUME NEW w \in Writers, WriterStep(w) PROVE DispatcherInv'
  <2>1. ASSUME NEW last \in BOOLEAN, Enter(w, last) PROVE DispatcherInv'
    BY <2>1, EnterKeepsInv
  <2>2. CASE GiveUp(w) \/ PushCanceled(w) \/ PushClosed(w) \/ MarkClosed(w)
    BY <2>2, FailureKeepsInv
  <2>3. CASE Push(w)
    BY <2>3, PushKeepsInv
  <2>4. CASE Mark(w)
    BY <2>4, MarkKeepsInv
  <2>5. QED
    BY <1>2, <2>1, <2>2, <2>3, <2>4 DEF WriterStep
<1>3. CASE EnqueueControl \/ Close \/ Signal \/ UNCHANGED vars
  BY <1>3, BetweenTurnsKeepsInv
<1>4. QED
  BY <1>1, <1>2, <1>3 DEF DispatcherNext

\* The invariant of the dispatcher (pkg/api/dispatcher.go), for any number of goroutines
\* and streams, whatever the capacity of a queue.
THEOREM DispatcherInductive == DispatcherSpec => []DispatcherInv
<1>1. DispatcherInit => DispatcherInv
  BY InitInv
<1>2. DispatcherInv /\ [DispatcherNext]_vars => DispatcherInv'
  BY NextInv
<1>3. QED
  BY <1>1, <1>2, PTL DEF DispatcherSpec

\* Every variable has its type, and no queue exceeds its capacity.
THEOREM DispatcherTyped == DispatcherSpec => []DispatcherTypeOK
<1>1. DispatcherInv => DispatcherTypeOK
  <2> SUFFICES ASSUME Typed PROVE DispatcherTypeOK
    BY DEF DispatcherInv
  <2>1. ASSUME NEW o \in Streams \X Ids
        PROVE  /\ object[o].queue \in UNION {[1..n -> Messages] : n \in 0..Capacity}
               /\ {object[o].scheduled, object[o].draining} \subseteq BOOLEAN
    <3>1. object[o] \in DispatchStream /\ Len(object[o].queue) <= Capacity
      BY <2>1 DEF Typed, Objects
    <3> DEFINE q == object[o].queue
    <3>2. q \in Seq(Messages) /\ {object[o].scheduled, object[o].draining} \subseteq BOOLEAN
      BY <3>1 DEF DispatchStream
    <3>3. Len(q) \in 0..Capacity /\ q \in [1..Len(q) -> Messages]
      BY <3>1, <3>2, LenProperties, DispatcherAssumption
    <3> HIDE DEF q
    <3>4. q \in UNION {[1..n -> Messages] : n \in 0..Capacity}
      BY <3>3
    <3>5. QED
      BY <3>2, <3>4 DEF q
  <2>2. DOMAIN object = Streams \X Ids
    BY DEF Typed, Objects
  <2>3. \A i \in 1..Len(ready) : ready[i] \in Streams
    BY ElementOfSeq DEF Typed
  <2>4. {control, requests} \subseteq 0..MaxControl
    BY DispatcherAssumption DEF Typed
  <2>5. {closed, closeCh, wake} \subseteq BOOLEAN
    BY DEF Typed
  <2>6. QED
    BY <2>1, <2>2, <2>3, <2>4, <2>5 DEF Typed, DispatcherTypeOK
<1>2. QED
  BY <1>1, DispatcherInductive, PTL

\* A stream that is in the map with messages in its queue is never left out of the line:
\* the push without the lock and the two critical sections around it (EnqueueStream), and
\* the dispatcher's own look at the queue (afterStreamMessage), leave no gap.
THEOREM NothingStrandedHolds == DispatcherSpec => []NothingStranded
<1>1. DispatcherInv => NothingStranded
  BY DEF DispatcherInv
<1>2. QED
  BY <1>1, DispatcherInductive, PTL

-----------------------------------------------------------------------------
(***************************************************************************)
(* That the messages a goroutine enqueued are sent in order, and that none *)
(* is lost, proved from the invariant above.  The stream of a goroutine    *)
(* may be deleted and created again between two of its calls, so neither   *)
(* is a fact about one queue: both relate the queue in the map, the        *)
(* message in the dispatcher's hand and those on the connection, and the   *)
(* second also the object a call under way holds.                          *)
(***************************************************************************)

\* Where a message of a goroutine may be: sent, in the dispatcher's hand, or queued.
Sent(w, n) == <<w, n>> \in sent
Taken(w, n) == dpc \in {"after", "send"} /\ taken = <<w, n>>
Queue(w) == object[Mapped(StreamOf[w])].queue
QueuedAt(w, n, i) ==
  streams[StreamOf[w]] # 0 /\ i \in 1..Len(Queue(w)) /\ Queue(w)[i] = <<w, n>>

Queued(w, n) == \E i \in 1..Capacity : QueuedAt(w, n, i)

\* The current message of a goroutine is its last, and nowhere before it is pushed.
Numbered ==
  \A w \in Writers, n \in 1..MaxCalls :
    Sent(w, n) \/ Taken(w, n) \/ Queued(w, n) =>
      n <= calls[w] /\ (wpc[w] = "push" => n # calls[w])

\* Its messages are on the connection, in hand and in the queue in the order of its calls.
InTurn ==
  \A w \in Writers, n \in 1..MaxCalls, m \in 1..MaxCalls :
    /\ Sent(w, n) /\ Taken(w, m) => n < m
    /\ \A j \in 1..Capacity : QueuedAt(w, m, j) =>
         /\ Sent(w, n) \/ Taken(w, n) => n < m
         /\ \A i \in 1..Capacity : QueuedAt(w, n, i) /\ i < j => n < m

OrderInv == DispatcherInv /\ Numbered /\ InTurn

-----------------------------------------------------------------------------
(* What the steps that change an object do to its queue and its end.       *)

\* EnqueueStream's select.
LEMMA PushEffect ==
  ASSUME Typed, CallsUnderWay, NEW w \in Writers, Push(w)
  PROVE  LET o == Held(w)
             q == object[o].queue IN
         /\ o \in Objects /\ Current(w) \in Messages
         /\ \A p \in Objects : p # o => object'[p] = object[p]
         /\ object'[o].draining = object[o].draining
         /\ Len(q) \in Nat /\ Len(object'[o].queue) = Len(q) + 1
         /\ \A i \in 1..Len(q) : object'[o].queue[i] = q[i]
         /\ object'[o].queue[Len(q) + 1] = Current(w)
<1> DEFINE o == Held(w)
           m == Current(w)
<1>1. /\ o \in Objects /\ m \in Messages /\ object \in [Objects -> DispatchStream]
      /\ object' = PushedOnto(object, o, m)
  BY ObjectsInUse DEF Push, Busy, Typed, PushedOnto
<1> HIDE DEF o, m
<1>2. /\ \A p \in Objects : p # o => object'[p] = object[p]
      /\ object'[o].draining = object[o].draining
      /\ Len(object[o].queue) \in Nat /\ Len(object'[o].queue) = Len(object[o].queue) + 1
      /\ \A i \in 1..Len(object[o].queue) : object'[o].queue[i] = object[o].queue[i]
      /\ object'[o].queue[Len(object[o].queue) + 1] = m
  BY <1>1, Pushed
<1>3. QED
  BY <1>1, <1>2 DEF o, m

\* EnqueueStream's second critical section.
LEMMA MarkEffect ==
  ASSUME Typed, CallsUnderWay, NEW w \in Writers, Mark(w)
  PROVE  /\ \A o \in Objects : object'[o].queue = object[o].queue
         /\ \A o \in Objects : object'[o].draining =>
              object[o].draining \/ (o = Held(w) /\ final[w])
<1>1. /\ object' = ScheduledIn(object, Held(w), final[w])
      /\ Held(w) \in Objects /\ final[w] \in BOOLEAN /\ object \in [Objects -> DispatchStream]
  BY ObjectsInUse DEF Mark, Schedule, ScheduledIn, Busy, Typed
<1>2. /\ \A o \in Objects : o # Held(w) => object'[o] = object[o]
      /\ object'[Held(w)].draining = (object[Held(w)].draining \/ final[w])
      /\ \A o \in Objects : object'[o].queue = object[o].queue
  BY <1>1, Scheduled
<1>3. QED
  BY <1>2

\* The dispatcher takes a turn.
LEMMA NextStreamEffect ==
  ASSUME Typed, CallsUnderWay, NextStream
  PROVE  \A o \in Objects : /\ object'[o].queue = object[o].queue
                            /\ object'[o].draining = object[o].draining
<1> DEFINE p == Mapped(Head(ready))
<1>1. CASE streams[Head(ready)] = 0
  BY <1>1 DEF NextStream
<1>2. CASE streams[Head(ready)] # 0
  <2>1. Head(ready) \in Streams
    BY Left DEF NextStream, Typed
  <2>2. p \in Objects /\ object \in [Objects -> DispatchStream]
    BY <1>2, <2>1, ObjectsInUse DEF Typed
  <2>3. object' = UnscheduledIn(object, p)
    BY <1>2 DEF NextStream, UnscheduledIn
  <2> HIDE DEF p
  <2>4. /\ \A o \in Objects : o # p => object'[o] = object[o]
        /\ object'[p].draining = object[p].draining
        /\ \A o \in Objects : object'[o].queue = object[o].queue
    BY <2>2, <2>3, Unscheduled
  <2>5. QED
    BY <2>4
<1>3. QED
  BY <1>1, <1>2

\* The dispatcher takes a message.
LEMMA ReceiveEffect ==
  ASSUME Typed, CallsUnderWay, InHand, Receive
  PROVE  \A o \in Objects : object'[o].draining = object[o].draining
<1> DEFINE p == Mapped(taken)
<1>1. p \in Objects /\ object \in [Objects -> DispatchStream]
  BY ObjectsInUse DEF Receive, InHand, Typed
<1>2. CASE object[p].queue = <<>>
  BY <1>2 DEF Receive
<1>3. CASE object[p].queue # <<>>
  <2>1. object' = PoppedFrom(object, p)
    BY <1>3 DEF Receive, PoppedFrom
  <2> HIDE DEF p
  <2>2. /\ \A o \in Objects : o # p => object'[o] = object[o]
        /\ object'[p].draining = object[p].draining
    BY <1>1, <1>3, <2>1, Popped
  <2>3. QED
    BY <2>2
<1>4. QED
  BY <1>2, <1>3

\* The dispatcher puts the stream back in line, or deletes it.
LEMMA AfterEffect ==
  ASSUME Typed, CallsUnderWay, InHand, After
  PROVE  /\ StreamOf[taken[1]] \in Streams /\ streams[StreamOf[taken[1]]] # 0
         /\ streams' = streams \/ DeleteIfDrained(StreamOf[taken[1]])
         /\ \A o \in Objects : /\ object'[o].queue = object[o].queue
                                /\ object'[o].draining = object[o].draining
<1> DEFINE x == StreamOf[taken[1]]
           p == Mapped(x)
<1>1. x \in Streams /\ streams[x] # 0
  BY DispatcherAssumption DEF After, InHand, Messages
<1>2. p \in Objects /\ object \in [Objects -> DispatchStream]
  BY <1>1, ObjectsInUse DEF Typed
<1>3. CASE DeleteIfDrained(x) /\ object' = object
  BY <1>1, <1>3
<1>4. CASE streams' = streams
           /\ object' = [object EXCEPT ![p].scheduled = TRUE, ![p].draining = @ \/ FALSE]
  <2>1. PICK d \in BOOLEAN : ~d /\ object' = ScheduledIn(object, p, d)
    BY <1>4 DEF ScheduledIn
  <2> HIDE DEF p
  <2>2. /\ \A o \in Objects : o # p => object'[o] = object[o]
        /\ object'[p].draining = (object[p].draining \/ d)
        /\ \A o \in Objects : object'[o].queue = object[o].queue
    BY <1>2, <2>1, Scheduled
  <2>3. object[p].draining \in BOOLEAN
    BY <1>2, ObjectsInUse
  <2>4. object'[p].draining = object[p].draining
    BY <2>1, <2>2, <2>3
  <2>5. QED
    BY <1>1, <1>4, <2>2, <2>4
<1>5. QED
  BY <1>3, <1>4 DEF After, Schedule

-----------------------------------------------------------------------------
(* Every step keeps the order.                                             *)

\* A step after which messages are where they were, or gone, keeps the order.
LEMMA StillInOrder ==
  ASSUME OrderInv, DispatcherInv',
         \A w \in Writers, n \in 1..MaxCalls :
           /\ Sent(w, n)' => Sent(w, n)
           /\ Taken(w, n)' => Taken(w, n)
           /\ \A i \in 1..Capacity : QueuedAt(w, n, i)' => QueuedAt(w, n, i),
         \A w \in Writers : calls'[w] = calls[w] /\ (wpc'[w] = "push" => wpc[w] = "push")
  PROVE  OrderInv'
<1>1. Numbered'
  BY DEF OrderInv, Numbered, Queued
<1>2. InTurn'
  BY DEF OrderInv, InTurn
<1>3. QED
  BY <1>1, <1>2 DEF OrderInv

\* The queue of a stream that stays in the map, when the objects keep their queues.
LEMMA QueueKept ==
  ASSUME Typed, \A o \in Objects : object'[o].queue = object[o].queue,
         \A s \in Streams : streams'[s] # 0 => streams'[s] = streams[s],
         NEW w \in Writers, NEW n, NEW i, QueuedAt(w, n, i)'
  PROVE  QueuedAt(w, n, i)
<1>1. StreamOf[w] \in Streams /\ streams'[StreamOf[w]] # 0
  BY DispatcherAssumption DEF QueuedAt
<1>2. streams[StreamOf[w]] # 0 /\ Mapped(StreamOf[w])' = Mapped(StreamOf[w])
  BY <1>1 DEF Mapped
<1>3. Mapped(StreamOf[w]) \in Objects
  BY <1>1, <1>2 DEF Typed, Mapped, Objects
<1>4. Queue(w)' = Queue(w)
  BY <1>2, <1>3 DEF Queue
<1>5. QED
  BY <1>2, <1>4 DEF QueuedAt

\* Steps that move no message, but for the streams they delete.
LEMMA UnmovedKeepsOrder ==
  ASSUME OrderInv, DispatcherInv',
         \A o \in Objects : object'[o].queue = object[o].queue,
         \A s \in Streams : streams'[s] # 0 => streams'[s] = streams[s],
         sent' = sent, calls' = calls,
         \A w \in Writers : wpc'[w] = "push" => wpc[w] = "push",
         \A w \in Writers, n \in 1..MaxCalls : Taken(w, n)' => Taken(w, n)
  PROVE  OrderInv'
<1>1. Typed
  BY DEF OrderInv, DispatcherInv
<1>2. \A w \in Writers, n \in 1..MaxCalls, i \in 1..Capacity :
        QueuedAt(w, n, i)' => QueuedAt(w, n, i)
  BY <1>1, QueueKept
<1>3. \A w \in Writers, n \in 1..MaxCalls : Sent(w, n)' => Sent(w, n)
  BY DEF Sent
<1>4. QED
  BY <1>2, <1>3, StillInOrder

\* The dispatcher between two turns, and the control messages.
LEMMA QuietKeepsOrder ==
  ASSUME OrderInv, DispatcherInv',
         \/ EnqueueControl \/ NextControl \/ NextIdle \/ Wake \/ WaitEnds \/ SendFails
         \/ Close \/ Signal \/ UNCHANGED vars
  PROVE  OrderInv'
<1> USE DEF mvars, queues, shut, wvars, dvars, hist
<1>1. /\ UNCHANGED <<streams, object, wpc, calls, sent>>
      /\ \A w \in Writers, n \in 1..MaxCalls : Taken(w, n)' => Taken(w, n)
  <2>1. CASE EnqueueControl \/ Close \/ Signal \/ UNCHANGED vars
    BY <2>1 DEF EnqueueControl, Close, Signal, vars, Taken
  <2>2. CASE NextIdle \/ Wake \/ WaitEnds \/ SendFails
    BY <2>2 DEF NextIdle, Wake, WaitEnds, SendFails, GotoD, Taken
  <2>3. CASE NextControl
    BY <2>3, NothingAssumption DEF NextControl, Taken, Messages
  <2>4. QED
    BY <2>1, <2>2, <2>3
<1>2. QED
  BY <1>1, UnmovedKeepsOrder

\* The calls that fail, the second critical section, and the dispatcher's.
LEMMA ScheduleKeepsOrder ==
  ASSUME OrderInv, DispatcherInv', NEW w \in Writers,
         \/ GiveUp(w) \/ PushCanceled(w) \/ PushClosed(w) \/ MarkClosed(w) \/ Mark(w)
         \/ NextStream \/ After \/ Empty
  PROVE  OrderInv'
<1> USE DEF mvars, queues, shut, wvars, dvars, hist
<1>1. Typed /\ InHand /\ CallsUnderWay
  BY DEF OrderInv, DispatcherInv
<1>2. CASE GiveUp(w) \/ PushCanceled(w) \/ PushClosed(w) \/ MarkClosed(w)
  <2>1. /\ UNCHANGED <<streams, object, calls, sent, dpc, taken>>
        /\ \A v \in Writers : wpc'[v] = "push" => wpc[v] = "push"
    BY <1>1, <1>2 DEF GiveUp, PushCanceled, PushClosed, MarkClosed, Fail, GotoW, Typed
  <2>2. QED
    BY <2>1, UnmovedKeepsOrder DEF Taken
<1>3. CASE Mark(w)
  <2>1. /\ UNCHANGED <<streams, calls, sent, dpc, taken>>
        /\ \A v \in Writers : wpc'[v] = "push" => wpc[v] = "push"
    BY <1>1, <1>3 DEF Mark, Accept, GotoW, Typed
  <2>2. \A o \in Objects : object'[o].queue = object[o].queue
    BY <1>1, <1>3, MarkEffect
  <2>3. QED
    BY <2>1, <2>2, UnmovedKeepsOrder DEF Taken
<1>4. CASE NextStream
  <2>1. /\ dpc = "next" /\ UNCHANGED <<streams, calls, sent, wpc>>
        /\ dpc' = dpc \/ dpc' = "receive"
    BY <1>4 DEF NextStream, GotoD
  <2>2. \A o \in Objects : object'[o].queue = object[o].queue
    BY <1>1, <1>4, NextStreamEffect
  <2>3. QED
    BY <2>1, <2>2, UnmovedKeepsOrder DEF Taken
<1>5. CASE Empty
  <2>1. taken \in Streams /\ DeleteIfDrained(taken) /\ dpc' = "next"
        /\ UNCHANGED <<object, calls, sent, wpc>>
    BY <1>1, <1>5 DEF Empty, GotoD, InHand
  <2>2. \A s \in Streams : streams'[s] # 0 => streams'[s] = streams[s]
    BY <1>1, <2>1, Deleted
  <2>3. QED
    BY <2>1, <2>2, UnmovedKeepsOrder DEF Taken
<1>6. CASE After
  <2>1. dpc = "after" /\ UNCHANGED <<calls, sent, wpc, taken>>
    BY <1>6 DEF After
  <2>2. \A s \in Streams : streams'[s] # 0 => streams'[s] = streams[s]
    BY <1>1, <1>6, AfterEffect, Deleted
  <2>3. \A o \in Objects : object'[o].queue = object[o].queue
    BY <1>1, <1>6, AfterEffect
  <2>4. QED
    BY <2>1, <2>2, <2>3, UnmovedKeepsOrder DEF Taken
<1>7. QED
  BY <1>2, <1>3, <1>4, <1>5, <1>6

\* A new call gets the next number; a stream it adds to the map has an empty queue.
LEMMA EnterKeepsOrder ==
  ASSUME OrderInv, DispatcherInv', NEW w \in Writers, NEW last \in BOOLEAN, Enter(w, last)
  PROVE  OrderInv'
<1> USE DEF mvars, queues, shut, wvars, dvars, hist
<1>1. Typed /\ CallsUnderWay
  BY DEF OrderInv, DispatcherInv
<1>2. /\ wpc[w] # "push"
      /\ wpc' = [wpc EXCEPT ![w] = "push"] /\ calls' = [calls EXCEPT ![w] = @ + 1]
      /\ UNCHANGED <<dpc, taken, sent>>
  BY DEF Enter, GotoW
<1>3. /\ calls \in [Writers -> 0..MaxCalls] /\ MaxCalls \in Nat
      /\ calls'[w] = calls[w] + 1 /\ wpc'[w] = "push"
      /\ \A v \in Writers : v # w => calls'[v] = calls[v] /\ wpc'[v] = wpc[v]
  BY <1>1, <1>2, DispatcherAssumption DEF Typed
<1>4. \A v \in Writers, n \in 1..MaxCalls :
        /\ Sent(v, n)' <=> Sent(v, n)
        /\ Taken(v, n)' <=> Taken(v, n)
  BY <1>2 DEF Sent, Taken
<1>5. ASSUME NEW v \in Writers, NEW n \in 1..MaxCalls, NEW i \in 1..Capacity,
             QueuedAt(v, n, i)'
      PROVE  QueuedAt(v, n, i)
  <2> DEFINE s == StreamOf[w]
             t == StreamOf[v]
  <2>1. s \in Streams /\ t \in Streams /\ streams'[t] # 0 /\ Mapped(t)' = <<t, streams'[t]>>
    BY <1>5, DispatcherAssumption DEF QueuedAt, Mapped
  <2>2. CASE streams[s] # 0
    <3>1. UNCHANGED <<streams, object>>
      BY <1>1, <2>2, EnterEffect
    <3>2. QED
      BY <1>5, <3>1 DEF QueuedAt, Queue, Mapped
  <2>3. CASE streams[s] = 0 /\ t = s
    <3>1. object'[<<s, held'[w]>>] = NewStream /\ held'[w] = streams'[s]
      BY <1>1, <2>3, EnterEffect
    <3>2. Queue(v)' = <<>>
      BY <2>1, <2>3, <3>1 DEF Queue, NewStream
    <3>3. QED
      BY <1>5, <3>2 DEF QueuedAt
  <2>4. CASE streams[s] = 0 /\ t # s
    <3>1. /\ streams'[t] = streams[t]
          /\ \A o \in Objects : o # <<s, held'[w]>> => object'[o] = object[o]
      BY <1>1, <2>1, <2>4, EnterEffect
    <3>2. Mapped(t) \in Objects /\ Mapped(t)' = Mapped(t) /\ Mapped(t) # <<s, held'[w]>>
      BY <1>1, <2>1, <2>4, <3>1, ObjectsInUse DEF Mapped
    <3>3. Queue(v)' = Queue(v)
      BY <3>1, <3>2 DEF Queue
    <3>4. QED
      BY <1>5, <3>1, <3>3 DEF QueuedAt
  <2>5. QED
    BY <2>2, <2>3, <2>4
<1>6. Numbered'
  <2>1. SUFFICES ASSUME NEW v \in Writers, NEW n \in 1..MaxCalls,
                        Sent(v, n) \/ Taken(v, n) \/ Queued(v, n)
                 PROVE  n <= calls'[v] /\ (wpc'[v] = "push" => n # calls'[v])
    BY <1>4, <1>5 DEF Numbered, Queued
  <2>2. n <= calls[v] /\ (wpc[v] = "push" => n # calls[v])
    BY <2>1 DEF OrderInv, Numbered
  <2>3. CASE v = w
    <3>1. calls[w] \in Nat /\ n \in Nat
      BY <1>3
    <3>2. QED
      BY <1>3, <2>2, <2>3, <3>1
  <2>4. CASE v # w
    BY <1>3, <2>2, <2>4
  <2>5. QED
    BY <2>3, <2>4
<1>7. InTurn'
  BY <1>4, <1>5 DEF OrderInv, InTurn
<1>8. QED
  BY <1>6, <1>7 DEF OrderInv

\* A message is pushed behind the others of its writer.
LEMMA PushKeepsOrder ==
  ASSUME OrderInv, DispatcherInv', NEW w \in Writers, Push(w)
  PROVE  OrderInv'
<1> USE DEF mvars, queues, shut, wvars, dvars, hist
<1> DEFINE o == Held(w)
           q == object[o].queue
           m == Current(w)
<1>1. Typed /\ CallsUnderWay
  BY DEF OrderInv, DispatcherInv
<1>2. /\ wpc[w] = "push" /\ wpc' = [wpc EXCEPT ![w] = "mark"]
      /\ UNCHANGED <<streams, calls, sent, dpc, taken>>
  BY DEF Push, GotoW
<1>3. /\ wpc'[w] = "mark" /\ \A v \in Writers : v # w => wpc'[v] = wpc[v]
      /\ calls[w] \in 1..MaxCalls /\ calls[w] \in Nat
  BY <1>1, <1>2, DispatcherAssumption DEF Typed, CallsUnderWay, Busy
<1>4. m = <<w, calls[w]>> /\ o = <<StreamOf[w], held[w]>>
  BY DEF Held, Current
<1>5. /\ \A p \in Objects : p # o => object'[p] = object[p]
      /\ Len(q) \in Nat /\ Len(object'[o].queue) = Len(q) + 1
      /\ \A i \in 1..Len(q) : object'[o].queue[i] = q[i]
      /\ object'[o].queue[Len(q) + 1] = m
  BY <1>1, PushEffect
<1>6. \A v \in Writers, n \in 1..MaxCalls :
        /\ Sent(v, n)' <=> Sent(v, n)
        /\ Taken(v, n)' <=> Taken(v, n)
  BY <1>2 DEF Sent, Taken
<1>7. ASSUME NEW v \in Writers, NEW n \in 1..MaxCalls, NEW i \in 1..Capacity,
             QueuedAt(v, n, i)'
      PROVE  QueuedAt(v, n, i) \/ (v = w /\ n = calls[w] /\ i = Len(Queue(w)) + 1)
  <2> DEFINE p == Mapped(StreamOf[v])
  <2>1. streams[StreamOf[v]] # 0 /\ StreamOf[v] \in Streams /\ p' = p /\ p \in Objects
    BY <1>1, <1>2, <1>7, DispatcherAssumption, ObjectsInUse DEF QueuedAt, Mapped
  <2>2. CASE p # o
    <3>1. Queue(v)' = Queue(v)
      BY <1>5, <2>1, <2>2 DEF Queue
    <3>2. QED
      BY <1>7, <2>1, <3>1 DEF QueuedAt
  <2>3. CASE p = o
    <3>1. StreamOf[v] = StreamOf[w] /\ Queue(v) = q /\ Queue(w) = q /\ Queue(v)' = object'[o].queue
      BY <1>4, <2>1, <2>3 DEF Queue, Mapped
    <3>2. i \in 1..(Len(q) + 1) /\ object'[o].queue[i] = <<v, n>>
      BY <1>5, <1>7, <3>1 DEF QueuedAt
    <3>3. CASE i \in 1..Len(q)
      BY <1>5, <2>1, <3>1, <3>2, <3>3 DEF QueuedAt
    <3>4. CASE i = Len(q) + 1
      <4>1. <<v, n>> = m /\ m = <<w, calls[w]>>
        BY <1>4, <1>5, <3>2, <3>4
      <4>2. v = w /\ n = calls[w]
        BY <4>1
      <4>3. QED
        BY <3>1, <3>4, <4>2
    <3>5. QED
      BY <1>5, <3>2, <3>3, <3>4
  <2>4. QED
    BY <2>2, <2>3
<1>8. \A n \in 1..MaxCalls : Sent(w, n) \/ Taken(w, n) \/ Queued(w, n) => n < calls[w]
  BY <1>2, <1>3 DEF OrderInv, Numbered
<1>9. Numbered'
  <2>1. SUFFICES ASSUME NEW v \in Writers, NEW n \in 1..MaxCalls,
                        Sent(v, n)' \/ Taken(v, n)' \/ Queued(v, n)'
                 PROVE  n <= calls[v] /\ (wpc'[v] = "push" => n # calls[v])
    BY <1>2 DEF Numbered
  <2>2. Sent(v, n) \/ Taken(v, n) \/ Queued(v, n) \/ (v = w /\ n = calls[w])
    BY <1>6, <1>7, <2>1 DEF Queued
  <2>3. CASE v = w
    BY <1>3, <1>8, <2>2, <2>3
  <2>4. CASE v # w
    BY <1>3, <2>2, <2>4 DEF OrderInv, Numbered
  <2>5. QED
    BY <2>3, <2>4
<1>10. InTurn'
  <2>1. SUFFICES ASSUME NEW v \in Writers, NEW n \in 1..MaxCalls, NEW k \in 1..MaxCalls
                 PROVE  /\ Sent(v, n)' /\ Taken(v, k)' => n < k
                        /\ \A j \in 1..Capacity : QueuedAt(v, k, j)' =>
                             /\ Sent(v, n)' \/ Taken(v, n)' => n < k
                             /\ \A i \in 1..Capacity : QueuedAt(v, n, i)' /\ i < j => n < k
    BY DEF InTurn
  <2>2. Sent(v, n) /\ Taken(v, k) => n < k
    BY DEF OrderInv, InTurn
  <2>3. ASSUME NEW j \in 1..Capacity, QueuedAt(v, k, j)'
        PROVE  /\ Sent(v, n) \/ Taken(v, n) => n < k
               /\ \A i \in 1..Capacity : QueuedAt(v, n, i)' /\ i < j => n < k
    <3>1. CASE QueuedAt(v, k, j)
      <4>1. /\ Sent(v, n) \/ Taken(v, n) => n < k
            /\ \A i \in 1..Capacity : QueuedAt(v, n, i) /\ i < j => n < k
        BY <3>1 DEF OrderInv, InTurn
      <4>2. j <= Len(Queue(v)) /\ Len(Queue(v)) \in Nat
        BY <1>1, <3>1, DispatcherAssumption, ObjectsInUse, LenProperties DEF QueuedAt, Queue
      <4>3. ASSUME NEW i \in 1..Capacity, QueuedAt(v, n, i)', i < j
            PROVE  QueuedAt(v, n, i)
        BY <1>7, <4>2, <4>3
      <4>4. QED
        BY <4>1, <4>3
    <3>2. CASE v = w /\ k = calls[w] /\ j = Len(Queue(w)) + 1
      <4>1. \A i \in 1..Capacity : QueuedAt(v, n, i)' /\ i < j => QueuedAt(w, n, i)
        BY <1>7, <3>2
      <4>2. QED
        BY <1>8, <3>2, <4>1 DEF Queued
    <3>3. QED
      BY <1>7, <2>3, <3>1, <3>2
  <2>4. QED
    BY <1>6, <2>2, <2>3
<1>11. QED
  BY <1>9, <1>10 DEF OrderInv

\* The message received is the first of its queue, and nothing was in hand before.
LEMMA ReceiveKeepsOrder ==
  ASSUME OrderInv, DispatcherInv', Receive
  PROVE  OrderInv'
<1> USE DEF mvars, queues, shut, wvars, dvars, hist
<1> DEFINE o == Mapped(taken)
           q == object[o].queue
<1>1. Typed /\ CallsUnderWay /\ InHand
  BY DEF OrderInv, DispatcherInv
<1>2. /\ dpc = "receive" /\ UNCHANGED <<streams, wpc, calls, sent>>
      /\ \A v \in Writers, n \in 1..MaxCalls : ~Taken(v, n) /\ (Sent(v, n)' <=> Sent(v, n))
  BY DEF Receive, Taken, Sent
<1>3. /\ taken \in Streams /\ streams[taken] # 0 /\ o \in Objects /\ o[1] = taken
      /\ object \in [Objects -> DispatchStream]
  BY <1>1, <1>2, ObjectsInUse DEF InHand, Typed, Mapped
<1>4. CASE q = <<>>
  <2>1. object' = object /\ dpc' = "empty"
    BY <1>4 DEF Receive, GotoD
  <2>2. QED
    BY <1>2, <2>1, UnmovedKeepsOrder DEF Taken
<1>5. CASE q # <<>>
  <2>1. object' = PoppedFrom(object, o) /\ taken' = Head(q) /\ dpc' = "after"
    BY <1>5 DEF Receive, GotoD, PoppedFrom
  <2>2. /\ \A p \in Objects : p # o => object'[p] = object[p]
        /\ Len(q) \in Nat \ {0} /\ Len(object'[o].queue) = Len(q) - 1
        /\ \A i \in 1..Len(object'[o].queue) : object'[o].queue[i] = q[i + 1]
        /\ Head(q) = q[1] /\ Head(q) \in Messages
    <3> HIDE DEF o
    <3>1. QED
      BY <1>3, <1>5, <2>1, Popped
  <2>3. /\ Capacity \in Nat /\ 1 \in 1..Capacity /\ Len(q) <= Capacity
        /\ StreamOf[q[1][1]] = taken
    <3>1. Capacity \in Nat \ {0} /\ Len(q) <= Capacity
      BY <1>1, <1>3, DispatcherAssumption DEF Typed
    <3>2. \A i \in 1..Len(q) : StreamOf[q[i][1]] = o[1]
      BY <1>3 DEF OrderInv, DispatcherInv, OwnMessages
    <3>3. 1 \in 1..Len(q)
      BY <2>2
    <3>4. QED
      BY <1>3, <3>1, <3>2, <3>3
  <2>4. ASSUME NEW v \in Writers, NEW n \in 1..MaxCalls, Taken(v, n)'
        PROVE  StreamOf[v] = taken /\ QueuedAt(v, n, 1)
    <3>1. q[1] = <<v, n>>
      BY <2>1, <2>2, <2>4 DEF Taken
    <3>2. StreamOf[v] = taken
      BY <2>3, <3>1
    <3>3. QED
      BY <1>3, <2>2, <3>1, <3>2 DEF QueuedAt, Queue
  <2>5. ASSUME NEW v \in Writers, NEW n \in 1..MaxCalls, NEW i \in 1..Capacity,
               QueuedAt(v, n, i)'
        PROVE  IF StreamOf[v] = taken THEN i + 1 \in 1..Capacity /\ QueuedAt(v, n, i + 1)
                                      ELSE QueuedAt(v, n, i)
    <3>1. /\ streams[StreamOf[v]] # 0 /\ StreamOf[v] \in Streams
          /\ Mapped(StreamOf[v])' = Mapped(StreamOf[v]) /\ Mapped(StreamOf[v]) \in Objects
      BY <1>1, <1>2, <2>5, DispatcherAssumption, ObjectsInUse DEF QueuedAt, Mapped
    <3>2. CASE StreamOf[v] = taken
      <4>1. Queue(v)' = object'[o].queue /\ Queue(v) = q
        BY <3>1, <3>2 DEF Queue
      <4>2. i \in 1..Len(object'[o].queue) /\ object'[o].queue[i] = <<v, n>>
        BY <2>5, <4>1 DEF QueuedAt
      <4>3. i + 1 \in 1..Len(q) /\ q[i + 1] = <<v, n>>
        BY <2>2, <4>2
      <4>4. QED
        BY <2>2, <2>3, <3>1, <3>2, <4>1, <4>3 DEF QueuedAt
    <3>3. CASE StreamOf[v] # taken
      <4>1. Mapped(StreamOf[v]) # o
        BY <1>3, <3>3 DEF Mapped
      <4>2. Queue(v)' = Queue(v)
        BY <2>2, <3>1, <4>1 DEF Queue
      <4>3. QED
        BY <2>5, <3>1, <3>3, <4>2 DEF QueuedAt
    <3>4. QED
      BY <3>2, <3>3
  <2>6. \A v \in Writers, n \in 1..MaxCalls :
          Sent(v, n)' \/ Taken(v, n)' \/ Queued(v, n)' => Sent(v, n) \/ Queued(v, n)
    BY <1>2, <2>3, <2>4, <2>5 DEF Queued
  <2>7. Numbered'
    BY <1>2, <2>6 DEF OrderInv, Numbered
  <2>8. InTurn'
    <3>1. SUFFICES ASSUME NEW v \in Writers, NEW n \in 1..MaxCalls, NEW k \in 1..MaxCalls
                   PROVE  /\ Sent(v, n)' /\ Taken(v, k)' => n < k
                          /\ \A j \in 1..Capacity : QueuedAt(v, k, j)' =>
                               /\ Sent(v, n)' \/ Taken(v, n)' => n < k
                               /\ \A i \in 1..Capacity : QueuedAt(v, n, i)' /\ i < j => n < k
      BY DEF InTurn
    <3>2. \A j \in 1..Capacity : QueuedAt(v, k, j) =>
            /\ Sent(v, n) => n < k
            /\ \A i \in 1..Capacity : QueuedAt(v, n, i) /\ i < j => n < k
      BY DEF OrderInv, InTurn
    <3>3. Sent(v, n)' /\ Taken(v, k)' => n < k
      BY <1>2, <2>3, <2>4, <3>2
    <3>4. ASSUME NEW j \in 1..Capacity, QueuedAt(v, k, j)'
          PROVE  /\ Sent(v, n)' \/ Taken(v, n)' => n < k
                 /\ \A i \in 1..Capacity : QueuedAt(v, n, i)' /\ i < j => n < k
      <4>1. CASE StreamOf[v] = taken
        <5>1. j + 1 \in 1..Capacity /\ QueuedAt(v, k, j + 1) /\ 1 < j + 1
          BY <2>5, <3>4, <4>1
        <5>2. Sent(v, n)' => n < k
          BY <1>2, <3>2, <5>1
        <5>3. Taken(v, n)' => n < k
          BY <2>3, <2>4, <3>2, <5>1
        <5>4. ASSUME NEW i \in 1..Capacity, QueuedAt(v, n, i)', i < j
              PROVE  n < k
          <6>1. i + 1 \in 1..Capacity /\ QueuedAt(v, n, i + 1) /\ i + 1 < j + 1
            BY <2>3, <2>5, <4>1, <5>4
          <6>2. QED
            BY <3>2, <5>1, <6>1
        <5>5. QED
          BY <5>2, <5>3, <5>4
      <4>2. CASE StreamOf[v] # taken
        BY <1>2, <2>4, <2>5, <3>2, <3>4, <4>2
      <4>3. QED
        BY <4>1, <4>2
    <3>5. QED
      BY <3>3, <3>4
  <2>9. QED
    BY <2>7, <2>8 DEF OrderInv
<1>6. QED
  BY <1>4, <1>5

\* The message in hand is sent.
LEMMA SendKeepsOrder ==
  ASSUME OrderInv, DispatcherInv', Send
  PROVE  OrderInv'
<1> USE DEF mvars, queues, shut, wvars, dvars, hist
<1>1. /\ dpc = "send" /\ dpc' = "next" /\ sent' = sent \cup ({taken} \ {None})
      /\ UNCHANGED <<streams, object, wpc, calls>>
  BY DEF Send, GotoD
<1>2. ASSUME NEW v \in Writers, NEW n \in 1..MaxCalls
      PROVE  /\ ~Taken(v, n)'
             /\ Sent(v, n)' => Sent(v, n) \/ Taken(v, n)
             /\ \A i \in 1..Capacity : QueuedAt(v, n, i)' <=> QueuedAt(v, n, i)
  <2>1. ~Taken(v, n)' /\ (Sent(v, n)' => Sent(v, n) \/ Taken(v, n))
    BY <1>1 DEF Taken, Sent
  <2>2. \A i \in 1..Capacity : QueuedAt(v, n, i)' <=> QueuedAt(v, n, i)
    BY <1>1 DEF QueuedAt, Queue, Mapped
  <2>3. QED
    BY <2>1, <2>2
<1>3. Numbered'
  BY <1>1, <1>2 DEF OrderInv, Numbered, Queued
<1>4. InTurn'
  BY <1>2 DEF OrderInv, InTurn
<1>5. QED
  BY <1>3, <1>4 DEF OrderInv

-----------------------------------------------------------------------------
(* The theorems.                                                           *)

\* At the start there is no message.
LEMMA InitOrder == DispatcherInit => OrderInv
<1> SUFFICES ASSUME DispatcherInit PROVE OrderInv
  OBVIOUS
<1>1. \A w \in Writers, n \in 1..MaxCalls :
        /\ ~Sent(w, n) /\ ~Taken(w, n)
        /\ \A i \in 1..Capacity : ~QueuedAt(w, n, i)
  BY DispatcherAssumption DEF DispatcherInit, Sent, Taken, QueuedAt
<1>2. QED
  BY <1>1, InitInv DEF OrderInv, Numbered, InTurn, Queued

\* Every step keeps the order.
LEMMA NextOrder == OrderInv /\ [DispatcherNext]_vars => OrderInv'
<1> SUFFICES ASSUME OrderInv, [DispatcherNext]_vars PROVE OrderInv'
  OBVIOUS
<1>1. DispatcherInv'
  BY NextInv DEF OrderInv
<1>2. CASE DispatcherStep
  <2>1. CASE NextControl \/ NextIdle \/ Wake \/ WaitEnds \/ SendFails
    BY <1>1, <2>1, QuietKeepsOrder
  <2>2. CASE NextStream \/ After \/ Empty
    <3>1. CASE Writers = {}
      BY <1>1, <3>1 DEF OrderInv, Numbered, InTurn
    <3>2. CASE Writers # {}
      BY <1>1, <2>2, <3>2, ScheduleKeepsOrder
    <3>3. QED
      BY <3>1, <3>2
  <2>3. CASE Receive \/ Send
    BY <1>1, <2>3, ReceiveKeepsOrder, SendKeepsOrder
  <2>4. QED
    BY <1>2, <2>1, <2>2, <2>3 DEF DispatcherStep
<1>3. ASSUME NEW w \in Writers, WriterStep(w) PROVE OrderInv'
  <2>1. ASSUME NEW last \in BOOLEAN, Enter(w, last) PROVE OrderInv'
    BY <1>1, <2>1, EnterKeepsOrder
  <2>2. CASE GiveUp(w) \/ PushCanceled(w) \/ PushClosed(w) \/ MarkClosed(w) \/ Mark(w)
    BY <1>1, <2>2, ScheduleKeepsOrder
  <2>3. CASE Push(w)
    BY <1>1, <2>3, PushKeepsOrder
  <2>4. QED
    BY <1>3, <2>1, <2>2, <2>3 DEF WriterStep
<1>4. CASE EnqueueControl \/ Close \/ Signal \/ UNCHANGED vars
  BY <1>1, <1>4, QuietKeepsOrder
<1>5. QED
  BY <1>2, <1>3, <1>4 DEF DispatcherNext

\* The invariant holds in every reachable state.
LEMMA OrderInductive == DispatcherSpec => []OrderInv
<1>1. DispatcherInit => OrderInv
  BY InitOrder
<1>2. OrderInv /\ [DispatcherNext]_vars => OrderInv'
  BY NextOrder
<1>3. QED
  BY <1>1, <1>2, PTL DEF DispatcherSpec

\* The messages of a goroutine are sent in the order it enqueued them, whatever becomes of
\* the stream between two calls (EnqueueStream, run): for any number of goroutines, of
\* calls and of streams, and any capacity of a queue.
THEOREM InOrderHolds == DispatcherSpec => InOrder
<1>1. OrderInv /\ [DispatcherNext]_vars =>
        \A w \in Writers : \A m, n \in 1..MaxCalls :
          <<w, n>> \in sent' \ sent /\ m > n => <<w, m>> \notin sent
  <2> SUFFICES ASSUME OrderInv, [DispatcherNext]_vars, NEW w \in Writers,
                      NEW m \in 1..MaxCalls, NEW n \in 1..MaxCalls,
                      <<w, n>> \in sent', <<w, n>> \notin sent, m > n, <<w, m>> \in sent
               PROVE  FALSE
    OBVIOUS
  <2>1. sent' # sent
    OBVIOUS
  <2>2. Send
    BY <2>1
       DEF DispatcherNext, DispatcherStep, WriterStep, vars, hist, queues, shut, wvars, dvars,
           mvars, NextControl, NextStream, NextIdle, Wake, WaitEnds, Receive, After, Empty,
           SendFails, Enter, GiveUp, Push, PushCanceled, PushClosed, Mark, MarkClosed,
           EnqueueControl, Close, Signal
  <2>3. Taken(w, n) /\ Sent(w, m)
    BY <2>2 DEF Send, Taken, Sent
  <2>4. m < n
    BY <2>3 DEF OrderInv, InTurn
  <2>5. QED
    BY <2>4
<1>2. QED
  BY <1>1, OrderInductive, PTL DEF DispatcherSpec, InOrder

-----------------------------------------------------------------------------
(* No message is lost, but to another goroutine's final message.           *)

\* Another goroutine's final message of the same stream has been accepted.
Overtaken(w) ==
  \E v \in Writers \ {w} :
    StreamOf[v] = StreamOf[w] /\ final[v] /\ Current(v) \in accepted

\* A message is accepted at the end of its call.
AcceptedInTurn ==
  \A w \in Writers, n \in 1..MaxCalls :
    <<w, n>> \in accepted => n <= calls[w] /\ (wpc[w] \in Busy => n # calls[w])

\* The goroutine whose final message is accepted does nothing after it.
FinalStops ==
  \A w \in Writers : final[w] /\ Current(w) \in accepted => wpc[w] = "stopped"

\* A stream drains because a final message was accepted.
DrainingIsFinal ==
  \A s \in Streams : streams[s] # 0 /\ object[Mapped(s)].draining =>
    \E v \in Writers : StreamOf[v] = s /\ final[v] /\ Current(v) \in accepted

\* The object a call holds is the one in the map, unless it was deleted meanwhile.
HeldIsMapped ==
  \A w \in Writers : wpc[w] = "push" => held[w] = streams[StreamOf[w]] \/ Overtaken(w)

\* What was pushed is on its way before the second critical section.
MarkedOnItsWay ==
  ~closed => \A w \in Writers : wpc[w] = "mark" => OnItsWay(Current(w)) \/ Overtaken(w)

LossInv ==
  AcceptedInTurn /\ FinalStops /\ DrainingIsFinal /\ HeldIsMapped /\ MarkedOnItsWay
    /\ LostAfterFinal

\* LostAfterFinal in the terms of the invariant.
LEMMA LostMeans ==
  LostAfterFinal <=> (~closed => \A m \in accepted : OnItsWay(m) \/ Overtaken(m[1]))
BY DEF LostAfterFinal, Overtaken

-----------------------------------------------------------------------------
(* A message on its way stays there until it is sent.                      *)

\* Steps that leave the queues, but for the empty ones they delete.
LEMMA UnmovedStays ==
  ASSUME Typed, NEW m, OnItsWay(m), sent' = sent,
         dpc \in {"after", "send"} => dpc' \in {"after", "send"} /\ taken' = taken,
         \A s \in Streams : streams[s] # 0 /\ object[Mapped(s)].queue # <<>> =>
           streams'[s] # 0 /\ object'[Mapped(s)'].queue = object[Mapped(s)].queue
  PROVE  OnItsWay(m)'
<1>1. CASE InQueue(m)
  <2>1. PICK s \in Streams : streams[s] # 0 /\
          \E i \in 1..Len(object[Mapped(s)].queue) : object[Mapped(s)].queue[i] = m
    BY <1>1 DEF InQueue
  <2>2. Mapped(s) \in Objects /\ object[Mapped(s)].queue \in Seq(Messages)
    BY <2>1 DEF Typed, Mapped, Objects, DispatchStream
  <2>3. object[Mapped(s)].queue # <<>>
    <3>1. Len(object[Mapped(s)].queue) # 0
      BY <2>1, <2>2, LenProperties
    <3>2. QED
      BY <2>2, <3>1, EmptySeq
  <2>4. QED
    BY <2>1, <2>3 DEF InQueue, OnItsWay
<1>2. CASE m \in sent \/ (dpc \in {"after", "send"} /\ taken = m)
  BY <1>2 DEF OnItsWay
<1>3. QED
  BY <1>1, <1>2 DEF OnItsWay

\* Every step but Push, Receive and Send.
LEMMA OtherStays ==
  ASSUME DispatcherInv, NEW m, OnItsWay(m),
         \/ EnqueueControl \/ NextControl \/ NextStream \/ NextIdle \/ Wake \/ WaitEnds \/ After
         \/ Empty \/ Close \/ Signal
  PROVE  OnItsWay(m)'
<1> USE DEF mvars, queues, shut, wvars, dvars, hist
<1>1. Typed /\ InHand /\ CallsUnderWay
  BY DEF DispatcherInv
<1>2. CASE EnqueueControl \/ Close \/ Signal
  <2>1. UNCHANGED <<streams, object, sent, dpc, taken>>
    BY <1>2 DEF EnqueueControl, Close, Signal
  <2>2. QED
    BY <1>1, <2>1, UnmovedStays DEF Mapped
<1>3. CASE NextControl \/ NextIdle \/ Wake \/ WaitEnds
  <2>1. UNCHANGED <<streams, object, sent>> /\ dpc \in {"next", "wait"}
    BY <1>3 DEF NextControl, NextIdle, Wake, WaitEnds
  <2>2. QED
    BY <1>1, <2>1, UnmovedStays DEF Mapped
<1>4. CASE NextStream
  <2>1. streams' = streams /\ sent' = sent /\ dpc = "next"
    BY <1>4 DEF NextStream
  <2>2. \A o \in Objects : object'[o].queue = object[o].queue
    BY <1>1, <1>4, NextStreamEffect
  <2>3. \A s \in Streams : streams[s] # 0 => Mapped(s) \in Objects /\ Mapped(s)' = Mapped(s)
    BY <1>1, <2>1, ObjectsInUse DEF Mapped
  <2>4. QED
    BY <1>1, <2>1, <2>2, <2>3, UnmovedStays
<1>5. CASE Empty
  <2>1. /\ taken \in Streams /\ DeleteIfDrained(taken) /\ dpc = "empty"
        /\ UNCHANGED <<object, sent>>
    BY <1>1, <1>5 DEF Empty, InHand
  <2>2. \A s \in Streams : streams[s] # 0 /\ object[Mapped(s)].queue # <<>> =>
          streams'[s] = streams[s]
    BY <1>1, <2>1 DEF DeleteIfDrained, Typed
  <2>3. QED
    BY <1>1, <2>1, <2>2, UnmovedStays DEF Mapped
<1>6. CASE After
  <2>1. /\ dpc = "after" /\ dpc' = "send" /\ taken' = taken /\ sent' = sent
        /\ StreamOf[taken[1]] \in Streams
    BY <1>1, <1>6, DispatcherAssumption DEF After, GotoD, InHand, Messages
  <2>2. CASE streams' = streams
    <3>1. \A o \in Objects : object'[o].queue = object[o].queue
      BY <1>1, <1>6, AfterEffect
    <3>2. \A s \in Streams : streams[s] # 0 => Mapped(s) \in Objects /\ Mapped(s)' = Mapped(s)
      BY <1>1, <2>2, ObjectsInUse DEF Mapped
    <3>3. QED
      BY <1>1, <2>1, <2>2, <3>1, <3>2, UnmovedStays
  <2>3. CASE DeleteIfDrained(StreamOf[taken[1]]) /\ object' = object
    <3>1. \A s \in Streams : streams[s] # 0 /\ object[Mapped(s)].queue # <<>> =>
            streams'[s] = streams[s]
      BY <1>1, <2>1, <2>3 DEF DeleteIfDrained, Typed
    <3>2. QED
      BY <1>1, <2>1, <2>3, <3>1, UnmovedStays DEF Mapped
  <2>4. QED
    BY <1>6, <2>2, <2>3 DEF After
<1>7. QED
  BY <1>2, <1>3, <1>4, <1>5, <1>6

\* Push, at the other end of a queue.
LEMMA PushStays ==
  ASSUME DispatcherInv, NEW w \in Writers, Push(w), NEW m, OnItsWay(m)
  PROVE  OnItsWay(m)'
<1> USE DEF mvars, queues, shut, wvars, dvars, hist
<1>1. Typed /\ CallsUnderWay
  BY DEF DispatcherInv
<1>2. UNCHANGED <<streams, sent, dpc, taken>>
  BY DEF Push
<1>3. CASE InQueue(m)
  <2>1. PICK s \in Streams, i \in Nat :
          streams[s] # 0 /\ i \in 1..Len(object[Mapped(s)].queue) /\ object[Mapped(s)].queue[i] = m
    BY <1>3 DEF InQueue
  <2>2. Mapped(s) \in Objects /\ Mapped(s)' = Mapped(s)
    BY <1>1, <1>2, <2>1, ObjectsInUse DEF Mapped
  <2>3. i \in 1..Len(object'[Mapped(s)].queue) /\ object'[Mapped(s)].queue[i] = m
    <3>1. CASE Mapped(s) # Held(w)
      BY <1>1, <2>1, <2>2, <3>1, PushEffect
    <3>2. CASE Mapped(s) = Held(w)
      BY <1>1, <2>1, <2>2, <3>2, PushEffect
    <3>3. QED
      BY <3>1, <3>2
  <2>4. QED
    BY <1>2, <2>1, <2>2, <2>3 DEF InQueue, OnItsWay
<1>4. QED
  BY <1>2, <1>3 DEF OnItsWay

\* A message received is in hand.
LEMMA ReceiveStays ==
  ASSUME DispatcherInv, Receive, NEW m, OnItsWay(m)
  PROVE  OnItsWay(m)'
<1> USE DEF mvars, queues, shut, wvars, dvars, hist
<1> DEFINE o == Mapped(taken)
           q == object[o].queue
<1>1. Typed /\ CallsUnderWay /\ InHand
  BY DEF DispatcherInv
<1>2. dpc = "receive" /\ UNCHANGED <<streams, sent>>
  BY DEF Receive
<1>3. taken \in Streams /\ streams[taken] # 0 /\ o \in Objects
      /\ object \in [Objects -> DispatchStream]
  BY <1>1, <1>2, ObjectsInUse DEF InHand, Typed
<1>4. CASE q = <<>>
  BY <1>1, <1>2, <1>4, UnmovedStays DEF Receive, Mapped
<1>5. CASE q # <<>>
  <2>1. object' = PoppedFrom(object, o) /\ taken' = Head(q) /\ dpc' = "after"
    BY <1>5 DEF Receive, GotoD, PoppedFrom
  <2>2. /\ \A p \in Objects : p # o => object'[p] = object[p]
        /\ Len(q) \in Nat \ {0} /\ Len(object'[o].queue) = Len(q) - 1
        /\ \A i \in 1..Len(object'[o].queue) : object'[o].queue[i] = q[i + 1]
        /\ Head(q) = q[1]
    <3> HIDE DEF o
    <3>1. QED
      BY <1>3, <1>5, <2>1, Popped
  <2>3. CASE m \in sent
    BY <1>2, <2>3 DEF OnItsWay
  <2>4. CASE InQueue(m)
    <3>1. PICK s \in Streams, i \in Nat :
            /\ streams[s] # 0 /\ i \in 1..Len(object[Mapped(s)].queue)
            /\ object[Mapped(s)].queue[i] = m
      BY <2>4 DEF InQueue
    <3>2. Mapped(s) \in Objects /\ Mapped(s)' = Mapped(s)
      BY <1>1, <1>2, <3>1, ObjectsInUse DEF Mapped
    <3>3. CASE Mapped(s) # o
      <4>1. object'[Mapped(s)] = object[Mapped(s)]
        BY <2>2, <3>2, <3>3
      <4>2. QED
        BY <1>2, <3>1, <3>2, <4>1 DEF InQueue, OnItsWay
    <3>4. CASE Mapped(s) = o /\ i = 1
      BY <2>1, <2>2, <3>1, <3>4 DEF OnItsWay
    <3>5. CASE Mapped(s) = o /\ i # 1
      <4>1. i - 1 \in 1..Len(object'[o].queue) /\ object'[o].queue[i - 1] = m
        BY <2>2, <3>1, <3>5
      <4>2. \E j \in 1..Len(object'[Mapped(s)'].queue) : object'[Mapped(s)'].queue[j] = m
        BY <3>2, <3>5, <4>1
      <4>3. QED
        BY <1>2, <3>1, <4>2 DEF InQueue, OnItsWay
    <3>6. QED
      BY <3>3, <3>4, <3>5
  <2>5. QED
    BY <1>2, <2>3, <2>4 DEF OnItsWay
<1>6. QED
  BY <1>4, <1>5

\* A message in hand is sent.
LEMMA SendStays ==
  ASSUME DispatcherInv, Send, NEW m \in Messages, OnItsWay(m)
  PROVE  OnItsWay(m)'
<1>1. /\ dpc = "send" /\ sent' = sent \cup ({taken} \ {None})
      /\ UNCHANGED <<streams, object>> /\ m # None
  BY NothingAssumption DEF Send, mvars
<1>2. CASE InQueue(m)
  BY <1>1, <1>2 DEF InQueue, OnItsWay, Mapped
<1>3. CASE m \in sent \/ taken = m
  BY <1>1, <1>3 DEF OnItsWay
<1>4. QED
  BY <1>2, <1>3 DEF OnItsWay

-----------------------------------------------------------------------------
(* Every step keeps the invariant.                                         *)

\* Who has stopped does not come back, and what is accepted stays so.
LEMMA StoppedStays ==
  ASSUME Typed, [DispatcherNext]_vars
  PROVE  /\ accepted \subseteq accepted'
         /\ \A v \in Writers : wpc[v] = "stopped" =>
              wpc'[v] = "stopped" /\ final'[v] = final[v] /\ calls'[v] = calls[v]
<1> USE DEF mvars, queues, shut, wvars, dvars, hist
<1>1. CASE DispatcherStep \/ EnqueueControl \/ Close \/ Signal \/ UNCHANGED vars
  BY <1>1 DEF DispatcherStep, EnqueueControl, Close, Signal, vars, NextControl, NextStream,
              NextIdle, Wake, WaitEnds, Receive, After, Empty, Send, SendFails
<1>2. ASSUME NEW w \in Writers, WriterStep(w)
      PROVE  /\ accepted \subseteq accepted' /\ wpc[w] # "stopped"
             /\ \A v \in Writers : v # w =>
                  wpc'[v] = wpc[v] /\ final'[v] = final[v] /\ calls'[v] = calls[v]
  <2>1. ASSUME NEW last \in BOOLEAN, Enter(w, last)
        PROVE  /\ accepted' = accepted /\ wpc[w] # "stopped"
               /\ \A v \in Writers : v # w =>
                    wpc'[v] = wpc[v] /\ final'[v] = final[v] /\ calls'[v] = calls[v]
    BY <2>1 DEF Enter, GotoW, Typed
  <2>2. CASE GiveUp(w) \/ Push(w) \/ PushCanceled(w) \/ PushClosed(w) \/ Mark(w) \/ MarkClosed(w)
    BY <2>2 DEF GiveUp, Push, PushCanceled, PushClosed, Mark, MarkClosed, Fail, Accept, GotoW,
                Typed
  <2>3. QED
    BY <1>2, <2>1, <2>2 DEF WriterStep
<1>3. QED
  BY <1>1, <1>2 DEF DispatcherNext

\* So an overtaken message stays overtaken, and a witness for an end stays one.
LEMMA FinalStays ==
  ASSUME Typed, FinalStops, [DispatcherNext]_vars
  PROVE  /\ \A v \in Writers : final[v] /\ Current(v) \in accepted =>
              wpc[v] = "stopped" /\ final'[v] /\ Current(v)' \in accepted'
         /\ \A w : Overtaken(w) => Overtaken(w)'
<1>1. \A v \in Writers : final[v] /\ Current(v) \in accepted =>
        wpc[v] = "stopped" /\ final'[v] /\ Current(v)' \in accepted'
  BY StoppedStays DEF FinalStops, Current
<1>2. QED
  BY <1>1 DEF Overtaken

\* Steps of the dispatcher, of Close, and of control messages.
LEMMA OthersKeepLoss ==
  ASSUME DispatcherInv, LossInv, [DispatcherNext]_vars, UNCHANGED <<wvars, accepted>>,
         closed => closed',
         \A o \in Objects : object'[o].draining = object[o].draining,
         \A s \in Streams : \/ streams'[s] = streams[s]
                            \/ streams'[s] = 0 /\ streams[s] # 0 /\ object[Mapped(s)].draining,
         \A m \in Messages : OnItsWay(m) => closed' \/ OnItsWay(m)'
  PROVE  LossInv'
<1> USE DEF wvars
<1>1. /\ Typed /\ CallsUnderWay /\ AcceptedInTurn /\ FinalStops /\ DrainingIsFinal
      /\ HeldIsMapped /\ MarkedOnItsWay /\ LostAfterFinal
  BY DEF DispatcherInv, LossInv
<1>2. /\ \A v \in Writers : Current(v)' = Current(v)
      /\ \A w : Overtaken(w) => Overtaken(w)'
  BY <1>1, FinalStays DEF Current
<1>3. AcceptedInTurn' /\ FinalStops'
  BY <1>1, <1>2 DEF AcceptedInTurn, FinalStops
<1>4. DrainingIsFinal'
  <2>1. SUFFICES ASSUME NEW s \in Streams, streams'[s] # 0, object'[Mapped(s)'].draining
                 PROVE  \E v \in Writers : StreamOf[v] = s /\ final[v] /\ Current(v) \in accepted
    BY <1>2 DEF DrainingIsFinal
  <2>2. streams[s] # 0 /\ Mapped(s)' = Mapped(s) /\ Mapped(s) \in Objects
    BY <1>1, <2>1, ObjectsInUse DEF Mapped
  <2>3. QED
    BY <1>1, <2>1, <2>2 DEF DrainingIsFinal
<1>5. HeldIsMapped'
  <2>1. SUFFICES ASSUME NEW w \in Writers, wpc[w] = "push"
                 PROVE  held[w] = streams'[StreamOf[w]] \/ Overtaken(w)'
    BY DEF HeldIsMapped
  <2>2. StreamOf[w] \in Streams
    BY DispatcherAssumption
  <2>3. CASE streams'[StreamOf[w]] = streams[StreamOf[w]]
    BY <1>1, <1>2, <2>1, <2>3 DEF HeldIsMapped
  <2>4. CASE streams[StreamOf[w]] # 0 /\ object[Mapped(StreamOf[w])].draining
    <3>1. PICK v \in Writers : StreamOf[v] = StreamOf[w] /\ final[v] /\ Current(v) \in accepted
      BY <1>1, <2>2, <2>4 DEF DrainingIsFinal
    <3>2. v # w
      BY <1>1, <2>1, <3>1 DEF FinalStops
    <3>3. QED
      BY <1>2, <3>1, <3>2 DEF Overtaken
  <2>5. QED
    BY <2>2, <2>3, <2>4
<1>6. MarkedOnItsWay'
  <2>1. \A w \in Writers : wpc[w] = "mark" => Current(w) \in Messages
    BY <1>1, ObjectsInUse DEF Busy
  <2>2. QED
    BY <1>1, <1>2, <2>1 DEF MarkedOnItsWay
<1>7. LostAfterFinal'
  <2>1. ~closed' => \A m \in accepted' : OnItsWay(m)' \/ Overtaken(m[1])'
    BY <1>1, <1>2, LostMeans DEF Typed
  <2>2. QED
    BY <2>1, LostMeans DEF LostAfterFinal, Overtaken
<1>8. QED
  BY <1>3, <1>4, <1>5, <1>6, <1>7 DEF LossInv

\* The dispatcher's steps.
LEMMA StepKeepsLoss ==
  ASSUME DispatcherInv, LossInv,
         DispatcherStep \/ EnqueueControl \/ Close \/ Signal \/ UNCHANGED vars
  PROVE  LossInv'
<1> USE DEF mvars, queues, shut, wvars, dvars, hist
<1>1. Typed /\ CallsUnderWay /\ InHand
  BY DEF DispatcherInv
<1>2. [DispatcherNext]_vars
  BY DEF DispatcherNext
<1>3. CASE EnqueueControl \/ NextControl \/ NextIdle \/ Wake \/ WaitEnds \/ Close \/ Signal
  <2>1. UNCHANGED <<streams, object, wvars, accepted>> /\ (closed => closed')
    BY <1>3 DEF EnqueueControl, NextControl, NextIdle, Wake, WaitEnds, Close, Signal
  <2>2. \A m \in Messages : OnItsWay(m) => OnItsWay(m)'
    BY <1>3, OtherStays
  <2>3. QED
    BY <1>2, <2>1, <2>2, OthersKeepLoss
<1>4. CASE NextStream
  <2>1. UNCHANGED <<streams, wvars, accepted, closed>>
    BY <1>4 DEF NextStream
  <2>2. \A o \in Objects : object'[o].draining = object[o].draining
    BY <1>1, <1>4, NextStreamEffect
  <2>3. \A m \in Messages : OnItsWay(m) => OnItsWay(m)'
    BY <1>4, OtherStays
  <2>4. QED
    BY <1>2, <2>1, <2>2, <2>3, OthersKeepLoss
<1>5. CASE After \/ Empty
  <2>1. /\ UNCHANGED <<wvars, accepted, closed>>
        /\ \A o \in Objects : object'[o].draining = object[o].draining
    <3>1. CASE After
      BY <1>1, <3>1, AfterEffect DEF After
    <3>2. CASE Empty
      BY <3>2 DEF Empty
    <3>3. QED
      BY <1>5, <3>1, <3>2
  <2>2. PICK x \in Streams :
          streams[x] # 0 /\ (streams' = streams \/ DeleteIfDrained(x))
    <3>1. CASE After
      BY <1>1, <3>1, AfterEffect
    <3>2. CASE Empty
      BY <1>1, <3>2 DEF Empty, InHand
    <3>3. QED
      BY <1>5, <3>1, <3>2
  <2>3. \A s \in Streams : \/ streams'[s] = streams[s]
                           \/ streams'[s] = 0 /\ streams[s] # 0 /\ object[Mapped(s)].draining
    BY <1>1, <2>2 DEF DeleteIfDrained, Typed
  <2>4. \A m \in Messages : OnItsWay(m) => OnItsWay(m)'
    BY <1>5, OtherStays
  <2>5. QED
    BY <1>2, <2>1, <2>3, <2>4, OthersKeepLoss
<1>6. CASE Receive
  <2>1. UNCHANGED <<streams, wvars, accepted, closed>>
    BY <1>6 DEF Receive
  <2>2. \A o \in Objects : object'[o].draining = object[o].draining
    BY <1>1, <1>6, ReceiveEffect
  <2>3. \A m \in Messages : OnItsWay(m) => OnItsWay(m)'
    BY <1>6, ReceiveStays
  <2>4. QED
    BY <1>2, <2>1, <2>2, <2>3, OthersKeepLoss
<1>7. CASE Send
  <2>1. UNCHANGED <<streams, object, wvars, accepted, closed>>
    BY <1>7 DEF Send
  <2>2. \A m \in Messages : OnItsWay(m) => OnItsWay(m)'
    BY <1>7, SendStays
  <2>3. QED
    BY <1>2, <2>1, <2>2, OthersKeepLoss
<1>8. CASE SendFails
  <2>1. UNCHANGED <<streams, object, wvars, accepted>> /\ closed'
    BY <1>8 DEF SendFails
  <2>2. QED
    BY <1>2, <2>1, OthersKeepLoss
<1>9. CASE UNCHANGED vars
  <2>1. UNCHANGED vars
    BY <1>9
  <2>2. UNCHANGED <<streams, object, wvars, accepted, closed, sent, dpc, taken>>
    BY <2>1 DEF vars
  <2>3. \A m \in Messages : OnItsWay(m) => OnItsWay(m)'
    BY <2>2 DEF OnItsWay, InQueue, Mapped
  <2>4. QED
    BY <1>2, <2>2, <2>3, OthersKeepLoss
<1>10. QED
  BY <1>3, <1>4, <1>5, <1>6, <1>7, <1>8, <1>9 DEF DispatcherStep

\* A new call: the message has a new number, and the object held is the one in the map.
LEMMA EnterKeepsLoss ==
  ASSUME DispatcherInv, LossInv, NEW w \in Writers, NEW last \in BOOLEAN, Enter(w, last)
  PROVE  LossInv'
<1> USE DEF mvars, queues, shut, wvars, dvars, hist
<1> DEFINE s == StreamOf[w]
<1>1. /\ Typed /\ CallsUnderWay /\ AcceptedInTurn /\ FinalStops /\ DrainingIsFinal
      /\ HeldIsMapped /\ MarkedOnItsWay /\ LostAfterFinal
  BY DEF DispatcherInv, LossInv
<1>2. /\ wpc[w] \in {"idle", "aborted"}
      /\ wpc' = [wpc EXCEPT ![w] = "push"] /\ calls' = [calls EXCEPT ![w] = @ + 1]
      /\ final' = [final EXCEPT ![w] = last]
      /\ UNCHANGED <<closed, dpc, taken, accepted, sent>>
  BY DEF Enter, GotoW
<1>3. /\ calls[w] \in Nat /\ calls'[w] = calls[w] + 1 /\ wpc'[w] = "push"
      /\ \A v \in Writers : v # w =>
           calls'[v] = calls[v] /\ wpc'[v] = wpc[v] /\ final'[v] = final[v]
  BY <1>1, <1>2, DispatcherAssumption DEF Typed
<1>4. [DispatcherNext]_vars
  BY DEF DispatcherNext, WriterStep
<1>5. /\ \A v \in Writers : final[v] /\ Current(v) \in accepted =>
           v # w /\ final'[v] /\ Current(v)' \in accepted'
      /\ \A v : Overtaken(v) => Overtaken(v)'
  BY <1>1, <1>2, <1>4, FinalStays
<1>6. AcceptedInTurn'
  <2>1. SUFFICES ASSUME NEW v \in Writers, NEW n \in 1..MaxCalls, <<v, n>> \in accepted
                 PROVE  n <= calls'[v] /\ (wpc'[v] \in Busy => n # calls'[v])
    BY <1>2 DEF AcceptedInTurn
  <2>2. n <= calls[v] /\ (wpc[v] \in Busy => n # calls[v])
    BY <1>1, <2>1 DEF AcceptedInTurn
  <2>3. CASE v = w
    BY <1>3, <2>2, <2>3
  <2>4. CASE v # w
    BY <1>3, <2>2, <2>4
  <2>5. QED
    BY <2>3, <2>4
<1>7. Current(w)' \notin accepted'
  <2>1. <<w, calls[w] + 1>> \in accepted => calls[w] + 1 \in 1..MaxCalls
    BY <1>1 DEF Typed, Messages
  <2>2. <<w, calls[w] + 1>> \notin accepted
    BY <1>1, <1>3, <2>1 DEF AcceptedInTurn
  <2>3. QED
    BY <1>2, <1>3, <2>2 DEF Current
<1>8. FinalStops'
  <2>1. \A v \in Writers : v # w /\ final'[v] /\ Current(v)' \in accepted' => wpc'[v] = "stopped"
    BY <1>1, <1>2, <1>3 DEF FinalStops, Current
  <2>2. QED
    BY <1>7, <2>1 DEF FinalStops
<1>9. /\ held'[w] = streams'[s]
      /\ \A v \in Writers : v # w => held'[v] = held[v]
      /\ \A t \in Streams : t # s => streams'[t] = streams[t]
      /\ streams[s] # 0 => UNCHANGED <<streams, object>>
      /\ streams[s] = 0 =>
           /\ object'[<<s, held'[w]>>] = NewStream
           /\ \A o \in Objects : o # <<s, held'[w]>> => object'[o] = object[o]
      /\ s \in Streams
  BY <1>1, EnterEffect, DispatcherAssumption
<1>10. ASSUME NEW t \in Streams, streams[s] # 0 \/ t # s
       PROVE  /\ streams'[t] = streams[t]
              /\ streams[t] # 0 => object'[Mapped(t)'] = object[Mapped(t)]
  <2>1. streams'[t] = streams[t] /\ Mapped(t)' = Mapped(t)
    BY <1>9, <1>10 DEF Mapped
  <2>2. CASE streams[s] # 0
    BY <1>9, <2>1, <2>2
  <2>3. CASE streams[s] = 0 /\ streams[t] # 0
    <3>1. Mapped(t) \in Objects /\ Mapped(t) # <<s, held'[w]>>
      BY <1>1, <1>10, <2>3, ObjectsInUse DEF Mapped
    <3>2. QED
      BY <1>9, <2>1, <2>3, <3>1
  <2>4. QED
    BY <2>1, <2>2, <2>3
<1>11. streams[s] = 0 => ~object'[Mapped(s)'].draining
  BY <1>9 DEF Mapped, NewStream
<1>12. DrainingIsFinal'
  <2>1. SUFFICES ASSUME NEW t \in Streams, streams'[t] # 0, object'[Mapped(t)'].draining
                 PROVE  \E v \in Writers :
                          StreamOf[v] = t /\ final'[v] /\ Current(v)' \in accepted'
    BY DEF DrainingIsFinal
  <2>2. streams[t] # 0 /\ object[Mapped(t)].draining
    BY <1>10, <1>11, <2>1
  <2>3. QED
    BY <1>1, <1>5, <2>2 DEF DrainingIsFinal
<1>13. HeldIsMapped'
  <2>1. SUFFICES ASSUME NEW v \in Writers, v # w, wpc[v] = "push"
                 PROVE  held[v] = streams'[StreamOf[v]] \/ Overtaken(v)'
    BY <1>3, <1>9 DEF HeldIsMapped
  <2>2. held[v] # 0 /\ (held[v] = streams[StreamOf[v]] \/ Overtaken(v))
    BY <1>1, <2>1 DEF HeldIsMapped, CallsUnderWay, Busy
  <2>3. StreamOf[v] \in Streams
    BY DispatcherAssumption
  <2>4. QED
    BY <1>5, <1>10, <2>2, <2>3
<1>14. \A m : OnItsWay(m) => OnItsWay(m)'
  <2>1. \A t \in Streams : streams[t] # 0 /\ object[Mapped(t)].queue # <<>> =>
          streams'[t] # 0 /\ object'[Mapped(t)'].queue = object[Mapped(t)].queue
    BY <1>10
  <2>2. QED
    BY <1>1, <1>2, <2>1, UnmovedStays
<1>15. MarkedOnItsWay'
  <2>1. SUFFICES ASSUME ~closed, NEW v \in Writers, wpc'[v] = "mark"
                 PROVE  OnItsWay(Current(v))' \/ Overtaken(v)'
    BY <1>2 DEF MarkedOnItsWay
  <2>2. v # w /\ wpc[v] = "mark" /\ Current(v)' = Current(v)
    BY <1>3, <2>1 DEF Current
  <2>3. PICK m : m = Current(v)
    OBVIOUS
  <2>4. OnItsWay(m) \/ Overtaken(v)
    BY <1>1, <2>1, <2>2, <2>3 DEF MarkedOnItsWay
  <2>5. OnItsWay(m)' => OnItsWay(Current(v))'
    BY <2>2, <2>3 DEF OnItsWay, InQueue
  <2>6. QED
    BY <1>5, <1>14, <2>4, <2>5
<1>16. LostAfterFinal'
  <2>1. ~closed' => \A m \in accepted' : OnItsWay(m)' \/ Overtaken(m[1])'
    BY <1>1, <1>2, <1>5, <1>14, LostMeans
  <2>2. QED
    BY <2>1 DEF LostAfterFinal, Overtaken
<1>17. QED
  BY <1>6, <1>8, <1>12, <1>13, <1>15, <1>16 DEF LossInv

\* A call that fails, or a goroutine that gives up.
LEMMA FailureKeepsLoss ==
  ASSUME DispatcherInv, LossInv, NEW w \in Writers,
         GiveUp(w) \/ PushCanceled(w) \/ PushClosed(w) \/ MarkClosed(w)
  PROVE  LossInv'
<1> USE DEF mvars, queues, shut, wvars, dvars, hist
<1>1. /\ Typed /\ CallsUnderWay /\ AcceptedInTurn /\ FinalStops /\ DrainingIsFinal
      /\ HeldIsMapped /\ MarkedOnItsWay /\ LostAfterFinal
  BY DEF DispatcherInv, LossInv
<1>2. /\ wpc[w] # "stopped" /\ wpc'[w] \notin Busy
      /\ \A v \in Writers : v # w => wpc'[v] = wpc[v] /\ held'[v] = held[v]
      /\ UNCHANGED <<streams, object, closed, calls, final, dpc, taken, accepted, sent>>
  BY <1>1 DEF GiveUp, PushCanceled, PushClosed, MarkClosed, Fail, GotoW, Typed, Busy
<1>3. /\ \A v \in Writers : Current(v)' = Current(v)
      /\ \A v : Overtaken(v)' <=> Overtaken(v)
      /\ \A m : OnItsWay(m)' <=> OnItsWay(m)
      /\ \A s \in Streams : Mapped(s)' = Mapped(s)
  <2>1. \A v \in Writers : Current(v)' = Current(v)
    BY <1>2 DEF Current
  <2>2. \A v : Overtaken(v)' <=> Overtaken(v)
    BY <1>2, <2>1 DEF Overtaken
  <2>3. \A s \in Streams : Mapped(s)' = Mapped(s)
    BY <1>2 DEF Mapped
  <2>4. \A m : OnItsWay(m)' <=> OnItsWay(m)
    BY <1>2, <2>3 DEF OnItsWay, InQueue
  <2>5. QED
    BY <2>1, <2>2, <2>3, <2>4
<1>4. AcceptedInTurn'
  BY <1>1, <1>2 DEF AcceptedInTurn, Busy
<1>5. FinalStops'
  BY <1>1, <1>2, <1>3 DEF FinalStops
<1>6. DrainingIsFinal'
  BY <1>1, <1>2, <1>3 DEF DrainingIsFinal
<1>7. HeldIsMapped'
  BY <1>1, <1>2, <1>3 DEF HeldIsMapped, Busy
<1>8. MarkedOnItsWay'
  <2>1. SUFFICES ASSUME ~closed, NEW v \in Writers, wpc'[v] = "mark"
                 PROVE  OnItsWay(Current(v))' \/ Overtaken(v)'
    BY <1>2 DEF MarkedOnItsWay
  <2>2. wpc[v] = "mark" /\ Current(v)' = Current(v)
    BY <1>2, <1>3, <2>1 DEF Busy
  <2>3. PICK m : m = Current(v)
    OBVIOUS
  <2>4. OnItsWay(m) \/ Overtaken(v)
    BY <1>1, <2>1, <2>2, <2>3 DEF MarkedOnItsWay
  <2>5. OnItsWay(m)' => OnItsWay(Current(v))'
    BY <2>2, <2>3 DEF OnItsWay, InQueue
  <2>6. QED
    BY <1>3, <2>4, <2>5
<1>9. LostAfterFinal'
  <2>1. ~closed' => \A m \in accepted' : OnItsWay(m)' \/ Overtaken(m[1])'
    BY <1>1, <1>2, <1>3, LostMeans
  <2>2. QED
    BY <2>1 DEF LostAfterFinal, Overtaken
<1>10. QED
  BY <1>4, <1>5, <1>6, <1>7, <1>8, <1>9 DEF LossInv

\* A message is pushed: into the queue in the map, or its writer has been overtaken.
LEMMA PushKeepsLoss ==
  ASSUME DispatcherInv, LossInv, NEW w \in Writers, Push(w)
  PROVE  LossInv'
<1> USE DEF mvars, queues, shut, wvars, dvars, hist
<1>1. /\ Typed /\ CallsUnderWay /\ AcceptedInTurn /\ FinalStops /\ DrainingIsFinal
      /\ HeldIsMapped /\ MarkedOnItsWay /\ LostAfterFinal
  BY DEF DispatcherInv, LossInv
<1>2. /\ wpc[w] = "push" /\ wpc'[w] = "mark"
      /\ \A v \in Writers : v # w => wpc'[v] = wpc[v]
      /\ UNCHANGED <<streams, held, closed, calls, final, dpc, taken, accepted, sent>>
  BY <1>1 DEF Push, GotoW, Typed
<1>3. /\ \A v \in Writers : Current(v)' = Current(v)
      /\ \A v : Overtaken(v)' <=> Overtaken(v)
      /\ \A s \in Streams : Mapped(s)' = Mapped(s)
  <2>1. \A v \in Writers : Current(v)' = Current(v)
    BY <1>2 DEF Current
  <2>2. \A v : Overtaken(v)' <=> Overtaken(v)
    BY <1>2, <2>1 DEF Overtaken
  <2>3. QED
    BY <1>2, <2>1, <2>2 DEF Mapped
<1>4. \A m : OnItsWay(m) => OnItsWay(m)'
  BY PushStays
<1>5. AcceptedInTurn'
  BY <1>1, <1>2 DEF AcceptedInTurn, Busy
<1>6. FinalStops'
  BY <1>1, <1>2, <1>3 DEF FinalStops
<1>7. DrainingIsFinal'
  <2>1. \A o \in Objects : object'[o].draining = object[o].draining
    BY <1>1, PushEffect
  <2>2. \A s \in Streams : streams[s] # 0 => Mapped(s) \in Objects
    BY <1>1, ObjectsInUse
  <2>3. QED
    BY <1>1, <1>2, <1>3, <2>1, <2>2 DEF DrainingIsFinal
<1>8. HeldIsMapped'
  BY <1>1, <1>2, <1>3 DEF HeldIsMapped
<1>9. MarkedOnItsWay'
  <2>1. SUFFICES ASSUME ~closed, NEW v \in Writers, wpc'[v] = "mark"
                 PROVE  OnItsWay(Current(v))' \/ Overtaken(v)'
    BY <1>2 DEF MarkedOnItsWay
  <2>2. PICK m : m = Current(v)
    OBVIOUS
  <2>3. OnItsWay(m)' => OnItsWay(Current(v))'
    BY <1>3, <2>2 DEF OnItsWay, InQueue
  <2>4. CASE v # w
    <3>1. OnItsWay(m) \/ Overtaken(v)
      BY <1>1, <1>2, <2>1, <2>2, <2>4 DEF MarkedOnItsWay
    <3>2. QED
      BY <1>3, <1>4, <2>3, <3>1
  <2>5. CASE v = w /\ held[w] = streams[StreamOf[w]]
    <3> DEFINE s == StreamOf[w]
               q == object[Held(w)].queue
    <3>1. s \in Streams /\ streams[s] # 0 /\ Mapped(s) = Held(w)
      BY <1>1, <1>2, <2>5, DispatcherAssumption DEF CallsUnderWay, Busy, Mapped, Held
    <3>2. /\ Len(q) \in Nat /\ Len(object'[Held(w)].queue) = Len(q) + 1
          /\ object'[Held(w)].queue[Len(q) + 1] = Current(w)
      BY <1>1, PushEffect
    <3>3. /\ Len(q) + 1 \in 1..Len(object'[Mapped(s)'].queue)
          /\ object'[Mapped(s)'].queue[Len(q) + 1] = m
      BY <1>3, <2>2, <2>5, <3>1, <3>2
    <3> HIDE DEF q
    <3>4. InQueue(m)'
      BY <1>2, <3>1, <3>3 DEF InQueue
    <3>5. QED
      BY <2>3, <3>4 DEF OnItsWay
  <2>6. CASE v = w /\ Overtaken(w)
    BY <1>3, <2>6
  <2>7. QED
    BY <1>1, <1>2, <2>4, <2>5, <2>6 DEF HeldIsMapped
<1>10. LostAfterFinal'
  <2>1. ~closed' => \A m \in accepted' : OnItsWay(m)' \/ Overtaken(m[1])'
    BY <1>1, <1>2, <1>3, <1>4, LostMeans
  <2>2. QED
    BY <2>1 DEF LostAfterFinal, Overtaken
<1>11. QED
  BY <1>5, <1>6, <1>7, <1>8, <1>9, <1>10 DEF LossInv

\* The call returns nil: its message is on its way, and after a final one there is none.
LEMMA MarkKeepsLoss ==
  ASSUME DispatcherInv, LossInv, NEW w \in Writers, Mark(w)
  PROVE  LossInv'
<1> USE DEF mvars, queues, shut, wvars, dvars, hist
<1>1. /\ Typed /\ CallsUnderWay /\ AcceptedInTurn /\ FinalStops /\ DrainingIsFinal
      /\ HeldIsMapped /\ MarkedOnItsWay /\ LostAfterFinal
  BY DEF DispatcherInv, LossInv
<1>2. /\ wpc[w] = "mark" /\ ~closed
      /\ wpc'[w] = IF final[w] THEN "stopped" ELSE "idle"
      /\ \A v \in Writers : v # w => wpc'[v] = wpc[v] /\ held'[v] = held[v]
      /\ accepted' = accepted \cup {Current(w)}
      /\ UNCHANGED <<streams, closed, calls, final, dpc, taken, sent>>
  BY <1>1 DEF Mark, Accept, GotoW, Typed
<1>3. /\ \A o \in Objects : object'[o].queue = object[o].queue
      /\ \A o \in Objects : object'[o].draining =>
           object[o].draining \/ (o = Held(w) /\ final[w])
  BY <1>1, MarkEffect
<1>4. [DispatcherNext]_vars
  BY DEF DispatcherNext, WriterStep
<1>5. /\ \A v \in Writers : Current(v)' = Current(v)
      /\ \A v : Overtaken(v) => Overtaken(v)'
      /\ \A s \in Streams : Mapped(s)' = Mapped(s)
      /\ \A s \in Streams : streams[s] # 0 => Mapped(s) \in Objects
  BY <1>1, <1>2, <1>4, FinalStays, ObjectsInUse DEF Current, Mapped
<1>6. \A m : OnItsWay(m) => OnItsWay(m)'
  BY <1>1, <1>2, <1>3, <1>5, UnmovedStays
<1>7. AcceptedInTurn'
  <2>1. SUFFICES ASSUME NEW v \in Writers, NEW n \in 1..MaxCalls, <<v, n>> \in accepted'
                 PROVE  n <= calls[v] /\ (wpc'[v] \in Busy => n # calls[v])
    BY <1>2 DEF AcceptedInTurn
  <2>2. wpc'[w] \notin Busy
    BY <1>2 DEF Busy
  <2>3. CASE <<v, n>> \in accepted
    BY <1>1, <1>2, <2>2, <2>3 DEF AcceptedInTurn
  <2>4. CASE <<v, n>> = Current(w)
    <3>1. v = w /\ n = calls[w]
      BY <2>4 DEF Current
    <3>2. QED
      BY <2>2, <3>1
  <2>5. QED
    BY <1>2, <2>1, <2>3, <2>4
<1>8. FinalStops'
  <2>1. SUFFICES ASSUME NEW v \in Writers, final[v], Current(v) \in accepted'
                 PROVE  wpc'[v] = "stopped"
    BY <1>2, <1>5 DEF FinalStops
  <2>2. CASE v = w
    BY <1>2, <2>1, <2>2
  <2>3. CASE v # w
    <3>1. Current(v) # Current(w)
      BY <2>3 DEF Current
    <3>2. QED
      BY <1>1, <1>2, <2>1, <2>3, <3>1 DEF FinalStops
  <2>4. QED
    BY <2>2, <2>3
<1>9. DrainingIsFinal'
  <2>1. SUFFICES ASSUME NEW s \in Streams, streams[s] # 0, object'[Mapped(s)].draining
                 PROVE  \E v \in Writers :
                          StreamOf[v] = s /\ final[v] /\ Current(v) \in accepted'
    BY <1>2, <1>5 DEF DrainingIsFinal
  <2>2. CASE object[Mapped(s)].draining
    BY <1>1, <1>2, <2>1, <2>2 DEF DrainingIsFinal
  <2>3. CASE Mapped(s) = Held(w) /\ final[w]
    <3>1. StreamOf[w] = s
      BY <2>3 DEF Mapped, Held
    <3>2. QED
      BY <1>2, <2>3, <3>1
  <2>4. QED
    BY <1>3, <1>5, <2>1, <2>2, <2>3
<1>10. HeldIsMapped'
  BY <1>1, <1>2, <1>5 DEF HeldIsMapped
<1>11. MarkedOnItsWay'
  <2>1. SUFFICES ASSUME NEW v \in Writers, wpc'[v] = "mark"
                 PROVE  OnItsWay(Current(v))' \/ Overtaken(v)'
    BY DEF MarkedOnItsWay
  <2>2. v # w /\ wpc[v] = "mark"
    BY <1>2, <2>1
  <2>3. PICK m : m = Current(v)
    OBVIOUS
  <2>4. OnItsWay(m) \/ Overtaken(v)
    BY <1>1, <1>2, <2>2, <2>3 DEF MarkedOnItsWay
  <2>5. OnItsWay(m)' => OnItsWay(Current(v))'
    BY <1>5, <2>3 DEF OnItsWay, InQueue
  <2>6. QED
    BY <1>5, <1>6, <2>4, <2>5
<1>12. LostAfterFinal'
  <2>1. ASSUME NEW m \in accepted'
        PROVE  OnItsWay(m)' \/ Overtaken(m[1])'
    <3>1. CASE m \in accepted
      BY <1>1, <1>2, <1>5, <1>6, <3>1, LostMeans
    <3>2. CASE m = Current(w)
      <4>1. m[1] = w
        BY <3>2 DEF Current
      <4>2. OnItsWay(m) \/ Overtaken(w)
        BY <1>1, <1>2, <3>2 DEF MarkedOnItsWay
      <4>3. QED
        BY <1>5, <1>6, <4>1, <4>2
    <3>3. QED
      BY <1>2, <2>1, <3>1, <3>2
  <2>2. QED
    BY <2>1 DEF LostAfterFinal, Overtaken
<1>13. QED
  BY <1>7, <1>8, <1>9, <1>10, <1>11, <1>12 DEF LossInv

\* At the start there is no stream and no call.
LEMMA InitLoss == DispatcherInit => LossInv
BY DispatcherAssumption
   DEF DispatcherInit, LossInv, AcceptedInTurn, FinalStops, DrainingIsFinal, HeldIsMapped,
       MarkedOnItsWay, LostAfterFinal

\* Every step keeps the invariant.
LEMMA NextLoss == DispatcherInv /\ LossInv /\ [DispatcherNext]_vars => LossInv'
<1> SUFFICES ASSUME DispatcherInv, LossInv, [DispatcherNext]_vars PROVE LossInv'
  OBVIOUS
<1>1. CASE DispatcherStep \/ EnqueueControl \/ Close \/ Signal \/ UNCHANGED vars
  BY <1>1, StepKeepsLoss
<1>2. ASSUME NEW w \in Writers, WriterStep(w) PROVE LossInv'
  <2>1. ASSUME NEW last \in BOOLEAN, Enter(w, last) PROVE LossInv'
    BY <2>1, EnterKeepsLoss
  <2>2. CASE GiveUp(w) \/ PushCanceled(w) \/ PushClosed(w) \/ MarkClosed(w)
    BY <2>2, FailureKeepsLoss
  <2>3. CASE Push(w)
    BY <2>3, PushKeepsLoss
  <2>4. CASE Mark(w)
    BY <2>4, MarkKeepsLoss
  <2>5. QED
    BY <1>2, <2>1, <2>2, <2>3, <2>4 DEF WriterStep
<1>3. QED
  BY <1>1, <1>2 DEF DispatcherNext

\* A message whose EnqueueStream returned nil is sent or on its way, unless the connection is
\* closed or another goroutine's final message of the stream has overtaken it: deleting a
\* stream never takes a message with it, not even one pushed to an object that a writer holds
\* across the deletion (EnqueueStream, afterStreamMessage, afterEmptyStream).
THEOREM LostAfterFinalHolds == DispatcherSpec => []LostAfterFinal
<1>1. DispatcherInit => LossInv
  BY InitLoss
<1>2. DispatcherInv /\ LossInv /\ [DispatcherNext]_vars => LossInv'
  BY NextLoss
<1>3. LossInv => LostAfterFinal
  BY DEF LossInv
<1>4. QED
  BY <1>1, <1>2, <1>3, DispatcherInductive, PTL DEF DispatcherSpec

-----------------------------------------------------------------------------
(* Round robin, where each stream has one writer: a stream is deleted only *)
(* after its writer's final message, so it does not come back while its id *)
(* is still in the line, and no stream stands there twice.  (Where two     *)
(* goroutines write to a stream it can: the message of one re-creates the  *)
(* stream the other's final message deleted.)                              *)

\* A client connection: one goroutine per response.
OwnStreams == \A v, w \in Writers : StreamOf[v] = StreamOf[w] => v = w

\* The dispatcher is at work on the stream whose turn it took.
AtWork(s) ==
  \/ dpc \in {"receive", "empty"} /\ taken = s
  \/ dpc = "after" /\ StreamOf[taken[1]] = s

\* Nobody has two places in the line.
OnePlace == \A i, j \in 1..Len(ready) : ready[i] = ready[j] => i = j

\* Who is in the line is scheduled, unless deleted.
LineIsScheduled ==
  \A s \in Streams : streams[s] # 0 /\ InLine(s) => object[Mapped(s)].scheduled

\* The object of a call under way is the one in the map.
CallOnMapped == \A w \in Writers : wpc[w] \in Busy => held[w] = streams[StreamOf[w]]

\* A deleted stream that is still in the line does not come back.
NotAgain ==
  \A w \in Writers : streams[StreamOf[w]] = 0 /\ InLine(StreamOf[w]) => wpc[w] = "stopped"

\* Who has been passed is waiting.
PassedWaits ==
  \A s \in Streams : passed[s] # 0 =>
    streams[s] # 0 /\ object[Mapped(s)].scheduled /\ ~AtWork(s)

\* The turns that others have had, and those they can have before s does.
TurnComes ==
  \A i \in 1..Len(ready) :
    streams[ready[i]] # 0 => passed[ready[i]] + i <= Cardinality(Streams)

TurnInv == OnePlace /\ LineIsScheduled /\ CallOnMapped /\ NotAgain /\ PassedWaits /\ TurnComes

\* Writers that start no call, and rest when they have stopped.
NoNewCall ==
  \A w \in Writers :
    /\ wpc'[w] \in Busy => wpc[w] \in Busy /\ held'[w] = held[w]
    /\ wpc[w] = "stopped" => wpc'[w] = "stopped"

\* Steps that move neither the line nor who is scheduled.
LEMMA QuietKeepsTurns ==
  ASSUME DispatcherInv, TurnInv, NoNewCall,
         streams' = streams, ready' = ready, passed' = passed,
         \A o \in Objects : object'[o].scheduled <=> object[o].scheduled,
         \A s \in Streams : AtWork(s)' => AtWork(s)
  PROVE  TurnInv'
<1>1. Typed /\ CallsUnderWay
  BY DEF DispatcherInv
<1>2. \A s \in Streams : streams[s] # 0 => Mapped(s) \in Objects /\ Mapped(s)' = Mapped(s)
  BY <1>1, ObjectsInUse DEF Mapped
<1>3. OnePlace' /\ TurnComes'
  BY DEF TurnInv, OnePlace, TurnComes
<1>4. LineIsScheduled'
  BY <1>2 DEF TurnInv, LineIsScheduled, InLine
<1>5. CallOnMapped' /\ NotAgain'
  BY DEF TurnInv, NoNewCall, CallOnMapped, NotAgain, InLine
<1>6. PassedWaits'
  BY <1>2 DEF TurnInv, PassedWaits
<1>7. QED
  BY <1>3, <1>4, <1>5, <1>6 DEF TurnInv

\* A line without repetitions that lacks a stream has room for it.
LEMMA RoomInLine ==
  ASSUME ready \in Seq(Streams), OnePlace, IsFiniteSet(Streams), NEW s \in Streams, ~InLine(s)
  PROVE  /\ Len(ready) \in Nat /\ Cardinality(Streams) \in Nat
         /\ Len(ready) + 1 <= Cardinality(Streams)
<1> DEFINE others == Streams \ {s}
<1>1. Len(ready) \in Nat /\ DOMAIN ready = 1..Len(ready)
  BY LenProperties
<1>2. ready \in Injection(1..Len(ready), others)
  <2>1. \A i \in 1..Len(ready) : ready[i] \in others
    BY <1>1, ElementOfSeq DEF InLine
  <2>2. ready \in [1..Len(ready) -> others]
    BY <1>1, <2>1, LenProperties
  <2>3. QED
    BY <2>2 DEF OnePlace, Injection, IsInjective
<1>3. /\ IsFiniteSet(others) /\ Cardinality(others) = Cardinality(Streams) - 1
      /\ Cardinality(Streams) \in Nat
  BY FS_RemoveElement, FS_CardinalityType
<1> HIDE DEF others
<1>4. Cardinality(1..Len(ready)) <= Cardinality(others)
  BY <1>2, <1>3, FS_Injection
<1>5. Cardinality(1..Len(ready)) = Len(ready)
  <2>1. 1 \in Int /\ Len(ready) \in Int
    BY <1>1
  <2>2. Cardinality(1..Len(ready)) = IF 1 > Len(ready) THEN 0 ELSE Len(ready) - 1 + 1
    BY <2>1, FS_Interval
  <2>3. QED
    BY <1>1, <2>2
<1>6. QED
  BY <1>1, <1>3, <1>4, <1>5

\* A stream joins the line: everyone in it can have a turn before it does.
LEMMA JoinKeepsTurns ==
  ASSUME DispatcherInv, TurnInv, NoNewCall, IsFiniteSet(Streams),
         NEW s \in Streams, streams[s] # 0, ~object[Mapped(s)].scheduled,
         object'[Mapped(s)].scheduled,
         \A o \in Objects : o # Mapped(s) => object'[o] = object[o],
         ready' = Append(ready, s), streams' = streams, passed' = passed,
         \A t \in Streams : AtWork(t)' => AtWork(t)
  PROVE  TurnInv'
<1>1. Typed /\ CallsUnderWay /\ ready \in Seq(Streams)
  BY DEF DispatcherInv, Typed
<1>2. ~InLine(s)
  BY DEF TurnInv, LineIsScheduled
<1>3. /\ Len(ready) \in Nat /\ Cardinality(Streams) \in Nat
      /\ Len(ready) + 1 <= Cardinality(Streams)
  BY <1>1, <1>2, RoomInLine DEF TurnInv
<1>4. /\ ready' \in Seq(Streams) /\ Len(ready') = Len(ready) + 1
      /\ \A i \in 1..Len(ready) : ready'[i] = ready[i]
      /\ ready'[Len(ready) + 1] = s
  BY <1>1, AppendProperties
<1>5. \A t \in Streams : InLine(t)' <=> InLine(t) \/ t = s
  BY <1>1, Joined DEF InLine
<1>6. \A t \in Streams : streams[t] # 0 => Mapped(t) \in Objects /\ Mapped(t)' = Mapped(t)
  BY <1>1, ObjectsInUse DEF Mapped
<1>7. \A t \in Streams : t # s => Mapped(t) # Mapped(s)
  BY DEF Mapped
<1>8. OnePlace'
  <2>1. SUFFICES ASSUME NEW i \in 1..Len(ready'), NEW j \in 1..Len(ready'), ready'[i] = ready'[j]
                 PROVE  i = j
    BY DEF OnePlace
  <2>2. CASE i \in 1..Len(ready) /\ j \in 1..Len(ready)
    BY <1>4, <2>1, <2>2 DEF TurnInv, OnePlace
  <2>3. CASE i = Len(ready) + 1 /\ j \in 1..Len(ready)
    <3>1. ready[j] = s
      BY <1>4, <2>1, <2>3
    <3>2. QED
      BY <1>2, <2>3, <3>1 DEF InLine
  <2>4. CASE j = Len(ready) + 1 /\ i \in 1..Len(ready)
    <3>1. ready[i] = s
      BY <1>4, <2>1, <2>4
    <3>2. QED
      BY <1>2, <2>4, <3>1 DEF InLine
  <2>5. CASE i = Len(ready) + 1 /\ j = Len(ready) + 1
    BY <2>5
  <2>6. QED
    BY <1>3, <1>4, <2>1, <2>2, <2>3, <2>4, <2>5
<1>9. LineIsScheduled'
  <2>1. SUFFICES ASSUME NEW t \in Streams, streams[t] # 0, InLine(t)'
                 PROVE  object'[Mapped(t)].scheduled
    BY <1>6 DEF LineIsScheduled
  <2>2. CASE t = s
    BY <2>2
  <2>3. CASE t # s
    BY <1>5, <1>6, <1>7, <2>1, <2>3 DEF TurnInv, LineIsScheduled
  <2>4. QED
    BY <2>2, <2>3
<1>10. CallOnMapped'
  BY DEF TurnInv, NoNewCall, CallOnMapped
<1>11. NotAgain'
  <2>1. SUFFICES ASSUME NEW w \in Writers, streams[StreamOf[w]] = 0, InLine(StreamOf[w])'
                 PROVE  wpc'[w] = "stopped"
    BY DEF NotAgain
  <2>2. StreamOf[w] \in Streams /\ StreamOf[w] # s
    BY <2>1, DispatcherAssumption
  <2>3. InLine(StreamOf[w])
    BY <1>5, <2>1, <2>2
  <2>4. QED
    BY <2>1, <2>3 DEF TurnInv, NotAgain, NoNewCall
<1>12. PassedWaits'
  <2>1. SUFFICES ASSUME NEW t \in Streams, passed[t] # 0
                 PROVE  streams[t] # 0 /\ object'[Mapped(t)].scheduled /\ ~AtWork(t)'
    BY DEF PassedWaits, Mapped
  <2>2. streams[t] # 0 /\ object[Mapped(t)].scheduled /\ ~AtWork(t) /\ t # s
    BY <2>1 DEF TurnInv, PassedWaits
  <2>3. QED
    BY <1>6, <1>7, <2>2
<1>13. TurnComes'
  <2>1. SUFFICES ASSUME NEW i \in 1..Len(ready'), streams[ready'[i]] # 0
                 PROVE  passed[ready'[i]] + i <= Cardinality(Streams)
    BY DEF TurnComes
  <2>2. CASE i \in 1..Len(ready)
    BY <1>4, <2>1, <2>2 DEF TurnInv, TurnComes
  <2>3. CASE i = Len(ready) + 1
    <3>1. ready'[i] = s /\ passed[s] = 0
      BY <1>4, <2>3 DEF TurnInv, PassedWaits
    <3>2. QED
      BY <1>3, <2>3, <3>1
  <2>4. QED
    BY <1>3, <1>4, <2>2, <2>3
<1>14. QED
  BY <1>8, <1>9, <1>10, <1>11, <1>12, <1>13 DEF TurnInv

\* A stream is deleted at the end of its turn, when its writer has stopped.
LEMMA DeletionKeepsTurns ==
  ASSUME DispatcherInv, LossInv, TurnInv, OwnStreams, NEW s \in Streams, AtWork(s),
         streams[s] # 0, DeleteIfDrained(s), UNCHANGED <<object, ready, passed, wvars>>,
         \A t \in Streams : AtWork(t)' => AtWork(t)
  PROVE  TurnInv'
<1> USE DEF wvars
<1>1. Typed
  BY DEF DispatcherInv
<1>2. /\ \A t \in Streams : streams'[t] # 0 => streams'[t] = streams[t] /\ Mapped(t)' = Mapped(t)
      /\ \A t \in Streams : t # s => streams'[t] = streams[t]
  BY <1>1, Deleted DEF Mapped
<1>3. streams'[s] = streams[s] \/ \A w \in Writers : StreamOf[w] = s => wpc[w] = "stopped"
  <2>1. SUFFICES ASSUME streams'[s] # streams[s], NEW w \in Writers, StreamOf[w] = s
                 PROVE  wpc[w] = "stopped"
    OBVIOUS
  <2>2. object[Mapped(s)].draining
    BY <2>1 DEF DeleteIfDrained
  <2>3. PICK v \in Writers : StreamOf[v] = s /\ final[v] /\ Current(v) \in accepted
    BY <2>2 DEF LossInv, DrainingIsFinal
  <2>4. v = w
    BY <2>1, <2>3 DEF OwnStreams
  <2>5. QED
    BY <2>3, <2>4 DEF LossInv, FinalStops
<1>4. OnePlace'
  BY DEF TurnInv, OnePlace
<1>5. LineIsScheduled'
  BY <1>2 DEF TurnInv, LineIsScheduled, InLine
<1>6. CallOnMapped'
  <2>1. SUFFICES ASSUME NEW w \in Writers, wpc[w] \in Busy
                 PROVE  held[w] = streams'[StreamOf[w]]
    BY DEF CallOnMapped
  <2>2. StreamOf[w] \in Streams /\ held[w] = streams[StreamOf[w]]
    BY <2>1, DispatcherAssumption DEF TurnInv, CallOnMapped
  <2>3. streams'[StreamOf[w]] = streams[StreamOf[w]]
    BY <1>2, <1>3, <2>1, <2>2 DEF Busy
  <2>4. QED
    BY <2>2, <2>3
<1>7. NotAgain'
  <2>1. SUFFICES ASSUME NEW w \in Writers, streams'[StreamOf[w]] = 0, InLine(StreamOf[w])
                 PROVE  wpc[w] = "stopped"
    BY DEF NotAgain, InLine
  <2>2. CASE streams[StreamOf[w]] = 0
    BY <2>1, <2>2 DEF TurnInv, NotAgain
  <2>3. CASE streams[StreamOf[w]] # 0
    BY <1>2, <1>3, <2>1, <2>3, DispatcherAssumption
  <2>4. QED
    BY <2>2, <2>3
<1>8. PassedWaits'
  <2>1. SUFFICES ASSUME NEW t \in Streams, passed[t] # 0
                 PROVE  streams'[t] # 0 /\ object[Mapped(t)'].scheduled /\ ~AtWork(t)'
    BY DEF PassedWaits
  <2>2. streams[t] # 0 /\ object[Mapped(t)].scheduled /\ ~AtWork(t)
    BY <2>1 DEF TurnInv, PassedWaits
  <2>3. t # s
    BY <2>2
  <2>4. QED
    BY <1>2, <2>2, <2>3
<1>9. TurnComes'
  <2>1. \A i \in 1..Len(ready) : ready[i] \in Streams
    BY <1>1, ElementOfSeq DEF Typed
  <2>2. QED
    BY <1>2, <2>1 DEF TurnInv, TurnComes
<1>10. QED
  BY <1>4, <1>5, <1>6, <1>7, <1>8, <1>9 DEF TurnInv

\* The first critical section of a call: a stream that is new to the map is not in the line.
LEMMA EnterKeepsTurns ==
  ASSUME DispatcherInv, TurnInv, OwnStreams, NEW w \in Writers, NEW last \in BOOLEAN,
         Enter(w, last)
  PROVE  TurnInv'
<1> DEFINE s == StreamOf[w]
<1>1. Typed /\ CallsUnderWay /\ s \in Streams
  BY DispatcherAssumption DEF DispatcherInv
<1>2. /\ wpc[w] \in {"idle", "aborted"} /\ wpc' = [wpc EXCEPT ![w] = "push"]
      /\ UNCHANGED <<ready, dpc, taken, passed>>
  BY DEF Enter, GotoW, queues, dvars, hist
<1>3. \A v \in Writers : v # w => wpc'[v] = wpc[v] /\ StreamOf[v] # s
  BY <1>1, <1>2 DEF Typed, OwnStreams
<1>4. /\ held'[w] = streams'[s] /\ held'[w] # 0
      /\ \A v \in Writers : v # w => held'[v] = held[v]
      /\ \A t \in Streams : t # s => streams'[t] = streams[t]
      /\ streams[s] # 0 => UNCHANGED <<streams, object>>
      /\ streams[s] = 0 =>
           \A o \in Objects : o # <<s, held'[w]>> => object'[o] = object[o]
  <2>1. 0 \notin Ids
    BY DEF Ids
  <2>2. /\ held'[w] = streams'[StreamOf[w]] /\ held'[w] \in Ids
        /\ \A v \in Writers : v # w => held'[v] = held[v]
        /\ \A t \in Streams : t # StreamOf[w] => streams'[t] = streams[t]
        /\ streams[StreamOf[w]] # 0 => UNCHANGED <<streams, object>>
        /\ streams[StreamOf[w]] = 0 =>
             \A o \in Objects : o # <<StreamOf[w], held'[w]>> => object'[o] = object[o]
    BY <1>1, EnterEffect
  <2>3. QED
    BY <2>1, <2>2
<1>5. streams[s] = 0 => ~InLine(s)
  BY <1>2 DEF TurnInv, NotAgain
<1>6. ASSUME NEW t \in Streams, streams[t] # 0
      PROVE  /\ Mapped(t) \in Objects /\ Mapped(t)' = Mapped(t) /\ streams'[t] # 0
             /\ object'[Mapped(t)] = object[Mapped(t)]
  <2>1. Mapped(t) \in Objects
    BY <1>1, <1>6, ObjectsInUse
  <2>2. CASE streams[s] # 0
    BY <1>4, <1>6, <2>1, <2>2 DEF Mapped
  <2>3. CASE streams[s] = 0
    <3>1. t # s /\ streams'[t] = streams[t]
      BY <1>4, <1>6, <2>3
    <3>2. Mapped(t) # <<s, held'[w]>>
      BY <3>1 DEF Mapped
    <3>3. QED
      BY <1>4, <1>6, <2>1, <2>3, <3>1, <3>2 DEF Mapped
  <2>4. QED
    BY <2>2, <2>3
<1>7. OnePlace'
  BY <1>2 DEF TurnInv, OnePlace
<1>8. LineIsScheduled'
  <2>1. SUFFICES ASSUME NEW t \in Streams, streams'[t] # 0, InLine(t)
                 PROVE  object'[Mapped(t)'].scheduled
    BY <1>2 DEF LineIsScheduled, InLine
  <2>2. streams[t] # 0
    BY <1>4, <1>5, <2>1
  <2>3. QED
    BY <1>6, <2>1, <2>2 DEF TurnInv, LineIsScheduled
<1>9. CallOnMapped'
  <2>1. SUFFICES ASSUME NEW v \in Writers, wpc'[v] \in Busy
                 PROVE  held'[v] = streams'[StreamOf[v]]
    BY DEF CallOnMapped
  <2>2. CASE v = w
    BY <1>4, <2>2
  <2>3. CASE v # w
    <3>1. StreamOf[v] \in Streams /\ held[v] = streams[StreamOf[v]]
      BY <1>3, <2>1, <2>3, DispatcherAssumption DEF TurnInv, CallOnMapped
    <3>2. QED
      BY <1>3, <1>4, <2>3, <3>1
  <2>4. QED
    BY <2>2, <2>3
<1>10. NotAgain'
  <2>1. SUFFICES ASSUME NEW v \in Writers, streams'[StreamOf[v]] = 0, InLine(StreamOf[v])
                 PROVE  wpc'[v] = "stopped"
    BY <1>2 DEF NotAgain, InLine
  <2>2. v # w
    BY <1>4, <2>1
  <2>3. StreamOf[v] \in Streams /\ streams[StreamOf[v]] = 0
    BY <1>3, <1>4, <2>1, <2>2, DispatcherAssumption
  <2>4. QED
    BY <1>3, <2>1, <2>2, <2>3 DEF TurnInv, NotAgain
<1>11. PassedWaits'
  <2>1. SUFFICES ASSUME NEW t \in Streams, passed[t] # 0
                 PROVE  streams'[t] # 0 /\ object'[Mapped(t)'].scheduled /\ ~AtWork(t)'
    BY <1>2 DEF PassedWaits
  <2>2. streams[t] # 0 /\ object[Mapped(t)].scheduled /\ ~AtWork(t)
    BY <2>1 DEF TurnInv, PassedWaits
  <2>3. QED
    BY <1>2, <1>6, <2>2 DEF AtWork
<1>12. TurnComes'
  <2>1. SUFFICES ASSUME NEW i \in 1..Len(ready), streams'[ready[i]] # 0
                 PROVE  passed[ready[i]] + i <= Cardinality(Streams)
    BY <1>2 DEF TurnComes
  <2>2. ready[i] \in Streams /\ InLine(ready[i])
    BY <1>1, ElementOfSeq DEF Typed, InLine
  <2>3. streams[ready[i]] # 0
    BY <1>4, <1>5, <2>1, <2>2
  <2>4. QED
    BY <2>3 DEF TurnInv, TurnComes
<1>13. QED
  BY <1>7, <1>8, <1>9, <1>10, <1>11, <1>12 DEF TurnInv

\* The second critical section.
LEMMA MarkKeepsTurns ==
  ASSUME DispatcherInv, TurnInv, IsFiniteSet(Streams), NEW w \in Writers, Mark(w)
  PROVE  TurnInv'
<1> DEFINE s == StreamOf[w]
<1>1. Typed /\ CallsUnderWay
  BY DEF DispatcherInv
<1>2. /\ wpc[w] = "mark" /\ Schedule(Held(w), final[w])
      /\ \/ object[Held(w)].scheduled /\ ready' = ready
         \/ ~object[Held(w)].scheduled /\ ready' = Append(ready, s)
      /\ held' = [held EXCEPT ![w] = 0]
      /\ wpc' = [wpc EXCEPT ![w] = IF final[w] THEN "stopped" ELSE "idle"]
      /\ UNCHANGED <<streams, dpc, taken, passed>>
  BY DEF Mark, Accept, GotoW, dvars
<1>3. s \in Streams /\ Held(w) = Mapped(s) /\ Held(w) \in Objects /\ streams[s] # 0
  <2>1. held[w] = streams[s] /\ held[w] # 0
    BY <1>1, <1>2 DEF TurnInv, CallOnMapped, CallsUnderWay, Busy
  <2>2. QED
    BY <1>1, <1>2, <2>1, ObjectsInUse DEF Held, Mapped, Busy
<1>4. /\ object'[Mapped(s)].scheduled
      /\ \A o \in Objects : o # Mapped(s) => object'[o] = object[o]
  <2>1. /\ object' = ScheduledIn(object, Mapped(s), final[w]) /\ Mapped(s) \in Objects
        /\ final[w] \in BOOLEAN /\ object \in [Objects -> DispatchStream]
    BY <1>1, <1>2, <1>3 DEF Schedule, ScheduledIn, Typed
  <2>2. QED
    BY <2>1, Scheduled
<1>5. NoNewCall
  BY <1>1, <1>2 DEF NoNewCall, Busy, Typed
<1>6. \A t \in Streams : AtWork(t)' => AtWork(t)
  BY <1>2 DEF AtWork
<1>7. CASE object[Mapped(s)].scheduled
  <2>1. \A o \in Objects : object'[o].scheduled <=> object[o].scheduled
    BY <1>4, <1>7
  <2>2. ready' = ready
    BY <1>2, <1>3, <1>7
  <2>3. QED
    BY <1>2, <1>5, <1>6, <2>1, <2>2, QuietKeepsTurns
<1>8. CASE ~object[Mapped(s)].scheduled
  <2>1. ready' = Append(ready, s)
    BY <1>2, <1>3, <1>8
  <2>2. QED
    BY <1>2, <1>3, <1>4, <1>5, <1>6, <1>8, <2>1, JoinKeepsTurns
<1>9. QED
  BY <1>7, <1>8

\* The dispatcher takes the first in line: everyone else moves one place up.
LEMMA NextStreamKeepsTurns ==
  ASSUME DispatcherInv, TurnInv, IsFiniteSet(Streams), NextStream
  PROVE  TurnInv'
<1> DEFINE x == Head(ready)
<1>1. Typed /\ CallsUnderWay
  BY DEF DispatcherInv
<1>2. /\ dpc = "next" /\ ready # <<>> /\ ready' = Tail(ready)
      /\ UNCHANGED <<streams, wpc, held>>
  BY DEF NextStream, wvars
<1>3. /\ Len(ready) \in Nat \ {0} /\ Len(ready') = Len(ready) - 1
      /\ \A i \in 1..Len(ready') : i + 1 \in 1..Len(ready) /\ ready'[i] = ready[i + 1]
      /\ x = ready[1] /\ x \in Streams
      /\ \A i \in 1..Len(ready) : ready[i] \in Streams
  <2>1. ready \in Seq(Streams)
    BY <1>1 DEF Typed
  <2>2. Len(ready) \in Nat \ {0} /\ \A i \in 1..Len(ready) : ready[i] \in Streams
    BY <1>2, <2>1, LenProperties, EmptySeq, ElementOfSeq
  <2>3. /\ Len(ready') = Len(ready) - 1 /\ x = ready[1]
        /\ \A i \in 1..Len(ready') : ready'[i] = ready[i + 1]
    BY <1>2, <2>1, HeadTailProperties
  <2>4. QED
    BY <2>2, <2>3
<1>4. \A t \in Streams : streams[t] # 0 => Mapped(t) \in Objects
  BY <1>1, ObjectsInUse
<1>5. \A t \in Streams : InLine(t)' => InLine(t) /\ t # x
  <2>1. SUFFICES ASSUME NEW t \in Streams, NEW i \in 1..Len(ready'), ready'[i] = t
                 PROVE  InLine(t) /\ t # x
    BY DEF InLine
  <2>2. i + 1 \in 1..Len(ready) /\ ready[i + 1] = t
    BY <1>3, <2>1
  <2>3. 1 \in 1..Len(ready) /\ i + 1 # 1
    BY <1>3, <2>2
  <2>4. ready[i + 1] # ready[1]
    BY <2>2, <2>3 DEF TurnInv, OnePlace
  <2>5. QED
    BY <1>3, <2>2, <2>4 DEF InLine
<1>6. /\ streams[x] = 0 => UNCHANGED <<object, dpc, taken, passed>>
      /\ streams[x] # 0 =>
           /\ object' = UnscheduledIn(object, Mapped(x))
           /\ passed' = [t \in Streams |->
                IF t # x /\ streams[t] # 0 /\ object[Mapped(t)].scheduled
                THEN passed[t] + 1 ELSE 0]
           /\ taken' = x /\ dpc' = "receive"
  BY DEF NextStream, UnscheduledIn, GotoD, dvars
<1> HIDE DEF x
<1>7. \A o \in Objects : o # Mapped(x) \/ streams[x] = 0 => object'[o] = object[o]
  <2>1. CASE streams[x] = 0
    BY <1>6, <2>1
  <2>2. CASE streams[x] # 0
    <3>1. Mapped(x) \in Objects /\ object \in [Objects -> DispatchStream]
      BY <1>1, <1>3, <1>4, <2>2 DEF Typed
    <3>2. QED
      BY <1>6, <2>2, <3>1, Unscheduled
  <2>3. QED
    BY <2>1, <2>2
<1>8. ASSUME NEW t \in Streams
      PROVE  /\ passed[t] \in Nat /\ passed'[t] \in Nat /\ passed'[t] <= passed[t] + 1
             /\ passed'[t] # 0 => /\ streams[t] # 0 /\ object[Mapped(t)].scheduled
                                  /\ (t # x \/ streams[x] = 0) /\ ~AtWork(t)'
  <2>1. passed[t] \in Nat
    BY <1>1 DEF Typed
  <2>2. CASE streams[x] = 0
    <3>1. passed'[t] = passed[t] /\ (AtWork(t)' <=> AtWork(t))
      BY <1>6, <2>2 DEF AtWork
    <3>2. QED
      BY <2>1, <2>2, <3>1 DEF TurnInv, PassedWaits
  <2>3. CASE streams[x] # 0
    <3>1. passed'[t] = IF t # x /\ streams[t] # 0 /\ object[Mapped(t)].scheduled
                       THEN passed[t] + 1 ELSE 0
      BY <1>6, <2>3
    <3>2. AtWork(t)' => t = x
      BY <1>6, <2>3 DEF AtWork
    <3>3. CASE t # x /\ streams[t] # 0 /\ object[Mapped(t)].scheduled
      <4>1. passed'[t] = passed[t] + 1
        BY <3>1, <3>3
      <4>2. QED
        BY <2>1, <3>2, <3>3, <4>1
    <3>4. CASE ~(t # x /\ streams[t] # 0 /\ object[Mapped(t)].scheduled)
      <4>1. passed'[t] = 0
        BY <3>1, <3>4
      <4>2. QED
        BY <2>1, <4>1
    <3>5. QED
      BY <3>3, <3>4
  <2>4. QED
    BY <2>2, <2>3
<1>9. OnePlace'
  <2>1. SUFFICES ASSUME NEW i \in 1..Len(ready'), NEW j \in 1..Len(ready'), ready'[i] = ready'[j]
                 PROVE  i = j
    BY DEF OnePlace
  <2>2. ready[i + 1] = ready[j + 1] /\ i + 1 \in 1..Len(ready) /\ j + 1 \in 1..Len(ready)
    BY <1>3, <2>1
  <2>3. i + 1 = j + 1
    BY <2>2 DEF TurnInv, OnePlace
  <2>4. QED
    BY <2>3
<1>10. LineIsScheduled'
  <2>1. SUFFICES ASSUME NEW t \in Streams, streams[t] # 0, InLine(t)'
                 PROVE  object'[Mapped(t)].scheduled
    BY <1>2 DEF LineIsScheduled, Mapped
  <2>2. InLine(t) /\ t # x /\ Mapped(t) # Mapped(x)
    BY <1>5, <2>1 DEF Mapped
  <2>3. QED
    BY <1>4, <1>7, <2>1, <2>2 DEF TurnInv, LineIsScheduled
<1>11. CallOnMapped'
  BY <1>2 DEF TurnInv, CallOnMapped
<1>12. NotAgain'
  BY <1>2, <1>5, DispatcherAssumption DEF TurnInv, NotAgain
<1>13. PassedWaits'
  <2>1. SUFFICES ASSUME NEW t \in Streams, passed'[t] # 0
                 PROVE  streams[t] # 0 /\ object'[Mapped(t)].scheduled /\ ~AtWork(t)'
    BY <1>2 DEF PassedWaits, Mapped
  <2>2. streams[t] # 0 /\ object[Mapped(t)].scheduled /\ (t # x \/ streams[x] = 0) /\ ~AtWork(t)'
    BY <1>8, <2>1
  <2>3. Mapped(t) \in Objects /\ (Mapped(t) # Mapped(x) \/ streams[x] = 0)
    BY <1>4, <2>2 DEF Mapped
  <2>4. QED
    BY <1>7, <2>2, <2>3
<1>14. TurnComes'
  <2>1. SUFFICES ASSUME NEW i \in 1..Len(ready'), streams[ready'[i]] # 0
                 PROVE  passed'[ready'[i]] + i <= Cardinality(Streams)
    BY <1>2 DEF TurnComes
  <2> DEFINE t == ready'[i]
  <2>2. i + 1 \in 1..Len(ready) /\ t = ready[i + 1] /\ t \in Streams
    BY <1>3, <2>1
  <2>3. passed[t] + (i + 1) <= Cardinality(Streams)
    BY <2>1, <2>2 DEF TurnInv, TurnComes
  <2>4. passed[t] \in Nat /\ passed'[t] \in Nat /\ passed'[t] <= passed[t] + 1
    BY <1>8, <2>2
  <2> HIDE DEF t
  <2>5. passed'[t] + i <= passed[t] + (i + 1)
    BY <2>4
  <2>6. Cardinality(Streams) \in Nat /\ i \in Nat
    BY FS_CardinalityType
  <2>7. QED
    BY <2>3, <2>4, <2>5, <2>6 DEF t
<1>15. QED
  BY <1>9, <1>10, <1>11, <1>12, <1>13, <1>14 DEF TurnInv

\* The end of a turn: back in the line, or deleted.
LEMMA TurnEndKeepsTurns ==
  ASSUME DispatcherInv, LossInv, TurnInv, OwnStreams, IsFiniteSet(Streams), After \/ Empty
  PROVE  TurnInv'
<1>1. Typed /\ CallsUnderWay /\ InHand
  BY DEF DispatcherInv
<1>2. NoNewCall
  BY DEF NoNewCall, After, Empty, wvars
<1>3. CASE Empty
  <2>1. /\ taken \in Streams /\ streams[taken] # 0 /\ AtWork(taken) /\ DeleteIfDrained(taken)
        /\ UNCHANGED <<object, ready, passed, wvars>>
    BY <1>1, <1>3 DEF Empty, InHand, AtWork, queues, hist
  <2>2. \A t \in Streams : ~AtWork(t)'
    BY <1>3 DEF Empty, GotoD, AtWork
  <2>3. QED
    BY <2>1, <2>2, DeletionKeepsTurns
<1>4. CASE After
  <2> DEFINE s == StreamOf[taken[1]]
             o == Mapped(s)
  <2>1. s \in Streams /\ streams[s] # 0 /\ AtWork(s) /\ o \in Objects
    <3>1. s \in Streams /\ streams[s] # 0
      BY <1>1, <1>4, AfterEffect
    <3>2. QED
      BY <1>1, <1>4, <3>1, ObjectsInUse DEF After, AtWork
  <2>2. \A t \in Streams : ~AtWork(t)'
    BY <1>4 DEF After, GotoD, AtWork
  <2>3. UNCHANGED <<passed, wvars>>
    BY <1>4 DEF After, hist
  <2>4. CASE ~object[o].scheduled /\ Schedule(o, FALSE) /\ ready' = Append(ready, s)
             /\ UNCHANGED streams
    <3>1. /\ object'[o].scheduled
          /\ \A p \in Objects : p # o => object'[p] = object[p]
      <4>1. object \in [Objects -> DispatchStream]
        BY <1>1 DEF Typed
      <4>2. PICK d \in BOOLEAN : object' = ScheduledIn(object, o, d)
        BY <2>4 DEF Schedule, ScheduledIn
      <4> HIDE DEF o, s
      <4>3. QED
        BY <2>1, <4>1, <4>2, Scheduled
    <3> HIDE DEF s
    <3>2. QED
      BY <1>2, <2>1, <2>2, <2>3, <2>4, <3>1, JoinKeepsTurns
  <2>5. CASE DeleteIfDrained(s) /\ UNCHANGED <<object, ready, wake>>
    <3> HIDE DEF s
    <3>1. QED
      BY <2>1, <2>2, <2>3, <2>5, DeletionKeepsTurns
  <2>6. QED
    BY <1>4, <2>4, <2>5 DEF After
<1>5. QED
  BY <1>3, <1>4

\* The dispatcher takes a message: it is still at work on the same stream.
LEMMA ReceiveKeepsTurns ==
  ASSUME DispatcherInv, TurnInv, Receive
  PROVE  TurnInv'
<1> DEFINE p == Mapped(taken)
           q == object[p].queue
<1>1. Typed /\ CallsUnderWay /\ InHand
  BY DEF DispatcherInv
<1>2. /\ dpc = "receive" /\ taken \in Streams /\ streams[taken] # 0 /\ p \in Objects
      /\ object \in [Objects -> DispatchStream]
      /\ streams' = streams /\ ready' = ready /\ passed' = passed
  BY <1>1, ObjectsInUse DEF Receive, InHand, Typed, queues, hist
<1>3. NoNewCall
  BY DEF NoNewCall, Receive, wvars
<1>4. AtWork(taken) /\ p[1] = taken
  BY <1>2 DEF AtWork, Mapped
<1>5. CASE q = <<>>
  <2>1. object' = object /\ dpc' = "empty" /\ taken' = taken
    BY <1>5 DEF Receive, GotoD
  <2>2. \A s \in Streams : AtWork(s)' => AtWork(s)
    BY <1>2, <2>1 DEF AtWork
  <2>3. QED
    BY <1>2, <1>3, <2>1, <2>2, QuietKeepsTurns
<1>6. CASE q # <<>>
  <2>1. object' = PoppedFrom(object, p) /\ dpc' = "after" /\ taken' = Head(q)
    BY <1>6 DEF Receive, GotoD, PoppedFrom
  <2> HIDE DEF p
  <2>2. /\ \A o \in Objects : o # p => object'[o] = object[o]
        /\ object'[p].scheduled = object[p].scheduled
        /\ Len(q) \in Nat \ {0} /\ Head(q) = q[1]
    BY <1>2, <1>6, <2>1, Popped
  <2>3. StreamOf[taken'[1]] = taken
    <3>1. 1 \in 1..Len(q)
      BY <2>2
    <3>2. StreamOf[q[1][1]] = p[1]
      BY <1>2, <3>1 DEF DispatcherInv, OwnMessages
    <3>3. QED
      BY <1>4, <2>1, <2>2, <3>2
  <2>4. \A s \in Streams : AtWork(s)' => AtWork(s)
    BY <1>4, <2>1, <2>3 DEF AtWork
  <2>5. QED
    BY <1>2, <1>3, <2>2, <2>4, QuietKeepsTurns
<1>7. QED
  BY <1>5, <1>6

\* A message is pushed: the stream is as scheduled as before.
LEMMA PushKeepsTurns ==
  ASSUME DispatcherInv, TurnInv, NEW w \in Writers, Push(w)
  PROVE  TurnInv'
<1>1. Typed /\ CallsUnderWay
  BY DEF DispatcherInv
<1>2. /\ wpc[w] = "push" /\ wpc' = [wpc EXCEPT ![w] = "mark"]
      /\ UNCHANGED <<streams, ready, passed, dpc, taken, held>>
  BY DEF Push, GotoW, queues, dvars, hist
<1>3. \A o \in Objects : object'[o].scheduled <=> object[o].scheduled
  <2>1. /\ object' = PushedOnto(object, Held(w), Current(w)) /\ Held(w) \in Objects
        /\ Current(w) \in Messages /\ object \in [Objects -> DispatchStream]
    BY <1>1, <1>2, ObjectsInUse DEF Push, PushedOnto, Busy, Typed
  <2>2. /\ \A o \in Objects : o # Held(w) => object'[o] = object[o]
        /\ object'[Held(w)].scheduled = object[Held(w)].scheduled
    BY <2>1, Pushed
  <2>3. QED
    BY <2>2
<1>4. NoNewCall
  BY <1>1, <1>2 DEF NoNewCall, Busy, Typed
<1>5. \A s \in Streams : AtWork(s)' => AtWork(s)
  BY <1>2 DEF AtWork
<1>6. QED
  BY <1>2, <1>3, <1>4, <1>5, QuietKeepsTurns

\* The other steps.
LEMMA OthersKeepTurns ==
  ASSUME DispatcherInv, TurnInv,
         \/ EnqueueControl \/ NextControl \/ NextIdle \/ Wake \/ WaitEnds \/ Send \/ SendFails
         \/ Close \/ Signal \/ UNCHANGED vars
         \/ \E w \in Writers : GiveUp(w) \/ PushCanceled(w) \/ PushClosed(w) \/ MarkClosed(w)
  PROVE  TurnInv'
<1> USE DEF vars, mvars, queues, shut, wvars, dvars, hist
<1>1. Typed
  BY DEF DispatcherInv
<1>2. CASE \/ EnqueueControl \/ NextControl \/ NextIdle \/ Wake \/ WaitEnds \/ Send \/ SendFails
           \/ Close \/ Signal \/ UNCHANGED vars
  <2>1. UNCHANGED <<streams, object, ready, passed, wpc, held>>
    BY <1>2 DEF EnqueueControl, NextControl, NextIdle, Wake, WaitEnds, Send, SendFails, Close,
       Signal
  <2>2. \A s \in Streams : AtWork(s)' => AtWork(s)
    BY <1>2 DEF AtWork, GotoD, EnqueueControl, NextControl, NextIdle, Wake, WaitEnds, Send,
       SendFails, Close, Signal
  <2>3. NoNewCall
    BY <2>1 DEF NoNewCall
  <2>4. QED
    BY <2>1, <2>2, <2>3, QuietKeepsTurns
<1>3. ASSUME NEW w \in Writers, GiveUp(w) \/ PushCanceled(w) \/ PushClosed(w) \/ MarkClosed(w)
      PROVE  TurnInv'
  <2>1. UNCHANGED <<streams, object, ready, passed, dpc, taken>>
    BY <1>3 DEF GiveUp, PushCanceled, PushClosed, MarkClosed
  <2>2. /\ wpc[w] # "stopped" /\ \E l \in {"stopped", "aborted"} : wpc' = [wpc EXCEPT ![w] = l]
        /\ held' = held \/ held' = [held EXCEPT ![w] = 0]
    BY <1>3 DEF GiveUp, PushCanceled, PushClosed, MarkClosed, Fail, GotoW
  <2>3. NoNewCall
    BY <1>1, <2>2 DEF NoNewCall, Busy, Typed
  <2>4. \A s \in Streams : AtWork(s)' => AtWork(s)
    BY <2>1 DEF AtWork
  <2>5. QED
    BY <2>1, <2>3, <2>4, QuietKeepsTurns
<1>4. QED
  BY <1>2, <1>3

\* Nobody is in the line.
LEMMA InitTurns == DispatcherInit => TurnInv
<1> SUFFICES ASSUME DispatcherInit
             PROVE  TurnInv
  OBVIOUS
<1>1. 1..Len(ready) = {}
  BY DEF DispatcherInit
<1>2. OnePlace /\ TurnComes /\ LineIsScheduled /\ NotAgain
  BY <1>1 DEF OnePlace, TurnComes, LineIsScheduled, NotAgain, InLine
<1>3. CallOnMapped /\ PassedWaits
  BY DEF DispatcherInit, CallOnMapped, PassedWaits, Busy
<1>4. QED
  BY <1>2, <1>3 DEF TurnInv

\* Every step keeps the invariant.
LEMMA NextTurns ==
  ASSUME DispatcherInv, LossInv, TurnInv, OwnStreams, IsFiniteSet(Streams),
         [DispatcherNext]_vars
  PROVE  TurnInv'
<1>1. CASE DispatcherStep \/ EnqueueControl \/ Close \/ Signal \/ UNCHANGED vars
  BY <1>1, NextStreamKeepsTurns, TurnEndKeepsTurns, ReceiveKeepsTurns, OthersKeepTurns
     DEF DispatcherStep
<1>2. ASSUME NEW w \in Writers, WriterStep(w)
      PROVE  TurnInv'
  BY <1>2, EnterKeepsTurns, PushKeepsTurns, MarkKeepsTurns, OthersKeepTurns DEF WriterStep
<1>3. QED
  BY <1>1, <1>2 DEF DispatcherNext

\* Round robin on a connection whose streams have one writer each: a stream that waits for its
\* turn is passed at most once by each other stream, for any number of streams and however
\* much the others have to send (next, afterStreamMessage; docs/architecture.md: "large
\* bodies ... do not monopolize the connection").
THEOREM RoundRobinHolds ==
  ASSUME OwnStreams, IsFiniteSet(Streams)
  PROVE  DispatcherSpec => []RoundRobin
<1>1. DispatcherInit => LossInv /\ TurnInv
  BY InitLoss, InitTurns
<1>2. DispatcherInv /\ LossInv /\ TurnInv /\ [DispatcherNext]_vars => LossInv' /\ TurnInv'
  BY NextLoss, NextTurns
<1>3. DispatcherInv /\ TurnInv => RoundRobin
  <2> SUFFICES ASSUME DispatcherInv, TurnInv, NEW s \in Streams
               PROVE  passed[s] < Cardinality(Streams)
    BY DEF RoundRobin
  <2>1. passed[s] \in Nat /\ Cardinality(Streams) \in Nat \ {0}
    BY FS_CardinalityType, FS_EmptySet DEF DispatcherInv, Typed
  <2>2. CASE passed[s] = 0
    BY <2>1, <2>2
  <2>3. CASE passed[s] # 0
    <3>1. streams[s] # 0 /\ InLine(s)
      BY <2>3 DEF TurnInv, PassedWaits, DispatcherInv, ScheduledInLine
    <3>2. PICK i \in 1..Len(ready) : ready[i] = s
      BY <3>1 DEF InLine
    <3>3. passed[s] + i <= Cardinality(Streams)
      BY <3>1, <3>2 DEF TurnInv, TurnComes
    <3>4. QED
      BY <2>1, <3>3
  <2>4. QED
    BY <2>2, <2>3
<1>4. QED
  BY <1>1, <1>2, <1>3, DispatcherInductive, PTL DEF DispatcherSpec

-----------------------------------------------------------------------------
(* What the liveness properties rest on, whatever the scheduler does: the  *)
(* dispatcher never sleeps on a message, and a stream that is finished is  *)
(* on its way out.                                                         *)

\* The wake-up of everything that waits is pending while the dispatcher sleeps.
Awake == dpc = "wait" => (control = 0 /\ ready = <<>>) \/ wake

\* Every step keeps it.
LEMMA NextAwake ==
  ASSUME Typed, Awake, [DispatcherNext]_vars
  PROVE  Awake'
<1> USE DEF vars, mvars, queues, shut, wvars, dvars, hist, Awake
<1>1. CASE DispatcherStep
  <2>1. CASE NextIdle
    <3>1. control' = 0 /\ ready' = <<>>
      BY <2>1 DEF NextIdle
    <3>2. QED
      BY <3>1
  <2>2. CASE ~NextIdle
    <3>1. dpc' # "wait"
      BY <1>1, <2>2 DEF DispatcherStep, NextControl, NextStream, Wake, WaitEnds, Receive, After,
         Empty, Send, SendFails, GotoD
    <3>2. QED
      BY <3>1
  <2>3. QED
    BY <2>1, <2>2
<1>2. ASSUME NEW w \in Writers, WriterStep(w)
      PROVE  Awake'
  <2>1. UNCHANGED <<control, dpc>> /\ (UNCHANGED <<ready, wake>> \/ wake')
    BY <1>2 DEF WriterStep, Enter, GiveUp, Push, PushCanceled, PushClosed, Mark, MarkClosed
  <2>2. QED
    BY <2>1
<1>3. CASE EnqueueControl \/ Signal
  <2>1. wake'
    BY <1>3 DEF EnqueueControl, Signal
  <2>2. QED
    BY <2>1
<1>4. CASE Close \/ UNCHANGED vars
  <2>1. UNCHANGED <<control, ready, wake, dpc>>
    BY <1>4 DEF Close
  <2>2. QED
    BY <2>1
<1>5. QED
  BY <1>1, <1>2, <1>3, <1>4 DEF DispatcherNext

\* The dispatcher waits, and nothing has been put on wakeCh for it.
Asleep == dpc = "wait" /\ ~wake

\* The writer's call is about to wake it: it waits for the second lock.
AboutToWake(s) == \E w \in Writers : wpc[w] = "mark" /\ StreamOf[w] = s

\* While the dispatcher sleeps there is nothing to do: no control message waits, and each
\* message whose EnqueueStream returned nil is sent, or overtaken by another goroutine's final
\* message, or in a stream that a call still under way will put in the line (wakeCh, next,
\* EnqueueStream).
THEOREM SleepsOnNothing ==
  DispatcherSpec =>
    [](Asleep /\ ~closed =>
         /\ control = 0
         /\ \A m \in accepted :
              m \in sent \/ Overtaken(m[1]) \/ AboutToWake(StreamOf[m[1]]))
<1>1. DispatcherInit => LossInv /\ Awake
  <2>1. DispatcherInit => Awake
    BY DEF DispatcherInit, Awake
  <2>2. QED
    BY <2>1, InitLoss
<1>2. DispatcherInv /\ LossInv /\ Awake /\ [DispatcherNext]_vars => LossInv' /\ Awake'
  BY NextLoss, NextAwake DEF DispatcherInv
<1>3. ASSUME DispatcherInv, LossInv, Awake, Asleep, ~closed
      PROVE  /\ control = 0
             /\ \A m \in accepted :
                  m \in sent \/ Overtaken(m[1]) \/ AboutToWake(StreamOf[m[1]])
  <2>1. dpc = "wait" /\ control = 0 /\ ready = <<>>
    BY <1>3 DEF Awake, Asleep
  <2>2. ASSUME NEW m \in accepted, m \notin sent, ~Overtaken(m[1])
        PROVE  AboutToWake(StreamOf[m[1]])
    <3>1. OnItsWay(m)
      BY <1>3, <2>2, LostMeans DEF LossInv
    <3>2. InQueue(m)
      BY <2>1, <2>2, <3>1 DEF OnItsWay
    <3>3. PICK s \in Streams : streams[s] # 0 /\
            \E i \in 1..Len(object[Mapped(s)].queue) : object[Mapped(s)].queue[i] = m
      BY <3>2 DEF InQueue
    <3>4. Mapped(s) \in Objects /\ Mapped(s)[1] = s /\ object[Mapped(s)].queue \in Seq(Messages)
      BY <1>3, <3>3, ObjectsInUse DEF DispatcherInv, Mapped
    <3>5. StreamOf[m[1]] = s
      BY <1>3, <3>3, <3>4 DEF DispatcherInv, OwnMessages
    <3>6. object[Mapped(s)].queue # <<>>
      <4>1. Len(object[Mapped(s)].queue) # 0
        BY <3>3, <3>4, LenProperties
      <4>2. QED
        BY <3>4, <4>1, EmptySeq
    <3>7. LookedAfter(s)
      BY <1>3, <3>3, <3>6, StrandedMeans DEF DispatcherInv
    <3>8. ~InLine(s)
      <4>1. Len(ready) = 0
        BY <2>1
      <4>2. QED
        BY <4>1 DEF InLine
    <3>9. PICK w \in Writers : wpc[w] = "mark" /\ Held(w) = Mapped(s)
      BY <2>1, <3>7, <3>8 DEF LookedAfter
    <3>10. StreamOf[w] = s
      BY <3>9 DEF Held, Mapped
    <3>11. QED
      BY <3>5, <3>9, <3>10 DEF AboutToWake
  <2>3. QED
    BY <2>1, <2>2
<1>4. QED
  BY <1>1, <1>2, <1>3, DispatcherInductive, PTL DEF DispatcherSpec

\* The writer's final message is accepted.
Finished(w) == final[w] /\ Current(w) \in accepted

\* A stream of its own then drains, and has its turn or waits for it.
Leaving(w) ==
  Finished(w) /\ streams[StreamOf[w]] # 0 =>
    /\ object[Mapped(StreamOf[w])].draining
    /\ object[Mapped(StreamOf[w])].scheduled \/ AtWork(StreamOf[w])

FinishedInv == ~closed => \A w \in Writers : Leaving(w)

\* Steps that leave the streams of finished writers alone.
LEMMA StillLeaving ==
  ASSUME DispatcherInv, DispatcherInv', FinishedInv, NEW w \in Writers,
         Finished(w)' => Finished(w), closed => closed', ~closed',
         streams'[StreamOf[w]] # 0 =>
           /\ streams'[StreamOf[w]] = streams[StreamOf[w]]
           /\ object[Mapped(StreamOf[w])].draining => object'[Mapped(StreamOf[w])].draining
           /\ object[Mapped(StreamOf[w])].scheduled =>
                object'[Mapped(StreamOf[w])].scheduled \/ AtWork(StreamOf[w])'
           /\ AtWork(StreamOf[w]) =>
                object'[Mapped(StreamOf[w])].scheduled \/ AtWork(StreamOf[w])'
  PROVE  Leaving(w)'
<1>1. SUFFICES ASSUME Finished(w)', streams'[StreamOf[w]] # 0
               PROVE  /\ object'[Mapped(StreamOf[w])'].draining
                      /\ object'[Mapped(StreamOf[w])'].scheduled \/ AtWork(StreamOf[w])'
  BY DEF Leaving
<1>2. Mapped(StreamOf[w])' = Mapped(StreamOf[w]) /\ streams[StreamOf[w]] # 0
  BY <1>1 DEF Mapped
<1>3. Leaving(w)
  BY DEF FinishedInv
<1>4. QED
  BY <1>1, <1>2, <1>3 DEF Leaving

\* Steps of the dispatcher: nothing is accepted.
LEMMA NothingFinishes ==
  ASSUME UNCHANGED <<final, calls, accepted>>
  PROVE  \A w \in Writers : Finished(w)' => Finished(w)
BY DEF Finished, Current

\* A call begins: the stream of another writer stays, and its own has not finished.
LEMMA EnterKeepsLeaving ==
  ASSUME DispatcherInv, DispatcherInv', LossInv', OwnStreams, FinishedInv,
         NEW v \in Writers, NEW last \in BOOLEAN, Enter(v, last)
  PROVE  FinishedInv'
<1>1. Typed /\ CallsUnderWay
  BY DEF DispatcherInv
<1>2. SUFFICES ASSUME ~closed', NEW w \in Writers
               PROVE  Leaving(w)'
  BY DEF FinishedInv
<1>3. /\ wpc' = [wpc EXCEPT ![v] = "push"] /\ UNCHANGED <<closed, accepted, dpc, taken>>
      /\ calls' = [calls EXCEPT ![v] = @ + 1] /\ final' = [final EXCEPT ![v] = last]
  BY DEF Enter, GotoW, shut, dvars, hist
<1>4. CASE w = v
  <2>1. wpc'[w] = "push"
    BY <1>1, <1>3, <1>4 DEF Typed
  <2>2. ~Finished(w)'
    BY <2>1 DEF LossInv, FinalStops, Finished, Current
  <2>3. QED
    BY <2>2 DEF Leaving
<1>5. CASE w # v
  <2>1. StreamOf[w] # StreamOf[v] /\ StreamOf[w] \in Streams
    BY <1>1, <1>5, ObjectsInUse DEF OwnStreams
  <2>2. streams'[StreamOf[w]] = streams[StreamOf[w]]
    BY <1>1, <2>1, EnterEffect
  <2>3. ASSUME streams[StreamOf[w]] # 0
        PROVE  object'[Mapped(StreamOf[w])] = object[Mapped(StreamOf[w])]
    <3>1. Mapped(StreamOf[w]) \in Objects
      BY <1>1, <2>1, <2>3, ObjectsInUse
    <3>2. Mapped(StreamOf[w]) # <<StreamOf[v], held'[v]>>
      BY <2>1 DEF Mapped
    <3>3. QED
      BY <1>1, <3>1, <3>2, EnterEffect
  <2>4. calls'[w] = calls[w] /\ final'[w] = final[w]
    BY <1>1, <1>3, <1>5 DEF Typed
  <2>5. Finished(w)' => Finished(w)
    BY <1>3, <2>4 DEF Finished, Current
  <2>6. AtWork(StreamOf[w]) => AtWork(StreamOf[w])'
    BY <1>3 DEF AtWork
  <2>7. closed => closed'
    BY <1>3
  <2>8. QED
    BY <1>2, <2>2, <2>3, <2>5, <2>6, <2>7, StillLeaving
<1>6. QED
  BY <1>4, <1>5

\* A call succeeds: with the final message the stream is scheduled and drains.
LEMMA MarkKeepsLeaving ==
  ASSUME DispatcherInv, DispatcherInv', TurnInv, OwnStreams, FinishedInv,
         NEW v \in Writers, Mark(v)
  PROVE  FinishedInv'
<1>1. Typed /\ CallsUnderWay
  BY DEF DispatcherInv
<1>2. SUFFICES ASSUME ~closed', NEW w \in Writers
               PROVE  Leaving(w)'
  BY DEF FinishedInv
<1>3. /\ wpc[v] = "mark" /\ UNCHANGED <<streams, closed, calls, final, dpc, taken>>
      /\ accepted' = accepted \cup {Current(v)}
  BY DEF Mark, Accept, shut, dvars
<1>4. /\ object' = ScheduledIn(object, Held(v), final[v])
      /\ Held(v) \in Objects /\ final[v] \in BOOLEAN /\ object \in [Objects -> DispatchStream]
  BY <1>1, ObjectsInUse DEF Mark, Schedule, ScheduledIn, Busy, Typed
<1>5. /\ \A o \in Objects : o # Held(v) => object'[o] = object[o]
      /\ object'[Held(v)].scheduled
      /\ object'[Held(v)].draining = (object[Held(v)].draining \/ final[v])
  BY <1>4, Scheduled
<1>6. CASE w = v
  <2>1. Held(v) = Mapped(StreamOf[v])' /\ final'[v] = final[v]
    BY <1>3 DEF TurnInv, CallOnMapped, Busy, Held, Mapped
  <2>2. Finished(w)' => final[v]
    BY <1>6, <2>1 DEF Finished
  <2>3. QED
    BY <1>5, <1>6, <2>1, <2>2 DEF Leaving
<1>7. CASE w # v
  <2>1. StreamOf[w] # StreamOf[v] /\ StreamOf[w] \in Streams
    BY <1>1, <1>7, ObjectsInUse DEF OwnStreams
  <2>2. ASSUME streams[StreamOf[w]] # 0
        PROVE  object'[Mapped(StreamOf[w])] = object[Mapped(StreamOf[w])]
    <3>1. Mapped(StreamOf[w]) \in Objects
      BY <1>1, <2>1, <2>2, ObjectsInUse
    <3>2. Mapped(StreamOf[w]) # Held(v)
      BY <2>1 DEF Mapped, Held
    <3>3. QED
      BY <1>5, <3>1, <3>2
  <2>3. Current(w) # Current(v)
    BY <1>7 DEF Current
  <2>4. Finished(w)' => Finished(w)
    BY <1>3, <2>3 DEF Finished, Current
  <2>5. AtWork(StreamOf[w]) => AtWork(StreamOf[w])'
    BY <1>3 DEF AtWork
  <2>6. QED
    BY <1>2, <1>3, <2>2, <2>4, <2>5, StillLeaving
<1>8. QED
  BY <1>6, <1>7

\* A turn begins, or a stale place in the line is skipped.
LEMMA NextStreamKeepsLeaving ==
  ASSUME DispatcherInv, DispatcherInv', FinishedInv, NextStream
  PROVE  FinishedInv'
<1> DEFINE x == Head(ready)
<1>1. Typed /\ CallsUnderWay
  BY DEF DispatcherInv
<1>2. SUFFICES ASSUME ~closed', NEW w \in Writers
               PROVE  Leaving(w)'
  BY DEF FinishedInv
<1>3. /\ dpc = "next" /\ UNCHANGED <<streams, closed, calls, final, accepted>>
      /\ x \in Streams /\ StreamOf[w] \in Streams
  BY <1>1, Left, ObjectsInUse DEF NextStream, shut, wvars, Typed
<1>4. Finished(w)' => Finished(w)
  BY <1>3, NothingFinishes
<1>5. ~AtWork(StreamOf[w])
  BY <1>3 DEF AtWork
<1>6. ASSUME streams[StreamOf[w]] # 0
      PROVE  /\ object'[Mapped(StreamOf[w])].draining = object[Mapped(StreamOf[w])].draining
             /\ \/ object'[Mapped(StreamOf[w])] = object[Mapped(StreamOf[w])]
                \/ AtWork(StreamOf[w])'
  <2>1. Mapped(StreamOf[w]) \in Objects
    BY <1>1, <1>3, <1>6, ObjectsInUse
  <2>2. object'[Mapped(StreamOf[w])].draining = object[Mapped(StreamOf[w])].draining
    BY <1>1, <2>1, NextStreamEffect
  <2>3. CASE streams[x] = 0
    <3>1. object' = object
      BY <2>3 DEF NextStream
    <3>2. QED
      BY <3>1, <2>2
  <2>4. CASE streams[x] # 0
    <3>1. /\ object' = UnscheduledIn(object, Mapped(x)) /\ taken' = x /\ dpc' = "receive"
          /\ Mapped(x) \in Objects /\ object \in [Objects -> DispatchStream]
      BY <1>1, <1>3, <2>4, ObjectsInUse DEF NextStream, UnscheduledIn, GotoD, Typed
    <3>2. CASE StreamOf[w] = x
      BY <2>2, <3>1, <3>2 DEF AtWork
    <3>3. CASE StreamOf[w] # x
      <4>1. Mapped(StreamOf[w]) # Mapped(x)
        BY <3>3 DEF Mapped
      <4>2. object'[Mapped(StreamOf[w])] = object[Mapped(StreamOf[w])]
        BY <2>1, <3>1, <4>1, Unscheduled
      <4>3. QED
        BY <2>2, <4>2
    <3>4. QED
      BY <3>2, <3>3
  <2>5. QED
    BY <2>3, <2>4
<1>7. QED
  BY <1>2, <1>3, <1>4, <1>5, <1>6, StillLeaving

\* A message is taken: the dispatcher stays at work on the stream.
LEMMA ReceiveKeepsLeaving ==
  ASSUME DispatcherInv, DispatcherInv', FinishedInv, Receive
  PROVE  FinishedInv'
<1> DEFINE p == Mapped(taken)
<1>1. Typed /\ CallsUnderWay /\ InHand /\ OwnMessages
  BY DEF DispatcherInv
<1>2. SUFFICES ASSUME ~closed', NEW w \in Writers
               PROVE  Leaving(w)'
  BY DEF FinishedInv
<1>3. /\ dpc = "receive" /\ UNCHANGED <<streams, closed, calls, final, accepted>>
      /\ taken \in Streams /\ StreamOf[w] \in Streams
      /\ p \in Objects /\ object \in [Objects -> DispatchStream]
  BY <1>1, ObjectsInUse DEF Receive, InHand, shut, wvars, hist, Typed
<1>4. Finished(w)' => Finished(w)
  BY <1>3, NothingFinishes
<1>5. AtWork(StreamOf[w]) => StreamOf[w] = taken
  BY <1>3 DEF AtWork
<1>6. CASE object[p].queue = <<>>
  <2>1. dpc' = "empty" /\ UNCHANGED <<object, taken>>
    BY <1>6 DEF Receive, GotoD
  <2>2. AtWork(taken)'
    BY <2>1 DEF AtWork
  <2>3. QED
    BY <1>2, <1>3, <1>4, <1>5, <2>1, <2>2, StillLeaving
<1>7. CASE object[p].queue # <<>>
  <2>1. dpc' = "after" /\ taken' = Head(object[p].queue) /\ object' = PoppedFrom(object, p)
    BY <1>7 DEF Receive, GotoD, PoppedFrom
  <2>2. /\ \A o \in Objects : o # p => object'[o] = object[o]
        /\ object'[p].scheduled = object[p].scheduled
        /\ object'[p].draining = object[p].draining
        /\ Len(object[p].queue) \in Nat \ {0} /\ Head(object[p].queue) = object[p].queue[1]
    BY <1>3, <1>7, <2>1, Popped
  <2>3. StreamOf[taken'[1]] = p[1] /\ p[1] = taken
    <3>1. 1 \in 1..Len(object[p].queue)
      BY <2>2
    <3>2. StreamOf[object[p].queue[1][1]] = p[1]
      BY <1>1, <1>3, <3>1 DEF OwnMessages
    <3>3. QED
      BY <2>1, <2>2, <3>2 DEF Mapped
  <2>5. AtWork(StreamOf[w]) => AtWork(StreamOf[w])'
    BY <1>5, <2>1, <2>3 DEF AtWork
  <2>6. streams[StreamOf[w]] # 0 =>
          /\ object'[Mapped(StreamOf[w])].scheduled = object[Mapped(StreamOf[w])].scheduled
          /\ object'[Mapped(StreamOf[w])].draining = object[Mapped(StreamOf[w])].draining
    BY <1>1, <1>3, <2>2, ObjectsInUse
  <2>7. QED
    BY <1>2, <1>3, <1>4, <2>5, <2>6, StillLeaving
<1>8. QED
  BY <1>6, <1>7

\* A turn ends: a finished stream with an empty queue is deleted, else it is back in line
\* (afterStreamMessage).
LEMMA AfterKeepsLeaving ==
  ASSUME DispatcherInv, DispatcherInv', FinishedInv, After
  PROVE  FinishedInv'
<1> DEFINE x == StreamOf[taken[1]]
           p == Mapped(x)
<1>1. Typed /\ CallsUnderWay /\ InHand
  BY DEF DispatcherInv
<1>2. SUFFICES ASSUME ~closed', NEW w \in Writers
               PROVE  Leaving(w)'
  BY DEF FinishedInv
<1>3. /\ dpc = "after" /\ UNCHANGED <<closed, calls, final, accepted>>
      /\ x \in Streams /\ streams[x] # 0 /\ StreamOf[w] \in Streams
      /\ p \in Objects /\ object \in [Objects -> DispatchStream]
  BY <1>1, ObjectsInUse, AfterEffect DEF After, shut, wvars, hist, Typed
<1>4. Finished(w)' => Finished(w)
  BY <1>3, NothingFinishes
<1>5. \/ /\ streams' = streams
         /\ \E d \in BOOLEAN : ~d /\ object' = ScheduledIn(object, p, d)
      \/ /\ object' = object /\ DeleteIfDrained(x)
         /\ object[p].queue = <<>> \/ object[p].scheduled
  BY DEF After, Schedule, ScheduledIn
<1> HIDE DEF p
<1>6. CASE StreamOf[w] # x
  <2>1. streams'[StreamOf[w]] = streams[StreamOf[w]]
    BY <1>1, <1>3, <1>5, <1>6, Deleted
  <2>2. ~AtWork(StreamOf[w])
    BY <1>3, <1>6 DEF AtWork
  <2>3. ASSUME streams[StreamOf[w]] # 0
        PROVE  object'[Mapped(StreamOf[w])] = object[Mapped(StreamOf[w])]
    <3>1. Mapped(StreamOf[w]) \in Objects
      BY <1>1, <1>3, <2>3, ObjectsInUse
    <3>2. Mapped(StreamOf[w]) # p
      BY <1>6 DEF p, Mapped
    <3>3. QED
      BY <1>3, <1>5, <3>1, <3>2, Scheduled
  <2>4. QED
    BY <1>2, <1>3, <1>4, <2>1, <2>2, <2>3, StillLeaving
<1>7. CASE StreamOf[w] = x
  <2>1. SUFFICES ASSUME Finished(w), streams'[x] # 0
                 PROVE  /\ object'[<<x, streams'[x]>>].draining
                        /\ object'[<<x, streams'[x]>>].scheduled
    BY <1>4, <1>7 DEF Leaving, Mapped
  <2>2. object[p].draining
    BY <1>2, <1>3, <1>7, <2>1 DEF FinishedInv, Leaving, p
  <2>3. CASE streams' = streams
             /\ \E d \in BOOLEAN : ~d /\ object' = ScheduledIn(object, p, d)
    <3>1. <<x, streams'[x]>> = p
      BY <2>3 DEF p, Mapped
    <3>2. PICK d \in BOOLEAN : object' = ScheduledIn(object, p, d)
      BY <2>3
    <3>3. /\ object'[p].scheduled
          /\ object'[p].draining = (object[p].draining \/ d)
      BY <1>3, <3>2, Scheduled
    <3>4. object'[p].draining
      BY <2>2, <3>3
    <3>5. QED
      BY <3>1, <3>3, <3>4
  <2>4. CASE object' = object /\ DeleteIfDrained(x)
             /\ (object[p].queue = <<>> \/ object[p].scheduled)
    <3>1. object[p].queue # <<>> /\ streams' = streams
      BY <1>1, <1>3, <2>1, <2>2, <2>4 DEF DeleteIfDrained, Typed, p
    <3>2. <<x, streams'[x]>> = p
      BY <3>1 DEF p, Mapped
    <3>3. QED
      BY <2>2, <2>4, <3>1, <3>2
  <2>5. QED
    BY <1>5, <2>3, <2>4
<1>8. QED
  BY <1>6, <1>7

\* The queue was empty: if it is not any more, somebody scheduled the stream (afterEmptyStream).
LEMMA EmptyKeepsLeaving ==
  ASSUME DispatcherInv, DispatcherInv', LossInv, OwnStreams, FinishedInv, Empty
  PROVE  FinishedInv'
<1> DEFINE x == taken
           p == Mapped(x)
<1>1. Typed /\ CallsUnderWay /\ InHand
  BY DEF DispatcherInv
<1>2. SUFFICES ASSUME ~closed', NEW w \in Writers
               PROVE  Leaving(w)'
  BY DEF FinishedInv
<1>3. /\ dpc = "empty" /\ UNCHANGED <<object, wpc, closed, calls, final, accepted>>
      /\ x \in Streams /\ streams[x] # 0 /\ DeleteIfDrained(x)
  BY <1>1 DEF Empty, InHand, shut, wvars, hist
<1>4. Finished(w)' => Finished(w)
  BY <1>3, NothingFinishes
<1>5. CASE StreamOf[w] # x
  <2>1. streams'[StreamOf[w]] = streams[StreamOf[w]]
    BY <1>1, <1>3, <1>5, ObjectsInUse, Deleted
  <2>2. ~AtWork(StreamOf[w])
    BY <1>3, <1>5 DEF AtWork
  <2>3. QED
    BY <1>2, <1>3, <1>4, <2>1, <2>2, StillLeaving
<1>6. CASE StreamOf[w] = x
  <2>1. SUFFICES ASSUME Finished(w), streams'[x] # 0
                 PROVE  /\ object'[<<x, streams'[x]>>].draining
                        /\ object'[<<x, streams'[x]>>].scheduled
    BY <1>4, <1>6 DEF Leaving, Mapped
  <2>2. object[p].draining
    BY <1>2, <1>3, <1>6, <2>1 DEF FinishedInv, Leaving
  <2>3. object[p].queue # <<>> /\ streams' = streams
    BY <1>1, <1>3, <2>1, <2>2 DEF DeleteIfDrained, Typed
  <2>4. LookedAfter(x)
    BY <1>2, <1>3, <2>3, StrandedMeans DEF DispatcherInv
  <2>5. ~(\E v \in Writers : wpc[v] = "mark" /\ Held(v) = p)
    <3>1. SUFFICES ASSUME NEW v \in Writers, wpc[v] = "mark", Held(v) = p
                   PROVE  FALSE
      OBVIOUS
    <3>2. v = w
      BY <1>6, <3>1 DEF OwnStreams, Held, Mapped
    <3>3. wpc[w] = "stopped"
      BY <2>1 DEF LossInv, FinalStops, Finished
    <3>4. QED
      BY <3>1, <3>2, <3>3
  <2>6. object[p].scheduled
    BY <1>3, <2>4, <2>5 DEF LookedAfter
  <2>7. <<x, streams'[x]>> = p
    BY <2>3 DEF Mapped
  <2>8. QED
    BY <1>3, <2>2, <2>6, <2>7
<1>7. QED
  BY <1>5, <1>6

\* A message is pushed.
LEMMA PushKeepsLeaving ==
  ASSUME DispatcherInv, DispatcherInv', FinishedInv, NEW v \in Writers, Push(v)
  PROVE  FinishedInv'
<1>1. Typed /\ CallsUnderWay
  BY DEF DispatcherInv
<1>2. SUFFICES ASSUME ~closed', NEW w \in Writers
               PROVE  Leaving(w)'
  BY DEF FinishedInv
<1>3. wpc[v] = "push" /\ UNCHANGED <<streams, closed, calls, final, accepted, dpc, taken>>
  BY DEF Push, shut, dvars, hist
<1>4. /\ object' = PushedOnto(object, Held(v), Current(v)) /\ Held(v) \in Objects
      /\ Current(v) \in Messages /\ object \in [Objects -> DispatchStream]
  BY <1>1, <1>3, ObjectsInUse DEF Push, PushedOnto, Busy, Typed
<1>5. /\ \A o \in Objects : o # Held(v) => object'[o] = object[o]
      /\ object'[Held(v)].scheduled = object[Held(v)].scheduled
      /\ object'[Held(v)].draining = object[Held(v)].draining
  BY <1>4, Pushed
<1>6. streams[StreamOf[w]] # 0 => Mapped(StreamOf[w]) \in Objects
  BY <1>1, ObjectsInUse
<1>7. streams[StreamOf[w]] # 0 =>
        /\ object'[Mapped(StreamOf[w])].scheduled = object[Mapped(StreamOf[w])].scheduled
        /\ object'[Mapped(StreamOf[w])].draining = object[Mapped(StreamOf[w])].draining
  BY <1>5, <1>6
<1>8. Finished(w)' => Finished(w)
  BY <1>3, NothingFinishes
<1>9. AtWork(StreamOf[w]) => AtWork(StreamOf[w])'
  BY <1>3 DEF AtWork
<1>10. QED
  BY <1>2, <1>3, <1>7, <1>8, <1>9, StillLeaving

\* The other steps.
LEMMA OthersKeepLeaving ==
  ASSUME DispatcherInv, DispatcherInv', FinishedInv,
         \/ EnqueueControl \/ NextControl \/ NextIdle \/ Wake \/ WaitEnds \/ Send \/ SendFails
         \/ Close \/ Signal \/ UNCHANGED vars
         \/ \E w \in Writers : GiveUp(w) \/ PushCanceled(w) \/ PushClosed(w) \/ MarkClosed(w)
  PROVE  FinishedInv'
<1> USE DEF vars, mvars, queues, shut, wvars, dvars, hist
<1>1. SUFFICES ASSUME ~closed', NEW w \in Writers
               PROVE  Leaving(w)'
  BY DEF FinishedInv
<1>2. UNCHANGED <<streams, object, calls, final, accepted>>
  BY DEF EnqueueControl, NextControl, NextIdle, Wake, WaitEnds, Send, SendFails, Close, Signal,
     GiveUp, PushCanceled, PushClosed, MarkClosed
<1>3. closed => closed'
  BY DEF EnqueueControl, NextControl, NextIdle, Wake, WaitEnds, Send, SendFails, Close, Signal,
     GiveUp, PushCanceled, PushClosed, MarkClosed
<1>4. AtWork(StreamOf[w]) => AtWork(StreamOf[w])'
  BY DEF AtWork, GotoD, EnqueueControl, NextControl, NextIdle, Wake, WaitEnds, Send, SendFails,
     Close, Signal, GiveUp, PushCanceled, PushClosed, MarkClosed
<1>5. Finished(w)' => Finished(w)
  BY <1>2, NothingFinishes
<1>6. QED
  BY <1>1, <1>2, <1>3, <1>4, <1>5, StillLeaving

\* Every step keeps the finished streams on their way out.
LEMMA NextLeaving ==
  ASSUME DispatcherInv, DispatcherInv', LossInv, LossInv', TurnInv, OwnStreams, FinishedInv,
         [DispatcherNext]_vars
  PROVE  FinishedInv'
<1>1. CASE DispatcherStep \/ EnqueueControl \/ Close \/ Signal \/ UNCHANGED vars
  BY <1>1, NextStreamKeepsLeaving, ReceiveKeepsLeaving, AfterKeepsLeaving, EmptyKeepsLeaving,
     OthersKeepLeaving DEF DispatcherStep
<1>2. ASSUME NEW w \in Writers, WriterStep(w)
      PROVE  FinishedInv'
  BY <1>2, EnterKeepsLeaving, PushKeepsLeaving, MarkKeepsLeaving, OthersKeepLeaving
     DEF WriterStep
<1>3. QED
  BY <1>1, <1>2 DEF DispatcherNext

\* On a connection whose streams have one writer each, the dispatchStream of a writer whose
\* final message was accepted is not forgotten: until it is deleted it drains, and has a place
\* in the line or the dispatcher at work on it (EnqueueStream, afterStreamMessage,
\* afterEmptyStream).  It is what is safety in StreamFreed.
THEOREM FinishedLeaves ==
  ASSUME OwnStreams, IsFiniteSet(Streams)
  PROVE  DispatcherSpec =>
           [](~closed => \A w \in Writers :
                Finished(w) /\ streams[StreamOf[w]] # 0 =>
                  /\ object[Mapped(StreamOf[w])].draining
                  /\ InLine(StreamOf[w]) \/ AtWork(StreamOf[w]))
<1>1. DispatcherInit => LossInv /\ TurnInv /\ FinishedInv
  <2>1. DispatcherInit => FinishedInv
    BY DEF DispatcherInit, FinishedInv, Leaving, Finished
  <2>2. QED
    BY <2>1, InitLoss, InitTurns
<1>2. DispatcherInv /\ DispatcherInv' /\ LossInv /\ TurnInv /\ FinishedInv /\ [DispatcherNext]_vars
        => LossInv' /\ TurnInv' /\ FinishedInv'
  BY NextLoss, NextTurns, NextLeaving
<1>3. DispatcherInv /\ FinishedInv =>
        (~closed => \A w \in Writers :
           Finished(w) /\ streams[StreamOf[w]] # 0 =>
             /\ object[Mapped(StreamOf[w])].draining
             /\ InLine(StreamOf[w]) \/ AtWork(StreamOf[w]))
  BY ObjectsInUse DEF FinishedInv, Leaving, DispatcherInv, ScheduledInLine
<1>4. QED
  BY <1>1, <1>2, <1>3, DispatcherInductive, PTL DEF DispatcherSpec
=============================================================================
