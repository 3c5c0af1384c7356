----------------------- MODULE TunnelProtocol_proofs -----------------------
(***************************************************************************)
(* Nobody waits for an answer that nobody will send, and no dropped work   *)
(* goes on: a proof for any number of requests on one connection, any      *)
(* limit of streams and queues of any length.                              *)
(*                                                                         *)
(* PendingIsServed is not inductive.  It needs that the request_start is   *)
(* the first the client hears of a request, and is on its way once         *)
(* (StartIsFirst), so that the worker it creates has a context that is     *)
(* still alive; that a cancellation comes after the daemon has forgotten   *)
(* the request (CancelIsLast), so that what it stops is missed by nobody;  *)
(* and that a worker that stops without a word has a context that is done, *)
(* whose end has already been told, or is being told by the idle timer, or *)
(* is one of those that nobody is told of (Served says more than           *)
(* PendingIsServed).                                                       *)
(*                                                                         *)
(* An error may overtake the other messages of its request, so the proof   *)
(* speaks of what a queue holds and not of its order.  Lemmas say what     *)
(* Put, Tell, Answer and the two reads do to it; a step is about one       *)
(* request (OneRequest) or ends one side.                                  *)
(***************************************************************************)
EXTENDS TunnelProtocol, SequenceTheorems, FiniteSetTheorems, TLAPS

-----------------------------------------------------------------------------
(* Queues.                                                                 *)

\* A message has one request_start at most in front of it.
OneStart(queue) ==
  \A i, j \in 1..Len(queue) :
    queue[i] = "request_start" /\ queue[j] = "request_start" => i = j

\* What is in a sequence.
LEMMA InRange ==
  ASSUME NEW S, NEW q \in Seq(S), NEW x
  PROVE  x \in Range(q) <=> \E i \in 1..Len(q) : q[i] = x
BY RangeEquality

\* The dispatcher adds a message and loses none.
LEMMA PutProperties ==
  ASSUME NEW S, NEW q \in Seq(S), NEW x \in S, NEW p \in Put(q, x)
  PROVE  /\ p \in Seq(S)
         /\ Range(p) = Range(q) \cup {x}
         /\ OneStart(q) /\ (x = "request_start" => x \notin Range(q)) => OneStart(p)
<1>1. CASE x = "error"
  <2>1. PICK i \in 1..(Len(q) + 1) : p = SubSeq(q, 1, i - 1) \o <<x>> \o SubSeq(q, i, Len(q))
    BY <1>1 DEF Put, InsertAt
  <2> DEFINE a == SubSeq(q, 1, i - 1)
             b == SubSeq(q, i, Len(q))
  <2>2. Len(q) \in Nat /\ i \in Nat /\ i >= 1 /\ i - 1 <= Len(q)
    BY LenProperties
  <2>3. /\ a \in Seq(S) /\ Len(a) = i - 1
        /\ \A j \in 1..(i - 1) : a[j] = q[j]
    BY <2>2, SubSeqProperties
  <2>4. /\ b \in Seq(S) /\ Len(b) = Len(q) - i + 1
        /\ \A j \in 1..(Len(q) - i + 1) : b[j] = q[i + j - 1]
    BY <2>2, SubSeqProperties
  <2>5. <<x>> \in Seq(S) /\ Len(<<x>>) = 1 /\ <<x>>[1] = x
    OBVIOUS
  <2> DEFINE c == a \o <<x>>
  <2>6. /\ c \in Seq(S) /\ Len(c) = i
        /\ \A j \in 1..i : c[j] = IF j < i THEN q[j] ELSE x
    BY <2>2, <2>3, <2>5, ConcatProperties
  <2> HIDE DEF b, c
  <2>7. /\ p \in Seq(S) /\ Len(p) = Len(q) + 1
        /\ \A j \in 1..(Len(q) + 1) :
             p[j] = IF j < i THEN q[j] ELSE IF j = i THEN x ELSE q[j - 1]
    <3>1. p = c \o b
      BY <2>1 DEF b, c
    <3>2. /\ p \in Seq(S) /\ Len(p) = Len(c) + Len(b)
          /\ \A j \in 1..(Len(c) + Len(b)) : p[j] = IF j <= Len(c) THEN c[j] ELSE b[j - Len(c)]
      BY <2>4, <2>6, <3>1, ConcatProperties
    <3>3. Len(c) + Len(b) = Len(q) + 1
      BY <2>2, <2>4, <2>6
    <3>4. ASSUME NEW j \in 1..(Len(q) + 1)
          PROVE  p[j] = IF j < i THEN q[j] ELSE IF j = i THEN x ELSE q[j - 1]
      <4>1. p[j] = IF j <= i THEN c[j] ELSE b[j - i]
        BY <2>6, <3>2, <3>3
      <4>2. CASE j <= i
        BY <2>2, <2>6, <4>1, <4>2
      <4>3. CASE j > i
        <5>1. j - i \in 1..(Len(q) - i + 1) /\ i + (j - i) - 1 = j - 1
          BY <2>2, <4>3
        <5>2. b[j - i] = q[i + (j - i) - 1]
          BY <2>4, <5>1
        <5>3. QED
          BY <2>2, <4>1, <4>3, <5>1, <5>2
      <4>4. QED
        BY <2>2, <4>2, <4>3
    <3>5. QED
      BY <3>2, <3>3, <3>4
  <2> HIDE DEF a
  <2>8. Range(p) = Range(q) \cup {x}
    <3>1. ASSUME NEW y \in Range(p) PROVE y \in Range(q) \cup {x}
      <4>1. PICK j \in 1..(Len(q) + 1) : p[j] = y
        BY <2>7, InRange
      <4>2. \/ y = x
            \/ j \in 1..Len(q) /\ q[j] = y
            \/ j - 1 \in 1..Len(q) /\ q[j - 1] = y
        BY <2>2, <2>7, <4>1
      <4>3. QED
        BY <4>2, InRange
    <3>2. ASSUME NEW y \in Range(q) PROVE y \in Range(p)
      <4>1. PICK j \in 1..Len(q) : q[j] = y
        BY InRange
      <4>2. /\ j \in 1..(Len(q) + 1) /\ j + 1 \in 1..(Len(q) + 1)
            /\ p[j] = y \/ p[j + 1] = y
        BY <2>2, <2>7, <4>1
      <4>3. QED
        BY <2>7, <4>2, InRange
    <3>3. x \in Range(p)
      <4>1. i \in 1..(Len(q) + 1) /\ p[i] = x
        BY <2>2, <2>7
      <4>2. QED
        BY <2>7, <4>1, InRange
    <3>4. QED
      BY <3>1, <3>2, <3>3
  <2>9. ASSUME OneStart(q) PROVE OneStart(p)
    <3> SUFFICES ASSUME NEW j \in 1..(Len(q) + 1), NEW k \in 1..(Len(q) + 1),
                        p[j] = "request_start", p[k] = "request_start", j < k
                 PROVE  FALSE
      BY <2>2, <2>7 DEF OneStart
    <3>1. j # i /\ k # i
      BY <1>1, <2>7
    <3>2. PICK m \in 1..Len(q) : m = (IF j < i THEN j ELSE j - 1) /\ q[m] = "request_start"
      BY <2>2, <2>7, <3>1
    <3>3. PICK n \in 1..Len(q) : n = (IF k < i THEN k ELSE k - 1) /\ q[n] = "request_start"
      BY <2>2, <2>7, <3>1
    <3>4. m # n
      BY <2>2, <3>1, <3>2, <3>3
    <3>5. QED
      BY <2>9, <3>2, <3>3, <3>4 DEF OneStart
  <2>10. QED
    BY <2>7, <2>8, <2>9
<1>2. CASE x # "error"
  <2>1. p = Append(q, x)
    BY <1>2 DEF Put
  <2>2. /\ p \in Seq(S) /\ Len(p) = Len(q) + 1 /\ Len(q) \in Nat
        /\ \A i \in 1..Len(q) : p[i] = q[i]
        /\ p[Len(q) + 1] = x
    BY <2>1, AppendProperties, LenProperties
  <2>3. Range(p) = Range(q) \cup {x}
    BY <2>2, InRange
  <2>4. OneStart(q) /\ (x = "request_start" => x \notin Range(q)) => OneStart(p)
    BY <2>2, InRange DEF OneStart
  <2>5. QED
    BY <2>2, <2>3, <2>4
<1>3. QED
  BY <1>1, <1>2

\* Reading takes the first message.
LEMMA ReadProperties ==
  ASSUME NEW S, NEW q \in Seq(S), q # <<>>
  PROVE  /\ Tail(q) \in Seq(S)
         /\ Range(q) = Range(Tail(q)) \cup {Head(q)}
         /\ OneStart(q) => OneStart(Tail(q))
         /\ OneStart(q) /\ Head(q) = "request_start" => "request_start" \notin Range(Tail(q))
<1>1. /\ Tail(q) \in Seq(S) /\ Len(Tail(q)) = Len(q) - 1
      /\ \A i \in 1..Len(Tail(q)) : Tail(q)[i] = q[i + 1]
      /\ Len(q) \in Nat /\ Len(q) # 0 /\ Head(q) = q[1]
  BY HeadTailProperties, LenProperties, EmptySeq
<1>2. Range(q) = Range(Tail(q)) \cup {Head(q)}
  <2>1. ASSUME NEW y \in Range(q) PROVE y \in Range(Tail(q)) \cup {Head(q)}
    <3>1. PICK i \in 1..Len(q) : q[i] = y
      BY InRange
    <3>2. CASE i = 1
      BY <1>1, <3>1, <3>2
    <3>3. CASE i # 1
      <4>1. i - 1 \in 1..Len(Tail(q)) /\ Tail(q)[i - 1] = y
        BY <1>1, <3>1, <3>3
      <4>2. QED
        BY <1>1, <4>1, InRange
    <3>4. QED
      BY <3>2, <3>3
  <2>2. ASSUME NEW y \in Range(Tail(q)) PROVE y \in Range(q)
    <3>1. PICK i \in 1..Len(Tail(q)) : Tail(q)[i] = y
      BY <1>1, InRange
    <3>2. i + 1 \in 1..Len(q) /\ q[i + 1] = y
      BY <1>1, <3>1
    <3>3. QED
      BY <3>2, InRange
  <2>3. Head(q) \in Range(q)
    BY <1>1, InRange
  <2>4. QED
    BY <2>1, <2>2, <2>3
<1>3. OneStart(q) => OneStart(Tail(q))
  BY <1>1 DEF OneStart
<1>4. OneStart(q) /\ Head(q) = "request_start" => "request_start" \notin Range(Tail(q))
  <2> SUFFICES ASSUME OneStart(q), Head(q) = "request_start",
                      "request_start" \in Range(Tail(q))
               PROVE  FALSE
    OBVIOUS
  <2>1. PICK i \in 1..Len(Tail(q)) : Tail(q)[i] = "request_start"
    BY <1>1, InRange
  <2>2. i + 1 \in 1..Len(q) /\ q[i + 1] = "request_start" /\ 1 \in 1..Len(q)
    BY <1>1, <2>1
  <2>3. QED
    BY <1>1, <2>2 DEF OneStart
<1>5. QED
  BY <1>1, <1>2, <1>3, <1>4

-----------------------------------------------------------------------------
(* The invariant.                                                          *)

In(type, queue) == type \in Range(queue)

\* Nothing happens to a request before it is forwarded.
NewIsQuiet(r) ==
  server[r] = "new" =>
    /\ toClient[r] = <<>> /\ toServer[r] = <<>> /\ upload[r] = "closed"
    /\ worker[r] = "none" /\ ctx[r] = "live" /\ r \notin active

\* Nor at the client before it has read the request_start.
StartIsFirst(r) ==
  /\ OneStart(toClient[r])
  /\ In("request_start", toClient[r]) =>
       worker[r] = "none" /\ ctx[r] = "live" /\ r \notin active

\* A request_cancel is about a request that is over.
CancelIsLast(r) == In("request_cancel", toClient[r]) => server[r] \notin Pending

\* What a request that the daemon waits for may count on.
Served(r) ==
  serverUp /\ clientUp /\ server[r] \in Pending =>
    \/ In("request_start", toClient[r])
    \/ worker[r] \in Working /\ ctx[r] = "live"
    \/ In("response_end", toServer[r]) \/ In("error", toServer[r])
    \/ ctx[r] = "idle"
    \/ ctx[r] = "stopped"

NoOrphan(r) == worker[r] \in Working /\ r \notin active => ctx[r] # "live"

RequestInv(r) ==
  NewIsQuiet(r) /\ StartIsFirst(r) /\ CancelIsLast(r) /\ Served(r) /\ NoOrphan(r)

ProtocolInv == ProtocolTypeOK /\ \A r \in Reqs : RequestInv(r)

-----------------------------------------------------------------------------
(* What a step does to the queues.                                         *)

\* Tell: the message is added to the queue of its request, unless nobody reads it.
LEMMA TellEffect ==
  ASSUME ProtocolTypeOK, NEW r \in Reqs, NEW x \in ToClientTypes, Tell(r, x)
  PROVE  /\ toClient' \in [Reqs -> Seq(ToClientTypes)]
         /\ \A q \in Reqs : q # r => toClient'[q] = toClient[q]
         /\ \A y : In(y, toClient'[r]) => In(y, toClient[r]) \/ (clientUp /\ y = x)
         /\ \A y : In(y, toClient[r]) => In(y, toClient'[r])
         /\ clientUp => In(x, toClient'[r])
         /\ OneStart(toClient[r]) /\ (x = "request_start" => ~In(x, toClient[r]))
              => OneStart(toClient'[r])
<1>1. toClient[r] \in Seq(ToClientTypes) /\ toClient \in [Reqs -> Seq(ToClientTypes)]
  BY DEF ProtocolTypeOK
<1>2. CASE ~clientUp
  BY <1>1, <1>2 DEF Tell
<1>3. CASE clientUp
  <2>1. PICK p \in Put(toClient[r], x) : toClient' = [toClient EXCEPT ![r] = p]
    BY <1>3 DEF Tell
  <2>2. /\ p \in Seq(ToClientTypes)
        /\ Range(p) = Range(toClient[r]) \cup {x}
        /\ OneStart(toClient[r]) /\ (x = "request_start" => x \notin Range(toClient[r]))
             => OneStart(p)
    BY <1>1, PutProperties
  <2>3. toClient'[r] = p
    BY <1>1, <2>1
  <2>4. QED
    BY <1>1, <1>3, <2>1, <2>2, <2>3 DEF In
<1>4. QED
  BY <1>2, <1>3

\* Answer, in the other direction.
LEMMA AnswerEffect ==
  ASSUME ProtocolTypeOK, NEW r \in Reqs, NEW x \in ToServerTypes, Answer(r, x)
  PROVE  /\ toServer' \in [Reqs -> Seq(ToServerTypes)]
         /\ \A q \in Reqs : q # r => toServer'[q] = toServer[q]
         /\ \A y : In(y, toServer[r]) => In(y, toServer'[r])
         /\ serverUp => In(x, toServer'[r])
<1>1. toServer[r] \in Seq(ToServerTypes) /\ toServer \in [Reqs -> Seq(ToServerTypes)]
  BY DEF ProtocolTypeOK
<1>2. CASE ~serverUp
  BY <1>1, <1>2 DEF Answer
<1>3. CASE serverUp
  <2>1. PICK p \in Put(toServer[r], x) : toServer' = [toServer EXCEPT ![r] = p]
    BY <1>3 DEF Answer
  <2>2. p \in Seq(ToServerTypes) /\ Range(p) = Range(toServer[r]) \cup {x}
    BY <1>1, PutProperties
  <2>3. toServer'[r] = p
    BY <1>1, <2>1
  <2>4. QED
    BY <1>1, <1>3, <2>1, <2>2, <2>3 DEF In
<1>4. QED
  BY <1>2, <1>3

\* The client reads one message.
LEMMA ClientReadsEffect ==
  ASSUME ProtocolTypeOK, NEW r \in Reqs, NEW x, ClientReads(r, x)
  PROVE  /\ toClient' \in [Reqs -> Seq(ToClientTypes)]
         /\ \A q \in Reqs : q # r => toClient'[q] = toClient[q]
         /\ clientUp /\ enqueuing = {} /\ In(x, toClient[r]) /\ toClient[r] # <<>>
         /\ \A y : In(y, toClient'[r]) => In(y, toClient[r])
         /\ \A y : In(y, toClient[r]) /\ y # x => In(y, toClient'[r])
         /\ OneStart(toClient[r]) => OneStart(toClient'[r])
         /\ OneStart(toClient[r]) /\ x = "request_start" => ~In(x, toClient'[r])
<1>1. toClient[r] \in Seq(ToClientTypes) /\ toClient \in [Reqs -> Seq(ToClientTypes)]
  BY DEF ProtocolTypeOK
<1>2. /\ clientUp /\ enqueuing = {} /\ toClient[r] # <<>> /\ Head(toClient[r]) = x
      /\ toClient' = [toClient EXCEPT ![r] = Tail(toClient[r])]
  BY DEF ClientReads, Receive
<1>3. toClient'[r] = Tail(toClient[r])
  BY <1>1, <1>2
<1>4. /\ Tail(toClient[r]) \in Seq(ToClientTypes)
      /\ Range(toClient[r]) = Range(Tail(toClient[r])) \cup {x}
      /\ OneStart(toClient[r]) => OneStart(Tail(toClient[r]))
      /\ OneStart(toClient[r]) /\ x = "request_start" => x \notin Range(Tail(toClient[r]))
  BY <1>1, <1>2, ReadProperties
<1>5. QED
  BY <1>1, <1>2, <1>3, <1>4 DEF In

\* The daemon reads one message.
LEMMA ServerReadsEffect ==
  ASSUME ProtocolTypeOK, NEW r \in Reqs, NEW x, ServerReads(r, x)
  PROVE  /\ toServer' \in [Reqs -> Seq(ToServerTypes)]
         /\ \A q \in Reqs : q # r => toServer'[q] = toServer[q]
         /\ serverUp /\ toServer[r] # <<>>
         /\ \A y : In(y, toServer[r]) /\ y # x => In(y, toServer'[r])
<1>1. toServer[r] \in Seq(ToServerTypes) /\ toServer \in [Reqs -> Seq(ToServerTypes)]
  BY DEF ProtocolTypeOK
<1>2. /\ serverUp /\ toServer[r] # <<>> /\ Head(toServer[r]) = x
      /\ toServer' = [toServer EXCEPT ![r] = Tail(toServer[r])]
  BY DEF ServerReads, Receive
<1>3. /\ toServer'[r] = Tail(toServer[r])
      /\ Tail(toServer[r]) \in Seq(ToServerTypes)
      /\ Range(toServer[r]) = Range(Tail(toServer[r])) \cup {x}
  BY <1>1, <1>2, ReadProperties
<1>4. QED
  BY <1>1, <1>2, <1>3 DEF In

\* An empty queue holds nothing.
LEMMA NothingIn == OneStart(<<>>) /\ \A y : ~In(y, <<>>)
BY DEF OneStart, In, Range

-----------------------------------------------------------------------------
(* A step concerns one request, or ends one side.                          *)

Untouched(q) ==
  /\ server'[q] = server[q] /\ upload'[q] = upload[q]
  /\ worker'[q] = worker[q] /\ ctx'[q] = ctx[q]
  /\ toClient'[q] = toClient[q] /\ toServer'[q] = toServer[q]
  /\ q \in active' <=> q \in active

\* The other requests of a step keep their invariant (every handler works on the
\* request its message names).
LEMMA OneRequest ==
  ASSUME ProtocolInv, NEW r \in Reqs, ProtocolTypeOK', RequestInv(r)',
         serverUp' = serverUp, clientUp' = clientUp,
         \A q \in Reqs : q # r => Untouched(q)
  PROVE  ProtocolInv'
<1>1. ASSUME NEW q \in Reqs, q # r
      PROVE  RequestInv(q)'
  BY <1>1 DEF ProtocolInv, RequestInv, NewIsQuiet, StartIsFirst, CancelIsLast, Served, NoOrphan,
     Untouched
<1>2. QED
  BY <1>1 DEF ProtocolInv

\* RunControlProtocol returns.
LEMMA ServerEndsKeepsInv ==
  ASSUME ProtocolInv, ServerEnds, UNCHANGED <<upload, clientSide, toClient>>
  PROVE  ProtocolInv'
<1> USE DEF clientSide
<1>1. ProtocolTypeOK'
  <2>1. toServer' \in [Reqs -> Seq(ToServerTypes)]
    BY DEF ServerEnds, Empty
  <2>2. QED
    BY <2>1 DEF ProtocolInv, ProtocolTypeOK, ServerEnds, Pending
<1>2. ASSUME NEW r \in Reqs PROVE RequestInv(r)'
  <2>1. RequestInv(r)
    BY DEF ProtocolInv
  <2>2. /\ toServer'[r] = <<>> /\ serverUp' = FALSE
        /\ server'[r] = IF server[r] \in Pending THEN "over" ELSE server[r]
    BY DEF ServerEnds, Empty
  <2>3. QED
    BY <2>1, <2>2 DEF RequestInv, NewIsQuiet, StartIsFirst, CancelIsLast, Served, NoOrphan, Pending
<1>3. QED
  BY <1>1, <1>2 DEF ProtocolInv

\* Run returns.
LEMMA ClientEndsKeepsInv ==
  ASSUME ProtocolInv, ClientEnds, UNCHANGED <<daemonSide, worker, toServer>>
  PROVE  ProtocolInv'
<1> USE DEF daemonSide
<1>1. ProtocolTypeOK'
  <2>1. toClient' \in [Reqs -> Seq(ToClientTypes)]
    BY DEF ClientEnds, Empty
  <2>2. active' \subseteq Reqs /\ Cardinality(active') <= MaxStreams
    BY ProtocolAssumption, FS_EmptySet DEF ClientEnds
  <2>3. QED
    BY <2>1, <2>2 DEF ProtocolInv, ProtocolTypeOK, ClientEnds, Stop
<1>2. ASSUME NEW r \in Reqs PROVE RequestInv(r)'
  <2>1. RequestInv(r)
    BY DEF ProtocolInv
  <2>2. /\ toClient'[r] = <<>> /\ clientUp' = FALSE /\ active' = {}
        /\ ctx'[r] = IF r \in active THEN Stop(r) ELSE ctx[r]
    BY DEF ClientEnds, Empty
  <2>3. QED
    BY <2>1, <2>2, NothingIn
       DEF RequestInv, NewIsQuiet, StartIsFirst, CancelIsLast, Served, NoOrphan, Stop
<1>3. QED
  BY <1>1, <1>2 DEF ProtocolInv

-----------------------------------------------------------------------------
(* The daemon's steps.                                                     *)

\* forwardHTTP: the request's first message.
LEMMA ForwardKeepsInv ==
  ASSUME ProtocolInv, NEW r \in Reqs, Forward(r)
  PROVE  ProtocolInv'
<1>1. ProtocolTypeOK /\ RequestInv(r) /\ "request_start" \in ToClientTypes
  BY DEF ProtocolInv, ToClientTypes
<1>2. /\ Tell(r, "request_start") /\ server[r] = "new"
      /\ server' = [server EXCEPT ![r] = "waiting"]
      /\ \E u \in {"open", "closed"} : upload' = [upload EXCEPT ![r] = u]
      /\ UNCHANGED <<serverUp, active, worker, ctx, enqueuing, clientUp, toServer>>
  BY <1>1 DEF Forward, clientSide, ProtocolTypeOK
<1>3. /\ toClient' \in [Reqs -> Seq(ToClientTypes)]
      /\ \A q \in Reqs : q # r => toClient'[q] = toClient[q]
      /\ \A y : In(y, toClient'[r]) => In(y, toClient[r]) \/ (clientUp /\ y = "request_start")
      /\ clientUp => In("request_start", toClient'[r])
      /\ OneStart(toClient[r]) /\ ~In("request_start", toClient[r]) => OneStart(toClient'[r])
  BY <1>1, <1>2, TellEffect
<1>4. ProtocolTypeOK'
  BY <1>1, <1>2, <1>3 DEF ProtocolTypeOK, Pending
<1>5. RequestInv(r)'
  <2>1. server'[r] = "waiting" /\ toClient[r] = <<>>
    BY <1>1, <1>2 DEF ProtocolTypeOK, RequestInv, NewIsQuiet
  <2>2. /\ ~In("request_start", toClient[r]) /\ ~In("request_cancel", toClient[r])
        /\ OneStart(toClient[r])
    BY <2>1, NothingIn
  <2>3. ~In("request_cancel", toClient'[r]) /\ OneStart(toClient'[r])
    BY <1>3, <2>2
  <2>4. QED
    BY <1>1, <1>2, <1>3, <2>1, <2>3
       DEF RequestInv, NewIsQuiet, StartIsFirst, CancelIsLast, Served, NoOrphan, Pending
<1>6. \A q \in Reqs : q # r => Untouched(q)
  BY <1>1, <1>2, <1>3 DEF Untouched, ProtocolTypeOK
<1>7. QED
  BY <1>2, <1>4, <1>5, <1>6, OneRequest

\* streamRequestReader: the body and its end.
LEMMA UploadKeepsInv ==
  ASSUME ProtocolInv, NEW r \in Reqs, SendBody(r) \/ SendEnd(r)
  PROVE  ProtocolInv'
<1>1. ProtocolTypeOK /\ RequestInv(r) /\ {"request_body", "request_end"} \subseteq ToClientTypes
  BY DEF ProtocolInv, ToClientTypes
<1>2. PICK x \in {"request_body", "request_end"} : Tell(r, x)
  BY DEF SendBody, SendEnd
<1>3. /\ upload[r] = "open"
      /\ upload' \in [Reqs -> {"open", "closed"}] /\ \A q \in Reqs : q # r => upload'[q] = upload[q]
      /\ UNCHANGED <<server, serverUp, active, worker, ctx, enqueuing, clientUp, toServer>>
  BY <1>1 DEF SendBody, SendEnd, clientSide, ProtocolTypeOK
<1>4. /\ toClient' \in [Reqs -> Seq(ToClientTypes)]
      /\ \A q \in Reqs : q # r => toClient'[q] = toClient[q]
      /\ \A y : In(y, toClient'[r]) => In(y, toClient[r]) \/ (clientUp /\ y = x)
      /\ \A y : In(y, toClient[r]) => In(y, toClient'[r])
      /\ OneStart(toClient[r]) => OneStart(toClient'[r])
  BY <1>1, <1>2, TellEffect
<1>5. ProtocolTypeOK'
  BY <1>1, <1>3, <1>4 DEF ProtocolTypeOK
<1>6. RequestInv(r)'
  BY <1>1, <1>2, <1>3, <1>4
     DEF RequestInv, NewIsQuiet, StartIsFirst, CancelIsLast, Served, NoOrphan
<1>7. \A q \in Reqs : q # r => Untouched(q)
  BY <1>3, <1>4 DEF Untouched
<1>8. QED
  BY <1>3, <1>5, <1>6, <1>7, OneRequest

\* cancel: the request is over at the daemon before the client hears of it.
LEMMA CancelKeepsInv ==
  ASSUME ProtocolInv, NEW r \in Reqs, Cancel(r)
  PROVE  ProtocolInv'
<1>1. ProtocolTypeOK /\ RequestInv(r) /\ "request_cancel" \in ToClientTypes
  BY DEF ProtocolInv, ToClientTypes
<1>2. /\ server[r] \in Pending /\ server' = [server EXCEPT ![r] = "aborted"]
      /\ Tell(r, "request_cancel") \/ UNCHANGED toClient
      /\ UNCHANGED <<upload, serverUp, active, worker, ctx, enqueuing, clientUp, toServer>>
  BY DEF Cancel, clientSide
<1>3. /\ toClient' \in [Reqs -> Seq(ToClientTypes)]
      /\ \A q \in Reqs : q # r => toClient'[q] = toClient[q]
      /\ In("request_start", toClient'[r]) => In("request_start", toClient[r])
      /\ OneStart(toClient[r]) => OneStart(toClient'[r])
  <2>1. CASE UNCHANGED toClient
    BY <1>1, <2>1 DEF ProtocolTypeOK
  <2>2. CASE Tell(r, "request_cancel")
    BY <1>1, <2>2, TellEffect
  <2>3. QED
    BY <1>2, <2>1, <2>2
<1>4. ProtocolTypeOK'
  BY <1>1, <1>2, <1>3 DEF ProtocolTypeOK
<1>5. RequestInv(r)'
  <2>1. server'[r] = "aborted"
    BY <1>1, <1>2 DEF ProtocolTypeOK
  <2>2. QED
    BY <1>1, <1>2, <1>3, <2>1
       DEF RequestInv, NewIsQuiet, StartIsFirst, CancelIsLast, Served, NoOrphan, Pending
<1>6. \A q \in Reqs : q # r => Untouched(q)
  BY <1>1, <1>2, <1>3 DEF Untouched, ProtocolTypeOK
<1>7. QED
  BY <1>2, <1>4, <1>5, <1>6, OneRequest

\* The daemon reads a message that the request can be waiting for, or rejects it: the
\* request stays as it is, or becomes started, or is over.
LEMMA ReceiveKeepsInv ==
  ASSUME ProtocolInv, NEW r \in Reqs,
         NEW x \in ToServerTypes, ServerReads(r, x),
         x \in {"response_end", "error"} => server'[r] \notin Pending,
         \/ Reject(r)
         \/ UNCHANGED <<server, toClient>>
         \/ /\ server[r] \in Pending
            /\ \E fate \in {"started", "over"} : Become(r, fate),
         \/ UNCHANGED upload
         \/ /\ server[r] \in Pending
            /\ \E u \in {"open", "closed"} : upload' = [upload EXCEPT ![r] = u],
         UNCHANGED <<serverUp, clientSide>>
  PROVE  ProtocolInv'
<1>1. ProtocolTypeOK /\ RequestInv(r) /\ "error" \in ToClientTypes
  BY DEF ProtocolInv, ToClientTypes
<1>2. /\ toServer' \in [Reqs -> Seq(ToServerTypes)]
      /\ \A q \in Reqs : q # r => toServer'[q] = toServer[q]
      /\ serverUp /\ toServer[r] # <<>>
      /\ \A y : In(y, toServer[r]) /\ y # x => In(y, toServer'[r])
  BY <1>1, ServerReadsEffect
<1>3. /\ UNCHANGED <<serverUp, active, worker, ctx, enqueuing, clientUp>>
      /\ upload' \in [Reqs -> {"open", "closed"}]
      /\ upload'[r] = upload[r] \/ server[r] \in Pending
      /\ \A q \in Reqs : q # r => upload'[q] = upload[q]
  <2>1. CASE UNCHANGED upload
    BY <1>1, <2>1 DEF clientSide, ProtocolTypeOK
  <2>2. CASE /\ server[r] \in Pending
             /\ \E u \in {"open", "closed"} : upload' = [upload EXCEPT ![r] = u]
    BY <1>1, <2>2 DEF clientSide, ProtocolTypeOK
  <2>3. QED
    BY <2>1, <2>2
<1>4. /\ toClient' \in [Reqs -> Seq(ToClientTypes)]
      /\ \A q \in Reqs : q # r => toClient'[q] = toClient[q]
      /\ \A y : In(y, toClient'[r]) => In(y, toClient[r]) \/ y = "error"
      /\ \A y : In(y, toClient[r]) => In(y, toClient'[r])
      /\ OneStart(toClient[r]) => OneStart(toClient'[r])
  <2>1. CASE UNCHANGED toClient
    BY <1>1, <2>1 DEF ProtocolTypeOK
  <2>2. CASE Tell(r, "error")
    BY <1>1, <2>2, TellEffect
  <2>3. QED
    BY <2>1, <2>2 DEF Reject, Become
<1>5. /\ server' \in [Reqs -> {"new", "over", "aborted"} \cup Pending]
      /\ \A q \in Reqs : q # r => server'[q] = server[q]
      /\ \/ server'[r] = server[r]
         \/ server[r] \in Pending /\ server'[r] \in {"started", "over"}
  <2>1. CASE UNCHANGED server
    BY <1>1, <2>1 DEF ProtocolTypeOK
  <2>2. CASE /\ server[r] \in Pending
             /\ \E fate \in {"started", "over"} : Become(r, fate)
    BY <1>1, <2>2 DEF ProtocolTypeOK, Become, Pending
  <2>3. QED
    BY <2>1, <2>2 DEF Reject
<1>6. ProtocolTypeOK'
  BY <1>1, <1>2, <1>3, <1>4, <1>5 DEF ProtocolTypeOK
<1>7. RequestInv(r)'
  <2>1. NewIsQuiet(r)' /\ CancelIsLast(r)' /\ NoOrphan(r)'
    BY <1>1, <1>2, <1>3, <1>4, <1>5 DEF RequestInv, NewIsQuiet, CancelIsLast, NoOrphan, Pending
  <2>2. StartIsFirst(r)'
    BY <1>1, <1>3, <1>4 DEF RequestInv, StartIsFirst
  <2>3. Served(r)'
    <3>1. SUFFICES ASSUME server'[r] \in Pending, serverUp', clientUp'
                   PROVE  Served(r)'
      BY DEF Served
    <3>2. server[r] \in Pending /\ x # "response_end" /\ x # "error"
      BY <1>5, <3>1 DEF Pending
    <3>3. QED
      BY <1>1, <1>2, <1>3, <1>4, <3>1, <3>2 DEF RequestInv, Served
  <2>4. QED
    BY <2>1, <2>2, <2>3 DEF RequestInv
<1>8. \A q \in Reqs : q # r => Untouched(q)
  BY <1>2, <1>3, <1>4, <1>5 DEF Untouched
<1>9. QED
  BY <1>3, <1>6, <1>7, <1>8, OneRequest

\* Every step of the daemon for a request.
LEMMA DaemonKeepsInv ==
  ASSUME ProtocolInv, NEW r \in Reqs, DaemonStep(r)
  PROVE  ProtocolInv'
<1>1. CASE Forward(r)
  BY <1>1, ForwardKeepsInv
<1>2. CASE SendBody(r) \/ SendEnd(r)
  BY <1>2, UploadKeepsInv
<1>3. CASE Cancel(r)
  BY <1>3, CancelKeepsInv
<1>4. CASE RecvResponseStart(r)
  <2>1. upload[r] \in {"open", "closed"}
    BY DEF ProtocolInv, ProtocolTypeOK
  <2>2. CASE server[r] = "waiting"
    <3>1. server[r] \in Pending /\ Become(r, "started")
      BY <1>4, <2>2 DEF RecvResponseStart, Pending
    <3>2. \E u \in {"open", "closed"} : upload' = [upload EXCEPT ![r] = u]
      BY <1>4, <2>1 DEF RecvResponseStart
    <3>3. QED
      BY <1>4, <3>1, <3>2, ReceiveKeepsInv DEF RecvResponseStart, ToServerTypes
  <2>3. CASE server[r] # "waiting"
    <3>1. Reject(r)
      BY <1>4, <2>3 DEF RecvResponseStart
    <3>2. UNCHANGED upload
      BY <1>4, <2>3 DEF RecvResponseStart, ProtocolInv, ProtocolTypeOK
    <3>3. QED
      BY <1>4, <3>1, <3>2, ReceiveKeepsInv DEF RecvResponseStart, ToServerTypes
  <2>4. QED
    BY <2>2, <2>3
<1>5. CASE RecvResponseBody(r)
  BY <1>5, ReceiveKeepsInv DEF RecvResponseBody, ToServerTypes
<1>6. CASE RecvResponseEnd(r)
  <2>1. server'[r] \notin Pending
    BY <1>6 DEF RecvResponseEnd, Become, Reject, ProtocolInv, ProtocolTypeOK, Pending
  <2>2. QED
    BY <1>6, <2>1, ReceiveKeepsInv DEF RecvResponseEnd, ToServerTypes
<1>7. CASE RecvRequestError(r)
  <2>1. server'[r] \notin Pending
    BY <1>7 DEF RecvRequestError, Become, ProtocolInv, ProtocolTypeOK, Pending
  <2>2. QED
    BY <1>7, <2>1, ReceiveKeepsInv DEF RecvRequestError, ToServerTypes
<1>8. CASE RecvSessionError(r)
  BY <1>8, ServerEndsKeepsInv DEF RecvSessionError
<1>9. QED
  BY <1>1, <1>2, <1>3, <1>4, <1>5, <1>6, <1>7, <1>8 DEF DaemonStep

-----------------------------------------------------------------------------
(* The client reads.                                                       *)

\* The client's map stays within its limit.
LEMMA ActiveSize ==
  ASSUME ProtocolTypeOK, NEW r \in Reqs
  PROVE  /\ Cardinality(active \ {r}) <= MaxStreams
         /\ Cardinality(active) < MaxStreams => Cardinality(active \cup {r}) <= MaxStreams
<1>1. IsFiniteSet(active) /\ Cardinality(active) \in Nat /\ Cardinality(active) <= MaxStreams
      /\ MaxStreams \in Nat
  BY ProtocolAssumption, FS_Subset, FS_CardinalityType DEF ProtocolTypeOK
<1>2. Cardinality(active \ {r}) =
        IF r \in active THEN Cardinality(active) - 1 ELSE Cardinality(active)
  BY <1>1, FS_RemoveElement
<1>3. Cardinality(active \cup {r}) =
        IF r \in active THEN Cardinality(active) ELSE Cardinality(active) + 1
  BY <1>1, FS_AddElement
<1>4. QED
  BY <1>1, <1>2, <1>3

\* handleRequestStart: a worker takes the request over, or the daemon is told.
LEMMA StartKeepsInv ==
  ASSUME ProtocolInv, NEW r \in Reqs, RecvRequestStart(r)
  PROVE  ProtocolInv'
<1>1. ProtocolTypeOK /\ RequestInv(r) /\ "error" \in ToServerTypes
  BY DEF ProtocolInv, ToServerTypes
<1>2. /\ ClientReads(r, "request_start")
      /\ UNCHANGED <<server, upload, serverUp, ctx, enqueuing, clientUp>>
  BY DEF RecvRequestStart, daemonSide
<1>3. /\ toClient' \in [Reqs -> Seq(ToClientTypes)]
      /\ \A q \in Reqs : q # r => toClient'[q] = toClient[q]
      /\ In("request_start", toClient[r]) /\ toClient[r] # <<>>
      /\ \A y : In(y, toClient'[r]) => In(y, toClient[r])
      /\ OneStart(toClient[r]) => OneStart(toClient'[r]) /\ ~In("request_start", toClient'[r])
  BY <1>1, <1>2, ClientReadsEffect
<1>4. server[r] # "new" /\ worker[r] = "none" /\ ctx[r] = "live" /\ r \notin active
  BY <1>1, <1>3 DEF RequestInv, NewIsQuiet, StartIsFirst
<1>5. CASE AcceptStart(r)
  <2>1. /\ active' = active \cup {r} /\ worker' = [worker EXCEPT ![r] = "proxy"]
        /\ UNCHANGED toServer /\ Cardinality(active) < MaxStreams
    BY <1>5 DEF AcceptStart
  <2>2. ProtocolTypeOK'
    <3>1. active' \subseteq Reqs /\ Cardinality(active') <= MaxStreams
      BY <1>1, <2>1, ActiveSize DEF ProtocolTypeOK
    <3>2. QED
      BY <1>1, <1>2, <1>3, <2>1, <3>1 DEF ProtocolTypeOK, Working
  <2>3. worker'[r] = "proxy" /\ r \in active'
    BY <1>1, <2>1 DEF ProtocolTypeOK
  <2>4. RequestInv(r)'
    BY <1>1, <1>2, <1>3, <1>4, <2>1, <2>3
       DEF RequestInv, NewIsQuiet, StartIsFirst, CancelIsLast, Served, NoOrphan, Working
  <2>5. \A q \in Reqs : q # r => Untouched(q)
    BY <1>1, <1>2, <1>3, <2>1 DEF Untouched, ProtocolTypeOK
  <2>6. QED
    BY <1>2, <2>2, <2>4, <2>5, OneRequest
<1>6. CASE RefuseStart(r)
  <2>1. Answer(r, "error") /\ UNCHANGED <<active, worker>>
    BY <1>6 DEF RefuseStart
  <2>2. /\ toServer' \in [Reqs -> Seq(ToServerTypes)]
        /\ \A q \in Reqs : q # r => toServer'[q] = toServer[q]
        /\ serverUp => In("error", toServer'[r])
    BY <1>1, <2>1, AnswerEffect
  <2>3. ProtocolTypeOK'
    BY <1>1, <1>2, <1>3, <2>1, <2>2 DEF ProtocolTypeOK
  <2>4. RequestInv(r)'
    BY <1>1, <1>2, <1>3, <1>4, <2>1, <2>2
       DEF RequestInv, NewIsQuiet, StartIsFirst, CancelIsLast, Served, NoOrphan
  <2>5. \A q \in Reqs : q # r => Untouched(q)
    BY <1>2, <1>3, <2>1, <2>2 DEF Untouched
  <2>6. QED
    BY <1>2, <2>3, <2>4, <2>5, OneRequest
<1>7. QED
  BY <1>5, <1>6 DEF RecvRequestStart

\* A body frame, known to the client or not: nothing but the message is gone, and what
\* is said about it goes to the daemon.
LEMMA BodyKeepsInv ==
  ASSUME ProtocolInv, NEW r \in Reqs,
         RecvUnknown(r) \/ RecvRequestBody(r) \/ RecvRequestEnd(r)
  PROVE  ProtocolInv'
<1>1. ProtocolTypeOK /\ RequestInv(r) /\ "error" \in ToServerTypes
  BY DEF ProtocolInv, ToServerTypes
<1>2. PICK x \in {"request_body", "request_end"} : ClientReads(r, x)
  BY DEF RecvUnknown, RecvRequestBody, RecvRequestEnd
<1>3. /\ UNCHANGED <<server, upload, serverUp, active, worker, ctx, clientUp>>
      /\ enqueuing' \subseteq Reqs
  BY <1>1 DEF RecvUnknown, RecvRequestBody, RecvRequestEnd, daemonSide, clientSide, ProtocolTypeOK
<1>4. /\ toClient' \in [Reqs -> Seq(ToClientTypes)]
      /\ \A q \in Reqs : q # r => toClient'[q] = toClient[q]
      /\ toClient[r] # <<>>
      /\ \A y : In(y, toClient'[r]) => In(y, toClient[r])
      /\ In("request_start", toClient[r]) => In("request_start", toClient'[r])
      /\ OneStart(toClient[r]) => OneStart(toClient'[r])
  BY <1>1, <1>2, ClientReadsEffect
<1>5. /\ toServer' \in [Reqs -> Seq(ToServerTypes)]
      /\ \A q \in Reqs : q # r => toServer'[q] = toServer[q]
      /\ \A y : In(y, toServer[r]) => In(y, toServer'[r])
  <2>1. CASE UNCHANGED toServer
    BY <1>1, <2>1 DEF ProtocolTypeOK
  <2>2. CASE Answer(r, "error")
    BY <1>1, <2>2, AnswerEffect
  <2>3. QED
    BY <2>1, <2>2 DEF RecvUnknown, RecvRequestBody, RecvRequestEnd
<1>6. ProtocolTypeOK'
  BY <1>1, <1>3, <1>4, <1>5 DEF ProtocolTypeOK
<1>7. RequestInv(r)'
  BY <1>1, <1>3, <1>4, <1>5
     DEF RequestInv, NewIsQuiet, StartIsFirst, CancelIsLast, Served, NoOrphan
<1>8. \A q \in Reqs : q # r => Untouched(q)
  BY <1>3, <1>4, <1>5 DEF Untouched
<1>9. QED
  BY <1>3, <1>6, <1>7, <1>8, OneRequest

\* handleRequestCancel: nobody waits for the request any more, and its context is done
\* when it leaves the map.
LEMMA RecvCancelKeepsInv ==
  ASSUME ProtocolInv, NEW r \in Reqs, RecvCancel(r)
  PROVE  ProtocolInv'
<1>1. ProtocolTypeOK /\ RequestInv(r)
  BY DEF ProtocolInv
<1>2. /\ ClientReads(r, "request_cancel")
      /\ active' = active \ {r}
      /\ ctx' = [ctx EXCEPT ![r] = IF r \in active THEN Stop(r) ELSE @]
      /\ UNCHANGED <<server, upload, serverUp, worker, enqueuing, clientUp, toServer>>
  BY DEF RecvCancel, daemonSide
<1>3. /\ toClient' \in [Reqs -> Seq(ToClientTypes)]
      /\ \A q \in Reqs : q # r => toClient'[q] = toClient[q]
      /\ In("request_cancel", toClient[r]) /\ toClient[r] # <<>>
      /\ \A y : In(y, toClient'[r]) => In(y, toClient[r])
      /\ OneStart(toClient[r]) => OneStart(toClient'[r])
  BY <1>1, <1>2, ClientReadsEffect
<1>4. ProtocolTypeOK'
  <2>1. active' \subseteq Reqs /\ Cardinality(active') <= MaxStreams
    BY <1>1, <1>2, ActiveSize DEF ProtocolTypeOK
  <2>2. QED
    BY <1>1, <1>2, <1>3, <2>1 DEF ProtocolTypeOK, Stop
<1>5. RequestInv(r)'
  <2>1. ctx'[r] = IF r \in active THEN Stop(r) ELSE ctx[r]
    BY <1>1, <1>2 DEF ProtocolTypeOK
  <2>2. server[r] \notin Pending
    BY <1>1, <1>3 DEF RequestInv, CancelIsLast
  <2>3. QED
    BY <1>1, <1>2, <1>3, <2>1, <2>2
       DEF RequestInv, NewIsQuiet, StartIsFirst, CancelIsLast, Served, NoOrphan, Stop
<1>6. \A q \in Reqs : q # r => Untouched(q)
  BY <1>1, <1>2, <1>3 DEF Untouched, ProtocolTypeOK
<1>7. QED
  BY <1>2, <1>4, <1>5, <1>6, OneRequest

-----------------------------------------------------------------------------
(* The client's worker.                                                    *)

\* A step about a request that has a worker, or had one, or whose context is done.
LEMMA WorkerKeepsInv ==
  ASSUME ProtocolInv, NEW r \in Reqs, worker[r] # "none" \/ ctx[r] # "live",
         UNCHANGED <<daemonSide, clientUp, enqueuing, toClient>>,
         ProtocolTypeOK',
         \A q \in Reqs : q # r =>
           /\ worker'[q] = worker[q] /\ ctx'[q] = ctx[q] /\ toServer'[q] = toServer[q]
           /\ q \in active' <=> q \in active,
         Served(r)', NoOrphan(r)'
  PROVE  ProtocolInv'
<1>1. RequestInv(r)
  BY DEF ProtocolInv
<1>2. server[r] # "new" /\ ~In("request_start", toClient[r])
  BY <1>1 DEF RequestInv, NewIsQuiet, StartIsFirst
<1>3. RequestInv(r)'
  BY <1>1, <1>2 DEF RequestInv, NewIsQuiet, StartIsFirst, CancelIsLast, daemonSide
<1>4. \A q \in Reqs : q # r => Untouched(q)
  BY DEF Untouched, daemonSide
<1>5. serverUp' = serverUp
  BY DEF daemonSide
<1>6. QED
  BY <1>3, <1>4, <1>5, OneRequest

\* executeRequest answers: the response starts, or a frame of it follows.
LEMMA AnswersKeepInv ==
  ASSUME ProtocolInv, NEW r \in Reqs, ProxyAnswers(r) \/ StreamBody(r)
  PROVE  ProtocolInv'
<1>1. ProtocolTypeOK /\ RequestInv(r) /\ {"response_start", "response_body"} \subseteq ToServerTypes
  BY DEF ProtocolInv, ToServerTypes
<1>2. PICK x \in {"response_start", "response_body"} : Answer(r, x)
  BY DEF ProxyAnswers, StreamBody
<1>3. /\ worker[r] \in Working
      /\ worker' \in [Reqs -> {"none", "leave", "done"} \cup Working] /\ worker'[r] \in Working
      /\ \A q \in Reqs : q # r => worker'[q] = worker[q]
      /\ UNCHANGED <<daemonSide, active, ctx, enqueuing, clientUp, toClient>>
  BY <1>1 DEF ProxyAnswers, StreamBody, Work, Goto, Working, ProtocolTypeOK, clientSide
<1>4. /\ toServer' \in [Reqs -> Seq(ToServerTypes)]
      /\ \A q \in Reqs : q # r => toServer'[q] = toServer[q]
      /\ \A y : In(y, toServer[r]) => In(y, toServer'[r])
  BY <1>1, <1>2, AnswerEffect
<1>5. ProtocolTypeOK'
  BY <1>1, <1>3, <1>4 DEF ProtocolTypeOK, daemonSide
<1>6. Served(r)' /\ NoOrphan(r)'
  BY <1>1, <1>3, <1>4 DEF RequestInv, Served, NoOrphan, daemonSide
<1>7. worker[r] # "none"
  BY <1>3 DEF Working
<1>8. QED
  BY <1>3, <1>4, <1>5, <1>6, <1>7, WorkerKeepsInv

\* executeRequest ends and the daemon hears of it.
LEMMA EndsKeepInv ==
  ASSUME ProtocolInv, NEW r \in Reqs, StreamEnd(r) \/ WorkFails(r)
  PROVE  ProtocolInv'
<1>1. ProtocolTypeOK /\ RequestInv(r) /\ {"response_end", "error"} \subseteq ToServerTypes
  BY DEF ProtocolInv, ToServerTypes
<1>2. PICK x \in {"response_end", "error"} : Answer(r, x)
  BY DEF StreamEnd, WorkFails
<1>3. /\ worker[r] \in Working /\ Finish(r)
      /\ UNCHANGED <<daemonSide, active, enqueuing, clientUp, toClient>>
  BY DEF StreamEnd, WorkFails, Work, Working
<1>4. /\ toServer' \in [Reqs -> Seq(ToServerTypes)]
      /\ \A q \in Reqs : q # r => toServer'[q] = toServer[q]
      /\ serverUp => In(x, toServer'[r])
  BY <1>1, <1>2, AnswerEffect
<1>5. /\ worker' = [worker EXCEPT ![r] = "leave"] /\ worker'[r] = "leave"
      /\ ctx' = [ctx EXCEPT ![r] = Stop(r)]
  BY <1>1, <1>3 DEF Finish, Goto, ProtocolTypeOK
<1>6. ProtocolTypeOK'
  BY <1>1, <1>3, <1>4, <1>5 DEF ProtocolTypeOK, daemonSide, Stop
<1>7. Served(r)' /\ NoOrphan(r)'
  BY <1>2, <1>3, <1>4, <1>5 DEF Served, NoOrphan, daemonSide, Working
<1>8. /\ worker[r] # "none"
      /\ \A q \in Reqs : q # r => worker'[q] = worker[q] /\ ctx'[q] = ctx[q]
  BY <1>1, <1>3, <1>5 DEF Working, ProtocolTypeOK
<1>9. QED
  BY <1>3, <1>4, <1>6, <1>7, <1>8, WorkerKeepsInv

\* executeRequest gives up because the context is done: the daemon is not waiting, or
\* has been told already.
LEMMA WorkCanceledKeepsInv ==
  ASSUME ProtocolInv, NEW r \in Reqs, WorkCanceled(r)
  PROVE  ProtocolInv'
<1>1. ProtocolTypeOK /\ RequestInv(r)
  BY DEF ProtocolInv
<1>2. /\ worker[r] \in Working /\ ctx[r] # "live" /\ Goto(r, "leave") /\ ctx' = ctx
      /\ UNCHANGED <<daemonSide, active, enqueuing, clientUp, toClient, toServer>>
  BY DEF WorkCanceled, Work
<1>3. worker' = [worker EXCEPT ![r] = "leave"] /\ worker'[r] = "leave"
  BY <1>1, <1>2 DEF Goto, ProtocolTypeOK
<1>4. ProtocolTypeOK'
  BY <1>1, <1>2, <1>3 DEF ProtocolTypeOK, daemonSide
<1>5. Served(r)' /\ NoOrphan(r)'
  BY <1>1, <1>2, <1>3 DEF RequestInv, Served, NoOrphan, daemonSide, Working
<1>6. /\ worker[r] # "none"
      /\ \A q \in Reqs : q # r => worker'[q] = worker[q]
  BY <1>1, <1>2, <1>3 DEF Working, ProtocolTypeOK
<1>7. QED
  BY <1>2, <1>3, <1>4, <1>5, <1>6, WorkerKeepsInv

\* finishRequest.
LEMMA LeaveKeepsInv ==
  ASSUME ProtocolInv, NEW r \in Reqs, Leave(r)
  PROVE  ProtocolInv'
<1>1. ProtocolTypeOK /\ RequestInv(r)
  BY DEF ProtocolInv
<1>2. /\ worker[r] = "leave" /\ worker' = [worker EXCEPT ![r] = "done"] /\ active' = active \ {r}
      /\ UNCHANGED <<daemonSide, ctx, enqueuing, clientUp, toClient, toServer>>
  BY DEF Leave, Work, Goto
<1>3. active' \subseteq Reqs /\ Cardinality(active') <= MaxStreams
  BY <1>1, <1>2, ActiveSize DEF ProtocolTypeOK
<1>4. ProtocolTypeOK'
  BY <1>1, <1>2, <1>3 DEF ProtocolTypeOK, daemonSide
<1>5. worker'[r] = "done" /\ \A q \in Reqs : q # r => worker'[q] = worker[q]
  BY <1>1, <1>2 DEF ProtocolTypeOK
<1>6. Served(r)' /\ NoOrphan(r)'
  BY <1>1, <1>2, <1>5 DEF RequestInv, Served, NoOrphan, daemonSide, Working
<1>7. QED
  BY <1>2, <1>4, <1>5, <1>6, WorkerKeepsInv

\* The deadline, the write to the local connection that fails, and the idle timer up
\* to the error it sends.
LEMMA StopsKeepInv ==
  ASSUME ProtocolInv, NEW r \in Reqs, ClientIdle(r) \/ Expire(r) \/ UpgradeInputFails(r)
  PROVE  ProtocolInv'
<1>1. ProtocolTypeOK
  BY DEF ProtocolInv
<1>2. PICK c \in {"idle", "stopped"} : ctx' = [ctx EXCEPT ![r] = c]
  BY DEF ClientIdle, Expire, UpgradeInputFails
<1>3. /\ worker[r] \in Working
      /\ UNCHANGED <<daemonSide, active, worker, enqueuing, clientUp, toClient, toServer>>
  BY DEF ClientIdle, Expire, UpgradeInputFails, Work, Working
<1>4. ctx'[r] = c /\ \A q \in Reqs : q # r => ctx'[q] = ctx[q]
  BY <1>1, <1>2 DEF ProtocolTypeOK
<1>5. ProtocolTypeOK'
  BY <1>1, <1>2, <1>3 DEF ProtocolTypeOK, daemonSide
<1>6. Served(r)' /\ NoOrphan(r)'
  BY <1>3, <1>4 DEF Served, NoOrphan, daemonSide
<1>7. worker[r] # "none"
  BY <1>3 DEF Working
<1>8. QED
  BY <1>3, <1>4, <1>5, <1>6, <1>7, WorkerKeepsInv

\* The error that the idle timer sends.
LEMMA IdleErrorKeepsInv ==
  ASSUME ProtocolInv, NEW r \in Reqs, IdleError(r)
  PROVE  ProtocolInv'
<1>1. ProtocolTypeOK /\ RequestInv(r) /\ "error" \in ToServerTypes
  BY DEF ProtocolInv, ToServerTypes
<1>2. /\ ctx[r] = "idle" /\ ctx' = [ctx EXCEPT ![r] = "canceled"]
      /\ Answer(r, "error")
      /\ UNCHANGED <<daemonSide, active, worker, enqueuing, clientUp, toClient>>
  BY DEF IdleError
<1>3. /\ toServer' \in [Reqs -> Seq(ToServerTypes)]
      /\ \A q \in Reqs : q # r => toServer'[q] = toServer[q]
      /\ serverUp => In("error", toServer'[r])
  BY <1>1, <1>2, AnswerEffect
<1>4. ctx'[r] = "canceled" /\ \A q \in Reqs : q # r => ctx'[q] = ctx[q]
  BY <1>1, <1>2 DEF ProtocolTypeOK
<1>5. ProtocolTypeOK'
  BY <1>1, <1>2, <1>3 DEF ProtocolTypeOK, daemonSide
<1>6. Served(r)' /\ NoOrphan(r)'
  BY <1>2, <1>3, <1>4 DEF Served, NoOrphan, daemonSide
<1>7. QED
  BY <1>2, <1>3, <1>4, <1>5, <1>6, WorkerKeepsInv

\* Nothing that the invariant mentions changes.
LEMMA IdleKeepsInv ==
  ASSUME ProtocolInv, UNCHANGED <<daemonSide, active, worker, ctx, clientUp, toClient, toServer>>,
         enqueuing' \subseteq Reqs
  PROVE  ProtocolInv'
<1>1. ProtocolTypeOK'
  BY DEF ProtocolInv, ProtocolTypeOK, daemonSide
<1>2. ASSUME NEW r \in Reqs PROVE RequestInv(r)'
  BY DEF ProtocolInv, RequestInv, NewIsQuiet, StartIsFirst, CancelIsLast, Served, NoOrphan,
     daemonSide
<1>3. QED
  BY <1>1, <1>2 DEF ProtocolInv

\* Every step of the client for a request.
LEMMA ClientKeepsInv ==
  ASSUME ProtocolInv, NEW r \in Reqs, ClientStep(r)
  PROVE  ProtocolInv'
<1>1. CASE RecvRequestStart(r)
  BY <1>1, StartKeepsInv
<1>2. CASE RecvUnknown(r) \/ RecvRequestBody(r) \/ RecvRequestEnd(r)
  BY <1>2, BodyKeepsInv
<1>3. CASE RecvCancel(r)
  BY <1>3, RecvCancelKeepsInv
<1>4. CASE RecvError(r) \/ EnqueueFails(r)
  BY <1>4, ClientEndsKeepsInv DEF RecvError, EnqueueFails
<1>5. CASE Enqueued(r)
  BY <1>5, IdleKeepsInv DEF Enqueued
<1>6. CASE ProxyAnswers(r) \/ StreamBody(r)
  BY <1>6, AnswersKeepInv
<1>7. CASE StreamEnd(r) \/ WorkFails(r)
  BY <1>7, EndsKeepInv
<1>8. CASE WorkCanceled(r)
  BY <1>8, WorkCanceledKeepsInv
<1>9. CASE Leave(r)
  BY <1>9, LeaveKeepsInv
<1>10. CASE ClientIdle(r) \/ Expire(r) \/ UpgradeInputFails(r)
  BY <1>10, StopsKeepInv
<1>11. CASE IdleError(r)
  BY <1>11, IdleErrorKeepsInv
<1>12. QED
  BY <1>1, <1>2, <1>3, <1>4, <1>5, <1>6, <1>7, <1>8, <1>9, <1>10, <1>11 DEF ClientStep

-----------------------------------------------------------------------------
(* The theorems.                                                           *)

\* Before the first request.
LEMMA InitInv == ProtocolInit => ProtocolInv
<1> SUFFICES ASSUME ProtocolInit
             PROVE  ProtocolInv
  OBVIOUS
<1>1. ProtocolTypeOK
  <2>1. Empty \in [Reqs -> Seq(ToClientTypes)] /\ Empty \in [Reqs -> Seq(ToServerTypes)]
    BY DEF Empty
  <2>2. Cardinality({}) <= MaxStreams
    BY ProtocolAssumption, FS_EmptySet
  <2>3. QED
    BY <2>1, <2>2 DEF ProtocolInit, ProtocolTypeOK
<1>2. ASSUME NEW r \in Reqs PROVE RequestInv(r)
  BY NothingIn DEF ProtocolInit, Empty, RequestInv, NewIsQuiet, StartIsFirst, CancelIsLast, Served,
     NoOrphan, Pending, Working
<1>3. QED
  BY <1>1, <1>2 DEF ProtocolInv

\* The invariant is inductive.
THEOREM ProtocolInductive == ProtocolSpec => []ProtocolInv
<1>1. ASSUME ProtocolInv, [ProtocolNext]_vars
      PROVE  ProtocolInv'
  <2>1. CASE \E r \in Reqs : DaemonStep(r) \/ ClientStep(r)
    BY <1>1, <2>1, DaemonKeepsInv, ClientKeepsInv
  <2>2. CASE ServerReadFails
    BY <1>1, <2>2, ServerEndsKeepsInv DEF ServerReadFails
  <2>3. CASE ClientReadFails
    BY <1>1, <2>3, ClientEndsKeepsInv DEF ClientReadFails
  <2>4. CASE UNCHANGED vars
    <3>1. enqueuing' \subseteq Reqs
      BY <1>1, <2>4 DEF vars, clientSide, ProtocolInv, ProtocolTypeOK
    <3>2. QED
      BY <1>1, <2>4, <3>1, IdleKeepsInv DEF vars, clientSide
  <2>5. QED
    BY <1>1, <2>1, <2>2, <2>3, <2>4 DEF ProtocolNext
<1>2. QED
  BY InitInv, <1>1, PTL DEF ProtocolSpec

\* Every variable has its type, and the client works on MaxConcurrentStreams requests
\* at most (handleRequestStart).
THEOREM ProtocolTyped == ProtocolSpec => []ProtocolTypeOK
<1>1. ProtocolInv => ProtocolTypeOK
  BY DEF ProtocolInv
<1>2. QED
  BY ProtocolInductive, <1>1, PTL

\* Nobody waits at the daemon for an answer that nobody will send (handleRequestStart,
\* executeRequest, handleRequestError).
THEOREM PendingIsServedHolds == ProtocolSpec => []PendingIsServed
<1>1. ProtocolInv => PendingIsServed
  BY DEF ProtocolInv, RequestInv, Served, In, PendingIsServed
<1>2. QED
  BY ProtocolInductive, <1>1, PTL

\* Work that the client has dropped from its map is stopped (handleRequestCancel,
\* cancelActiveRequests).
THEOREM NoOrphanWorkHolds == ProtocolSpec => []NoOrphanWork
<1>1. ProtocolInv => NoOrphanWork
  BY DEF ProtocolInv, RequestInv, NoOrphan, NoOrphanWork
<1>2. QED
  BY ProtocolInductive, <1>1, PTL
=============================================================================
