---------------------------- MODULE UsageTracker ----------------------------
(***************************************************************************)
(* The usage tracker of the daemon (internal/usage/tracker.go) and the     *)
(* usage database it flushes to (internal/usage/store.go): per-user        *)
(* request and byte accounting by period, request reservations, and the    *)
(* periodic flush.  The tunnel places of the tracker are TunnelQuota; here *)
(* their operations only touch a bucket, and the number of active tunnels  *)
(* that a record shows is left out.                                        *)
(*                                                                         *)
(* Every operation holds Tracker.mu for its whole body except Flush, which *)
(* takes its snapshot under the lock, writes the database without it and   *)
(* locks again when the write failed.  A bucket that was never touched is  *)
(* the zero bucket: buckets are never deleted while the process runs.      *)
(*                                                                         *)
(* The reservation of a request is given back by a completion, and also by *)
(* ForwardRequest when the request could not be forwarded.  Nothing keeps  *)
(* these two apart: such a request still has its idle timer, so the one    *)
(* reservation may be released and counted, in either order.               *)
(***************************************************************************)
EXTENDS Naturals, FiniteSetsExt

CONSTANTS
  Users,
  Reqs,          \* forwarded requests
  MaxRequests,   \* plan limits per period; 0 means no limit
  MaxBytesIn,
  MaxBytesOut,
  MaxSize,       \* bound on the size of a body
  MaxPeriods,    \* bound on the periods that pass
  MaxCrashes     \* bound on the crashes of the daemon

ASSUME UsageAssumption ==
  /\ {MaxRequests, MaxBytesIn, MaxBytesOut, MaxSize, MaxPeriods, MaxCrashes} \subseteq Nat
  /\ MaxPeriods > 0
  /\ IsFiniteSet(Reqs) /\ Users # {}

VARIABLES
  period,    \* the period that contains time.Now()
  buckets,   \* [Keys -> Bucket]
  requests,  \* [Reqs -> Request]: the reservation of each request
  flushing,  \* [Keys -> BOOLEAN]: the buckets in the flush being written
  snapshot,  \* [Keys -> Totals]: their records, copied under the lock
  writing,   \* the flush loop is between its two critical sections
  db,        \* [Keys -> Totals]: the usage database file
  crashes

vars == <<period, buckets, requests, flushing, snapshot, writing, db, crashes>>

Periods == 1..MaxPeriods
Keys == Users \X Periods

\* Record: RequestCount, BytesIn, BytesOut
Totals == [count : Nat, bytesIn : Nat, bytesOut : Nat]
ZeroTotals == [count |-> 0, bytesIn |-> 0, bytesOut |-> 0]

Bucket == [total : Totals, reservedRequests : Nat, reservedBytesIn : Nat, dirty : BOOLEAN]
ZeroBucket == [total |-> ZeroTotals, reservedRequests |-> 0, reservedBytesIn |-> 0,
               dirty |-> FALSE]

\* A request is forwarded once its request_start is queued.
Request == [at : {"new", "forwarding", "forwarded", "released", "over"}, counted : BOOLEAN,
            key : Keys, estimate : 0..MaxSize]
NewRequest == [at |-> "new", counted |-> FALSE, key |-> CHOOSE k \in Keys : TRUE,
               estimate |-> 0]
\* nothing more happens to the reservation and nothing of it is kept
OverRequest == [NewRequest EXCEPT !.at = "over"]

UsageInit ==
  /\ period = 1
  /\ buckets = [k \in Keys |-> ZeroBucket]
  /\ requests = [r \in Reqs |-> NewRequest]
  /\ flushing = [k \in Keys |-> FALSE]
  /\ snapshot = [k \in Keys |-> ZeroTotals]
  /\ writing = FALSE
  /\ db = [k \in Keys |-> ZeroTotals]
  /\ crashes = 0

-----------------------------------------------------------------------------

\* touchBucketLocked: a tunnel of the user is confirmed, restored or closed
Touch(u) ==
  /\ buckets' = [buckets EXCEPT ![<<u, period>>].dirty = TRUE]
  /\ UNCHANGED <<period, requests, flushing, snapshot, writing, db, crashes>>

-----------------------------------------------------------------------------
(* Requests.                                                               *)

\* the checks of ReserveRequest, in the bucket of the current period
RequestRoom_IgnoresReserved(b, estimate) ==
  /\ MaxRequests > 0 => b.total.count + 1 <= MaxRequests
  /\ MaxBytesIn > 0 => b.total.bytesIn + estimate <= MaxBytesIn
  /\ MaxBytesOut > 0 => b.total.bytesOut < MaxBytesOut
RequestRoom(b, estimate) ==
  /\ MaxRequests > 0 => b.total.count + b.reservedRequests + 1 <= MaxRequests
  /\ MaxBytesIn > 0 => b.total.bytesIn + b.reservedBytesIn + estimate <= MaxBytesIn
  /\ MaxBytesOut > 0 => b.total.bytesOut < MaxBytesOut

\* Requests differ by nothing before they are admitted: the next one is any of them.
NextRequest == CHOOSE r \in Reqs : requests[r].at = "new"

\* A request that finds no room leaves nothing behind.
ReserveRequest(r, u, estimate) ==
  LET k == <<u, period>>
      b == [buckets[k] EXCEPT !.reservedRequests = @ + 1, !.reservedBytesIn = @ + estimate] IN
  /\ requests[r].at = "new" /\ r = NextRequest
  /\ RequestRoom(buckets[k], estimate)
  /\ requests' = [requests EXCEPT ![r] =
       [at |-> "forwarding", counted |-> FALSE, key |-> k, estimate |-> estimate]]
  /\ buckets' = [buckets EXCEPT ![k] = b]
  /\ UNCHANGED <<period, flushing, snapshot, writing, db, crashes>>

\* forwardHTTP has queued the request_start: it no longer fails
Forwarded(r) ==
  /\ requests[r].at = "forwarding"
  /\ requests' = [requests EXCEPT ![r] =
       IF @.counted THEN OverRequest ELSE [@ EXCEPT !.at = "forwarded"]]
  /\ UNCHANGED <<period, buckets, flushing, snapshot, writing, db, crashes>>

\* the bucket without a reservation: both counters stop at zero
Unreserve_Twice(b, estimate) ==
  [b EXCEPT !.reservedRequests = @ - 2,
            !.reservedBytesIn = IF @ >= estimate THEN @ - estimate ELSE 0]
Unreserve(b, estimate) ==
  [b EXCEPT !.reservedRequests = IF @ > 0 THEN @ - 1 ELSE @,
            !.reservedBytesIn = IF @ >= estimate THEN @ - estimate ELSE 0]

\* forwardHTTP has failed: whether the request has been counted meanwhile is not asked
ReleaseRequest(r) ==
  LET q == requests[r] IN
  /\ q.at = "forwarding"
  /\ requests' = [requests EXCEPT ![r].at = "released"]
  /\ buckets' = [buckets EXCEPT ![q.key] = Unreserve(@, q.estimate)]
  /\ UNCHANGED <<period, flushing, snapshot, writing, db, crashes>>

Counting(t, bytesIn, bytesOut) ==
  [t EXCEPT !.count = @ + 1, !.bytesIn = @ + bytesIn, !.bytesOut = @ + bytesOut]

\* finish may run from the moment forwardHTTP has created the pendingRequest, also
\* after it has failed and the reservation is released.  Bytes pass once the request
\* is forwarded.
Completes(q, bytesIn, bytesOut) ==
  /\ q.at \in {"forwarding", "forwarded", "released"} /\ ~q.counted
  /\ q.at = "forwarded" \/ (bytesIn = 0 /\ bytesOut = 0)
Finished(q) == IF q.at = "forwarded" THEN OverRequest ELSE [q EXCEPT !.counted = TRUE]

\* the bytes are counted in the bucket of the reservation, whatever the period is now
CompleteRequest_CurrentPeriod(r, bytesIn, bytesOut) ==
  LET q == requests[r]
      k == <<q.key[1], period>>
      b == Unreserve(buckets[k], q.estimate) IN
  /\ Completes(q, bytesIn, bytesOut)
  /\ requests' = [requests EXCEPT ![r] = Finished(@)]
  /\ buckets' = [buckets EXCEPT ![k] =
       [b EXCEPT !.total = Counting(@, bytesIn, bytesOut), !.dirty = TRUE]]
  /\ UNCHANGED <<period, flushing, snapshot, writing, db, crashes>>
CompleteRequest_Clean(r, bytesIn, bytesOut) ==
  LET q == requests[r]
      k == q.key
      b == Unreserve(buckets[k], q.estimate) IN
  /\ Completes(q, bytesIn, bytesOut)
  /\ requests' = [requests EXCEPT ![r] = Finished(@)]
  /\ buckets' = [buckets EXCEPT ![k] = [b EXCEPT !.total = Counting(@, bytesIn, bytesOut)]]
  /\ UNCHANGED <<period, flushing, snapshot, writing, db, crashes>>
CompleteRequest(r, bytesIn, bytesOut) ==
  LET q == requests[r]
      k == q.key
      b == Unreserve(buckets[k], q.estimate) IN
  /\ Completes(q, bytesIn, bytesOut)
  /\ requests' = [requests EXCEPT ![r] = Finished(@)]
  /\ buckets' = [buckets EXCEPT ![k] =
       [b EXCEPT !.total = Counting(@, bytesIn, bytesOut), !.dirty = TRUE]]
  /\ UNCHANGED <<period, flushing, snapshot, writing, db, crashes>>

-----------------------------------------------------------------------------
(* Flush.                                                                  *)

\* the first critical section: dirty buckets are copied and marked clean
FlushSnapshot ==
  /\ ~writing
  /\ \E k \in Keys : buckets[k].dirty
  /\ writing' = TRUE
  /\ flushing' = [k \in Keys |-> buckets[k].dirty]
  /\ snapshot' = [k \in Keys |-> IF buckets[k].dirty THEN buckets[k].total ELSE ZeroTotals]
  /\ buckets' = [k \in Keys |-> [buckets[k] EXCEPT !.dirty = FALSE]]
  /\ UNCHANGED <<period, requests, db, crashes>>

EndFlush ==
  /\ writing' = FALSE
  /\ flushing' = [k \in Keys |-> FALSE]
  /\ snapshot' = [k \in Keys |-> ZeroTotals]
  /\ UNCHANGED <<period, requests, crashes>>

\* UpsertMany replaces the records of the database it has copies of
FlushWritten_Rewrites ==
  /\ writing
  /\ db' = snapshot
  /\ UNCHANGED buckets
  /\ EndFlush
FlushWritten ==
  /\ writing
  /\ db' = [k \in Keys |-> IF flushing[k] THEN snapshot[k] ELSE db[k]]
  /\ UNCHANGED buckets
  /\ EndFlush

\* the write fails: the buckets are dirty again, whatever happened to them since
FlushFailed_StaysClean ==
  /\ writing
  /\ UNCHANGED <<buckets, db>>
  /\ EndFlush
FlushFailed ==
  /\ writing
  /\ buckets' = [k \in Keys |-> IF flushing[k] THEN [buckets[k] EXCEPT !.dirty = TRUE]
                                               ELSE buckets[k]]
  /\ UNCHANGED db
  /\ EndFlush

-----------------------------------------------------------------------------

\* a new day or a new month
NextPeriod ==
  /\ period < MaxPeriods
  /\ period' = period + 1
  /\ UNCHANGED <<buckets, requests, flushing, snapshot, writing, db, crashes>>

\* The process dies or is stopped, also between the two halves of a flush, and
\* starts again with empty maps: nothing reads the database back.
Crash ==
  /\ crashes < MaxCrashes
  /\ crashes' = crashes + 1
  /\ buckets' = [k \in Keys |-> ZeroBucket]
  /\ requests' = [r \in Reqs |-> IF requests[r].at = "new" THEN requests[r] ELSE OverRequest]
  /\ flushing' = [k \in Keys |-> FALSE]
  /\ snapshot' = [k \in Keys |-> ZeroTotals]
  /\ writing' = FALSE
  /\ UNCHANGED <<period, db>>

UsageNext ==
  \/ \E u \in Users : Touch(u)
  \/ \E r \in Reqs, u \in Users, estimate \in 0..MaxSize : ReserveRequest(r, u, estimate)
  \/ \E r \in Reqs : Forwarded(r) \/ ReleaseRequest(r)
  \/ \E r \in Reqs, bytesIn, bytesOut \in 0..MaxSize : CompleteRequest(r, bytesIn, bytesOut)
  \/ FlushSnapshot \/ FlushWritten \/ FlushFailed
  \/ NextPeriod
  \/ Crash

UsageSpec == UsageInit /\ [][UsageNext]_vars

\* The flush loop is scheduled, and the disk does not fail every write for ever.
FairUsageSpec ==
  UsageSpec /\ WF_vars(FlushSnapshot) /\ WF_vars(FlushWritten \/ FlushFailed)
            /\ SF_vars(FlushWritten)

-----------------------------------------------------------------------------
(* Properties.                                                             *)

\* Every variable has its type.
UsageTypeOK ==
  /\ period \in Periods
  /\ buckets \in [Keys -> Bucket]
  /\ requests \in [Reqs -> Request]
  /\ flushing \in [Keys -> BOOLEAN]
  /\ snapshot \in [Keys -> Totals]
  /\ writing \in BOOLEAN
  /\ db \in [Keys -> Totals]
  /\ crashes \in 0..MaxCrashes

\* the requests of a bucket that hold their reservation, and those that have given it
\* back twice
HeldIn(k) == {r \in Reqs : /\ requests[r].at \in {"forwarding", "forwarded"}
                           /\ ~requests[r].counted /\ requests[r].key = k}
TwiceIn(k) == {r \in Reqs : /\ requests[r].at = "released"
                            /\ requests[r].counted /\ requests[r].key = k}
Estimates(set) == MapThenSumSet(LAMBDA r : requests[r].estimate, set)

\* No reservation outlives its request, in number or in bytes, also for requests that
\* outlive the period they were admitted in, and what a bucket is short of, because the
\* second return of a reservation took that of another request, is never more than what
\* the requests released and counted have returned twice (ReserveRequest,
\* ReleaseRequest, CompleteRequest).
ReservationsAreHeld ==
  \A k \in Keys :
    LET b == buckets[k] IN
    /\ b.reservedRequests <= Cardinality(HeldIn(k))
    /\ Cardinality(HeldIn(k)) <= b.reservedRequests + Cardinality(TwiceIn(k))
    /\ b.reservedBytesIn <= Estimates(HeldIn(k))
    /\ Estimates(HeldIn(k)) <= b.reservedBytesIn + Estimates(TwiceIn(k))

\* A user's completed and admitted requests of a period exceed the plan by no more than
\* the requests that were both released and counted, however reservations, completions,
\* timers and the turn of the period interleave (ReserveRequest).
RequestCap ==
  MaxRequests > 0 => \A k \in Keys :
    buckets[k].total.count + Cardinality(HeldIn(k)) <= MaxRequests + Cardinality(TwiceIn(k))

\* What a bucket has counted is in the database, or in the copy being written, or
\* the bucket is dirty: a completion that falls between the two halves of a flush
\* or a flush that fails loses nothing (Flush).
CountedOrDirty ==
  \A k \in Keys :
    \/ buckets[k].dirty
    \/ flushing[k] /\ snapshot[k] = buckets[k].total
    \/ db[k] = buckets[k].total
    \/ ZeroTotals = buckets[k].total

Grows(k) ==
  /\ db'[k].count >= db[k].count
  /\ db'[k].bytesIn >= db[k].bytesIn
  /\ db'[k].bytesOut >= db[k].bytesOut

\* While the process lives the totals on disk never shrink: a flush never writes a
\* copy that is older than what an earlier one has written (Flush, UpsertMany).
FlushKeepsTotals ==
  [][crashes = 0 => \A k \in Keys : Grows(k)]_vars

\* As long as the process lives, whatever has been counted is in the database again and
\* again, although each flush may fail, tunnels keep touching the buckets and requests
\* complete between the two halves of a flush (Run).
EventuallyDurable ==
  []<>(crashes > 0 \/ \A k \in Keys : db[k] = buckets[k].total)
=============================================================================
