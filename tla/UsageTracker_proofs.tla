------------------------ MODULE UsageTracker_proofs ------------------------
(***************************************************************************)
(* What a plan admits and what a flush keeps: a proof for any number of    *)
(* users, requests and periods, any limits and any number of crashes.      *)
(*                                                                         *)
(* RequestCap is not inductive: admission looks at the counter of a        *)
(* bucket, and the plan is about the requests behind it.  A reservation    *)
(* that is returned twice may take the place of another request, so the    *)
(* counter and the requests do not agree; but they differ by no more than  *)
(* the requests released and counted (Reserved), and each step that        *)
(* returns a reservation takes one from the requests that hold theirs or   *)
(* adds one to those that have returned it twice (ReturnBalances).         *)
(*                                                                         *)
(* CountedOrDirty and FlushKeepsTotals rest on what a flush that is being  *)
(* written holds: a copy no older than the database and, unless the bucket *)
(* is dirty again, as new as the bucket (Counted, Behind).                 *)
(*                                                                         *)
(* The reserved bytes are a sum over a set of requests, and what such a    *)
(* sum does when a request joins or leaves needs induction.  They are      *)
(* counted instead, as the pairs of a request and one of its bytes; the    *)
(* sum is shown to be that count by the smallest set on which the two      *)
(* would differ (SumIsCount).                                              *)
(***************************************************************************)
EXTENDS UsageTracker, FiniteSetTheorems, WellFoundedInduction, TLAPS

-----------------------------------------------------------------------------
(* The invariant.                                                          *)

\* The bytes each request has reserved.
EstimateOf == [r \in Reqs |-> requests[r].estimate]

\* The bytes of a set of requests, one by one.
BytePairs(f, set) == {p \in set \X (1..MaxSize) : p[2] <= f[p[1]]}

\* The requests that hold their reservation and those that have returned it twice, in
\* number and in bytes.
Held(k) == Cardinality(HeldIn(k))
Twice(k) == Cardinality(TwiceIn(k))
HeldBytes(k) == Cardinality(BytePairs(EstimateOf, HeldIn(k)))
TwiceBytes(k) == Cardinality(BytePairs(EstimateOf, TwiceIn(k)))

\* A bucket reserves nothing for a request that holds nothing, and is short of no more
\* than what was returned twice.
Reserved(k) ==
  /\ buckets[k].reservedRequests <= Held(k)
  /\ Held(k) <= buckets[k].reservedRequests + Twice(k)
  /\ buckets[k].reservedBytesIn <= HeldBytes(k)
  /\ HeldBytes(k) <= buckets[k].reservedBytesIn + TwiceBytes(k)

\* Completed and admitted requests stay within the plan, but for those.
WithinPlan(k) == MaxRequests > 0 => buckets[k].total.count + Held(k) <= MaxRequests + Twice(k)

\* A clean bucket is in the copy being written, if there is one, and otherwise in the
\* database, unless it has counted nothing.
Counted(k) ==
  \/ buckets[k].dirty
  \/ flushing[k] /\ snapshot[k] = buckets[k].total
  \/ ~flushing[k] /\ (db[k] = buckets[k].total \/ ZeroTotals = buckets[k].total)

Below(t1, t2) ==
  t1.count <= t2.count /\ t1.bytesIn <= t2.bytesIn /\ t1.bytesOut <= t2.bytesOut

\* The database is never ahead of the copy being written, nor the copy of the bucket.
Behind(k) ==
  crashes = 0 =>
    /\ Below(db[k], buckets[k].total)
    /\ flushing[k] => Below(db[k], snapshot[k]) /\ Below(snapshot[k], buckets[k].total)

BucketInv(k) == Reserved(k) /\ WithinPlan(k) /\ Counted(k) /\ Behind(k)

OnlyWhileWriting == ~writing => \A k \in Keys : ~flushing[k]

UsageInv == UsageTypeOK /\ OnlyWhileWriting /\ \A k \in Keys : BucketInv(k)

-----------------------------------------------------------------------------
(* Types.                                                                  *)

\* There is a bucket to name in a reservation.
LEMMA RequestTypes == NewRequest \in Request /\ OverRequest \in Request
<1>1. \E k \in Keys : TRUE
  <2>1. PICK u \in Users : TRUE
    BY UsageAssumption
  <2>2. 1 \in Periods
    BY UsageAssumption DEF Periods
  <2>3. <<u, 1>> \in Keys
    BY <2>1, <2>2 DEF Keys
  <2>4. QED
    BY <2>3
<1>2. (CHOOSE k \in Keys : TRUE) \in Keys /\ 0 \in 0..MaxSize
  BY <1>1, UsageAssumption
<1>3. NewRequest \in Request
  BY <1>2 DEF NewRequest, Request
<1>4. QED
  BY <1>3 DEF OverRequest, Request

\* The states in which nothing is held, or returned twice.
LEMMA NewAndOver == NewRequest.at = "new" /\ OverRequest.at = "over"
BY DEF NewRequest, OverRequest

\* A bucket keeps its two counters and its totals.
LEMMA BucketTypes ==
  ASSUME NEW b \in Bucket
  PROVE  /\ b.reservedRequests \in Nat /\ b.reservedBytesIn \in Nat /\ b.dirty \in BOOLEAN
         /\ b.total \in Totals /\ b.total.count \in Nat /\ b.total.bytesIn \in Nat
         /\ b.total.bytesOut \in Nat
BY DEF Bucket, Totals

\* ReleaseRequest and CompleteRequest: the guards of the two counters.
LEMMA UnreserveProperties ==
  ASSUME NEW b \in Bucket, NEW e \in 0..MaxSize
  PROVE  /\ Unreserve(b, e) \in Bucket
         /\ Unreserve(b, e).total = b.total
         /\ Unreserve(b, e).dirty = b.dirty
         /\ Unreserve(b, e).reservedRequests =
              IF b.reservedRequests > 0 THEN b.reservedRequests - 1 ELSE b.reservedRequests
         /\ Unreserve(b, e).reservedBytesIn =
              IF b.reservedBytesIn >= e THEN b.reservedBytesIn - e ELSE 0
<1> DEFINE n == IF b.reservedRequests > 0 THEN b.reservedRequests - 1 ELSE b.reservedRequests
           m == IF b.reservedBytesIn >= e THEN b.reservedBytesIn - e ELSE 0
<1>1. e \in Nat /\ b.reservedRequests \in Nat /\ b.reservedBytesIn \in Nat
      /\ b.total \in Totals /\ b.dirty \in BOOLEAN
  BY UsageAssumption DEF Bucket
<1>2. n \in Nat /\ m \in Nat
  BY <1>1
<1>3. Unreserve(b, e) = [b EXCEPT !.reservedRequests = n, !.reservedBytesIn = m]
  BY DEF Unreserve
<1> HIDE DEF n, m
<1>4. /\ Unreserve(b, e) \in Bucket
      /\ Unreserve(b, e).total = b.total
      /\ Unreserve(b, e).dirty = b.dirty
      /\ Unreserve(b, e).reservedRequests = n
      /\ Unreserve(b, e).reservedBytesIn = m
  BY <1>1, <1>2, <1>3 DEF Bucket
<1>5. QED
  BY <1>4 DEF n, m

\* CompleteRequest: what the totals become.
LEMMA CountingProperties ==
  ASSUME NEW t \in Totals, NEW bytesIn \in 0..MaxSize, NEW bytesOut \in 0..MaxSize
  PROVE  /\ Counting(t, bytesIn, bytesOut) \in Totals
         /\ Counting(t, bytesIn, bytesOut).count = t.count + 1
         /\ Counting(t, bytesIn, bytesOut).bytesIn = t.bytesIn + bytesIn
         /\ Below(t, Counting(t, bytesIn, bytesOut))
<1> DEFINE n == t.count + 1
           i == t.bytesIn + bytesIn
           o == t.bytesOut + bytesOut
<1>1. /\ n \in Nat /\ i \in Nat /\ o \in Nat
      /\ n >= t.count /\ i >= t.bytesIn /\ o >= t.bytesOut
  BY UsageAssumption DEF Totals
<1>2. Counting(t, bytesIn, bytesOut) = [t EXCEPT !.count = n, !.bytesIn = i, !.bytesOut = o]
  BY DEF Counting
<1>3. /\ Counting(t, bytesIn, bytesOut).count = t.count + 1
      /\ Counting(t, bytesIn, bytesOut).bytesIn = t.bytesIn + bytesIn
  BY <1>2 DEF Totals
<1> HIDE DEF n, i, o
<1>4. /\ Counting(t, bytesIn, bytesOut) \in Totals
      /\ Below(t, Counting(t, bytesIn, bytesOut))
  BY <1>1, <1>2 DEF Totals, Below
<1>5. QED
  BY <1>3, <1>4

-----------------------------------------------------------------------------
(* Counting requests and their bytes.                                      *)

\* The pairs can be counted.
LEMMA PairsFinite ==
  ASSUME NEW f, NEW set \in SUBSET Reqs
  PROVE  IsFiniteSet(BytePairs(f, set)) /\ Cardinality(BytePairs(f, set)) \in Nat
<1>1. IsFiniteSet(set) /\ IsFiniteSet(1..MaxSize)
  BY UsageAssumption, FS_Subset, FS_Interval
<1>2. IsFiniteSet(set \X (1..MaxSize))
  BY <1>1, FS_Product
<1>3. BytePairs(f, set) \subseteq set \X (1..MaxSize)
  BY DEF BytePairs
<1>4. QED
  BY <1>2, <1>3, FS_Subset, FS_CardinalityType

\* Each request has as many as its estimate.
LEMMA PairsAdd ==
  ASSUME NEW f \in [Reqs -> 0..MaxSize], NEW set \in SUBSET Reqs, NEW r \in set
  PROVE  Cardinality(BytePairs(f, set)) =
           f[r] + Cardinality(BytePairs(f, set \ {r}))
<1> DEFINE mine == {r} \X (1..f[r])
           rest == BytePairs(f, set \ {r})
<1>1. f[r] \in 0..MaxSize /\ f[r] \in Nat /\ MaxSize \in Nat
  BY UsageAssumption
<1>2. IsFiniteSet(mine) /\ Cardinality(mine) = f[r]
  <2>1. IsFiniteSet({r}) /\ Cardinality({r}) = 1
    BY FS_Singleton
  <2>2. IsFiniteSet(1..f[r]) /\ Cardinality(1..f[r]) = f[r]
    <3>1. 1 \in Int /\ f[r] \in Int
      BY <1>1
    <3>2. /\ IsFiniteSet(1..f[r])
          /\ Cardinality(1..f[r]) = IF 1 > f[r] THEN 0 ELSE f[r] - 1 + 1
      BY <3>1, FS_Interval
    <3>3. QED
      BY <1>1, <3>2
  <2>3. IsFiniteSet(mine) /\ Cardinality(mine) = Cardinality({r}) * Cardinality(1..f[r])
    BY <2>1, <2>2, FS_Product
  <2>4. QED
    BY <1>1, <2>1, <2>2, <2>3
<1>3. IsFiniteSet(rest) /\ Cardinality(rest) \in Nat
  BY PairsFinite
<1>4. BytePairs(f, set) = mine \cup rest
  <2>1. ASSUME NEW p \in BytePairs(f, set)
        PROVE  p \in mine \cup rest
    <3>1. p \in set \X (1..MaxSize) /\ p[2] <= f[p[1]]
      BY <2>1 DEF BytePairs
    <3>2. p = <<p[1], p[2]>> /\ p[1] \in set /\ p[2] \in 1..MaxSize
      BY <3>1
    <3>3. CASE p[1] = r
      <4>1. p[2] \in 1..f[r]
        BY <1>1, <3>1, <3>2, <3>3
      <4>2. QED
        BY <3>2, <3>3, <4>1
    <3>4. CASE p[1] # r
      BY <3>1, <3>2, <3>4 DEF BytePairs
    <3>5. QED
      BY <3>3, <3>4
  <2>2. mine \subseteq BytePairs(f, set)
    BY <1>1 DEF BytePairs
  <2>3. rest \subseteq BytePairs(f, set)
    BY DEF BytePairs
  <2>4. QED
    BY <2>1, <2>2, <2>3
<1>5. mine \cap rest = {}
  BY DEF BytePairs
<1> HIDE DEF mine, rest
<1>6. Cardinality(mine \cup rest) =
        Cardinality(mine) + Cardinality(rest) - Cardinality(mine \cap rest)
  BY <1>2, <1>3, FS_Union
<1>7. Cardinality(mine \cap rest) = 0
  BY <1>5, FS_EmptySet
<1>8. Cardinality(BytePairs(f, set)) = f[r] + Cardinality(rest)
  BY <1>1, <1>2, <1>3, <1>4, <1>6, <1>7
<1>9. QED
  BY <1>8 DEF rest

\* Only the estimates of the requests in the set matter.
LEMMA PairsOf ==
  ASSUME NEW f, NEW g, NEW set, \A r \in set : f[r] = g[r]
  PROVE  BytePairs(f, set) = BytePairs(g, set)
BY DEF BytePairs

\* A request that joins a set adds one to it, and its estimate in bytes.
LEMMA Joins ==
  ASSUME NEW f, NEW g \in [Reqs -> 0..MaxSize], NEW set \in SUBSET Reqs,
         NEW r \in Reqs, r \notin set, \A p \in set : f[p] = g[p]
  PROVE  /\ Cardinality(set \cup {r}) = Cardinality(set) + 1
         /\ Cardinality(BytePairs(g, set \cup {r})) = g[r] + Cardinality(BytePairs(f, set))
<1>1. IsFiniteSet(set)
  BY UsageAssumption, FS_Subset
<1>2. Cardinality(set \cup {r}) = Cardinality(set) + 1
  BY <1>1, FS_AddElement
<1>3. set \cup {r} \in SUBSET Reqs /\ r \in set \cup {r} /\ (set \cup {r}) \ {r} = set
  OBVIOUS
<1>4. Cardinality(BytePairs(g, set \cup {r})) =
        g[r] + Cardinality(BytePairs(g, (set \cup {r}) \ {r}))
  BY <1>3, PairsAdd
<1>5. BytePairs(g, set) = BytePairs(f, set)
  BY PairsOf
<1>6. QED
  BY <1>2, <1>3, <1>4, <1>5

\* The four numbers of a bucket, before and after a step.
LEMMA CountTypes ==
  ASSUME NEW k
  PROVE  /\ HeldIn(k) \in SUBSET Reqs /\ TwiceIn(k) \in SUBSET Reqs
         /\ Held(k) \in Nat /\ Twice(k) \in Nat /\ HeldBytes(k) \in Nat /\ TwiceBytes(k) \in Nat
         /\ HeldIn(k)' \in SUBSET Reqs /\ TwiceIn(k)' \in SUBSET Reqs
         /\ Held(k)' \in Nat /\ Twice(k)' \in Nat
         /\ HeldBytes(k)' \in Nat /\ TwiceBytes(k)' \in Nat
<1>1. ASSUME NEW set \in SUBSET Reqs, NEW f
      PROVE  Cardinality(set) \in Nat /\ Cardinality(BytePairs(f, set)) \in Nat
  BY UsageAssumption, FS_Subset, FS_CardinalityType, PairsFinite
<1>2. /\ HeldIn(k) \in SUBSET Reqs /\ TwiceIn(k) \in SUBSET Reqs
      /\ HeldIn(k)' \in SUBSET Reqs /\ TwiceIn(k)' \in SUBSET Reqs
  BY DEF HeldIn, TwiceIn
<1>3. /\ HeldBytes(k) = Cardinality(BytePairs(EstimateOf, HeldIn(k)))
      /\ TwiceBytes(k) = Cardinality(BytePairs(EstimateOf, TwiceIn(k)))
      /\ HeldBytes(k)' = Cardinality(BytePairs(EstimateOf', HeldIn(k)'))
      /\ TwiceBytes(k)' = Cardinality(BytePairs(EstimateOf', TwiceIn(k)'))
  BY DEF HeldBytes, TwiceBytes, BytePairs
<1>4. QED
  BY <1>1, <1>2, <1>3 DEF Held, Twice

\* What the numbers of a bucket are read from.
CountsStay(k) ==
  Held(k)' = Held(k) /\ Twice(k)' = Twice(k)
    /\ HeldBytes(k)' = HeldBytes(k) /\ TwiceBytes(k)' = TwiceBytes(k)

\* They stay where the two sets and the estimates in them do.
LEMMA CountsUnmoved ==
  ASSUME NEW k, HeldIn(k)' = HeldIn(k), TwiceIn(k)' = TwiceIn(k),
         \A p \in HeldIn(k) \cup TwiceIn(k) : requests'[p].estimate = requests[p].estimate
  PROVE  CountsStay(k)
<1>1. \A p \in HeldIn(k) \cup TwiceIn(k) : EstimateOf'[p] = EstimateOf[p]
  BY DEF EstimateOf, HeldIn, TwiceIn
<1>2. /\ BytePairs(EstimateOf', HeldIn(k)) = BytePairs(EstimateOf, HeldIn(k))
      /\ BytePairs(EstimateOf', TwiceIn(k)) = BytePairs(EstimateOf, TwiceIn(k))
  BY <1>1, PairsOf
<1>3. /\ HeldBytes(k)' = Cardinality(BytePairs(EstimateOf', HeldIn(k)'))
      /\ TwiceBytes(k)' = Cardinality(BytePairs(EstimateOf', TwiceIn(k)'))
  BY DEF HeldBytes, TwiceBytes, BytePairs
<1>4. QED
  BY <1>2, <1>3 DEF CountsStay, Held, Twice, HeldBytes, TwiceBytes

\* A request is in no bucket but its own.
LEMMA OtherBuckets ==
  ASSUME UsageTypeOK, NEW r \in Reqs, NEW q, requests' = [requests EXCEPT ![r] = q],
         NEW k, r \notin HeldIn(k) \cup TwiceIn(k),
         q.key # k \/ q.at \in {"new", "over"}
  PROVE  CountsStay(k)
<1>1. \A p \in Reqs : requests'[p] = IF p = r THEN q ELSE requests[p]
  BY DEF UsageTypeOK
<1>2. \A p \in Reqs : p # r => requests'[p] = requests[p]
  BY <1>1
<1>3. r \notin HeldIn(k)' /\ r \notin TwiceIn(k)'
  BY <1>1 DEF HeldIn, TwiceIn
<1>4. HeldIn(k)' = HeldIn(k) /\ TwiceIn(k)' = TwiceIn(k)
  BY <1>2, <1>3 DEF HeldIn, TwiceIn
<1>5. QED
  BY <1>2, <1>4, CountsUnmoved DEF HeldIn, TwiceIn

-----------------------------------------------------------------------------
(* Returning a reservation.                                                *)

\* A request is taken from those that hold their reservation, or added to those that
\* have returned it twice.
Returns(r, k) ==
  \/ /\ Held(k)' + 1 = Held(k) /\ Twice(k)' = Twice(k)
     /\ HeldBytes(k)' + requests[r].estimate = HeldBytes(k) /\ TwiceBytes(k)' = TwiceBytes(k)
  \/ /\ Held(k)' = Held(k) /\ Twice(k)' = Twice(k) + 1
     /\ HeldBytes(k)' = HeldBytes(k)
     /\ TwiceBytes(k)' = TwiceBytes(k) + requests[r].estimate

\* How a request is changed by a release and by a completion.
Returned(p, q) ==
  \/ p.at = "forwarding" /\ q = [p EXCEPT !.at = "released"]
  \/ p.at \in {"forwarding", "forwarded", "released"} /\ ~p.counted /\ q = Finished(p)

\* The first return of a reservation takes it from the request, the second one is of a
\* request that holds nothing any more.
LEMMA ReturnBalances ==
  ASSUME UsageTypeOK, UsageTypeOK', NEW r \in Reqs, NEW q \in Request,
         requests' = [requests EXCEPT ![r] = q], Returned(requests[r], q),
         NEW k \in Keys, k = requests[r].key
  PROVE  /\ Returns(r, k)
         /\ \A c \in Keys : c # k => CountsStay(c)
<1> DEFINE p == requests[r]
<1>1. /\ p \in Request /\ p.counted \in BOOLEAN /\ p.estimate \in Nat
  BY UsageAssumption DEF UsageTypeOK, Request
<1>2. requests'[r] = q /\ \A x \in Reqs : x # r => requests'[x] = requests[x]
  BY DEF UsageTypeOK
<1>3. EstimateOf \in [Reqs -> 0..MaxSize] /\ EstimateOf' \in [Reqs -> 0..MaxSize]
  BY DEF EstimateOf, UsageTypeOK, Request
<1>4. /\ HeldIn(k)' \ {r} = HeldIn(k) \ {r} /\ TwiceIn(k)' \ {r} = TwiceIn(k) \ {r}
      /\ \A x \in Reqs \ {r} : EstimateOf'[x] = EstimateOf[x]
  BY <1>2 DEF HeldIn, TwiceIn, EstimateOf
<1>5. /\ HeldBytes(k)' = Cardinality(BytePairs(EstimateOf', HeldIn(k)'))
      /\ TwiceBytes(k)' = Cardinality(BytePairs(EstimateOf', TwiceIn(k)'))
  BY DEF HeldBytes, TwiceBytes, BytePairs
<1>6. ASSUME NEW c \in Keys, c # k
      PROVE  CountsStay(c)
  <2>1. r \notin HeldIn(c) \cup TwiceIn(c)
    BY <1>6 DEF HeldIn, TwiceIn
  <2>2. q.key = k \/ q.at = "over"
    BY <1>1, NewAndOver DEF Returned, Finished, Request
  <2>3. q.key # c \/ q.at \in {"new", "over"}
    BY <1>6, <2>2
  <2>4. QED
    BY <2>1, <2>3, OtherBuckets
<1>7. CASE p.at \in {"forwarding", "forwarded"} /\ ~p.counted
  <2>1. r \in HeldIn(k) /\ r \notin TwiceIn(k)
    BY <1>7 DEF HeldIn, TwiceIn
  <2>2. \/ q.at = "released" /\ ~q.counted
        \/ q.at = "over"
        \/ q.at = "forwarding" /\ q.counted
    BY <1>1, <1>7, NewAndOver DEF Returned, Finished, Request
  <2>3. r \notin HeldIn(k)' /\ r \notin TwiceIn(k)'
    BY <1>2, <2>2 DEF HeldIn, TwiceIn
  <2>4. HeldIn(k)' \cup {r} = HeldIn(k) /\ TwiceIn(k)' = TwiceIn(k)
    BY <1>4, <2>1, <2>3
  <2>5. HeldIn(k)' \in SUBSET Reqs /\ TwiceIn(k) \in SUBSET Reqs
    BY CountTypes
  <2>6. \A x \in HeldIn(k)' \cup TwiceIn(k) : EstimateOf'[x] = EstimateOf[x]
    BY <1>4, <2>1, <2>3, <2>5
  <2>7. /\ Cardinality(HeldIn(k)' \cup {r}) = Cardinality(HeldIn(k)') + 1
        /\ Cardinality(BytePairs(EstimateOf, HeldIn(k)' \cup {r})) =
             EstimateOf[r] + Cardinality(BytePairs(EstimateOf', HeldIn(k)'))
    BY <1>3, <2>3, <2>5, <2>6, Joins
  <2>8. BytePairs(EstimateOf', TwiceIn(k)) = BytePairs(EstimateOf, TwiceIn(k))
    BY <2>6, PairsOf
  <2>9. EstimateOf[r] = p.estimate
    BY DEF EstimateOf
  <2>10. Held(k)' + 1 = Held(k) /\ Twice(k)' = Twice(k) /\ TwiceBytes(k)' = TwiceBytes(k)
    BY <1>5, <2>4, <2>7, <2>8 DEF Held, Twice, TwiceBytes
  <2>11. HeldBytes(k) = p.estimate + HeldBytes(k)'
    BY <1>5, <2>4, <2>7, <2>9 DEF HeldBytes
  <2>12. HeldBytes(k)' \in Nat
    BY CountTypes
  <2>13. HeldBytes(k)' + p.estimate = HeldBytes(k)
    BY <1>1, <2>11, <2>12
  <2>14. QED
    BY <1>6, <2>10, <2>13 DEF Returns
<1>8. CASE ~(p.at \in {"forwarding", "forwarded"} /\ ~p.counted)
  <2>1. r \notin HeldIn(k) /\ r \notin TwiceIn(k)
    BY <1>8 DEF HeldIn, TwiceIn, Returned
  <2>2. q.at = "released" /\ q.counted /\ q.key = k /\ q.estimate = p.estimate
    BY <1>1, <1>8 DEF Returned, Finished, Request
  <2>3. r \notin HeldIn(k)' /\ r \in TwiceIn(k)'
    BY <1>2, <2>2 DEF HeldIn, TwiceIn
  <2>4. HeldIn(k)' = HeldIn(k) /\ TwiceIn(k)' = TwiceIn(k) \cup {r}
    BY <1>4, <2>1, <2>3
  <2>5. HeldIn(k) \in SUBSET Reqs /\ TwiceIn(k) \in SUBSET Reqs
    BY CountTypes
  <2>6. \A x \in HeldIn(k) \cup TwiceIn(k) : EstimateOf[x] = EstimateOf'[x]
    BY <1>4, <2>1, <2>5
  <2>7. /\ Cardinality(TwiceIn(k) \cup {r}) = Cardinality(TwiceIn(k)) + 1
        /\ Cardinality(BytePairs(EstimateOf', TwiceIn(k) \cup {r})) =
             EstimateOf'[r] + Cardinality(BytePairs(EstimateOf, TwiceIn(k)))
    BY <1>3, <2>1, <2>5, <2>6, Joins
  <2>8. BytePairs(EstimateOf', HeldIn(k)) = BytePairs(EstimateOf, HeldIn(k))
    BY <2>6, PairsOf
  <2>9. EstimateOf'[r] = p.estimate
    BY <1>2, <2>2 DEF EstimateOf
  <2>10. Held(k)' = Held(k) /\ Twice(k)' = Twice(k) + 1 /\ HeldBytes(k)' = HeldBytes(k)
    BY <1>5, <2>4, <2>7, <2>8 DEF Held, Twice, HeldBytes
  <2>11. TwiceBytes(k)' = p.estimate + TwiceBytes(k)
    BY <1>5, <2>4, <2>7, <2>9 DEF TwiceBytes
  <2>12. TwiceBytes(k) \in Nat
    BY CountTypes
  <2>13. TwiceBytes(k)' = TwiceBytes(k) + p.estimate
    BY <1>1, <2>11, <2>12
  <2>14. QED
    BY <1>6, <2>10, <2>13 DEF Returns
<1>9. QED
  BY <1>7, <1>8

\* The counters of the bucket stay between the two, whichever return it is.
LEMMA ReturnKeepsReserved ==
  ASSUME UsageTypeOK, UsageTypeOK', NEW r \in Reqs, NEW k \in Keys, Returns(r, k), Reserved(k),
         NEW b, b = Unreserve(buckets[k], requests[r].estimate),
         buckets'[k].reservedRequests = b.reservedRequests,
         buckets'[k].reservedBytesIn = b.reservedBytesIn
  PROVE  Reserved(k)'
<1> DEFINE e == requests[r].estimate
           n == buckets[k].reservedRequests
           m == buckets[k].reservedBytesIn
<1>1. /\ e \in 0..MaxSize /\ e \in Nat /\ buckets[k] \in Bucket
  BY UsageAssumption DEF UsageTypeOK, Request
<1>2. n \in Nat /\ m \in Nat
  BY <1>1, BucketTypes
<1>3. /\ buckets'[k].reservedRequests = IF n > 0 THEN n - 1 ELSE n
      /\ buckets'[k].reservedBytesIn = IF m >= e THEN m - e ELSE 0
  BY <1>1, UnreserveProperties
<1>4. /\ Held(k) \in Nat /\ Twice(k) \in Nat /\ HeldBytes(k) \in Nat /\ TwiceBytes(k) \in Nat
      /\ Held(k)' \in Nat /\ Twice(k)' \in Nat
      /\ HeldBytes(k)' \in Nat /\ TwiceBytes(k)' \in Nat
  BY CountTypes
<1>5. /\ n <= Held(k) /\ Held(k) <= n + Twice(k)
      /\ m <= HeldBytes(k) /\ HeldBytes(k) <= m + TwiceBytes(k)
  BY DEF Reserved
<1>6. \/ /\ Held(k)' + 1 = Held(k) /\ Twice(k)' = Twice(k)
         /\ HeldBytes(k)' + e = HeldBytes(k) /\ TwiceBytes(k)' = TwiceBytes(k)
      \/ /\ Held(k)' = Held(k) /\ Twice(k)' = Twice(k) + 1
         /\ HeldBytes(k)' = HeldBytes(k) /\ TwiceBytes(k)' = TwiceBytes(k) + e
  BY DEF Returns
<1> HIDE DEF e, n, m
<1>7. /\ buckets'[k].reservedRequests <= Held(k)'
      /\ Held(k)' <= buckets'[k].reservedRequests + Twice(k)'
  BY <1>2, <1>3, <1>4, <1>5, <1>6
<1>8. /\ buckets'[k].reservedBytesIn <= HeldBytes(k)'
      /\ HeldBytes(k)' <= buckets'[k].reservedBytesIn + TwiceBytes(k)'
  BY <1>1, <1>2, <1>3, <1>4, <1>5, <1>6
<1>9. QED
  BY <1>7, <1>8 DEF Reserved

-----------------------------------------------------------------------------
(* Tunnels and admissions.                                                 *)

\* A bucket whose counters do not move keeps its invariant, also when it gets dirty.
LEMMA UnmovedBucket ==
  ASSUME NEW c \in Keys, BucketInv(c),
         buckets'[c].reservedRequests = buckets[c].reservedRequests,
         buckets'[c].reservedBytesIn = buckets[c].reservedBytesIn,
         buckets'[c].total = buckets[c].total,
         buckets[c].dirty => buckets'[c].dirty,
         CountsStay(c),
         UNCHANGED <<flushing, snapshot, db, crashes>>
  PROVE  BucketInv(c)'
<1>1. Reserved(c)' /\ WithinPlan(c)'
  BY DEF BucketInv, Reserved, WithinPlan, CountsStay
<1>2. Counted(c)'
  BY DEF BucketInv, Counted
<1>3. Behind(c)'
  BY DEF BucketInv, Behind, Below
<1>4. QED
  BY <1>1, <1>2, <1>3 DEF BucketInv

\* Steps that leave the requests alone.
LEMMA SameRequests ==
  ASSUME UNCHANGED requests, NEW c
  PROVE  CountsStay(c)
<1>1. HeldIn(c)' = HeldIn(c) /\ TwiceIn(c)' = TwiceIn(c)
  BY DEF HeldIn, TwiceIn
<1>2. QED
  BY <1>1, CountsUnmoved

\* touchBucketLocked.
LEMMA TouchKeepsInv ==
  ASSUME UsageInv, NEW u \in Users, Touch(u)
  PROVE  UsageInv'
<1>1. UsageTypeOK
  BY DEF UsageInv
<1> DEFINE k == <<u, period>>
           b == [buckets[k] EXCEPT !.dirty = TRUE]
<1>2. /\ k \in Keys /\ buckets[k] \in Bucket /\ buckets' = [buckets EXCEPT ![k] = b]
      /\ UNCHANGED <<period, requests, flushing, snapshot, writing, db, crashes>>
  BY <1>1 DEF UsageTypeOK, Keys, Touch
<1> HIDE DEF k
<1>3. /\ b \in Bucket /\ b.dirty = TRUE /\ b.total = buckets[k].total
      /\ b.reservedRequests = buckets[k].reservedRequests
      /\ b.reservedBytesIn = buckets[k].reservedBytesIn
  BY <1>2 DEF Bucket
<1> HIDE DEF b
<1>4. UsageTypeOK'
  BY <1>1, <1>2, <1>3 DEF UsageTypeOK
<1>5. ASSUME NEW c \in Keys PROVE BucketInv(c)'
  <2>1. BucketInv(c) /\ CountsStay(c)
    BY <1>2, SameRequests DEF UsageInv
  <2>2. buckets'[c] = IF c = k THEN b ELSE buckets[c]
    BY <1>1, <1>2 DEF UsageTypeOK
  <2>3. /\ buckets'[c].reservedRequests = buckets[c].reservedRequests
        /\ buckets'[c].reservedBytesIn = buckets[c].reservedBytesIn
        /\ buckets'[c].total = buckets[c].total
        /\ buckets[c].dirty => buckets'[c].dirty
    BY <1>3, <2>2
  <2>4. QED
    BY <1>2, <2>1, <2>3, UnmovedBucket
<1>6. QED
  BY <1>2, <1>4, <1>5 DEF UsageInv, OnlyWhileWriting

\* What ReserveRequest does to its bucket, and to the counts of the requests.
LEMMA ReserveCounts ==
  ASSUME UsageTypeOK, NEW r \in Reqs, NEW u \in Users, NEW e \in 0..MaxSize,
         ReserveRequest(r, u, e), NEW c \in Keys
  PROVE  /\ UsageTypeOK'
         /\ c # <<u, period>> => buckets'[c] = buckets[c] /\ CountsStay(c)
         /\ c = <<u, period>> =>
              /\ buckets'[c].reservedRequests = buckets[c].reservedRequests + 1
              /\ buckets'[c].reservedBytesIn = buckets[c].reservedBytesIn + e
              /\ buckets'[c].total = buckets[c].total /\ buckets'[c].dirty = buckets[c].dirty
              /\ Held(c)' = Held(c) + 1 /\ Twice(c)' = Twice(c)
              /\ HeldBytes(c)' = HeldBytes(c) + e /\ TwiceBytes(c)' = TwiceBytes(c)
<1> DEFINE k == <<u, period>>
           n == buckets[k].reservedRequests + 1
           m == buckets[k].reservedBytesIn + e
           b == [buckets[k] EXCEPT !.reservedRequests = @ + 1, !.reservedBytesIn = @ + e]
           q == [at |-> "forwarding", counted |-> FALSE, key |-> k, estimate |-> e]
<1>1. /\ k \in Keys /\ buckets[k] \in Bucket /\ e \in Nat
  BY UsageAssumption DEF UsageTypeOK, Keys
<1>2. /\ requests[r].at = "new" /\ requests' = [requests EXCEPT ![r] = q]
      /\ buckets' = [buckets EXCEPT ![k] = b]
      /\ UNCHANGED <<period, flushing, snapshot, writing, db, crashes>>
  <2>1. requests[r].at = "new" /\ UNCHANGED <<period, flushing, snapshot, writing, db, crashes>>
    BY DEF ReserveRequest
  <2>2. requests' = [requests EXCEPT ![r] = q]
    BY DEF ReserveRequest
  <2>3. buckets' = [buckets EXCEPT ![k] = b]
    BY DEF ReserveRequest
  <2>4. QED
    BY <2>1, <2>2, <2>3
<1>3. n \in Nat /\ m \in Nat
  BY <1>1, BucketTypes
<1>4. n = buckets[k].reservedRequests + 1 /\ m = buckets[k].reservedBytesIn + e
  OBVIOUS
<1>5. k = <<u, period>> /\ b = [buckets[k] EXCEPT !.reservedRequests = n, !.reservedBytesIn = m]
  OBVIOUS
<1> HIDE DEF k, n, m, b
<1>6. /\ b \in Bucket /\ b.dirty = buckets[k].dirty /\ b.total = buckets[k].total
      /\ b.reservedRequests = n /\ b.reservedBytesIn = m
  BY <1>1, <1>3, <1>5 DEF Bucket
<1>7. q \in Request /\ q.at = "forwarding" /\ q.key = k /\ q.estimate = e /\ ~q.counted
  BY <1>1 DEF Request
<1> HIDE DEF q
<1>8. UsageTypeOK'
  BY <1>1, <1>2, <1>6, <1>7 DEF UsageTypeOK
<1>9. buckets'[c] = IF c = k THEN b ELSE buckets[c]
  BY <1>1, <1>2 DEF UsageTypeOK
<1>10. r \notin HeldIn(c) /\ r \notin TwiceIn(c)
  BY <1>2 DEF HeldIn, TwiceIn
<1>11. CASE c # k
  <2>1. CountsStay(c)
    BY <1>2, <1>7, <1>10, <1>11, OtherBuckets
  <2>2. QED
    BY <1>5, <1>8, <1>9, <1>11, <2>1
<1>12. CASE c = k
  <2>1. requests'[r] = q /\ \A x \in Reqs : x # r => requests'[x] = requests[x]
    BY <1>2 DEF UsageTypeOK
  <2>2. r \in HeldIn(c)' /\ r \notin TwiceIn(c)'
    BY <1>7, <1>12, <2>1 DEF HeldIn, TwiceIn
  <2>3. HeldIn(c)' = HeldIn(c) \cup {r} /\ TwiceIn(c)' = TwiceIn(c)
    <3>1. HeldIn(c)' \ {r} = HeldIn(c) \ {r} /\ TwiceIn(c)' \ {r} = TwiceIn(c) \ {r}
      BY <2>1 DEF HeldIn, TwiceIn
    <3>2. QED
      BY <1>10, <2>2, <3>1
  <2>4. /\ HeldIn(c) \in SUBSET Reqs /\ TwiceIn(c) \in SUBSET Reqs /\ HeldBytes(c) \in Nat
    BY CountTypes
  <2>5. \A x \in HeldIn(c) \cup TwiceIn(c) : EstimateOf[x] = EstimateOf'[x]
    BY <1>10, <2>1, <2>4 DEF EstimateOf
  <2>6. EstimateOf' \in [Reqs -> 0..MaxSize] /\ EstimateOf'[r] = e
    BY <1>7, <1>8, <2>1 DEF EstimateOf, UsageTypeOK, Request
  <2>7. /\ Cardinality(HeldIn(c) \cup {r}) = Cardinality(HeldIn(c)) + 1
        /\ Cardinality(BytePairs(EstimateOf', HeldIn(c) \cup {r})) =
             EstimateOf'[r] + Cardinality(BytePairs(EstimateOf, HeldIn(c)))
    BY <1>10, <2>4, <2>5, <2>6, Joins
  <2>8. BytePairs(EstimateOf', TwiceIn(c)) = BytePairs(EstimateOf, TwiceIn(c))
    BY <2>5, PairsOf
  <2>9. /\ HeldBytes(c)' = Cardinality(BytePairs(EstimateOf', HeldIn(c)'))
        /\ TwiceBytes(c)' = Cardinality(BytePairs(EstimateOf', TwiceIn(c)'))
    BY DEF HeldBytes, TwiceBytes, BytePairs
  <2>10. /\ Held(c)' = Held(c) + 1 /\ Twice(c)' = Twice(c) /\ TwiceBytes(c)' = TwiceBytes(c)
    BY <2>3, <2>7, <2>8, <2>9 DEF Held, Twice, TwiceBytes
  <2>11. HeldBytes(c)' = e + HeldBytes(c)
    BY <2>3, <2>6, <2>7, <2>9 DEF HeldBytes
  <2>12. HeldBytes(c)' = HeldBytes(c) + e
    BY <1>1, <2>4, <2>11
  <2>13. QED
    BY <1>4, <1>5, <1>6, <1>8, <1>9, <1>12, <2>10, <2>12
<1>13. QED
  BY <1>11, <1>12

\* ReserveRequest admits: the checks count the requests that are admitted already, but
\* for what was returned twice.
LEMMA ReserveKeepsInv ==
  ASSUME UsageInv, NEW r \in Reqs, NEW u \in Users, NEW e \in 0..MaxSize,
         ReserveRequest(r, u, e)
  PROVE  UsageInv'
<1> DEFINE k == <<u, period>>
<1>1. UsageTypeOK /\ k \in Keys
  BY DEF UsageInv, UsageTypeOK, Keys
<1>2. /\ RequestRoom(buckets[k], e)
      /\ UNCHANGED <<period, flushing, snapshot, writing, db, crashes>>
  BY DEF ReserveRequest
<1>3. ASSUME NEW c \in Keys
      PROVE  /\ c # k => buckets'[c] = buckets[c] /\ CountsStay(c)
             /\ c = k =>
                  /\ buckets'[c].reservedRequests = buckets[c].reservedRequests + 1
                  /\ buckets'[c].reservedBytesIn = buckets[c].reservedBytesIn + e
                  /\ buckets'[c].total = buckets[c].total
                  /\ buckets'[c].dirty = buckets[c].dirty
                  /\ Held(c)' = Held(c) + 1 /\ Twice(c)' = Twice(c)
                  /\ HeldBytes(c)' = HeldBytes(c) + e /\ TwiceBytes(c)' = TwiceBytes(c)
  BY <1>1, ReserveCounts
<1>4. UsageTypeOK'
  BY <1>1, ReserveCounts
<1> HIDE DEF k
<1>5. ASSUME NEW c \in Keys PROVE BucketInv(c)'
  <2>1. BucketInv(c)
    BY DEF UsageInv
  <2>2. CASE c = k
    <3>1. /\ buckets'[c].reservedRequests = buckets[c].reservedRequests + 1
          /\ buckets'[c].reservedBytesIn = buckets[c].reservedBytesIn + e
          /\ buckets'[c].total = buckets[c].total /\ buckets'[c].dirty = buckets[c].dirty
          /\ Held(c)' = Held(c) + 1 /\ Twice(c)' = Twice(c)
          /\ HeldBytes(c)' = HeldBytes(c) + e /\ TwiceBytes(c)' = TwiceBytes(c)
      BY <1>3, <2>2
    <3>2. /\ Held(c) \in Nat /\ Twice(c) \in Nat
          /\ HeldBytes(c) \in Nat /\ TwiceBytes(c) \in Nat
      BY CountTypes
    <3>3. /\ buckets[c].reservedRequests \in Nat /\ buckets[c].reservedBytesIn \in Nat
          /\ buckets[c].total.count \in Nat /\ e \in Nat /\ MaxRequests \in Nat
      BY <1>1, BucketTypes, UsageAssumption DEF UsageTypeOK
    <3>4. /\ buckets[c].reservedRequests <= Held(c)
          /\ Held(c) <= buckets[c].reservedRequests + Twice(c)
          /\ buckets[c].reservedBytesIn <= HeldBytes(c)
          /\ HeldBytes(c) <= buckets[c].reservedBytesIn + TwiceBytes(c)
      BY <2>1 DEF BucketInv, Reserved
    <3>5. Reserved(c)'
      BY <3>1, <3>2, <3>3, <3>4 DEF Reserved
    <3>6. WithinPlan(c)'
      <4>1. MaxRequests > 0 =>
              buckets[c].total.count + buckets[c].reservedRequests + 1 <= MaxRequests
        BY <1>2, <2>2 DEF RequestRoom
      <4>2. QED
        BY <3>1, <3>2, <3>3, <3>4, <4>1 DEF WithinPlan
    <3>7. Counted(c)'
      BY <1>2, <2>1, <3>1 DEF BucketInv, Counted
    <3>8. Behind(c)'
      BY <1>2, <2>1, <3>1 DEF BucketInv, Behind
    <3>9. QED
      BY <3>5, <3>6, <3>7, <3>8 DEF BucketInv
  <2>3. CASE c # k
    BY <1>2, <1>3, <2>1, <2>3, UnmovedBucket
  <2>4. QED
    BY <2>2, <2>3
<1>6. QED
  BY <1>2, <1>4, <1>5 DEF UsageInv, OnlyWhileWriting

-----------------------------------------------------------------------------
(* The end of a request.                                                   *)

\* The request_start is queued: the request holds what it held.
LEMMA ForwardedCounts ==
  ASSUME UsageTypeOK, NEW r \in Reqs, Forwarded(r)
  PROVE  UsageTypeOK' /\ \A c \in Keys : CountsStay(c)
<1>1. UsageTypeOK /\ requests[r] \in Request
  BY DEF UsageTypeOK
<1> DEFINE q == IF requests[r].counted THEN OverRequest
                                       ELSE [requests[r] EXCEPT !.at = "forwarded"]
<1>2. /\ requests[r].at = "forwarding" /\ requests' = [requests EXCEPT ![r] = q]
      /\ UNCHANGED <<period, buckets, flushing, snapshot, writing, db, crashes>>
  BY DEF Forwarded
<1>3. /\ q \in Request
      /\ requests[r].counted => q = OverRequest
      /\ ~requests[r].counted => /\ q.at = "forwarded" /\ ~q.counted
                                 /\ q.key = requests[r].key
                                 /\ q.estimate = requests[r].estimate
  BY <1>1, RequestTypes DEF Request
<1> HIDE DEF q
<1>4. UsageTypeOK'
  BY <1>1, <1>2, <1>3 DEF UsageTypeOK
<1>5. ASSUME NEW c \in Keys PROVE CountsStay(c)
  <2>1. CASE requests[r].counted
    <3>1. r \notin HeldIn(c) \cup TwiceIn(c) /\ q.at = "over"
      BY <1>2, <1>3, <2>1, NewAndOver DEF HeldIn, TwiceIn
    <3>2. QED
      BY <1>1, <1>2, <3>1, OtherBuckets
  <2>2. CASE ~requests[r].counted
    <3>1. /\ requests'[r].at = "forwarded" /\ ~requests'[r].counted
          /\ requests'[r].key = requests[r].key /\ requests'[r].estimate = requests[r].estimate
          /\ \A x \in Reqs : x # r => requests'[x] = requests[x]
      BY <1>1, <1>2, <1>3, <2>2 DEF UsageTypeOK
    <3>2. HeldIn(c)' = HeldIn(c) /\ TwiceIn(c)' = TwiceIn(c)
      BY <1>2, <2>2, <3>1 DEF HeldIn, TwiceIn
    <3>3. \A x \in HeldIn(c) \cup TwiceIn(c) : requests'[x].estimate = requests[x].estimate
      BY <3>1 DEF HeldIn, TwiceIn
    <3>4. QED
      BY <3>2, <3>3, CountsUnmoved
  <2>3. QED
    BY <2>1, <2>2
<1>6. QED
  BY <1>4, <1>5

\* So the buckets keep their invariant.
LEMMA ForwardedKeepsInv ==
  ASSUME UsageInv, NEW r \in Reqs, Forwarded(r)
  PROVE  UsageInv'
<1>1. UNCHANGED <<period, buckets, flushing, snapshot, writing, db, crashes>>
  BY DEF Forwarded
<1>2. UsageTypeOK' /\ \A c \in Keys : CountsStay(c)
  BY ForwardedCounts DEF UsageInv
<1>3. ASSUME NEW c \in Keys PROVE BucketInv(c)'
  BY <1>1, <1>2, UnmovedBucket DEF UsageInv
<1>4. QED
  BY <1>1, <1>2, <1>3 DEF UsageInv, OnlyWhileWriting

\* What ReleaseRequest does to the bucket of the reservation.
LEMMA ReleaseCounts ==
  ASSUME UsageTypeOK, NEW r \in Reqs, ReleaseRequest(r), NEW k \in Keys, k = requests[r].key,
         NEW c \in Keys
  PROVE  /\ UsageTypeOK' /\ Returns(r, k)
         /\ c # k => buckets'[c] = buckets[c] /\ CountsStay(c)
         /\ buckets'[k] = Unreserve(buckets[k], requests[r].estimate)
<1> DEFINE e == requests[r].estimate
           b == Unreserve(buckets[k], e)
           q == [requests[r] EXCEPT !.at = "released"]
<1>1. requests[r] \in Request /\ e \in 0..MaxSize /\ buckets[k] \in Bucket
  BY DEF UsageTypeOK, Request
<1>2. /\ requests[r].at = "forwarding" /\ requests' = [requests EXCEPT ![r] = q]
      /\ buckets' = [buckets EXCEPT ![k] = b]
      /\ UNCHANGED <<period, flushing, snapshot, writing, db, crashes>>
  BY DEF ReleaseRequest, UsageTypeOK
<1>3. b \in Bucket
  BY <1>1, UnreserveProperties
<1>4. q \in Request /\ Returned(requests[r], q)
  BY <1>1, <1>2 DEF Request, Returned
<1> HIDE DEF b, q
<1>5. UsageTypeOK'
  BY <1>2, <1>3, <1>4 DEF UsageTypeOK
<1>6. Returns(r, k) /\ \A x \in Keys : x # k => CountsStay(x)
  BY <1>2, <1>4, <1>5, ReturnBalances
<1>7. buckets'[c] = (IF c = k THEN b ELSE buckets[c]) /\ buckets'[k] = b
  BY <1>2 DEF UsageTypeOK
<1>8. QED
  BY <1>5, <1>6, <1>7 DEF b

\* What CompleteRequest does to it: the bytes and the request are counted.
LEMMA CompleteCounts ==
  ASSUME UsageTypeOK, NEW r \in Reqs, NEW i \in 0..MaxSize, NEW o \in 0..MaxSize,
         CompleteRequest(r, i, o), NEW k \in Keys, k = requests[r].key, NEW c \in Keys
  PROVE  /\ UsageTypeOK' /\ Returns(r, k)
         /\ c # k => buckets'[c] = buckets[c] /\ CountsStay(c)
         /\ buckets'[k].dirty /\ buckets'[k].total = Counting(buckets[k].total, i, o)
         /\ buckets'[k].reservedRequests =
              Unreserve(buckets[k], requests[r].estimate).reservedRequests
         /\ buckets'[k].reservedBytesIn =
              Unreserve(buckets[k], requests[r].estimate).reservedBytesIn
<1> DEFINE e == requests[r].estimate
           v == Unreserve(buckets[k], e)
           t == Counting(v.total, i, o)
           b == [v EXCEPT !.total = t, !.dirty = TRUE]
           q == Finished(requests[r])
<1>1. requests[r] \in Request /\ e \in 0..MaxSize /\ buckets[k] \in Bucket
  BY DEF UsageTypeOK, Request
<1>2. /\ Completes(requests[r], i, o) /\ requests' = [requests EXCEPT ![r] = q]
      /\ buckets' = [buckets EXCEPT ![k] = b]
      /\ UNCHANGED <<period, flushing, snapshot, writing, db, crashes>>
  BY DEF CompleteRequest
<1>3. v \in Bucket /\ v.total = buckets[k].total
  BY <1>1, UnreserveProperties
<1>4. q \in Request /\ Returned(requests[r], q)
  <2>1. q = OverRequest \/ q = [requests[r] EXCEPT !.counted = TRUE]
    BY DEF Finished
  <2>2. q \in Request
    BY <1>1, <2>1, RequestTypes DEF Request
  <2>3. QED
    BY <1>2, <2>2 DEF Returned, Completes
<1>5. v = Unreserve(buckets[k], e)
  OBVIOUS
<1> HIDE DEF v, q
<1>6. t \in Totals /\ t = Counting(buckets[k].total, i, o)
  BY <1>3, CountingProperties DEF Bucket
<1> HIDE DEF t
<1>7. /\ b \in Bucket /\ b.total = t /\ b.dirty = TRUE
      /\ b.reservedRequests = v.reservedRequests /\ b.reservedBytesIn = v.reservedBytesIn
  BY <1>3, <1>6 DEF Bucket
<1> HIDE DEF b
<1>8. UsageTypeOK'
  BY <1>2, <1>4, <1>7 DEF UsageTypeOK
<1>9. Returns(r, k) /\ \A x \in Keys : x # k => CountsStay(x)
  BY <1>2, <1>4, <1>8, ReturnBalances
<1>10. buckets'[c] = (IF c = k THEN b ELSE buckets[c]) /\ buckets'[k] = b
  BY <1>2 DEF UsageTypeOK
<1>11. QED
  BY <1>5, <1>6, <1>7, <1>8, <1>9, <1>10

\* ReleaseRequest: nothing is counted.
LEMMA ReleaseKeepsInv ==
  ASSUME UsageInv, NEW r \in Reqs, ReleaseRequest(r)
  PROVE  UsageInv'
<1>1. UsageTypeOK
  BY DEF UsageInv
<1>2. PICK k \in Keys : k = requests[r].key
  BY <1>1 DEF UsageTypeOK, Request
<1> DEFINE b == Unreserve(buckets[k], requests[r].estimate)
<1>3. /\ UsageTypeOK' /\ Returns(r, k) /\ buckets'[k] = b
      /\ \A c \in Keys : c # k => buckets'[c] = buckets[c] /\ CountsStay(c)
  BY <1>1, <1>2, ReleaseCounts
<1>4. UNCHANGED <<period, flushing, snapshot, writing, db, crashes>>
  BY DEF ReleaseRequest
<1>5. b.total = buckets[k].total /\ b.dirty = buckets[k].dirty
  <2>1. buckets[k] \in Bucket /\ requests[r].estimate \in 0..MaxSize
    BY <1>1 DEF UsageTypeOK, Request
  <2>2. QED
    BY <2>1, UnreserveProperties
<1>6. b = Unreserve(buckets[k], requests[r].estimate)
  OBVIOUS
<1> HIDE DEF b
<1>7. BucketInv(k)'
  <2>1. BucketInv(k)
    BY DEF UsageInv
  <2>2. Reserved(k)'
    <3>1. /\ buckets'[k].reservedRequests = b.reservedRequests
          /\ buckets'[k].reservedBytesIn = b.reservedBytesIn
      BY <1>3
    <3>2. QED
      BY <1>1, <1>3, <1>6, <2>1, <3>1, ReturnKeepsReserved DEF BucketInv
  <2>3. WithinPlan(k)'
    <3>1. /\ Held(k) \in Nat /\ Twice(k) \in Nat /\ Held(k)' \in Nat /\ Twice(k)' \in Nat
      BY CountTypes
    <3>2. buckets[k].total.count \in Nat /\ MaxRequests \in Nat
      BY <1>1, BucketTypes, UsageAssumption DEF UsageTypeOK
    <3>3. MaxRequests > 0 => buckets[k].total.count + Held(k) <= MaxRequests + Twice(k)
      BY <2>1 DEF BucketInv, WithinPlan
    <3>4. \/ Held(k)' + 1 = Held(k) /\ Twice(k)' = Twice(k)
          \/ Held(k)' = Held(k) /\ Twice(k)' = Twice(k) + 1
      BY <1>3 DEF Returns
    <3>5. buckets'[k].total.count = buckets[k].total.count
      BY <1>3, <1>5
    <3>6. MaxRequests > 0 => buckets'[k].total.count + Held(k)' <= MaxRequests + Twice(k)'
      BY <3>1, <3>2, <3>3, <3>4, <3>5
    <3>7. QED
      BY <3>6 DEF WithinPlan
  <2>4. Counted(k)' /\ Behind(k)'
    BY <1>3, <1>4, <1>5, <2>1 DEF BucketInv, Counted, Behind
  <2>5. QED
    BY <2>2, <2>3, <2>4 DEF BucketInv
<1>8. ASSUME NEW c \in Keys PROVE BucketInv(c)'
  <2>1. CASE c = k
    BY <1>7, <2>1
  <2>2. CASE c # k
    BY <1>3, <1>4, <2>2, UnmovedBucket DEF UsageInv
  <2>3. QED
    BY <2>1, <2>2
<1>9. QED
  BY <1>3, <1>4, <1>8 DEF UsageInv, OnlyWhileWriting

\* CompleteRequest: the request moves from the admitted to the completed, or is counted
\* although its reservation is released, in the bucket of the reservation, which is dirty
\* from then on.
LEMMA CompleteKeepsInv ==
  ASSUME UsageInv, NEW r \in Reqs, NEW i \in 0..MaxSize, NEW o \in 0..MaxSize,
         CompleteRequest(r, i, o)
  PROVE  UsageInv'
<1>1. UsageTypeOK
  BY DEF UsageInv
<1>2. PICK k \in Keys : k = requests[r].key
  BY <1>1 DEF UsageTypeOK, Request
<1> DEFINE b == Unreserve(buckets[k], requests[r].estimate)
           t == Counting(buckets[k].total, i, o)
<1>3. /\ UsageTypeOK' /\ Returns(r, k) /\ buckets'[k].total = t /\ buckets'[k].dirty
      /\ buckets'[k].reservedRequests = b.reservedRequests
      /\ buckets'[k].reservedBytesIn = b.reservedBytesIn
      /\ \A c \in Keys : c # k => buckets'[c] = buckets[c] /\ CountsStay(c)
  BY <1>1, <1>2, CompleteCounts
<1>4. UNCHANGED <<period, flushing, snapshot, writing, db, crashes>>
  BY DEF CompleteRequest
<1>5. t \in Totals /\ t.count = buckets[k].total.count + 1 /\ Below(buckets[k].total, t)
  <2>1. buckets[k].total \in Totals
    BY <1>1, BucketTypes DEF UsageTypeOK
  <2>2. QED
    BY <2>1, CountingProperties
<1>6. b = Unreserve(buckets[k], requests[r].estimate)
  OBVIOUS
<1> HIDE DEF b, t
<1>7. BucketInv(k)'
  <2>1. BucketInv(k)
    BY DEF UsageInv
  <2>2. Reserved(k)'
    BY <1>1, <1>3, <1>6, <2>1, ReturnKeepsReserved DEF BucketInv
  <2>3. WithinPlan(k)'
    <3>1. /\ Held(k) \in Nat /\ Twice(k) \in Nat /\ Held(k)' \in Nat /\ Twice(k)' \in Nat
      BY CountTypes
    <3>2. buckets[k].total.count \in Nat /\ MaxRequests \in Nat
      BY <1>1, BucketTypes, UsageAssumption DEF UsageTypeOK
    <3>3. MaxRequests > 0 => buckets[k].total.count + Held(k) <= MaxRequests + Twice(k)
      BY <2>1 DEF BucketInv, WithinPlan
    <3>4. \/ Held(k)' + 1 = Held(k) /\ Twice(k)' = Twice(k)
          \/ Held(k)' = Held(k) /\ Twice(k)' = Twice(k) + 1
      BY <1>3 DEF Returns
    <3>5. buckets'[k].total.count = buckets[k].total.count + 1
      BY <1>3, <1>5
    <3>6. MaxRequests > 0 => buckets'[k].total.count + Held(k)' <= MaxRequests + Twice(k)'
      BY <3>1, <3>2, <3>3, <3>4, <3>5
    <3>7. QED
      BY <3>6 DEF WithinPlan
  <2>4. Counted(k)'
    BY <1>3 DEF Counted
  <2>5. Behind(k)'
    <3>1. db[k] \in Totals /\ snapshot[k] \in Totals /\ buckets[k].total \in Totals
      BY <1>1, BucketTypes DEF UsageTypeOK
    <3>2. \A s \in Totals : Below(s, buckets[k].total) => Below(s, t)
      BY <1>5, <3>1 DEF Below, Totals
    <3>3. QED
      BY <1>3, <1>4, <2>1, <3>1, <3>2 DEF BucketInv, Behind
  <2>6. QED
    BY <2>2, <2>3, <2>4, <2>5 DEF BucketInv
<1>8. ASSUME NEW c \in Keys PROVE BucketInv(c)'
  <2>1. CASE c = k
    BY <1>7, <2>1
  <2>2. CASE c # k
    BY <1>3, <1>4, <2>2, UnmovedBucket DEF UsageInv
  <2>3. QED
    BY <2>1, <2>2
<1>9. QED
  BY <1>3, <1>4, <1>8 DEF UsageInv, OnlyWhileWriting

-----------------------------------------------------------------------------
(* The flush.                                                              *)

\* A copy that is being written is of a bucket that was dirty.
LEMMA FlushSnapshotKeepsInv ==
  ASSUME UsageInv, FlushSnapshot
  PROVE  UsageInv'
<1>1. UsageTypeOK
  BY DEF UsageInv
<1>2. /\ ~writing /\ writing' = TRUE
      /\ flushing' = [c \in Keys |-> buckets[c].dirty]
      /\ snapshot' = [c \in Keys |-> IF buckets[c].dirty THEN buckets[c].total ELSE ZeroTotals]
      /\ buckets' = [c \in Keys |-> [buckets[c] EXCEPT !.dirty = FALSE]]
      /\ UNCHANGED <<period, requests, db, crashes>>
  BY DEF FlushSnapshot
<1>3. ASSUME NEW c \in Keys
      PROVE  /\ flushing'[c] \in BOOLEAN /\ snapshot'[c] \in Totals /\ buckets'[c] \in Bucket
             /\ buckets'[c].reservedRequests = buckets[c].reservedRequests
             /\ buckets'[c].reservedBytesIn = buckets[c].reservedBytesIn
             /\ buckets'[c].total = buckets[c].total
             /\ buckets[c].dirty => flushing'[c] /\ snapshot'[c] = buckets'[c].total
             /\ ~buckets[c].dirty => ~flushing'[c]
  <2>1. /\ ZeroTotals \in Totals /\ buckets[c] \in Bucket /\ buckets[c].total \in Totals
        /\ buckets[c].dirty \in BOOLEAN
    BY <1>1, BucketTypes DEF ZeroTotals, Totals, UsageTypeOK
  <2>2. buckets'[c] = [buckets[c] EXCEPT !.dirty = FALSE]
    BY <1>2
  <2>3. /\ buckets'[c] \in Bucket
        /\ buckets'[c].reservedRequests = buckets[c].reservedRequests
        /\ buckets'[c].reservedBytesIn = buckets[c].reservedBytesIn
        /\ buckets'[c].total = buckets[c].total
    BY <2>1, <2>2 DEF Bucket
  <2>4. CASE buckets[c].dirty
    BY <1>2, <2>1, <2>3, <2>4
  <2>5. CASE ~buckets[c].dirty
    BY <1>2, <2>1, <2>3, <2>5
  <2>6. QED
    BY <2>4, <2>5
<1>4. UsageTypeOK'
  <2>1. /\ flushing' \in [Keys -> BOOLEAN] /\ snapshot' \in [Keys -> Totals]
        /\ buckets' \in [Keys -> Bucket]
    BY <1>2, <1>3
  <2>2. QED
    BY <1>1, <1>2, <2>1 DEF UsageTypeOK
<1>5. ASSUME NEW c \in Keys PROVE BucketInv(c)'
  <2>1. BucketInv(c) /\ ~flushing[c] /\ CountsStay(c)
    BY <1>2, SameRequests DEF UsageInv, OnlyWhileWriting
  <2>2. Reserved(c)' /\ WithinPlan(c)'
    BY <1>3, <2>1 DEF BucketInv, Reserved, WithinPlan, CountsStay
  <2>3. Counted(c)'
    BY <1>2, <1>3, <2>1 DEF BucketInv, Counted
  <2>4. Behind(c)'
    <3>1. /\ buckets'[c].total \in Totals /\ buckets'[c].total.count \in Nat
          /\ buckets'[c].total.bytesIn \in Nat /\ buckets'[c].total.bytesOut \in Nat
      BY <1>3, BucketTypes
    <3>2. Below(buckets'[c].total, buckets'[c].total)
      BY <3>1 DEF Below
    <3>3. crashes = 0 => Below(db[c], buckets'[c].total)
      BY <1>3, <2>1 DEF BucketInv, Behind
    <3>4. QED
      BY <1>2, <1>3, <3>2, <3>3 DEF Behind
  <2>5. QED
    BY <2>2, <2>3, <2>4 DEF BucketInv
<1>6. QED
  BY <1>2, <1>4, <1>5 DEF UsageInv, OnlyWhileWriting

\* UpsertMany succeeds: the copies are in the database.
LEMMA FlushWrittenKeepsInv ==
  ASSUME UsageInv, FlushWritten
  PROVE  UsageInv'
<1>1. UsageTypeOK
  BY DEF UsageInv
<1>2. /\ db' = [c \in Keys |-> IF flushing[c] THEN snapshot[c] ELSE db[c]]
      /\ writing' = FALSE
      /\ flushing' = [c \in Keys |-> FALSE]
      /\ snapshot' = [c \in Keys |-> ZeroTotals]
      /\ UNCHANGED <<buckets, period, requests, crashes>>
  BY DEF FlushWritten, EndFlush
<1>3. UsageTypeOK'
  <2>1. ZeroTotals \in Totals
    BY DEF ZeroTotals, Totals
  <2>2. QED
    BY <1>1, <1>2, <2>1 DEF UsageTypeOK
<1>4. ASSUME NEW c \in Keys PROVE BucketInv(c)'
  <2>1. BucketInv(c) /\ CountsStay(c)
    BY <1>2, SameRequests DEF UsageInv
  <2>2. ~flushing'[c] /\ db'[c] = IF flushing[c] THEN snapshot[c] ELSE db[c]
    BY <1>2
  <2>3. Reserved(c)' /\ WithinPlan(c)'
    BY <1>2, <2>1 DEF BucketInv, Reserved, WithinPlan, CountsStay
  <2>4. Counted(c)'
    BY <1>2, <2>1, <2>2 DEF BucketInv, Counted
  <2>5. Behind(c)'
    BY <1>2, <2>1, <2>2 DEF BucketInv, Behind
  <2>6. QED
    BY <2>3, <2>4, <2>5 DEF BucketInv
<1>5. QED
  BY <1>2, <1>3, <1>4 DEF UsageInv, OnlyWhileWriting

\* It fails: what was copied is dirty again.
LEMMA FlushFailedKeepsInv ==
  ASSUME UsageInv, FlushFailed
  PROVE  UsageInv'
<1>1. UsageTypeOK
  BY DEF UsageInv
<1>2. /\ buckets' = [c \in Keys |-> IF flushing[c] THEN [buckets[c] EXCEPT !.dirty = TRUE]
                                                   ELSE buckets[c]]
      /\ writing' = FALSE
      /\ flushing' = [c \in Keys |-> FALSE]
      /\ snapshot' = [c \in Keys |-> ZeroTotals]
      /\ UNCHANGED <<db, period, requests, crashes>>
  BY DEF FlushFailed, EndFlush
<1>3. ASSUME NEW c \in Keys
      PROVE  /\ buckets'[c] \in Bucket /\ buckets'[c].total = buckets[c].total
             /\ buckets'[c].reservedRequests = buckets[c].reservedRequests
             /\ buckets'[c].reservedBytesIn = buckets[c].reservedBytesIn
             /\ buckets[c].dirty \/ flushing[c] => buckets'[c].dirty
  <2>1. buckets[c] \in Bucket
    BY <1>1 DEF UsageTypeOK
  <2>2. CASE flushing[c]
    <3>1. buckets'[c] = [buckets[c] EXCEPT !.dirty = TRUE]
      BY <1>2, <2>2
    <3>2. QED
      BY <2>1, <3>1 DEF Bucket
  <2>3. CASE ~flushing[c]
    BY <1>2, <2>1, <2>3
  <2>4. QED
    BY <2>2, <2>3
<1>4. UsageTypeOK'
  <2>1. ZeroTotals \in Totals
    BY DEF ZeroTotals, Totals
  <2>2. buckets' \in [Keys -> Bucket]
    BY <1>2, <1>3
  <2>3. QED
    BY <1>1, <1>2, <2>1, <2>2 DEF UsageTypeOK
<1>5. ASSUME NEW c \in Keys PROVE BucketInv(c)'
  <2>1. BucketInv(c) /\ CountsStay(c) /\ ~flushing'[c]
    BY <1>2, SameRequests DEF UsageInv
  <2>2. Reserved(c)' /\ WithinPlan(c)'
    BY <1>3, <2>1 DEF BucketInv, Reserved, WithinPlan, CountsStay
  <2>3. Counted(c)'
    BY <1>2, <1>3, <2>1 DEF BucketInv, Counted
  <2>4. Behind(c)'
    BY <1>2, <1>3, <2>1 DEF BucketInv, Behind
  <2>5. QED
    BY <2>2, <2>3, <2>4 DEF BucketInv
<1>6. QED
  BY <1>2, <1>4, <1>5 DEF UsageInv, OnlyWhileWriting

-----------------------------------------------------------------------------
(* Restarts, and the specification.                                        *)

\* The empty bucket.
LEMMA ZeroTypes ==
  /\ ZeroTotals \in Totals /\ ZeroBucket \in Bucket
  /\ ZeroTotals = ZeroBucket.total /\ ~ZeroBucket.dirty
  /\ ZeroBucket.reservedRequests = 0 /\ ZeroBucket.reservedBytesIn = 0
  /\ ZeroBucket.total.count = 0 /\ ZeroBucket.total.bytesIn = 0
BY DEF ZeroTotals, Totals, ZeroBucket, Bucket

\* Where nobody holds a reservation the four numbers are zero.
LEMMA NoCounts ==
  ASSUME NEW k
  PROVE  /\ HeldIn(k) = {} => Held(k) = 0 /\ HeldBytes(k) = 0
         /\ TwiceIn(k) = {} => Twice(k) = 0 /\ TwiceBytes(k) = 0
         /\ HeldIn(k)' = {} => Held(k)' = 0 /\ HeldBytes(k)' = 0
         /\ TwiceIn(k)' = {} => Twice(k)' = 0 /\ TwiceBytes(k)' = 0
<1>1. BytePairs(EstimateOf, {}) = {} /\ BytePairs(EstimateOf', {}) = {}
  BY DEF BytePairs
<1>2. /\ HeldBytes(k)' = Cardinality(BytePairs(EstimateOf', HeldIn(k)'))
      /\ TwiceBytes(k)' = Cardinality(BytePairs(EstimateOf', TwiceIn(k)'))
  BY DEF HeldBytes, TwiceBytes, BytePairs
<1>3. QED
  BY <1>1, <1>2, FS_EmptySet DEF Held, Twice, HeldBytes, TwiceBytes

\* The daemon dies: nobody holds a reservation, and no bucket has counted anything.
LEMMA CrashKeepsInv ==
  ASSUME UsageInv, Crash
  PROVE  UsageInv'
<1>1. UsageTypeOK
  BY DEF UsageInv
<1>2. /\ crashes < MaxCrashes /\ crashes' = crashes + 1
      /\ buckets' = [c \in Keys |-> ZeroBucket]
      /\ requests' = [r \in Reqs |-> IF requests[r].at = "new"
                                     THEN requests[r] ELSE OverRequest]
      /\ flushing' = [c \in Keys |-> FALSE]
      /\ snapshot' = [c \in Keys |-> ZeroTotals]
      /\ writing' = FALSE
      /\ UNCHANGED <<period, db>>
  BY DEF Crash
<1>3. crashes \in Nat /\ crashes' \in 0..MaxCrashes
  BY <1>1, <1>2, UsageAssumption DEF UsageTypeOK
<1>4. UsageTypeOK'
  BY <1>1, <1>2, <1>3, RequestTypes, ZeroTypes DEF UsageTypeOK
<1>5. ASSUME NEW c \in Keys PROVE BucketInv(c)'
  <2>1. HeldIn(c)' = {} /\ TwiceIn(c)' = {}
    <3>1. \A r \in Reqs : requests'[r].at \in {"new", "over"}
      BY <1>2, NewAndOver
    <3>2. QED
      BY <3>1 DEF HeldIn, TwiceIn
  <2>2. buckets'[c] = ZeroBucket /\ ~flushing'[c]
    BY <1>2
  <2>3. Held(c)' = 0 /\ Twice(c)' = 0 /\ HeldBytes(c)' = 0 /\ TwiceBytes(c)' = 0
    BY <2>1, NoCounts
  <2>4. Reserved(c)' /\ WithinPlan(c)'
    BY <2>2, <2>3, ZeroTypes, UsageAssumption DEF Reserved, WithinPlan
  <2>5. Counted(c)'
    BY <2>2, ZeroTypes DEF Counted
  <2>6. Behind(c)'
    BY <1>2, <1>3 DEF Behind
  <2>7. QED
    BY <2>4, <2>5, <2>6 DEF BucketInv
<1>6. QED
  BY <1>2, <1>4, <1>5 DEF UsageInv, OnlyWhileWriting

\* A new day or month, or nothing at all.
LEMMA IdleKeepsInv ==
  ASSUME UsageInv, NextPeriod \/ UNCHANGED vars
  PROVE  UsageInv'
<1>1. UsageTypeOK
  BY DEF UsageInv
<1>2. UNCHANGED <<buckets, requests, flushing, snapshot, writing, db, crashes>>
  BY DEF NextPeriod, vars
<1>3. period' \in Periods
  BY <1>1, UsageAssumption DEF NextPeriod, vars, UsageTypeOK, Periods
<1>4. UsageTypeOK'
  BY <1>1, <1>2, <1>3 DEF UsageTypeOK
<1>5. ASSUME NEW c \in Keys PROVE BucketInv(c)'
  BY <1>2, SameRequests, UnmovedBucket DEF UsageInv
<1>6. QED
  BY <1>2, <1>4, <1>5 DEF UsageInv, OnlyWhileWriting

\* An empty tracker and an empty database.
LEMMA InitInv == UsageInit => UsageInv
<1> SUFFICES ASSUME UsageInit
             PROVE  UsageInv
  OBVIOUS
<1> USE DEF UsageInit
<1>1. UsageTypeOK
  <2>1. 1 \in Periods /\ 0 \in 0..MaxCrashes
    BY UsageAssumption DEF Periods
  <2>2. QED
    BY <2>1, RequestTypes, ZeroTypes DEF UsageTypeOK
<1>2. ASSUME NEW c \in Keys PROVE BucketInv(c)
  <2>1. HeldIn(c) = {} /\ TwiceIn(c) = {}
    BY NewAndOver DEF HeldIn, TwiceIn
  <2>2. buckets[c] = ZeroBucket /\ ~flushing[c] /\ db[c] = ZeroTotals
    OBVIOUS
  <2>3. Reserved(c) /\ WithinPlan(c)
    BY <2>1, <2>2, NoCounts, ZeroTypes, UsageAssumption DEF Reserved, WithinPlan
  <2>4. Counted(c)
    BY <2>2, ZeroTypes DEF Counted
  <2>5. Behind(c)
    <3>1. Below(ZeroTotals, ZeroTotals)
      BY DEF Below, ZeroTotals
    <3>2. QED
      BY <2>2, <3>1, ZeroTypes DEF Behind
  <2>6. QED
    BY <2>3, <2>4, <2>5 DEF BucketInv
<1>3. QED
  BY <1>1, <1>2 DEF UsageInv, OnlyWhileWriting

\* Every step of the tracker, one case per operation.
LEMMA NextKeepsInv ==
  ASSUME UsageInv, [UsageNext]_vars
  PROVE  UsageInv'
<1>1. CASE \E u \in Users : Touch(u)
  BY <1>1, TouchKeepsInv
<1>2. CASE \E r \in Reqs, u \in Users, e \in 0..MaxSize : ReserveRequest(r, u, e)
  BY <1>2, ReserveKeepsInv
<1>3. CASE \E r \in Reqs : Forwarded(r) \/ ReleaseRequest(r)
  BY <1>3, ForwardedKeepsInv, ReleaseKeepsInv
<1>4. CASE \E r \in Reqs, i, o \in 0..MaxSize : CompleteRequest(r, i, o)
  BY <1>4, CompleteKeepsInv
<1>5. CASE FlushSnapshot
  BY <1>5, FlushSnapshotKeepsInv
<1>6. CASE FlushWritten
  BY <1>6, FlushWrittenKeepsInv
<1>7. CASE FlushFailed
  BY <1>7, FlushFailedKeepsInv
<1>8. CASE NextPeriod \/ UNCHANGED vars
  BY <1>8, IdleKeepsInv
<1>9. CASE Crash
  BY <1>9, CrashKeepsInv
<1>10. QED
  BY <1>1, <1>2, <1>3, <1>4, <1>5, <1>6, <1>7, <1>8, <1>9 DEF UsageNext

-----------------------------------------------------------------------------
(* The theorems.                                                           *)

\* Reservations, totals, copies and database agree in every reachable state, as far as
\* reservations that are returned twice let them (Tracker).
THEOREM UsageInductive == UsageSpec => []UsageInv
BY InitInv, NextKeepsInv, PTL DEF UsageSpec

\* Every variable has its type: in particular no counter of a bucket is ever negative, also
\* where a reservation is returned twice (ReleaseRequest, CompleteRequest).
THEOREM UsageTyped == UsageSpec => []UsageTypeOK
<1>1. UsageInv => UsageTypeOK
  BY DEF UsageInv
<1>2. QED
  BY UsageInductive, <1>1, PTL

\* A plan's requests per period are exceeded by no more than the requests that were both
\* released and counted (ReserveRequest, ReleaseRequest, CompleteRequest).
THEOREM RequestCapHolds == UsageSpec => []RequestCap
<1>1. UsageInv => RequestCap
  BY DEF UsageInv, BucketInv, WithinPlan, RequestCap, Held, Twice
<1>2. QED
  BY UsageInductive, <1>1, PTL

\* What was counted is never forgotten while the process lives (Flush).
THEOREM CountedOrDirtyHolds == UsageSpec => []CountedOrDirty
<1>1. UsageInv => CountedOrDirty
  BY DEF UsageInv, BucketInv, Counted, CountedOrDirty
<1>2. QED
  BY UsageInductive, <1>1, PTL

\* The totals on disk never shrink while the process lives (Flush, UpsertMany).
THEOREM FlushKeepsTotalsHolds == UsageSpec => FlushKeepsTotals
<1>1. ASSUME UsageInv, [UsageNext]_vars
      PROVE  [crashes = 0 => \A k \in Keys : Grows(k)]_vars
  <2>1. SUFFICES ASSUME UsageNext, crashes = 0, NEW k \in Keys
                 PROVE  Grows(k)
    BY <1>1
  <2>2. db[k] \in Totals
    BY <1>1 DEF UsageInv, UsageTypeOK
  <2>3. CASE FlushWritten
    <3>1. db'[k] = IF flushing[k] THEN snapshot[k] ELSE db[k]
      BY <2>3 DEF FlushWritten
    <3>2. snapshot[k] \in Totals
      BY <1>1 DEF UsageInv, UsageTypeOK
    <3>3. flushing[k] => Below(db[k], snapshot[k])
      BY <1>1, <2>1 DEF UsageInv, BucketInv, Behind
    <3>4. QED
      BY <2>2, <3>1, <3>2, <3>3 DEF Grows, Below, Totals
  <2>4. CASE ~FlushWritten
    <3>1. UNCHANGED db
      BY <2>1, <2>4 DEF UsageNext, Touch, ReserveRequest, Forwarded, ReleaseRequest,
         CompleteRequest, FlushSnapshot, FlushFailed, NextPeriod, Crash
    <3>2. QED
      BY <2>2, <3>1 DEF Grows, Totals
  <2>5. QED
    BY <2>3, <2>4
<1>2. QED
  BY UsageInductive, <1>1, PTL DEF UsageSpec, FlushKeepsTotals

-----------------------------------------------------------------------------
(* Reserved bytes: the sum of the estimates is what was counted above.     *)

\* The sum over a set of requests is the number of their pairs.  The sum is taken one
\* chosen request at a time; a smallest set on which the two differed would lead to a
\* smaller one.
LEMMA SumIsCount ==
  ASSUME UsageTypeOK, NEW set \in SUBSET Reqs
  PROVE  Estimates(set) = Cardinality(BytePairs(EstimateOf, set))
<1> DEFINE Count(s) == Cardinality(BytePairs(EstimateOf, s))
           First(s) == CHOOSE x \in s : TRUE
           Rest(s) == s \ {First(s)}
           Step(i) == [s \in SUBSET set |->
                         IF s = {} THEN 0 ELSE requests[First(s)].estimate + i[Rest(s)]]
           sum == CHOOSE i : i = Step(i)
<1>1. EstimateOf \in [Reqs -> 0..MaxSize]
  BY DEF EstimateOf, UsageTypeOK, Request
<1>2. ASSUME NEW s \in SUBSET set, s # {}
      PROVE  /\ First(s) \in s /\ Rest(s) \in SUBSET set
             /\ Count(s) = requests[First(s)].estimate + Count(Rest(s))
             /\ IsFiniteSet(s) /\ Cardinality(Rest(s)) = Cardinality(s) - 1
             /\ Cardinality(s) \in Nat
  <2>1. First(s) \in s
    BY <1>2
  <2>2. EstimateOf[First(s)] = requests[First(s)].estimate
    BY <2>1 DEF EstimateOf
  <2>3. Count(s) = EstimateOf[First(s)] + Count(Rest(s))
    <3>1. s \in SUBSET Reqs
      OBVIOUS
    <3> HIDE DEF First
    <3>2. QED
      BY <1>1, <2>1, <3>1, PairsAdd
  <2>4. IsFiniteSet(s) /\ Cardinality(s) \in Nat
    BY UsageAssumption, FS_Subset, FS_CardinalityType
  <2>5. Cardinality(Rest(s)) = Cardinality(s) - 1
    BY <2>1, <2>4, FS_RemoveElement
  <2>6. QED
    BY <2>1, <2>2, <2>3, <2>4, <2>5
<1>3. Count({}) = 0
  <2>1. BytePairs(EstimateOf, {}) = {}
    BY DEF BytePairs
  <2>2. QED
    BY <2>1, FS_EmptySet
<1> HIDE DEF Count, First, Rest
<1>4. \E i : i = Step(i)
  <2> DEFINE i == [s \in SUBSET set |-> Count(s)]
  <2>1. ASSUME NEW s \in SUBSET set
        PROVE  i[s] = Step(i)[s]
    <3>1. CASE s = {}
      BY <1>3, <3>1
    <3>2. CASE s # {}
      BY <1>2, <3>2
    <3>3. QED
      BY <3>1, <3>2
  <2>2. i = Step(i)
    <3>1. DOMAIN i = SUBSET set /\ DOMAIN Step(i) = SUBSET set
      OBVIOUS
    <3>2. Step(i) = [s \in SUBSET set |-> Step(i)[s]]
      OBVIOUS
    <3> HIDE DEF Step
    <3>3. QED
      BY <2>1, <3>2
  <2>3. QED
    BY <2>2
<1>5. sum = Step(sum)
  <2> HIDE DEF Step
  <2>1. QED
    BY <1>4
<1> HIDE DEF sum
<1>6. \A s \in SUBSET set : sum[s] =
         IF s = {} THEN 0 ELSE requests[First(s)].estimate + sum[Rest(s)]
  BY <1>5
<1>7. \A s \in SUBSET set : sum[s] = Count(s)
  <2> DEFINE wrong == {n \in Nat : \E s \in SUBSET set : Cardinality(s) = n /\ sum[s] # Count(s)}
  <2>1. SUFFICES ASSUME wrong # {}
                 PROVE  FALSE
    <3>1. SUFFICES ASSUME wrong = {}, NEW s \in SUBSET set
                   PROVE  sum[s] = Count(s)
      OBVIOUS
    <3>2. Cardinality(s) \in Nat
      BY UsageAssumption, FS_Subset, FS_CardinalityType
    <3>3. QED
      BY <3>1, <3>2
  <2>2. PICK n \in wrong : \A m \in wrong : ~(<<m, n>> \in OpToRel(<, Nat))
    BY <2>1, NatLessThanWellFounded, WFMin
  <2>3. n \in Nat /\ \A m \in wrong : ~(m < n)
    BY <2>2 DEF OpToRel
  <2>4. PICK s \in SUBSET set : Cardinality(s) = n /\ sum[s] # Count(s)
    OBVIOUS
  <2>5. s # {}
    BY <1>3, <1>6, <2>4
  <2>6. /\ Rest(s) \in SUBSET set /\ Cardinality(Rest(s)) = n - 1
        /\ Count(s) = requests[First(s)].estimate + Count(Rest(s))
        /\ sum[s] = requests[First(s)].estimate + sum[Rest(s)]
    BY <1>2, <1>6, <2>4, <2>5
  <2>7. Cardinality(Rest(s)) \in Nat
    BY <2>6, UsageAssumption, FS_Subset, FS_CardinalityType
  <2>8. sum[Rest(s)] # Count(Rest(s))
    BY <2>4, <2>6
  <2>9. n - 1 \in wrong
    BY <2>6, <2>7, <2>8
  <2>10. QED
    BY <2>3, <2>9
<1>8. Estimates(set) = sum[set]
  BY DEF Estimates, MapThenSumSet, MapThenFoldSet, sum, First, Rest
<1>9. QED
  BY <1>7, <1>8 DEF Count

\* The sums that the properties speak of.
SumsAreCounts ==
  \A k \in Keys : Estimates(HeldIn(k)) = HeldBytes(k) /\ Estimates(TwiceIn(k)) = TwiceBytes(k)

\* In every state with types.
LEMMA SumsCounted == UsageTypeOK => SumsAreCounts
<1> SUFFICES ASSUME UsageTypeOK, NEW k \in Keys
             PROVE  Estimates(HeldIn(k)) = HeldBytes(k) /\ Estimates(TwiceIn(k)) = TwiceBytes(k)
  BY DEF SumsAreCounts
<1>1. HeldIn(k) \in SUBSET Reqs /\ TwiceIn(k) \in SUBSET Reqs
  BY CountTypes
<1>2. QED
  BY <1>1, SumIsCount DEF HeldBytes, TwiceBytes

\* The reservations of a bucket, in number and in bytes, are those of the requests that hold
\* one, short of no more than what requests released and counted have given back twice: none
\* stays reserved for a request that is over, nor in the wrong period (ReserveRequest,
\* ReleaseRequest, CompleteRequest).
THEOREM ReservationsAreHeldHolds == UsageSpec => []ReservationsAreHeld
<1>1. UsageInv => ReservationsAreHeld
  BY SumsCounted DEF UsageInv, BucketInv, Reserved, SumsAreCounts, ReservationsAreHeld, Held, Twice
<1>2. QED
  BY UsageInductive, <1>1, PTL

-----------------------------------------------------------------------------
(* The byte plan.  Admission reserves the bytes a body declares; what      *)
(* takes a period over its plan is a body longer than that: one that       *)
(* declares no length, and the stream of an upgraded request.              *)

\* The bytes counted and held in a bucket stay within the plan, but for those that were
\* given back twice.
WithinBytes(k) ==
  MaxBytesIn > 0 =>
    buckets[k].total.bytesIn + Estimates(HeldIn(k)) <= MaxBytesIn + Estimates(TwiceIn(k))

\* A request that holds its reservation is over, with more bytes than it had reserved.
Overrun(k) ==
  \E r \in HeldIn(k) :
    /\ requests'[r].at = "over"
    /\ buckets'[k].total.bytesIn > buckets[k].total.bytesIn + requests[r].estimate

\* The same as a fact about the counts.
Loaded(k) ==
  MaxBytesIn > 0 => buckets[k].total.bytesIn + HeldBytes(k) <= MaxBytesIn + TwiceBytes(k)

\* The addends are counts.
LEMMA LoadTypes ==
  ASSUME UsageTypeOK, UsageTypeOK', NEW k \in Keys
  PROVE  /\ buckets[k].total.bytesIn \in Nat /\ buckets'[k].total.bytesIn \in Nat
         /\ HeldBytes(k) \in Nat /\ TwiceBytes(k) \in Nat
         /\ HeldBytes(k)' \in Nat /\ TwiceBytes(k)' \in Nat /\ MaxBytesIn \in Nat
<1>1. buckets[k] \in Bucket /\ buckets'[k] \in Bucket /\ MaxBytesIn \in Nat
  BY UsageAssumption DEF UsageTypeOK
<1>2. buckets[k].total.bytesIn \in Nat /\ buckets'[k].total.bytesIn \in Nat
  BY <1>1, BucketTypes
<1>3. QED
  BY <1>1, <1>2, CountTypes

\* A bucket whose bytes and requests stay is as loaded as it was.
LEMMA StaysLoaded ==
  ASSUME NEW c \in Keys, Loaded(c), CountsStay(c),
         buckets'[c].total.bytesIn = buckets[c].total.bytesIn
  PROVE  Loaded(c)'
BY DEF Loaded, CountsStay

\* ReserveRequest admits what the plan has room for, as far as the bucket knows.
LEMMA AdmissionStaysLoaded ==
  ASSUME UsageInv, UsageTypeOK', NEW r \in Reqs, NEW u \in Users, NEW e \in 0..MaxSize,
         ReserveRequest(r, u, e), NEW c \in Keys, Loaded(c)
  PROVE  Loaded(c)'
<1> DEFINE k == <<u, period>>
<1>1. UsageTypeOK /\ Reserved(c) /\ e \in Nat
  BY UsageAssumption DEF UsageInv, BucketInv
<1>2. /\ c # k => buckets'[c] = buckets[c] /\ CountsStay(c)
      /\ c = k => /\ buckets'[c].total = buckets[c].total
                  /\ HeldBytes(c)' = HeldBytes(c) + e /\ TwiceBytes(c)' = TwiceBytes(c)
  BY <1>1, ReserveCounts
<1>3. RequestRoom(buckets[k], e)
  BY DEF ReserveRequest
<1> HIDE DEF k
<1>4. CASE c = k
  <2>1. MaxBytesIn > 0 =>
          buckets[c].total.bytesIn + buckets[c].reservedBytesIn + e <= MaxBytesIn
    BY <1>3, <1>4 DEF RequestRoom
  <2>2. HeldBytes(c) <= buckets[c].reservedBytesIn + TwiceBytes(c)
    BY <1>1 DEF Reserved
  <2>3. buckets[c].reservedBytesIn \in Nat
    BY <1>1, BucketTypes DEF UsageTypeOK
  <2>4. /\ buckets[c].total.bytesIn \in Nat /\ HeldBytes(c) \in Nat /\ TwiceBytes(c) \in Nat
        /\ MaxBytesIn \in Nat
    BY <1>1, LoadTypes
  <2>5. /\ buckets'[c].total.bytesIn = buckets[c].total.bytesIn
        /\ HeldBytes(c)' = HeldBytes(c) + e /\ TwiceBytes(c)' = TwiceBytes(c)
    BY <1>2, <1>4
  <2>6. QED
    BY <1>1, <2>1, <2>2, <2>3, <2>4, <2>5 DEF Loaded
<1>5. CASE c # k
  BY <1>2, <1>5, StaysLoaded
<1>6. QED
  BY <1>4, <1>5

\* A reservation that is returned takes its bytes from those held, or adds them to those
\* returned twice, which leaves room for as many counted bytes.
LEMMA ReturnStaysLoaded ==
  ASSUME UsageTypeOK, UsageTypeOK', NEW r \in Reqs, NEW k \in Keys, Returns(r, k), Loaded(k),
         NEW i \in Nat, i <= requests[r].estimate,
         buckets'[k].total.bytesIn = buckets[k].total.bytesIn + i
  PROVE  Loaded(k)'
<1>1. requests[r].estimate \in Nat
  BY UsageAssumption DEF UsageTypeOK, Request
<1>2. /\ buckets[k].total.bytesIn \in Nat
      /\ HeldBytes(k) \in Nat /\ TwiceBytes(k) \in Nat
      /\ HeldBytes(k)' \in Nat /\ TwiceBytes(k)' \in Nat /\ MaxBytesIn \in Nat
  BY LoadTypes
<1>3. \/ /\ HeldBytes(k)' + requests[r].estimate = HeldBytes(k)
         /\ TwiceBytes(k)' = TwiceBytes(k)
      \/ /\ HeldBytes(k)' = HeldBytes(k)
         /\ TwiceBytes(k)' = TwiceBytes(k) + requests[r].estimate
  BY DEF Returns
<1>4. QED
  BY <1>1, <1>2, <1>3 DEF Loaded

\* ReleaseRequest and CompleteRequest.
LEMMA EndStaysLoaded ==
  ASSUME UsageTypeOK, UsageTypeOK', NEW r \in Reqs, NEW i \in 0..MaxSize,
         NEW o \in 0..MaxSize, ReleaseRequest(r) \/ CompleteRequest(r, i, o),
         NEW c \in Keys, Loaded(c)
  PROVE  Loaded(c)' \/ Overrun(c)
<1>1. PICK k \in Keys : k = requests[r].key
  BY DEF UsageTypeOK, Request
<1>2. /\ requests[r].estimate \in 0..MaxSize /\ requests[r].estimate \in Nat /\ i \in Nat
      /\ buckets[k] \in Bucket /\ buckets[k].total \in Totals
      /\ buckets[k].total.bytesIn \in Nat
  BY UsageAssumption, BucketTypes DEF UsageTypeOK, Request
<1>3. CASE ReleaseRequest(r)
  <2>1. /\ Returns(r, k) /\ buckets'[k] = Unreserve(buckets[k], requests[r].estimate)
        /\ c # k => buckets'[c] = buckets[c] /\ CountsStay(c)
    BY <1>1, <1>3, ReleaseCounts
  <2>2. buckets'[k].total.bytesIn = buckets[k].total.bytesIn + 0
    BY <1>2, <2>1, UnreserveProperties
  <2>3. CASE c = k
    BY <1>2, <2>1, <2>2, <2>3, ReturnStaysLoaded
  <2>4. CASE c # k
    BY <2>1, <2>4, StaysLoaded
  <2>5. QED
    BY <2>3, <2>4
<1>4. CASE CompleteRequest(r, i, o)
  <2>1. /\ Returns(r, k) /\ buckets'[k].total = Counting(buckets[k].total, i, o)
        /\ c # k => buckets'[c] = buckets[c] /\ CountsStay(c)
    BY <1>1, <1>4, CompleteCounts
  <2>2. buckets'[k].total.bytesIn = buckets[k].total.bytesIn + i
    <3>1. Counting(buckets[k].total, i, o).bytesIn = buckets[k].total.bytesIn + i
      BY <1>2, CountingProperties
    <3>2. QED
      BY <2>1, <3>1
  <2>3. CASE c # k
    BY <2>1, <2>3, StaysLoaded
  <2>4. CASE c = k /\ i <= requests[r].estimate
    BY <1>2, <2>1, <2>2, <2>4, ReturnStaysLoaded
  <2>5. CASE c = k /\ ~(i <= requests[r].estimate)
    <3>1. Completes(requests[r], i, o) /\ requests' = [requests EXCEPT ![r] = Finished(@)]
      BY <1>4 DEF CompleteRequest
    <3>2. i # 0
      BY <1>2, <2>5
    <3>3. requests[r].at = "forwarded" /\ ~requests[r].counted
      BY <3>1, <3>2 DEF Completes
    <3>4. requests'[r].at = "over"
      BY <3>1, <3>3, NewAndOver DEF UsageTypeOK, Finished
    <3>5. r \in HeldIn(c)
      BY <1>1, <2>5, <3>3 DEF HeldIn
    <3>6. buckets'[c].total.bytesIn > buckets[c].total.bytesIn + requests[r].estimate
      BY <1>2, <2>2, <2>5
    <3>7. QED
      BY <3>4, <3>5, <3>6 DEF Overrun
  <2>6. QED
    BY <2>3, <2>4, <2>5
<1>5. QED
  BY <1>3, <1>4

\* Every other step leaves bytes and requests alone, or drops them all.
LEMMA OthersStayLoaded ==
  ASSUME UsageInv, UsageTypeOK', NEW c \in Keys, Loaded(c),
         \/ \E u \in Users : Touch(u)
         \/ \E r \in Reqs : Forwarded(r)
         \/ FlushSnapshot \/ FlushWritten \/ FlushFailed \/ NextPeriod \/ Crash
  PROVE  Loaded(c)'
<1>1. UsageTypeOK /\ buckets[c] \in Bucket
  BY DEF UsageInv, UsageTypeOK
<1>2. CASE \E u \in Users : Touch(u)
  <2>1. PICK u \in Users : Touch(u)
    BY <1>2
  <2>2. <<u, period>> \in Keys
    BY <1>1 DEF UsageTypeOK, Keys
  <2>3. \/ buckets'[c] = buckets[c]
        \/ buckets'[c] = [buckets[c] EXCEPT !.dirty = TRUE]
    BY <1>1, <2>1, <2>2 DEF Touch, UsageTypeOK
  <2>4. buckets'[c].total.bytesIn = buckets[c].total.bytesIn
    BY <1>1, <2>3 DEF Bucket
  <2>5. CountsStay(c)
    BY <2>1, SameRequests DEF Touch
  <2>6. QED
    BY <2>4, <2>5, StaysLoaded
<1>3. CASE \E r \in Reqs : Forwarded(r)
  <2>1. PICK r \in Reqs : Forwarded(r)
    BY <1>3
  <2>2. CountsStay(c) /\ buckets' = buckets
    BY <1>1, <2>1, ForwardedCounts DEF Forwarded
  <2>3. QED
    BY <2>2, StaysLoaded
<1>4. CASE FlushSnapshot \/ FlushWritten \/ FlushFailed \/ NextPeriod
  <2>1. CountsStay(c)
    BY <1>4, SameRequests DEF FlushSnapshot, FlushWritten, FlushFailed, EndFlush, NextPeriod
  <2>2. \/ buckets'[c] = buckets[c]
        \/ buckets'[c] = [buckets[c] EXCEPT !.dirty = TRUE]
        \/ buckets'[c] = [buckets[c] EXCEPT !.dirty = FALSE]
    <3>1. CASE FlushSnapshot
      BY <3>1 DEF FlushSnapshot
    <3>2. CASE FlushWritten \/ NextPeriod
      BY <3>2 DEF FlushWritten, NextPeriod
    <3>3. CASE FlushFailed
      <4>1. buckets'[c] = IF flushing[c] THEN [buckets[c] EXCEPT !.dirty = TRUE] ELSE buckets[c]
        BY <3>3 DEF FlushFailed
      <4>2. QED
        BY <4>1
    <3>4. QED
      BY <1>4, <3>1, <3>2, <3>3
  <2>3. buckets'[c].total.bytesIn = buckets[c].total.bytesIn
    BY <1>1, <2>2 DEF Bucket
  <2>4. QED
    BY <2>1, <2>3, StaysLoaded
<1>5. CASE Crash
  <2>1. buckets'[c].total.bytesIn = 0
    BY <1>5, ZeroTypes DEF Crash
  <2>2. HeldIn(c)' = {} /\ TwiceIn(c)' = {}
    <3>1. \A r \in Reqs : requests'[r].at \in {"new", "over"}
      BY <1>5, NewAndOver DEF Crash
    <3>2. QED
      BY <3>1 DEF HeldIn, TwiceIn
  <2>3. HeldBytes(c)' = 0 /\ TwiceBytes(c)' = 0
    BY <2>2, NoCounts
  <2>4. MaxBytesIn \in Nat
    BY UsageAssumption
  <2>5. QED
    BY <2>1, <2>3, <2>4 DEF Loaded
<1>6. QED
  BY <1>2, <1>3, <1>4, <1>5

\* No period exceeds its byte plan, beyond what was given back twice, but by a request whose
\* body or stream is longer than what it had reserved, however admissions, completions,
\* releases, timers and the turn of the period interleave (ReserveRequest, ReleaseRequest,
\* CompleteRequest).
THEOREM OnlyOverrunExceeds ==
  UsageSpec => [][\A k \in Keys : WithinBytes(k) => WithinBytes(k)' \/ Overrun(k)]_vars
<1>1. ASSUME UsageInv, UsageInv', SumsAreCounts, SumsAreCounts', [UsageNext]_vars
      PROVE  [\A k \in Keys : WithinBytes(k) => WithinBytes(k)' \/ Overrun(k)]_vars
  <2>1. UsageTypeOK /\ UsageTypeOK'
    BY <1>1 DEF UsageInv
  <2>2. SUFFICES ASSUME UsageNext, NEW c \in Keys, WithinBytes(c)
                 PROVE  WithinBytes(c)' \/ Overrun(c)
    BY <1>1
  <2>3. Loaded(c)
    BY <1>1, <2>2 DEF WithinBytes, Loaded, SumsAreCounts
  <2>4. ASSUME NEW r \in Reqs, NEW u \in Users, NEW e \in 0..MaxSize, ReserveRequest(r, u, e)
        PROVE  Loaded(c)'
    BY <1>1, <2>1, <2>3, <2>4, AdmissionStaysLoaded
  <2>5. ASSUME NEW r \in Reqs, ReleaseRequest(r)
        PROVE  Loaded(c)' \/ Overrun(c)
    <3>1. 0 \in 0..MaxSize
      BY UsageAssumption
    <3>2. QED
      BY <2>1, <2>3, <2>5, <3>1, EndStaysLoaded
  <2>6. ASSUME NEW r \in Reqs, NEW i \in 0..MaxSize, NEW o \in 0..MaxSize,
               CompleteRequest(r, i, o)
        PROVE  Loaded(c)' \/ Overrun(c)
    BY <2>1, <2>3, <2>6, EndStaysLoaded
  <2>7. ASSUME \/ \E u \in Users : Touch(u)
               \/ \E r \in Reqs : Forwarded(r)
               \/ FlushSnapshot \/ FlushWritten \/ FlushFailed \/ NextPeriod \/ Crash
        PROVE  Loaded(c)'
    BY <1>1, <2>1, <2>3, <2>7, OthersStayLoaded
  <2>8. Loaded(c)' \/ Overrun(c)
    BY <2>2, <2>4, <2>5, <2>6, <2>7 DEF UsageNext
  <2>9. Loaded(c)' => WithinBytes(c)'
    BY <1>1 DEF WithinBytes, Loaded, SumsAreCounts
  <2>10. QED
    BY <2>8, <2>9
<1>2. UsageInv => SumsAreCounts
  BY SumsCounted DEF UsageInv
<1>3. QED
  BY <1>1, <1>2, UsageInductive, PTL DEF UsageSpec
=============================================================================
