---- MODULE RequestApiProofs ----
(***************************************************************************)
(* Proofs about RequestApi, for every number of requests and every limit:  *)
(* the limits are kept, and only a timeout leaves room beside a waiting    *)
(* request; every request ends once (RequestApi implements SlotRequests)   *)
(* and, if it never waits, is posted no more often than its retries allow. *)
(* They rest on what the helpers do to a pool: to its size, in the first   *)
(* part, and to the places of its requests, in the second.                 *)
(***************************************************************************)
EXTENDS RequestApi, SequenceTheorems, FiniteSetTheorems, TLAPS

PoolType == [pending: Seq(Reply), queue: Seq(Requests)]

Within(pool) == /\ Len(pool.pending) <= ConcurrencyLimit
                /\ Len(pool.queue) <= MaxQueueSize

Full(pool) == pool.queue # <<>> => ~Room(pool)

IInv == TypeOK /\ WithinLimits

----------------------------------------------------------------------------
\* A reply is removed from the pending ones: a shorter sequence of replies.
LEMMA RemoveReply ==
  ASSUME NEW s \in Seq(Reply), NEW i \in 1 .. Len(s)
  PROVE  RemoveAt(s, i) \in Seq(Reply) /\ Len(RemoveAt(s, i)) = Len(s) - 1
<1> DEFINE before == SubSeq(s, 1, i - 1)
           after == SubSeq(s, i + 1, Len(s))
<1>1. before \in Seq(Reply) /\ Len(before) = i - 1
  OBVIOUS
<1>2. after \in Seq(Reply) /\ Len(after) = Len(s) - i
  OBVIOUS
<1>3. RemoveAt(s, i) = before \o after
  BY DEF RemoveAt
<1> HIDE DEF before, after
<1>4. before \o after \in Seq(Reply) /\ Len(before \o after) = Len(before) + Len(after)
  BY <1>1, <1>2, SMTT(30)
<1> QED BY <1>1, <1>2, <1>3, <1>4

\* enqueueOrSend keeps a pool within the limits, and leaves a waiting request
\* no room that it did not have before.
LEMMA EnqueueLemma ==
  ASSUME NEW pool \in PoolType, NEW r \in Requests, NEW n \in 0 .. MaxRetries
  PROVE  /\ EnqueueOrSend(pool, r, n) \in PoolType
         /\ Within(pool) => Within(EnqueueOrSend(pool, r, n))
         /\ Full(pool) => Full(EnqueueOrSend(pool, r, n))
<1> USE RequestAssumption DEF PoolType
<1> DEFINE reply == [id |-> r, retriesLeft |-> n]
<1>0. reply \in Reply
  BY DEF Reply
<1>1. CASE Room(pool)
  <2>1. EnqueueOrSend(pool, r, n) = [pending |-> Append(pool.pending, reply), queue |-> pool.queue]
    BY <1>1 DEF EnqueueOrSend
  <2>2. /\ Append(pool.pending, reply) \in Seq(Reply)
        /\ Len(Append(pool.pending, reply)) = Len(pool.pending) + 1
    BY <1>0
  <2> QED BY <1>1, <2>1, <2>2 DEF Within, Full, Room
<1>2. CASE ~Room(pool) /\ QueueRoom(pool)
  <2>1. EnqueueOrSend(pool, r, n) = [pending |-> pool.pending, queue |-> Append(pool.queue, r)]
    BY <1>2 DEF EnqueueOrSend
  <2>2. /\ Append(pool.queue, r) \in Seq(Requests)
        /\ Len(Append(pool.queue, r)) = Len(pool.queue) + 1
    OBVIOUS
  <2> QED BY <1>2, <2>1, <2>2 DEF Within, Full, Room, QueueRoom
<1>3. CASE ~Room(pool) /\ ~QueueRoom(pool)
  BY <1>3 DEF EnqueueOrSend
<1> QED BY <1>1, <1>2, <1>3

\* tryStartNext posts no more than there is room for and no more than waits,
\* and stops only when one of the two is used up.
LEMMA StartLemma ==
  ASSUME NEW pool \in PoolType
  PROVE  /\ TryStartNext(pool) \in PoolType
         /\ Within(pool) => Within(TryStartNext(pool))
         /\ Full(TryStartNext(pool))
<1> USE RequestAssumption DEF PoolType
<1> DEFINE k == Started(pool)
           new == [i \in 1 .. k |-> [id |-> pool.queue[i], retriesLeft |-> MaxRetries]]
           rest == SubSeq(pool.queue, k + 1, Len(pool.queue))
<1>1. /\ k \in 0 .. Len(pool.queue)
      /\ Len(pool.pending) <= ConcurrencyLimit => Len(pool.pending) + k <= ConcurrencyLimit
      /\ k < Len(pool.queue) => Len(pool.pending) + k >= ConcurrencyLimit
  BY DEF Started, Room
<1> HIDE DEF k
<1>2. new \in Seq(Reply) /\ Len(new) = k
  <2>1. \A i \in 1 .. k : [id |-> pool.queue[i], retriesLeft |-> MaxRetries] \in Reply
    BY <1>1 DEF Reply
  <2> QED BY <1>1, <2>1
<1>3. rest \in Seq(Requests) /\ Len(rest) = Len(pool.queue) - k
  BY <1>1
<1> HIDE DEF new, rest
<1>4. /\ pool.pending \o new \in Seq(Reply)
      /\ Len(pool.pending \o new) = Len(pool.pending) + k
  BY <1>2
<1>5. TryStartNext(pool) = [pending |-> pool.pending \o new, queue |-> rest]
  BY DEF TryStartNext, new, rest, k
<1>6. rest # <<>> => Len(rest) > 0
  BY <1>3
<1> QED BY <1>1, <1>3, <1>4, <1>5, <1>6 DEF Within, Full, Room

\* The present pool, and the present pool with other replies.
LEMMA PoolLemma ==
  ASSUME TypeOK
  PROVE  /\ Pool \in PoolType /\ (WithinLimits <=> Within(Pool)) /\ (NoIdleRoom <=> Full(Pool))
         /\ \A s \in Seq(Reply) :
               /\ [Pool EXCEPT !.pending = s] \in PoolType
               /\ [Pool EXCEPT !.pending = s] = [pending |-> s, queue |-> queue]
BY DEF TypeOK, Pool, PoolType, Within, WithinLimits, Full, NoIdleRoom

\* A handler that leaves a well-formed pool keeps the types of all it writes.
LEMMA BecomesLemma ==
  ASSUME TypeOK, NEW kept, NEW pool \in PoolType, Becomes(kept, pool)
  PROVE  /\ pending' \in Seq(Reply) /\ queue' \in Seq(Requests)
         /\ posts' \in [Requests -> 0 .. PostCap] /\ waited' \subseteq Requests
         /\ Pool' = pool
<1> USE DEF Becomes, TypeOK
<1>1. pool.pending \in Seq(Reply) /\ pool.queue \in Seq(Requests)
  BY DEF PoolType
<1>2. posts' \in [Requests -> 0 .. PostCap]
  BY RequestAssumption DEF PostCap, MaxPosts
<1>3. waited' \subseteq Requests
  BY <1>1
<1>4. Pool' = pool
  BY DEF Pool, PoolType
<1> QED BY <1>1, <1>2, <1>3, <1>4

----------------------------------------------------------------------------
\* A new request keeps types and limits and gives a waiting request no room.
LEMMA RequestStep ==
  ASSUME TypeOK, NEW r \in Requests, RequestForSlot(r)
  PROVE  /\ TypeOK' /\ (WithinLimits => WithinLimits')
         /\ NoIdleRoom => NoIdleRoom'
<1> DEFINE pool == EnqueueOrSend(Pool, r, MaxRetries)
<1>1. /\ pool \in PoolType /\ (Within(Pool) => Within(pool)) /\ (Full(Pool) => Full(pool))
  BY PoolLemma, EnqueueLemma, RequestAssumption
<1>2. Becomes(pending, pool) /\ Ends(r, Accepted(Pool)) /\ delayed' = delayed
  BY DEF RequestForSlot
<1> HIDE DEF pool
<1>3. /\ pending' \in Seq(Reply) /\ queue' \in Seq(Requests)
      /\ posts' \in [Requests -> 0 .. PostCap] /\ waited' \subseteq Requests
      /\ Pool' = pool
  BY <1>1, <1>2, BecomesLemma
<1>4. TypeOK'
  BY <1>2, <1>3 DEF TypeOK, Ends, Accepted
<1>5. /\ WithinLimits <=> Within(Pool)
      /\ NoIdleRoom <=> Full(Pool)
      /\ WithinLimits' <=> Within(pool)
      /\ NoIdleRoom' <=> Full(pool)
  BY <1>3, PoolLemma DEF WithinLimits, NoIdleRoom, Within, Full, Pool
<1> QED BY <1>1, <1>4, <1>5

\* An answer keeps types and limits and uses the room it leaves.
LEMMA AnswerStep ==
  ASSUME TypeOK, NEW i \in 1 .. Len(pending), Answer(i)
  PROVE  TypeOK' /\ (WithinLimits => WithinLimits') /\ NoIdleRoom'
<1> DEFINE kept == Finished(i)
           given == [Pool EXCEPT !.pending = kept]
           pool == TryStartNext(given)
<1>1. /\ kept \in Seq(Reply) /\ Len(kept) = Len(pending) - 1
      /\ pending[i] \in Reply /\ pending[i].id \in Requests
  <2>1. pending[i] \in Reply /\ kept \in Seq(Reply) /\ Len(kept) = Len(pending) - 1
    BY RemoveReply DEF TypeOK, Finished
  <2> QED BY <2>1 DEF Reply
<1>2. Becomes(kept, pool) /\ delayed' = delayed
      /\ (Ends(pending[i].id, "answered") \/ Ends(pending[i].id, "failed"))
  BY DEF Answer
<1> HIDE DEF kept
<1>3. given \in PoolType /\ given = [pending |-> kept, queue |-> queue]
  BY <1>1, PoolLemma
<1> HIDE DEF given
<1>4. WithinLimits => Within(given)
  BY <1>1, <1>3, RequestAssumption DEF Within, WithinLimits, TypeOK
<1>5. pool \in PoolType /\ (Within(given) => Within(pool)) /\ Full(pool)
  BY <1>3, StartLemma
<1> HIDE DEF pool
<1>6. /\ pending' \in Seq(Reply) /\ queue' \in Seq(Requests)
      /\ posts' \in [Requests -> 0 .. PostCap] /\ waited' \subseteq Requests
      /\ Pool' = pool
  BY <1>2, <1>5, BecomesLemma
<1>7. TypeOK'
  BY <1>1, <1>2, <1>6 DEF TypeOK, Ends
<1>8. (WithinLimits' <=> Within(pool)) /\ (NoIdleRoom' <=> Full(pool))
  BY <1>6 DEF WithinLimits, NoIdleRoom, Within, Full, Pool
<1> QED BY <1>4, <1>5, <1>7, <1>8

\* So does a network error, whether the request is retried or given up.
LEMMA ErrorStep ==
  ASSUME TypeOK, NEW i \in 1 .. Len(pending), NetworkError(i)
  PROVE  TypeOK' /\ (WithinLimits => WithinLimits') /\ NoIdleRoom'
<1> DEFINE kept == Finished(i)
           given == [Pool EXCEPT !.pending = kept]
           r == pending[i]
<1>1. /\ kept \in Seq(Reply) /\ Len(kept) = Len(pending) - 1
      /\ r \in Reply /\ r.id \in Requests /\ r.retriesLeft \in 0 .. MaxRetries
  <2>1. r \in Reply /\ kept \in Seq(Reply) /\ Len(kept) = Len(pending) - 1
    BY RemoveReply DEF TypeOK, Finished
  <2> QED BY <2>1 DEF Reply
<1>2. \/ /\ r.retriesLeft > 0
         /\ Becomes(kept, TryStartNext(EnqueueOrSend(given, r.id, r.retriesLeft - 1)))
         /\ Ends(r.id, Accepted(given))
      \/ /\ Becomes(kept, TryStartNext(given))
         /\ Ends(r.id, "failed")
  BY DEF NetworkError
<1>3. delayed' = delayed
  BY DEF NetworkError
<1> HIDE DEF kept, r
<1>4. given \in PoolType /\ given = [pending |-> kept, queue |-> queue]
  BY <1>1, PoolLemma
<1> HIDE DEF given
<1>5. WithinLimits => Within(given)
  BY <1>1, <1>4, RequestAssumption DEF Within, WithinLimits, TypeOK
<1>6. PICK pool \in PoolType :
         /\ Becomes(kept, pool)
         /\ Within(given) => Within(pool)
         /\ Full(pool)
         /\ Ends(r.id, Accepted(given)) \/ Ends(r.id, "failed")
  <2>1. CASE r.retriesLeft > 0
              /\ Becomes(kept, TryStartNext(EnqueueOrSend(given, r.id, r.retriesLeft - 1)))
              /\ Ends(r.id, Accepted(given))
    <3>1. r.retriesLeft - 1 \in 0 .. MaxRetries
      BY <1>1, <2>1, RequestAssumption
    <3>2. /\ EnqueueOrSend(given, r.id, r.retriesLeft - 1) \in PoolType
          /\ Within(given) => Within(EnqueueOrSend(given, r.id, r.retriesLeft - 1))
      BY <1>1, <1>4, <3>1, EnqueueLemma
    <3> QED BY <2>1, <3>2, StartLemma
  <2>2. CASE Becomes(kept, TryStartNext(given)) /\ Ends(r.id, "failed")
    BY <1>4, <2>2, StartLemma
  <2> QED BY <1>2, <2>1, <2>2
<1>7. /\ pending' \in Seq(Reply) /\ queue' \in Seq(Requests)
      /\ posts' \in [Requests -> 0 .. PostCap] /\ waited' \subseteq Requests
      /\ Pool' = pool
  BY <1>6, BecomesLemma
<1>8. TypeOK'
  BY <1>1, <1>3, <1>6, <1>7 DEF TypeOK, Ends, Accepted
<1>9. (WithinLimits' <=> Within(pool)) /\ (NoIdleRoom' <=> Full(pool))
  BY <1>7 DEF WithinLimits, NoIdleRoom, Within, Full, Pool
<1> QED BY <1>5, <1>6, <1>8, <1>9

\* The timeout check keeps types and limits; it may leave room.
LEMMA TimeoutStep ==
  ASSUME TypeOK, NEW n \in 1 .. Len(pending), CheckPendingTimeouts(n)
  PROVE  TypeOK' /\ (WithinLimits => WithinLimits')
<1> DEFINE toAbort == {pending[i] : i \in 1 .. n}
           kept == SubSeq(pending, n + 1, Len(pending))
           pool == [Pool EXCEPT !.pending = kept]
<1>1. kept \in Seq(Reply) /\ Len(kept) = Len(pending) - n
  BY DEF TypeOK
<1>2. toAbort \subseteq Reply
  BY DEF TypeOK
<1>3. /\ delayed' = delayed \cup {[r EXCEPT !.retriesLeft = @ - 1] :
                                     r \in {s \in toAbort : s.retriesLeft > 0}}
      /\ state' = [r \in Requests |->
                      IF [id |-> r, retriesLeft |-> 0] \in toAbort THEN "failed" ELSE state[r]]
      /\ Becomes(kept, pool)
  BY DEF CheckPendingTimeouts
<1> HIDE DEF toAbort, kept
<1>4. pool \in PoolType /\ pool = [pending |-> kept, queue |-> queue]
  BY <1>1, PoolLemma
<1> HIDE DEF pool
<1>5. /\ pending' \in Seq(Reply) /\ queue' \in Seq(Requests)
      /\ posts' \in [Requests -> 0 .. PostCap] /\ waited' \subseteq Requests
      /\ Pool' = pool
  BY <1>3, <1>4, BecomesLemma
<1>6. delayed' \subseteq Reply
  <2>1. \A s \in Reply : s.retriesLeft > 0 => [s EXCEPT !.retriesLeft = @ - 1] \in Reply
    BY RequestAssumption DEF Reply
  <2> QED BY <1>2, <1>3, <2>1 DEF TypeOK
<1>7. state' \in [Requests -> {"new", "held", "answered", "failed", "dropped"}]
  BY <1>3 DEF TypeOK
<1>8. TypeOK'
  BY <1>5, <1>6, <1>7 DEF TypeOK
<1>9. WithinLimits => WithinLimits'
  BY <1>1, <1>4, <1>5, RequestAssumption DEF WithinLimits, Pool, TypeOK
<1> QED BY <1>8, <1>9

\* A delayed retry keeps types and limits and uses what room there is.
LEMMA RetryStep ==
  ASSUME TypeOK, NEW d \in delayed, RetryDelayed(d)
  PROVE  TypeOK' /\ (WithinLimits => WithinLimits') /\ NoIdleRoom'
<1> DEFINE queued == EnqueueOrSend(Pool, d.id, d.retriesLeft)
           pool == TryStartNext(queued)
<1>1. d.id \in Requests /\ d.retriesLeft \in 0 .. MaxRetries
  BY DEF TypeOK, Reply
<1>2. Becomes(pending, pool) /\ Ends(d.id, Accepted(Pool)) /\ delayed' = delayed \ {d}
  BY DEF RetryDelayed
<1>3. queued \in PoolType /\ (WithinLimits => Within(queued))
  BY <1>1, PoolLemma, EnqueueLemma
<1> HIDE DEF queued
<1>4. pool \in PoolType /\ (Within(queued) => Within(pool)) /\ Full(pool)
  BY <1>3, StartLemma
<1> HIDE DEF pool
<1>5. /\ pending' \in Seq(Reply) /\ queue' \in Seq(Requests)
      /\ posts' \in [Requests -> 0 .. PostCap] /\ waited' \subseteq Requests
      /\ Pool' = pool
  BY <1>2, <1>4, BecomesLemma
<1>6. TypeOK'
  BY <1>1, <1>2, <1>5 DEF TypeOK, Ends, Accepted
<1>7. (WithinLimits' <=> Within(pool)) /\ (NoIdleRoom' <=> Full(pool))
  BY <1>5 DEF WithinLimits, NoIdleRoom, Within, Full, Pool
<1> QED BY <1>3, <1>4, <1>6, <1>7

----------------------------------------------------------------------------
\* Types and limits are an inductive invariant.
LEMMA IInvInductive == Spec => []IInv
<1>1. Init => IInv
  BY RequestAssumption DEF Init, IInv, TypeOK, WithinLimits, PostCap, MaxPosts
<1>2. IInv /\ [Next]_vars => IInv'
  <2> SUFFICES ASSUME IInv, [Next]_vars PROVE IInv'
    OBVIOUS
  <2> USE DEF IInv
  <2>1. ASSUME NEW r \in Requests, RequestForSlot(r) PROVE IInv'
    BY <2>1, RequestStep
  <2>2. ASSUME NEW i \in 1 .. Len(pending), Answer(i) PROVE IInv'
    BY <2>2, AnswerStep
  <2>3. ASSUME NEW i \in 1 .. Len(pending), NetworkError(i) PROVE IInv'
    BY <2>3, ErrorStep
  <2>4. ASSUME NEW n \in 1 .. Len(pending), CheckPendingTimeouts(n) PROVE IInv'
    BY <2>4, TimeoutStep
  <2>5. ASSUME NEW d \in delayed, RetryDelayed(d) PROVE IInv'
    BY <2>5, RetryStep
  <2>6. CASE UNCHANGED vars
    BY <2>6 DEF vars, TypeOK, WithinLimits
  <2> QED BY <2>1, <2>2, <2>3, <2>4, <2>5, <2>6 DEF Next, Timer
<1> QED BY <1>1, <1>2, PTL DEF Spec

\* requestapi.h:42-44: at most concurrencyLimit requests are with the server
\* and at most maxQueueSize wait, for every value of the limits.
THEOREM LimitsAreKept == Spec => []WithinLimits
<1>1. IInv => WithinLimits
  BY DEF IInv
<1> QED BY <1>1, IInvInductive, PTL

\* Only a timeout leaves room beside a waiting request; an answer, an error and
\* a delayed retry never do, because each ends with tryStartNext.
THEOREM RoomIsUsed == Spec => OnlyTimeoutsLeaveRoom
<1> DEFINE Step ==
      /\ NoIdleRoom /\ ~NoIdleRoom' =>
            \E n \in 1 .. Len(pending) : CheckPendingTimeouts(n)
      /\ (\E i \in 1 .. Len(pending) : Answer(i) \/ NetworkError(i))
            \/ (\E d \in delayed : RetryDelayed(d))
         => NoIdleRoom'
<1>1. IInv /\ [Next]_vars => [Step]_vars
  <2> SUFFICES ASSUME TypeOK, [Next]_vars, ~(UNCHANGED vars) PROVE Step
    BY DEF IInv
  <2>1. (\E i \in 1 .. Len(pending) : Answer(i) \/ NetworkError(i))
           \/ (\E d \in delayed : RetryDelayed(d)) => NoIdleRoom'
    BY AnswerStep, ErrorStep, RetryStep
  <2>2. ASSUME NEW r \in Requests, RequestForSlot(r) PROVE NoIdleRoom => NoIdleRoom'
    BY <2>2, RequestStep
  <2> QED BY <2>1, <2>2 DEF Next, Timer
<1> QED BY <1>1, IInvInductive, PTL DEF Spec, OnlyTimeoutsLeaveRoom

----------------------------------------------------------------------------
(***************************************************************************)
(* A request that is held is held in one place.  For a pool, with ids of   *)
(* its replies and of its queue:                                           *)
(***************************************************************************)
PendingIds(pool) == {pool.pending[i].id : i \in 1 .. Len(pool.pending)}
QueueIds(pool) == {pool.queue[i] : i \in 1 .. Len(pool.queue)}
Inside(pool) == PendingIds(pool) \cup QueueIds(pool)
DelayedIds == {d.id : d \in delayed}

Distinct(pool) ==
    /\ \A i, j \in 1 .. Len(pool.pending) : pool.pending[i].id = pool.pending[j].id => i = j
    /\ \A i, j \in 1 .. Len(pool.queue) : pool.queue[i] = pool.queue[j] => i = j
    /\ PendingIds(pool) \cap QueueIds(pool) = {}

Once ==
    /\ Distinct(Pool)
    /\ \A d, e \in delayed : d.id = e.id => d = e
    /\ DelayedIds \cap Inside(Pool) = {}
    /\ \A r \in Requests : state[r] = "held" <=> r \in Inside(Pool) \cup DelayedIds

\* The budget of a request that never waited: what it may still be posted.
Budget ==
    /\ \A r \in Requests : state[r] = "new" => posts[r] = 0
    /\ QueueIds(Pool) \subseteq waited
    /\ \A i \in 1 .. Len(pending) : pending[i].id \notin waited =>
            posts[pending[i].id] + pending[i].retriesLeft <= MaxPosts
    /\ \A d \in delayed : d.id \notin waited => posts[d.id] + d.retriesLeft + 1 <= MaxPosts
    /\ BudgetWithoutQueue

\* pool has the replies kept and more behind them.
Extends(kept, pool) ==
    /\ Len(kept) <= Len(pool.pending)
    /\ \A i \in 1 .. Len(kept) : pool.pending[i] = kept[i]

\* enqueueOrSend puts the request, which is nowhere, in one place or drops it.
LEMMA EnqueueOnce ==
  ASSUME NEW pool \in PoolType, NEW r \in Requests, NEW n \in 0 .. MaxRetries,
         Distinct(pool), r \notin Inside(pool)
  PROVE  LET new == EnqueueOrSend(pool, r, n) IN
         /\ Distinct(new)
         /\ Inside(new) = IF Accepted(pool) = "held" THEN Inside(pool) \cup {r} ELSE Inside(pool)
         /\ Extends(pool.pending, new)
         /\ \A i \in Len(pool.pending) + 1 .. Len(new.pending) :
                new.pending[i] = [id |-> r, retriesLeft |-> n]
         /\ new.queue = pool.queue \/ ~Room(new)
<1> DEFINE new == EnqueueOrSend(pool, r, n)
           reply == [id |-> r, retriesLeft |-> n]
<1> USE DEF PoolType
<1>1. CASE Room(pool)
  <2>1. new = [pending |-> Append(pool.pending, reply), queue |-> pool.queue]
    BY <1>1 DEF EnqueueOrSend
  <2>2. /\ Len(new.pending) = Len(pool.pending) + 1
        /\ \A i \in 1 .. Len(pool.pending) : new.pending[i] = pool.pending[i]
        /\ new.pending[Len(pool.pending) + 1] = reply
    <3>1. reply \in Reply
      BY DEF Reply
    <3> QED BY <2>1, <3>1, AppendProperties
  <2>3. reply.id = r /\ Len(pool.pending) \in Nat /\ new.queue = pool.queue
    BY <2>1
  <2> HIDE DEF new, reply
  <2>4. PendingIds(new) = PendingIds(pool) \cup {r} /\ QueueIds(new) = QueueIds(pool)
    BY <2>2, <2>3, SMTT(30) DEF PendingIds, QueueIds
  <2>5. \A i, j \in 1 .. Len(new.pending) : new.pending[i].id = new.pending[j].id => i = j
    BY <2>2, <2>3, SMTT(30) DEF Distinct, Inside, PendingIds
  <2>6. Distinct(new)
    BY <2>3, <2>4, <2>5 DEF Distinct, Inside
  <2>7. Accepted(pool) = "held"
    BY <1>1 DEF Accepted
  <2>8. \A i \in Len(pool.pending) + 1 .. Len(new.pending) : new.pending[i] = reply
    BY <2>2, <2>3
  <2> QED BY <2>2, <2>3, <2>4, <2>6, <2>7, <2>8 DEF Inside, Extends, new, reply
<1>2. CASE ~Room(pool) /\ QueueRoom(pool)
  <2>1. new = [pending |-> pool.pending, queue |-> Append(pool.queue, r)]
    BY <1>2 DEF EnqueueOrSend
  <2>2. /\ Len(new.queue) = Len(pool.queue) + 1
        /\ \A i \in 1 .. Len(pool.queue) : new.queue[i] = pool.queue[i]
        /\ new.queue[Len(pool.queue) + 1] = r
    BY <2>1, AppendProperties
  <2>3. Len(pool.queue) \in Nat /\ Len(pool.pending) \in Nat /\ new.pending = pool.pending
    BY <2>1
  <2> HIDE DEF new
  <2>4. PendingIds(new) = PendingIds(pool) /\ QueueIds(new) = QueueIds(pool) \cup {r}
    BY <2>2, <2>3, SMTT(30) DEF PendingIds, QueueIds
  <2>5. \A i, j \in 1 .. Len(new.queue) : new.queue[i] = new.queue[j] => i = j
    BY <2>2, <2>3 DEF Distinct, Inside, QueueIds
  <2>6. Distinct(new)
    BY <2>3, <2>4, <2>5 DEF Distinct, Inside
  <2>7. Accepted(pool) = "held"
    BY <1>2 DEF Accepted
  <2>8. ~Room(new)
    BY <1>2, <2>3 DEF Room
  <2>9. Extends(pool.pending, new) /\ \A i \in Len(pool.pending) + 1 .. Len(new.pending) : FALSE
    BY <2>3 DEF Extends
  <2> QED BY <2>4, <2>6, <2>7, <2>8, <2>9 DEF Inside, new
<1>3. CASE ~Room(pool) /\ ~QueueRoom(pool)
  <2>1. new = pool
    BY <1>3 DEF EnqueueOrSend
  <2>2. Accepted(pool) = "dropped"
    BY <1>3 DEF Accepted
  <2>3. Len(pool.pending) \in Nat
    OBVIOUS
  <2> HIDE DEF new
  <2> QED BY <2>1, <2>2, <2>3 DEF Extends, new
<1> QED BY <1>1, <1>2, <1>3

\* tryStartNext moves requests from the queue to the replies.
LEMMA StartOnce ==
  ASSUME NEW pool \in PoolType, Distinct(pool)
  PROVE  LET new == TryStartNext(pool) IN
         /\ Distinct(new) /\ Inside(new) = Inside(pool)
         /\ Extends(pool.pending, new)
         /\ \A i \in Len(pool.pending) + 1 .. Len(new.pending) : new.pending[i].id \in QueueIds(pool)
         /\ QueueIds(new) \subseteq QueueIds(pool)
         /\ ~Room(pool) => Len(new.pending) = Len(pool.pending)
<1> USE RequestAssumption DEF PoolType
<1> DEFINE new == TryStartNext(pool)
           k == Started(pool)
           started == [i \in 1 .. k |-> [id |-> pool.queue[i], retriesLeft |-> MaxRetries]]
           rest == SubSeq(pool.queue, k + 1, Len(pool.queue))
           p == Len(pool.pending)
           q == Len(pool.queue)
<1>1. k \in 0 .. q /\ p \in Nat /\ q \in Nat /\ (~Room(pool) => k = 0)
  BY DEF Started, Room
<1> HIDE DEF k
<1>2. started \in Seq(Reply) /\ Len(started) = k
      /\ \A i \in 1 .. k : started[i].id = pool.queue[i]
  <2>1. \A i \in 1 .. k : [id |-> pool.queue[i], retriesLeft |-> MaxRetries] \in Reply
    BY <1>1 DEF Reply
  <2> QED BY <1>1, <2>1
<1>3. rest \in Seq(Requests) /\ Len(rest) = q - k
      /\ \A i \in 1 .. q - k : rest[i] = pool.queue[k + i]
  BY <1>1
<1>4. new = [pending |-> pool.pending \o started, queue |-> rest]
  BY DEF TryStartNext, k
<1> HIDE DEF started, rest
<1>5. /\ Len(new.pending) = p + k
      /\ \A i \in 1 .. p : new.pending[i] = pool.pending[i]
      /\ \A i \in p + 1 .. p + k : new.pending[i].id = pool.queue[i - p]
  <2>1. new.pending = pool.pending \o started /\ pool.pending \in Seq(Reply)
    BY <1>4
  <2>2. /\ Len(new.pending) = p + k
        /\ \A i \in 1 .. p + k : new.pending[i] = IF i <= p THEN pool.pending[i] ELSE started[i - p]
    <3>1. \A t \in Seq(Reply) :
            /\ Len(pool.pending \o t) = Len(pool.pending) + Len(t)
            /\ \A i \in 1 .. Len(pool.pending) + Len(t) :
                  (pool.pending \o t)[i]
                    = IF i <= Len(pool.pending) THEN pool.pending[i] ELSE t[i - Len(pool.pending)]
      BY <2>1, ConcatProperties
    <3> QED BY <1>2, <2>1, <3>1
  <2>3. \A i \in p + 1 .. p + k : i - p \in 1 .. k /\ ~(i <= p) /\ i \in 1 .. p + k
    BY <1>1
  <2>4. \A i \in 1 .. p : i \in 1 .. p + k
    BY <1>1
  <2> QED BY <1>2, <2>2, <2>3, <2>4
<1>6. Len(new.queue) = q - k /\ \A i \in 1 .. q - k : new.queue[i] = pool.queue[k + i]
  BY <1>3, <1>4
<1> HIDE DEF new
<1>7. Extends(pool.pending, new) /\ (~Room(pool) => Len(new.pending) = Len(pool.pending))
  BY <1>1, <1>5 DEF Extends
<1>8. \A i \in Len(pool.pending) + 1 .. Len(new.pending) : new.pending[i].id \in QueueIds(pool)
  BY <1>1, <1>5 DEF QueueIds
<1>9. QueueIds(new) \subseteq QueueIds(pool)
  BY <1>1, <1>6 DEF QueueIds
<1>10. \A i, j \in 1 .. Len(new.pending) : new.pending[i].id = new.pending[j].id => i = j
  <2>1. SUFFICES ASSUME NEW i \in 1 .. Len(new.pending), NEW j \in 1 .. Len(new.pending),
                        new.pending[i].id = new.pending[j].id
                 PROVE  i = j
    OBVIOUS
  <2>2. CASE i <= p /\ j <= p
    BY <1>1, <1>5, <2>1, <2>2 DEF Distinct
  <2>3. CASE i > p /\ j > p
    <3>0. i \in p + 1 .. p + k /\ j \in p + 1 .. p + k
      BY <1>1, <1>5, <2>3
    <3>1. pool.queue[i - p] = pool.queue[j - p] /\ i - p \in 1 .. q /\ j - p \in 1 .. q
      <4>1. i - p \in 1 .. q /\ j - p \in 1 .. q
        BY <1>1, <3>0
      <4> QED BY <1>5, <2>1, <3>0, <4>1
    <3>2. i - p = j - p
      BY <3>1 DEF Distinct
    <3> QED BY <1>1, <3>2
  <2>4. \A a \in 1 .. p, b \in p + 1 .. p + k : new.pending[a].id # new.pending[b].id
    <3>1. SUFFICES ASSUME NEW a \in 1 .. p, NEW b \in p + 1 .. p + k
                   PROVE  pool.pending[a].id # pool.queue[b - p]
      BY <1>5, ZenonT(60)
    <3>2. pool.pending[a].id \in PendingIds(pool) /\ pool.queue[b - p] \in QueueIds(pool)
      BY <1>1 DEF PendingIds, QueueIds
    <3> QED BY <3>2 DEF Distinct
  <2>5. i \in 1 .. p + k /\ j \in 1 .. p + k
    BY <1>5
  <2>6. (i <= p => i \in 1 .. p) /\ (j <= p => j \in 1 .. p)
        /\ (i > p => i \in p + 1 .. p + k) /\ (j > p => j \in p + 1 .. p + k)
    BY <1>1, <2>5
  <2>7. (i <= p \/ i > p) /\ (j <= p \/ j > p)
    BY <1>1, <2>5
  <2>8. CASE i <= p /\ j <= p
    BY <2>1, <2>2, <2>6, <2>8
  <2>9. CASE i > p /\ j > p
    BY <2>1, <2>3, <2>6, <2>9
  <2> QED BY <2>1, <2>4, <2>6, <2>7, <2>8, <2>9
<1>11. \A i, j \in 1 .. Len(new.queue) : new.queue[i] = new.queue[j] => i = j
  <2>1. SUFFICES ASSUME NEW i \in 1 .. q - k, NEW j \in 1 .. q - k,
                        pool.queue[k + i] = pool.queue[k + j]
                 PROVE  i = j
    BY <1>6
  <2>2. k + i = k + j
    <3>1. k + i \in 1 .. q /\ k + j \in 1 .. q
      BY <1>1
    <3> QED BY <1>1, <2>1, <3>1 DEF Distinct
  <2> QED BY <1>1, <2>2
<1>12. Inside(new) = Inside(pool)
  <2>1. Inside(new) \subseteq Inside(pool)
    <3>1. PendingIds(new) \subseteq Inside(pool)
      BY <1>1, <1>5, <1>8, SMTT(30) DEF Inside, PendingIds
    <3> QED BY <1>9, <3>1 DEF Inside
  <2>2. PendingIds(pool) \subseteq PendingIds(new)
    BY <1>1, <1>5 DEF PendingIds
  <2>3. QueueIds(pool) \subseteq Inside(new)
    <3>1. SUFFICES ASSUME NEW i \in 1 .. q PROVE pool.queue[i] \in Inside(new)
      BY DEF QueueIds
    <3>2. CASE i <= k
      <4>0. p + i \in p + 1 .. p + k /\ (p + i) - p = i /\ p + i \in 1 .. p + k
        BY <1>1, <3>2
      <4>1. pool.queue[i] = new.pending[p + i].id /\ p + i \in 1 .. Len(new.pending)
        BY <1>5, <4>0
      <4> QED BY <4>1 DEF Inside, PendingIds
    <3>3. CASE i > k
      <4>1. pool.queue[i] = new.queue[i - k] /\ i - k \in 1 .. Len(new.queue)
        BY <1>1, <1>6, <3>3
      <4> QED BY <4>1 DEF Inside, QueueIds
    <3> QED BY <1>1, <3>2, <3>3
  <2> QED BY <2>1, <2>2, <2>3 DEF Inside
<1>13. PendingIds(new) \cap QueueIds(new) = {}
  <2>1. SUFFICES ASSUME NEW i \in 1 .. p + k, NEW j \in 1 .. q - k,
                        new.pending[i].id = pool.queue[k + j]
                 PROVE  FALSE
    BY <1>5, <1>6 DEF PendingIds, QueueIds
  <2>2. pool.queue[k + j] \in QueueIds(pool) /\ k + j \in 1 .. q
    BY <1>1 DEF QueueIds
  <2>3. CASE i <= p
    <3>1. pool.pending[i].id \in PendingIds(pool) /\ new.pending[i] = pool.pending[i]
      BY <1>1, <1>5, <2>3 DEF PendingIds
    <3> QED BY <2>1, <2>2, <3>1 DEF Distinct
  <2>4. CASE i > p
    <3>1. pool.queue[i - p] = pool.queue[k + j] /\ i - p \in 1 .. k
      BY <1>1, <1>5, <2>1, <2>4
    <3>2. i - p = k + j
      BY <1>1, <2>2, <3>1 DEF Distinct
    <3> QED BY <1>1, <3>1, <3>2
  <2> QED BY <1>1, <2>3, <2>4
<1> QED BY <1>7, <1>8, <1>9, <1>10, <1>11, <1>12, <1>13 DEF Distinct, new

----------------------------------------------------------------------------
\* Replies of the pool taken over in part, at the places ix, keep it distinct.
LEMMA KeptOnce ==
  ASSUME TypeOK, Distinct(Pool), NEW kept \in Seq(Reply),
         NEW ix \in [1 .. Len(kept) -> 1 .. Len(pending)],
         \A i, j \in 1 .. Len(kept) : ix[i] = ix[j] => i = j,
         \A i \in 1 .. Len(kept) : kept[i] = pending[ix[i]]
  PROVE  LET given == [pending |-> kept, queue |-> queue] IN
         /\ Distinct(given)
         /\ PendingIds(given) = {pending[ix[i]].id : i \in 1 .. Len(kept)}
         /\ QueueIds(given) = QueueIds(Pool)
<1> DEFINE given == [pending |-> kept, queue |-> queue]
<1>1. given.pending = kept /\ given.queue = queue /\ Pool.pending = pending /\ Pool.queue = queue
  BY DEF Pool
<1> HIDE DEF given
<1>2. PendingIds(given) = {pending[ix[i]].id : i \in 1 .. Len(kept)} /\ QueueIds(given) = QueueIds(Pool)
  BY <1>1 DEF PendingIds, QueueIds
<1>3. PendingIds(given) \subseteq PendingIds(Pool)
  BY <1>1, <1>2 DEF PendingIds
<1>4. \A i, j \in 1 .. Len(given.pending) : given.pending[i].id = given.pending[j].id => i = j
  BY <1>1 DEF Distinct
<1>5. Distinct(given)
  BY <1>1, <1>2, <1>3, <1>4 DEF Distinct
<1> QED BY <1>2, <1>5 DEF given

\* Without one reply.
LEMMA RemoveOnce ==
  ASSUME TypeOK, Distinct(Pool), NEW i \in 1 .. Len(pending)
  PROVE  LET given == [pending |-> Finished(i), queue |-> queue] IN
         /\ Distinct(given) /\ Inside(given) = Inside(Pool) \ {pending[i].id}
         /\ \A j \in 1 .. Len(Finished(i)) : \E m \in 1 .. Len(pending) : Finished(i)[j] = pending[m]
<1> DEFINE kept == Finished(i)
           given == [pending |-> kept, queue |-> queue]
           ix == [j \in 1 .. Len(pending) - 1 |-> IF j < i THEN j ELSE j + 1]
<1>1. pending \in Seq(Reply) /\ Len(pending) \in Nat
  BY DEF TypeOK
<1>2. kept \in Seq(Reply) /\ Len(kept) = Len(pending) - 1
  BY <1>1, RemoveReply DEF Finished
<1>3. \A j \in 1 .. Len(pending) - 1 : kept[j] = IF j < i THEN pending[j] ELSE pending[j + 1]
  <2> DEFINE front == SubSeq(pending, 1, i - 1)
             back == SubSeq(pending, i + 1, Len(pending))
  <2>1. kept = front \o back
    BY DEF Finished, RemoveAt
  <2>2. front \in Seq(Reply) /\ Len(front) = i - 1 /\ \A j \in 1 .. i - 1 : front[j] = pending[j]
    BY <1>1
  <2>3. /\ back \in Seq(Reply) /\ Len(back) = Len(pending) - i
        /\ \A j \in 1 .. Len(pending) - i : back[j] = pending[i + j]
    BY <1>1
  <2> HIDE DEF front, back
  <2>4. \A j \in 1 .. Len(front) + Len(back) :
           (front \o back)[j] = IF j <= Len(front) THEN front[j] ELSE back[j - Len(front)]
    BY <2>2, <2>3, ConcatProperties
  <2>5. \A j \in 1 .. Len(pending) - 1 :
           kept[j] = IF j <= i - 1 THEN front[j] ELSE back[j - (i - 1)]
    <3>1. (i - 1) + (Len(pending) - i) = Len(pending) - 1
      BY <1>1
    <3> HIDE DEF kept
    <3> QED BY <2>1, <2>2, <2>3, <2>4, <3>1
  <2>6. SUFFICES ASSUME NEW j \in 1 .. Len(pending) - 1
                 PROVE  kept[j] = IF j < i THEN pending[j] ELSE pending[j + 1]
    OBVIOUS
  <2> HIDE DEF kept
  <2>7. CASE j < i
    BY <1>1, <2>2, <2>5, <2>7
  <2>8. CASE ~(j < i)
    <3>1. j - (i - 1) \in 1 .. Len(pending) - i /\ i + (j - (i - 1)) = j + 1 /\ ~(j <= i - 1)
      BY <1>1, <2>8
    <3> QED BY <2>3, <2>5, <2>8, <3>1
  <2> QED BY <2>7, <2>8
<1> HIDE DEF kept
<1>4. /\ ix \in [1 .. Len(kept) -> 1 .. Len(pending)]
      /\ \A j, m \in 1 .. Len(kept) : ix[j] = ix[m] => j = m
      /\ \A j \in 1 .. Len(kept) : kept[j] = pending[ix[j]] /\ ix[j] # i
  BY <1>1, <1>2, <1>3
<1>5. \A m \in 1 .. Len(pending) : m # i => \E j \in 1 .. Len(kept) : ix[j] = m
  <2>1. SUFFICES ASSUME NEW m \in 1 .. Len(pending), m # i
                 PROVE  \E j \in 1 .. Len(kept) : ix[j] = m
    OBVIOUS
  <2>2. CASE m < i
    <3>1. m \in 1 .. Len(kept) /\ ix[m] = m
      BY <1>1, <1>2, <2>2
    <3> QED BY <3>1
  <2>3. CASE m > i
    <3>1. m - 1 \in 1 .. Len(kept) /\ ix[m - 1] = m
      BY <1>1, <1>2, <2>3
    <3> QED BY <3>1
  <2>4. m < i \/ m > i
    BY <1>1, <2>1
  <2> QED BY <2>2, <2>3, <2>4
<1> HIDE DEF ix
<1>6. /\ Distinct(given)
      /\ PendingIds(given) = {pending[ix[j]].id : j \in 1 .. Len(kept)}
      /\ QueueIds(given) = QueueIds(Pool)
  BY <1>2, <1>4, KeptOnce
<1> HIDE DEF given
<1>7. PendingIds(given) = PendingIds(Pool) \ {pending[i].id}
  <2>1. \A j \in 1 .. Len(kept) : pending[ix[j]].id \in PendingIds(Pool) \ {pending[i].id}
    <3>1. SUFFICES ASSUME NEW j \in 1 .. Len(kept)
                   PROVE  /\ pending[ix[j]].id \in PendingIds(Pool)
                          /\ pending[ix[j]].id # pending[i].id
      OBVIOUS
    <3>2. ix[j] \in 1 .. Len(pending) /\ ix[j] # i
      BY <1>4
    <3>3. pending[ix[j]].id # pending[i].id
      BY <3>2 DEF Distinct, Pool
    <3> QED BY <3>2, <3>3 DEF PendingIds, Pool
  <2>2. \A m \in 1 .. Len(pending) : m # i => pending[m].id \in PendingIds(given)
    BY <1>5, <1>6
  <2>3. PendingIds(Pool) = {pending[m].id : m \in 1 .. Len(pending)}
    BY DEF PendingIds, Pool
  <2>4. PendingIds(given) \subseteq PendingIds(Pool) \ {pending[i].id}
    BY <1>6, <2>1
  <2>5. PendingIds(Pool) \ {pending[i].id} \subseteq PendingIds(given)
    BY <2>2, <2>3
  <2> QED BY <2>4, <2>5
<1>8. pending[i].id \notin QueueIds(Pool)
  BY DEF Distinct, PendingIds, Pool
<1>9. \A j \in 1 .. Len(kept) : \E m \in 1 .. Len(pending) : kept[j] = pending[m]
  BY <1>4
<1> QED BY <1>6, <1>7, <1>8, <1>9 DEF Inside, kept, given

\* Without the n oldest.
LEMMA AbortOnce ==
  ASSUME TypeOK, Distinct(Pool), NEW n \in 1 .. Len(pending)
  PROVE  LET kept == SubSeq(pending, n + 1, Len(pending))
             given == [pending |-> kept, queue |-> queue]
         IN  /\ kept \in Seq(Reply) /\ Distinct(given)
             /\ Inside(given) = Inside(Pool) \ {pending[i].id : i \in 1 .. n}
             /\ \A j \in 1 .. Len(kept) : \E m \in 1 .. Len(pending) : kept[j] = pending[m]
<1> DEFINE kept == SubSeq(pending, n + 1, Len(pending))
           given == [pending |-> kept, queue |-> queue]
           ix == [j \in 1 .. Len(pending) - n |-> n + j]
<1>1. pending \in Seq(Reply) /\ Len(pending) \in Nat
  BY DEF TypeOK
<1>2. kept \in Seq(Reply) /\ Len(kept) = Len(pending) - n
      /\ \A j \in 1 .. Len(pending) - n : kept[j] = pending[n + j]
  BY <1>1
<1> HIDE DEF kept
<1>4. /\ ix \in [1 .. Len(kept) -> 1 .. Len(pending)]
      /\ \A j, m \in 1 .. Len(kept) : ix[j] = ix[m] => j = m
      /\ \A j \in 1 .. Len(kept) : kept[j] = pending[ix[j]] /\ ix[j] > n
  BY <1>1, <1>2
<1>5. \A m \in 1 .. Len(pending) : m > n => \E j \in 1 .. Len(kept) : ix[j] = m
  <2>1. SUFFICES ASSUME NEW m \in 1 .. Len(pending), m > n
                 PROVE  \E j \in 1 .. Len(kept) : ix[j] = m
    OBVIOUS
  <2>2. m - n \in 1 .. Len(kept) /\ ix[m - n] = m
    BY <1>1, <1>2, <2>1
  <2> QED BY <2>2
<1> HIDE DEF ix
<1>6. /\ Distinct(given)
      /\ PendingIds(given) = {pending[ix[j]].id : j \in 1 .. Len(kept)}
      /\ QueueIds(given) = QueueIds(Pool)
  BY <1>2, <1>4, KeptOnce
<1> HIDE DEF given
<1> DEFINE gone == {pending[i].id : i \in 1 .. n}
<1>7. PendingIds(given) = PendingIds(Pool) \ gone
  <2>1. \A j \in 1 .. Len(kept) : pending[ix[j]].id \in PendingIds(Pool)
    BY <1>4 DEF PendingIds, Pool
  <2>2. \A j \in 1 .. Len(kept) : pending[ix[j]].id \notin gone
    <3>1. SUFFICES ASSUME NEW j \in 1 .. Len(kept), NEW i \in 1 .. n, pending[ix[j]].id = pending[i].id
                   PROVE  FALSE
      OBVIOUS
    <3>2. ix[j] \in 1 .. Len(pending) /\ ix[j] > n /\ i \in 1 .. Len(pending) /\ i <= n
      BY <1>1, <1>4
    <3>3. ix[j] = i
      BY <3>1, <3>2 DEF Distinct, Pool
    <3> QED BY <3>2, <3>3
  <2>3. \A m \in 1 .. Len(pending) : m > n => pending[m].id \in PendingIds(given)
    BY <1>5, <1>6
  <2>4. \A m \in 1 .. Len(pending) : m > n \/ m \in 1 .. n
    BY <1>1
  <2>5. PendingIds(Pool) = {pending[m].id : m \in 1 .. Len(pending)}
    BY DEF PendingIds, Pool
  <2>6. PendingIds(given) \subseteq PendingIds(Pool) \ gone
    BY <1>6, <2>1, <2>2
  <2>7. PendingIds(Pool) \ gone \subseteq PendingIds(given)
    <3>1. SUFFICES ASSUME NEW m \in 1 .. Len(pending), pending[m].id \notin gone
                   PROVE  pending[m].id \in PendingIds(given)
      BY <2>5
    <3>2. ~(m \in 1 .. n)
      BY <3>1
    <3> QED BY <2>3, <2>4, <3>2
  <2> QED BY <2>6, <2>7
<1>8. gone \cap QueueIds(Pool) = {}
  <2>1. gone \subseteq PendingIds(Pool)
    BY <1>1 DEF PendingIds, Pool
  <2> QED BY <2>1 DEF Distinct
<1>9. \A j \in 1 .. Len(kept) : \E m \in 1 .. Len(pending) : kept[j] = pending[m]
  BY <1>4
<1> HIDE DEF gone
<1>10. Inside(given) = Inside(Pool) \ gone
  BY <1>6, <1>7, <1>8 DEF Inside
<1> QED BY <1>2, <1>6, <1>9, <1>10 DEF gone, kept, given

\* The budget is kept by a handler that posts within it, if the replies it posts
\* and the retries it delays are of requests that are nowhere else.
LEMMA BudgetLemma ==
  ASSUME TypeOK, Budget, NEW kept \in Seq(Reply), NEW pool \in PoolType, Becomes(kept, pool),
         Distinct(pool), Extends(kept, pool),
         \A i \in 1 .. Len(kept) : \E m \in 1 .. Len(pending) : kept[i] = pending[m],
         \A i \in Len(kept) + 1 .. Len(pool.pending) :
            \/ pool.pending[i].id \in waited
            \/ posts[pool.pending[i].id] + pool.pending[i].retriesLeft + 1 <= MaxPosts,
         delayed' \subseteq Reply,
         \A d \in delayed' :
            /\ d.id \notin Inside(pool)
            /\ d \in delayed \/ d.id \in waited \/ posts[d.id] + d.retriesLeft + 1 <= MaxPosts,
         \A r \in Requests : state'[r] = "new" => state[r] = "new" /\ r \notin Inside(pool)
  PROVE  Budget'
<1> USE RequestAssumption
<1> DEFINE Posted == {pool.pending[i].id : i \in Len(kept) + 1 .. Len(pool.pending)}
<1>1. /\ pool.pending \in Seq(Reply) /\ pool.queue \in Seq(Requests)
      /\ Len(kept) \in Nat /\ Len(pool.pending) \in Nat
      /\ Pool' = pool /\ pending' = pool.pending
      /\ MaxPosts \in Nat /\ PostCap = MaxPosts + 1
  <2>1. pool.pending \in Seq(Reply) /\ pool.queue \in Seq(Requests)
    BY DEF PoolType
  <2>2. Len(kept) \in Nat /\ Len(pool.pending) \in Nat
    BY <2>1
  <2>3. Pool' = pool /\ pending' = pool.pending
    BY BecomesLemma DEF Becomes
  <2> QED BY <2>1, <2>2, <2>3 DEF MaxPosts, PostCap
<1>2. waited' = waited \cup QueueIds(pool)
  BY DEF Becomes, QueueIds
<1>3. \A i \in 1 .. Len(pool.pending) :
         /\ pool.pending[i].id \in Requests /\ pool.pending[i].retriesLeft \in Nat
         /\ pool.pending[i].id \in Inside(pool)
  <2>1. \A i \in 1 .. Len(pool.pending) : pool.pending[i] \in Reply
    BY <1>1
  <2> QED BY <2>1 DEF Reply, Inside, PendingIds
<1>4. \A r \in Requests :
         /\ posts[r] \in 0 .. PostCap
         /\ r \notin Posted => posts'[r] = posts[r]
         /\ posts'[r] \in {posts[r], posts[r] + 1}
  BY DEF Becomes, TypeOK
<1>5. Posted \subseteq Inside(pool)
  BY <1>1 DEF Inside, PendingIds
<1>6. \A r \in Posted : r \in Requests /\ (r \in waited \/ posts[r] + 1 <= MaxPosts)
  BY <1>1, <1>3, <1>4, SMTT(60)
<1>7. \A i \in 1 .. Len(kept) : pool.pending[i].id \notin Posted
  <2>1. SUFFICES ASSUME NEW i \in 1 .. Len(kept), NEW j \in Len(kept) + 1 .. Len(pool.pending),
                        pool.pending[i].id = pool.pending[j].id
                 PROVE  FALSE
    OBVIOUS
  <2>2. i \in 1 .. Len(pool.pending) /\ j \in 1 .. Len(pool.pending) /\ i # j
    BY <1>1 DEF Extends
  <2> QED BY <2>1, <2>2 DEF Distinct
<1> HIDE DEF Posted
<1>8. \A r \in Requests : state'[r] = "new" => posts'[r] = 0
  BY <1>4, <1>5 DEF Budget
<1>9. QueueIds(Pool)' \subseteq waited'
  BY <1>1, <1>2 DEF QueueIds
<1>10. ASSUME NEW i \in 1 .. Len(pending'), pending'[i].id \notin waited'
       PROVE  posts'[pending'[i].id] + pending'[i].retriesLeft <= MaxPosts
  <2>1. CASE i <= Len(kept)
    <3>1. i \in 1 .. Len(kept) /\ pool.pending[i] = kept[i]
      BY <1>1, <2>1 DEF Extends
    <3>2. PICK m \in 1 .. Len(pending) : kept[i] = pending[m]
      BY <3>1
    <3>3. posts'[kept[i].id] = posts[kept[i].id]
      BY <1>1, <1>3, <1>4, <1>7, <3>1
    <3>4. posts[pending[m].id] + pending[m].retriesLeft <= MaxPosts
      BY <1>1, <1>2, <1>10, <3>1, <3>2 DEF Budget
    <3> QED BY <1>1, <3>1, <3>2, <3>3, <3>4
  <2>2. CASE i > Len(kept)
    <3>1. i \in Len(kept) + 1 .. Len(pool.pending)
      BY <1>1, <2>2
    <3>2. posts[pool.pending[i].id] + pool.pending[i].retriesLeft + 1 <= MaxPosts
      BY <1>1, <1>2, <1>10, <3>1
    <3>3. /\ pool.pending[i].id \in Requests /\ pool.pending[i].retriesLeft \in Nat
          /\ posts[pool.pending[i].id] \in Nat
          /\ posts'[pool.pending[i].id] \in {posts[pool.pending[i].id], posts[pool.pending[i].id] + 1}
      BY <1>1, <1>3, <1>4
    <3>4. posts'[pool.pending[i].id] + pool.pending[i].retriesLeft <= MaxPosts
      <4>1. MaxPosts \in Nat
        BY <1>1
      <4> QED BY <3>2, <3>3, <4>1, SMTT(30)
    <3> QED BY <1>1, <3>4
  <2> QED BY <1>1, <2>1, <2>2
<1>11. ASSUME NEW d \in delayed', d.id \notin waited'
       PROVE  posts'[d.id] + d.retriesLeft + 1 <= MaxPosts
  <2>1. d.id \in Requests
    BY DEF Reply
  <2>2. posts'[d.id] = posts[d.id]
    BY <1>4, <1>5, <2>1
  <2> QED BY <1>2, <1>11, <2>2 DEF Budget
<1>12. BudgetWithoutQueue'
  <2>1. SUFFICES ASSUME NEW r \in Requests, r \notin waited' PROVE posts'[r] <= MaxPosts
    BY DEF BudgetWithoutQueue
  <2>2. r \notin waited /\ posts[r] <= MaxPosts
    BY <1>2, <2>1 DEF Budget, BudgetWithoutQueue
  <2> QED BY <1>1, <1>4, <1>6, <2>2
<1> QED BY <1>8, <1>9, <1>10, <1>11, <1>12 DEF Budget

\* enqueueOrSend followed by tryStartNext posts the request, or requests that
\* waited before.
LEMMA EnqueueStart ==
  ASSUME NEW pool \in PoolType, NEW r \in Requests, NEW n \in 0 .. MaxRetries,
         Distinct(pool), r \notin Inside(pool)
  PROVE  LET new == TryStartNext(EnqueueOrSend(pool, r, n)) IN
         /\ new \in PoolType /\ Distinct(new)
         /\ Inside(new) = IF Accepted(pool) = "held" THEN Inside(pool) \cup {r} ELSE Inside(pool)
         /\ Extends(pool.pending, new)
         /\ \A i \in Len(pool.pending) + 1 .. Len(new.pending) :
                \/ new.pending[i] = [id |-> r, retriesLeft |-> n]
                \/ new.pending[i].id \in QueueIds(pool)
<1> DEFINE mid == EnqueueOrSend(pool, r, n)
           new == TryStartNext(mid)
<1>1. /\ mid \in PoolType /\ Distinct(mid)
      /\ Inside(mid) = IF Accepted(pool) = "held" THEN Inside(pool) \cup {r} ELSE Inside(pool)
      /\ Extends(pool.pending, mid)
      /\ \A i \in Len(pool.pending) + 1 .. Len(mid.pending) :
             mid.pending[i] = [id |-> r, retriesLeft |-> n]
      /\ mid.queue = pool.queue \/ ~Room(mid)
  BY EnqueueOnce, EnqueueLemma
<1> HIDE DEF mid
<1>2. /\ new \in PoolType /\ Distinct(new) /\ Inside(new) = Inside(mid)
      /\ Extends(mid.pending, new)
      /\ \A i \in Len(mid.pending) + 1 .. Len(new.pending) : new.pending[i].id \in QueueIds(mid)
      /\ ~Room(mid) => Len(new.pending) = Len(mid.pending)
  BY <1>1, StartOnce, StartLemma
<1> HIDE DEF new
<1>3. Len(pool.pending) \in Nat /\ Len(mid.pending) \in Nat /\ Len(new.pending) \in Nat
  BY <1>1, <1>2 DEF PoolType
<1>4. Extends(pool.pending, new)
  <2>1. Len(pool.pending) <= Len(mid.pending) /\ Len(mid.pending) <= Len(new.pending)
    BY <1>1, <1>2 DEF Extends
  <2>2. \A i \in 1 .. Len(pool.pending) : i \in 1 .. Len(mid.pending)
    BY <1>3, <2>1
  <2>3. \A i \in 1 .. Len(pool.pending) : new.pending[i] = pool.pending[i]
    BY <1>1, <1>2, <2>2 DEF Extends
  <2> QED BY <1>3, <2>1, <2>3 DEF Extends
<1>5. ASSUME NEW i \in Len(pool.pending) + 1 .. Len(new.pending)
      PROVE  \/ new.pending[i] = [id |-> r, retriesLeft |-> n]
             \/ new.pending[i].id \in QueueIds(pool)
  <2>1. CASE i <= Len(mid.pending)
    <3>1. i \in 1 .. Len(mid.pending) /\ i \in Len(pool.pending) + 1 .. Len(mid.pending)
      BY <1>3, <2>1
    <3>2. new.pending[i] = mid.pending[i]
      BY <1>2, <3>1 DEF Extends
    <3> QED BY <1>1, <3>1, <3>2
  <2>2. CASE i > Len(mid.pending)
    <3>1. i \in Len(mid.pending) + 1 .. Len(new.pending) /\ Len(new.pending) # Len(mid.pending)
      BY <1>3, <2>2
    <3>2. mid.queue = pool.queue
      BY <1>1, <1>2, <3>1
    <3> QED BY <1>2, <3>1, <3>2 DEF QueueIds
  <2> QED BY <1>3, <2>1, <2>2
<1> QED BY <1>1, <1>2, <1>4, <1>5 DEF mid, new

\* Once in terms of the pool a handler leaves.
LEMMA OnceLemma ==
  ASSUME NEW pool, Pool' = pool, Distinct(pool),
         \A d, e \in delayed' : d.id = e.id => d = e,
         DelayedIds' \cap Inside(pool) = {},
         \A r \in Requests : state'[r] = "held" <=> r \in Inside(pool) \cup DelayedIds'
  PROVE  Once'
<1>1. PendingIds(Pool)' = PendingIds(pool) /\ QueueIds(Pool)' = QueueIds(pool)
  BY DEF PendingIds, QueueIds
<1>2. Distinct(Pool)' /\ Inside(Pool)' = Inside(pool)
  BY <1>1 DEF Distinct, Inside
<1> QED BY <1>2 DEF Once

\* A reply and its request.
LEMMA PendingLemma ==
  ASSUME TypeOK, Once, NEW i \in 1 .. Len(pending)
  PROVE  /\ pending[i] \in Reply /\ pending[i].id \in Requests
         /\ pending[i].retriesLeft \in 0 .. MaxRetries
         /\ pending[i].id \in Inside(Pool) /\ pending[i].id \notin DelayedIds
         /\ state[pending[i].id] = "held"
<1>1. pending[i] \in Reply
  BY DEF TypeOK
<1>2. pending[i].id \in Inside(Pool)
  BY DEF Inside, PendingIds, Pool
<1> QED BY <1>1, <1>2 DEF Once, Reply

\* A new request: nowhere before, in one place afterwards or dropped.
LEMMA RequestOnce ==
  ASSUME TypeOK, Once, Budget, NEW r \in Requests, RequestForSlot(r)
  PROVE  Once' /\ Budget'
<1> USE RequestAssumption
<1> DEFINE pool == EnqueueOrSend(Pool, r, MaxRetries)
<1>1. r \notin Inside(Pool) /\ r \notin DelayedIds /\ state[r] = "new" /\ posts[r] = 0
  BY DEF RequestForSlot, Once, Budget
<1>2. Pool \in PoolType /\ Pool.pending = pending /\ MaxRetries \in 0 .. MaxRetries
  BY PoolLemma DEF Pool
<1>3. /\ pool \in PoolType /\ Distinct(pool) /\ Extends(pending, pool)
      /\ Inside(pool) = IF Accepted(Pool) = "held" THEN Inside(Pool) \cup {r} ELSE Inside(Pool)
      /\ \A i \in Len(pending) + 1 .. Len(pool.pending) :
             pool.pending[i] = [id |-> r, retriesLeft |-> MaxRetries]
  BY <1>1, <1>2, EnqueueOnce, EnqueueLemma DEF Once
<1>4. Becomes(pending, pool) /\ delayed' = delayed /\ state' = [state EXCEPT ![r] = Accepted(Pool)]
  BY DEF RequestForSlot, Ends
<1>5. Accepted(Pool) \in {"held", "dropped"}
  BY DEF Accepted
<1> HIDE DEF pool
<1>6. Pool' = pool
  BY <1>2, <1>3, <1>4, BecomesLemma DEF TypeOK
<1>7. DelayedIds' = DelayedIds /\ DelayedIds \cap Inside(pool) = {}
  BY <1>1, <1>3, <1>4 DEF Once, DelayedIds
<1>8. \A s \in Requests : state'[s] = "held" <=> s \in Inside(pool) \cup DelayedIds'
  BY <1>1, <1>3, <1>4, <1>5, <1>7 DEF Once, TypeOK
<1>9. Once'
  BY <1>3, <1>4, <1>6, <1>7, <1>8, OnceLemma DEF Once
<1>10. \A i \in Len(pending) + 1 .. Len(pool.pending) :
          posts[pool.pending[i].id] + pool.pending[i].retriesLeft + 1 <= MaxPosts
  BY <1>1, <1>3 DEF MaxPosts
<1>11. \A s \in Requests : state'[s] = "new" => state[s] = "new" /\ s \notin Inside(pool)
  BY <1>4, <1>5, <1>8 DEF TypeOK
<1>12. \A d \in delayed' : d.id \notin Inside(pool)
  BY <1>4, <1>7 DEF DelayedIds
<1>13. pending \in Seq(Reply) /\ delayed' \subseteq Reply
  BY <1>4 DEF TypeOK
<1>14. Budget'
  BY <1>3, <1>4, <1>10, <1>11, <1>12, <1>13, BudgetLemma
<1> QED BY <1>9, <1>14

\* An answered request is nowhere, those started in its place had waited.
LEMMA AnswerOnce ==
  ASSUME TypeOK, Once, Budget, NEW i \in 1 .. Len(pending), Answer(i)
  PROVE  Once' /\ Budget'
<1> DEFINE kept == Finished(i)
           given == [pending |-> kept, queue |-> queue]
           pool == TryStartNext(given)
           id == pending[i].id
<1>1. id \in Requests /\ id \in Inside(Pool) /\ id \notin DelayedIds /\ state[id] = "held"
  BY PendingLemma
<1>2. kept \in Seq(Reply)
  BY RemoveReply DEF TypeOK, Finished
<1>3. /\ Distinct(given) /\ Inside(given) = Inside(Pool) \ {id}
      /\ \A j \in 1 .. Len(kept) : \E m \in 1 .. Len(pending) : kept[j] = pending[m]
  BY RemoveOnce DEF Once
<1>4. [Pool EXCEPT !.pending = kept] = given /\ given \in PoolType
  BY <1>2, PoolLemma
<1>5. Becomes(kept, pool) /\ delayed' = delayed
      /\ (state' = [state EXCEPT ![id] = "answered"] \/ state' = [state EXCEPT ![id] = "failed"])
  BY <1>4 DEF Answer, Ends
<1>6. given.pending = kept /\ QueueIds(given) = QueueIds(Pool)
  BY DEF QueueIds, Pool
<1> HIDE DEF kept, given, id
<1>7. /\ pool \in PoolType /\ Distinct(pool) /\ Inside(pool) = Inside(Pool) \ {id}
      /\ Extends(kept, pool)
      /\ \A j \in Len(kept) + 1 .. Len(pool.pending) : pool.pending[j].id \in waited
  BY <1>3, <1>4, <1>6, StartOnce, StartLemma DEF Budget
<1> HIDE DEF pool
<1>8. Pool' = pool
  BY <1>2, <1>5, <1>7, BecomesLemma
<1>9. DelayedIds' = DelayedIds /\ DelayedIds \cap Inside(pool) = {}
  BY <1>5, <1>7 DEF Once, DelayedIds
<1>10. \A s \in Requests : state'[s] = "held" <=> s \in Inside(pool) \cup DelayedIds'
  BY <1>1, <1>5, <1>7, <1>9 DEF Once, TypeOK
<1>11. Once'
  BY <1>5, <1>7, <1>8, <1>9, <1>10, OnceLemma DEF Once
<1>12. \A s \in Requests : state'[s] = "new" => state[s] = "new" /\ s \notin Inside(pool)
  BY <1>1, <1>5, <1>10 DEF TypeOK
<1>13. \A d \in delayed' : d.id \notin Inside(pool)
  BY <1>5, <1>9 DEF DelayedIds
<1>14. delayed' \subseteq Reply
  BY <1>5 DEF TypeOK
<1>15. Budget'
  BY <1>2, <1>3, <1>5, <1>7, <1>12, <1>13, <1>14, BudgetLemma
<1> QED BY <1>11, <1>15

\* A failed request is posted or queued again with one retry less, or ends.
LEMMA ErrorOnce ==
  ASSUME TypeOK, Once, Budget, NEW i \in 1 .. Len(pending), NetworkError(i)
  PROVE  Once' /\ Budget'
<1> USE RequestAssumption
<1> DEFINE kept == Finished(i)
           given == [pending |-> kept, queue |-> queue]
           id == pending[i].id
           left == pending[i].retriesLeft
<1>1. /\ id \in Requests /\ id \in Inside(Pool) /\ id \notin DelayedIds /\ state[id] = "held"
      /\ left \in 0 .. MaxRetries
  BY PendingLemma
<1>2. kept \in Seq(Reply)
  BY RemoveReply DEF TypeOK, Finished
<1>3. /\ Distinct(given) /\ Inside(given) = Inside(Pool) \ {id}
      /\ \A j \in 1 .. Len(kept) : \E m \in 1 .. Len(pending) : kept[j] = pending[m]
  BY RemoveOnce DEF Once
<1>4. [Pool EXCEPT !.pending = kept] = given /\ given \in PoolType
  BY <1>2, PoolLemma
<1>5. \/ /\ left > 0
         /\ Becomes(kept, TryStartNext(EnqueueOrSend(given, id, left - 1)))
         /\ state' = [state EXCEPT ![id] = Accepted(given)]
      \/ /\ Becomes(kept, TryStartNext(given))
         /\ state' = [state EXCEPT ![id] = "failed"]
  BY <1>4 DEF NetworkError, Ends
<1>6. /\ delayed' = delayed /\ given.pending = kept /\ QueueIds(given) = QueueIds(Pool)
      /\ id \notin waited => posts[id] + left <= MaxPosts
  BY DEF QueueIds, Pool, NetworkError, Budget
<1>7. posts[id] \in Nat /\ Accepted(given) \in {"held", "dropped"}
  BY <1>1 DEF TypeOK, Accepted
<1> HIDE DEF kept, given, id, left
<1>8. PICK pool \in PoolType, last \in {"held", "dropped", "failed"} :
         /\ Becomes(kept, pool) /\ state' = [state EXCEPT ![id] = last]
         /\ Distinct(pool) /\ Extends(kept, pool)
         /\ Inside(pool) = IF last = "held" THEN Inside(Pool) ELSE Inside(Pool) \ {id}
         /\ \A j \in Len(kept) + 1 .. Len(pool.pending) :
                \/ pool.pending[j].id \in waited
                \/ posts[pool.pending[j].id] + pool.pending[j].retriesLeft + 1 <= MaxPosts
  <2>1. CASE /\ left > 0
             /\ Becomes(kept, TryStartNext(EnqueueOrSend(given, id, left - 1)))
             /\ state' = [state EXCEPT ![id] = Accepted(given)]
    <3> DEFINE pool == TryStartNext(EnqueueOrSend(given, id, left - 1))
    <3>1. left - 1 \in 0 .. MaxRetries /\ id \notin Inside(given)
      BY <1>1, <1>3, <2>1
    <3>2. /\ pool \in PoolType /\ Distinct(pool)
          /\ Inside(pool) = IF Accepted(given) = "held" THEN Inside(given) \cup {id} ELSE Inside(given)
          /\ Extends(kept, pool)
          /\ \A j \in Len(kept) + 1 .. Len(pool.pending) :
                \/ pool.pending[j] = [id |-> id, retriesLeft |-> left - 1]
                \/ pool.pending[j].id \in QueueIds(given)
      <4>1. given \in PoolType /\ Distinct(given) /\ kept = given.pending
        BY <1>3, <1>4, <1>6
      <4>2. /\ pool \in PoolType /\ Distinct(pool)
            /\ Inside(pool) = IF Accepted(given) = "held" THEN Inside(given) \cup {id} ELSE Inside(given)
            /\ Extends(given.pending, pool)
            /\ \A j \in Len(given.pending) + 1 .. Len(pool.pending) :
                  \/ pool.pending[j] = [id |-> id, retriesLeft |-> left - 1]
                  \/ pool.pending[j].id \in QueueIds(given)
        BY <1>1, <3>1, <4>1, EnqueueStart
      <4> QED BY <4>1, <4>2
    <3>3. Becomes(kept, pool)
      BY <2>1
    <3> HIDE DEF pool
    <3>4. Inside(pool) = IF Accepted(given) = "held" THEN Inside(Pool) ELSE Inside(Pool) \ {id}
      BY <1>1, <1>3, <3>2
    <3>5. \A j \in Len(kept) + 1 .. Len(pool.pending) :
             \/ pool.pending[j].id \in waited
             \/ posts[pool.pending[j].id] + pool.pending[j].retriesLeft + 1 <= MaxPosts
      <4>1. id \notin waited => posts[id] + (left - 1) + 1 <= MaxPosts
        BY <1>1, <1>6, <1>7
      <4> QED BY <1>6, <3>2, <4>1 DEF Budget
    <3> QED BY <1>7, <2>1, <3>2, <3>3, <3>4, <3>5
  <2>2. CASE /\ Becomes(kept, TryStartNext(given))
             /\ state' = [state EXCEPT ![id] = "failed"]
    <3> DEFINE pool == TryStartNext(given)
    <3>1. /\ pool \in PoolType /\ Distinct(pool) /\ Inside(pool) = Inside(Pool) \ {id}
          /\ Extends(kept, pool)
          /\ \A j \in Len(kept) + 1 .. Len(pool.pending) : pool.pending[j].id \in waited
      BY <1>3, <1>4, <1>6, StartOnce, StartLemma DEF Budget
    <3>2. Becomes(kept, pool)
      BY <2>2
    <3> HIDE DEF pool
    <3> QED BY <2>2, <3>1, <3>2
  <2> QED BY <1>5, <2>1, <2>2
<1>9. Pool' = pool
  BY <1>2, <1>8, BecomesLemma
<1>10. DelayedIds' = DelayedIds /\ DelayedIds \cap Inside(pool) = {}
  BY <1>6, <1>8 DEF Once, DelayedIds
<1>11. \A s \in Requests : state'[s] = "held" <=> s \in Inside(pool) \cup DelayedIds'
  BY <1>1, <1>8, <1>10 DEF Once, TypeOK
<1>12. Once'
  BY <1>6, <1>8, <1>9, <1>10, <1>11, OnceLemma DEF Once
<1>13. \A s \in Requests : state'[s] = "new" => state[s] = "new" /\ s \notin Inside(pool)
  BY <1>1, <1>8, <1>11 DEF TypeOK
<1>14. (\A d \in delayed' : d.id \notin Inside(pool)) /\ delayed' \subseteq Reply
  BY <1>6, <1>10 DEF DelayedIds, TypeOK
<1>15. Budget'
  BY <1>2, <1>3, <1>6, <1>8, <1>13, <1>14, BudgetLemma
<1> QED BY <1>12, <1>15

\* An aborted request waits for its timer with one retry less, or has failed.
LEMMA TimeoutOnce ==
  ASSUME TypeOK, Once, Budget, NEW n \in 1 .. Len(pending), CheckPendingTimeouts(n)
  PROVE  Once' /\ Budget'
<1> USE RequestAssumption
<1> DEFINE kept == SubSeq(pending, n + 1, Len(pending))
           given == [pending |-> kept, queue |-> queue]
           toAbort == {pending[i] : i \in 1 .. n}
           gone == {pending[i].id : i \in 1 .. n}
           more == {[r EXCEPT !.retriesLeft = @ - 1] : r \in {s \in toAbort : s.retriesLeft > 0}}
<1>1. /\ kept \in Seq(Reply) /\ Distinct(given) /\ Inside(given) = Inside(Pool) \ gone
      /\ \A j \in 1 .. Len(kept) : \E m \in 1 .. Len(pending) : kept[j] = pending[m]
  BY AbortOnce DEF Once
<1>2. [Pool EXCEPT !.pending = kept] = given /\ given \in PoolType
  BY <1>1, PoolLemma
<1>3. /\ delayed' = delayed \cup more
      /\ state' = [r \in Requests |->
                      IF [id |-> r, retriesLeft |-> 0] \in toAbort THEN "failed" ELSE state[r]]
      /\ Becomes(kept, given)
  BY <1>2 DEF CheckPendingTimeouts
<1>4. \A i \in 1 .. n : i \in 1 .. Len(pending)
  BY DEF TypeOK
<1>5. \A a \in toAbort :
         /\ a \in Reply /\ a.id \in Requests /\ a.retriesLeft \in 0 .. MaxRetries /\ a.id \in gone
         /\ a.id \in Inside(Pool) /\ a.id \notin DelayedIds /\ state[a.id] = "held"
         /\ a.id \notin waited => posts[a.id] + a.retriesLeft <= MaxPosts
  BY <1>4, PendingLemma DEF Budget
<1>6. \A a, b \in toAbort : a.id = b.id => a = b
  BY <1>4 DEF Once, Distinct, Pool
<1>7. \A s \in gone : \E a \in toAbort : a.id = s
  OBVIOUS
<1>8. given.pending = kept
  OBVIOUS
<1> HIDE DEF kept, given, toAbort, gone
<1>9. \A a \in toAbort : a.retriesLeft > 0 =>
         \E e \in more : e.id = a.id
  <2>1. \A a \in toAbort : [a EXCEPT !.retriesLeft = @ - 1].id = a.id
    BY <1>5 DEF Reply
  <2> QED BY <2>1
<1>10. \A e \in more : \E a \in toAbort :
          /\ a.retriesLeft > 0 /\ e = [id |-> a.id, retriesLeft |-> a.retriesLeft - 1]
          /\ e \in Reply
  <2>1. \A a \in toAbort : a.retriesLeft > 0 =>
           /\ [a EXCEPT !.retriesLeft = @ - 1] = [id |-> a.id, retriesLeft |-> a.retriesLeft - 1]
           /\ [a EXCEPT !.retriesLeft = @ - 1] \in Reply
    BY <1>5 DEF Reply
  <2> QED BY <2>1
<1> HIDE DEF more
<1>11. \A e \in more : e \in Reply /\ e.id \in gone /\ e.id \notin DelayedIds
  BY <1>5, <1>10
<1>12. \A d, e \in delayed' : d.id = e.id => d = e
  <2>1. \A d, e \in more : d.id = e.id => d = e
    BY <1>6, <1>10
  <2>2. \A d \in delayed, e \in more : d.id # e.id
    BY <1>11 DEF DelayedIds
  <2>3. \A d, e \in delayed : d.id = e.id => d = e
    BY DEF Once
  <2> QED BY <1>3, <2>1, <2>2, <2>3
<1>13. DelayedIds' = DelayedIds \cup {e.id : e \in more}
  BY <1>3 DEF DelayedIds
<1>14. DelayedIds' \cap Inside(given) = {}
  <2>1. DelayedIds \cap Inside(Pool) = {}
    BY DEF Once
  <2> QED BY <1>1, <1>11, <1>13, <2>1
<1>15. ASSUME NEW s \in Requests
       PROVE  state'[s] = "held" <=> s \in Inside(given) \cup DelayedIds'
  <2>1. state[s] = "held" <=> s \in Inside(Pool) \cup DelayedIds
    BY DEF Once
  <2>2. CASE s \in gone
    <3>1. PICK a \in toAbort : a.id = s
      BY <1>7, <2>2
    <3>2. CASE a.retriesLeft > 0
      <4>1. [id |-> s, retriesLeft |-> 0] \notin toAbort
        BY <1>6, <3>1, <3>2
      <4>2. state'[s] = "held"
        BY <1>3, <1>5, <3>1, <4>1
      <4> QED BY <1>9, <1>13, <3>1, <3>2, <4>2
    <3>3. CASE a.retriesLeft = 0
      <4>1. a = [id |-> s, retriesLeft |-> 0]
        BY <1>5, <3>1, <3>3 DEF Reply
      <4>2. state'[s] = "failed"
        BY <1>3, <3>1, <4>1
      <4>3. \A e \in more : e.id # s
        BY <1>6, <1>10, <3>1, <3>3
      <4>4. s \notin DelayedIds'
        BY <1>5, <1>13, <3>1, <4>3
      <4> QED BY <1>1, <2>2, <4>2, <4>4
    <3> QED BY <1>5, <3>2, <3>3
  <2>3. CASE s \notin gone
    <3>1. \A a \in toAbort : a.id # s
      BY <1>5, <2>3
    <3>2. state'[s] = state[s]
      BY <1>3, <3>1
    <3>3. s \in DelayedIds' <=> s \in DelayedIds
      BY <1>11, <1>13, <2>3
    <3> QED BY <1>1, <2>1, <2>3, <3>2, <3>3
  <2> QED BY <2>2, <2>3
<1>16. Pool' = given
  BY <1>2, <1>3, BecomesLemma
<1>17. Once'
  BY <1>1, <1>12, <1>14, <1>15, <1>16, OnceLemma
<1>18. \A s \in Requests : state'[s] = "new" => state[s] = "new" /\ s \notin Inside(given)
  BY <1>3, <1>15
<1>19. \A d \in delayed' :
          /\ d.id \notin Inside(given)
          /\ d \in delayed \/ d.id \in waited \/ posts[d.id] + d.retriesLeft + 1 <= MaxPosts
  <2>1. \A d \in delayed' : d.id \in DelayedIds'
    BY DEF DelayedIds
  <2>2. \A e \in more : e.id \in waited \/ posts[e.id] + e.retriesLeft + 1 <= MaxPosts
    <3>1. SUFFICES ASSUME NEW e \in more, e.id \notin waited
                   PROVE  posts[e.id] + e.retriesLeft + 1 <= MaxPosts
      OBVIOUS
    <3>2. PICK a \in toAbort : e = [id |-> a.id, retriesLeft |-> a.retriesLeft - 1]
      BY <1>10
    <3>3. posts[a.id] \in Nat /\ a.retriesLeft \in Nat
      BY <1>5 DEF TypeOK
    <3>4. posts[a.id] + a.retriesLeft <= MaxPosts
      BY <1>5, <3>1, <3>2
    <3> QED BY <3>2, <3>3, <3>4 DEF MaxPosts
  <2> QED BY <1>3, <1>14, <2>1, <2>2
<1>20. delayed' \subseteq Reply
  BY <1>3, <1>11 DEF TypeOK
<1>21. Extends(kept, given) /\ \A i \in Len(kept) + 1 .. Len(given.pending) : FALSE
  BY <1>1, <1>8 DEF Extends
<1>22. Budget'
  BY <1>1, <1>2, <1>3, <1>18, <1>19, <1>20, <1>21, BudgetLemma
<1> QED BY <1>17, <1>22

\* A request whose timer fires leaves the timers for the pool, or is dropped.
LEMMA RetryOnce ==
  ASSUME TypeOK, Once, Budget, NEW d \in delayed, RetryDelayed(d)
  PROVE  Once' /\ Budget'
<1> USE RequestAssumption
<1> DEFINE pool == TryStartNext(EnqueueOrSend(Pool, d.id, d.retriesLeft))
<1>1. /\ d.id \in Requests /\ d.retriesLeft \in 0 .. MaxRetries /\ d \in Reply
      /\ d.id \in DelayedIds /\ d.id \notin Inside(Pool) /\ state[d.id] = "held"
  BY DEF TypeOK, Reply, Once, DelayedIds
<1>2. Pool \in PoolType /\ Pool.pending = pending /\ pending \in Seq(Reply)
  BY PoolLemma DEF Pool, TypeOK
<1>3. /\ pool \in PoolType /\ Distinct(pool) /\ Extends(Pool.pending, pool)
      /\ Inside(pool) = IF Accepted(Pool) = "held" THEN Inside(Pool) \cup {d.id} ELSE Inside(Pool)
      /\ \A i \in Len(Pool.pending) + 1 .. Len(pool.pending) :
            \/ pool.pending[i] = [id |-> d.id, retriesLeft |-> d.retriesLeft]
            \/ pool.pending[i].id \in QueueIds(Pool)
  BY <1>1, <1>2, EnqueueStart DEF Once
<1>4. Becomes(pending, pool) /\ delayed' = delayed \ {d} /\ state' = [state EXCEPT ![d.id] = Accepted(Pool)]
  BY DEF RetryDelayed, Ends
<1>5. Accepted(Pool) \in {"held", "dropped"}
  BY DEF Accepted
<1> HIDE DEF pool
<1>6. Pool' = pool
  BY <1>2, <1>3, <1>4, BecomesLemma
<1>7. DelayedIds' = DelayedIds \ {d.id}
  BY <1>4 DEF Once, DelayedIds
<1>8. DelayedIds' \cap Inside(pool) = {}
  BY <1>3, <1>7 DEF Once
<1>9. \A s \in Requests : state'[s] = "held" <=> s \in Inside(pool) \cup DelayedIds'
  BY <1>1, <1>3, <1>4, <1>5, <1>7 DEF Once, TypeOK
<1>10. \A a, e \in delayed' : a.id = e.id => a = e
  BY <1>4 DEF Once
<1>11. Once'
  BY <1>3, <1>6, <1>8, <1>9, <1>10, OnceLemma
<1>12. \A i \in Len(pending) + 1 .. Len(pool.pending) :
          \/ pool.pending[i].id \in waited
          \/ posts[pool.pending[i].id] + pool.pending[i].retriesLeft + 1 <= MaxPosts
  <2>1. d.id \notin waited => posts[d.id] + d.retriesLeft + 1 <= MaxPosts
    BY DEF Budget
  <2>2. QueueIds(Pool) \subseteq waited
    BY DEF Budget
  <2> QED BY <1>2, <1>3, <2>1, <2>2
<1>13. \A s \in Requests : state'[s] = "new" => state[s] = "new" /\ s \notin Inside(pool)
  BY <1>1, <1>4, <1>5, <1>9 DEF TypeOK
<1>14. \A e \in delayed' : e.id \notin Inside(pool) /\ e \in delayed
  BY <1>4, <1>8 DEF DelayedIds
<1>15. delayed' \subseteq Reply /\ Extends(pending, pool)
  BY <1>2, <1>3, <1>4 DEF TypeOK
<1>16. Budget'
  <2>1. \A i \in 1 .. Len(pending) : \E m \in 1 .. Len(pending) : pending[i] = pending[m]
    OBVIOUS
  <2> QED BY <1>2, <1>3, <1>4, <1>12, <1>13, <1>14, <1>15, <2>1, BudgetLemma
<1> QED BY <1>11, <1>16

----------------------------------------------------------------------------
\* Types, one place for each held request, and the budget are an inductive
\* invariant.
IOnce == TypeOK /\ Once /\ Budget

LEMMA IOnceInductive == Spec => []IOnce
<1> USE RequestAssumption
<1>1. Init => IOnce
  <2> SUFFICES ASSUME Init PROVE IOnce
    OBVIOUS
  <2>1. pending = <<>> /\ queue = <<>> /\ delayed = {} /\ waited = {}
        /\ (\A r \in Requests : state[r] = "new" /\ posts[r] = 0)
    BY DEF Init
  <2>2. PendingIds(Pool) = {} /\ QueueIds(Pool) = {} /\ DelayedIds = {}
    BY <2>1 DEF PendingIds, QueueIds, DelayedIds, Pool
  <2>3. Once
    BY <2>1, <2>2 DEF Once, Distinct, Inside, Pool
  <2>4. Budget
    BY <2>1, <2>2 DEF Budget, BudgetWithoutQueue, MaxPosts
  <2> QED BY <2>3, <2>4 DEF Init, IOnce, TypeOK, PostCap, MaxPosts
<1>2. IOnce /\ [Next]_vars => IOnce'
  <2> SUFFICES ASSUME IOnce, [Next]_vars PROVE IOnce'
    OBVIOUS
  <2> USE DEF IOnce
  <2>1. ASSUME NEW r \in Requests, RequestForSlot(r) PROVE IOnce'
    BY <2>1, RequestStep, RequestOnce
  <2>2. ASSUME NEW i \in 1 .. Len(pending), Answer(i) PROVE IOnce'
    BY <2>2, AnswerStep, AnswerOnce
  <2>3. ASSUME NEW i \in 1 .. Len(pending), NetworkError(i) PROVE IOnce'
    BY <2>3, ErrorStep, ErrorOnce
  <2>4. ASSUME NEW n \in 1 .. Len(pending), CheckPendingTimeouts(n) PROVE IOnce'
    BY <2>4, TimeoutStep, TimeoutOnce
  <2>5. ASSUME NEW d \in delayed, RetryDelayed(d) PROVE IOnce'
    BY <2>5, RetryStep, RetryOnce
  <2>6. CASE UNCHANGED vars
    <3>1. /\ PendingIds(Pool)' = PendingIds(Pool) /\ QueueIds(Pool)' = QueueIds(Pool)
          /\ DelayedIds' = DelayedIds /\ Pool' = Pool
      BY <2>6 DEF vars, PendingIds, QueueIds, DelayedIds, Pool
    <3>2. TypeOK'
      BY <2>6 DEF vars, TypeOK
    <3>3. Once'
      BY <2>6, <3>1, OnceLemma DEF vars, Once
    <3>4. Budget'
      BY <2>6, <3>1 DEF vars, Budget, BudgetWithoutQueue
    <3> QED BY <3>2, <3>3, <3>4
  <2> QED BY <2>1, <2>2, <2>3, <2>4, <2>5, <2>6 DEF Next, Timer
<1> QED BY <1>1, <1>2, PTL DEF Spec

\* requestapi.cpp:325-331, 397-414: a request that never waits in the queue is
\* posted once and then once for each of its retries, whatever mixture of network
\* errors and timeouts takes the retries, for every number of retries.
THEOREM BudgetIsKept == Spec => []BudgetWithoutQueue
<1>1. IOnce => BudgetWithoutQueue
  BY DEF IOnce, Budget
<1> QED BY <1>1, IOnceInductive, PTL

\* What those who wait for a request see of it is its state.
Seen == [r \in Requests |-> IF state[r] = "held" THEN "open" ELSE state[r]]

LEMMA OutcomeLemma == IOnce => Outcome = Seen
<1> SUFFICES ASSUME IOnce, NEW r \in Requests PROVE Outcome[r] = Seen[r]
  BY DEF Outcome, Seen
<1> USE DEF IOnce
<1> DEFINE A == {i \in 1 .. Len(pending) : pending[i].id = r}
           B == {i \in 1 .. Len(queue) : queue[i] = r}
           C == {e \in delayed : e.id = r}
<1>1. Held(r) = {<<"pending", i>> : i \in A} \cup {<<"queue", i>> : i \in B}
                \cup {<<"delayed", d.retriesLeft>> : d \in C}
  BY DEF Held
<1>2. /\ A # {} => r \in PendingIds(Pool)
      /\ B # {} => r \in QueueIds(Pool)
      /\ C # {} => r \in DelayedIds
      /\ state[r] = "held" => A # {} \/ B # {} \/ C # {}
  BY DEF Once, Inside, PendingIds, QueueIds, DelayedIds, Pool
<1>3. /\ \A i, j \in A : i = j
      /\ \A i, j \in B : i = j
      /\ \A d, e \in C : d = e
  BY DEF Once, Distinct, Pool
<1>4. /\ A = {} \/ B = {}
      /\ A = {} \/ C = {}
      /\ B = {} \/ C = {}
      /\ A # {} \/ B # {} \/ C # {} <=> state[r] = "held"
  BY <1>2 DEF Once, Distinct, Inside
<1> HIDE DEF A, B, C
<1>5. CASE state[r] = "held"
  <2>1. \E x : Held(r) = {x}
    <3>1. CASE A # {}
      <4>1. PICK i : A = {i}
        BY <1>3, <3>1
      <4>2. B = {} /\ C = {}
        BY <1>4, <3>1
      <4>3. Held(r) = {<<"pending", i>>}
        BY <1>1, <4>1, <4>2
      <4> QED BY <4>3
    <3>2. CASE B # {}
      <4>1. PICK i : B = {i}
        BY <1>3, <3>2
      <4>2. A = {} /\ C = {}
        BY <1>4, <3>2
      <4>3. Held(r) = {<<"queue", i>>}
        BY <1>1, <4>1, <4>2
      <4> QED BY <4>3
    <3>3. CASE C # {}
      <4>1. PICK d : C = {d}
        BY <1>3, <3>3
      <4>2. A = {} /\ B = {}
        BY <1>4, <3>3
      <4>3. Held(r) = {<<"delayed", d.retriesLeft>>}
        BY <1>1, <4>1, <4>2
      <4> QED BY <4>3
    <3> QED BY <1>4, <1>5, <3>1, <3>2, <3>3
  <2>2. Cardinality(Held(r)) = 1
    BY <2>1, FS_Singleton
  <2> QED BY <1>5, <2>2 DEF Outcome, Seen
<1>6. CASE state[r] # "held"
  <2>1. Held(r) = {}
    BY <1>1, <1>4, <1>6
  <2>2. Cardinality(Held(r)) # 1
    BY <2>1, FS_EmptySet
  <2> QED BY <1>6, <2>1, <2>2 DEF Outcome, Seen
<1> QED BY <1>5, <1>6

\* Each request ends once: every handler takes the requests it touches from one
\* stage that SlotRequests knows to another, or leaves them where they are.
THEOREM RequestsEndOnce == Spec => EachEndsOnce
<1>1. Init => Promise!Init
  <2> SUFFICES ASSUME Init PROVE Promise!Init
    OBVIOUS
  <2>1. \A r \in Requests : Held(r) = {} /\ state[r] = "new"
    BY DEF Init, Held
  <2>2. \A r \in Requests : Cardinality(Held(r)) # 1
    BY <2>1, FS_EmptySet
  <2>3. \A r \in Requests : Outcome[r] = "new"
    BY <2>1, <2>2 DEF Outcome
  <2>4. Outcome = [r \in Requests |-> Outcome[r]]
    BY DEF Outcome
  <2> QED BY <2>3, <2>4 DEF Promise!Init
<1>2. IOnce /\ (Outcome = Seen) /\ (Outcome = Seen)' /\ [Next]_vars => [Promise!Next]_Outcome
  <2> SUFFICES ASSUME IOnce, Outcome = Seen, (Outcome = Seen)', [Next]_vars
               PROVE  [Promise!Next]_Outcome
    OBVIOUS
  <2>0. Outcome = Seen /\ Outcome' = Seen'
    OBVIOUS
  <2>1. ASSUME NEW r \in Requests, RequestForSlot(r) PROVE Promise!Next
    <3>1. Outcome[r] = "new" /\ Accepted(Pool) \in {"held", "dropped"}
      BY <2>0, <2>1 DEF RequestForSlot, Seen, Accepted
    <3>2. Outcome' = [Outcome EXCEPT ![r] = IF Accepted(Pool) = "held" THEN "open" ELSE "dropped"]
      BY <2>0, <2>1, <3>1 DEF RequestForSlot, Ends, Seen, IOnce, TypeOK
    <3>3. Promise!Open(r) \/ Promise!Drop(r)
      BY <3>1, <3>2 DEF Promise!Open, Promise!Drop
    <3> QED BY <3>3 DEF Promise!Next
  <2>2. ASSUME NEW r \in Requests, state[r] = "held",
               \E last \in {"held", "answered", "failed", "dropped"} :
                   state' = [state EXCEPT ![r] = last]
        PROVE  [Promise!Next]_Outcome
    <3>1. PICK last \in {"held", "answered", "failed", "dropped"} : state' = [state EXCEPT ![r] = last]
      BY <2>2
    <3>2. Outcome[r] = "open"
      BY <2>0, <2>2 DEF Seen
    <3>3. Outcome' = [Outcome EXCEPT ![r] = IF last = "held" THEN "open" ELSE last]
      BY <2>0, <3>1 DEF Seen, IOnce, TypeOK
    <3>4. CASE last = "held"
      BY <2>0, <3>2, <3>3, <3>4 DEF Seen
    <3>5. CASE last = "answered"
      <4>1. Promise!Answered(r)
        BY <3>2, <3>3, <3>5 DEF Promise!Answered
      <4> QED BY <4>1 DEF Promise!Next
    <3>6. CASE last = "failed"
      <4>1. Outcome' = [s \in Requests |-> IF s \in {r} THEN "failed" ELSE Outcome[s]]
        BY <2>0, <3>3, <3>6 DEF Seen
      <4>2. Promise!Fail({r})
        BY <3>2, <4>1 DEF Promise!Fail
      <4> QED BY <4>2 DEF Promise!Next
    <3>7. CASE last = "dropped"
      <4>1. Promise!Drop(r)
        BY <3>2, <3>3, <3>7 DEF Promise!Drop
      <4> QED BY <4>1 DEF Promise!Next
    <3> QED BY <3>4, <3>5, <3>6, <3>7
  <2>3. ASSUME NEW i \in 1 .. Len(pending), Answer(i) \/ NetworkError(i)
        PROVE  [Promise!Next]_Outcome
    <3>1. pending[i].id \in Requests /\ state[pending[i].id] = "held"
      BY PendingLemma DEF IOnce
    <3>2. \E last \in {"held", "answered", "failed", "dropped"} :
             state' = [state EXCEPT ![pending[i].id] = last]
      BY <2>3 DEF Answer, NetworkError, Ends, Accepted
    <3> QED BY <2>2, <3>1, <3>2
  <2>4. ASSUME NEW n \in 1 .. Len(pending), CheckPendingTimeouts(n)
        PROVE  Promise!Next
    <3> DEFINE toAbort == {pending[i] : i \in 1 .. n}
               S == {r \in Requests : [id |-> r, retriesLeft |-> 0] \in toAbort}
    <3>1. \A a \in toAbort : state[a.id] = "held"
      BY PendingLemma DEF IOnce, TypeOK
    <3>2. \A r \in S : Outcome[r] = "open"
      <4>1. SUFFICES ASSUME NEW r \in S PROVE state[r] = "held"
        BY <2>0 DEF Seen
      <4>2. [id |-> r, retriesLeft |-> 0].id = r /\ [id |-> r, retriesLeft |-> 0] \in toAbort
        OBVIOUS
      <4> HIDE DEF toAbort
      <4> QED BY <3>1, <4>2
    <3>3. state' = [r \in Requests |-> IF r \in S THEN "failed" ELSE state[r]]
      BY <2>4 DEF CheckPendingTimeouts
    <3> HIDE DEF S
    <3>4. Outcome' = [r \in Requests |-> IF r \in S THEN "failed" ELSE Outcome[r]]
      BY <2>0, <3>3 DEF Seen
    <3>5. Promise!Fail(S)
      BY <3>2, <3>4 DEF Promise!Fail
    <3> QED BY <3>5 DEF Promise!Next, S
  <2>5. ASSUME NEW d \in delayed, RetryDelayed(d)
        PROVE  [Promise!Next]_Outcome
    <3>1. d.id \in Requests /\ state[d.id] = "held"
      BY DEF IOnce, TypeOK, Reply, Once, DelayedIds
    <3>2. \E last \in {"held", "answered", "failed", "dropped"} :
             state' = [state EXCEPT ![d.id] = last]
      BY <2>5 DEF RetryDelayed, Ends, Accepted
    <3> QED BY <2>2, <3>1, <3>2
  <2>6. CASE UNCHANGED vars
    BY <2>0, <2>6 DEF vars, Seen
  <2> QED BY <2>1, <2>3, <2>4, <2>5, <2>6 DEF Next, Timer
<1>3. Spec => Promise!Spec
  BY <1>1, <1>2, IOnceInductive, OutcomeLemma, PTL DEF Spec, Promise!Spec
<1> QED BY <1>3 DEF EachEndsOnce

\* The types are right in every reachable state.
THEOREM RequestTypes == Spec => []TypeOK
<1>1. IOnce => TypeOK
  BY DEF IOnce
<1> QED BY <1>1, IOnceInductive, PTL
====
