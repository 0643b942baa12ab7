---- MODULE RequestApi ----
(***************************************************************************)
(* RequestAPI (requestapi.h/.cpp): the requests that ask the server for    *)
(* the slot of a parcel.  A few are posted at a time, the others wait in a *)
(* queue; a failed one is retried, a request without an answer is aborted  *)
(* by a timer and retried a second later.                                  *)
(*                                                                         *)
(* Every handler runs on the main thread, to its end, so each is one       *)
(* action.  What an answer says is an input: it carries a slot or not.     *)
(* All requests are of the one kind that is ever issued, "get_slot".       *)
(***************************************************************************)
EXTENDS Naturals, Sequences, SequencesExt, FiniteSets

CONSTANTS
    Requests,          \* the calls of requestForSlot
    ConcurrencyLimit,  \* concurrencyLimit (4)
    MaxQueueSize,      \* maxQueueSize (200)
    MaxRetries         \* retries of a request (3)

ASSUME RequestAssumption ==
    /\ ConcurrencyLimit \in Nat \ {0}
    /\ MaxQueueSize \in Nat
    /\ MaxRetries \in Nat

VARIABLES
    pending,   \* m_pending in the order of the start times: a reply is the
               \* request it was posted for and its retriesLeft
    queue,     \* m_requestQueue
    delayed,   \* the retries that wait for their one-second timer
    \* history, read by properties only:
    state,     \* of every request: new, held, then what became of it
    posts,     \* how often it was posted, counted up to one more than allowed
    waited     \* the requests that ever were in the queue

vars == <<pending, queue, delayed, state, posts, waited>>

Reply == [id: Requests, retriesLeft: 0 .. MaxRetries]
MaxPosts == 1 + MaxRetries
PostCap == MaxPosts + 1

TypeOK ==
    /\ pending \in Seq(Reply)
    /\ queue \in Seq(Requests)
    /\ delayed \subseteq Reply
    /\ state \in [Requests -> {"new", "held", "answered", "failed", "dropped"}]
    /\ posts \in [Requests -> 0 .. PostCap]
    /\ waited \subseteq Requests

Init ==
    /\ pending = <<>> /\ queue = <<>> /\ delayed = {}
    /\ state = [r \in Requests |-> "new"]
    /\ posts = [r \in Requests |-> 0]
    /\ waited = {}

----------------------------------------------------------------------------
\* A pool is what m_mutex guards: the replies and the queue.
Pool == [pending |-> pending, queue |-> queue]
RoomOffByOne(pool) == Len(pool.pending) <= ConcurrencyLimit   \* mutant
Room(pool) == Len(pool.pending) < ConcurrencyLimit
QueueRoom(pool) == Len(pool.queue) < MaxQueueSize

\* enqueueOrSend: post if there is room, else queue, else drop.  The queue
\* keeps the request without its retries and its tag.
EnqueueOrSend(pool, r, retries) ==
    IF Room(pool)
    THEN [pool EXCEPT !.pending = Append(@, [id |-> r, retriesLeft |-> retries])]
    ELSE IF QueueRoom(pool) THEN [pool EXCEPT !.queue = Append(@, r)]
    ELSE pool

\* tryStartNext: post from the queue as long as there is room, with the retries
\* of a new request.
Started(pool) ==
    IF Len(pool.pending) + Len(pool.queue) <= ConcurrencyLimit THEN Len(pool.queue)
    ELSE IF Room(pool) THEN ConcurrencyLimit - Len(pool.pending) ELSE 0

TryStartNext(pool) ==
    [pending |-> pool.pending
                 \o [i \in 1 .. Started(pool) |-> [id |-> pool.queue[i], retriesLeft |-> MaxRetries]],
     queue |-> SubSeq(pool.queue, Started(pool) + 1, Len(pool.queue))]

\* The handler leaves the pool as given, having begun with the replies kept.
Becomes(kept, pool) ==
    /\ pending' = pool.pending /\ queue' = pool.queue
    /\ posts' = [r \in Requests |->
                    IF /\ posts[r] < PostCap
                       /\ \E i \in Len(kept) + 1 .. Len(pool.pending) : pool.pending[i].id = r
                    THEN posts[r] + 1 ELSE posts[r]]
    /\ waited' = waited \cup {pool.queue[i] : i \in 1 .. Len(pool.queue)}

Ends(r, as) == state' = [state EXCEPT ![r] = as]
Accepted(pool) == IF Room(pool) \/ QueueRoom(pool) THEN "held" ELSE "dropped"

----------------------------------------------------------------------------
\* requestForSlot
RequestForSlot(r) ==
    /\ state[r] = "new"
    /\ Becomes(pending, EnqueueOrSend(Pool, r, MaxRetries))
    /\ Ends(r, Accepted(Pool))
    /\ UNCHANGED delayed

\* onNetworkFinished begins by taking the reply out of m_pending.
Finished(i) == RemoveAt(pending, i)

\* Mutant: the handler returns without tryStartNext.
AnswerOnly(i) ==
    LET kept == Finished(i) IN
    /\ Becomes(kept, [Pool EXCEPT !.pending = kept])
    /\ Ends(pending[i].id, "answered") \/ Ends(pending[i].id, "failed")
    /\ UNCHANGED delayed

\* onNetworkFinished without a network error: getSlotSuccess, or requestFailed
\* for an answer that is no JSON or has no slot.
Answer(i) ==
    LET kept == Finished(i) IN
    /\ Becomes(kept, TryStartNext([Pool EXCEPT !.pending = kept]))
    /\ \/ Ends(pending[i].id, "answered")
       \/ Ends(pending[i].id, "failed")
    /\ UNCHANGED delayed

\* onNetworkFinished with an error that is no timeout: retried at once.
NetworkError(i) ==
    LET kept == Finished(i)
        pool == [Pool EXCEPT !.pending = kept]
        r == pending[i]
    IN  /\ \/ /\ r.retriesLeft > 0
              /\ Becomes(kept, TryStartNext(EnqueueOrSend(pool, r.id, r.retriesLeft - 1)))
              /\ Ends(r.id, Accepted(pool))
           \/ /\ r.retriesLeft = 0
              /\ Becomes(kept, TryStartNext(pool))
              /\ Ends(r.id, "failed")
        /\ UNCHANGED delayed

\* Mutant: a request that has no retry left is not aborted.
CheckPendingTimeoutsRetriable(n) ==
    LET toAbort == {pending[i] : i \in {j \in 1 .. n : pending[j].retriesLeft > 0}}
        kept == SelectSeq(pending, LAMBDA r : r \notin toAbort)
    IN  /\ delayed' = delayed \cup {[r EXCEPT !.retriesLeft = @ - 1] : r \in toAbort}
        /\ UNCHANGED state
        /\ Becomes(kept, [Pool EXCEPT !.pending = kept])

\* checkPendingTimeouts finds the n oldest replies too old and aborts them;
\* abort() calls onNetworkFinished, which starts nothing from the queue.
CheckPendingTimeouts(n) ==
    LET toAbort == {pending[i] : i \in 1 .. n}
        kept == SubSeq(pending, n + 1, Len(pending))
    IN  /\ delayed' = delayed \cup {[r EXCEPT !.retriesLeft = @ - 1] :
                                       r \in {s \in toAbort : s.retriesLeft > 0}}
        /\ state' = [r \in Requests |->
                        IF [id |-> r, retriesLeft |-> 0] \in toAbort THEN "failed" ELSE state[r]]
        /\ Becomes(kept, [Pool EXCEPT !.pending = kept])

\* Mutants: the timer of the retry repeats; the retry has a new budget.
RetryDelayedRepeats(d) ==
    /\ d \in delayed
    /\ UNCHANGED delayed
    /\ Becomes(pending, TryStartNext(EnqueueOrSend(Pool, d.id, d.retriesLeft)))
    /\ Ends(d.id, Accepted(Pool))

RetryDelayedAnew(d) ==
    /\ d \in delayed
    /\ delayed' = delayed \ {d}
    /\ Becomes(pending, TryStartNext(EnqueueOrSend(Pool, d.id, MaxRetries)))
    /\ Ends(d.id, Accepted(Pool))

\* The single-shot timer of a retry.
RetryDelayed(d) ==
    /\ d \in delayed
    /\ delayed' = delayed \ {d}
    /\ Becomes(pending, TryStartNext(EnqueueOrSend(Pool, d.id, d.retriesLeft)))
    /\ Ends(d.id, Accepted(Pool))

Timer == (\E n \in 1 .. Len(pending) : CheckPendingTimeouts(n)) \/ (\E d \in delayed : RetryDelayed(d))

Next ==
    \/ \E r \in Requests : RequestForSlot(r)
    \/ \E i \in 1 .. Len(pending) : Answer(i) \/ NetworkError(i)
    \/ Timer

\* The timers fire: every reply times out in the end if it does not finish, and
\* every delayed retry is made.  The server owes nothing.
Fairness ==
    /\ WF_vars(\E n \in 1 .. Len(pending) : CheckPendingTimeouts(n))
    /\ \A d \in Reply : WF_vars(RetryDelayed(d))

Spec == Init /\ [][Next]_vars /\ Fairness

----------------------------------------------------------------------------
\* Never more replies than concurrencyLimit, never more waiting requests than
\* maxQueueSize, whatever mixture of retries, timeouts and new requests comes.
WithinLimits == Len(pending) <= ConcurrencyLimit /\ Len(queue) <= MaxQueueSize

\* The places where a request is held.
Held(r) == {<<"pending", i>> : i \in {j \in 1 .. Len(pending) : pending[j].id = r}}
           \cup {<<"queue", i>> : i \in {j \in 1 .. Len(queue) : queue[j] = r}}
           \cup {<<"delayed", d.retriesLeft>> : d \in {e \in delayed : e.id = r}}

\* The state of a request to those who wait for it: it is open while it is held in
\* one place.
Outcome == [r \in Requests |->
    CASE Cardinality(Held(r)) = 1 -> "open"
      [] Held(r) = {} /\ state[r] # "held" -> state[r]
      [] OTHER -> "lost or doubled"]

Promise == INSTANCE SlotRequests WITH outcome <- Outcome

\* Each request ends once, in one of the ways that SlotRequests names: on its way
\* through pool, queue and timers, with its retries, no request is lost, doubled,
\* or taken up again after it has ended.
EachEndsOnce == Promise!Spec

\* A request that never had to wait is posted at most 1 + maxRetries times.
BudgetWithoutQueue == \A r \in Requests \ waited : posts[r] <= MaxPosts

\* Requests wait only for room.  Only a timeout can leave room beside a waiting
\* request, and every other end of a request, and every retry, fills it again.
NoIdleRoom == queue # <<>> => ~Room(Pool)
OnlyTimeoutsLeaveRoom ==
    [][/\ NoIdleRoom /\ ~NoIdleRoom' =>
            \E n \in 1 .. Len(pending) : CheckPendingTimeouts(n)
       /\ (\E i \in 1 .. Len(pending) : Answer(i) \/ NetworkError(i)) \/ (\E d \in delayed : RetryDelayed(d))
            => NoIdleRoom']_vars

\* A waiting request leaves the queue in the end, or everything else ended.
InQueue(r) == \E i \in 1 .. Len(queue) : queue[i] = r
ServedOrAlone ==
    \A r \in Requests : InQueue(r) ~> (~InQueue(r) \/ (pending = <<>> /\ delayed = {}))

----------------------------------------------------------------------------
\* A statement of the source that the code does not keep.

\* requestapi.cpp:379: when a reply has ended, the next request of the queue is
\* sent if there is room; a waiting request is sent in the end.
QueuedIsSent == \A r \in Requests : InQueue(r) ~> ~InQueue(r)
====
