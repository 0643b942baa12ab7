---- MODULE CarItemsWriter ----
(***************************************************************************)
(* CarItemsWriteThread (caritemswritethread.h/.cpp) together with the      *)
(* shared_mutex carItemsLock that guards the table of car items.           *)
(*                                                                         *)
(* The callers are the threads that write and read the table: the main     *)
(* thread (the handlers of photocells, cameras and slot answers) and the   *)
(* unloading thread carLoop.  A write tries carItemsLock without waiting;  *)
(* when somebody holds it the write becomes an Event in q, and the worker  *)
(* thread applies it under the exclusive lock.                             *)
(*                                                                         *)
(* qMutex is held for more than one step only while the worker evaluates   *)
(* the predicate of qCv.wait and has not gone to sleep yet, which is the   *)
(* worker's step "blocking"; every other critical section of qMutex is one *)
(* step here.  The destructor stores stopping and notifies without qMutex. *)
(***************************************************************************)
EXTENDS CarItemTable, Sequences, FiniteSets

CONSTANTS
    Callers,        \* the threads that call the writer
    MaxOutstanding  \* bound on deferred writes not applied yet

ASSUME WriterAssumption ==
    /\ "worker" \notin Callers
    /\ "nobody" \notin Callers
    /\ MaxOutstanding \in Nat

VARIABLES
    items,    \* carItems_
    holder,   \* who holds carItemsLock exclusively
    readers,  \* the callers that hold carItemsLock shared
    q,        \* q_: events pushed and not yet taken by the worker
    localq,   \* local_q: the batch the worker took
    worker,   \* where the worker thread is
    phase,    \* running, then the steps of the destructor; not running = stopping_
    pc        \* where every caller is

vars == <<items, holder, readers, q, localq, worker, phase, pc>>

CallerSteps == {"idle", "reading", "release", "push", "notify", "polling"}
WorkerSteps == {"off", "top", "blocking", "waiting", "lock", "apply", "exited"}
Phases == {"running", "stopped", "joining", "joined"}

TypeOK ==
    /\ items \in [Cars -> CarItem]
    /\ holder \in Callers \cup {"worker", "nobody"}
    /\ readers \in SUBSET Callers
    /\ q \in Seq(Event)
    /\ localq \in Seq(Event)
    /\ worker \in WorkerSteps
    /\ phase \in Phases
    /\ pc \in [Callers -> CallerSteps]

Init ==
    /\ items = [c \in Cars |-> EmptyItem]
    /\ holder = "nobody" /\ readers = {}
    /\ q = <<>> /\ localq = <<>>
    /\ worker = "off" /\ phase = "running"
    /\ pc = [t \in Callers |-> "idle"]

Outstanding == localq \o q
Stopping == phase # "running"
LockFree == holder = "nobody" /\ readers = {}
NoQMutex == TRUE   \* mutant
QMutexFree == worker # "blocking"

NotifyNobody == worker' = worker   \* mutant

\* The condition variable wakes one sleeper, and the worker is the only one.
NotifyOne == worker' = IF worker = "waiting" THEN "top" ELSE worker

\* A thread may enter an operation from the start of the worker until the destructor.
\* This is an assumption on the callers.  DeviceLifecycle has the order of init() and
\* cleanup() that keeps it for carLoop, and the cases in which it is not kept: a window
\* closed during init(), and a photocell message queued before the close.
Callable(t) == pc[t] = "idle" /\ worker # "off" /\ ~Stopping

GoTo(t, step) == pc' = [pc EXCEPT ![t] = step]

----------------------------------------------------------------------------
\* Mutant: only exclusive holders keep a write out.
WriteSyncBesideReaders(t, call) ==
    /\ Callable(t)
    /\ holder = "nobody"
    /\ holder' = t
    /\ items' = ApplyNow(items, call)
    /\ GoTo(t, "release")
    /\ UNCHANGED <<readers, q, localq, worker, phase>>

\* writeSlotInfo, writeItemInfo, setRunNum, initCarItem: the try_to_lock
\* branch.  The item is written while the lock is held ...
WriteSync(t, call) ==
    /\ Callable(t)
    /\ LockFree
    /\ holder' = t
    /\ items' = ApplyNow(items, call)
    /\ GoTo(t, "release")
    /\ UNCHANGED <<readers, q, localq, worker, phase>>

\* ... and the lock is given back on return.
Release(t) ==
    /\ pc[t] = "release"
    /\ holder' = "nobody"
    /\ GoTo(t, "idle")
    /\ UNCHANGED <<items, readers, q, localq, worker, phase>>

\* try_to_lock failed; the write is in the thread's own arguments until Push.
WriteRefused(t) ==
    /\ Callable(t)
    /\ ~LockFree
    /\ Len(Outstanding) + Cardinality({s \in Callers : pc[s] = "push"}) < MaxOutstanding
    /\ GoTo(t, "push")
    /\ UNCHANGED <<items, holder, readers, q, localq, worker, phase>>

\* The critical section of qMutex.
Push(t, call) ==
    /\ pc[t] = "push"
    /\ QMutexFree
    /\ \E ev \in MakeEvents(call) : q' = Append(q, ev)
    /\ GoTo(t, "notify")
    /\ UNCHANGED <<items, holder, readers, localq, worker, phase>>

\* qCv.notify_one, after qMutex was released.
Notify(t) ==
    /\ pc[t] = "notify"
    /\ NotifyOne
    /\ GoTo(t, "idle")
    /\ UNCHANGED <<items, holder, readers, q, localq, phase>>

\* A caller reads the table under the shared lock, and waits for it.
BeginRead(t) ==
    /\ Callable(t)
    /\ holder = "nobody"
    /\ readers' = readers \cup {t}
    /\ GoTo(t, "reading")
    /\ UNCHANGED <<items, holder, q, localq, worker, phase>>

EndRead(t) ==
    /\ pc[t] = "reading"
    /\ readers' = readers \ {t}
    /\ GoTo(t, "idle")
    /\ UNCHANGED <<items, holder, q, localq, worker, phase>>

\* waitUntilIdle: polls until it finds q_ empty.
WaitUntilIdle(t) ==
    /\ Callable(t)
    /\ GoTo(t, "polling")
    /\ UNCHANGED <<items, holder, readers, q, localq, worker, phase>>

FoundIdle(t) ==
    /\ pc[t] = "polling"
    /\ QMutexFree
    /\ q = <<>>
    /\ GoTo(t, "idle")
    /\ UNCHANGED <<items, holder, readers, q, localq, worker, phase>>

----------------------------------------------------------------------------
\* startLoop: a second call finds worker_ joinable and returns.
StartLoop ==
    /\ worker = "off" /\ ~Stopping
    /\ worker' = "top"
    /\ UNCHANGED <<items, holder, readers, q, localq, phase, pc>>

\* Mutant: the loop is left as soon as stopping_ is seen.
WorkerCheckStopsAtOnce ==
    /\ worker = "top"
    /\ \/ /\ q = <<>> /\ ~Stopping
          /\ worker' = "blocking"
          /\ UNCHANGED <<q, localq>>
       \/ /\ Stopping
          /\ worker' = "exited"
          /\ UNCHANGED <<q, localq>>
       \/ /\ q # <<>> /\ ~Stopping
          /\ localq' = q /\ q' = <<>>
          /\ worker' = "lock"
    /\ UNCHANGED <<items, holder, readers, phase, pc>>

\* The predicate of qCv.wait, the break and the swap, under qMutex.
WorkerCheck ==
    /\ worker = "top"
    /\ \/ /\ q = <<>> /\ ~Stopping
          /\ worker' = "blocking"
          /\ UNCHANGED <<q, localq>>
       \/ /\ q = <<>> /\ Stopping
          /\ worker' = "exited"
          /\ UNCHANGED <<q, localq>>
       \/ /\ q # <<>>
          /\ localq' = q /\ q' = <<>>
          /\ worker' = "lock"
    /\ UNCHANGED <<items, holder, readers, phase, pc>>

\* Releases qMutex and sleeps, in one step as condition variables do.
WorkerBlock ==
    /\ worker = "blocking"
    /\ worker' = "waiting"
    /\ UNCHANGED <<items, holder, readers, q, localq, phase, pc>>

SpuriousWakeup ==
    /\ worker = "waiting"
    /\ worker' = "top"
    /\ UNCHANGED <<items, holder, readers, q, localq, phase, pc>>

\* Mutant: the worker waits for other writers only.
WorkerLockBesideReaders ==
    /\ worker = "lock"
    /\ holder = "nobody"
    /\ holder' = "worker"
    /\ worker' = "apply"
    /\ UNCHANGED <<items, readers, q, localq, phase, pc>>

WorkerLock ==
    /\ worker = "lock"
    /\ LockFree
    /\ holder' = "worker"
    /\ worker' = "apply"
    /\ UNCHANGED <<items, readers, q, localq, phase, pc>>

\* Mutant: the batch is applied from its end.
WorkerApplyLast ==
    /\ worker = "apply" /\ localq # <<>>
    /\ items' = ApplyLater(items, localq[Len(localq)])
    /\ localq' = SubSeq(localq, 1, Len(localq) - 1)
    /\ UNCHANGED <<holder, readers, q, worker, phase, pc>>

WorkerApply ==
    /\ worker = "apply" /\ localq # <<>>
    /\ items' = ApplyLater(items, Head(localq))
    /\ localq' = Tail(localq)
    /\ UNCHANGED <<holder, readers, q, worker, phase, pc>>

WorkerRelease ==
    /\ worker = "apply" /\ localq = <<>>
    /\ holder' = "nobody"
    /\ worker' = "top"
    /\ UNCHANGED <<items, readers, q, localq, phase, pc>>

----------------------------------------------------------------------------
\* ~CarItemsWriteThread, run by carItemsWriter.reset() in cleanup() when the
\* callers are done: store stopping_, notify (both without qMutex), join.
StoreStopping ==
    /\ phase = "running"
    /\ \A t \in Callers : pc[t] = "idle"
    /\ phase' = "stopped"
    /\ UNCHANGED <<items, holder, readers, q, localq, worker, pc>>

NotifyStop ==
    /\ phase = "stopped"
    /\ NotifyOne
    /\ phase' = "joining"
    /\ UNCHANGED <<items, holder, readers, q, localq, pc>>

Join ==
    /\ phase = "joining"
    /\ worker \in {"off", "exited"}
    /\ phase' = "joined"
    /\ UNCHANGED <<items, holder, readers, q, localq, worker, pc>>

Terminated == phase = "joined" /\ UNCHANGED vars

----------------------------------------------------------------------------
Write(t) == WriteRefused(t) \/ \E call \in Calls : WriteSync(t, call)

\* What a caller does once it is inside an operation.
CallerStep(t) == \/ Release(t) \/ Notify(t) \/ EndRead(t) \/ FoundIdle(t)
                 \/ \E call \in Calls : Push(t, call)

WorkerStep == \/ WorkerCheck \/ WorkerBlock \/ WorkerLock
              \/ WorkerApply \/ WorkerRelease

Destructor == StoreStopping \/ NotifyStop \/ Join

Next ==
    \/ \E t \in Callers : Write(t) \/ BeginRead(t) \/ WaitUntilIdle(t) \/ CallerStep(t)
    \/ StartLoop \/ WorkerStep \/ SpuriousWakeup
    \/ Destructor \/ Terminated

\* A thread that can take a step takes it in the end.  Callers pause between
\* operations (carLoop sleeps 5 ms after every round, the main thread returns to
\* its event loop), so the lock is free again and again, and the blocking lock()
\* of the worker gets it in the end.  Nothing obliges a thread to begin an
\* operation, the window to close, or a wake-up to be spurious.
Fairness ==
    /\ \A t \in Callers : WF_vars(CallerStep(t))
    /\ WF_vars(StartLoop)
    /\ WF_vars(WorkerCheck \/ WorkerBlock \/ WorkerApply \/ WorkerRelease)
    /\ SF_vars(WorkerLock)
    /\ WF_vars(NotifyStop) /\ WF_vars(Join)
    /\ []<>LockFree

Spec == Init /\ [][Next]_vars /\ Fairness

----------------------------------------------------------------------------
\* carItemsLock is a readers-writer lock, and exactly the threads inside its
\* critical sections hold it: the table is never written under a reader.
LockDiscipline ==
    /\ holder # "nobody" => readers = {}
    /\ \A t \in Callers : (holder = t) <=> (pc[t] = "release")
    /\ (holder = "worker") <=> (worker = "apply")
    /\ \A t \in Callers : (t \in readers) <=> (pc[t] = "reading")

\* The worker has a batch only between the swap and the end of the batch, so
\* no event is ever swapped away before it was applied.
BatchDiscipline == localq # <<>> => worker \in {"lock", "apply"}

\* A car that is not loaded has no port: whatever mixture of immediate and
\* deferred writes hits it (even on the wrong car), carLoop never sees a port
\* left over on an empty car.
UnloadedHasNoPort ==
    \A c \in Cars : ~items[c].loaded => items[c].port = NoPort

\* No push is slept through: when the worker sleeps with events in q, some
\* caller is still about to notify it.
NoLostPush ==
    worker = "waiting" /\ q # <<>> => \E t \in Callers : pc[t] = "notify"

\* The destructor returns only when every write that was ever deferred has
\* been applied.
JoinedMeansDrained == phase = "joined" => Outstanding = <<>>

\* As long as a thread reads the table it sees one version of it; in
\* particular never half of a batch of the worker.
ReadersSeeStableTable == [][readers # {} => items' = items]_vars

\* The writer keeps what DeferredWrites promises: every write takes effect at
\* once or joins the list, and the list is applied in order, each event once
\* (DeferredInOrder); and every deferred write takes effect in the end.
Abstract == INSTANCE DeferredWrites WITH table <- items, pending <- Outstanding
DeferredInOrder == Abstract!Order
DeferredEventually == Abstract!Spec

----------------------------------------------------------------------------
\* A statement of the source that the code does not keep.

\* caritemswritethread.h:23-26, devicemanager.cpp:961: a write changes the
\* item of the car that was passed to it.
WriteHitsItsCar ==
    [][WorkerApply => \A c \in Cars \ {Head(localq).call.car} : items'[c] = items[c]]_vars
====
