---- MODULE CarItemsProofs ----
(***************************************************************************)
(* Proofs about the table of car items, for every set of callers, cars,    *)
(* ports and codes.  First CarItemsWriter by itself: the invariants are    *)
(* proved together from one inductive invariant, IInv; then the action     *)
(* property about readers and the refinement of DeferredWrites (its safety *)
(* part) follow from it.  Then UnloadLoop, in which the main thread and    *)
(* carLoop are the callers: their calls are calls of the writer, so what   *)
(* was proved of it holds there, and LoopInv extends it to carLoop's copy. *)
(***************************************************************************)
EXTENDS UnloadLoop, FiniteSetTheorems, TLAPS

\* What ties the worker, the destructor and the callers together: nobody is
\* inside an operation before the worker runs or once stopping_ is stored, and
\* the queue is empty whenever the worker has decided to sleep or to leave.
PhaseDiscipline ==
    /\ (worker = "off" \/ Stopping) => \A t \in Callers : pc[t] = "idle"
    /\ worker \in {"off", "blocking", "exited"} => q = <<>>
    /\ worker = "exited" => Stopping
    /\ phase = "joined" => worker \in {"off", "exited"}

IInv == /\ TypeOK
        /\ LockDiscipline
        /\ BatchDiscipline
        /\ UnloadedHasNoPort
        /\ NoLostPush
        /\ PhaseDiscipline

----------------------------------------------------------------------------
\* Every write call is a well-formed call.
LEMMA CallsAreCalls == Calls \subseteq Call
  BY TableAssumption
     DEF Calls, Call, WriteSlot, WriteItem, SetRunNum, InitItem, Turns

\* The empty item is an item.
LEMMA EmptyItemType == EmptyItem \in CarItem
  BY TableAssumption DEF EmptyItem, CarItem, Turns

\* A write made at once leaves a well-formed item, without a port if unloaded.
LEMMA WrittenNowLemma ==
  ASSUME NEW it \in CarItem, NEW call \in Call
  PROVE  /\ WrittenNow(it, call) \in CarItem
         /\ (~it.loaded => it.port = NoPort) =>
               (~WrittenNow(it, call).loaded => WrittenNow(it, call).port = NoPort)
<1> USE TableAssumption DEF CarItem, Call, Turns
<1>1. CASE call.type = "WriteSlot"
  BY <1>1 DEF WrittenNow, Slotted
<1>2. CASE call.type = "WriteItem"
  <2> DEFINE new == [code |-> call.code, port |-> it.port, turns |-> 0,
                     loaded |-> IF call.code = NoCode THEN it.loaded ELSE TRUE]
  <2>1. WrittenNow(it, call) = new
    BY <1>2 DEF WrittenNow
  <2>2. new \in CarItem
    <3>1. new.loaded \in BOOLEAN
      <4>1. CASE call.code = NoCode
        BY <4>1
      <4>2. CASE call.code # NoCode
        BY <4>2
      <4> QED BY <4>1, <4>2
    <3>2. /\ call.code \in Codes \cup {NoCode}
          /\ it.port \in Ports \cup {NoPort}
          /\ 0 \in 0 .. MaxTurns
      OBVIOUS
    <3> HIDE DEF Call
    <3> QED BY <3>1, <3>2
  <2>3. (~it.loaded => it.port = NoPort) => (~new.loaded => new.port = NoPort)
    OBVIOUS
  <2> QED BY <2>1, <2>2, <2>3
<1>3. CASE call.type = "SetRunNum"
  BY <1>3 DEF WrittenNow
<1>4. CASE call.type = "InitItem"
  BY <1>4 DEF WrittenNow, EmptyItem
<1>5. call.type \in {"WriteSlot", "WriteItem", "SetRunNum", "InitItem"}
  OBVIOUS
<1> QED BY ONLY <1>1, <1>2, <1>3, <1>4, <1>5

\* So does a write made by the worker.
LEMMA WrittenLaterLemma ==
  ASSUME NEW it \in CarItem, NEW call \in Call
  PROVE  /\ WrittenLater(it, call) \in CarItem
         /\ (~it.loaded => it.port = NoPort) =>
               (~WrittenLater(it, call).loaded => WrittenLater(it, call).port = NoPort)
<1> USE TableAssumption DEF CarItem, Call, Turns
<1>1. CASE call.type = "WriteSlot"
  BY <1>1 DEF WrittenLater, Slotted
<1>2. CASE call.type = "WriteItem"
  <2> DEFINE new == [code |-> call.code, port |-> it.port, turns |-> call.turns,
                     loaded |-> TRUE]
  <2>1. WrittenLater(it, call) = new
    BY <1>2 DEF WrittenLater
  <2>2. new \in CarItem
    OBVIOUS
  <2> QED BY <2>1, <2>2
<1>3. CASE call.type = "SetRunNum"
  BY <1>3 DEF WrittenLater
<1>4. CASE call.type = "InitItem"
  <2> DEFINE new == [code |-> it.code, port |-> NoPort, turns |-> 0, loaded |-> FALSE]
  <2>1. WrittenLater(it, call) = new
    BY <1>4 DEF WrittenLater, EmptyItem
  <2>2. new \in CarItem
    OBVIOUS
  <2> QED BY <2>1, <2>2
<1>5. call.type \in {"WriteSlot", "WriteItem", "SetRunNum", "InitItem"}
  OBVIOUS
<1> QED BY ONLY <1>1, <1>2, <1>3, <1>4, <1>5

----------------------------------------------------------------------------
\* The initial states satisfy the inductive invariant.
LEMMA InitIInv == Init => IInv
<1> SUFFICES ASSUME Init PROVE IInv
  OBVIOUS
<1> USE DEF Init
<1>1. TypeOK
  BY EmptyItemType DEF TypeOK, CallerSteps, WorkerSteps, Phases
<1>2. LockDiscipline
  BY WriterAssumption DEF LockDiscipline
<1>3. BatchDiscipline /\ NoLostPush
  BY DEF BatchDiscipline, NoLostPush
<1>4. UnloadedHasNoPort
  BY DEF UnloadedHasNoPort, EmptyItem
<1>5. PhaseDiscipline
  BY DEF PhaseDiscipline, Stopping
<1> QED BY <1>1, <1>2, <1>3, <1>4, <1>5 DEF IInv

----------------------------------------------------------------------------
\* Every step keeps the types.
LEMMA TypeStep == TypeOK /\ [Next]_vars => TypeOK'
<1> SUFFICES ASSUME TypeOK, [Next]_vars PROVE TypeOK'
  OBVIOUS
<1> USE DEF TypeOK, CallerSteps, WorkerSteps, Phases
<1>1. ASSUME NEW t \in Callers, WriteRefused(t) PROVE TypeOK'
  BY <1>1 DEF WriteRefused, GoTo
<1>2. ASSUME NEW t \in Callers, NEW call \in Calls, WriteSync(t, call) PROVE TypeOK'
  <2>1. call \in Call /\ call.car \in Cars
    BY CallsAreCalls DEF Call
  <2>2. items' \in [Cars -> CarItem]
    BY <1>2, <2>1, WrittenNowLemma DEF WriteSync, ApplyNow
  <2> QED BY <1>2, <2>2 DEF WriteSync, GoTo
<1>3. ASSUME NEW t \in Callers, Release(t) PROVE TypeOK'
  BY <1>3 DEF Release, GoTo
<1>4. ASSUME NEW t \in Callers, NEW call \in Calls, Push(t, call) PROVE TypeOK'
  <2>1. PICK ev \in MakeEvents(call) : q' = Append(q, ev)
    BY <1>4 DEF Push
  <2>2. ev \in Event
    BY CallsAreCalls, <2>1 DEF MakeEvents, Event
  <2>3. q' \in Seq(Event)
    BY <2>1, <2>2
  <2> QED BY <1>4, <2>3 DEF Push, GoTo
<1>5. ASSUME NEW t \in Callers, Notify(t) PROVE TypeOK'
  BY <1>5 DEF Notify, NotifyOne, GoTo
<1>6. ASSUME NEW t \in Callers, BeginRead(t) PROVE TypeOK'
  BY <1>6 DEF BeginRead, GoTo
<1>7. ASSUME NEW t \in Callers, EndRead(t) PROVE TypeOK'
  BY <1>7 DEF EndRead, GoTo
<1>8. ASSUME NEW t \in Callers, WaitUntilIdle(t) \/ FoundIdle(t) PROVE TypeOK'
  BY <1>8 DEF WaitUntilIdle, FoundIdle, GoTo
<1>9. CASE StartLoop
  BY <1>9 DEF StartLoop
<1>10. CASE WorkerCheck
  <2>1. CASE q # <<>>
    <3>1. localq' = q /\ q' = <<>> /\ worker' = "lock"
      BY <1>10, <2>1 DEF WorkerCheck
    <3>2. localq' \in Seq(Event) /\ q' \in Seq(Event)
      BY <3>1
    <3> QED BY <1>10, <3>1, <3>2 DEF WorkerCheck
  <2>2. CASE q = <<>>
    <3>1. worker' \in {"blocking", "exited"} /\ UNCHANGED <<q, localq>>
      BY <1>10, <2>2 DEF WorkerCheck
    <3> QED BY <1>10, <3>1 DEF WorkerCheck
  <2> QED BY <2>1, <2>2
<1>11. CASE WorkerBlock \/ SpuriousWakeup
  BY <1>11 DEF WorkerBlock, SpuriousWakeup
<1>12. CASE WorkerLock
  BY <1>12 DEF WorkerLock
<1>13. CASE WorkerApply
  <2>1. Head(localq) \in Event /\ Tail(localq) \in Seq(Event)
    BY <1>13 DEF WorkerApply
  <2>2. ApplyLater(items, Head(localq)) \in [Cars -> CarItem]
    BY <2>1, WrittenLaterLemma DEF ApplyLater, Event
  <2> QED BY <1>13, <2>1, <2>2 DEF WorkerApply
<1>14. CASE WorkerRelease
  BY <1>14 DEF WorkerRelease
<1>15. CASE Destructor
  BY <1>15 DEF Destructor, StoreStopping, NotifyStop, NotifyOne, Join
<1>16. CASE Terminated \/ UNCHANGED vars
  BY <1>16 DEF Terminated, vars
<1> QED BY <1>1, <1>2, <1>3, <1>4, <1>5, <1>6, <1>7, <1>8, <1>9, <1>10, <1>11,
           <1>12, <1>13, <1>14, <1>15, <1>16
        DEF Next, Write, CallerStep, WorkerStep

----------------------------------------------------------------------------
\* The lock: who holds it is inside its critical section, and readers exclude
\* the exclusive holder.
LEMMA LockStep == TypeOK /\ LockDiscipline /\ PhaseDiscipline /\ [Next]_vars
                    => LockDiscipline'
<1> SUFFICES ASSUME TypeOK, LockDiscipline, PhaseDiscipline, [Next]_vars
             PROVE  LockDiscipline'
  OBVIOUS
<1> USE WriterAssumption DEF TypeOK, LockDiscipline, GoTo, LockFree
<1>1. ASSUME NEW t \in Callers, WriteRefused(t) PROVE LockDiscipline'
  BY <1>1 DEF WriteRefused, Callable
<1>2. ASSUME NEW t \in Callers, NEW call \in Calls, WriteSync(t, call)
      PROVE  LockDiscipline'
  BY <1>2 DEF WriteSync, Callable
<1>3. ASSUME NEW t \in Callers, Release(t) PROVE LockDiscipline'
  BY <1>3 DEF Release
<1>4. ASSUME NEW t \in Callers, NEW call \in Calls, Push(t, call)
      PROVE  LockDiscipline'
  BY <1>4 DEF Push
<1>5. ASSUME NEW t \in Callers, Notify(t) PROVE LockDiscipline'
  BY <1>5 DEF Notify, NotifyOne
<1>6. ASSUME NEW t \in Callers, BeginRead(t) PROVE LockDiscipline'
  BY <1>6 DEF BeginRead, Callable
<1>7. ASSUME NEW t \in Callers, EndRead(t) PROVE LockDiscipline'
  BY <1>7 DEF EndRead
<1>8. ASSUME NEW t \in Callers, WaitUntilIdle(t) \/ FoundIdle(t)
      PROVE  LockDiscipline'
  BY <1>8 DEF WaitUntilIdle, FoundIdle, Callable
<1>9. CASE StartLoop
  BY <1>9 DEF StartLoop
<1>10. CASE WorkerCheck
  BY <1>10 DEF WorkerCheck
<1>11. CASE WorkerBlock \/ SpuriousWakeup
  BY <1>11 DEF WorkerBlock, SpuriousWakeup
<1>12. CASE WorkerLock
  BY <1>12 DEF WorkerLock
<1>13. CASE WorkerApply
  BY <1>13 DEF WorkerApply
<1>14. CASE WorkerRelease
  BY <1>14 DEF WorkerRelease
<1>15. CASE Destructor
  BY <1>15 DEF Destructor, StoreStopping, NotifyStop, NotifyOne, Join
<1>16. CASE Terminated \/ UNCHANGED vars
  BY <1>16 DEF Terminated, vars
<1> QED BY <1>1, <1>2, <1>3, <1>4, <1>5, <1>6, <1>7, <1>8, <1>9, <1>10, <1>11,
           <1>12, <1>13, <1>14, <1>15, <1>16
        DEF Next, Write, CallerStep, WorkerStep

\* The worker holds a batch only while it is going to apply it.
LEMMA BatchStep == BatchDiscipline /\ [Next]_vars => BatchDiscipline'
<1> SUFFICES ASSUME BatchDiscipline, [Next]_vars PROVE BatchDiscipline'
  OBVIOUS
<1> USE DEF BatchDiscipline
<1>1. CASE WorkerStep \/ SpuriousWakeup \/ StartLoop
  BY <1>1 DEF WorkerStep, WorkerCheck, WorkerBlock, WorkerLock, WorkerApply,
              WorkerRelease, SpuriousWakeup, StartLoop
<1>2. CASE Destructor \/ Terminated \/ UNCHANGED vars
  BY <1>2 DEF Destructor, StoreStopping, NotifyStop, NotifyOne, Join, Terminated, vars
<1>3. ASSUME NEW t \in Callers, Write(t) \/ BeginRead(t) \/ WaitUntilIdle(t)
      PROVE  BatchDiscipline'
  BY <1>3 DEF Write, WriteRefused, WriteSync, BeginRead, WaitUntilIdle
<1>4. ASSUME NEW t \in Callers, CallerStep(t) PROVE BatchDiscipline'
  BY <1>4 DEF CallerStep, Release, Push, Notify, NotifyOne, EndRead, FoundIdle
<1> QED BY <1>1, <1>2, <1>3, <1>4 DEF Next

\* No write leaves a port on an unloaded car.
LEMMA PortStep == TypeOK /\ UnloadedHasNoPort /\ [Next]_vars => UnloadedHasNoPort'
<1> SUFFICES ASSUME TypeOK, UnloadedHasNoPort, [Next]_vars PROVE UnloadedHasNoPort'
  OBVIOUS
<1>1. ASSUME NEW t \in Callers, NEW call \in Calls, WriteSync(t, call)
      PROVE  UnloadedHasNoPort'
  <2>1. call \in Call
    BY CallsAreCalls
  <2> SUFFICES ASSUME NEW c \in Cars, ~items'[c].loaded PROVE items'[c].port = NoPort
    BY DEF UnloadedHasNoPort
  <2>2. items'[c] = IF c = call.car THEN WrittenNow(items[c], call) ELSE items[c]
    BY <1>1, <2>1 DEF WriteSync, ApplyNow, TypeOK
  <2>3. items[c] \in CarItem /\ (~items[c].loaded => items[c].port = NoPort)
    BY DEF TypeOK, UnloadedHasNoPort
  <2> QED BY <2>1, <2>2, <2>3, WrittenNowLemma
<1>2. CASE WorkerApply
  <2>1. Head(localq) \in Event
    BY <1>2 DEF WorkerApply, TypeOK
  <2> DEFINE ev == Head(localq)
  <2> SUFFICES ASSUME NEW c \in Cars, ~items'[c].loaded PROVE items'[c].port = NoPort
    BY DEF UnloadedHasNoPort
  <2>2. items'[c] = IF c = ev.carID THEN WrittenLater(items[c], ev.call) ELSE items[c]
    BY <1>2 DEF WorkerApply, ApplyLater, TypeOK
  <2>3. items[c] \in CarItem /\ (~items[c].loaded => items[c].port = NoPort)
    BY DEF TypeOK, UnloadedHasNoPort
  <2>4. ev.call \in Call
    BY <2>1 DEF Event
  <2> QED BY <2>2, <2>3, <2>4, WrittenLaterLemma
<1>3. CASE UNCHANGED items
  BY <1>3 DEF UnloadedHasNoPort
<1> QED
  BY <1>1, <1>2, <1>3
     DEF Next, Write, WriteRefused, BeginRead, WaitUntilIdle, CallerStep, Release, Push,
         Notify, EndRead, FoundIdle, StartLoop, WorkerStep, WorkerCheck, WorkerBlock,
         WorkerLock, WorkerRelease, SpuriousWakeup, Destructor, StoreStopping,
         NotifyStop, Join, Terminated, vars

\* The queue is empty when the worker goes to sleep or leaves, and nobody is
\* inside an operation before startLoop or during the destructor.
LEMMA PhaseStep == TypeOK /\ PhaseDiscipline /\ [Next]_vars => PhaseDiscipline'
<1> SUFFICES ASSUME TypeOK, PhaseDiscipline, [Next]_vars PROVE PhaseDiscipline'
  OBVIOUS
<1> USE DEF TypeOK, PhaseDiscipline, GoTo, Stopping
<1>1. ASSUME NEW t \in Callers, Write(t) \/ BeginRead(t) \/ WaitUntilIdle(t)
      PROVE  PhaseDiscipline'
  BY <1>1 DEF Write, WriteRefused, WriteSync, BeginRead, WaitUntilIdle, Callable
<1>2. ASSUME NEW t \in Callers, Release(t) \/ EndRead(t) \/ FoundIdle(t)
      PROVE  PhaseDiscipline'
  BY <1>2 DEF Release, EndRead, FoundIdle
<1>3. ASSUME NEW t \in Callers, NEW call \in Calls, Push(t, call)
      PROVE  PhaseDiscipline'
  BY <1>3 DEF Push, QMutexFree
<1>4. ASSUME NEW t \in Callers, Notify(t) PROVE PhaseDiscipline'
  BY <1>4 DEF Notify, NotifyOne
<1>5. CASE StartLoop
  BY <1>5 DEF StartLoop
<1>6. CASE WorkerCheck
  BY <1>6 DEF WorkerCheck
<1>7. CASE WorkerBlock \/ WorkerLock \/ WorkerApply \/ WorkerRelease \/ SpuriousWakeup
  BY <1>7 DEF WorkerBlock, WorkerLock, WorkerApply, WorkerRelease, SpuriousWakeup
<1>8. CASE Destructor
  BY <1>8 DEF Destructor, StoreStopping, NotifyStop, NotifyOne, Join
<1>9. CASE Terminated \/ UNCHANGED vars
  BY <1>9 DEF Terminated, vars
<1> QED BY <1>1, <1>2, <1>3, <1>4, <1>5, <1>6, <1>7, <1>8, <1>9
        DEF Next, CallerStep, WorkerStep

\* A push is never slept through: the worker goes to sleep only with q empty,
\* and a thread that pushes while it sleeps still has its notify to do.
LEMMA PushStep == TypeOK /\ PhaseDiscipline /\ NoLostPush /\ [Next]_vars => NoLostPush'
<1> SUFFICES ASSUME TypeOK, PhaseDiscipline, NoLostPush, [Next]_vars PROVE NoLostPush'
  OBVIOUS
<1> USE DEF TypeOK, PhaseDiscipline, NoLostPush, GoTo, Stopping
<1>1. ASSUME NEW t \in Callers, Write(t) \/ BeginRead(t) \/ WaitUntilIdle(t)
      PROVE  NoLostPush'
  BY <1>1 DEF Write, WriteRefused, WriteSync, BeginRead, WaitUntilIdle, Callable
<1>2. ASSUME NEW t \in Callers, Release(t) \/ EndRead(t) \/ FoundIdle(t)
      PROVE  NoLostPush'
  BY <1>2 DEF Release, EndRead, FoundIdle
<1>3. ASSUME NEW t \in Callers, NEW call \in Calls, Push(t, call) PROVE NoLostPush'
  BY <1>3 DEF Push
<1>4. ASSUME NEW t \in Callers, Notify(t) PROVE NoLostPush'
  BY <1>4 DEF Notify, NotifyOne
<1>5. CASE StartLoop \/ WorkerCheck
  BY <1>5 DEF StartLoop, WorkerCheck
<1>6. CASE WorkerBlock \/ WorkerLock \/ WorkerApply \/ WorkerRelease \/ SpuriousWakeup
  BY <1>6 DEF WorkerBlock, WorkerLock, WorkerApply, WorkerRelease, SpuriousWakeup
<1>7. CASE Destructor
  BY <1>7 DEF Destructor, StoreStopping, NotifyStop, NotifyOne, Join
<1>8. CASE Terminated \/ UNCHANGED vars
  BY <1>8 DEF Terminated, vars
<1> QED BY <1>1, <1>2, <1>3, <1>4, <1>5, <1>6, <1>7, <1>8
        DEF Next, CallerStep, WorkerStep

----------------------------------------------------------------------------
\* IInv holds in every reachable state.
LEMMA IInvStep == IInv /\ [Next]_vars => IInv'
BY TypeStep, LockStep, BatchStep, PortStep, PhaseStep, PushStep DEF IInv

LEMMA IInvInductive == Spec => []IInv
BY InitIInv, IInvStep, PTL DEF Spec

\* The types are right in every reachable state.
THEOREM TypeCorrect == Spec => []TypeOK
<1>1. IInv => TypeOK
  BY DEF IInv
<1> QED BY IInvInductive, <1>1, PTL

\* carItemsLock excludes readers from writers, and is held by exactly the
\* threads inside the critical sections of the write and read operations.
THEOREM LockCorrect == Spec => []LockDiscipline
<1>1. IInv => LockDiscipline
  BY DEF IInv
<1> QED BY IInvInductive, <1>1, PTL

\* No mixture of immediate, deferred and misdirected writes leaves a delivery
\* port on a car that is not loaded.
THEOREM UnloadedCarHasNoPort == Spec => []UnloadedHasNoPort
<1>1. IInv => UnloadedHasNoPort
  BY DEF IInv
<1> QED BY IInvInductive, <1>1, PTL

\* The worker never sleeps over a pushed event.
THEOREM PushesAreNoticed == Spec => []NoLostPush
<1>1. IInv => NoLostPush
  BY DEF IInv
<1> QED BY IInvInductive, <1>1, PTL

\* The destructor returns only when every deferred write was applied.
THEOREM JoinDrains == Spec => []JoinedMeansDrained
<1>1. IInv => JoinedMeansDrained
  BY DEF IInv, PhaseDiscipline, BatchDiscipline, JoinedMeansDrained, Outstanding
<1> QED BY IInvInductive, <1>1, PTL

\* The table does not change under a reader.
THEOREM ReadersAreIsolated == Spec => ReadersSeeStableTable
<1>1. IInv /\ [Next]_vars => [readers # {} => items' = items]_vars
  <2> SUFFICES ASSUME IInv, Next, readers # {} PROVE items' = items
    BY DEF vars
  <2>1. readers # {} /\ holder = "nobody" /\ worker # "apply"
    BY DEF IInv, LockDiscipline
  <2> QED
    BY <2>1 DEF Next, Write, WriteSync, LockFree, WriteRefused, BeginRead, WaitUntilIdle,
         CallerStep, Release, Push, Notify, EndRead, FoundIdle, StartLoop, WorkerStep,
         WorkerCheck, WorkerBlock, WorkerLock, WorkerApply, WorkerRelease,
         SpuriousWakeup, Destructor, StoreStopping, NotifyStop, Join, Terminated, vars
<1> QED BY IInvInductive, <1>1, PTL DEF Spec, ReadersSeeStableTable

----------------------------------------------------------------------------
\* Pushing appends to the list of deferred writes, the batch followed by q.
LEMMA PushAppends ==
  ASSUME NEW s \in Seq(Event), NEW r \in Seq(Event), NEW e \in Event
  PROVE  s \o Append(r, e) = Append(s \o r, e)
  OBVIOUS

\* The swap of an empty batch with the queue leaves the concatenation alone.
LEMMA SwapKeeps == ASSUME NEW s \in Seq(Event) PROVE s \o <<>> = <<>> \o s
  OBVIOUS

\* Applying the head of the batch takes the head of the whole list.
LEMMA ApplyTakesHead ==
  ASSUME NEW s \in Seq(Event), NEW r \in Seq(Event), s # <<>>
  PROVE  s \o r # <<>> /\ Head(s \o r) = Head(s) /\ Tail(s \o r) = Tail(s) \o r
  OBVIOUS

\* The instance's copies of the table's operators are the table's operators.
LEMMA SameTable ==
  /\ Abstract!Calls = Calls
  /\ Abstract!EmptyItem = EmptyItem
  /\ \A call : Abstract!MakeEvents(call) = MakeEvents(call)
  /\ \A tab, call : Abstract!ApplyNow(tab, call) = ApplyNow(tab, call)
  /\ \A tab, ev : Abstract!ApplyLater(tab, ev) = ApplyLater(tab, ev)
<1>1. Abstract!EmptyItem = EmptyItem
  BY DEF Abstract!EmptyItem, EmptyItem
<1>2. Abstract!Calls = Calls
  BY DEF Abstract!Calls, Calls, Abstract!WriteSlot, WriteSlot, Abstract!WriteItem,
         WriteItem, Abstract!SetRunNum, SetRunNum, Abstract!InitItem, InitItem,
         Abstract!Turns, Turns
<1>3. \A call : Abstract!MakeEvents(call) = MakeEvents(call)
  BY DEF Abstract!MakeEvents, MakeEvents
<1>4. \A it, call : Abstract!WrittenNow(it, call) = WrittenNow(it, call)
  BY <1>1 DEF Abstract!WrittenNow, WrittenNow, Abstract!Slotted, Slotted
<1>5. \A it, call : Abstract!WrittenLater(it, call) = WrittenLater(it, call)
  BY <1>1 DEF Abstract!WrittenLater, WrittenLater, Abstract!Slotted, Slotted
<1>6. \A tab, call : Abstract!ApplyNow(tab, call) = ApplyNow(tab, call)
  BY <1>4 DEF Abstract!ApplyNow, ApplyNow
<1>7. \A tab, ev : Abstract!ApplyLater(tab, ev) = ApplyLater(tab, ev)
  BY <1>5 DEF Abstract!ApplyLater, ApplyLater
<1> QED BY <1>1, <1>2, <1>3, <1>6, <1>7

\* The writer implements DeferredWrites: a synchronous write is WriteAtOnce, a
\* push is Defer, an application by the worker is ApplyOldest, and every other
\* step, the swap included, changes nothing of what DeferredWrites sees.
THEOREM WriterDefersInOrder == Spec => DeferredInOrder
<1>1. Init => Abstract!Init
  BY SameTable DEF Init, Abstract!Init, Outstanding
<1>2. IInv /\ [Next]_vars => [Abstract!Next]_(Abstract!vars)
  <2> SUFFICES ASSUME IInv, [Next]_vars
               PROVE  Abstract!Next \/ UNCHANGED <<items, Outstanding>>
    BY DEF Abstract!vars
  <2>0. localq \in Seq(Event) /\ q \in Seq(Event)
    BY DEF IInv, TypeOK
  <2>1. ASSUME NEW t \in Callers, NEW call \in Calls, WriteSync(t, call)
        PROVE  Abstract!Next
    BY <2>1, SameTable DEF WriteSync, Outstanding, Abstract!Next, Abstract!WriteAtOnce
  <2>2. ASSUME NEW t \in Callers, NEW call \in Calls, Push(t, call)
        PROVE  Abstract!Next
    <3>1. PICK ev \in MakeEvents(call) : q' = Append(q, ev)
      BY <2>2 DEF Push
    <3>2. ev \in Event
      BY CallsAreCalls DEF MakeEvents, Event
    <3>3. Outstanding' = Append(Outstanding, ev)
      BY <2>0, <2>2, <3>1, <3>2, PushAppends DEF Push, Outstanding
    <3> QED BY <2>2, <3>1, <3>3, SameTable DEF Push, Abstract!Next, Abstract!Defer
  <2>3. CASE WorkerApply
    <3>1. /\ Outstanding # <<>>
          /\ Head(Outstanding) = Head(localq)
          /\ Outstanding' = Tail(Outstanding)
      BY <2>0, <2>3, ApplyTakesHead DEF WorkerApply, Outstanding
    <3> QED BY <2>3, <3>1, SameTable DEF WorkerApply, Abstract!Next, Abstract!ApplyOldest
  <2>4. CASE WorkerCheck
    <3>1. localq = <<>>
      BY <2>4 DEF IInv, BatchDiscipline, WorkerCheck
    <3>2. Outstanding' = Outstanding
      <4>1. CASE q = <<>>
        BY <2>4, <4>1 DEF WorkerCheck, Outstanding
      <4>2. CASE q # <<>>
        BY <2>0, <2>4, <3>1, <4>2, SwapKeeps DEF WorkerCheck, Outstanding
      <4> QED BY <4>1, <4>2
    <3> QED BY <2>4, <3>2 DEF WorkerCheck
  <2>5. CASE UNCHANGED <<items, q, localq>>
    BY <2>5 DEF Outstanding
  <2> QED
    BY <2>1, <2>2, <2>3, <2>4, <2>5
       DEF Next, Write, WriteRefused, BeginRead, WaitUntilIdle, CallerStep, Release,
           Notify, EndRead, FoundIdle, StartLoop, WorkerStep, WorkerBlock, WorkerLock,
           WorkerRelease, SpuriousWakeup, Destructor, StoreStopping, NotifyStop, Join,
           Terminated, vars
<1> QED BY IInvInductive, <1>1, <1>2, PTL DEF Spec, DeferredInOrder, Abstract!Order

----------------------------------------------------------------------------
(***************************************************************************)
(* UnloadLoop.                                                             *)
(***************************************************************************)
LoopTypes ==
    /\ version \in Nat /\ lastVer \in 0 .. version /\ seenVer \in 0 .. version
    /\ copy \in [Cars -> CarItem]
    /\ loop \in {"top", "reload", "copy", "scan", "init", "initing"} /\ next \in Nat
    /\ handler \in {"idle", "slotRead", "emptyRead", "write", "writing"}

\* Each of the two threads is inside the writer exactly while its code is, and
\* passes it a call it knows.
CallInv ==
    /\ handler # "idle" => job \in Calls /\ job.type # "InitItem"
    /\ loop \in {"init", "initing"} => next \in Cars
    /\ handler \in {"idle", "write"} => pc[Main] = "idle"
    /\ handler \in {"slotRead", "emptyRead"} => pc[Main] = "reading"
    /\ loop \in {"top", "reload", "scan", "init"} => pc[CarLoop] = "idle"
    /\ loop = "copy" => pc[CarLoop] = "reading"

\* A car that was driven and that no deferred write touched has no port, neither
\* in the table nor in the copy carLoop will use when it comes to the car again.
Unloaded(c) ==
    \/ loop = "init" /\ next = c
    \/ /\ items[c].port = NoPort
       /\ \/ copy[c].port = NoPort
          \/ loop = "initing" /\ next = c
          \/ version # lastVer /\ (loop \in {"top", "reload", "copy"} \/ next > c)
SpentInv == \A c \in Cars : c \in spent \ tainted => Unloaded(c)

LoopInv == IInv /\ LoopTypes /\ CallInv /\ CopyIsCurrent /\ SpentInv

----------------------------------------------------------------------------
\* What a write made at once does to the ports.
LEMMA PortsAfterWrite ==
  ASSUME items \in [Cars -> CarItem], NEW call \in Calls,
         items' = ApplyNow(items, call)
  PROVE  /\ call.car \in Cars
         /\ \A c \in Cars : c # call.car \/ call.type \in {"WriteItem", "SetRunNum"}
                => items'[c].port = items[c].port
         /\ call.type = "InitItem" => items'[call.car].port = NoPort
<1>1. call \in Call
  BY CallsAreCalls
<1>2. call.car \in Cars
  BY <1>1 DEF Call
<1>3. items' = [items EXCEPT ![call.car] = WrittenNow(items[call.car], call)]
  BY DEF ApplyNow
<1>4. ASSUME NEW it \in CarItem
      PROVE  /\ call.type = "WriteItem" => WrittenNow(it, call).port = it.port
             /\ call.type = "SetRunNum" => WrittenNow(it, call).port = it.port
             /\ call.type = "InitItem" => WrittenNow(it, call).port = NoPort
  <2>1. call.type = "WriteItem" => WrittenNow(it, call).port = it.port
    BY DEF WrittenNow, CarItem
  <2>2. call.type = "SetRunNum" => WrittenNow(it, call).port = it.port
    BY DEF WrittenNow, CarItem
  <2>3. call.type = "InitItem" => WrittenNow(it, call).port = NoPort
    BY DEF WrittenNow, EmptyItem
  <2> QED BY <2>1, <2>2, <2>3
<1> QED BY <1>2, <1>3, <1>4

\* The calls of the two threads are calls of the writer's interface.
LEMMA CallsOfTheLoop ==
  ASSUME NEW c \in Cars
  PROVE  /\ \A p \in Ports : WriteSlot(c, p) \in Calls /\ WriteSlot(c, p).type = "WriteSlot"
         /\ \A x \in Codes : WriteItem(c, x) \in Calls /\ WriteItem(c, x).type = "WriteItem"
         /\ \A n \in Turns : SetRunNum(c, n) \in Calls /\ SetRunNum(c, n).type = "SetRunNum"
         /\ InitItem(c) \in Calls /\ InitItem(c).type = "InitItem" /\ InitItem(c).car = c
BY DEF Calls, WriteSlot, WriteItem, SetRunNum, InitItem

LEMMA CarsAreNumbers == \A c \in Cars : c \in Nat
<1>1. Cardinality(Cars) \in Nat
  BY LoopAssumption, FS_CardinalityType
<1> QED BY <1>1, LoopAssumption

LEMMA LoopInitHolds == LoopInit => LoopInv
<1> SUFFICES ASSUME LoopInit PROVE LoopInv
  OBVIOUS
<1>1. IInv
  BY InitIInv DEF LoopInit
<1>2. LoopTypes
  BY EmptyItemType DEF LoopInit, LoopTypes
<1>3. CallInv
  BY LoopAssumption DEF LoopInit, Init, CallInv
<1>4. CopyIsCurrent /\ SpentInv
  BY DEF LoopInit, Init, CopyIsCurrent, SpentInv
<1> QED BY <1>1, <1>2, <1>3, <1>4 DEF LoopInv

\* Every step of the two threads, of the worker and of the environment is a step
\* of the writer or leaves it alone.
LEMMA StepsOfTheWriter == LoopInv /\ [LoopNext]_allVars => [Next]_vars
<1> SUFFICES ASSUME LoopInv, [LoopNext]_allVars PROVE Next \/ UNCHANGED vars
  OBVIOUS
<1>1. Main \in Callers /\ CarLoop \in Callers
  BY LoopAssumption
<1>2. handler # "idle" => job \in Calls
  BY DEF LoopInv, CallInv
<1>3. loop \in {"init", "initing"} => InitItem(next) \in Calls
  BY CallsOfTheLoop DEF LoopInv, CallInv
<1>4. CASE MainStarts
  BY <1>1, <1>4 DEF MainStarts, SlotAssigned, EmptyReported, CodeScanned, HeadReceive, Next
<1>5. CASE SlotCompared \/ EmptyDecided \/ LoopCopy
  BY <1>1, <1>5 DEF SlotCompared, EmptyDecided, LoopCopy, Next, CallerStep
<1>6. CASE MainWrite
  BY <1>1, <1>2, <1>6 DEF MainWrite, Next, Write
<1>7. CASE MainInside
  <2>1. Push(Main, job) => handler # "idle"
    BY DEF Push, LoopInv, CallInv
  <2> QED
    BY <1>1, <1>2, <1>7, <2>1 DEF MainInside, Next, CallerStep
<1>8. CASE MainFinish \/ LoopTop \/ LoopSkip \/ LoopEnd \/ LoopDrive \/ LoopFinish
  BY <1>8 DEF MainFinish, LoopTop, LoopSkip, LoopEnd, LoopDrive, LoopFinish
<1>9. CASE LoopReset
  BY <1>1, <1>3, <1>9 DEF LoopReset, Next, Write
<1>10. CASE LoopInside
  <2>1. Push(CarLoop, InitItem(next)) => loop \in {"init", "initing"}
    BY DEF Push, LoopInv, CallInv, LoopTypes
  <2> QED
    BY <1>1, <1>3, <1>10, <2>1 DEF LoopInside, Next, CallerStep
<1>11. CASE LoopReload
  BY <1>1, <1>11 DEF LoopReload, Next
<1>12. CASE WorkerMoves \/ WorkerApplies
  BY <1>12 DEF WorkerMoves, WorkerApplies, Next, WorkerStep
<1>13. CASE UNCHANGED allVars
  BY <1>13 DEF allVars
<1> QED
  BY <1>4, <1>5, <1>6, <1>7, <1>8, <1>9, <1>10, <1>11, <1>12, <1>13
     DEF LoopNext, MainStep, LoopStep
----------------------------------------------------------------------------
\* A deferred write changes ports only at the car its event names.
LEMMA PortsAfterApply ==
  ASSUME TypeOK, WorkerApplies, NEW c \in Cars, c \notin hidden' \/ c \notin tainted'
  PROVE  items'[c] = items[c]
<1>1. Head(localq).carID \in Cars => Head(localq).carID \in hidden' \cap tainted'
  BY DEF WorkerApplies
<1>2. items' = ApplyLater(items, Head(localq))
  BY DEF WorkerApplies, WorkerApply
<1> QED BY <1>1, <1>2 DEF ApplyLater, TypeOK

LEMMA LoopTypesStep == LoopInv /\ [LoopNext]_allVars => LoopTypes'
<1> SUFFICES ASSUME LoopInv, [LoopNext]_allVars PROVE LoopTypes'
  OBVIOUS
<1> USE DEF LoopTypes
<1>1. LoopTypes /\ TypeOK
  BY DEF LoopInv, IInv
<1>2. CASE MainStarts
  <2>1. /\ handler' \in {"idle", "slotRead", "emptyRead", "write"}
        /\ UNCHANGED <<version, loopVars>>
    BY <1>2 DEF MainStarts, SlotAssigned, EmptyReported, CodeScanned, HeadReceive, mainVars
  <2> QED
    BY <1>1, <2>1 DEF loopVars
<1>3. CASE SlotCompared \/ EmptyDecided \/ MainWrite \/ MainInside
  BY <1>1, <1>3 DEF SlotCompared, EmptyDecided, MainWrite, MainInside, unloadVars, loopVars, mainVars
<1>4. CASE MainFinish
  BY <1>1, <1>4 DEF MainFinish, IncVersion, loopVars
<1>5. CASE LoopTop \/ LoopSkip \/ LoopEnd
  BY <1>1, <1>5 DEF LoopTop, LoopSkip, LoopEnd, mainVars
<1>6. CASE LoopReload
  BY <1>1, <1>6 DEF LoopReload, mainVars
<1>7. CASE LoopCopy
  BY <1>1, <1>7 DEF LoopCopy, mainVars, TypeOK
<1>8. CASE LoopDrive
  <2>1. next' \in Nat /\ loop' \in {loop, "init"}
    BY <1>1, <1>8 DEF LoopDrive
  <2> QED
    BY <1>1, <1>8, <2>1 DEF LoopDrive, mainVars
<1>9. CASE LoopReset \/ LoopInside
  BY <1>1, <1>9 DEF LoopReset, LoopInside, unloadVars, loopVars, mainVars
<1>10. CASE LoopFinish
  BY <1>1, <1>10 DEF LoopFinish, IncVersion, mainVars
<1>11. CASE WorkerMoves \/ WorkerApplies \/ UNCHANGED allVars
  BY <1>1, <1>11 DEF WorkerMoves, WorkerApplies, unloadVars, loopVars, mainVars, allVars
<1> QED
  BY <1>2, <1>3, <1>4, <1>5, <1>6, <1>7, <1>8, <1>9, <1>10, <1>11
     DEF LoopNext, MainStep, LoopStep

LEMMA CallInvStep == LoopInv /\ [LoopNext]_allVars => CallInv'
<1> SUFFICES ASSUME LoopInv, [LoopNext]_allVars PROVE CallInv'
  OBVIOUS
<1>1. /\ pc \in [Callers -> CallerSteps] /\ Main \in Callers /\ CarLoop \in Callers
      /\ Main # CarLoop /\ LoopTypes /\ CallInv
      /\ items \in [Cars -> CarItem]
  BY LoopAssumption DEF LoopInv, IInv, TypeOK
<1> USE DEF GoTo
<1>2. ASSUME NEW c \in Cars, NEW p \in Ports \cup {NoPort}, SlotAssigned(c, p)
      PROVE  CallInv'
  <2>1. job' \in Calls /\ job'.type = "WriteSlot"
    BY <1>2, CallsOfTheLoop, LoopAssumption DEF SlotAssigned
  <2> QED
    BY <1>1, <1>2, <2>1 DEF SlotAssigned, BeginRead, CallInv, loopVars
<1>3. ASSUME NEW c \in Cars, EmptyReported(c) PROVE CallInv'
  <2>1. job' \in Calls /\ job'.type = "SetRunNum"
    BY <1>3, CallsOfTheLoop, TableAssumption DEF EmptyReported, Turns
  <2> QED
    BY <1>1, <1>3, <2>1 DEF EmptyReported, BeginRead, CallInv, loopVars
<1>4. ASSUME NEW c \in Cars, NEW x \in Codes, CodeScanned(c, x) PROVE CallInv'
  <2>1. job' \in Calls /\ job'.type = "WriteItem"
    BY <1>4, CallsOfTheLoop DEF CodeScanned
  <2> QED
    BY <1>1, <1>4, <2>1 DEF CodeScanned, CallInv, loopVars, vars
<1>5. CASE HeadReceive \/ LoopTop \/ LoopSkip \/ LoopEnd
  BY <1>1, <1>5 DEF HeadReceive, LoopTop, LoopSkip, LoopEnd, CallInv, vars, loopVars, mainVars
<1>6. CASE SlotCompared
  BY <1>1, <1>6 DEF SlotCompared, EndRead, CallInv, loopVars
<1>7. CASE EmptyDecided
  <2>1. handler' # "idle" => job' \in Calls /\ job'.type # "InitItem"
    <3> SUFFICES ASSUME handler' # "idle" PROVE job' \in Calls /\ job'.type # "InitItem"
      OBVIOUS
    <3> DEFINE it == items[job.car]
    <3>1. job \in Calls
      BY <1>1, <1>7 DEF EmptyDecided, CallInv
    <3>2. job.car \in Cars
      BY <3>1, CallsAreCalls DEF Call
    <3>3. it.turns \in Turns
      BY <1>1, <3>2 DEF CarItem
    <3>4. job' = IF it.turns <= EmptyLimit THEN SetRunNum(job.car, it.turns + 1)
                                           ELSE WriteSlot(job.car, TestPort)
      BY <1>7 DEF EmptyDecided
    <3> HIDE DEF it
    <3>5. it.turns <= EmptyLimit => it.turns + 1 \in Turns
      BY <3>3, LoopAssumption, TableAssumption DEF Turns
    <3> QED
      BY <3>2, <3>4, <3>5, CallsOfTheLoop, LoopAssumption
  <2>2. handler' \in {"idle", "write"} /\ pc' = [pc EXCEPT ![Main] = "idle"] /\ UNCHANGED <<loop, next>>
    BY <1>7 DEF EmptyDecided, EndRead, loopVars
  <2> QED
    BY <1>1, <2>1, <2>2 DEF CallInv
<1>8. CASE MainWrite
  BY <1>1, <1>8 DEF MainWrite, WriteSync, WriteRefused, CallInv, loopVars
<1>9. CASE MainInside
  <2>1. handler = "writing"
    BY <1>1, <1>9 DEF MainInside, Release, Notify, Push, CallInv, LoopTypes
  <2>2. \A t \in Callers \ {Main} : pc'[t] = pc[t]
    BY <1>1, <1>9 DEF MainInside, Release, Notify, Push
  <2>3. UNCHANGED <<handler, job, loop, next>>
    BY <1>9 DEF MainInside, unloadVars, loopVars, mainVars
  <2> QED
    BY <1>1, <2>1, <2>2, <2>3 DEF CallInv
<1>10. CASE MainFinish
  BY <1>1, <1>10 DEF MainFinish, CallInv, vars, loopVars
<1>11. CASE LoopReload
  BY <1>1, <1>11 DEF LoopReload, BeginRead, CallInv, mainVars
<1>12. CASE LoopCopy
  BY <1>1, <1>12 DEF LoopCopy, EndRead, CallInv, mainVars
<1>13. CASE LoopDrive
  <2>1. /\ loop' \in {"scan", "init"} /\ (loop' = "init" => next' \in Cars)
        /\ UNCHANGED <<pc, handler, job>> /\ loop = "scan"
    BY <1>13 DEF LoopDrive, vars, mainVars
  <2> QED
    BY <1>1, <2>1 DEF CallInv
<1>14. CASE LoopReset
  <2>1. /\ loop = "init" /\ loop' = "initing" /\ UNCHANGED <<next, handler, job>>
        /\ \A t \in Callers \ {CarLoop} : pc'[t] = pc[t]
    BY <1>1, <1>14 DEF LoopReset, WriteSync, WriteRefused, mainVars
  <2> QED
    BY <1>1, <2>1 DEF CallInv
<1>15. CASE LoopInside
  <2>1. loop = "initing"
    BY <1>1, <1>15 DEF LoopInside, Release, Notify, Push, CallInv, LoopTypes
  <2>2. \A t \in Callers \ {CarLoop} : pc'[t] = pc[t]
    BY <1>1, <1>15 DEF LoopInside, Release, Notify, Push
  <2>3. UNCHANGED <<handler, job, loop, next>>
    BY <1>15 DEF LoopInside, unloadVars, loopVars, mainVars
  <2> QED
    BY <1>1, <2>1, <2>2, <2>3 DEF CallInv
<1>16. CASE LoopFinish
  BY <1>1, <1>16 DEF LoopFinish, CallInv, vars, mainVars
<1>17. CASE WorkerMoves \/ WorkerApplies \/ UNCHANGED allVars
  <2>1. UNCHANGED <<pc, handler, job, loop, next>>
    BY <1>17 DEF WorkerMoves, WorkerApplies, StartLoop, WorkerCheck, WorkerBlock, WorkerLock,
                 WorkerRelease, SpuriousWakeup, WorkerApply, unloadVars, loopVars, mainVars,
                 allVars, vars
  <2> QED
    BY <1>1, <2>1 DEF CallInv
<1> QED
  BY <1>2, <1>3, <1>4, <1>5, <1>6, <1>7, <1>8, <1>9, <1>10, <1>11, <1>12, <1>13,
     <1>14, <1>15, <1>16, <1>17
     DEF LoopNext, MainStarts, MainStep, LoopStep
\* carLoop's copy: the only steps that change a port without counting the version
\* up are those CopyIsCurrent names, and the version never falls back to lastVer.
LEMMA CopyStep == LoopInv /\ [LoopNext]_allVars => CopyIsCurrent'
<1> SUFFICES ASSUME LoopInv, [LoopNext]_allVars PROVE CopyIsCurrent'
  OBVIOUS
<1>1. /\ items \in [Cars -> CarItem] /\ TypeOK /\ LoopTypes /\ CallInv /\ CopyIsCurrent
  BY DEF LoopInv, IInv, TypeOK
<1>3. CASE MainWrite
  <2>1. UNCHANGED <<copy, version, lastVer, hidden, loop, next, job>> /\ handler' = "writing" /\ handler = "write"
    BY <1>3 DEF MainWrite, loopVars
  <2>2. CASE WriteSync(Main, job)
    <3>1. job \in Calls /\ job.type # "InitItem" /\ items' = ApplyNow(items, job)
      BY <1>1, <2>1, <2>2 DEF WriteSync, CallInv
    <3>2. job.type \in {"WriteSlot", "WriteItem", "SetRunNum", "InitItem"}
      BY <3>1, CallsAreCalls DEF Call
    <3>3. \A c \in Cars : c # job.car \/ job.type # "WriteSlot" => items'[c].port = items[c].port
      BY <1>1, <3>1, <3>2, PortsAfterWrite
    <3> QED
      BY <1>1, <2>1, <3>3 DEF CopyIsCurrent
  <2>3. CASE WriteRefused(Main)
    BY <1>1, <2>1, <2>3 DEF WriteRefused, CopyIsCurrent
  <2> QED
    BY <1>3, <2>2, <2>3 DEF MainWrite
<1>4. CASE MainFinish
  <2>1. UNCHANGED <<items, copy, lastVer, hidden, loop, next, job>>
    BY <1>4 DEF MainFinish, vars, loopVars, history
  <2>2. CASE job.type = "WriteSlot"
    <3>1. version' = version + 1
      BY <1>4, <2>2 DEF MainFinish, IncVersion
    <3>2. version' # lastVer'
      BY <1>1, <2>1, <3>1 DEF LoopTypes
    <3> QED
      BY <3>2 DEF CopyIsCurrent
  <2>3. CASE job.type # "WriteSlot"
    BY <1>1, <1>4, <2>1, <2>3 DEF MainFinish, CopyIsCurrent
  <2> QED
    BY <2>2, <2>3
<1>5. CASE LoopCopy
  BY <1>5 DEF LoopCopy, EndRead, CopyIsCurrent
<1>6. CASE LoopReset
  <2>1. /\ UNCHANGED <<copy, version, lastVer, hidden, next, handler, job>>
        /\ loop' = "initing" /\ loop = "init"
    BY <1>6 DEF LoopReset, mainVars
  <2>2. CASE WriteSync(CarLoop, InitItem(next))
    <3>1. next \in Cars /\ items' = ApplyNow(items, InitItem(next))
      BY <1>1, <2>1, <2>2 DEF WriteSync, CallInv
    <3>2. InitItem(next) \in Calls /\ InitItem(next).car = next
      BY <3>1, CallsOfTheLoop
    <3>3. \A c \in Cars : c # next => items'[c].port = items[c].port
      BY <1>1, <3>1, <3>2, PortsAfterWrite
    <3> QED
      BY <1>1, <2>1, <3>3 DEF CopyIsCurrent
  <2>3. CASE WriteRefused(CarLoop)
    BY <1>1, <2>1, <2>3 DEF WriteRefused, CopyIsCurrent
  <2> QED
    BY <1>6, <2>2, <2>3 DEF LoopReset
<1>7. CASE LoopFinish
  <2>1. version' = version + 1 /\ lastVer' = lastVer
    BY <1>7 DEF LoopFinish, IncVersion
  <2>2. version' # lastVer'
    BY <1>1, <2>1 DEF LoopTypes
  <2> QED
    BY <2>2 DEF CopyIsCurrent
<1>8. CASE WorkerApplies
  <2>1. UNCHANGED <<copy, version, lastVer, loop, next, handler, job>> /\ hidden \subseteq hidden'
    BY <1>8 DEF WorkerApplies, loopVars, mainVars
  <2>2. \A c \in Cars : c \notin hidden' => items'[c] = items[c]
    BY <1>1, <1>8, PortsAfterApply
  <2> QED
    BY <1>1, <2>1, <2>2 DEF CopyIsCurrent
<1>9. CASE MainInside \/ LoopInside \/ WorkerMoves \/ UNCHANGED allVars
  <2>1. UNCHANGED <<items, copy, version, lastVer, hidden, loop, next, handler, job>>
    BY <1>9 DEF MainInside, LoopInside, WorkerMoves, Release, Notify, Push, StartLoop, WorkerCheck,
                WorkerBlock, WorkerLock, WorkerRelease, SpuriousWakeup, unloadVars, loopVars,
                mainVars, history, allVars, vars
  <2> QED
    BY <1>1, <2>1 DEF CopyIsCurrent
\* The steps of a main thread that does not write leave everything else alone.
<1>10. CASE MainStarts \/ SlotCompared \/ EmptyDecided
  <2>1. UNCHANGED <<items, copy, version, lastVer, hidden, loop, next>> /\ handler # "writing"
    BY <1>10 DEF MainStarts, SlotAssigned, EmptyReported, CodeScanned, HeadReceive, SlotCompared,
                 EmptyDecided, BeginRead, EndRead, loopVars, history, vars
  <2> QED
    BY <1>1, <2>1 DEF CopyIsCurrent
\* Neither do the steps of carLoop that do not reset a car.
<1>11. CASE LoopTop \/ LoopSkip \/ LoopEnd \/ LoopDrive \/ LoopReload
  <2>1. UNCHANGED <<items, copy, version, lastVer, hidden, handler, job>> /\ loop # "initing"
    BY <1>11 DEF LoopTop, LoopSkip, LoopEnd, LoopDrive, LoopReload, BeginRead, mainVars, history, vars
  <2> QED
    BY <1>1, <2>1 DEF CopyIsCurrent
<1> QED
  BY <1>3, <1>4, <1>5, <1>6, <1>7, <1>8, <1>9, <1>10, <1>11
     DEF LoopNext, MainStep, LoopStep

\* A car stays without a port in the table until the main thread gives it one, which
\* ends its being spent, or a deferred write taints it.
LEMMA SpentStep == LoopInv /\ [LoopNext]_allVars => SpentInv'
<1> SUFFICES ASSUME LoopInv, [LoopNext]_allVars, NEW c \in Cars, c \in (spent \ tainted)'
             PROVE  Unloaded(c)'
  BY DEF SpentInv
<1>1. /\ items \in [Cars -> CarItem] /\ TypeOK /\ LoopTypes /\ CallInv
      /\ c \in spent \ tainted => Unloaded(c)
  BY DEF LoopInv, IInv, TypeOK, SpentInv
<1>2. c \in Nat
  BY CarsAreNumbers
<1>3. CASE MainWrite
  <2>1. /\ UNCHANGED <<copy, version, lastVer, loop, next, job>> /\ handler = "write"
        /\ c \in spent \ tainted
        /\ job.type = "WriteSlot" => c # job.car
    BY <1>3 DEF MainWrite, loopVars
  <2>2. CASE WriteSync(Main, job)
    <3>1. job \in Calls /\ job.type # "InitItem" /\ items' = ApplyNow(items, job)
      BY <1>1, <2>1, <2>2 DEF WriteSync, CallInv
    <3>2. job.type \in {"WriteSlot", "WriteItem", "SetRunNum", "InitItem"}
      BY <3>1, CallsAreCalls DEF Call
    <3>3. items'[c].port = items[c].port
      BY <1>1, <2>1, <3>1, <3>2, PortsAfterWrite
    <3> QED
      BY <1>1, <2>1, <3>3 DEF Unloaded
  <2>3. CASE WriteRefused(Main)
    BY <1>1, <2>1, <2>3 DEF WriteRefused, Unloaded
  <2> QED
    BY <1>3, <2>2, <2>3 DEF MainWrite
<1>4. CASE MainFinish
  <2>1. UNCHANGED <<items, copy, lastVer, loop, next, spent, tainted>>
    BY <1>4 DEF MainFinish, vars, loopVars, history
  <2>2. version # lastVer => version' # lastVer'
    BY <1>1, <1>4, <2>1 DEF MainFinish, IncVersion, LoopTypes
  <2> QED
    BY <1>1, <2>1, <2>2 DEF Unloaded
<1>5. CASE LoopTop
  BY <1>1, <1>5 DEF LoopTop, Unloaded, history, vars
<1>6. CASE LoopReload
  BY <1>1, <1>6 DEF LoopReload, BeginRead, Unloaded, history
<1>7. CASE LoopCopy
  BY <1>1, <1>7 DEF LoopCopy, EndRead, Unloaded
<1>8. CASE LoopSkip \/ LoopEnd
  BY <1>1, <1>2, <1>8 DEF LoopSkip, LoopEnd, Unloaded, LoopTypes, history, vars
<1>9. CASE LoopDrive
  <2>1. UNCHANGED <<items, copy, version, lastVer, tainted>> /\ loop = "scan"
    BY <1>9 DEF LoopDrive, vars
  <2>2. \/ next' = next + 1 /\ loop' = loop /\ spent' = spent
        \/ next' = next /\ loop' = "init" /\ spent' = spent \cup {next}
    BY <1>9 DEF LoopDrive
  <2> QED
    BY <1>1, <1>2, <2>1, <2>2 DEF Unloaded, LoopTypes
<1>10. CASE LoopReset
  <2>1. /\ UNCHANGED <<copy, version, lastVer, next, spent>>
        /\ loop' = "initing" /\ loop = "init" /\ next \in Cars
    BY <1>1, <1>10 DEF LoopReset, CallInv
  <2>2. CASE WriteSync(CarLoop, InitItem(next))
    <3>1. items' = ApplyNow(items, InitItem(next))
      BY <2>2 DEF WriteSync
    <3>2. InitItem(next) \in Calls /\ InitItem(next).type = "InitItem" /\ InitItem(next).car = next
      BY <2>1, CallsOfTheLoop
    <3>3. items'[next].port = NoPort /\ (c # next => items'[c].port = items[c].port)
      BY <1>1, <3>1, <3>2, PortsAfterWrite
    <3>4. CASE c = next
      BY <2>1, <3>3, <3>4 DEF Unloaded
    <3>5. CASE c # next
      <4>1. c \in spent \ tainted
        BY <1>10, <2>1, <3>5 DEF LoopReset
      <4> QED
        BY <1>1, <2>1, <3>3, <3>5, <4>1 DEF Unloaded
    <3> QED
      BY <3>4, <3>5
  <2>3. CASE WriteRefused(CarLoop)
    <3>1. c # next /\ c \in spent \ tainted
      BY <1>10, <2>1, <2>3 DEF LoopReset, WriteRefused, WriteSync
    <3> QED
      BY <1>1, <2>1, <2>3, <3>1 DEF WriteRefused, Unloaded
  <2> QED
    BY <1>10, <2>2, <2>3 DEF LoopReset
<1>11. CASE LoopFinish
  <2>1. /\ version' = version + 1 /\ next' = next + 1 /\ loop = "initing" /\ loop' = "scan"
        /\ UNCHANGED <<items, copy, lastVer, spent, tainted>>
    BY <1>11 DEF LoopFinish, IncVersion, history, vars
  <2>2. version' # lastVer'
    BY <1>1, <2>1 DEF LoopTypes
  <2> QED
    BY <1>1, <1>2, <2>1, <2>2 DEF Unloaded, LoopTypes
<1>12. CASE WorkerApplies
  <2>1. UNCHANGED <<copy, version, lastVer, loop, next, spent>> /\ tainted \subseteq tainted'
    BY <1>12 DEF WorkerApplies, loopVars
  <2>2. items'[c] = items[c]
    BY <1>1, <1>12, PortsAfterApply
  <2> QED
    BY <1>1, <2>1, <2>2 DEF Unloaded
\* The other steps change nothing that Unloaded reads.
<1>13. CASE \/ MainStarts \/ SlotCompared \/ EmptyDecided \/ MainInside
            \/ LoopInside \/ WorkerMoves \/ UNCHANGED allVars
  <2>1. UNCHANGED <<items, copy, version, lastVer, loop, next, spent, tainted>>
    BY <1>13 DEF MainStarts, SlotAssigned, EmptyReported, CodeScanned, HeadReceive, SlotCompared,
                 EmptyDecided, BeginRead, EndRead, MainInside, LoopInside, WorkerMoves, Release,
                 Notify, Push, StartLoop, WorkerCheck, WorkerBlock, WorkerLock, WorkerRelease,
                 SpuriousWakeup, unloadVars, loopVars, mainVars, history, allVars, vars
  <2> QED
    BY <1>1, <2>1 DEF Unloaded
<1> QED
  BY <1>3, <1>4, <1>5, <1>6, <1>7, <1>8, <1>9, <1>10, <1>11, <1>12, <1>13
     DEF LoopNext, MainStep, LoopStep

LEMMA LoopInvHolds == LoopSpec => []LoopInv
<1>1. LoopInv /\ [LoopNext]_allVars => LoopInv'
  <2> SUFFICES ASSUME LoopInv, [LoopNext]_allVars PROVE LoopInv'
    OBVIOUS
  <2>1. IInv'
    BY StepsOfTheWriter, IInvStep DEF LoopInv
  <2> QED
    BY <2>1, LoopTypesStep, CallInvStep, CopyStep, SpentStep DEF LoopInv
<1> QED
  BY LoopInitHolds, <1>1, PTL DEF LoopSpec

\* The main thread and carLoop use the writer as CarItemsWriter allows: each call is
\* one of Calls, a thread is in one operation at a time, reads end.  What is proved
\* above of the writer holds of the running system, the steps of its fairness aside.
THEOREM LoopUsesTheWriter == LoopSpec => Init /\ [][Next]_vars
<1>1. LoopInit => Init
  BY DEF LoopInit
<1> QED
  BY <1>1, LoopInvHolds, StepsOfTheWriter, PTL DEF LoopSpec

\* carLoop decides on ports that are those of the table, unless the version already
\* tells it otherwise, a write in progress is about to, or the worker applied a
\* deferred write, which nobody announces.
THEOREM CopyFollowsTheTable == LoopSpec => []CopyIsCurrent
<1>1. LoopInv => CopyIsCurrent
  BY DEF LoopInv
<1> QED
  BY <1>1, LoopInvHolds, PTL

\* Without a deferred write no parcel is thrown out twice: a car that was driven and
\* got no new port is not driven again.
THEOREM OneDrivePerPort == LoopSpec => DoubleDriveOnlyIfDeferred
<1>1. LoopInv /\ [LoopNext]_allVars =>
        [\A c \in Cars : c \in spent /\ LoopDrive /\ next = c /\ link => c \in tainted]_allVars
  <2> SUFFICES ASSUME LoopInv, NEW c \in Cars, c \in spent, LoopDrive, next = c, c \notin tainted
               PROVE  FALSE
    OBVIOUS
  <2>1. Unloaded(c)
    BY DEF LoopInv, SpentInv
  <2>2. loop = "scan" /\ copy[c].port \in Ports
    BY DEF LoopDrive
  <2>3. ~(next > c)
    BY CarsAreNumbers
  <2> QED
    BY <2>1, <2>2, <2>3, TableAssumption DEF Unloaded
<1> QED
  BY <1>1, LoopInvHolds, PTL DEF LoopSpec, DoubleDriveOnlyIfDeferred
====
