---- MODULE BackgroundLogProofs ----
(***************************************************************************)
(* Proofs about BackgroundLog, for every number of hours, messages and     *)
(* hours per day: messages are handled in order, close() drains what was   *)
(* logged before it, and a line goes to a file that fits it.               *)
(***************************************************************************)
EXTENDS BackgroundLog, SequenceTheorems, TLAPS

\* Place by place what AllInOrder says of the whole.
HandSize == IF bg \in {"rotate", "open", "write"} THEN 1 ELSE 0
Order ==
    /\ Len(handled) + HandSize + Len(queue) = logged
    /\ \A i \in 1 .. Len(handled) : handled[i].message = i
    /\ HandSize = 1 => current = Len(handled) + 1
    /\ \A i \in 1 .. Len(queue) : queue[i] = Len(handled) + HandSize + i

\* The thread ends only on request, with nothing left of what was logged before.
Ending ==
    /\ main = "run" => ~stop
    /\ bg = "done" => stop /\ Len(handled) >= loggedAtStop
    /\ main \in {"joined", "closed"} \/ (main = "exited" /\ closes) => bg = "done"

\* While no file is about to be opened, the present one is that of currentHour, and
\* is open and good, unless an error struck it or the log was closed; a message is
\* written in the hour for which it was looked at.
FileFits ==
    /\ steady => currentHour <= hour
    /\ bg \in {"open", "write"} => seenHour = currentHour
    /\ bg # "open" =>
        /\ steady /\ file.open => /\ currentHour <= file.name /\ file.name <= hour
                                 /\ file.day = Day(currentHour)
        /\ (file.open /\ file.good) \/ fault \/ bg = "done"

IInv == TypeOK /\ Order /\ Ending /\ FileFits

----------------------------------------------------------------------------
\* The day of an hour is not later than the hour.
LEMMA DayLemma == ASSUME NEW h \in Hours PROVE Day(h) \in Hours
<1>1. h \div HoursPerDay \in Int
  BY LogAssumption DEF Hours
<1>2. 0 <= h \div HoursPerDay /\ h \div HoursPerDay <= h
  BY LogAssumption DEF Hours
<1> QED BY <1>1, <1>2, LogAssumption DEF Hours, Day

\* Numbers that continue those before.
LEMMA ContinueLemma ==
  ASSUME NEW s \in Seq(Nat), NEW t \in Seq(Nat),
         \A i \in 1 .. Len(s) : s[i] = i,
         \A i \in 1 .. Len(t) : t[i] = Len(s) + i
  PROVE  /\ s \o t \in Seq(Nat)
         /\ Len(s \o t) = Len(s) + Len(t)
         /\ \A i \in 1 .. Len(s) + Len(t) : (s \o t)[i] = i
OBVIOUS

\* Order is AllInOrder.
LEMMA OrderLemma == ASSUME TypeOK, Order PROVE AllInOrder
<1> DEFINE done == [i \in 1 .. Len(handled) |-> handled[i].message]
           all == [i \in 1 .. logged |-> i]
<1>1. logged \in Nat /\ queue \in Seq(Nat) /\ current \in Nat /\ handled \in Seq(Line)
  <2>1. 1 .. logged \subseteq Nat
    OBVIOUS
  <2> QED BY <2>1, SeqMonotonic, LogAssumption DEF TypeOK
<1>2. done \in Seq(Nat) /\ Len(done) = Len(handled) /\ \A i \in 1 .. Len(handled) : done[i] = i
  <2>1. \A i \in 1 .. Len(handled) : handled[i].message \in Nat
    BY <1>1 DEF Order
  <2> QED BY <1>1, <2>1 DEF Order
<1>3. all \in Seq(Nat) /\ Len(all) = logged
  BY <1>1
<1>4. InHand \in Seq(Nat) /\ Len(InHand) = HandSize
      /\ \A i \in 1 .. HandSize : InHand[i] = Len(handled) + i
  <2>1. CASE HandSize = 1
    BY <1>1, <2>1 DEF InHand, HandSize, Order
  <2>2. CASE HandSize = 0
    BY <2>2 DEF InHand, HandSize
  <2> QED BY <2>1, <2>2 DEF HandSize
<1> HIDE DEF done, all
<1>5. /\ done \o InHand \in Seq(Nat)
      /\ Len(done \o InHand) = Len(handled) + HandSize
      /\ \A i \in 1 .. Len(handled) + HandSize : (done \o InHand)[i] = i
  BY <1>2, <1>4, ContinueLemma, ZenonT(60)
<1>6. /\ done \o InHand \o queue \in Seq(Nat)
      /\ Len(done \o InHand \o queue) = logged
      /\ \A i \in 1 .. logged : (done \o InHand \o queue)[i] = i
  <2>1. \A i \in 1 .. Len(queue) : queue[i] = Len(done \o InHand) + i
    BY <1>5 DEF Order
  <2> QED BY <1>1, <1>5, <2>1, ContinueLemma, ZenonT(60) DEF Order
<1>7. \A i \in 1 .. logged : all[i] = i
  BY DEF all
<1> QED BY <1>3, <1>6, <1>7, SeqEqual DEF AllInOrder, done, all
----------------------------------------------------------------------------
LEMMA InitLemma == Init => IInv
<1> SUFFICES ASSUME Init PROVE IInv
  OBVIOUS
<1> USE LogAssumption DEF Init
<1>1. TypeOK
  <2>1. queue \in Seq(1 .. logged) /\ handled \in Seq(Line)
    BY EmptySeq
  <2>2. file \in File /\ fault \in BOOLEAN /\ steady \in BOOLEAN
    <3>1. file \in File
      OBVIOUS
    <3>2. fault \in BOOLEAN
      BY Zenon
    <3> QED BY <3>1, <3>2
  <2>3. /\ hour \in Hours /\ logged \in 0 .. MaxMessages /\ current \in 0 .. logged
        /\ {currentHour, seenHour} \subseteq Hours /\ loggedAtStop \in 0 .. logged
    BY DEF Hours
  <2>4. /\ closes \in BOOLEAN /\ stop \in BOOLEAN /\ bg = "look" /\ main = "run"
    OBVIOUS
  <2> HIDE DEF Init
  <2> QED BY <2>1, <2>2, <2>3, <2>4 DEF TypeOK
<1>2. Day(0) = 0
  BY DEF Day
<1> QED BY <1>1, <1>2 DEF IInv, Order, HandSize, Ending, FileFits, File

\* Another hour.
LEMMA TickStep == ASSUME IInv, Tick PROVE IInv'
<1> USE DEF IInv, Tick
<1>1. hour \in Nat /\ file.name \in Nat /\ currentHour \in Nat
  BY DEF TypeOK, File, Hours
<1>2. TypeOK'
  BY LogAssumption DEF TypeOK, Hours, fileVars, historyVars, errorVars
<1>3. Order' /\ Ending'
  BY DEF Order, HandSize, Ending, fileVars, historyVars
<1>4. FileFits'
  BY <1>1 DEF FileFits, fileVars, historyVars, errorVars, errorVars
<1> QED BY <1>2, <1>3, <1>4

\* The clock is set back.
LEMMA SetBackStep == ASSUME IInv, SetBack PROVE IInv'
<1> USE DEF IInv, SetBack
<1>1. TypeOK'
  <2>1. hour' \in Hours
    BY LogAssumption DEF TypeOK, Hours
  <2>2. steady' \in BOOLEAN
    BY Zenon
  <2> QED BY <2>1, <2>2 DEF TypeOK, fileVars
<1>2. Order' /\ Ending' /\ FileFits'
  BY DEF Order, HandSize, Ending, FileFits, fileVars, errorVars
<1> QED BY <1>1, <1>2

\* A message at the end of the queue has the next number.
LEMMA LogStep == ASSUME IInv, Log PROVE IInv'
<1> USE DEF IInv, Log
<1>1. logged \in Nat /\ logged' = logged + 1 /\ logged' <= MaxMessages
  BY LogAssumption DEF TypeOK
<1>2. queue \in Seq(1 .. logged')
  <2>1. 1 .. logged \subseteq 1 .. logged'
    BY <1>1
  <2> QED BY <2>1, SeqMonotonic DEF TypeOK
<1>3. /\ queue' \in Seq(1 .. logged')
      /\ Len(queue') = Len(queue) + 1
      /\ \A i \in 1 .. Len(queue) : queue'[i] = queue[i]
      /\ queue'[Len(queue) + 1] = logged + 1
  BY <1>1, <1>2, AppendProperties
<1>4. HandSize' = HandSize /\ \A step \in {"open", "write", "done"} : bg' = step <=> bg = step
  BY DEF Notify, HandSize
<1>5. TypeOK'
  BY <1>1, <1>3, LogAssumption DEF TypeOK, Notify, fileVars, historyVars, errorVars
<1>6. Order'
  <2>1. /\ Len(handled) \in Nat /\ Len(queue) \in Nat /\ HandSize \in {0, 1}
        /\ handled' = handled /\ current' = current
    BY DEF TypeOK, HandSize, historyVars
  <2>2. \A i \in 1 .. Len(queue') : queue'[i] = Len(handled) + HandSize + i
    <3>1. SUFFICES ASSUME NEW i \in 1 .. Len(queue) + 1
                   PROVE  queue'[i] = Len(handled) + HandSize + i
      BY <1>3
    <3>2. CASE i \in 1 .. Len(queue)
      BY <1>3, <3>2 DEF Order
    <3>3. CASE i = Len(queue) + 1
      <4>1. logged + 1 = Len(handled) + HandSize + (Len(queue) + 1)
        BY <2>1 DEF Order
      <4> QED BY <1>3, <3>3, <4>1
    <3> QED BY <2>1, <3>1, <3>2, <3>3
  <2>3. Len(handled') + HandSize' + Len(queue') = logged'
    <3>1. Len(handled) + HandSize + Len(queue) = logged
      BY Zenon DEF Order
    <3> QED BY ONLY <1>1, <1>3, <1>4, <2>1, <3>1, SMTT(30)
  <2>4. /\ \A i \in 1 .. Len(handled') : handled'[i].message = i
        /\ HandSize' = 1 => current' = Len(handled') + 1
    BY <1>4, <2>1, Zenon DEF Order
  <2>5. \A i \in 1 .. Len(queue') : queue'[i] = Len(handled') + HandSize' + i
    BY <1>4, <2>1, <2>2, Zenon
  <2> QED BY <2>3, <2>4, <2>5, Zenon DEF Order
<1>7. Ending' /\ FileFits'
  BY <1>4 DEF Ending, FileFits, fileVars, historyVars, errorVars
<1> QED BY <1>5, <1>6, <1>7

\* The head of the queue is the next message; without one all logged are handled,
\* and the thread may end.
LEMMA LookStep == ASSUME IInv, BgLook PROVE IInv'
<1> USE DEF IInv, BgLook
<1>1. CASE queue # <<>>
  <2>1. /\ Head(queue) = queue[1] /\ Head(queue) \in 1 .. logged
        /\ queue' \in Seq(1 .. logged) /\ Len(queue') = Len(queue) - 1
        /\ \A i \in 1 .. Len(queue') : queue'[i] = queue[i + 1]
        /\ Len(queue) \in Nat \ {0}
    <3>1. queue \in Seq(1 .. logged) /\ queue' = Tail(queue)
      BY <1>1 DEF TypeOK
    <3>2. Head(queue) = queue[1] /\ Len(queue) \in Nat \ {0}
      BY <1>1, <3>1
    <3> QED BY <1>1, <3>1, <3>2, HeadTailProperties
  <2>2. TypeOK'
    BY <1>1, <2>1 DEF TypeOK, fileVars, historyVars, errorVars
  <2>3. HandSize = 0 /\ HandSize' = 1
    BY <1>1 DEF HandSize
  <2>4. Order'
    <3>1. /\ Len(handled) \in Nat /\ handled' = handled /\ logged' = logged /\ logged \in Nat
          /\ current' = queue[1]
      BY <1>1, <2>1, LogAssumption DEF TypeOK, historyVars
    <3>2. \A i \in 1 .. Len(queue') : queue'[i] = Len(handled) + 1 + i
      <4>1. SUFFICES ASSUME NEW i \in 1 .. Len(queue') PROVE queue'[i] = Len(handled) + 1 + i
        OBVIOUS
      <4>2. i + 1 \in 1 .. Len(queue) /\ queue'[i] = queue[i + 1]
        BY <2>1
      <4>3. queue[i + 1] = Len(handled) + 0 + (i + 1)
        BY <2>3, <4>2 DEF Order
      <4> QED BY <3>1, <4>2, <4>3
    <3>3. current' = Len(handled) + 1
      BY <2>1, <2>3, <3>1 DEF Order
    <3>4. Len(handled') + HandSize' + Len(queue') = logged'
      <4>1. Len(handled) + HandSize + Len(queue) = logged
        BY Zenon DEF Order
      <4>2. Len(queue) \in Nat /\ Len(queue') = Len(queue) - 1
        BY <2>1, Zenon
      <4>3. Len(handled') = Len(handled) /\ Len(handled) \in Nat /\ logged' = logged
        BY <3>1, Zenon
      <4> QED BY ONLY <2>3, <4>1, <4>2, <4>3, SMTT(30)
    <3>5. \A i \in 1 .. Len(handled') : handled'[i].message = i
      BY <3>1 DEF Order
    <3> QED BY <2>3, <3>1, <3>2, <3>3, <3>4, <3>5, Zenon DEF Order
  <2>5. Ending' /\ FileFits'
    BY <1>1 DEF Ending, FileFits, fileVars, historyVars, errorVars
  <2> QED BY <2>2, <2>4, <2>5
<1>2. CASE queue = <<>>
  <2>1. TypeOK'
    BY <1>2 DEF TypeOK, fileVars, historyVars, errorVars
  <2>2. HandSize = 0 /\ HandSize' = 0
    BY <1>2 DEF HandSize
  <2>3. Order'
    BY <1>2, <2>2 DEF Order, TypeOK, historyVars
  <2>4. Len(handled) = logged
    BY <1>2, <2>2 DEF Order, TypeOK
  <2>5. Ending'
    BY <1>2, <2>4 DEF Ending, TypeOK, historyVars
  <2>6. FileFits'
    BY <1>2 DEF FileFits, fileVars, historyVars, errorVars
  <2> QED BY <2>1, <2>3, <2>5, <2>6
<1> QED BY <1>1, <1>2

\* The thread waits, or leaves its wait.
LEMMA WaitStep == ASSUME IInv, BgBlock \/ BgTimeout PROVE IInv'
<1> USE DEF IInv, BgBlock, BgTimeout
<1>1. TypeOK'
  BY DEF TypeOK, fileVars, historyVars, errorVars
<1>2. UNCHANGED <<handled, queue, logged, current>> /\ HandSize' = HandSize
  BY DEF HandSize, historyVars
<1>3. Order'
  BY <1>2, Zenon DEF Order
<1>4. Ending' /\ FileFits'
  BY DEF Ending, FileFits, fileVars, historyVars, errorVars
<1> QED BY <1>1, <1>3, <1>4

\* A step that handles the message in hand.
LEMMA HandleLemma ==
  ASSUME TypeOK, Order, Ending, NEW outcome \in {"written", "lost", "thrown"}, Handle(outcome),
         bg \in {"rotate", "open", "write"}, bg' = "look",
         UNCHANGED <<closes, logged, queue, stop, current, main, loggedAtStop>>
  PROVE  handled' \in Seq(Line) /\ Order' /\ Ending'
<1> DEFINE line == [message |-> current, outcome |-> outcome]
<1>1. current = Len(handled) + 1 /\ HandSize = 1 /\ HandSize' = 0 /\ Len(handled) \in Nat
  BY DEF Order, HandSize, TypeOK
<1>2. current \in 1 .. MaxMessages
  BY <1>1, LogAssumption DEF TypeOK
<1>3. line \in Line
  BY <1>2 DEF Line
<1>4. /\ handled' \in Seq(Line)
      /\ Len(handled') = Len(handled) + 1
      /\ \A i \in 1 .. Len(handled) : handled'[i] = handled[i]
      /\ handled'[Len(handled) + 1] = line
  BY <1>3, AppendProperties DEF TypeOK, Handle
<1>5. Order'
  BY <1>1, <1>4 DEF Order, TypeOK
<1>6. Ending'
  BY <1>1, <1>4 DEF Ending, TypeOK
<1> QED BY <1>4, <1>5, <1>6

\* If the hour has not changed the file still fits it.
LEMMA RotateStep == ASSUME IInv, BgRotate PROVE IInv'
<1> USE DEF IInv, BgRotate, CallForFile
<1>1. TypeOK'
  BY DEF TypeOK, errorVars
<1>2. Order' /\ Ending'
  BY DEF Order, HandSize, Ending
<1>3. FileFits'
  BY DEF TypeOK, Hours, FileFits, errorVars
<1> QED BY <1>1, <1>2, <1>3

\* The name of the file is made after the hour was seen.
LEMMA OpenStep == ASSUME IInv, BgOpen PROVE IInv'
<1> USE DEF IInv, BgOpen
<1>1. Day(currentHour) \in Hours
  BY DayLemma DEF TypeOK
<1>2. TypeOK'
  BY <1>1 DEF TypeOK, File
<1>3. Order' /\ Ending'
  BY DEF Order, HandSize, Ending
<1>4. FileFits'
  <2>1. currentHour \in Nat /\ hour \in Nat /\ (steady => currentHour <= hour)
    BY DEF TypeOK, Hours, FileFits
  <2>2. PICK ok \in BOOLEAN : /\ file' = [open |-> ok, good |-> ok, day |-> Day(currentHour), name |-> hour]
                              /\ fault' = ~ok
    OBVIOUS
  <2>3. (file'.open /\ file'.good) \/ fault'
    BY <2>2, Zenon
  <2>4. file'.name = hour /\ file'.day = Day(currentHour)
    BY <2>2
  <2>5. seenHour = currentHour
    BY DEF FileFits
  <2> QED BY <2>1, <2>3, <2>4, <2>5 DEF FileFits
<1> QED BY <1>2, <1>3, <1>4

\* The line of the message in hand.
LEMMA WriteStep == ASSUME IInv, BgWrite PROVE IInv'
<1> USE DEF IInv, BgWrite
<1>1. handled' \in Seq(Line) /\ Order' /\ Ending'
  BY HandleLemma
<1>2. TypeOK'
  BY <1>1 DEF TypeOK, File
<1>3. FileFits'
  BY DEF TypeOK, File, FileFits
<1> QED BY <1>1, <1>2, <1>3

\* An exception costs the message in hand.
LEMMA ThrowSteps == ASSUME IInv, BgRotateThrows \/ BgOpenThrows \/ BgWriteThrows PROVE IInv'
<1> USE DEF IInv, Catch
<1>1. CASE BgRotateThrows
  <2>1. handled' \in Seq(Line) /\ Order' /\ Ending'
    BY <1>1, HandleLemma DEF BgRotateThrows
  <2>2. TypeOK'
    BY <1>1, <2>1 DEF BgRotateThrows, TypeOK
  <2>3. FileFits'
    BY <1>1 DEF BgRotateThrows, FileFits
  <2> QED BY <2>1, <2>2, <2>3
<1>2. CASE BgOpenThrows
  <2>1. handled' \in Seq(Line) /\ Order' /\ Ending'
    BY <1>2, HandleLemma DEF BgOpenThrows
  <2>2. TypeOK'
    BY <1>2, <2>1 DEF BgOpenThrows, TypeOK, File
  <2>3. FileFits'
    BY <1>2 DEF BgOpenThrows, TypeOK, File, FileFits
  <2> QED BY <2>1, <2>2, <2>3
<1>3. CASE BgWriteThrows
  <2>1. handled' \in Seq(Line) /\ Order' /\ Ending'
    BY <1>3, HandleLemma DEF BgWriteThrows
  <2>2. TypeOK'
    BY <1>3, <2>1 DEF BgWriteThrows, TypeOK, fileVars, errorVars
  <2>3. FileFits'
    BY <1>3 DEF BgWriteThrows, FileFits, fileVars, errorVars
  <2> QED BY <2>1, <2>2, <2>3
<1> QED BY <1>1, <1>2, <1>3

\* A line fits its file when it is written.
LEMMA LineLemma == IInv /\ [Next]_vars => [handled' # handled => LineFits]_vars
<1> SUFFICES ASSUME IInv, Next, handled' # handled PROVE LineFits
  OBVIOUS
<1>1. ASSUME NEW outcome, Handle(outcome) PROVE handled'[Len(handled')].outcome = outcome
  <2>1. handled \in Seq(Line)
    BY DEF IInv, TypeOK
  <2> QED BY <1>1, <2>1, AppendProperties DEF Handle
<1>2. CASE BgRotateThrows \/ BgOpenThrows \/ BgWriteThrows
  BY <1>1, <1>2 DEF BgRotateThrows, BgOpenThrows, BgWriteThrows, Catch, LineFits
<1>3. CASE BgWrite
  BY <1>1, <1>3 DEF BgWrite, IInv, FileFits, LineFits
<1>4. BgRotateThrows \/ BgOpenThrows \/ BgWriteThrows \/ BgWrite
  BY DEF Next, Tick, SetBack, Log, BgStep, BgLook, BgBlock, BgTimeout, BgRotate, BgOpen, CloseStop,
         CloseStep, CloseNotify, CloseJoin, CloseFile, Exit, historyVars
<1> QED BY <1>2, <1>3, <1>4

\* close() and the end of the process.
LEMMA CloseSteps == ASSUME IInv, CloseStop \/ CloseStep \/ Exit PROVE IInv'
<1> USE DEF IInv
<1>1. CASE CloseStop
  <2>1. TypeOK'
    BY <1>1 DEF CloseStop, TypeOK, fileVars, errorVars
  <2> QED BY <1>1, <2>1 DEF CloseStop, Order, HandSize, Ending, FileFits, fileVars, errorVars
<1>2. CASE CloseNotify
  <2>1. TypeOK'
    BY <1>2 DEF CloseNotify, Notify, TypeOK, fileVars, historyVars, errorVars
  <2> QED BY <1>2, <2>1 DEF CloseNotify, Notify, Order, HandSize, Ending, FileFits,
                            fileVars, historyVars, errorVars
<1>3. CASE CloseJoin
  <2>1. TypeOK'
    BY <1>3 DEF CloseJoin, TypeOK, fileVars, historyVars, errorVars
  <2> QED BY <1>3, <2>1 DEF CloseJoin, Order, HandSize, Ending, FileFits,
                            fileVars, historyVars, errorVars
<1>4. CASE CloseFile
  <2>1. TypeOK'
    BY <1>4 DEF CloseFile, TypeOK, File, historyVars, errorVars
  <2>2. FileFits'
    BY <1>4 DEF CloseFile, TypeOK, File, Ending, FileFits, historyVars, errorVars
  <2> QED BY <1>4, <2>1, <2>2 DEF CloseFile, Order, HandSize, Ending, historyVars, errorVars
<1>5. CASE Exit
  <2>1. TypeOK'
    BY <1>5 DEF Exit, TypeOK, fileVars, historyVars, errorVars
  <2> QED BY <1>5, <2>1 DEF Exit, Order, HandSize, Ending, FileFits,
                            fileVars, historyVars, errorVars
<1> QED BY <1>1, <1>2, <1>3, <1>4, <1>5 DEF CloseStep

LEMMA NextLemma == IInv /\ [Next]_vars => IInv'
<1> SUFFICES ASSUME IInv, [Next]_vars PROVE IInv'
  OBVIOUS
<1>1. CASE UNCHANGED vars
  BY <1>1 DEF vars, fileVars, historyVars, IInv, TypeOK, Order, HandSize, Ending, FileFits, errorVars
<1> QED BY <1>1, TickStep, LogStep, LookStep, WaitStep, RotateStep, OpenStep, WriteStep,
           ThrowSteps, SetBackStep, CloseSteps DEF Next, BgStep

LEMMA Invariance == Spec => []IInv
BY InitLemma, NextLemma, PTL DEF Spec

----------------------------------------------------------------------------
\* No message is lost, doubled or overtaken between Log() and the file, however
\* the callers and the background thread are interleaved.
THEOREM MessagesInOrder == Spec => []AllInOrder
<1>1. IInv => AllInOrder
  BY OrderLemma DEF IInv
<1> QED BY <1>1, Invariance, PTL

\* close() returns only after everything that was logged before it was handled.
THEOREM CloseHasDrained == Spec => []CloseDrains
<1>1. IInv => CloseDrains
  BY DEF IInv, Ending, CloseDrains
<1> QED BY <1>1, Invariance, PTL

\* However the hours pass between the three readings of the clock, a line goes to a
\* file that fits it, but for a clock set back and an exception between the hour and
\* the file; failed opens and insertions and exceptions cost no line of another file.
THEOREM LinesAreFiled == Spec => LinesFitTheirFile
<1>1. Spec => [][handled' # handled => LineFits]_vars
  BY Invariance, LineLemma, PTL DEF Spec
<1> QED BY <1>1, PTL DEF LinesFitTheirFile

\* The types are right in every reachable state.
THEOREM LogTypes == Spec => []TypeOK
<1>1. IInv => TypeOK
  BY DEF IInv
<1> QED BY <1>1, Invariance, PTL
====
