---- MODULE SlotBindingProofs ----
(***************************************************************************)
(* Proofs about SlotBinding for every number of cars, codes, ports, scans  *)
(* and resets: where the slots of rows and cars come from, and that a code *)
(* whose requests are answered has reached its car.                        *)
(***************************************************************************)
EXTENDS SlotBinding, SequenceTheorems, TLAPS

----------------------------------------------------------------------------
(***************************************************************************)
(* The inductive invariant.                                                *)
(***************************************************************************)
Types ==
    /\ items \in [Cars -> CarItem]
    /\ codeToCar \in [Codes -> Cars \cup {NoCar}]
    /\ db \in [Codes -> Rows]
    /\ requests \in [Codes -> Nat]
    /\ posted \in Seq(Update) /\ jobs \in Seq(Update)
    /\ main = [at |-> main.at, code |-> main.code, car |-> main.car, row |-> main.row]
    /\ scannedAt \in [Codes -> SUBSET Cars]
    /\ answers \in [Codes -> SUBSET Slots]

\* The handler works on a scan that was made, with a slot only if the code got it.
MainInv ==
    /\ main.at \in {"idle", "save", "bind", "slot"} /\ main.row \in Rows
    /\ ~Idle => /\ main.code \in Codes /\ main.car \in scannedAt[main.code]
                /\ main.row \in Slots => main.row \in answers[main.code]
    /\ main.at = "slot" => main.row \in Slots

\* What is on its way to the table and to the cars are answers.
FromAnswers(q) == \A i \in 1 .. Len(q) : q[i].slot \in answers[q[i].code]
AnswerInv == FromAnswers(posted) /\ FromAnswers(jobs)

\* A car is remembered for a code, and has it, only if the code was scanned there.
ScanInv == \A x \in Codes :
    /\ codeToCar[x] \in Cars => codeToCar[x] \in scannedAt[x]
    /\ \A c \in Cars : items[c].code = x => c \in scannedAt[x]

\* The car that has the code alone has a port of it, or an answer will find it.
Routed(x, c) == \E slot \in answers[x] : items[c].port = PortOf(slot)
RouteInv == \A x \in Codes, c \in Cars :
    Alone(x, c) /\ items[c].code = x => Routed(x, c) \/ codeToCar[x] = c

\* A scan that nothing disturbed is in the handler, has its port, or waits for an
\* answer that will be given to its car.
Pending(x) == requests[x] > 0 \/ \E i \in 1 .. Len(posted) : posted[i].code = x
UnderWay(x, c) ==
    \/ main.at \in {"save", "bind"} /\ main.code = x
    \/ /\ items[c].code = x
       /\ \/ main.at = "slot" /\ main.code = x
          \/ Routed(x, c)
          \/ codeToCar[x] = c /\ Pending(x)
ServeInv == \A x \in Codes, c \in Cars :
    Alone(x, c) /\ c \notin stale /\ x \notin failed => UnderWay(x, c)

IInv == /\ Types /\ MainInv /\ AnswerInv /\ ScanInv
        /\ SlotsComeFromAnswers /\ RouteInv /\ ServeInv

----------------------------------------------------------------------------
(***************************************************************************)
(* What the writes to a car and the queues do.                             *)
(***************************************************************************)
LEMMA PortIsAPort ==
    ASSUME NEW slot \in Slots
    PROVE  PortOf(slot) \in Ports /\ PortOf(slot) # NoPort
BY TableAssumption, BindingAssumption DEF PortOf

\* updateSlotByCarID gives one car the port of the slot and touches no code.
LEMMA PortWrite ==
    ASSUME items \in [Cars -> CarItem], NEW c \in Cars, NEW slot \in Slots
    PROVE  /\ UpdateSlotByCarID(c, slot) \in [Cars -> CarItem]
           /\ UpdateSlotByCarID(c, slot)[c].port = PortOf(slot)
           /\ \A d \in Cars : UpdateSlotByCarID(c, slot)[d].code = items[d].code
           /\ \A d \in Cars \ {c} : UpdateSlotByCarID(c, slot)[d].port = items[d].port
<1>1. PortOf(slot) \in Ports
  BY PortIsAPort
<1>2. CASE items[c].port = PortOf(slot)
  BY <1>2 DEF UpdateSlotByCarID
<1>3. CASE items[c].port # PortOf(slot)
  <2>1. UpdateSlotByCarID(c, slot) = [items EXCEPT ![c] = Slotted(@, PortOf(slot))]
    BY <1>3 DEF UpdateSlotByCarID, ApplyNow, WriteSlot, WrittenNow
  <2>2. Slotted(items[c], PortOf(slot)) \in CarItem
    BY <1>1 DEF CarItem, Slotted
  <2>3. /\ Slotted(items[c], PortOf(slot)).port = PortOf(slot)
        /\ Slotted(items[c], PortOf(slot)).code = items[c].code
    BY DEF CarItem, Slotted
  <2> QED
    BY <2>1, <2>2, <2>3
<1> QED
  BY <1>2, <1>3

\* Writing a code touches no port.
LEMMA CodeWrite ==
    ASSUME items \in [Cars -> CarItem], NEW c \in Cars, NEW x \in Codes
    PROVE  /\ ApplyNow(items, WriteItem(c, x)) \in [Cars -> CarItem]
           /\ ApplyNow(items, WriteItem(c, x))[c].code = x
           /\ \A d \in Cars : ApplyNow(items, WriteItem(c, x))[d].port = items[d].port
           /\ \A d \in Cars \ {c} : ApplyNow(items, WriteItem(c, x))[d].code = items[d].code
<1> DEFINE it == [items[c] EXCEPT !.code = x, !.turns = 0, !.loaded = TRUE]
<1>1. ApplyNow(items, WriteItem(c, x)) = [items EXCEPT ![c] = it]
  <2>1. x # NoCode
    BY TableAssumption
  <2> QED
    BY <2>1 DEF ApplyNow, WriteItem, WrittenNow
<1>2. it \in CarItem /\ it.code = x /\ it.port = items[c].port
  <2>1. items[c] \in CarItem /\ 0 \in Turns
    BY TableAssumption DEF Turns
  <2> QED
    BY <2>1 DEF CarItem
<1> HIDE DEF it
<1> QED
  BY <1>1, <1>2

\* A reset takes code and port from one car.
LEMMA ResetWrite ==
    ASSUME items \in [Cars -> CarItem], NEW c \in Cars
    PROVE  /\ ApplyNow(items, InitItem(c)) \in [Cars -> CarItem]
           /\ ApplyNow(items, InitItem(c))[c].code = NoCode
           /\ ApplyNow(items, InitItem(c))[c].port = NoPort
           /\ \A d \in Cars \ {c} : ApplyNow(items, InitItem(c))[d] = items[d]
<1>1. ApplyNow(items, InitItem(c)) = [items EXCEPT ![c] = EmptyItem]
  BY DEF ApplyNow, InitItem, WrittenNow
<1>2. EmptyItem \in CarItem /\ EmptyItem.code = NoCode /\ EmptyItem.port = NoPort
  BY TableAssumption DEF CarItem, EmptyItem, Turns
<1> QED
  BY <1>1, <1>2

\* The entries of a queue after a call was added, taken, or a job ended are those
\* it had and the added one.
LEMMA QueueGrows ==
    ASSUME NEW q \in Seq(Update), NEW u \in Update
    PROVE  /\ Append(q, u) \in Seq(Update)
           /\ \A i \in 1 .. Len(Append(q, u)) :
                Append(q, u)[i] = u \/ \E j \in 1 .. Len(q) : Append(q, u)[i] = q[j]
           /\ \E i \in 1 .. Len(Append(q, u)) : Append(q, u)[i] = u
           /\ \A j \in 1 .. Len(q) : \E i \in 1 .. Len(Append(q, u)) : Append(q, u)[i] = q[j]
<1> HIDE DEF Update
<1>1. Len(q) \in Nat
  BY LenProperties
<1> QED
  BY <1>1, AppendProperties

LEMMA CodesOfEntries ==
    ASSUME NEW q \in Seq(Update)
    PROVE  \A i \in 1 .. Len(q) : q[i].code \in Codes /\ q[i].slot \in Slots
<1>1. \A u \in Update : u.code \in Codes /\ u.slot \in Slots
  BY DEF Update
<1> HIDE DEF Update
<1> QED
  BY <1>1, ElementOfSeq

LEMMA QueueShrinks ==
    ASSUME NEW q \in Seq(Update), q # <<>>
    PROVE  /\ Tail(q) \in Seq(Update) /\ Head(q) \in Update
           /\ \E j \in 1 .. Len(q) : Head(q) = q[j]
           /\ \A i \in 1 .. Len(Tail(q)) : \E j \in 1 .. Len(q) : Tail(q)[i] = q[j]
           /\ \A j \in 1 .. Len(q) :
                q[j] = Head(q) \/ \E i \in 1 .. Len(Tail(q)) : Tail(q)[i] = q[j]
<1> HIDE DEF Update
<1>1. Len(q) \in Nat \ {0}
  BY EmptySeq
<1>2. Head(q) = q[1]
  BY <1>1
<1>3. /\ Head(q) \in Update /\ Tail(q) \in Seq(Update) /\ Len(Tail(q)) = Len(q) - 1
      /\ \A i \in 1 .. Len(Tail(q)) : Tail(q)[i] = q[i + 1]
  BY HeadTailProperties
<1>4. \A i \in 1 .. Len(Tail(q)) : i + 1 \in 1 .. Len(q)
  BY <1>1, <1>3
<1>5. ASSUME NEW j \in 1 .. Len(q), j # 1
      PROVE  j - 1 \in 1 .. Len(Tail(q)) /\ Tail(q)[j - 1] = q[j]
  <2>1. j - 1 \in 1 .. Len(Tail(q)) /\ (j - 1) + 1 = j
    BY <1>1, <1>3, <1>5
  <2> QED
    BY <1>3, <2>1
<1>6. \A i \in 1 .. Len(Tail(q)) : \E j \in 1 .. Len(q) : Tail(q)[i] = q[j]
  BY <1>3, <1>4
<1>7. \A j \in 1 .. Len(q) :
        q[j] = Head(q) \/ \E i \in 1 .. Len(Tail(q)) : Tail(q)[i] = q[j]
  BY <1>2, <1>5
<1>8. 1 \in 1 .. Len(q)
  BY <1>1
<1> QED
  BY <1>2, <1>3, <1>6, <1>7, <1>8

LEMMA QueueLosesOne ==
    ASSUME NEW q \in Seq(Update), NEW n \in 1 .. Len(q)
    PROVE  /\ RemoveAt(q, n) \in Seq(Update)
           /\ \A i \in 1 .. Len(RemoveAt(q, n)) : \E j \in 1 .. Len(q) : RemoveAt(q, n)[i] = q[j]
<1> HIDE DEF Update
<1> DEFINE before == SubSeq(q, 1, n - 1)
           after == SubSeq(q, n + 1, Len(q))
<1>1. Len(q) \in Nat /\ \A i \in 1 .. Len(q) : q[i] \in Update
  BY LenProperties, ElementOfSeq
<1>2. /\ before \in Seq(Update) /\ Len(before) = n - 1
      /\ \A i \in 1 .. n - 1 : before[i] = q[i]
  <2>1. 1 \in Int /\ n - 1 \in Int /\ \A i \in 1 .. n - 1 : q[i] \in Update
    BY <1>1
  <2>2. /\ before \in Seq(Update) /\ Len(before) = IF 1 <= n - 1 THEN (n - 1) - 1 + 1 ELSE 0
        /\ \A i \in 1 .. (n - 1) - 1 + 1 : before[i] = q[1 + i - 1]
    BY <2>1, SubSeqProperties
  <2> HIDE DEF before
  <2> QED
    BY <2>2
<1>3. /\ after \in Seq(Update) /\ Len(after) = Len(q) - n
      /\ \A i \in 1 .. Len(q) - n : after[i] = q[n + i]
  <2>1. n + 1 \in Int /\ Len(q) \in Int /\ \A i \in n + 1 .. Len(q) : q[i] \in Update
    BY <1>1
  <2>2. /\ after \in Seq(Update)
        /\ Len(after) = IF n + 1 <= Len(q) THEN Len(q) - (n + 1) + 1 ELSE 0
        /\ \A i \in 1 .. Len(q) - (n + 1) + 1 : after[i] = q[(n + 1) + i - 1]
    BY <2>1, SubSeqProperties
  <2>3. \A i \in 1 .. Len(q) - n : i \in 1 .. Len(q) - (n + 1) + 1 /\ (n + 1) + i - 1 = n + i
    BY <1>1
  <2> HIDE DEF after
  <2> QED
    BY <1>1, <2>2, <2>3
<1>4. RemoveAt(q, n) = before \o after
  BY DEF RemoveAt
<1> HIDE DEF before, after
<1>5. /\ before \o after \in Seq(Update) /\ Len(before \o after) = Len(before) + Len(after)
      /\ \A i \in 1 .. Len(before) + Len(after) :
           (before \o after)[i] = IF i <= Len(before) THEN before[i] ELSE after[i - Len(before)]
  BY <1>2, <1>3, ConcatProperties
<1>6. ASSUME NEW i \in 1 .. Len(before \o after)
      PROVE  \E j \in 1 .. Len(q) : (before \o after)[i] = q[j]
  <2>1. CASE i <= n - 1
    BY <1>1, <1>2, <1>3, <1>5, <2>1
  <2>2. CASE i > n - 1
    <3>1. i - (n - 1) \in 1 .. Len(q) - n /\ n + (i - (n - 1)) = i + 1 /\ i + 1 \in 1 .. Len(q)
      BY <1>1, <1>2, <1>3, <1>5, <2>2
    <3>2. (before \o after)[i] = after[i - (n - 1)]
      BY <1>2, <1>3, <1>5, <2>2
    <3>3. after[i - (n - 1)] = q[n + (i - (n - 1))]
      BY <1>3, <3>1
    <3> QED
      BY <3>1, <3>2, <3>3
  <2> QED
    BY <1>1, <2>1, <2>2
<1> QED
  BY <1>4, <1>5, <1>6
----------------------------------------------------------------------------
(***************************************************************************)
(* Every step keeps the invariant.                                         *)
(***************************************************************************)
LEMMA InitHolds == Init => IInv
<1> SUFFICES ASSUME Init PROVE IInv
  OBVIOUS
<1>1. EmptyItem \in CarItem /\ EmptyItem.code = NoCode /\ EmptyItem.port = NoPort
  BY TableAssumption DEF EmptyItem, CarItem, Turns
<1>2. /\ items \in [Cars -> CarItem]
      /\ \A c \in Cars : items[c].code = NoCode /\ items[c].port = NoPort
  BY <1>1 DEF Init
<1>3. Types
  <2>1. main = [at |-> main.at, code |-> main.code, car |-> main.car, row |-> main.row]
    BY DEF Init, NoHandler
  <2>2. <<>> \in Seq(Update)
    BY EmptySeq
  <2> QED
    BY <1>2, <2>1, <2>2 DEF Init, Types, Rows
<1>4. MainInv
  BY DEF Init, MainInv, Idle, NoHandler, Rows
<1>5. AnswerInv
  BY DEF Init, AnswerInv, FromAnswers
<1>6. \A x \in Codes : codeToCar[x] \notin Cars /\ db[x] \notin Slots /\ scannedAt[x] = {}
  BY TableAssumption, BindingAssumption DEF Init
<1>7. ScanInv /\ SlotsComeFromAnswers
  BY <1>2, <1>6, TableAssumption DEF ScanInv, SlotsComeFromAnswers
<1>8. RouteInv /\ ServeInv
  BY <1>6 DEF RouteInv, ServeInv, Alone
<1> QED
  BY <1>3, <1>4, <1>5, <1>7, <1>8 DEF IInv

LEMMA ScanKeeps ==
    ASSUME IInv, NEW x \in Codes, NEW c \in Cars, Scan(x, c)
    PROVE  IInv'
<1> USE DEF IInv
<1>1. PICK row \in QueryString(x) :
        main' = [at |-> "save", code |-> x, car |-> c, row |-> row]
  BY DEF Scan
<1>2. row \in Rows /\ (row \in Slots => row \in answers[x])
  BY BindingAssumption DEF QueryString, Types, Rows, SlotsComeFromAnswers
<1>3. /\ UNCHANGED <<items, codeToCar, db, requests, posted, jobs, answers, failed>>
      /\ scannedAt' = [scannedAt EXCEPT ![x] = @ \cup {c}] /\ stale' = stale \ {c}
  BY DEF Scan
<1>4. /\ main'.at = "save" /\ main'.code = x /\ main'.car = c /\ main'.row = row
      /\ main' = [at |-> main'.at, code |-> main'.code, car |-> main'.car, row |-> main'.row]
  BY <1>1
<1>5. /\ scannedAt' \in [Codes -> SUBSET Cars] /\ c \in scannedAt'[x]
      /\ scannedAt'[x] = scannedAt[x] \cup {c}
      /\ \A y \in Codes \ {x} : scannedAt'[y] = scannedAt[y]
  BY <1>3 DEF Types
<1>6. Types'
  BY <1>3, <1>4, <1>5 DEF Types
<1>7. MainInv'
  BY <1>2, <1>3, <1>4, <1>5 DEF MainInv, Idle
<1>8. AnswerInv'
  BY <1>3 DEF AnswerInv, FromAnswers
<1>9. ScanInv'
  BY <1>3, <1>5 DEF ScanInv
<1>10. SlotsComeFromAnswers'
  BY <1>3, <1>5 DEF SlotsComeFromAnswers, PortOf
<1>11. ASSUME NEW y \in Codes, NEW d \in Cars, Alone(y, d)', ~(y = x /\ d = c)
       PROVE  Alone(y, d) /\ y # x /\ d # c
  BY <1>5, <1>11 DEF Alone
<1>12. RouteInv'
  <2> SUFFICES ASSUME NEW y \in Codes, NEW d \in Cars, Alone(y, d)', items'[d].code = y
               PROVE  Routed(y, d)' \/ codeToCar'[y] = d
    BY DEF RouteInv
  <2>1. d \in scannedAt[y]
    BY <1>3 DEF ScanInv
  <2>2. Alone(y, d)
    <3>1. CASE y = x /\ d = c
      <4>1. scannedAt[x] = {c}
        BY <1>5, <2>1, <3>1 DEF Alone
      <4>2. \A z \in Codes \ {x} : c \notin scannedAt[z]
        BY <1>5, <3>1 DEF Alone
      <4> QED
        BY <3>1, <4>1, <4>2 DEF Alone
    <3> QED
      BY <1>11, <3>1
  <2> QED
    BY <1>3, <2>2 DEF RouteInv, Routed, PortOf
<1>13. ServeInv'
  <2> SUFFICES ASSUME NEW y \in Codes, NEW d \in Cars, Alone(y, d)',
                      d \notin stale', y \notin failed'
               PROVE  UnderWay(y, d)'
    BY DEF ServeInv
  <2>1. CASE y = x /\ d = c
    BY <1>4, <2>1 DEF UnderWay
  <2>2. CASE ~(y = x /\ d = c)
    <3>1. UnderWay(y, d) /\ Idle
      BY <1>3, <1>11, <2>2 DEF ServeInv, Scan
    <3> QED
      BY <1>3, <3>1 DEF UnderWay, Routed, Pending, PortOf, Idle
  <2> QED
    BY <2>1, <2>2
<1> QED
  BY <1>6, <1>7, <1>8, <1>9, <1>10, <1>12, <1>13

\* What a step that leaves cars, codes and history alone has to keep for the
\* properties about cars.
LEMMA SaveKeeps ==
    ASSUME IInv, Save
    PROVE  IInv'
<1> USE DEF IInv
<1>1. /\ UNCHANGED <<items, codeToCar, requests, posted, jobs, scannedAt, answers, failed, stale>>
      /\ main' = [main EXCEPT !.at = "bind"] /\ main.at = "save" /\ ~Idle
  BY DEF Save, historyVars, Idle
<1>2. /\ main'.at = "bind" /\ main'.code = main.code /\ main'.car = main.car /\ main'.row = main.row
      /\ main' = [at |-> main'.at, code |-> main'.code, car |-> main'.car, row |-> main'.row]
  BY <1>1 DEF Types
<1>3. main.code \in Codes /\ main.row \in Rows /\ (main.row \in Slots => main.row \in answers[main.code])
  BY <1>1 DEF MainInv
<1>4. db' \in [Codes -> Rows] /\ \A x \in Codes : db'[x] \in Slots => db'[x] \in answers[x]
  <2>1. CASE main.row = Absent
    <3>1. InsertRow(main.code)
      BY <2>1 DEF Save
    <3>2. Unassigned \in Rows /\ Unassigned \notin Slots
      BY BindingAssumption DEF Rows
    <3>3. PICK slot \in {db[main.code], Unassigned} :
            db' = db \/ db' = [db EXCEPT ![main.code] = slot]
      BY <3>1 DEF InsertRow
    <3>4. db \in [Codes -> Rows] /\ db[main.code] \in Rows
      BY <1>3 DEF Types
    <3>5. \A x \in Codes : db[x] \in Slots => db[x] \in answers[x]
      BY DEF SlotsComeFromAnswers
    <3> QED
      BY <1>3, <3>2, <3>3, <3>4, <3>5
  <2>2. CASE main.row # Absent
    <3>1. UpdateRow(main.code, main.row)
      BY <2>2 DEF Save
    <3> QED
      BY <1>3, <3>1 DEF UpdateRow, WriteColumn, Types, SlotsComeFromAnswers
  <2> QED
    BY <2>1, <2>2
<1>5. Types'
  BY <1>1, <1>2, <1>4 DEF Types
<1>6. MainInv'
  BY <1>1, <1>2 DEF MainInv, Idle
<1>7. AnswerInv' /\ ScanInv'
  BY <1>1 DEF AnswerInv, FromAnswers, ScanInv
<1>8. SlotsComeFromAnswers'
  BY <1>1, <1>4 DEF SlotsComeFromAnswers, PortOf
<1>9. RouteInv'
  BY <1>1 DEF RouteInv, Alone, Routed, PortOf
<1>10. ServeInv'
  <2>1. ASSUME NEW x \in Codes, NEW c \in Cars, UnderWay(x, c) PROVE UnderWay(x, c)'
    BY <1>1, <1>2, <2>1 DEF UnderWay, Routed, Pending, PortOf
  <2> QED
    BY <1>1, <2>1 DEF ServeInv, Alone
<1> QED
  BY <1>5, <1>6, <1>7, <1>8, <1>9, <1>10
LEMMA BindKeeps ==
    ASSUME IInv, Bind
    PROVE  IInv'
<1> USE DEF IInv
<1>1. /\ UNCHANGED <<db, posted, jobs, scannedAt, answers, failed, stale>>
      /\ main.at = "bind" /\ ~Idle
  BY DEF Bind, historyVars, Idle
<1>2. PICK x \in Codes, c \in Cars :
        main.code = x /\ main.car = c /\ c \in scannedAt[x] /\ (main.row \in Slots => main.row \in answers[x])
  BY <1>1 DEF MainInv, Types
<1>3. \/ /\ main'.at = "slot" /\ main'.code = x /\ main'.car = c /\ main'.row = main.row
         /\ main' = [at |-> main'.at, code |-> main'.code, car |-> main'.car, row |-> main'.row]
         /\ main.row \in Slots /\ requests' = requests
      \/ main' = NoHandler /\ requests' = [requests EXCEPT ![x] = @ + 1]
  <2>1. CASE main.row \in Slots
    <3>1. main' = [main EXCEPT !.at = "slot"] /\ requests' = requests
      BY <2>1 DEF Bind
    <3> QED
      BY <1>2, <2>1, <3>1 DEF Types
  <2>2. CASE main.row \notin Slots
    BY <1>2, <2>2 DEF Bind
  <2> QED
    BY <2>1, <2>2
<1>4. /\ requests' \in [Codes -> Nat]
      /\ main'.at # "slot" => requests'[x] > 0
      /\ \A y \in Codes \ {x} : requests'[y] = requests[y]
  BY <1>3 DEF Types
<1>5. /\ items' \in [Cars -> CarItem] /\ codeToCar' \in [Codes -> Cars \cup {NoCar}]
      /\ items'[c].code = x
      /\ \A d \in Cars \ {c} : items'[d].code = items[d].code
      /\ \A d \in Cars : items'[d].port = items[d].port
      /\ \A y \in Codes \ {x} : codeToCar'[y] = codeToCar[y]
      /\ codeToCar'[x] = c \/ (codeToCar'[x] = codeToCar[x] /\ items[c].code = x)
  <2>1. CASE items[c].code = x
    BY <1>2, <2>1 DEF Bind, Types
  <2>2. CASE items[c].code # x
    <3>1. /\ codeToCar' = [codeToCar EXCEPT ![x] = c]
          /\ items' = ApplyNow(items, WriteItem(c, x))
      BY <1>2, <2>2 DEF Bind
    <3>2. items \in [Cars -> CarItem] /\ codeToCar \in [Codes -> Cars \cup {NoCar}]
      BY DEF Types
    <3>3. /\ items' \in [Cars -> CarItem] /\ items'[c].code = x
          /\ \A d \in Cars : items'[d].port = items[d].port
          /\ \A d \in Cars \ {c} : items'[d].code = items[d].code
      BY <3>1, <3>2, CodeWrite
    <3> QED
      BY <3>1, <3>2, <3>3
  <2> QED
    BY <2>1, <2>2
<1>6. Types'
  <2>1. main' = [at |-> main'.at, code |-> main'.code, car |-> main'.car, row |-> main'.row]
    BY <1>3 DEF NoHandler
  <2> QED
    BY <1>1, <1>4, <1>5, <2>1 DEF Types
<1>7. MainInv'
  <2>1. CASE main' = NoHandler
    BY <2>1 DEF NoHandler, MainInv, Idle, Rows
  <2>2. CASE main' # NoHandler
    BY <1>1, <1>2, <1>3, <2>2 DEF MainInv, Idle
  <2> QED
    BY <2>1, <2>2
<1>8. AnswerInv'
  BY <1>1 DEF AnswerInv, FromAnswers
<1>9. ScanInv'
  BY <1>1, <1>2, <1>5 DEF ScanInv
<1>10. SlotsComeFromAnswers'
  BY <1>1, <1>5 DEF SlotsComeFromAnswers, PortOf
<1>11. ASSUME NEW y \in Codes, NEW d \in Cars, Alone(y, d)
       PROVE  /\ Alone(y, d)' /\ (y = x <=> d = c)
              /\ Routed(y, d)' <=> Routed(y, d)
  <2>1. y = x <=> d = c
    BY <1>2, <1>11 DEF Alone
  <2>2. Alone(y, d)'
    BY <1>1, <1>11 DEF Alone
  <2>3. Routed(y, d)' <=> Routed(y, d)
    BY <1>1, <1>5 DEF Routed, PortOf
  <2> QED
    BY <2>1, <2>2, <2>3
<1>12. \A y \in Codes, d \in Cars : Alone(y, d)' => Alone(y, d)
  BY <1>1 DEF Alone
<1>13. RouteInv'
  <2> SUFFICES ASSUME NEW y \in Codes, NEW d \in Cars, Alone(y, d), items'[d].code = y
               PROVE  Routed(y, d)' \/ codeToCar'[y] = d
    BY <1>12 DEF RouteInv
  <2>1. CASE y = x
    BY <1>5, <1>11, <2>1 DEF RouteInv
  <2>2. CASE y # x
    BY <1>5, <1>11, <2>2 DEF RouteInv
  <2> QED
    BY <2>1, <2>2
<1>14. ServeInv'
  <2> SUFFICES ASSUME NEW y \in Codes, NEW d \in Cars, Alone(y, d), d \notin stale, y \notin failed
               PROVE  UnderWay(y, d)'
    BY <1>1, <1>12 DEF ServeInv
  <2>1. CASE y = x
    <3>1. d = c /\ items'[d].code = y
      BY <1>5, <1>11, <2>1
    <3>2. Routed(y, d)' \/ codeToCar'[y] = d
      BY <1>11, <1>13, <3>1 DEF RouteInv
    <3>3. CASE main'.at = "slot"
      <4>1. main' # NoHandler
        BY <3>3 DEF NoHandler
      <4> QED
        BY <1>3, <2>1, <3>1, <3>3, <4>1 DEF UnderWay
    <3>4. CASE main'.at # "slot"
      BY <1>4, <2>1, <3>1, <3>2, <3>4 DEF UnderWay, Pending
    <3> QED
      BY <3>3, <3>4
  <2>2. CASE y # x
    <3>1. d # c /\ UnderWay(y, d)
      BY <1>11, <2>2 DEF ServeInv
    <3>2. Pending(y) => Pending(y)'
      BY <1>1, <1>4, <2>2 DEF Pending
    <3>3. main.code # y
      BY <1>2, <2>2
    <3>4. items[d].code = y /\ (Routed(y, d) \/ (codeToCar[y] = d /\ Pending(y)))
      BY <3>1, <3>3, Zenon DEF UnderWay
    <3> QED
      BY <1>5, <1>11, <2>2, <3>1, <3>2, <3>4 DEF UnderWay
  <2> QED
    BY <2>1, <2>2
<1> QED
  BY <1>6, <1>7, <1>8, <1>9, <1>10, <1>13, <1>14

\* What holds when a car gets a slot that the server gave one of its codes.
LEMMA CarGetsAnswer ==
    ASSUME IInv, NEW x \in Codes, NEW c \in scannedAt[x], NEW slot \in answers[x],
           items' = UpdateSlotByCarID(c, slot), UNCHANGED <<db, scannedAt, answers>>
    PROVE  /\ items' \in [Cars -> CarItem]
           /\ \A d \in Cars : items'[d].code = items[d].code
           /\ SlotsComeFromAnswers'
           /\ \A y \in Codes, d \in Cars :
                /\ Alone(y, d)' <=> Alone(y, d)
                /\ Alone(y, d) /\ (Routed(y, d) \/ y = x) => Routed(y, d)'
<1>1. /\ items \in [Cars -> CarItem] /\ c \in Cars /\ slot \in Slots
      /\ scannedAt' = scannedAt /\ answers' = answers
  BY DEF IInv, Types
<1>2. /\ items' \in [Cars -> CarItem] /\ items'[c].port = PortOf(slot)
      /\ \A d \in Cars : items'[d].code = items[d].code
      /\ \A d \in Cars \ {c} : items'[d].port = items[d].port
  BY <1>1, PortWrite
<1>3. SlotsComeFromAnswers'
  BY <1>1, <1>2 DEF IInv, SlotsComeFromAnswers, PortOf
<1>4. ASSUME NEW y \in Codes, NEW d \in Cars
      PROVE  Alone(y, d)' <=> Alone(y, d)
  BY <1>1 DEF Alone
<1>5. ASSUME NEW y \in Codes, NEW d \in Cars, Alone(y, d), Routed(y, d) \/ y = x
      PROVE  Routed(y, d)'
  <2>1. y = x <=> d = c
    BY <1>1, <1>5 DEF Alone
  <2>2. CASE d = c
    BY <1>1, <1>2, <2>1, <2>2 DEF Routed, PortOf
  <2>3. CASE d # c
    BY <1>1, <1>2, <1>5, <2>1, <2>3 DEF Routed, PortOf
  <2> QED
    BY <2>2, <2>3
<1> QED
  BY <1>2, <1>3, <1>4, <1>5

LEMMA SlotOfRowKeeps ==
    ASSUME IInv, SlotOfRow
    PROVE  IInv'
<1>1. /\ UNCHANGED <<codeToCar, db, requests, posted, jobs, scannedAt, answers, failed, stale>>
      /\ main.at = "slot" /\ main' = NoHandler
  BY DEF SlotOfRow, historyVars
<1>2. PICK x \in Codes, c \in Cars, slot \in Slots :
        /\ main.code = x /\ main.car = c /\ main.row = slot
        /\ c \in scannedAt[x] /\ slot \in answers[x]
  BY <1>1 DEF IInv, Types, MainInv, Idle
<1>3. items' = UpdateSlotByCarID(c, slot)
  BY <1>2 DEF SlotOfRow
<1>4. /\ items' \in [Cars -> CarItem]
      /\ \A d \in Cars : items'[d].code = items[d].code
      /\ SlotsComeFromAnswers'
      /\ \A y \in Codes, d \in Cars :
           /\ Alone(y, d)' <=> Alone(y, d)
           /\ Alone(y, d) /\ (Routed(y, d) \/ y = x) => Routed(y, d)'
  BY <1>1, <1>2, <1>3, CarGetsAnswer
<1>5. Types'
  BY <1>1, <1>4 DEF IInv, Types, NoHandler
<1>6. MainInv'
  BY <1>1 DEF MainInv, NoHandler, Idle, Rows
<1>7. AnswerInv' /\ ScanInv'
  BY <1>1, <1>4 DEF IInv, AnswerInv, FromAnswers, ScanInv
<1>8. RouteInv'
  BY <1>1, <1>4 DEF IInv, RouteInv
<1>9. ServeInv'
  <2> SUFFICES ASSUME NEW y \in Codes, NEW d \in Cars, Alone(y, d), d \notin stale, y \notin failed
               PROVE  UnderWay(y, d)'
    BY <1>1, <1>4 DEF ServeInv
  <2>1. UnderWay(y, d) /\ main.at \notin {"save", "bind"}
    BY <1>1 DEF IInv, ServeInv
  <2>2. items'[d].code = y
    BY <1>4, <2>1 DEF UnderWay
  <2>3. Pending(y)' <=> Pending(y)
    BY <1>1 DEF Pending
  <2>4. y = x \/ Routed(y, d) \/ (codeToCar[y] = d /\ Pending(y))
    BY <1>2, <2>1 DEF UnderWay
  <2>5. Routed(y, d)' \/ (codeToCar'[y] = d /\ Pending(y)')
    BY <1>1, <1>4, <2>3, <2>4, Zenon
  <2> QED
    BY <2>2, <2>5 DEF UnderWay
<1> QED
  BY <1>4, <1>5, <1>6, <1>7, <1>8, <1>9 DEF IInv
LEMMA OnSlotReceiveKeeps ==
    ASSUME IInv, NEW x \in Codes, NEW slot \in Slots, OnSlotReceive(x, slot)
    PROVE  IInv'
<1> DEFINE u == [code |-> x, slot |-> slot]
<1>1. /\ UNCHANGED <<items, codeToCar, db, main, scannedAt, failed, stale>> /\ Idle
      /\ requests[x] > 0 /\ requests' = [requests EXCEPT ![x] = @ - 1]
      /\ answers' = [answers EXCEPT ![x] = @ \cup {slot}]
      /\ jobs' = Append(jobs, u) /\ posted' = Append(posted, u)
  BY DEF OnSlotReceive
<1>2. u \in Update /\ u.code = x /\ u.slot = slot
  BY DEF Update
<1> HIDE DEF u
<1>3. /\ requests' \in [Codes -> Nat] /\ \A y \in Codes \ {x} : requests'[y] = requests[y]
      /\ answers' \in [Codes -> SUBSET Slots] /\ slot \in answers'[x]
      /\ \A y \in Codes : answers[y] \subseteq answers'[y]
  BY <1>1 DEF IInv, Types
<1>4. posted \in Seq(Update) /\ jobs \in Seq(Update)
  BY DEF IInv, Types
<1>5. /\ posted' \in Seq(Update)
      /\ \A i \in 1 .. Len(posted') : posted'[i] = u \/ \E j \in 1 .. Len(posted) : posted'[i] = posted[j]
      /\ \E i \in 1 .. Len(posted') : posted'[i] = u
      /\ \A j \in 1 .. Len(posted) : \E i \in 1 .. Len(posted') : posted'[i] = posted[j]
  BY <1>1, <1>2, <1>4, QueueGrows, ZenonT(60)
<1>6. /\ jobs' \in Seq(Update)
      /\ \A i \in 1 .. Len(jobs') : jobs'[i] = u \/ \E j \in 1 .. Len(jobs) : jobs'[i] = jobs[j]
  BY <1>1, <1>2, <1>4, QueueGrows, ZenonT(60)
<1>7. Types'
  BY <1>1, <1>3, <1>5, <1>6 DEF IInv, Types
<1>8. MainInv'
  BY <1>1 DEF IInv, MainInv, Idle
<1>9. AnswerInv'
  <2>1. \A j \in 1 .. Len(posted) : posted[j].code \in Codes /\ posted[j].slot \in answers[posted[j].code]
    BY <1>4, CodesOfEntries DEF IInv, AnswerInv, FromAnswers
  <2>2. \A j \in 1 .. Len(jobs) : jobs[j].code \in Codes /\ jobs[j].slot \in answers[jobs[j].code]
    BY <1>4, CodesOfEntries DEF IInv, AnswerInv, FromAnswers
  <2>3. FromAnswers(posted)'
    <3>1. ASSUME NEW i \in 1 .. Len(posted')
          PROVE  posted'[i].slot \in answers'[posted'[i].code]
      <4>1. CASE posted'[i] = u
        BY <1>2, <1>3, <4>1
      <4>2. CASE \E j \in 1 .. Len(posted) : posted'[i] = posted[j]
        BY <1>3, <2>1, <4>2
      <4> QED
        BY <1>5, <4>1, <4>2
    <3> QED
      BY <3>1 DEF FromAnswers
  <2>4. FromAnswers(jobs)'
    <3>1. ASSUME NEW i \in 1 .. Len(jobs')
          PROVE  jobs'[i].slot \in answers'[jobs'[i].code]
      <4>1. CASE jobs'[i] = u
        BY <1>2, <1>3, <4>1
      <4>2. CASE \E j \in 1 .. Len(jobs) : jobs'[i] = jobs[j]
        BY <1>3, <2>2, <4>2
      <4> QED
        BY <1>6, <4>1, <4>2
    <3> QED
      BY <3>1 DEF FromAnswers
  <2> QED
    BY <2>3, <2>4 DEF AnswerInv
<1>10. ScanInv'
  BY <1>1 DEF IInv, ScanInv
<1>11. SlotsComeFromAnswers'
  BY <1>1, <1>3 DEF IInv, SlotsComeFromAnswers, PortOf
<1>12. ASSUME NEW y \in Codes, NEW d \in Cars
       PROVE  /\ Alone(y, d)' <=> Alone(y, d)
              /\ Routed(y, d) => Routed(y, d)'
              /\ Pending(y) => Pending(y)'
  <2>1. Alone(y, d)' <=> Alone(y, d)
    BY <1>1 DEF Alone
  <2>2. Routed(y, d) => Routed(y, d)'
    BY <1>1, <1>3 DEF Routed, PortOf
  <2>3. Pending(y) => Pending(y)'
    BY <1>2, <1>3, <1>5 DEF Pending
  <2> QED
    BY <2>1, <2>2, <2>3
<1>13. RouteInv'
  BY <1>1, <1>12 DEF IInv, RouteInv
<1>14. ServeInv'
  BY <1>1, <1>12 DEF IInv, ServeInv, UnderWay
<1> QED
  BY <1>7, <1>8, <1>9, <1>10, <1>11, <1>13, <1>14 DEF IInv

LEMMA RequestFailsKeeps ==
    ASSUME IInv, NEW x \in Codes, RequestFails(x)
    PROVE  IInv'
<1>1. /\ UNCHANGED <<items, codeToCar, db, posted, jobs, main, scannedAt, answers, stale>>
      /\ requests[x] > 0 /\ requests' = [requests EXCEPT ![x] = @ - 1]
      /\ failed' = failed \cup {x}
  BY DEF RequestFails
<1>2. /\ requests' \in [Codes -> Nat] /\ \A y \in Codes \ {x} : requests'[y] = requests[y]
  BY <1>1 DEF IInv, Types
<1>3. Types'
  BY <1>1, <1>2 DEF IInv, Types
<1>4. MainInv' /\ AnswerInv' /\ ScanInv'
  BY <1>1 DEF IInv, MainInv, Idle, AnswerInv, FromAnswers, ScanInv
<1>5. SlotsComeFromAnswers'
  BY <1>1 DEF IInv, SlotsComeFromAnswers, PortOf
<1>6. RouteInv'
  BY <1>1 DEF IInv, RouteInv, Alone, Routed, PortOf
<1>7. ServeInv'
  <2>1. ASSUME NEW y \in Codes \ {x}, NEW d \in Cars, UnderWay(y, d)
        PROVE  UnderWay(y, d)'
    BY <1>1, <1>2, <2>1 DEF UnderWay, Routed, Pending, PortOf
  <2> QED
    BY <1>1, <2>1 DEF IInv, ServeInv, Alone
<1> QED
  BY <1>3, <1>4, <1>5, <1>6, <1>7 DEF IInv

LEMMA SlotToRowKeeps ==
    ASSUME IInv, NEW i \in 1 .. Len(jobs), SlotToRow(i)
    PROVE  IInv'
<1>1. /\ UNCHANGED <<items, codeToCar, requests, posted, main, scannedAt, answers, failed, stale>>
      /\ jobs' = RemoveAt(jobs, i)
  BY DEF SlotToRow, historyVars
<1>2. jobs \in Seq(Update)
  BY DEF IInv, Types
<1>3. /\ jobs' \in Seq(Update)
      /\ \A k \in 1 .. Len(jobs') : \E j \in 1 .. Len(jobs) : jobs'[k] = jobs[j]
  BY <1>1, <1>2, QueueLosesOne
<1>4. PICK x \in Codes, slot \in Slots : jobs[i].code = x /\ jobs[i].slot = slot /\ slot \in answers[x]
  BY <1>2, CodesOfEntries DEF IInv, AnswerInv, FromAnswers
<1>5. db' = db \/ db' = [db EXCEPT ![x] = slot]
  BY <1>4 DEF SlotToRow, UpdateValue, WriteColumn
<1>6. db' \in [Codes -> Rows] /\ \A y \in Codes : db'[y] \in Slots => db'[y] \in answers[y]
  BY <1>4, <1>5 DEF IInv, Types, SlotsComeFromAnswers, Rows
<1>7. Types'
  BY <1>1, <1>3, <1>6 DEF IInv, Types
<1>8. MainInv' /\ AnswerInv' /\ ScanInv'
  BY <1>1, <1>3 DEF IInv, MainInv, Idle, AnswerInv, FromAnswers, ScanInv
<1>9. SlotsComeFromAnswers'
  BY <1>1, <1>6 DEF IInv, SlotsComeFromAnswers, PortOf
<1>10. RouteInv'
  BY <1>1 DEF IInv, RouteInv, Alone, Routed, PortOf
<1>11. ServeInv'
  BY <1>1 DEF IInv, ServeInv, UnderWay, Alone, Routed, Pending, PortOf
<1> QED
  BY <1>7, <1>8, <1>9, <1>10, <1>11 DEF IInv
LEMMA UpdateSlotByCodeKeeps ==
    ASSUME IInv, UpdateSlotByCode
    PROVE  IInv'
<1> DEFINE u == Head(posted)
<1>1. /\ UNCHANGED <<db, requests, jobs, main, scannedAt, answers, failed, stale>>
      /\ Idle /\ posted # <<>> /\ posted' = Tail(posted)
      /\ codeToCar[u.code] \in Cars =>
            /\ items' = UpdateSlotByCarID(codeToCar[u.code], u.slot)
            /\ codeToCar' = [codeToCar EXCEPT ![u.code] = NoCar]
      /\ codeToCar[u.code] \notin Cars => UNCHANGED <<items, codeToCar>>
  BY DEF UpdateSlotByCode, historyVars
<1>2. posted \in Seq(Update)
  BY DEF IInv, Types
<1>3. /\ posted' \in Seq(Update)
      /\ \E j \in 1 .. Len(posted) : u = posted[j]
      /\ \A i \in 1 .. Len(posted') : \E j \in 1 .. Len(posted) : posted'[i] = posted[j]
      /\ \A j \in 1 .. Len(posted) : posted[j] = u \/ \E i \in 1 .. Len(posted') : posted'[i] = posted[j]
  BY <1>1, <1>2, QueueShrinks
<1> HIDE DEF u
<1>4. PICK x \in Codes, slot \in Slots : u.code = x /\ u.slot = slot /\ slot \in answers[x]
  BY <1>2, <1>3, CodesOfEntries DEF IInv, AnswerInv, FromAnswers
<1>5. \A y \in Codes \ {x} : Pending(y) => Pending(y)'
  BY <1>1, <1>3, <1>4, ZenonT(60) DEF Pending
<1>6. /\ codeToCar' \in [Codes -> Cars \cup {NoCar}]
      /\ codeToCar'[x] = IF codeToCar[x] \in Cars THEN NoCar ELSE codeToCar[x]
      /\ \A y \in Codes \ {x} : codeToCar'[y] = codeToCar[y]
  BY <1>1, <1>4 DEF IInv, Types
<1>7. /\ items' \in [Cars -> CarItem]
      /\ \A d \in Cars : items'[d].code = items[d].code
      /\ SlotsComeFromAnswers'
      /\ \A y \in Codes, d \in Cars :
           /\ Alone(y, d)' <=> Alone(y, d)
           /\ Alone(y, d) /\ Routed(y, d) => Routed(y, d)'
           /\ Alone(y, d) /\ y = x /\ codeToCar[y] = d => Routed(y, d)'
  <2>1. CASE codeToCar[x] \in Cars
    <3>1. codeToCar[x] \in scannedAt[x] /\ items' = UpdateSlotByCarID(codeToCar[x], slot)
      BY <1>1, <1>4, <2>1 DEF IInv, ScanInv
    <3> QED
      BY <1>1, <1>4, <3>1, CarGetsAnswer
  <2>2. CASE codeToCar[x] \notin Cars
    <3>1. items' = items
      BY <1>1, <1>4, <2>2
    <3>2. items' \in [Cars -> CarItem] /\ SlotsComeFromAnswers'
      BY <1>1, <3>1 DEF IInv, Types, SlotsComeFromAnswers, PortOf
    <3>3. ASSUME NEW y \in Codes, NEW d \in Cars
          PROVE  (Alone(y, d)' <=> Alone(y, d)) /\ (Routed(y, d)' <=> Routed(y, d))
      BY <1>1, <3>1 DEF Alone, Routed, PortOf
    <3> QED
      BY <2>2, <3>1, <3>2, <3>3
  <2> QED
    BY <2>1, <2>2
<1>8. Types'
  BY <1>1, <1>3, <1>6, <1>7 DEF IInv, Types
<1>9. MainInv'
  BY <1>1 DEF IInv, MainInv, Idle
<1>10. AnswerInv'
  BY <1>1, <1>3 DEF IInv, AnswerInv, FromAnswers
<1>11. ScanInv'
  BY <1>1, <1>6, <1>7, TableAssumption DEF IInv, ScanInv
<1>12. ASSUME NEW y \in Codes, NEW d \in Cars, Alone(y, d)
       PROVE  /\ Routed(y, d) => Routed(y, d)'
              /\ codeToCar[y] = d => Routed(y, d)' \/ (y # x /\ codeToCar'[y] = d)
  BY <1>6, <1>7, <1>12, Zenon
<1>13. RouteInv'
  <2> SUFFICES ASSUME NEW y \in Codes, NEW d \in Cars, Alone(y, d), items[d].code = y
               PROVE  Routed(y, d)' \/ codeToCar'[y] = d
    BY <1>7 DEF RouteInv
  <2>1. Routed(y, d) \/ codeToCar[y] = d
    BY DEF IInv, RouteInv
  <2> QED
    BY <1>12, <2>1
<1>14. ServeInv'
  <2> SUFFICES ASSUME NEW y \in Codes, NEW d \in Cars, Alone(y, d), d \notin stale, y \notin failed
               PROVE  UnderWay(y, d)'
    BY <1>1, <1>7 DEF ServeInv
  <2>1. items[d].code = y /\ (Routed(y, d) \/ (codeToCar[y] = d /\ Pending(y)))
    BY <1>1 DEF IInv, ServeInv, UnderWay, Idle
  <2>2. Routed(y, d)' \/ (codeToCar'[y] = d /\ Pending(y)')
    BY <1>5, <1>12, <2>1
  <2> QED
    BY <1>7, <2>1, <2>2 DEF UnderWay
<1> QED
  BY <1>7, <1>8, <1>9, <1>10, <1>11, <1>13, <1>14 DEF IInv

LEMMA ResetKeeps ==
    ASSUME IInv, NEW c \in Cars, Reset(c)
    PROVE  IInv'
<1>1. /\ UNCHANGED <<codeToCar, db, requests, posted, jobs, main, scannedAt, answers, failed>>
      /\ items' = ApplyNow(items, InitItem(c)) /\ stale' = stale \cup {c}
  BY DEF Reset
<1>2. /\ items' \in [Cars -> CarItem] /\ items'[c].code = NoCode /\ items'[c].port = NoPort
      /\ \A d \in Cars \ {c} : items'[d] = items[d]
  BY <1>1, ResetWrite DEF IInv, Types
<1>3. Types'
  BY <1>1, <1>2 DEF IInv, Types
<1>4. MainInv' /\ AnswerInv'
  BY <1>1 DEF IInv, MainInv, Idle, AnswerInv, FromAnswers
<1>5. ScanInv'
  BY <1>1, <1>2, TableAssumption DEF IInv, ScanInv
<1>6. SlotsComeFromAnswers'
  BY <1>1, <1>2 DEF IInv, SlotsComeFromAnswers, PortOf
<1>7. ASSUME NEW y \in Codes, NEW d \in Cars \ {c}
      PROVE  Routed(y, d)' <=> Routed(y, d)
  BY <1>1, <1>2 DEF Routed, PortOf
<1>8. ASSUME NEW y \in Codes, NEW d \in Cars
      PROVE  (Alone(y, d)' <=> Alone(y, d)) /\ (Pending(y)' <=> Pending(y))
  BY <1>1 DEF Alone, Pending
<1>9. RouteInv'
  BY <1>1, <1>2, <1>7, <1>8, TableAssumption DEF IInv, RouteInv
<1>10. ServeInv'
  BY <1>1, <1>2, <1>7, <1>8 DEF IInv, ServeInv, UnderWay
<1> QED
  BY <1>3, <1>4, <1>5, <1>6, <1>9, <1>10 DEF IInv

LEMMA StepKeeps == IInv /\ [Next]_vars => IInv'
<1> SUFFICES ASSUME IInv, [Next]_vars PROVE IInv'
  OBVIOUS
<1>1. ASSUME NEW x \in Codes, NEW c \in Cars, Scan(x, c) PROVE IInv'
  BY <1>1, ScanKeeps
<1>2. CASE Save
  BY <1>2, SaveKeeps
<1>3. CASE Bind
  BY <1>3, BindKeeps
<1>4. CASE SlotOfRow
  BY <1>4, SlotOfRowKeeps
<1>5. ASSUME NEW x \in Codes, RequestFails(x) PROVE IInv'
  BY <1>5, RequestFailsKeeps
<1>6. ASSUME NEW x \in Codes, NEW slot \in Slots, OnSlotReceive(x, slot) PROVE IInv'
  BY <1>6, OnSlotReceiveKeeps
<1>7. ASSUME NEW i \in 1 .. Len(jobs), SlotToRow(i) PROVE IInv'
  BY <1>7, SlotToRowKeeps
<1>8. CASE UpdateSlotByCode
  BY <1>8, UpdateSlotByCodeKeeps
<1>9. ASSUME NEW c \in Cars, Reset(c) PROVE IInv'
  BY <1>9, ResetKeeps
<1>10. CASE UNCHANGED vars
  <2>1. UNCHANGED <<items, codeToCar, db, requests, posted, jobs, main,
                    scannedAt, answers, failed, stale>>
    BY <1>10 DEF vars, historyVars
  <2>2. Types' /\ MainInv' /\ AnswerInv'
    BY <2>1 DEF IInv, Types, MainInv, Idle, AnswerInv, FromAnswers
  <2>3. ScanInv' /\ SlotsComeFromAnswers'
    BY <2>1 DEF IInv, ScanInv, SlotsComeFromAnswers, PortOf
  <2>4. RouteInv'
    BY <2>1 DEF IInv, RouteInv, Alone, Routed, PortOf
  <2>5. ServeInv'
    BY <2>1 DEF IInv, ServeInv, UnderWay, Alone, Routed, Pending, PortOf
  <2> QED
    BY <2>2, <2>3, <2>4, <2>5 DEF IInv
<1> QED
  BY <1>1, <1>2, <1>3, <1>4, <1>5, <1>6, <1>7, <1>8, <1>9, <1>10
  DEF Next, MainStep, RequestEnds

LEMMA IInvHolds == Spec => []IInv
BY InitHolds, StepKeeps, PTL DEF Spec

----------------------------------------------------------------------------
(***************************************************************************)
(* The theorems.                                                           *)
(***************************************************************************)
\* A slot is in a row of supply_data only if the server gave it to the code of the
\* row (Save writes back a row read before, a job writes one answered before), and
\* every port of a car answers a code that was scanned at the car.
THEOREM SlotsAreAnswers == Spec => []SlotsComeFromAnswers
<1>1. IInv => SlotsComeFromAnswers
  BY DEF IInv
<1> QED
  BY <1>1, IInvHolds, PTL

\* A car and a code that met nobody else, no reset since the last scan and no
\* failed request: when nothing of the code is under way any more, updateSlotByCode
\* or the row has given the car its code and a port the server answered.
THEOREM AnswersAreRouted == Spec => []AnsweredIsRouted
<1>1. IInv => AnsweredIsRouted
  <2> SUFFICES ASSUME IInv, NEW x \in Codes, NEW c \in Cars,
                      Alone(x, c), c \notin stale, x \notin failed,
                      Idle, posted = <<>>, requests[x] = 0
               PROVE  items[c].code = x /\ Routed(x, c)
    BY DEF AnsweredIsRouted, Routed
  <2>1. UnderWay(x, c)
    BY DEF IInv, ServeInv
  <2>2. ~Pending(x)
    BY EmptySeq DEF Pending
  <2> QED
    BY <2>1, <2>2 DEF UnderWay, Idle
<1> QED
  BY <1>1, IInvHolds, PTL
----------------------------------------------------------------------------
\* A code has at most as many requests, the one its handler may still make
\* included, as scans were made.
Asking(x) == main.at \in {"save", "bind"} /\ main.code = x
Bounds ==
    /\ scans \in 0 .. MaxScans /\ resets \in 0 .. MaxResets
    /\ failed \subseteq Codes /\ stale \subseteq Cars
    /\ main.code \in Codes \cup {NoCode} /\ main.car \in Cars \cup {NoCar}
    /\ \A x \in Codes : requests[x] <= scans /\ (Asking(x) => requests[x] < scans)

LEMMA BoundsKept == IInv /\ Bounds /\ [Next]_vars => Bounds'
<1> SUFFICES ASSUME IInv, Bounds, [Next]_vars PROVE Bounds'
  OBVIOUS
<1>1. /\ main = [at |-> main.at, code |-> main.code, car |-> main.car, row |-> main.row]
      /\ requests \in [Codes -> Nat] /\ scans \in 0 .. MaxScans /\ scans \in Nat
      /\ MaxScans \in Nat /\ MaxResets \in Nat
  BY BindingAssumption DEF IInv, Types, Bounds
<1>2. ASSUME NEW x \in Codes, NEW c \in Cars, Scan(x, c) PROVE Bounds'
  <2>1. /\ main'.code = x /\ main'.car = c /\ scans' = scans + 1 /\ scans' \in 0 .. MaxScans
        /\ UNCHANGED <<requests, resets, failed>> /\ stale' \subseteq stale
    BY <1>1, <1>2 DEF Scan
  <2> QED
    BY <1>1, <2>1 DEF Bounds
<1>3. CASE Save
  <2>1. /\ main'.code = main.code /\ main'.car = main.car /\ main.at = "save"
        /\ UNCHANGED <<requests, scans, resets, failed, stale>>
    BY <1>1, <1>3 DEF Save, historyVars
  <2> QED
    BY <2>1 DEF Bounds, Asking
<1>4. CASE Bind
  <2>1. main.at = "bind" /\ main.code \in Codes /\ UNCHANGED <<scans, resets, failed, stale>>
    BY <1>4 DEF Bind, historyVars, IInv, MainInv, Idle
  <2>2. CASE main.row \in Slots
    <3>1. main'.code = main.code /\ main'.car = main.car /\ main'.at = "slot" /\ requests' = requests
      BY <1>1, <1>4, <2>2 DEF Bind
    <3> QED
      BY <2>1, <3>1 DEF Bounds, Asking
  <2>3. CASE main.row \notin Slots
    <3>1. main' = NoHandler /\ requests' = [requests EXCEPT ![main.code] = @ + 1]
      BY <1>4, <2>3 DEF Bind
    <3>2. main'.at = "idle" /\ main'.code = NoCode /\ main'.car = NoCar
      BY <3>1 DEF NoHandler
    <3>3. requests[main.code] < scans
      BY <2>1 DEF Bounds, Asking
    <3>4. \A x \in Codes : requests'[x] <= scans
      BY <1>1, <2>1, <3>1, <3>3 DEF Bounds
    <3> QED
      BY <2>1, <3>2, <3>4 DEF Bounds, Asking
  <2> QED
    BY <2>2, <2>3
<1>5. CASE SlotOfRow
  <2>1. main'.at = "idle" /\ main'.code = NoCode /\ main'.car = NoCar
    BY <1>5 DEF SlotOfRow, NoHandler
  <2>2. UNCHANGED <<requests, scans, resets, failed, stale>>
    BY <1>5 DEF SlotOfRow, historyVars
  <2> QED
    BY <2>1, <2>2 DEF Bounds, Asking
<1>6. ASSUME NEW x \in Codes, RequestFails(x) \/ \E slot \in Slots : OnSlotReceive(x, slot)
      PROVE  Bounds'
  <2>1. /\ requests' = [requests EXCEPT ![x] = @ - 1] /\ requests[x] > 0
        /\ UNCHANGED <<main, scans, resets, stale>> /\ failed' \subseteq failed \cup {x} /\ Idle
    BY <1>6 DEF RequestFails, OnSlotReceive
  <2>2. \A y \in Codes : requests'[y] <= scans
    BY <1>1, <2>1 DEF Bounds
  <2> QED
    BY <1>1, <2>1, <2>2 DEF Bounds, Asking, Idle
<1>7. ASSUME NEW c \in Cars, Reset(c) PROVE Bounds'
  BY <1>1, <1>7 DEF Reset, Bounds, Asking
<1>8. CASE (\E i \in 1 .. Len(jobs) : SlotToRow(i)) \/ UpdateSlotByCode \/ UNCHANGED vars
  <2>1. UNCHANGED <<main, requests, scans, resets, failed, stale>>
    BY <1>8 DEF SlotToRow, UpdateSlotByCode, historyVars, vars
  <2> QED
    BY <2>1 DEF Bounds, Asking
<1> QED
  BY <1>2, <1>3, <1>4, <1>5, <1>6, <1>7, <1>8 DEF Next, MainStep, RequestEnds

\* The types are right in every reachable state; of one code no more requests are
\* under way than scans were made.
THEOREM BindingTypes == Spec => []TypeOK
<1>1. Init => Bounds
  BY BindingAssumption DEF Init, NoHandler, Bounds, Asking
<1>2. IInv /\ Bounds => TypeOK
  <2> SUFFICES ASSUME IInv, Bounds PROVE TypeOK
    OBVIOUS
  <2>1. requests \in [Codes -> 0 .. MaxScans]
    BY BindingAssumption DEF IInv, Types, Bounds
  <2>2. main \in [at: {"idle", "save", "bind", "slot"}, code: Codes \cup {NoCode},
                  car: Cars \cup {NoCar}, row: Rows]
    BY DEF IInv, Types, MainInv, Bounds
  <2> QED
    BY <2>1, <2>2 DEF IInv, Types, Bounds, TypeOK
<1> QED
  BY <1>1, <1>2, IInvHolds, BoundsKept, PTL DEF Spec

====
