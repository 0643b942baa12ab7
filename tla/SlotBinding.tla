---- MODULE SlotBinding ----
(***************************************************************************)
(* From a code that the cameras bound to a car to the port of that car:    *)
(* DataProcessMain looks the code up in table supply_data, asks the server *)
(* for a slot unless the row has one, remembers the car of the code in     *)
(* DeviceManager's codeToCarMap, and gives the answer to the car and, in a *)
(* job of the thread pool, to the row.                                     *)
(*                                                                         *)
(* Handlers run on the main thread; between two steps of one, a pool job   *)
(* may write the table and another thread (carLoop after unloading) may    *)
(* reset a car.  RequestApi is seen from outside: a request is answered    *)
(* or ends in another way, at any later time or never.  Writes to a car    *)
(* get carItemsLock at once here; CarItemsWriter has those that do not.    *)
(***************************************************************************)
EXTENDS CarItemTable, Sequences, SequencesExt

CONSTANTS
    BadSlot,      \* a slot number that no port has
    StrongPort,   \* test_slot_id, the port for parcels without a valid slot
    MaxScans,     \* bound on the scans
    MaxResets     \* bound on the resets of cars

Slots == Ports \cup {BadSlot}
Absent == "absent"           \* no row
Unassigned == "unassigned"   \* slot_id = -1
Rows == Slots \cup {Absent, Unassigned}

ASSUME BindingAssumption ==
    /\ BadSlot \notin Ports \cup {NoPort}
    /\ StrongPort \in Ports
    /\ {Absent, Unassigned} \cap Slots = {}
    /\ MaxScans \in Nat /\ MaxResets \in Nat

VARIABLES
    items,       \* carItems
    codeToCar,   \* codeToCarMap
    db,          \* slot_id of the code's row in supply_data
    requests,    \* requests of the code that wait for their end
    posted,      \* handleUpdateSlotOnMainThread calls in the event queue
    jobs,        \* pool jobs that will write a slot to the table
    main,        \* the running handler of the main thread
    scans, resets,
    \* history, read by properties only:
    scannedAt,   \* the cars the code was scanned at
    answers,     \* the slots the server gave the code
    failed,      \* codes of which a request ended without an answer
    stale        \* cars reset since the last scan at them

historyVars == <<scannedAt, answers, failed, stale>>
vars == <<items, codeToCar, db, requests, posted, jobs, main, scans, resets, historyVars>>

Update == [code: Codes, slot: Slots]
NoHandler == [at |-> "idle", code |-> NoCode, car |-> NoCar, row |-> Absent]

TypeOK ==
    /\ items \in [Cars -> CarItem]
    /\ codeToCar \in [Codes -> Cars \cup {NoCar}]
    /\ db \in [Codes -> Rows]
    /\ requests \in [Codes -> 0 .. MaxScans]
    /\ posted \in Seq(Update) /\ jobs \in Seq(Update)
    /\ main \in [at: {"idle", "save", "bind", "slot"}, code: Codes \cup {NoCode},
                 car: Cars \cup {NoCar}, row: Rows]
    /\ scans \in 0 .. MaxScans /\ resets \in 0 .. MaxResets
    /\ scannedAt \in [Codes -> SUBSET Cars]
    /\ answers \in [Codes -> SUBSET Slots]
    /\ failed \subseteq Codes /\ stale \subseteq Cars

Init ==
    /\ items = [c \in Cars |-> EmptyItem]
    /\ codeToCar = [x \in Codes |-> NoCar]
    /\ db = [x \in Codes |-> Absent]
    /\ requests = [x \in Codes |-> 0]
    /\ posted = <<>> /\ jobs = <<>> /\ main = NoHandler
    /\ scans = 0 /\ resets = 0
    /\ scannedAt = [x \in Codes |-> {}]
    /\ answers = [x \in Codes |-> {}]
    /\ failed = {} /\ stale = {}

Idle == main.at = "idle"

\* updateSlotByCarID: a slot that is no port becomes the strong port; the car is
\* written only if its port differs.  The read and the write may be taken as one
\* step: a reset between them is as good as one before or after both.
PortOf(slot) == IF slot \in Ports THEN slot ELSE StrongPort
UpdateSlotByCarID(c, slot) ==
    IF items[c].port = PortOf(slot) THEN items
    ELSE ApplyNow(items, WriteSlot(c, PortOf(slot)))

----------------------------------------------------------------------------
\* The statements of SqlConnection.  Each may fail: a query then looks like one
\* that found nothing, and nobody looks at the result of the others.
QueryString(x) == {db[x], Absent}
InsertRow(x) == db' \in {db, [db EXCEPT ![x] = IF @ = Absent THEN Unassigned ELSE @]}
WriteColumn(x, slot) == IF db[x] = Absent THEN db ELSE [db EXCEPT ![x] = slot]
UpdateRow(x, slot) == db' \in {db, WriteColumn(x, slot)}
UpdateValue(x, slot) == db' \in {db, WriteColumn(x, slot)}

----------------------------------------------------------------------------
\* on41cameraDataReceived with an accepted code: insertSupply_data asks for the
\* row.
Scan(x, c) ==
    /\ Idle /\ scans < MaxScans
    /\ scans' = scans + 1
    /\ \E row \in QueryString(x) :
         main' = [at |-> "save", code |-> x, car |-> c, row |-> row]
    /\ scannedAt' = [scannedAt EXCEPT ![x] = @ \cup {c}]
    /\ stale' = stale \ {c}
    /\ UNCHANGED <<items, codeToCar, db, requests, posted, jobs, resets, answers, failed>>

\* It inserts the row, or writes back all columns of the one it read.
Save ==
    /\ main.at = "save"
    /\ IF main.row = Absent THEN InsertRow(main.code) ELSE UpdateRow(main.code, main.row)
    /\ main' = [main EXCEPT !.at = "bind"]
    /\ UNCHANGED <<items, codeToCar, requests, posted, jobs, scans, resets, historyVars>>

\* Mutant: the code is written into the car, its car is not remembered.
BindItemOnly ==
    /\ main.at = "bind"
    /\ IF main.row \in Slots
       THEN main' = [main EXCEPT !.at = "slot"] /\ UNCHANGED requests
       ELSE main' = NoHandler /\ requests' = [requests EXCEPT ![main.code] = @ + 1]
    /\ items' = ApplyNow(items, WriteItem(main.car, main.code))
    /\ UNCHANGED <<codeToCar, db, posted, jobs, scans, resets, historyVars>>

\* A slot is requested if the row had none, and updateCodeToCarMap follows: it
\* does nothing if the car already has the code.
Bind ==
    /\ main.at = "bind"
    /\ IF main.row \in Slots
       THEN main' = [main EXCEPT !.at = "slot"] /\ UNCHANGED requests
       ELSE main' = NoHandler /\ requests' = [requests EXCEPT ![main.code] = @ + 1]
    /\ IF items[main.car].code = main.code
       THEN UNCHANGED <<items, codeToCar>>
       ELSE /\ codeToCar' = [codeToCar EXCEPT ![main.code] = main.car]
            /\ items' = ApplyNow(items, WriteItem(main.car, main.code))
    /\ UNCHANGED <<db, posted, jobs, scans, resets, historyVars>>

\* The slot of the row goes to the car.
SlotOfRow ==
    /\ main.at = "slot"
    /\ items' = UpdateSlotByCarID(main.car, main.row)
    /\ main' = NoHandler
    /\ UNCHANGED <<codeToCar, db, requests, posted, jobs, scans, resets, historyVars>>

----------------------------------------------------------------------------
\* RequestAPI ends a request.  onSlotReceive starts a job for the table and
\* posts a call for the car.
OnSlotReceive(x, slot) ==
    /\ Idle /\ requests[x] > 0
    /\ requests' = [requests EXCEPT ![x] = @ - 1]
    /\ jobs' = Append(jobs, [code |-> x, slot |-> slot])
    /\ posted' = Append(posted, [code |-> x, slot |-> slot])
    /\ answers' = [answers EXCEPT ![x] = @ \cup {slot}]
    /\ UNCHANGED <<items, codeToCar, db, main, scans, resets, scannedAt, failed, stale>>

\* It fails, or is dropped for want of room; nobody hears of either.
RequestFails(x) ==
    /\ Idle /\ requests[x] > 0
    /\ requests' = [requests EXCEPT ![x] = @ - 1]
    /\ failed' = failed \cup {x}
    /\ UNCHANGED <<items, codeToCar, db, posted, jobs, main, scans, resets,
                   scannedAt, answers, stale>>

\* The pool job.
SlotToRow(i) ==
    /\ jobs' = RemoveAt(jobs, i)
    /\ UpdateValue(jobs[i].code, jobs[i].slot)
    /\ UNCHANGED <<items, codeToCar, requests, posted, main, scans, resets, historyVars>>

\* Mutant: the slot is written to any car.
UpdateSlotAnywhere ==
    /\ Idle /\ posted # <<>>
    /\ posted' = Tail(posted)
    /\ \E c \in Cars : items' = UpdateSlotByCarID(c, Head(posted).slot)
    /\ UNCHANGED <<codeToCar, db, requests, jobs, main, scans, resets, historyVars>>

\* handleUpdateSlotOnMainThread, updateSlotByCode: the code leaves the map and
\* its car gets the slot; without an entry the slot is dropped.
UpdateSlotByCode ==
    /\ Idle /\ posted # <<>>
    /\ posted' = Tail(posted)
    /\ LET x == Head(posted).code IN
       IF codeToCar[x] \in Cars
       THEN /\ items' = UpdateSlotByCarID(codeToCar[x], Head(posted).slot)
            /\ codeToCar' = [codeToCar EXCEPT ![x] = NoCar]
       ELSE UNCHANGED <<items, codeToCar>>
    /\ UNCHANGED <<db, requests, jobs, main, scans, resets, historyVars>>

\* carLoop resets the car it unloaded, at any time.
Reset(c) ==
    /\ resets < MaxResets
    /\ resets' = resets + 1
    /\ items' = ApplyNow(items, InitItem(c))
    /\ stale' = stale \cup {c}
    /\ UNCHANGED <<codeToCar, db, requests, posted, jobs, main, scans,
                   scannedAt, answers, failed>>

MainStep == Save \/ Bind \/ SlotOfRow
RequestEnds == \E x \in Codes : RequestFails(x) \/ \E slot \in Slots : OnSlotReceive(x, slot)

Next ==
    \/ \E x \in Codes, c \in Cars : Scan(x, c)
    \/ MainStep
    \/ RequestEnds
    \/ \E i \in 1 .. Len(jobs) : SlotToRow(i)
    \/ UpdateSlotByCode
    \/ \E c \in Cars : Reset(c)

\* The event loop runs.  That RequestAPI ends a request is not promised: one that
\* waits in its queue may stay there.
Fairness == WF_vars(MainStep) /\ WF_vars(UpdateSlotByCode)

Spec == Init /\ [][Next]_vars /\ Fairness

----------------------------------------------------------------------------
\* Whatever the order of scans, answers, jobs and resets, a row never has a slot
\* that the server did not give its code (Save writes back a row read earlier), and
\* a car never has a port that it gave to none of the codes scanned at the car.
SlotsComeFromAnswers ==
    /\ \A x \in Codes : db[x] \in Slots => db[x] \in answers[x]
    /\ \A c \in Cars : items[c].port # NoPort =>
           \E x \in Codes : /\ c \in scannedAt[x]
                            /\ \E slot \in answers[x] : items[c].port = PortOf(slot)

\* A code that was scanned at one car only, a car at which nothing else was
\* scanned, and no reset since: when its requests have been answered, the car
\* has the code and a port the server gave for it, however the scans, answers,
\* table updates and failures of the table interleaved.
Alone(x, c) == scannedAt[x] = {c} /\ \A y \in Codes \ {x} : c \notin scannedAt[y]
AnsweredIsRouted ==
    \A x \in Codes, c \in Cars :
        /\ Alone(x, c) /\ c \notin stale /\ x \notin failed
        /\ Idle /\ posted = <<>> /\ requests[x] = 0
        => /\ items[c].code = x
           /\ \E slot \in answers[x] : items[c].port = PortOf(slot)

\* Every scan is served: the car gets a port, or a request of the code ended without
\* an answer, or the car was reset, or code and car were scanned with another car or
\* code too, or RequestAPI keeps a request of the code for ever.
KeptForEver(x) == [](requests[x] > 0)
ScanIsServed ==
    \A x \in Codes, c \in Cars :
        (c \in scannedAt[x]) ~> \/ items[c].port # NoPort \/ c \in stale
                                \/ x \in failed \/ ~Alone(x, c)
                                \/ KeptForEver(x)
====
