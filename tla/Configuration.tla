---- MODULE Configuration ----
(***************************************************************************)
(* What the program knows of the outside world and keeps in memory: the    *)
(* port for parcels nobody can place (test_slot_id, from the row           *)
(* strong_slot of the table config), the ports that the PLC has locked     *)
(* (slots_status_map) and the cars that the operator has locked (carLocks, *)
(* from the table error_cars).  Four kinds of threads keep them up to date *)
(* or use the database otherwise, each with a connection of SqlPool:       *)
(* the init thread (dbInit with initCarItems, then startLoop), the thread  *)
(* m_slotThread (slotLoop), the main thread (the buttons, the close event) *)
(* and the jobs of the thread pool.                                        *)
(*                                                                         *)
(* One port stands for all: no operation relates two of them.  Cars are    *)
(* related: carLocks is a vector<bool>, so who writes the bit of one car   *)
(* reads the word that holds it and writes the word back, without a lock.  *)
(* The cars here are those of one word.                                    *)
(*                                                                         *)
(* A statement can fail, the PLC cannot be connected to or be lost, a row  *)
(* can be no number, which std::stoi answers by an exception.              *)
(***************************************************************************)
EXTENDS SqlPool

CONSTANTS
    Main,       \* the main thread
    Starter,    \* the thread that runs DataProcessMain::init()
    SlotThread, \* m_slotThread
    Cars,       \* the cars whose locks are in one word of carLocks
    Slots,      \* the numbers that strong_slot can hold
    Junk,       \* a value of the row that is no number
    NoAnswer,   \* what queryString returns without a row or when it fails
    MaxUses     \* bound on what Main and a job use connections for

ASSUME ConfigAssumption ==
    /\ {Main, Starter, SlotThread} \subseteq Threads
    /\ Cardinality({Main, Starter, SlotThread}) = 3
    /\ Cars # {}
    /\ Junk \notin Slots /\ NoAnswer \notin Slots \cup {Junk}
    /\ MaxUses \in Nat

Users == Threads \ {Starter, SlotThread}
Jobs == Users \ {Main}

VARIABLES
    at,          \* where a thread is
    uses,        \* what Main and the jobs have begun
    strongSlot,  \* the row strong_slot
    seen,        \* the value of it that a thread has read
    testSlot,    \* test_slot_id
    plcLock,     \* the PLC has locked the port
    linked,      \* the connection of _s7QueryPlcSlot
    bit,         \* the port's bit of plc_slotStatus in slotLoop
    status,      \* slots_status_map: the port is locked
    free,        \* carLoop has read that the port is not locked
    errorCars,   \* answer_command of each car in error_cars
    answer,      \* what Main or Starter has read of it
    lock,        \* the button Main works on: lock or unlock ...
    lockedCar,   \* ... and its car
    initCar,     \* the car that initCarItems works on
    todo,        \* the cars that dbInit has not come to
    room,        \* carLocks has been given its size
    carLocks,    \* the cars whose bit is set
    word,        \* what Main or Starter has loaded of carLocks to write a bit
    polling,     \* m_polling
    \* history, read by properties only:
    known,       \* the lock of the PLC that a poll has seen still lasts
    knownThen,   \* known when carLoop looked
    excused      \* cars of which carLocks and error_cars may differ (see LocksMatchTable)

slotVars == <<strongSlot, seen, testSlot>>
plcVars == <<plcLock, linked, bit, status, free, known, knownThen>>
lockVars == <<errorCars, answer, lock, lockedCar, initCar, todo, room, carLocks, word, excused>>
configVars == <<at, uses, slotVars, plcVars, lockVars, polling>>
vars == <<poolVars, configVars>>

Answers == {"error", "-1"}
ConfigTypeOK ==
    /\ PoolTypeOK
    /\ uses \in [Users -> 0 .. MaxUses]
    /\ strongSlot \in Slots \cup {Junk}
    /\ seen \in [{Main, Starter, SlotThread} -> Slots \cup {Junk, NoAnswer}]
    /\ testSlot \in Slots \cup {0}
    /\ {plcLock, linked, bit, status, free, known, knownThen, polling} \subseteq BOOLEAN
    /\ errorCars \in [Cars -> Answers \cup {NoAnswer}]
    /\ answer \in [{Main, Starter} -> Answers \cup {NoAnswer}]
    /\ {lock, room} \subseteq BOOLEAN /\ {lockedCar, initCar} \subseteq Cars
    /\ todo \subseteq Cars /\ carLocks \subseteq Cars /\ excused \subseteq Cars
    /\ word \in [{Main, Starter} -> SUBSET Cars]

Init ==
    /\ PoolInit
    /\ at = [t \in Threads |-> CASE t = Starter -> "params" [] t = SlotThread -> "off"
                                 [] OTHER -> "idle"]
    /\ uses = [t \in Users |-> 0]
    /\ strongSlot \in Slots \cup {Junk} /\ testSlot = 0
    /\ seen = [t \in {Main, Starter, SlotThread} |-> NoAnswer]
    /\ plcLock \in BOOLEAN /\ linked = FALSE
    /\ bit = FALSE /\ status = FALSE /\ free = FALSE
    /\ errorCars \in [Cars -> Answers \cup {NoAnswer}]
    /\ answer = [t \in {Main, Starter} |-> NoAnswer]
    /\ lock = FALSE /\ room = FALSE
    /\ lockedCar \in Cars /\ initCar = lockedCar
    /\ todo = Cars /\ carLocks = {} /\ word = [t \in {Main, Starter} |-> {}]
    /\ polling = FALSE
    /\ known = FALSE /\ knownThen = FALSE /\ excused = {}

Goto(t, step) == at' = [at EXCEPT ![t] = step]

\* A thread that holds its connection takes the next step of its operation.
Step(t, from, to) == at[t] = from /\ Running(t) /\ Goto(t, to) /\ UNCHANGED poolVars

\* It asks for a connection and goes on with the step to when it has one.
Ask(t, from, to) == at[t] = from /\ Acquire(t) /\ Goto(t, to)

\* The Guard goes out of scope.
Return(t, from, to) == at[t] = from /\ Release(t) /\ Goto(t, to)

----------------------------------------------------------------------------
\* queryString of strong_slot.
QueryStrongSlot(t, from, to) ==
    /\ Step(t, from, to)
    /\ \E v \in {strongSlot, NoAnswer} : seen' = [seen EXCEPT ![t] = v]
    /\ UNCHANGED <<uses, strongSlot, testSlot, plcVars, lockVars, polling>>

\* test_slot_id from what was read: a row that is no number ends the operation
\* at the catch, without a row the operation goes on.
StoreTestSlot(t, from, to, failed) ==
    /\ Step(t, from, IF seen[t] = Junk THEN failed ELSE to)
    /\ testSlot' = IF seen[t] \in Slots THEN seen[t] ELSE testSlot
    /\ seen' = [seen EXCEPT ![t] = NoAnswer]
    /\ UNCHANGED <<uses, strongSlot, plcVars, lockVars, polling>>

----------------------------------------------------------------------------
\* slotLoop: updateSlotConfig every two seconds until m_polling is false.
SlotPoll ==
    /\ polling /\ Ask(SlotThread, "idle", "query")
    /\ UNCHANGED <<uses, slotVars, plcVars, lockVars, polling>>

SlotQuery == QueryStrongSlot(SlotThread, "query", "store")

\* Mutant: stores the port only if it differs from the one at the start.
SlotStoreOnce ==
    /\ Step(SlotThread, "store", IF seen[SlotThread] = Junk THEN "return" ELSE "bits")
    /\ testSlot' = IF seen[SlotThread] \in Slots /\ testSlot = 0 THEN seen[SlotThread] ELSE testSlot
    /\ seen' = [seen EXCEPT ![SlotThread] = NoAnswer]
    /\ UNCHANGED <<uses, strongSlot, plcVars, lockVars, polling>>

SlotStore == StoreTestSlot(SlotThread, "store", "bits", "return")

\* Mutant: a failed read leaves the zeros of the bitset, which count as read.
ReadBitsAnyway ==
    /\ Step(SlotThread, "bits", "status")
    /\ bit' \in {linked /\ plcLock, FALSE}
    /\ UNCHANGED <<uses, slotVars, plcLock, linked, status, free, known, knownThen, lockVars, polling>>

\* ReadBools274_Bitset: without success nothing is stored.
ReadBits ==
    \/ /\ linked
       /\ Step(SlotThread, "bits", "status")
       /\ bit' = plcLock
       /\ UNCHANGED <<uses, slotVars, plcLock, linked, status, free, known, knownThen, lockVars, polling>>
    \/ /\ Step(SlotThread, "bits", "return")
       /\ UNCHANGED <<uses, slotVars, plcVars, lockVars, polling>>

StoreStatus ==
    /\ Step(SlotThread, "status", "return")
    /\ status' = bit /\ bit' = FALSE
    /\ known' = ((known \/ bit) /\ plcLock)
    /\ UNCHANGED <<uses, slotVars, plcLock, linked, free, knownThen, lockVars, polling>>

SlotReturn ==
    /\ Return(SlotThread, "return", "idle")
    /\ UNCHANGED <<uses, slotVars, plcVars, lockVars, polling>>

SlotEnd ==
    /\ ~polling /\ Step(SlotThread, "idle", "ended")
    /\ UNCHANGED <<uses, slotVars, plcVars, lockVars, polling>>

\* carLoop reads the status of the port of a car ...
LookAtPort ==
    /\ polling /\ ~free /\ ~status
    /\ free' = TRUE /\ knownThen' = known
    /\ UNCHANGED <<poolVars, at, uses, slotVars, plcLock, linked, bit, status, known, lockVars, polling>>

\* ... and drives the car, or skips it for another reason.
UnloadIntoPort ==
    /\ free
    /\ free' = FALSE /\ knownThen' = FALSE
    /\ UNCHANGED <<poolVars, at, uses, slotVars, plcLock, linked, bit, status, known, lockVars, polling>>

----------------------------------------------------------------------------
\* The init thread.  First DataProcessMain::dbInit, which reads addresses.
InitParams ==
    /\ \/ Ask(Starter, "params", "paramsReturn") \/ Return(Starter, "paramsReturn", "dbInit")
       \/ Ask(Starter, "dbInit", "cars")
    /\ UNCHANGED <<uses, slotVars, plcVars, lockVars, polling>>

\* A write to the bit of a car: the word is loaded ...
LoadWord(t) == word' = [word EXCEPT ![t] = carLocks]

\* ... and stored with the bit changed.
StoreWord(t, c, bitOfCar) ==
    /\ carLocks' = IF bitOfCar THEN word[t] \cup {c} ELSE word[t] \ {c}
    /\ word' = [word EXCEPT ![t] = {}]

\* DeviceManager::dbInit makes room for the cars; without a number of cars there
\* are none.
InitRoom ==
    /\ \/ Step(Starter, "cars", "nextCar") /\ room' = TRUE
       \/ Step(Starter, "cars", "config") /\ UNCHANGED room
    /\ UNCHANGED <<uses, slotVars, plcVars, errorCars, answer, lock, lockedCar, initCar, todo,
                   carLocks, word, excused, polling>>

\* It calls initCarItems for one car after the other, which takes a second connection.
InitCars ==
    \/ /\ \E c \in todo : initCar' = c /\ todo' = todo \ {c}
       /\ Ask(Starter, "nextCar", "carRead")
       /\ UNCHANGED <<uses, slotVars, plcVars, errorCars, answer, lock, lockedCar, room, carLocks,
                      word, excused, polling>>
    \/ /\ todo = {} /\ Step(Starter, "nextCar", "config")
       /\ UNCHANGED <<uses, slotVars, plcVars, lockVars, polling>>

\* initCarItems: is the car in error_cars?
InitCarRead ==
    /\ Step(Starter, "carRead", "carLoad")
    /\ \E a \in {errorCars[initCar], NoAnswer} :
        /\ answer' = [answer EXCEPT ![Starter] = a]
        /\ excused' = IF a = errorCars[initCar] THEN excused ELSE excused \cup {initCar}
    /\ UNCHANGED <<uses, slotVars, plcVars, errorCars, lock, lockedCar, initCar, todo, room,
                   carLocks, word, polling>>

\* Its bit is set or cleared.  Starter and Main write bits of the word at the same time
\* if both have loaded it and none has stored it.
InitCarLoad ==
    /\ Step(Starter, "carLoad", "carSet")
    /\ LoadWord(Starter)
    /\ excused' = IF at[Main] = "lockSet" THEN excused \cup {initCar, lockedCar} ELSE excused
    /\ UNCHANGED <<uses, slotVars, plcVars, errorCars, answer, lock, lockedCar, initCar, todo, room,
                   carLocks, polling>>

\* Mutant: forgets the cars that are in the table.
InitCarSetFree ==
    /\ Step(Starter, "carSet", "carReturn")
    /\ StoreWord(Starter, initCar, FALSE)
    /\ answer' = [answer EXCEPT ![Starter] = NoAnswer]
    /\ UNCHANGED <<uses, slotVars, plcVars, errorCars, lock, lockedCar, initCar, todo, room,
                   excused, polling>>

InitCarSet ==
    /\ Step(Starter, "carSet", "carReturn")
    /\ StoreWord(Starter, initCar, answer[Starter] = "error")
    /\ answer' = [answer EXCEPT ![Starter] = NoAnswer]
    /\ UNCHANGED <<uses, slotVars, plcVars, errorCars, lock, lockedCar, initCar, todo, room,
                   excused, polling>>

InitCarReturn ==
    /\ Return(Starter, "carReturn", "nextCar")
    /\ UNCHANGED <<uses, slotVars, plcVars, lockVars, polling>>

\* The rest of dbInit; it also enters every port as not locked, which it is.
InitConfig ==
    \/ QueryStrongSlot(Starter, "config", "configStore")
    \/ StoreTestSlot(Starter, "configStore", "dbReturn", "dbReturn")
    \/ /\ Return(Starter, "dbReturn", "tcp")
       /\ UNCHANGED <<uses, slotVars, plcVars, lockVars, polling>>

\* tcpConnection: ConnectToPLC, tried once.
ConnectToPLC ==
    /\ Step(Starter, "tcp", "serial")
    /\ linked' \in BOOLEAN
    /\ UNCHANGED <<uses, slotVars, plcLock, bit, status, free, known, knownThen, lockVars, polling>>

\* serialPortInit, which reads addresses and may throw, and then startLoop.
InitSerial ==
    /\ \/ Ask(Starter, "serial", "serialReturn")
       \/ Return(Starter, "serialReturn", "start") \/ Return(Starter, "serialReturn", "done")
    /\ UNCHANGED <<uses, slotVars, plcVars, lockVars, polling>>

StartLoop ==
    /\ at[Starter] = "start"
    /\ polling' = TRUE
    /\ at' = [at EXCEPT ![Starter] = "done", ![SlotThread] = "idle"]
    /\ UNCHANGED <<poolVars, uses, slotVars, plcVars, lockVars>>

----------------------------------------------------------------------------
\* Main or a job begins an operation that needs a connection.
Begin(t, step) ==
    /\ uses[t] < MaxUses /\ uses' = [uses EXCEPT ![t] = @ + 1]
    /\ Ask(t, "idle", step)

\* Statements whose results are not looked at here: of the handlers of scanned
\* codes and slots, the query page, resetCameraPositions and resetDriver.
Use(t) ==
    /\ \/ Begin(t, "return")
       \/ Return(t, "return", "idle") /\ UNCHANGED uses
    /\ UNCHANGED <<slotVars, plcVars, lockVars, polling>>

\* resetSlotConfigurations: strong_slot is read and stored whatever test_slot_id
\* was; slotLoop may have stored a newer one between.
ResetSlotConfigurations ==
    \/ Begin(Main, "resetQuery") /\ UNCHANGED <<slotVars, plcVars, lockVars, polling>>
    \/ QueryStrongSlot(Main, "resetQuery", "resetStore")
    \/ StoreTestSlot(Main, "resetStore", "return", "return")

\* lockCar and unlockCar.
LockCar ==
    /\ Begin(Main, "lockQuery")
    /\ lock' \in BOOLEAN /\ lockedCar' \in Cars
    /\ UNCHANGED <<slotVars, plcVars, errorCars, answer, initCar, todo, room, carLocks, word,
                   excused, polling>>

Wanted == IF lock THEN "error" ELSE "-1"

\* The row of the car; without it nothing is written to the table.
LockQuery ==
    /\ Step(Main, "lockQuery", "lockUpdate")
    /\ \E a \in {errorCars[lockedCar], NoAnswer} : answer' = [answer EXCEPT ![Main] = a]
    /\ UNCHANGED <<uses, slotVars, plcVars, errorCars, lock, lockedCar, initCar, todo, room,
                   carLocks, word, excused, polling>>

\* initCarItems has read the row of the button's car and not yet written its bit.
InitHasRead == at[Starter] \in {"carLoad", "carSet"} /\ initCar = lockedCar

\* updateValue, if the row says otherwise; it can fail.
LockUpdate ==
    /\ Step(Main, "lockUpdate", "lockTest")
    /\ \/ answer[Main] \in Answers \ {Wanted} /\ errorCars' = [errorCars EXCEPT ![lockedCar] = Wanted]
       \/ errorCars' = errorCars
    /\ excused' = IF errorCars'[lockedCar] # Wanted \/ InitHasRead THEN excused \cup {lockedCar}
                  ELSE IF at[Starter] = "carSet" THEN excused
                  ELSE excused \ {lockedCar}
    /\ answer' = [answer EXCEPT ![Main] = NoAnswer]
    /\ UNCHANGED <<uses, slotVars, plcVars, lock, lockedCar, initCar, todo, room, carLocks, word,
                   polling>>

\* DeviceManager::lockCar, unlockCar, whether or not the update worked.  Before dbInit
\* made room, TotalCarNum is whatever it is, and the vector is empty: the car is none of
\* the line or the program is undone.
LockTest ==
    /\ \/ ~room /\ (Step(Main, "lockTest", "aborted") \/ Step(Main, "lockTest", "return"))
       \/ /\ room
          /\ Step(Main, "lockTest", IF lockedCar \in carLocks <=> lock THEN "return" ELSE "lockLoad")
    /\ UNCHANGED <<uses, slotVars, plcVars, lockVars, polling>>

LockLoad ==
    /\ Step(Main, "lockLoad", "lockSet")
    /\ LoadWord(Main)
    /\ excused' = IF at[Starter] = "carSet" THEN excused \cup {initCar, lockedCar} ELSE excused
    /\ UNCHANGED <<uses, slotVars, plcVars, errorCars, answer, lock, lockedCar, initCar, todo, room,
                   carLocks, polling>>

LockSet ==
    /\ Step(Main, "lockSet", "return")
    /\ StoreWord(Main, lockedCar, lock)
    /\ UNCHANGED <<uses, slotVars, plcVars, errorCars, answer, lock, lockedCar, initCar, todo, room,
                   excused, polling>>

\* closeEvent: the loops are told to stop, slotLoop is joined if it was started, the PLC
\* disconnected and the pool shut down.
CloseLoops ==
    /\ Step(Main, "idle", "join")
    /\ polling' = FALSE
    /\ UNCHANGED <<uses, slotVars, plcVars, lockVars>>

Disconnect ==
    /\ at[SlotThread] \in {"off", "ended"}
    /\ Step(Main, "join", "closing")
    /\ linked' = FALSE
    /\ UNCHANGED <<uses, slotVars, plcLock, bit, status, free, known, knownThen, lockVars, polling>>

CloseEnds ==
    /\ at[Main] = "closing" /\ Shutdown /\ Goto(Main, "closed")
    /\ UNCHANGED <<uses, slotVars, plcVars, lockVars, polling>>

----------------------------------------------------------------------------
\* The world outside: the row, the PLC and the connection to it.
StrongSlotChanges ==
    /\ strongSlot' \in (Slots \cup {Junk}) \ {strongSlot}
    /\ UNCHANGED <<poolVars, at, uses, seen, testSlot, plcVars, lockVars, polling>>

PlcChanges ==
    /\ plcLock' = ~plcLock
    /\ known' = (known /\ plcLock')
    /\ UNCHANGED <<poolVars, at, uses, slotVars, linked, bit, status, free, knownThen, lockVars, polling>>

LinkFails ==
    /\ linked /\ linked' = FALSE
    /\ UNCHANGED <<poolVars, at, uses, slotVars, plcLock, bit, status, free, known, knownThen,
                   lockVars, polling>>

\* A woken thread gets mtx.
Rechecks(t) == Recheck(t) /\ UNCHANGED configVars

Alive == at[Main] # "aborted"

SlotLoopStep == SlotPoll \/ SlotQuery \/ SlotStore \/ ReadBits \/ StoreStatus \/ SlotReturn \/ SlotEnd
StarterStep == \/ InitParams \/ InitRoom \/ InitCars
               \/ InitCarRead \/ InitCarLoad \/ InitCarSet \/ InitCarReturn
               \/ InitConfig \/ ConnectToPLC \/ InitSerial \/ StartLoop
MainStep == \/ ResetSlotConfigurations
            \/ LockQuery \/ LockUpdate \/ LockTest \/ LockLoad \/ LockSet
            \/ Disconnect \/ CloseEnds
Outside == StrongSlotChanges \/ PlcChanges \/ LinkFails \/ LookAtPort \/ UnloadIntoPort

Next ==
    /\ Alive
    /\ \/ SlotLoopStep \/ StarterStep \/ MainStep \/ LockCar \/ CloseLoops \/ Outside
       \/ \E t \in Users : Use(t)
       \/ \E t \in Threads : Rechecks(t) \/ (SpuriousWakeup(t) /\ UNCHANGED configVars)

\* A thread goes on with what it does; a woken one gets mtx in the end.
Fairness ==
    /\ WF_vars(Alive /\ at[SlotThread] \notin {"off", "ended"} /\ (SlotLoopStep \/ Rechecks(SlotThread)))
    /\ WF_vars(Alive /\ at[Starter] # "done" /\ (StarterStep \/ Rechecks(Starter)))
    /\ WF_vars(Alive /\ at[Main] # "idle" /\ (MainStep \/ Use(Main) \/ Rechecks(Main)))
    /\ \A t \in Jobs : WF_vars(Alive /\ at[t] # "idle" /\ (Use(t) \/ Rechecks(t)))

Spec == Init /\ [][Next]_vars /\ Fairness
----------------------------------------------------------------------------
\* A thread that waits for a connection gets one, unless the pool was closed:
\* also slotLoop when the close event waits for it, and the init thread, which
\* waits for a second one.
WaiterIsServed == \A t \in Threads : t \in waiting ~> Running(t) \/ closed \/ ~Alive

\* A port that the PLC has locked, as a poll has seen, gets no parcel until the PLC
\* unlocks it: neither a failed read, nor a lost connection, nor a row that is no
\* number takes the lock back.  Only a lock that is younger than the last poll when
\* carLoop looks is missed.
LockedPortIsLeftAlone == [][UnloadIntoPort => ~knownThen]_vars

\* The lock of a car in memory is that of the table, after initCarItems of the car and
\* after each button for it, unless
\*   a statement failed or the car has no row,
\*   the button changed the row after initCarItems of the car had read it, so that
\*     initCarItems may put the old lock back, or
\*   the button and initCarItems, of whatever cars, wrote bits of the word at the same
\*     time: one of the two writes may be lost.
\* The next button for the car to which none of this happens sets it right.
InitAt(c) == at[Starter] \in {"carRead", "carLoad", "carSet"} /\ initCar = c
ButtonAt(c) == at[Main] \in {"lockUpdate", "lockTest", "lockLoad", "lockSet"} /\ lockedCar = c
LocksMatchTable ==
    \A c \in Cars \ (todo \cup excused) :
        ~InitAt(c) /\ ~ButtonAt(c) => (c \in carLocks <=> errorCars[c] = "error")

Stopped == ~Alive \/ closed \/ at[SlotThread] \in {"off", "ended"}

\* What stays as it is outside arrives in memory, if statements and reads of the PLC
\* succeed again and again: also if the button has stored an older strong_slot
\* behind slotLoop.
ConfigArrives ==
    LET Answered == at[SlotThread] = "store" /\ seen[SlotThread] # NoAnswer
        BitsRead == at[SlotThread] = "status"
    IN /\ <>[][UNCHANGED strongSlot]_vars /\ []<>Answered
            => <>[](testSlot = strongSlot \/ strongSlot = Junk \/ Stopped)
       /\ <>[][UNCHANGED plcLock]_vars /\ []<>BitsRead => <>[](status = plcLock \/ Stopped)
====
