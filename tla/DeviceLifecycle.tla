---- MODULE DeviceLifecycle ----
(***************************************************************************)
(* The life of the application's devices, from the start of the window to  *)
(* the exit.  DataProcessMain::init() runs in a thread of its own beside   *)
(* the main thread, which has the window already; cleanup() runs on the    *)
(* main thread inside the close event, whenever that comes.                *)
(*                                                                         *)
(* Each connection (SocketClient) has a receiving thread, which is         *)
(* detached; cameras and photocells send messages that the main thread     *)
(* handles, the serial servers (lanes) take drive commands from three      *)
(* threads: carLoop, the test loop of the window and the main thread.      *)
(* Nothing reconnects.  The event loop may still deliver messages after    *)
(* the close event.  What the writer and the loops do otherwise is in      *)
(* CarItemsWriter, UnloadLoop and StepPosition.                            *)
(***************************************************************************)
EXTENDS Naturals, FiniteSets

CONSTANTS
    Cameras,        \* connections to the cameras
    Cells,          \* connections to the photocells
    SerialPorts,    \* serialPortCount (9)
    CarsPerSocket,  \* cars behind one lane (24)
    TotalCarNum,    \* cars of the line (202)
    MaxPosted       \* bound on the messages in the event queue

ASSUME LifecycleAssumption ==
    /\ SerialPorts \in Nat \ {0}
    /\ CarsPerSocket \in 1 .. 64   \* beyond 64 the directions' bytes overlap
    /\ TotalCarNum \in Nat
    /\ (Cells \cup Cameras) \cap Nat = {} /\ Cells \cap Cameras = {}
    /\ MaxPosted \in Nat

Cars == 1 .. TotalCarNum
Lanes == 0 .. SerialPorts - 1
Links == Cameras \cup Cells \cup Lanes
Drivers == {"main", "car", "test"}
NoCar == 0

VARIABLES
    main,       \* where the main thread is
    init,       \* where the init thread is
    early,      \* the window was closed before init() ended (history)
    cars,       \* carItems and carStatus have their cars
    writer,     \* carItemsWriter
    polling,    \* m_polling
    testing,    \* m_test
    slotLoop,   \* the thread m_slotThread
    testLoop,   \* the thread m_testCarThread
    driver,     \* of each thread that drives cars: the step and the car
    lanes,      \* the SerialSockets that are not null
    socket,     \* state of the connection
    flag,       \* SocketConnection of the client
    receiving,  \* receiving of the client
    receiver,   \* the receiving thread of the client
    posted,     \* messages in the event queue of the main thread, by sender
    lost        \* commands whose send() failed, by lane (history)

linkVars == <<socket, flag, receiving, receiver>>
loopVars == <<polling, testing, slotLoop, testLoop, driver>>
initVars == <<init, cars, writer>>
vars == <<main, initVars, early, loopVars, lanes, linkVars, posted, lost>>

MainSteps == {"run", "joinTest", "joinSlot", "joinCar", "unlink", "unlane", "reset",
              "closed", "hung", "exited", "aborted"}
InitSteps == {"cameras", "cars", "writer", "tcp", "serial", "start", "done"}
LoopSteps == {"off", "on", "done"}
DriverSteps == {"off", "idle", "command", "send", "after", "done"}
Senders == {"cell", "camera"}

TypeOK ==
    /\ main \in MainSteps /\ init \in InitSteps
    /\ early \in BOOLEAN /\ cars \in BOOLEAN
    /\ writer \in {"none", "ready", "deleted"}
    /\ polling \in BOOLEAN /\ testing \in BOOLEAN
    /\ slotLoop \in LoopSteps /\ testLoop \in LoopSteps
    /\ driver \in [Drivers -> [at: DriverSteps, car: Cars \cup {NoCar}]]
    /\ lanes \subseteq Lanes
    /\ socket \in [Links -> {"none", "open", "shut", "broken", "closed"}]
    /\ flag \in [Links -> BOOLEAN] /\ receiving \in [Links -> BOOLEAN]
    /\ receiver \in [Links -> LoopSteps]
    /\ posted \in [Senders -> 0 .. MaxPosted]
    /\ lost \in [Lanes -> 0 .. Cardinality(Drivers) + 1]

Init ==
    /\ main = "run" /\ init = "cameras" /\ early = FALSE
    /\ cars = FALSE /\ writer = "none"
    /\ polling = FALSE /\ testing = FALSE
    /\ slotLoop = "off" /\ testLoop = "off"
    /\ driver = [d \in Drivers |-> [at |-> IF d = "main" THEN "idle" ELSE "off", car |-> NoCar]]
    /\ lanes = {}
    /\ socket = [l \in Links |-> "none"]
    /\ flag = [l \in Links |-> FALSE] /\ receiving = [l \in Links |-> FALSE]
    /\ receiver = [l \in Links |-> "off"]
    /\ posted = [s \in Senders |-> 0] /\ lost = [l \in Lanes |-> 0]

\* The serial server of a car and the car's number there; byte 1 of a command
\* names the car and the direction.
Index(c) == (c - 1) \div CarsPerSocket
SerialID(c) == ((c - 1) % CarsPerSocket) + 1
AddressByte(c, corotation) == (SerialID(c) + IF corotation THEN 0 ELSE 64) % 256

Alive == main \notin {"exited", "aborted"}

----------------------------------------------------------------------------
\* ConnectTo for a set of links, each of which succeeds or does not.
ConnectTo(set) ==
    \E up \in SUBSET set :
        /\ socket' = [l \in Links |-> IF l \in up THEN "open" ELSE socket[l]]
        /\ flag' = [l \in Links |-> flag[l] \/ l \in up]
        /\ receiving' = [l \in Links |-> receiving[l] \/ l \in up]
        /\ receiver' = [l \in Links |-> IF l \in up THEN "on" ELSE receiver[l]]

\* The init thread.  Its steps that need a connection to the database never end
\* once the close event has shut the pool down.
InitAt(step) == Alive /\ init = step /\ (step \in {"cameras", "cars", "serial"} => main # "closed")

InitCameras ==
    /\ InitAt("cameras")
    /\ ConnectTo(Cameras)
    /\ init' = "cars"
    /\ UNCHANGED <<main, early, cars, writer, loopVars, lanes, posted, lost>>

\* dbInit: without the number of cars in the configuration there are none.
DbInit ==
    /\ InitAt("cars")
    /\ cars' \in BOOLEAN
    /\ init' = "writer"
    /\ UNCHANGED <<main, early, writer, loopVars, lanes, linkVars, posted, lost>>

StartWriter ==
    /\ InitAt("writer")
    /\ writer' = "ready" /\ init' = "tcp"
    /\ UNCHANGED <<main, early, cars, loopVars, lanes, linkVars, posted, lost>>

TcpConnection ==
    /\ InitAt("tcp")
    /\ ConnectTo(Cells)
    /\ init' = "serial"
    /\ UNCHANGED <<main, early, cars, writer, loopVars, lanes, posted, lost>>

\* The serial servers: none if the table of their addresses has not as many rows
\* as there are lanes; and a row whose port is no number ends init() by an
\* exception, before the loops are started.  Lanes do not share anything, so all
\* are connected in one step.
SerialPortInit ==
    /\ InitAt("serial")
    /\ \/ lanes' = Lanes /\ ConnectTo(Lanes) /\ init' = "start"
       \/ UNCHANGED <<lanes, linkVars>> /\ init' = "start"
       \/ \E row \in Lanes :
            /\ lanes' = 0 .. row - 1 /\ ConnectTo(0 .. row - 1)
            /\ init' = "done"
    /\ UNCHANGED <<main, early, cars, writer, loopVars, posted, lost>>

\* The two loops.
StartLoop ==
    /\ InitAt("start")
    /\ polling' = TRUE /\ slotLoop' = "on"
    /\ driver' = [driver EXCEPT !["car"].at = "idle"]
    /\ init' = "done"
    /\ UNCHANGED <<main, early, cars, writer, testing, testLoop, lanes, linkVars, posted, lost>>

\* The buttons of the test loop; the second one waits for its thread.
StartCarTestLoop ==
    /\ main = "run" /\ driver["main"].at = "idle" /\ ~testing
    /\ testing' = TRUE /\ testLoop' = "on"
    /\ driver' = [driver EXCEPT !["test"].at = "idle"]
    /\ UNCHANGED <<main, initVars, early, polling, slotLoop, lanes, linkVars, posted, lost>>

StopCarTestLoop ==
    /\ main = "run" /\ driver["main"].at = "idle" /\ testing
    /\ testing' = FALSE /\ main' = "joinTest"
    /\ UNCHANGED <<initVars, early, polling, slotLoop, testLoop, driver, lanes, linkVars, posted, lost>>

JoinTest ==
    /\ main = "joinTest" /\ testLoop = "done"
    /\ testLoop' = "off" /\ main' = "run"
    /\ UNCHANGED <<initVars, early, polling, testing, slotLoop, driver, lanes, linkVars, posted, lost>>

\* A handler of a message.  Some use the cars or the writer, which may not be there
\* yet or not any more; and that of a camera needs the database, for which it
\* waits for ever after the close event.
HandleMessage(s) ==
    /\ main \in {"run", "closed"} /\ driver["main"].at = "idle"
    /\ posted[s] > 0
    /\ posted' = [posted EXCEPT ![s] = @ - 1]
    /\ \/ main' = main
       \/ (~cars \/ writer # "ready") /\ main' = "aborted"
       \/ s = "camera" /\ main = "closed" /\ main' = "hung"
    /\ UNCHANGED <<initVars, early, loopVars, lanes, linkVars, lost>>

----------------------------------------------------------------------------
\* driveByCarID: the car has a lane, the lane a client, and the client says it is
\* connected; else the call returns false.
MayDrive(d) == CASE d = "main" -> main = "run"
                 [] d = "test" -> testLoop = "on"
                 [] d = "car"  -> cars
DriveByCarID(d, c) ==
    /\ Alive /\ MayDrive(d) /\ driver[d].at = "idle"
    /\ Index(c) \in lanes /\ flag[Index(c)]
    /\ driver' = [driver EXCEPT ![d] = [at |-> "command", car |-> c]]
    /\ UNCHANGED <<main, initVars, early, polling, testing, slotLoop, testLoop, lanes, linkVars,
                   posted, lost>>

\* sendComand looks at the flag once more ...
SendComand(d) ==
    /\ Alive /\ driver[d].at = "command"
    /\ driver' = [driver EXCEPT ![d].at = IF flag[Index(driver[d].car)] THEN "send" ELSE "after"]
    /\ UNCHANGED <<main, initVars, early, polling, testing, slotLoop, testLoop, lanes, linkVars,
                   posted, lost>>

\* Mutant: a failed send() leaves the flag alone.
SendDataOnly(d) ==
    LET l == Index(driver[d].car) IN
    /\ Alive /\ driver[d].at = "send"
    /\ \/ socket[l] # "closed" /\ UNCHANGED <<flag, lost>>
       \/ /\ socket[l] # "open"
          /\ UNCHANGED flag
          /\ lost' = [lost EXCEPT ![l] = IF @ > Cardinality(Drivers) THEN @ ELSE @ + 1]
    /\ driver' = [driver EXCEPT ![d].at = "after"]
    /\ UNCHANGED <<main, initVars, early, polling, testing, slotLoop, testLoop, lanes, socket,
                   receiving, receiver, posted>>

\* ... and sendData clears it if send() fails, which it may as soon as the
\* connection is not in order any more.
SendData(d) ==
    LET l == Index(driver[d].car) IN
    /\ Alive /\ driver[d].at = "send"
    /\ \/ socket[l] # "closed" /\ UNCHANGED <<flag, lost>>
       \/ /\ socket[l] # "open"
          /\ flag' = [flag EXCEPT ![l] = FALSE]
          /\ lost' = [lost EXCEPT ![l] = IF @ > Cardinality(Drivers) THEN @ ELSE @ + 1]
    /\ driver' = [driver EXCEPT ![d].at = "after"]
    /\ UNCHANGED <<main, initVars, early, polling, testing, slotLoop, testLoop, lanes, socket,
                   receiving, receiver, posted>>

\* driveByCarID returned true: carLoop resets the car through the writer.
AfterDrive(d) ==
    /\ Alive /\ driver[d].at = "after"
    /\ driver' = [driver EXCEPT ![d] = [at |-> "idle", car |-> NoCar]]
    /\ UNCHANGED <<main, initVars, early, polling, testing, slotLoop, testLoop, lanes, linkVars,
                   posted, lost>>

\* The loops end when they look at their flag, between two cars at the earliest.
CarLoopEnds ==
    /\ Alive /\ ~polling /\ driver["car"].at = "idle"
    /\ driver' = [driver EXCEPT !["car"].at = "done"]
    /\ UNCHANGED <<main, initVars, early, polling, testing, slotLoop, testLoop, lanes, linkVars,
                   posted, lost>>

SlotLoopEnds ==
    /\ Alive /\ ~polling /\ slotLoop = "on"
    /\ slotLoop' = "done"
    /\ UNCHANGED <<main, initVars, early, polling, testing, testLoop, driver, lanes, linkVars,
                   posted, lost>>

TestLoopEnds ==
    /\ Alive /\ ~testing /\ testLoop = "on" /\ driver["test"].at = "idle"
    /\ testLoop' = "done"
    /\ UNCHANGED <<main, initVars, early, polling, testing, slotLoop, driver, lanes, linkVars,
                   posted, lost>>

----------------------------------------------------------------------------
\* receiveData: a message is emitted, which queues it for the main thread; the
\* serial servers' messages are looked at by nobody.
Receive(l) ==
    /\ Alive /\ receiver[l] = "on" /\ receiving[l] /\ socket[l] = "open"
    /\ \E s \in Senders :
        /\ l \in (IF s = "cell" THEN Cells ELSE Cameras) /\ posted[s] < MaxPosted
        /\ posted' = [posted EXCEPT ![s] = @ + 1]
    /\ UNCHANGED <<main, initVars, early, loopVars, lanes, linkVars, lost>>

\* Mutant: the thread ends and says nothing.
ReceiveEndSilently(l) ==
    /\ Alive /\ receiver[l] = "on" /\ socket[l] = "shut"
    /\ receiver' = [receiver EXCEPT ![l] = "done"]
    /\ UNCHANGED <<main, initVars, early, loopVars, lanes, flag, socket, receiving, posted, lost>>

\* recv returned 0: the other side closed the connection.
ReceiveEnd(l) ==
    /\ Alive /\ receiver[l] = "on" /\ socket[l] = "shut"
    /\ flag' = [flag EXCEPT ![l] = FALSE]
    /\ receiver' = [receiver EXCEPT ![l] = "done"]
    /\ UNCHANGED <<main, initVars, early, loopVars, lanes, socket, receiving, posted, lost>>

\* recv failed: the thread calls it again, until it is told to stop.
ReceiveError(l) ==
    /\ Alive /\ receiver[l] = "on" /\ socket[l] \in {"broken", "closed"} /\ ~receiving[l]
    /\ receiver' = [receiver EXCEPT ![l] = "done"]
    /\ UNCHANGED <<main, initVars, early, loopVars, lanes, flag, socket, receiving, posted, lost>>

\* The other side closes a connection, or it breaks.
ConnectionFails(l) ==
    /\ Alive /\ socket[l] = "open"
    /\ \E s \in {"shut", "broken"} : socket' = [socket EXCEPT ![l] = s]
    /\ UNCHANGED <<main, initVars, early, loopVars, lanes, flag, receiving, receiver, posted, lost>>

----------------------------------------------------------------------------
\* SocketConnection::disconnect: the thread is told to stop and the socket closed;
\* the thread was detached and is not waited for.
Disconnect(set) ==
    LET up == {l \in set : socket[l] # "none"} IN
    /\ flag' = [l \in Links |-> flag[l] /\ l \notin up]
    /\ receiving' = [l \in Links |-> receiving[l] /\ l \notin up]
    /\ socket' = [l \in Links |-> IF l \in up THEN "closed" ELSE socket[l]]
    /\ UNCHANGED receiver

\* Mutant: the loops are waited for and not told.
CloseQuietly ==
    /\ main = "run" /\ driver["main"].at = "idle"
    /\ Disconnect(Cameras)
    /\ main' = "joinSlot" /\ early' = (init # "done")
    /\ UNCHANGED <<initVars, loopVars, lanes, posted, lost>>

\* closeEvent, cleanup(), stopLoop(): the test loop is not told to stop.
Close ==
    /\ main = "run" /\ driver["main"].at = "idle"
    /\ Disconnect(Cameras)
    /\ polling' = FALSE
    /\ main' = "joinSlot" /\ early' = (init # "done")
    /\ UNCHANGED <<initVars, testing, slotLoop, testLoop, driver, lanes, posted, lost>>

\* A loop is waited for if it was started.
JoinSlot ==
    /\ main = "joinSlot" /\ slotLoop # "on"
    /\ slotLoop' = "off" /\ main' = "joinCar"
    /\ UNCHANGED <<initVars, early, polling, testing, testLoop, driver, lanes, linkVars, posted, lost>>

\* Mutant: the thread is not waited for.
JoinCarDetached ==
    /\ main = "joinCar"
    /\ main' = "unlink"
    /\ UNCHANGED <<initVars, early, loopVars, lanes, linkVars, posted, lost>>

JoinCar ==
    /\ main = "joinCar" /\ driver["car"].at \in {"off", "done"}
    /\ driver' = [driver EXCEPT !["car"].at = "off"]
    /\ main' = "unlink"
    /\ UNCHANGED <<initVars, early, polling, testing, slotLoop, testLoop, lanes, linkVars, posted, lost>>

DisconnectCells ==
    /\ main = "unlink"
    /\ Disconnect(Cells)
    /\ main' = "unlane"
    /\ UNCHANGED <<initVars, early, loopVars, lanes, posted, lost>>

\* The serial servers' clients are only forgotten: disconnect() is QObject's here
\* and cuts signals.  Of the second servers' clients none was ever made, and the loop
\* calls it on null pointers; unless serialPortInit filled its vectors it reads
\* beyond their end.  Both may end the program.
DisconnectLanes ==
    /\ main = "unlane"
    /\ lanes' = {}
    /\ main' \in {"reset", "aborted"}
    /\ UNCHANGED <<initVars, early, loopVars, linkVars, posted, lost>>

ResetWriter ==
    /\ main = "reset"
    /\ writer' = "deleted" /\ main' = "closed"
    /\ UNCHANGED <<init, early, cars, loopVars, lanes, linkVars, posted, lost>>

\* main() returns.  Threads that nobody joined end the process by terminate(), the
\* init thread too if the event loop has not taken notice of its end.
Joined == slotLoop = "off" /\ testLoop = "off" /\ driver["car"].at = "off" /\ init = "done"
Exit ==
    /\ main = "closed"
    /\ \/ Joined /\ main' = "exited"
       \/ (~Joined \/ early) /\ main' = "aborted"
    /\ UNCHANGED <<initVars, early, loopVars, lanes, linkVars, posted, lost>>

----------------------------------------------------------------------------
Starting == InitCameras \/ DbInit \/ StartWriter \/ TcpConnection \/ SerialPortInit \/ StartLoop
Closing == JoinSlot \/ JoinCar \/ DisconnectCells \/ DisconnectLanes \/ ResetWriter \/ Exit
DriverStep(d) == SendComand(d) \/ SendData(d) \/ AfterDrive(d)
ReceiverStep(l) == Receive(l) \/ ReceiveEnd(l) \/ ReceiveError(l)

Next ==
    \/ Starting \/ StartCarTestLoop \/ StopCarTestLoop \/ JoinTest
    \/ \E s \in Senders : HandleMessage(s)
    \/ \E d \in Drivers : DriverStep(d) \/ \E c \in Cars : DriveByCarID(d, c)
    \/ CarLoopEnds \/ SlotLoopEnds \/ TestLoopEnds
    \/ \E l \in Links : ReceiverStep(l) \/ ConnectionFails(l)
    \/ Close \/ Closing

\* Threads run; a round of a loop ends, after which it looks at its flag.
Fairness ==
    /\ WF_vars(Starting) /\ WF_vars(Closing) /\ WF_vars(JoinTest)
    /\ \A d \in Drivers : WF_vars(DriverStep(d))
    /\ SF_vars(CarLoopEnds) /\ WF_vars(SlotLoopEnds) /\ SF_vars(TestLoopEnds)
    /\ \A l \in Links : WF_vars(ReceiveEnd(l) \/ ReceiveError(l))

Spec == Init /\ [][Next]_vars /\ Fairness

----------------------------------------------------------------------------
\* carLoop resets cars through the writer after each command, and the close event
\* deletes the writer: it is there as long as carLoop is about to use it, unless
\* the window was closed while init() still ran, which then starts the loop anew
\* behind the close event.
WriterOutlivesLoop ==
    driver["car"].at \in {"command", "send", "after"} /\ ~early => writer = "ready"

\* Of a connection that fails without recv noticing, each thread that drives cars
\* loses at most one command, although the flag is neither atomic nor guarded and
\* is looked at twice before the command is sent: after the first failure only
\* threads that had looked before still send.
FewCommandsLost == \A l \in Lanes : lost[l] <= Cardinality(Drivers)

\* A connection that the other side closed in order is noticed, whatever else
\* goes on, so that no car is reset for commands into it for long.
ShutIsNoticed == \A l \in Links : socket[l] = "shut" ~> ~flag[l] \/ ~Alive

\* The main thread waits for three threads in turn: the test loop when its button
\* is pressed, and the two others when the window is closed.  It never waits for
\* ever, whatever the drivers do and even if init() ended before the loops began;
\* but if it still runs, its startLoop sets m_polling again behind stopLoop.
WaitsEnd ==
    /\ main = "joinTest" ~> main = "run"
    /\ main = "joinSlot" /\ ~early ~> main \in {"closed", "hung", "exited", "aborted"}
====
