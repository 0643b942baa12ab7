---- MODULE DeviceLifecycleProofs ----
(***************************************************************************)
(* Proofs about DeviceLifecycle for any photocells, lanes and cars.        *)
(* The arguments are about the order of the main thread's steps and about  *)
(* who looked at the flag of a lane.                                       *)
(***************************************************************************)
EXTENDS DeviceLifecycle, FiniteSetTheorems, TLAPS

Making == {"cameras", "cars", "writer"}
Unconnected == Making \cup {"tcp", "serial"}
Finishers == {"unlink", "unlane", "reset", "closed", "hung", "exited"}

\* Where the two threads are says what there is of the writer and of carLoop, if
\* the window was not closed before init() ended.
Phases ==
    /\ init # "done" => driver["car"].at = "off"
    /\ main \in {"run", "joinTest"} => ~early
    /\ ~early =>
        /\ init \notin Making => writer # "none"
        /\ main \notin {"run", "joinTest", "aborted"} => init = "done"
        /\ main \in Finishers => driver["car"].at \in {"off", "done"}
        /\ writer = "deleted" => /\ main \in {"closed", "hung", "exited", "aborted"}
                                 /\ driver["car"].at \in {"off", "done"}

\* Before the lanes are connected nobody can be about to send to one.
Before ==
    init \in Unconnected =>
        /\ lanes = {} /\ \A l \in Lanes : ~flag[l] /\ lost[l] = 0
        /\ \A d \in Drivers : driver[d].at \notin {"command", "send"}

\* The threads that have looked at the flag of a lane twice and not sent yet.
Sending(l) == {d \in Drivers : driver[d].at = "send" /\ Index(driver[d].car) = l}

\* No command is lost while the flag is up; afterwards each loss takes a sender
\* away, and none is added.
Losses ==
    /\ \A l \in Lanes : flag[l] => lost[l] = 0
    /\ \A l \in Lanes : lost[l] + Cardinality(Sending(l)) <= Cardinality(Drivers)

IInv == TypeOK /\ Phases /\ Before /\ Losses

----------------------------------------------------------------------------
\* The drivers, and the senders among them, can be counted.
LEMMA DriversFinite == IsFiniteSet(Drivers) /\ Cardinality(Drivers) \in Nat
<1>1. IsFiniteSet({})
  BY FS_EmptySet
<1>2. IsFiniteSet({} \cup {"main"})
  BY <1>1, FS_AddElement
<1>3. IsFiniteSet(({} \cup {"main"}) \cup {"car"})
  BY <1>2, FS_AddElement
<1>4. IsFiniteSet((({} \cup {"main"}) \cup {"car"}) \cup {"test"})
  BY <1>3, FS_AddElement
<1>5. (({} \cup {"main"}) \cup {"car"}) \cup {"test"} = Drivers
  BY DEF Drivers
<1> QED
  BY <1>4, <1>5, FS_CardinalityType

LEMMA SendingFinite ==
    ASSUME NEW S \in SUBSET Drivers
    PROVE  IsFiniteSet(S) /\ Cardinality(S) \in Nat /\ Cardinality(S) <= Cardinality(Drivers)
BY DriversFinite, FS_Subset, FS_CardinalityType

\* Initially nothing runs and nothing is lost.
LEMMA InitOK == Init => IInv
<1> SUFFICES ASSUME Init PROVE IInv
  OBVIOUS
<1>1. TypeOK
  <2>1. driver \in [Drivers -> [at: DriverSteps, car: Cars \cup {NoCar}]]
    BY DEF Init, DriverSteps
  <2>2. lost \in [Lanes -> 0 .. Cardinality(Drivers) + 1]
    BY DriversFinite DEF Init
  <2>3. flag \in [Links -> BOOLEAN] /\ receiving \in [Links -> BOOLEAN]
    BY DEF Init
  <2>4. /\ socket \in [Links -> {"none", "open", "shut", "broken", "closed"}]
        /\ receiver \in [Links -> LoopSteps]
    BY DEF Init, LoopSteps
  <2>5. /\ main \in MainSteps /\ init \in InitSteps
        /\ slotLoop \in LoopSteps /\ testLoop \in LoopSteps
    BY DEF Init, MainSteps, InitSteps, LoopSteps
  <2>6. posted \in [Senders -> 0 .. MaxPosted]
    BY LifecycleAssumption DEF Init
  <2> QED
    BY <2>1, <2>2, <2>3, <2>4, <2>5, <2>6 DEF Init, TypeOK
<1>2. Phases /\ Before
  <2>1. \A l \in Lanes : ~flag[l]
    BY DEF Init, Links
  <2> QED
    BY <2>1 DEF Init, Phases, Before, Making, Finishers, Drivers
<1>3. \A l \in Lanes : Sending(l) = {}
  BY DEF Init, Sending, Drivers
<1>4. Losses
  <2>1. \A l \in Lanes : lost[l] = 0 /\ Cardinality(Sending(l)) = 0
    BY <1>3, FS_EmptySet DEF Init
  <2> QED
    BY <2>1, DriversFinite DEF Losses
<1> QED
  BY <1>1, <1>2, <1>4 DEF IInv

----------------------------------------------------------------------------
\* A new set of connections keeps the types.
LEMMA ConnectType ==
    ASSUME TypeOK, NEW set \in SUBSET Links, ConnectTo(set)
    PROVE  /\ socket' \in [Links -> {"none", "open", "shut", "broken", "closed"}]
           /\ flag' \in [Links -> BOOLEAN] /\ receiving' \in [Links -> BOOLEAN]
           /\ receiver' \in [Links -> LoopSteps]
<1> PICK up \in SUBSET set :
        /\ socket' = [l \in Links |-> IF l \in up THEN "open" ELSE socket[l]]
        /\ flag' = [l \in Links |-> flag[l] \/ l \in up]
        /\ receiving' = [l \in Links |-> receiving[l] \/ l \in up]
        /\ receiver' = [l \in Links |-> IF l \in up THEN "on" ELSE receiver[l]]
  BY DEF ConnectTo
<1>1. socket' \in [Links -> {"none", "open", "shut", "broken", "closed"}]
  BY DEF TypeOK
<1>2. flag' \in [Links -> BOOLEAN] /\ receiving' \in [Links -> BOOLEAN]
  OBVIOUS
<1>3. receiver' \in [Links -> LoopSteps]
  BY DEF TypeOK, LoopSteps
<1> QED
  BY <1>1, <1>2, <1>3

\* The closing of connections keeps the types.
LEMMA DisconnectType ==
    ASSUME TypeOK, NEW set, Disconnect(set)
    PROVE  /\ socket' \in [Links -> {"none", "open", "shut", "broken", "closed"}]
           /\ flag' \in [Links -> BOOLEAN] /\ receiving' \in [Links -> BOOLEAN]
           /\ receiver' \in [Links -> LoopSteps]
<1> DEFINE up == {l \in set : socket[l] # "none"}
<1>1. /\ flag' = [l \in Links |-> flag[l] /\ l \notin up]
      /\ receiving' = [l \in Links |-> receiving[l] /\ l \notin up]
      /\ socket' = [l \in Links |-> IF l \in up THEN "closed" ELSE socket[l]]
      /\ receiver' = receiver
  BY DEF Disconnect
<1> HIDE DEF up
<1>2. flag' \in [Links -> BOOLEAN] /\ receiving' \in [Links -> BOOLEAN]
  BY <1>1
<1>3. socket' \in [Links -> {"none", "open", "shut", "broken", "closed"}]
  BY <1>1 DEF TypeOK
<1> QED
  BY <1>1, <1>2, <1>3 DEF TypeOK

\* Every step keeps the types.
LEMMA TypeStep == TypeOK /\ [Next]_vars => TypeOK'
<1> SUFFICES ASSUME TypeOK, [Next]_vars PROVE TypeOK'
  OBVIOUS
<1> USE DEF TypeOK, MainSteps, InitSteps, LoopSteps, DriverSteps, Drivers, loopVars, initVars
<1>1. CASE StartWriter
  BY <1>1 DEF StartWriter, linkVars
<1>2. CASE StopCarTestLoop
  BY <1>2, ZenonT(60) DEF StopCarTestLoop, linkVars
<1>3. CASE JoinTest
  BY <1>3 DEF JoinTest, linkVars
<1>4. CASE DbInit
  BY <1>4 DEF DbInit, linkVars
<1>5. ASSUME InitCameras \/ TcpConnection PROVE TypeOK'
  <2>1. PICK set \in SUBSET Links : ConnectTo(set)
    BY <1>5 DEF InitCameras, TcpConnection, Links
  <2>2. init' \in InitSteps
    BY <1>5 DEF InitCameras, TcpConnection
  <2> QED
    BY <1>5, <2>1, <2>2, ConnectType DEF InitCameras, TcpConnection
<1>6. CASE SerialPortInit
  <2>1. init' \in InitSteps
    BY <1>6 DEF SerialPortInit
  <2>2. ASSUME lanes' = Lanes, ConnectTo(Lanes) PROVE TypeOK'
    BY <1>6, <2>1, <2>2, ConnectType DEF SerialPortInit, Links
  <2>3. ASSUME UNCHANGED <<lanes, linkVars>> PROVE TypeOK'
    BY <1>6, <2>1, <2>3 DEF SerialPortInit, linkVars
  <2>4. ASSUME NEW row \in Lanes, lanes' = 0 .. row - 1, ConnectTo(0 .. row - 1) PROVE TypeOK'
    <3>1. 0 .. row - 1 \subseteq Lanes
      BY LifecycleAssumption DEF Lanes
    <3>2. /\ socket' \in [Links -> {"none", "open", "shut", "broken", "closed"}]
          /\ flag' \in [Links -> BOOLEAN] /\ receiving' \in [Links -> BOOLEAN]
          /\ receiver' \in [Links -> LoopSteps]
      BY <2>4, <3>1, ConnectType DEF Links
    <3>3. lanes' \subseteq Lanes
      BY <2>4, <3>1
    <3> QED
      BY <1>6, <2>1, <3>2, <3>3 DEF SerialPortInit
  <2> QED
    BY <1>6, <2>2, <2>3, <2>4 DEF SerialPortInit
<1>7. ASSUME StartLoop \/ StartCarTestLoop PROVE TypeOK'
  <2>1. driver' \in [Drivers -> [at: DriverSteps, car: Cars \cup {NoCar}]]
    BY <1>7 DEF StartLoop, StartCarTestLoop
  <2>2. ASSUME StartLoop PROVE TypeOK'
    BY <2>1, <2>2 DEF StartLoop, linkVars
  <2>3. ASSUME StartCarTestLoop PROVE TypeOK'
    BY <2>1, <2>3 DEF StartCarTestLoop, linkVars
  <2> QED
    BY <1>7, <2>2, <2>3
<1>8. ASSUME NEW s \in Senders, HandleMessage(s) PROVE TypeOK'
  <2>1. posted' \in [Senders -> 0 .. MaxPosted]
    BY <1>8, LifecycleAssumption DEF HandleMessage
  <2>2. main' \in MainSteps
    BY <1>8 DEF HandleMessage
  <2> QED
    BY <1>8, <2>1, <2>2 DEF HandleMessage, linkVars
<1>9. ASSUME NEW d \in Drivers, NEW c \in Cars, DriveByCarID(d, c) PROVE TypeOK'
  BY <1>9 DEF DriveByCarID, linkVars
<1>10. ASSUME NEW d \in Drivers, SendComand(d) PROVE TypeOK'
  BY <1>10 DEF SendComand, linkVars
<1>11. ASSUME NEW d \in Drivers, SendData(d) PROVE TypeOK'
  <2>1. driver' \in [Drivers -> [at: DriverSteps, car: Cars \cup {NoCar}]]
    BY <1>11 DEF SendData
  <2>2. lost' \in [Lanes -> 0 .. Cardinality(Drivers) + 1]
    <3>1. \A n \in 0 .. Cardinality(Drivers) + 1 :
             (IF n > Cardinality(Drivers) THEN n ELSE n + 1) \in 0 .. Cardinality(Drivers) + 1
      BY DriversFinite
    <3> HIDE DEF Drivers
    <3> QED
      BY <1>11, <3>1 DEF SendData
  <2>3. flag' \in [Links -> BOOLEAN]
    BY <1>11 DEF SendData
  <2> QED
    BY <1>11, <2>1, <2>2, <2>3 DEF SendData
<1>12. ASSUME NEW d \in Drivers, AfterDrive(d) PROVE TypeOK'
  BY <1>12 DEF AfterDrive, linkVars
<1>13. ASSUME CarLoopEnds \/ SlotLoopEnds \/ TestLoopEnds PROVE TypeOK'
  BY <1>13 DEF CarLoopEnds, SlotLoopEnds, TestLoopEnds, linkVars
<1>14. ASSUME NEW l \in Links, Receive(l) PROVE TypeOK'
  BY <1>14, LifecycleAssumption DEF Receive, linkVars
<1>15. ASSUME NEW l \in Links, ReceiveEnd(l) \/ ReceiveError(l) PROVE TypeOK'
  <2>1. receiver' \in [Links -> LoopSteps]
    BY <1>15 DEF ReceiveEnd, ReceiveError
  <2>2. flag' \in [Links -> BOOLEAN]
    BY <1>15 DEF ReceiveEnd, ReceiveError
  <2> QED
    BY <1>15, <2>1, <2>2 DEF ReceiveEnd, ReceiveError
<1>16. ASSUME NEW l \in Links, ConnectionFails(l) PROVE TypeOK'
  BY <1>16 DEF ConnectionFails
<1>17. ASSUME Close \/ DisconnectCells PROVE TypeOK'
  <2>1. PICK set : Disconnect(set)
    BY <1>17 DEF Close, DisconnectCells
  <2>2. main' \in MainSteps /\ early' \in BOOLEAN /\ polling' \in BOOLEAN
    BY <1>17 DEF Close, DisconnectCells
  <2> QED
    BY <1>17, <2>1, <2>2, DisconnectType DEF Close, DisconnectCells
<1>18. ASSUME JoinSlot \/ JoinCar PROVE TypeOK'
  BY <1>18 DEF JoinSlot, JoinCar, linkVars
<1>19. CASE DisconnectLanes
  <2>1. main' \in {"reset", "aborted"}
    BY <1>19 DEF DisconnectLanes
  <2>2. lanes' \subseteq Lanes
    BY <1>19 DEF DisconnectLanes
  <2>3. UNCHANGED <<initVars, early, loopVars, linkVars, posted, lost>>
    BY <1>19 DEF DisconnectLanes
  <2> QED
    BY <2>1, <2>2, <2>3 DEF linkVars
<1>20. ASSUME ResetWriter \/ Exit PROVE TypeOK'
  BY <1>20 DEF ResetWriter, Exit, linkVars
<1>21. CASE UNCHANGED vars
  BY <1>21 DEF vars, linkVars
<1> QED
  BY <1>1, <1>2, <1>3, <1>4, <1>5, <1>6, <1>7, <1>8, <1>9, <1>10, <1>11, <1>12, <1>13, <1>14, <1>15,
     <1>16, <1>17, <1>18, <1>19, <1>20, <1>21
     DEF Next, Starting, DriverStep, ReceiverStep, Closing

----------------------------------------------------------------------------
\* Every step keeps the phases: carLoop begins after the writer was made, and
\* the main thread goes past JoinCar only when carLoop is not there any more.
LEMMA PhaseStep == TypeOK /\ Phases /\ [Next]_vars => Phases'
<1> SUFFICES ASSUME TypeOK, Phases, [Next]_vars PROVE Phases'
  OBVIOUS
<1> USE DEF Phases, Making, Finishers, initVars, loopVars
<1>1. ASSUME InitCameras \/ DbInit \/ StartWriter PROVE Phases'
  BY <1>1 DEF InitCameras, DbInit, StartWriter, InitAt, Alive
<1>2. ASSUME TcpConnection \/ SerialPortInit PROVE Phases'
  <2>1. /\ init \in {"tcp", "serial"} /\ init' \in {"serial", "start", "done"} /\ Alive
        /\ UNCHANGED <<main, early, writer, driver>>
    BY <1>2 DEF TcpConnection, SerialPortInit, InitAt
  <2> QED
    BY <2>1 DEF Alive
<1>3. CASE StartLoop
  <2>1. init = "start" /\ init' = "done" /\ Alive /\ UNCHANGED <<main, early, writer>>
    BY <1>3 DEF StartLoop, InitAt
  <2> QED
    BY <2>1 DEF Alive
<1>4. ASSUME StartCarTestLoop \/ StopCarTestLoop \/ JoinTest PROVE Phases'
  <2>1. main \in {"run", "joinTest"} /\ main' \in {"run", "joinTest"}
    BY <1>4 DEF StartCarTestLoop, StopCarTestLoop, JoinTest
  <2>2. driver'["car"] = driver["car"] /\ UNCHANGED <<init, early, writer>>
    BY <1>4 DEF StartCarTestLoop, StopCarTestLoop, JoinTest, TypeOK, Drivers
  <2> QED
    BY <2>1, <2>2
<1>5. ASSUME NEW s \in Senders, HandleMessage(s) PROVE Phases'
  <2>1. /\ main' = main \/ main' = "aborted" \/ (main' = "hung" /\ main = "closed")
        /\ UNCHANGED <<init, early, writer, driver>>
    BY <1>5 DEF HandleMessage
  <2> QED
    BY <2>1
<1>6. ASSUME NEW d \in Drivers, DriverStep(d) \/ \E c \in Cars : DriveByCarID(d, c) PROVE Phases'
  <2>1. UNCHANGED <<main, init, early, writer>> /\ driver[d].at \notin {"off", "done"}
    BY <1>6 DEF DriverStep, SendComand, SendData, AfterDrive, DriveByCarID
  <2>2. \A e \in Drivers : e # d => driver'[e] = driver[e]
    BY <1>6 DEF DriverStep, SendComand, SendData, AfterDrive, DriveByCarID, TypeOK
  <2> QED
    BY <2>1, <2>2 DEF Drivers
<1>7. ASSUME CarLoopEnds \/ SlotLoopEnds \/ TestLoopEnds PROVE Phases'
  BY <1>7 DEF CarLoopEnds, SlotLoopEnds, TestLoopEnds, TypeOK, Drivers
<1>8. ASSUME NEW l \in Links, ReceiverStep(l) \/ ConnectionFails(l) PROVE Phases'
  BY <1>8 DEF ReceiverStep, Receive, ReceiveEnd, ReceiveError, ConnectionFails
<1>9. ASSUME Close \/ JoinSlot \/ JoinCar PROVE Phases'
  BY <1>9 DEF Close, JoinSlot, JoinCar, TypeOK, Drivers
<1>10. ASSUME DisconnectCells \/ DisconnectLanes PROVE Phases'
  <2>1. /\ main \in {"unlink", "unlane"} /\ main' \in {"unlane", "reset", "aborted"}
        /\ UNCHANGED <<init, early, writer, driver>>
    BY <1>10 DEF DisconnectCells, DisconnectLanes
  <2> QED
    BY <2>1
<1>11. ASSUME ResetWriter \/ Exit PROVE Phases'
  BY <1>11 DEF ResetWriter, Exit
<1>12. CASE UNCHANGED vars
  BY <1>12 DEF vars
<1> QED
  BY <1>1, <1>2, <1>3, <1>4, <1>5, <1>6, <1>7, <1>8, <1>9, <1>10, <1>11, <1>12
     DEF Next, Starting, Closing

\* Every step before the lanes are connected keeps them unused.
LEMMA BeforeStep == TypeOK /\ Before /\ [Next]_vars => Before'
<1> SUFFICES ASSUME TypeOK, Before, [Next]_vars, init' \in Unconnected PROVE Before'
  BY DEF Before
<1> USE DEF Before, Unconnected, Making, initVars, loopVars
<1>1. ASSUME InitCameras \/ TcpConnection PROVE Before'
  <2>1. \A l \in Lanes : l \notin Cameras \cup Cells /\ l \in Links
    BY LifecycleAssumption DEF Lanes, Links
  <2>2. PICK set \in SUBSET (Cameras \cup Cells) : ConnectTo(set)
    BY <1>1 DEF InitCameras, TcpConnection
  <2>3. \A l \in Lanes : flag'[l] = flag[l]
    BY <2>1, <2>2 DEF ConnectTo, TypeOK
  <2> QED
    BY <1>1, <2>3 DEF InitCameras, TcpConnection, InitAt
<1>2. ASSUME DbInit \/ StartWriter PROVE Before'
  BY <1>2 DEF DbInit, StartWriter, InitAt, linkVars
<1>3. ASSUME SerialPortInit \/ StartLoop PROVE Before'
  BY <1>3 DEF SerialPortInit, StartLoop
<1>4. ASSUME StartCarTestLoop \/ CarLoopEnds PROVE Before'
  BY <1>4 DEF StartCarTestLoop, CarLoopEnds, TypeOK, Drivers, linkVars
<1>5. ASSUME StopCarTestLoop \/ JoinTest \/ SlotLoopEnds \/ TestLoopEnds PROVE Before'
  BY <1>5 DEF StopCarTestLoop, JoinTest, SlotLoopEnds, TestLoopEnds, linkVars
<1>6. ASSUME NEW s \in Senders, HandleMessage(s) PROVE Before'
  BY <1>6 DEF HandleMessage, linkVars
<1>7. ASSUME NEW d \in Drivers, DriverStep(d) \/ \E c \in Cars : DriveByCarID(d, c) PROVE Before'
  <2>1. init' = init
    BY <1>7 DEF DriverStep, SendComand, SendData, AfterDrive, DriveByCarID
  <2>2. AfterDrive(d)
    BY <1>7, <2>1 DEF DriverStep, SendComand, SendData, DriveByCarID
  <2> QED
    BY <2>1, <2>2 DEF AfterDrive, linkVars, TypeOK
<1>8. ASSUME NEW l \in Links, ReceiverStep(l) \/ ConnectionFails(l) PROVE Before'
  <2>1. \A k \in Lanes : flag'[k] => flag[k]
    BY <1>8 DEF ReceiverStep, Receive, ReceiveEnd, ReceiveError, ConnectionFails, linkVars,
       TypeOK, Links
  <2> QED
    BY <1>8, <2>1 DEF ReceiverStep, Receive, ReceiveEnd, ReceiveError, ConnectionFails
<1>9. ASSUME Close \/ DisconnectCells PROVE Before'
  <2>1. \A k \in Lanes : flag'[k] => flag[k]
    BY <1>9 DEF Close, DisconnectCells, Disconnect, Links
  <2> QED
    BY <1>9, <2>1 DEF Close, DisconnectCells
<1>10. CASE JoinCar
  BY <1>10 DEF JoinCar, linkVars, TypeOK
<1>11. ASSUME JoinSlot \/ DisconnectLanes \/ ResetWriter \/ Exit PROVE Before'
  BY <1>11 DEF JoinSlot, DisconnectLanes, ResetWriter, Exit, linkVars
<1>12. CASE UNCHANGED vars
  BY <1>12 DEF vars, linkVars
<1> QED
  BY <1>1, <1>2, <1>3, <1>4, <1>5, <1>6, <1>7, <1>8, <1>9, <1>10, <1>11, <1>12
     DEF Next, Starting, Closing

----------------------------------------------------------------------------
\* A step that adds no sender, raises no flag and counts no loss.
LEMMA QuietStep ==
    ASSUME TypeOK, Losses, lost' = lost,
           \A l \in Lanes : flag'[l] => flag[l],
           \A d \in Drivers : driver'[d].at = "send" => driver'[d] = driver[d]
    PROVE  Losses'
<1>1. ASSUME NEW l \in Lanes PROVE lost'[l] + Cardinality(Sending(l)') <= Cardinality(Drivers)
  <2>1. Sending(l)' \subseteq Sending(l) /\ Sending(l) \subseteq Drivers
    BY DEF Sending
  <2>2. Cardinality(Sending(l)') <= Cardinality(Sending(l))
    BY <2>1, SendingFinite, FS_Subset
  <2>3. Cardinality(Sending(l)') \in Nat /\ Cardinality(Sending(l)) \in Nat
    BY <2>1, SendingFinite
  <2>4. lost[l] \in Nat /\ lost[l] + Cardinality(Sending(l)) <= Cardinality(Drivers)
    BY DriversFinite DEF TypeOK, Losses
  <2> QED
    BY <2>2, <2>3, <2>4, DriversFinite
<1> QED
  BY <1>1 DEF Losses

\* The lanes' connections: nobody drives yet.
LEMMA ConnectStep ==
    ASSUME TypeOK, Before, Losses, SerialPortInit
    PROVE  Losses'
<1>1. /\ lost' = lost /\ driver' = driver /\ init \in Unconnected
  BY DEF SerialPortInit, InitAt, Unconnected, loopVars
<1>2. ASSUME NEW l \in Lanes PROVE Sending(l)' = {}
  BY <1>1 DEF Sending, Before
<1>3. \A l \in Lanes : Cardinality(Sending(l)') = 0
  BY <1>2, FS_EmptySet
<1> QED
  BY <1>1, <1>3, DriversFinite DEF Losses, Before

\* Every step keeps the account of a lane: its losses and its senders.
LEMMA LossStep == TypeOK /\ Before /\ Losses /\ [Next]_vars => Losses'
<1> SUFFICES ASSUME TypeOK, Before, Losses, [Next]_vars PROVE Losses'
  OBVIOUS
<1> USE DEF loopVars
<1>1. ASSUME DbInit \/ StartWriter \/ StopCarTestLoop \/ JoinTest \/ JoinSlot \/ ResetWriter \/ Exit
      PROVE  Losses'
  BY <1>1, QuietStep DEF DbInit, StartWriter, StopCarTestLoop, JoinTest, JoinSlot,
     ResetWriter, Exit, linkVars
<1>2. ASSUME InitCameras \/ TcpConnection PROVE Losses'
  <2>1. \A l \in Lanes : l \notin Cameras \cup Cells /\ l \in Links
    BY LifecycleAssumption DEF Lanes, Links
  <2>2. PICK set \in SUBSET (Cameras \cup Cells) : ConnectTo(set)
    BY <1>2 DEF InitCameras, TcpConnection
  <2>3. \A l \in Lanes : flag'[l] = flag[l]
    BY <2>1, <2>2 DEF ConnectTo, TypeOK
  <2> QED
    BY <1>2, <2>3, QuietStep DEF InitCameras, TcpConnection
<1>3. CASE SerialPortInit
  BY <1>3, ConnectStep
<1>4. ASSUME StartLoop \/ StartCarTestLoop \/ CarLoopEnds \/ JoinCar PROVE Losses'
  <2>1. \A d \in Drivers : driver'[d].at = "send" => driver'[d] = driver[d]
    BY <1>4 DEF StartLoop, StartCarTestLoop, CarLoopEnds, JoinCar, TypeOK
  <2> QED
    BY <1>4, <2>1, QuietStep DEF StartLoop, StartCarTestLoop, CarLoopEnds, JoinCar, linkVars
<1>5. ASSUME DisconnectLanes \/ \E s \in Senders : HandleMessage(s) PROVE Losses'
  BY <1>5, QuietStep DEF HandleMessage, DisconnectLanes, linkVars
<1>6. ASSUME SlotLoopEnds \/ TestLoopEnds PROVE Losses'
  BY <1>6, QuietStep DEF SlotLoopEnds, TestLoopEnds, linkVars
<1>7. ASSUME NEW d \in Drivers, AfterDrive(d) \/ \E c \in Cars : DriveByCarID(d, c) PROVE Losses'
  <2>1. \A e \in Drivers : driver'[e].at = "send" => driver'[e] = driver[e]
    BY <1>7 DEF AfterDrive, DriveByCarID, TypeOK
  <2>2. lost' = lost /\ main' = main /\ flag' = flag
    BY <1>7 DEF AfterDrive, DriveByCarID, linkVars
  <2> QED
    BY <2>1, <2>2, QuietStep
<1>8. ASSUME NEW l \in Links, ReceiverStep(l) \/ ConnectionFails(l) PROVE Losses'
  <2>1. \A k \in Lanes : flag'[k] => flag[k]
    BY <1>8 DEF ReceiverStep, Receive, ReceiveEnd, ReceiveError, ConnectionFails, linkVars,
       TypeOK, Links
  <2>2. lost' = lost /\ main' = main /\ driver' = driver
    BY <1>8 DEF ReceiverStep, Receive, ReceiveEnd, ReceiveError, ConnectionFails
  <2> QED
    BY <2>1, <2>2, QuietStep
<1>9. ASSUME Close \/ DisconnectCells PROVE Losses'
  <2>1. \A k \in Lanes : flag'[k] => flag[k]
    BY <1>9 DEF Close, DisconnectCells, Disconnect, Links
  <2> QED
    BY <1>9, <2>1, QuietStep DEF Close, DisconnectCells
<1>10. ASSUME NEW d \in Drivers, SendComand(d) PROVE Losses'
  <2> DEFINE l == Index(driver[d].car)
  <2>1. /\ lost' = lost /\ main' = main /\ flag' = flag
        /\ driver' = [driver EXCEPT ![d].at = IF flag[l] THEN "send" ELSE "after"]
    BY <1>10 DEF SendComand, linkVars
  <2>2. CASE ~flag[l]
    <3>1. \A e \in Drivers : driver'[e].at = "send" => driver'[e] = driver[e]
      BY <2>1, <2>2 DEF TypeOK
    <3> QED
      BY <2>1, <3>1, QuietStep
  <2>3. CASE flag[l]
    <3>1. ASSUME NEW k \in Lanes PROVE lost'[k] + Cardinality(Sending(k)') <= Cardinality(Drivers)
      <4>1. CASE k = l
        <5>1. lost'[k] = 0
          BY <2>1, <2>3, <4>1 DEF Losses
        <5>2. Sending(k)' \subseteq Drivers
          BY DEF Sending
        <5> QED
          BY <5>1, <5>2, SendingFinite, DriversFinite
      <4>2. CASE k # l
        <5>1. Sending(k)' = Sending(k)
          BY <2>1, <2>3, <4>2, <1>10 DEF Sending, SendComand, TypeOK
        <5> QED
          BY <2>1, <5>1 DEF Losses
      <4> QED
        BY <4>1, <4>2
    <3> QED
      BY <2>1, <3>1 DEF Losses
  <2> QED
    BY <2>2, <2>3
<1>11. ASSUME NEW d \in Drivers, SendData(d) PROVE Losses'
  <2> DEFINE l == Index(driver[d].car)
  <2>1. /\ main' = main /\ driver[d].at = "send"
        /\ driver' = [driver EXCEPT ![d].at = "after"]
    BY <1>11 DEF SendData
  <2>2. CASE UNCHANGED <<flag, lost>>
    <3>1. \A e \in Drivers : driver'[e].at = "send" => driver'[e] = driver[e]
      BY <2>1 DEF TypeOK
    <3> QED
      BY <2>1, <2>2, <3>1, QuietStep
  <2>3. CASE /\ flag' = [flag EXCEPT ![l] = FALSE]
             /\ lost' = [lost EXCEPT ![l] = IF @ > Cardinality(Drivers) THEN @ ELSE @ + 1]
    <3>1. ASSUME NEW k \in Lanes
          PROVE  /\ flag'[k] => lost'[k] = 0
                 /\ lost'[k] + Cardinality(Sending(k)') <= Cardinality(Drivers)
      <4>0. k \in Links
        BY DEF Links
      <4>1. CASE k = l
        <5>1. d \in Sending(k) /\ Sending(k) \subseteq Drivers
          BY <2>1, <4>1 DEF Sending
        <5>2. Sending(k)' = Sending(k) \ {d}
          BY <2>1 DEF Sending, TypeOK
        <5>3. Cardinality(Sending(k)') = Cardinality(Sending(k)) - 1
          BY <5>1, <5>2, SendingFinite, FS_RemoveElement
        <5>4. lost[k] \in Nat /\ lost[k] + Cardinality(Sending(k)) <= Cardinality(Drivers)
          BY DriversFinite DEF TypeOK, Losses
        <5>5. Cardinality(Sending(k)) \in Nat
          BY <5>1, SendingFinite
        <5>6. lost'[k] = IF lost[k] > Cardinality(Drivers) THEN lost[k] ELSE lost[k] + 1
          BY <2>3, <4>1 DEF TypeOK
        <5>7. ~flag'[k]
          BY <2>3, <4>0, <4>1 DEF TypeOK
        <5> QED
          BY <5>3, <5>4, <5>5, <5>6, <5>7, DriversFinite
      <4>2. CASE k # l
        <5>1. Sending(k)' = Sending(k)
          BY <2>1, <4>2 DEF Sending, TypeOK
        <5>2. flag'[k] = flag[k] /\ lost'[k] = lost[k]
          BY <2>3, <4>0, <4>2 DEF TypeOK
        <5> QED
          BY <5>1, <5>2 DEF Losses
      <4> QED
        BY <4>1, <4>2
    <3> QED
      BY <3>1 DEF Losses
  <2> QED
    BY <1>11, <2>2, <2>3 DEF SendData
<1>12. CASE UNCHANGED vars
  BY <1>12, QuietStep DEF vars, linkVars
<1> QED
  BY <1>1, <1>2, <1>3, <1>4, <1>5, <1>6, <1>7, <1>8, <1>9, <1>10, <1>11, <1>12
     DEF Next, Starting, Closing, DriverStep

----------------------------------------------------------------------------
\* The inductive invariant.
LEMMA Inductive == Spec => []IInv
<1>1. IInv /\ [Next]_vars => IInv'
  BY TypeStep, PhaseStep, BeforeStep, LossStep DEF IInv
<1> QED
  BY InitOK, <1>1, PTL DEF Spec

\* The types of the connections, threads and phases, for any constants.
THEOREM LifecycleTypes == Spec => []TypeOK
<1>1. IInv => TypeOK
  BY DEF IInv
<1> QED
  BY Inductive, <1>1, PTL

\* carLoop never drives or resets a car without the writer of the car items: from
\* the order in which init() makes and cleanup() stops, joins and deletes.
THEOREM WriterIsThere == Spec => []WriterOutlivesLoop
<1>1. IInv => WriterOutlivesLoop
  BY DEF IInv, TypeOK, Phases, Making, WriterOutlivesLoop
<1> QED
  BY Inductive, <1>1, PTL

\* A lane loses at most one command of each thread that drives cars, whatever the
\* order in which they look at the flag, send and clear it.
THEOREM LossesAreBounded == Spec => []FewCommandsLost
<1>1. IInv => FewCommandsLost
  <2> SUFFICES ASSUME IInv, NEW l \in Lanes PROVE lost[l] <= Cardinality(Drivers)
    BY DEF FewCommandsLost
  <2>1. Sending(l) \subseteq Drivers
    BY DEF Sending
  <2>2. Cardinality(Sending(l)) \in Nat
    BY <2>1, SendingFinite
  <2>3. lost[l] \in Nat /\ lost[l] + Cardinality(Sending(l)) <= Cardinality(Drivers)
    BY DriversFinite DEF IInv, TypeOK, Losses
  <2> QED
    BY <2>2, <2>3, DriversFinite
<1> QED
  BY Inductive, <1>1, PTL

----------------------------------------------------------------------------
\* Division with remainder.
LEMMA Division ==
    ASSUME NEW a \in Nat, NEW n \in Nat \ {0}
    PROVE  a = n * (a \div n) + (a % n) /\ a % n \in 0 .. n - 1
OBVIOUS

\* The lane and byte 1 of a command name the car and the direction: no two
\* commands that differ in either reach the same drive alike.
THEOREM AddressNamesCar ==
    ASSUME NEW c1 \in Cars, NEW c2 \in Cars, NEW way1 \in BOOLEAN, NEW way2 \in BOOLEAN,
           Index(c1) = Index(c2), AddressByte(c1, way1) = AddressByte(c2, way2)
    PROVE  c1 = c2 /\ way1 = way2
<1> DEFINE n == CarsPerSocket
           a1 == c1 - 1
           a2 == c2 - 1
<1>1. n \in 1 .. 64 /\ n \in Nat \ {0} /\ a1 \in Nat /\ a2 \in Nat
  BY LifecycleAssumption DEF Cars
<1>2. /\ SerialID(c1) = (a1 % n) + 1 /\ SerialID(c2) = (a2 % n) + 1
      /\ a1 \div n = a2 \div n
  BY DEF SerialID, Index
<1>3. c1 = a1 + 1 /\ c2 = a2 + 1
  BY DEF Cars
<1> HIDE DEF n, a1, a2
<1>4. /\ a1 = n * (a1 \div n) + (a1 % n) /\ a1 % n \in 0 .. n - 1
      /\ a2 = n * (a2 \div n) + (a2 % n) /\ a2 % n \in 0 .. n - 1
  BY <1>1, Division
<1>5. SerialID(c1) \in 1 .. n /\ SerialID(c2) \in 1 .. n
  BY <1>1, <1>2, <1>4
<1>6. SerialID(c1) = SerialID(c2) /\ way1 = way2
  BY <1>1, <1>5 DEF AddressByte
<1>7. a1 % n = a2 % n
  BY <1>1, <1>2, <1>4, <1>6
<1>8. a1 = a2
  BY <1>2, <1>4, <1>7
<1> QED
  BY <1>3, <1>6, <1>8
====
