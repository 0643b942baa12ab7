# TLA+ models of the loop-line controller

The repository is a Qt program that drives a loop sorter: a closed belt of some
two hundred small cars, photocells that see cars pass, two cameras that read the
waybill code of the parcel on a car, a server that says which port ("slot") a
parcel belongs to, and serial servers ("lanes") that pass the command to a car to
throw its parcel out. This directory holds TLA+ modules of the program's
concurrent core, configurations to check them with TLC, and proofs checked by
TLAPS. `PROJECT.json` names, for each definition, the source lines it stands for.

File names below are short for files of `src/`: CW `caritemswritethread.cpp`,
DM `devicemanager.cpp`, DP `dataprocessmain.cpp`, RA `requestapi.cpp`,
SP `sqlconnectionpool.cpp`, SQL `sqlconnection.cpp`, PLC `plccontrol.cpp`, LG `logger.cpp`,
SL `steplogger.cpp`, SC `socketclinet.cpp`, LH `loopline_handle.cpp`.

## 1. Inventory

### 1.1 Threads

| thread | started at | does |
| --- | --- | --- |
| main | `main.cpp` | the window; all handlers of messages, answers and timers; the close event |
| init | LH:64 | `DataProcessMain::init()`, beside the window that is already there |
| carLoop | DM:323 | decides which car to unload, all the time |
| slotLoop | DM:324 | polls the PLC for the state of the ports |
| worker | CW:16 | applies deferred writes to the car items |
| pool jobs | DM:608, DP:222 | positions of the cars and the car under each camera; table updates |
| test loop | DM:344 | started by a button of the window, drives one car after another |
| receivers | SC:112 | one per connection, detached; emit a signal per `recv` |
| log threads | LG:81, SL:81 | one for each of the two logs |

### 1.2 Components

For each: the state it keeps, its operations, whom it talks to, what is hard, and
what makes it correct.

**Car items and `CarItemsWriteThread`** (CW, `StructInfo.h`). State: `carItems`
(code, port and its geometry, loaded, turns), `carItemsLock` (a `shared_mutex`),
the event queue with its mutex and condition variable, the worker, `stopping_`.
Operations: `writeSlotInfo`, `writeItemInfo`, `setRunNum`, `initCarItem`,
`startLoop`, `waitUntilIdle`, the destructor. Called by main, carLoop and the init
thread. Hard: a write is made at once if `try_to_lock` succeeds and by the worker
later if not, and the two forms differ; notification and sleep race; the
destructor stops without the mutex. Correct when the table never changes under a
reader, no deferred write is lost, doubled or reordered, the destructor drains
them, and no mixture of writes leaves a car unloaded but with a port.

**Unloading (`DeviceManager::carLoop` and the handlers that change items)**
(DM:460-519, 654-697, 819-969). State: `carLoop_readCarItemsVersion`, carLoop's
private copy of the items and the version it was taken at. Main changes items and
counts the version up; carLoop compares versions, copies under the shared lock,
drives cars on its copy, resets them through the writer and counts up. Hard: the
write may still be queued when the version is announced, and nobody announces
what the worker does; command, reset and announcement are three steps. Correct
when the copy is outdated only for known reasons, each change arrives, and a
parcel is unloaded once.

**Belt position** (DM:546-653, 838-878). State: `passingCarNum`,
`carLoop_passingCarNum`, `originSignalCount`, `lastStepTimeNs`,
`lastOriginTimeNs`, `carStatus`, `carLoop_readCarStatusVersion`, the car and the
count of each camera. `stepReceive` and `headReceive` run on main; a pool job per
step computes the positions. Hard: the atomics are read and written one by one, so
jobs of two steps overlap and carLoop reads them in between. Correct when the
positions are those of the last step once the jobs are done, carLoop follows, and
time and positions it uses belong together.

**Camera results** (DP:103-214, DM:546-587). State: the number of results per
camera, the number of steps per camera, the car under each camera. A result is
taken only if the two counts agree. Hard: results come late, get lost or are
unread, and nothing but counting matches them to pictures. Correct when a code is
bound to the car it was read on, and one lost result does not stop the camera.

**Binding of code, car and slot** (DP:103-324, DM:460-544,
SQL). State: `codeToCarMap`, the table `supply_data`. Hard: an answer arrives
after its car was unloaded, scanned again, or the code was seen at another car; a
pool job writes the row that main has read and writes back. Correct when a port
comes only from an answer for a code scanned at that car, and each scan is served.

**`RequestAPI`** (RA). State: replies under way with their start time and retries,
the queue, retries waiting for their timer. Operations: `requestForSlot`,
`enqueueOrSend`, `tryStartNext`, `onNetworkFinished`, `checkPendingTimeouts`, the
delayed retry. Hard: answers, network errors, timeouts and retries compete for the
places. Correct when limits hold, no request is lost or doubled, and the queue
moves.

**`SqlConnectionPool`** (SP). State: the queue of free connections, a mutex and a
condition variable. Operations: `init`, `acquire`, the guard's release,
`shutdown`. Hard: a woken thread can find its connection taken; the init thread
holds one connection while it acquires another; shutdown under waiting threads.
Correct when a connection has one owner, and no wakeup is lost.

**Configuration, slot status, car locks** (DM:733-818, 971-1103, DP:91-102, 363-410,
PLC). State: `test_slot_id` (from the row `strong_slot`), `slots_status_map` (from
the bits of the PLC), `carLocks` (from the table `error_cars`). Operations:
`dbInit` with `initCarItems`, `slotLoop` with `updateSlotConfig`,
`resetSlotConfigurations`, `resetDriver`, `resetCameraPositions`, `lockCar`,
`unlockCar`, carLoop's look at a port. Each uses a connection of the pool. Hard: init
thread, slotLoop and the buttons of the window read rows and store what they read, in
any order; a poll fails half way; the map is read without its lock; `carLocks` is a
`vector<bool>`, so writing the lock of one car is a load and a store of a word shared with
other cars, and neither init nor the buttons take a lock. Correct when
memory follows database and PLC, and no failure unlocks a locked port.

**`Logger` and `StepLogger`** (LG, SL). State: the message queue, the stop flag,
the open file and its hour. Hard: the clock is read three times per line, and is a local
time that can be set back; files fail to open, insertions into them fail, exceptions cost a
message; the stop request is made without the mutex. Correct when messages are handled in
order, `close()` returns and has drained what was logged before, a line lies in a
file that fits it, and an error costs no more than its own message and those of its file.

**Connections** (`SocketClient`, SC). State: socket, the flag `SocketConnection`,
`receiving`, the receiving thread. Operations: `ConnectTo`, `sendData`,
`sendComand`, the receiving loop, `disconnect`. Hard: three threads send through a
plain `bool` and nothing reconnects. Correct when the commands lost on a dead
connection are few and its end is noticed.

**Start and close** (DM:19-459, DP:35-91, LH, `main.cpp`). The order of
`init()` (cameras, cars, writer, TCP clients, serial servers, loops) and of
`cleanup()` (loops, connections, writer), which may overlap. Correct when nobody
uses what is gone, and the window closes.

**Not modelled**: the bytes of the drive frame but one; the vendored `snap7` and the half
of `PlcControl` that nothing calls; the widgets of the window; `LicenseManager` (its
call is commented out); the string helpers; the statements of SQL that only the query
page uses. Section 8 says why.

### 1.3 How they interact

    cameras --signal--> main: on41/on42cameraDataReceived  (CameraGate)
                          | code + car
                          v
                        insertSupply_data --> updateCodeToCarMap --> writer
                          |                                          (SlotBinding)
                          v
                        RequestAPI --answer--> onSlotReceive --> row (pool job), car (writer)
                                                                 (RequestApi)
    photocells --signal--> main: step/head/emptyReceive --> pool job: positions, camera cars
                                                                 (StepPosition)
    carLoop <--version, items-- CarItemsWriteThread   (UnloadLoop over CarItemsWriter)
    carLoop <--version, positions-- pool jobs          (StepPosition)
    carLoop, test loop, main --commands--> lanes        (DeviceLifecycle)
    PLC --bits--> slotLoop --locked ports--> carLoop     (Configuration)
    buttons, init, slotLoop <--rows--> strong_slot, error_cars  (Configuration over SqlPool)
    everything --> SqlConnectionPool (SqlPool), Logger and StepLogger (BackgroundLog)

## 2. Modules

| module | models | builds on |
| --- | --- | --- |
| `CarItemTable` | an item, and the four writes in both forms | |
| `DeferredWrites` | what the writer promises: an ordered list of deferred writes | `CarItemTable` |
| `CarItemsWriter` | lock, queue, worker, destructor, step by step | `CarItemTable`; implements `DeferredWrites` |
| `UnloadLoop` | handlers, versions, carLoop and one lane | composes with `CarItemsWriter` |
| `StepPosition` | step and head signals, pool jobs, carLoop's reads, per load and store | |
| `CameraGate` | one camera: pictures, results, the two counts | |
| `SlotBinding` | scans, requests from outside, answers, table jobs, resets | `CarItemTable` |
| `SlotRequests` | what `RequestAPI` promises: each request ends once | |
| `RequestApi` | replies, queue, timeouts, retries | implements `SlotRequests` |
| `SqlPool` | acquire, guard, shutdown: the operations, without a specification | |
| `Configuration` | init, slotLoop, buttons and jobs, what they read and store with a connection | composes with `SqlPool` |
| `BackgroundLog` | queue, thread, rotation, close, exit | |
| `DeviceLifecycle` | init, loops, connections, commands, close, exit | |
| `CarItemsProofs` | theorems about `CarItemsWriter` and `UnloadLoop`, which composes with it | `UnloadLoop` |
| `ConfigurationProofs` | theorems about `SqlPool` and `Configuration`, which composes with it | `Configuration` |
| `StepPositionProofs`, `CameraGateProofs`, `SlotBindingProofs`, `RequestApiProofs`, `BackgroundLogProofs`, `DeviceLifecycleProofs` | theorems about the module of that name | that module |
| `MC*` | the constants of the instances | the module |

Definitions under a comment `\* Mutant` in the modules are versions of the definition that
follows with a plausible bug; `PROJECT.json` says which property each one breaks.
No specification uses them.

### 2.1 Granularity

* A critical section of a mutex that is left before anything else is done is one
  step. `qMutex` and the log's mutex are held for longer only while a thread
  evaluates a wait's predicate and has not gone to sleep yet (`"blocking"`); that is
  the moment in which a notification made without the mutex is lost.
* `carItemsLock` is held over several steps, and who holds it is state.
* Atomics are loaded and stored one step each in `StepPosition` and `CameraGate`.
* A handler on the main thread is one step where it touches nothing that another
  thread changes (`RequestApi`), else the steps at which it does.
* Plain variables that two threads use without a lock (the flag of a connection,
  the code compared in `updateCodeToCarMap`) take any value the build can give. A bit of
  `carLocks` is written in two steps, a load and a store of its word (`word` in
  `Configuration`).

### 2.2 Abstractions that need a word

* **A port** stands for `port_num`, `targetPosition`, `offset` and `inside`, which
  each write sets together.
* **`Event.carID`**: the Make* constructors never store their `carID_` argument
  (`caritemswritethread.h:53`), so an event's car is any car or none;
  `MakeEvents` chooses.
* **Time** in `StepPosition` is the number of signals seen when the clock was read;
  in `UnloadLoop` whether a car is in its 7 ms window is an input.
* **The row search** `indexForCarID_nocheck` is by number of the car: row i holds
  car i+1 from `initCarItems` on.
* **The server** in `SlotBinding` answers each request or lets it fail, at any later
  time; `RequestApi` is the part that produces those ends.
* **Car numbers in `CameraGate`** are numbers of pictures, since a result is never
  late by a whole round of the belt.
* **Framing**: a message is one call of the handler. `recv` does not keep message
  boundaries, and the code does not restore them (DM:594). What came together is one
  message in the models: `StepPosition` has messages that are the bytes of two steps
  (one number, with positions that are wrong or negative). `CameraGate` has steps that come
  as one message, which count once and put any car under the camera, and results that
  come as one code and count once. A message cut in two is not modelled; the
  photocells' have one byte.
* **One port** in `Configuration` stands for all: no operation on `slots_status_map`
  relates two of them. **Its cars** are those of one word of `carLocks`, which does relate
  them; cars of different words are independent.
* **Errors of the log**: a file opens or not, an insertion works or not, and anything between
  taking a message and the end of its line may throw. Each is a choice of `BackgroundLog`.
* **The null pointers** on which `tcp_disconnection` calls `disconnect()` (DM:450;
  `secondSerialSockets` is never filled) are undefined behaviour: `DisconnectLanes` goes on
  or ends the program.
* **The global thread pool** also runs jobs that wait for a connection (DP:222). The
  fairness of the jobs in `StepPosition` assumes that a thread becomes free in the end.

## 3. Runs

Each configuration gives every constant a value. `CHECK_DEADLOCK FALSE` appears
where the system may stop: the process exits (`log`, `lifecycle`), or all bounded
inputs are used up or the button of section 7 has crashed it (`request`,
`request_stuck`, `binding`, `sqlpool`).

| run | bounds | shows |
| --- | --- | --- |
| `writer` | 1 car, 1 port, 1 code, 2 callers, 2 deferred writes at a time | lock and queue discipline, drained destructor, stable reads, and that the writer implements `DeferredWrites`, its liveness included |
| `writer_junk_car` | 2 cars, 1 deferred write | a deferred write hits another car |
| `unload` | 1 car, 1 port, 1 code, 1 deferred write, 2 versions | why the copy may be outdated, when a car is driven twice, that changes arrive |
| `position` | 2 cars, 1 camera, 2 pool threads, 2 messages, one of them perhaps of two steps | overlapping jobs still end with the positions of the last message, and they reach carLoop |
| `camera` | 4 pictures; results late, lost, unread or merged, steps late or merged | counts in phase bind each code to its car; the gate opens again |
| `camera_wrong_car` | 4 pictures | the correction of the count moves the counts out of phase |
| `binding` | 2 codes, 2 cars, 2 ports, 2 scans, 1 reset; requests that end or never do | ports come from answers, and each scan whose requests end is served |
| `request` | 4 requests, 1 place, queue of 2, 1 retry | limits, each request ends once (refinement), who leaves room |
| `request_stuck` | 3 requests, 1 place, queue of 1, 1 retry | the queue stops after a last timeout |
| `sqlpool` | main, init, slotLoop and a job on 2 connections; 2 cars in one word, up to 2 buttons | one owner, no lost wakeup, service; memory follows database and PLC |
| `log` | 2 hours a day, 4 hours, 3 messages; the clock set back, an error at each step | order, drained close, lines fit files, an error stays within its file, close returns |
| `lifecycle` | 1 camera, 1 lane with one car and a car beyond it, 1 posted message | order of start and close, bounded loss of commands, no hang |

**Why these bounds are enough.** They are the smallest in which the case happens.

* `writer`: two callers are main and carLoop, all the program has once init is over;
  one refused write while the other holds the lock, a second deferred write while
  the first is in the worker's batch, and both notifications in flight, all occur
  with two outstanding writes. Cars do not influence one another except through
  the wrong `carID`, for which `writer_junk_car` has two. The theorems of section 5
  drop all of these bounds.
* `unload`: with one outstanding write the deferred reset, the one case in which a
  car is driven twice, occurs; two versions are needed for a change that comes
  while the one before is being copied. `EmptyLimit` 0 and `MaxTurns` 1 keep the path
  to the test port (3 in the code) short.
* `position`: two jobs at a time on two pool threads is the first overlap; the
  numbers wrap around because there are two cars. The two cameras run the same code on
  variables of their own, one after the other; one shows it.
* `camera`: three pictures give one ignored result with another on its way; the
  fourth shows what the correction does to the next one. Two of them as one step message leave
  two for what comes after.
* `binding`: a code at two cars, a car with two codes, and a repeated scan each need
  two scans.
* `request`: with one place, one is posted, two wait, the fourth is dropped. One
  retry shows the budget that is renewed in the queue.
* `sqlpool`: two connections are the fewest with which the nested use of the init
  thread can succeed, and four threads leave two waiting. One use of a connection by
  main is enough for a button to fall between any two steps of init and of slotLoop,
  which polls without bound; the locks have two buttons, so that the second can repair or
  disturb what the first did. Two cars are the fewest that share a word; one starts locked in the table, one does not. `MCConfiguration`
  lets one subject vary in each behaviour (the strong port, the PLC, the car locks, or
  the uses of the pool by main, job and init; `subject`): the values do not depend on each other,
  only the connections they share do.
* `log`: an hour can end, or be set back, between any two of the three readings of the
  clock, and the day ends after two hours. Three messages are one that an error strikes,
  one that goes to the same file, and one to the next.
* `lifecycle`: three threads drive cars over one lane; the car beyond the lanes takes
  the code's path for a missing lane. A photocell is a link like a camera for
  this module and is left out of the instance.

### 3.1 The properties

**CarItemsWriter.** `LockDiscipline`: exactly the threads in a critical section hold
`carItemsLock`. `ReadersSeeStableTable`: the table does not change under a reader.
`UnloadedHasNoPort`: an unloaded car has no port, although a deferred reset keeps
the code and immediate and deferred writes differ. `NoLostPush`: the worker never
sleeps over a queued event that nobody is about to announce.
`JoinedMeansDrained`: the destructor returns only when each deferred write is
applied. `DeferredInOrder`, `DeferredEventually`: safety and liveness of the
abstract specification.

**UnloadLoop.** `CopyIsCurrent`: port and copy differ only while the version says so,
while a writer has not counted up yet, or because of a deferred write.
`DoubleDriveOnlyIfDeferred`: without a deferred write, one parcel means one command.
`ChangesAreSeen`: each announced change is taken over.

**StepPosition.** `QuietPositions` (when the jobs are done, positions, counts and, if no
message came while an older job ran, camera cars are those of the last message, also
after a message that was read wrongly), `CopyIsFresh`, `InStepWithBelt` (positions and time
belong to one step, as long as carLoop keeps up with the belt), `HeadTimeLagsByOne`,
`PositionsReachLoop`.

**CameraGate.** `InPhaseBindsRight`: however late or lost results are and however they are
cut, a code goes to its own car and is the code of one result, as long as no result overtakes its
step, no two steps come as one message, each step's job ends before the next message is
handled, and no result was ignored while others were on their way. Two steps that come as
one count once and name any car, so that counts which agree again later prove nothing; the
next result that is ignored with nothing on its way ends that (`inPhase`).
`SettledIsAccepted`: the gate does not stay shut, also after merged steps.

**SlotBinding.** `SlotsComeFromAnswers`, `AnsweredIsRouted` (a code and a car that saw
only each other end up with the answered port), `ScanIsServed`: the car gets a port, or a request
of the code failed, or the car was reset or scanned with something else, or `RequestAPI` keeps a
request of the code for ever (`KeptForEver`), which section 6.3 shows it can.

**RequestApi.** `EachEndsOnce` (the refinement of `SlotRequests`: a request is open until
it ends, once, answered, failed or dropped; none is lost, doubled or taken up again),
`WithinLimits`, `BudgetWithoutQueue` (a request that never waited is posted at most
1 + maxRetries times), `OnlyTimeoutsLeaveRoom`,
`ServedOrAlone`.

**SqlPool** and **Configuration.** `OneOwner`, `FreeIsNoticed`, `WaiterIsServed` (also
slotLoop when the close event waits for it, and the init thread that holds one
connection already). `LockedPortIsLeftAlone`: a lock that a poll has seen keeps
carLoop off the port until the PLC takes it back, through failed reads, a lost
connection and rows that are no number. `LocksMatchTable`: memory and table agree on the
locks of all cars that init has come to, but for the cars in `excused`. A car gets there by a
failed statement or a missing row, or by one of two races: a button changes the row that `initCarItems` of
the same car has read and not stored yet; or button and `initCarItems`, of whatever cars,
have both loaded the word, and the second store undoes the first. It leaves with the next
button for it to which none of this happens. `ConfigArrives`: what stays as it is outside arrives in memory, if
statements and reads succeed again and again, although a button may store an older
value after a newer one.

**BackgroundLog.** `AllInOrder`, `CloseDrains`, `CloseReturns`, `LoggedIsHandled`, and
`LinesFitTheirFile`, of each message that is handled: a line is in the directory of its day, in
a file no older than the hour when its message was looked at and no younger than its stamp, unless the clock was
set back or an exception left the old file open since the last file was called for
(`steady`); and what is lost without an exception is lost by an error that struck the present
file after it was called for (`fault`): no error outlasts its file. The files of one
hour lose all that follows the first failed insertion, which is what the code does.

**DeviceLifecycle.** `WriterOutlivesLoop` and `WaitsEnd` (both for a window that is closed
after `init()` has ended), `FewCommandsLost` (one per driving thread on a
connection that fails), `ShutIsNoticed`.

Every invariant and every action property above is also a theorem (section 5). The type
invariants of `CarItemsWriter`, `RequestApi`, `BackgroundLog`, `SlotBinding`, `DeviceLifecycle`
and `Configuration` (with `SqlPool`) are theorems too, and no run spends time on them.

Each property is broken by at least one mutated definition, listed in
`PROJECT.json`. A liveness property that is true "or the bound is reached" or "or the
process has ended" says so in its formula.

## 4. Fairness

Nothing obliges the environment: no fairness on signals, scans, buttons, answers,
losses, spurious wakeups, the close event or a call that begins an operation.

* **A thread that can move moves** (weak fairness of its steps): the scheduler runs
  all threads, and none spins without a step here.
* **Locks** (strong fairness of `WorkerLock` and of carLoop's `LoopReload`): others take
  and give `carItemsLock` again and again, so taking it is enabled again and again
  only. `CarItemsWriter` assumes `[]<>LockFree` besides: several readers could
  otherwise hand the shared lock to one another for ever, which the C++ standard
  does not exclude but callers that pause between two reads do.
* **RequestApi**: timers fire. The server owes nothing; requests end by timeout.
* **SlotBinding**: the event loop runs: the handler under way goes on, and a pool job's
  call in the event queue is made (weak). Nothing promises that a request ends, as
  `SlotRequests` does not; a request kept for ever is named in `ScanIsServed`.
* **DeviceLifecycle**: a round of carLoop or of the test loop ends (strong: the thread
  is busy in between), so it sees its flag; a receiver returns from `recv` when the
  connection ends. Init and close, once begun, go on.
* **StepPosition**: carLoop finishes its rounds (the strong fairness of
  `LoopMatch /\ loop' = "top"`): the scan over the cars is a finite loop.
* **Configuration**: a thread goes on with the operation it is in (statements and
  reads end), and a woken thread gets the mutex (no one holds it for long). Nothing is
  owed by the buttons, by carLoop, or by the world outside. `WaiterIsServed` holds
  because slotLoop, the only thread that asks for connections without end, needs one
  and the pool has more, and the others' uses are bounded. **BackgroundLog**: the log thread and the closing thread run.
* **CameraGate** has safety only, and no fairness.

## 5. Proofs

Eight modules hold theorems. `tlapm` checks each of them for all values of the constants
that satisfy the assumptions named in the modules:

* dummies (`NoPort`, `NoCar`, `Junk`, `"worker"`, the states of a row without a slot) are not
  members of the sets they are told apart from (`TableAssumption`, `WriterAssumption`,
  `BindingAssumption`, `ConfigAssumption`), and bounds are natural numbers;
* `ConfigAssumption` besides: the three named threads are different, and there is a car;
* `LoopAssumption`: the callers of the writer are the main thread and carLoop, the cars are
  numbered `1 .. n` (a line has a fixed number of cars), an item's turns can exceed the limit
  at which it is given up;
* `PoolAssumption`: the pool has at least two connections, as a nested use needs two; `main.cpp` makes 10;
* `PositionAssumption`: at least one car, one camera and one thread of the pool;
* `RequestAssumption`: at least one request may be with the server;
* `LogAssumption`: a day has at least one hour;
* `LifecycleAssumption`: names of cameras and photocells are not numbers of lanes, and a lane
  has at most 64 cars.

All of them have the same shape. The invariant that a run checks is seldom inductive, and the
module states a stronger one as a conjunction of named parts, each with a comment that
says which fact of the code it is; TLC has checked it on the instance of the run as
well. Then there is a lemma for each part, with a step for each action that can disturb it.
Where most actions leave a part alone, a *frame* says in one formula what they have in
common (`Elsewhere`, `NoPoll`, `JobsRest`, `NotCounted`), and the part is shown once for it.

**CarItemsProofs**, the writer. `TypeCorrect`, `LockCorrect`, `UnloadedCarHasNoPort`,
`PushesAreNoticed`, `JoinDrains`, `ReadersAreIsolated`, `WriterDefersInOrder`, from

    IInv == TypeOK /\ LockDiscipline /\ BatchDiscipline /\ UnloadedHasNoPort
            /\ NoLostPush /\ PhaseDiscipline

`BatchDiscipline` (the worker has a batch only between taking and finishing it) is
needed because a second swap would otherwise overwrite events; `PhaseDiscipline` (no
caller is inside an operation before the worker runs or once it is to stop, and the
queue is empty whenever the worker has decided to sleep or to leave) because
`JoinedMeansDrained` fails if a late caller may push. The
lemmas about `WrittenNow` and `WrittenLater` give, for each of the four writes, the
type of the item and that an unloaded item has no port. That a step maps to a
step of `DeferredWrites` uses that a swap leaves `localq \o q` alone, which
holds as the batch is empty then; the worker's step takes the head of it.

**CarItemsProofs**, the composition. `LoopUsesTheWriter`: whatever handlers and carLoop do,
the writer's variables only take steps of the writer, so that all of the above holds in
`UnloadLoop`. `CopyFollowsTheTable` and `OneDrivePerPort` then need

    LoopInv == IInv /\ LoopTypes /\ CallInv /\ CopyIsCurrent /\ SpentInv

`CallInv` ties the position of a thread in its own code to its position in the writer:
without it a handler could count the version up while its write is still to be made.
`SpentInv` is about a car that was driven and that no deferred write touched: either its reset
is next, or it has no port in the table and none in the copy that carLoop will use when
it comes to the car again, since the version that would renew the copy is out. That third
case is the reason why two commands for one port need a deferred write.

**StepPositionProofs.** `JobsEndUp`, `CopyIsKeptFresh`, `LoopIsInStep` from
IInv == JobInv /\ CountInv /\ PositionInv /\ CameraInv /\ LoopInv,
`HeadTimeIsAlmostCurrent` from HeadInv alone, and `TimeComesFirst` (`TimeBeforeVersion`, which
no run checks) with `TimeInv` besides. The counters of the code (`version`, the counts
of the cameras) are shown to be cardinalities of sets of jobs that got past a point
(`CountInv`), which is what relates them to the number of steps. `PositionInv` is the argument
for overlapping jobs: what the job of the last message has written stays right
whatever older jobs still write, because a job reads the number anew for each car, so an older
job that writes now writes the last message's positions too. The cameras' cars have no
such protection, hence `overlapped`. `LoopInv` says that a carLoop which was not rushed is
at most one message behind.

**CameraGateProofs.** `CodesFindTheirCars` and `SettledResultsAreTaken` from IInv == QueueInv /\
JobInv /\ HandlerInv /\ PhaseInv /\ SettledInv /\ InPhaseBindsRight. `PhaseInv` is an
inequality: while the counts are in phase, the k-th result still to come, counted from the
last moment of agreement, is of the k-th picture since or of a later one. A lost or a merged
result makes the right side grow only, so it survives both; when the counts are equal
it leaves one picture for the code. Steps that come as one break it, as the count then rises once for
two pictures, so they end the phase; the phase may begin again while the wrong car is still
under the camera, and then every result that can come is of a later picture, whose step
puts that right. `SettledInv` is the equality that holds
after a result was judged with nothing on its way, or else, after merged steps, that more
than one result is still to come.

**SlotBindingProofs.** `SlotsAreAnswers` and `AnswersAreRouted` (and `BindingTypes`) from
IInv == Types /\ MainInv /\ AnswerInv /\ ScanInv /\ SlotsComeFromAnswers /\ RouteInv /\
ServeInv. `AnswerInv` follows the slots on their way to the table and to the cars; `ScanInv` says
that a car has a code, or is remembered for it, only where the code was scanned; `ServeInv` lists
where a scan can be that nothing disturbed: in the handler, with its port, or waiting for
an answer that `codeToCar` will give to its car.

**RequestApiProofs.** `LimitsAreKept` and `RoomIsUsed` from IInv == TypeOK /\
WithinLimits. The heart is a lemma about the pool: after `tryStartNext` either the
queue is empty or all places are taken. Each handler but the timeout ends in it.
`RequestsEndOnce` and `BudgetIsKept` from IOnce == TypeOK /\ Once /\ Budget: a request that
is open is in exactly one place, among the replies, in the queue or at a timer (`Once`), so
that taking it out ends it and nothing can end it again; and what a request was posted
and may still be posted is at most 1 + maxRetries together as long as it never waited
(`Budget`). Both are shown of `enqueueOrSend` and `tryStartNext` as operators
first, then of the handlers that are built from them. Each step is then a
step of `SlotRequests`, or a stutter.

**ConfigurationProofs.** For the operations of `SqlPool`, for any number of threads:
PoolInv == PoolTypeOK /\ Owned /\ Noticed is kept by all of `acquire`, the second look after a wait, a
spurious wakeup, `release` and `shutdown`; `Owned` says of each pair of places that they
share no connection. Each step of `Configuration` is one of these operations or
leaves the pool alone (`PoolStep`), which gives `ConnectionsHaveOneOwner` and
`NoWakeupIsLost`. `CarLocksMatchTheTable` and `LockedPortIsSpared` have invariants of
their own (`LockInv`, `PortInv`), as the two parts of the state have nothing to do with each
other: what a thread holds in its hand between reading a row and storing it is current unless
one of the two races the formula names has happened. LockInv == LockTypes /\ InitInv /\ ButtonInv /\
LocksMatchTable: `InitInv` and `ButtonInv` say of each step of the two operations that the answer
in the hand is the row's, and that the word in the hand differs from `carLocks` in excused cars only.

**BackgroundLogProofs.** `MessagesInOrder`, `CloseHasDrained`, `LinesAreFiled` (and `LogTypes`) from
IInv == TypeOK /\ Order /\ Ending /\ FileFits. `Order` says number by number
what `AllInOrder` says of the concatenation. `Ending`: the thread leaves
only on request and with an empty queue, and nobody goes past `join` before it. `FileFits` is what is
known of the file when a line is about to be written, for a steady clock, and that a closed or bad
file has a fault; `LineLemma` gets `LinesFitTheirFile` from it, as an action property.

**DeviceLifecycleProofs.** `WriterIsThere`, `LossesAreBounded`, `AddressNamesCar` (and
`LifecycleTypes`). The inductive invariant is TypeOK with three parts: `Phases` ties the
steps of init, of the main thread and of the loops together (who may be where while
the writer is being made, used, deleted); `Before` says what holds before the loops
start; `Losses` says that nothing is lost while the flag of a lane is up, and that lost
commands and threads that are about to send on an old look at the flag are together
no more than there are threads. That is why the bound is their number: a failed send clears the flag, so each thread can
be caught behind its check only once. `AddressNamesCar` shows that lane and byte 1
of a command determine car and direction, if a lane has at most 64 cars; the code
has 24.

**What stays with TLC.**

* Liveness under fairness, and with it everything about `ENABLED`: `DeferredEventually`,
  `ChangesAreSeen`, `PositionsReachLoop`, `ScanIsServed`, `ServedOrAlone`, `WaiterIsServed`,
  `ConfigArrives`, `CloseReturns`, `LoggedIsHandled`, `ShutIsNoticed`, `WaitsEnd`.
  `WriterDefersInOrder` and `RequestsEndOnce` prove the safety part of the refinements
  (`SlotRequests` has no other).
* What needs induction over a datum (what a fold computes for every sequence), as
  the library's induction theorems take operators as parameters, which the installed
  provers cannot instantiate. No theorem here turned out to need it. There are no
  RECURSIVE operators.
* The type of some variables of `StepPosition`, `CameraGate` and `UnloadLoop` that no
  invariant needs. `JobInv`, `QueueInv`, `LoopTypes` and their companions type the others.

## 6. Disagreements between code and comments

1. **A deferred write forgets its car** (run `writer_junk_car`,
   `caritemswritethread.h:53`). The constructors behind `Event::MakeWriteSlot` and
   the others take `carID_` and never store it, so the worker looks up an uninitialized
   number and changes another car or none. The comment at DM:961 says the call
   initializes the information of that car.
2. **The correction of the step count moves the counts out of phase** (run
   `camera_wrong_car`, DP:130). DP:129 says an ill-fitting result is ignored lest it
   be bound to the wrong car. Setting the step count to that of the ignored result
   while another result is on its way makes the next comparison succeed for the
   wrong picture.
3. **After the last timeout nothing starts the queue** (run `request_stuck`, RA:321).
   All other ends of a request try to send the next one, as RA:379 says; the timeout
   path does not. If the replies that timed out were the last and had no retries
   left, waiting requests are sent only when another request's end comes.

## 7. Behaviour worth knowing, without a run of its own

The models have these; no property claims the contrary.

* A deferred reset leaves the waybill code in the item, an immediate one clears it
  (CW:197, CW:139).
* `waitUntilIdle` looks at the queue only, and returns while a batch is in the
  worker's hand.
* The destructor's notification can fall between the worker's predicate and its
  sleep (CW:39); then `join` waits for ever.
* The version is counted up after a write that was only queued (DM:512), and carLoop
  copies the old item; the worker's change is not announced.
* A car whose reset was deferred may be driven again (DM:954, DM:961), and a car is
  reset although `send` failed (DM:308, DM:960).
* carLoop takes time and positions apart (DM:865): if a step comes in between they are
  of different steps. A head signal's time may be one signal old (DM:623, DM:838).
* The job of an older step may store its camera car last (DM:550).
* `position` is 0 for one car in each round (DM:642). Bytes of two steps that came
  together make a number above the number of cars, and with it negative positions and a
  wrong car under the cameras, until the next message (DM:594).
* The button may put an older strong port over the one slotLoop has just stored
  (DM:759); the next poll repairs it. While the row `strong_slot` is no number, the
  exception ends each poll before the PLC is read (DM:790).
* A button for a car that `initCarItems` has read and not stored yet changes the row, and
  the old lock may be stored over its own (DM:1014). A button for another car loads and stores the
  same word of `carLocks` as `initCarItems` (DM:1018, 1075): the second store undoes the
  first, so that either car can be left with the wrong lock until its next button. One pressed before `dbInit` has made room for the cars
  indexes a vector that is still empty (DM:1068); the program is undone.
* carLoop never looks at `carLocks`, though DM:1019 logs that the car will be locked.
* The PLC is connected once, at the start, and never again.
* An answer that comes late gives its port to the car that `codeToCarMap` still names
  (DM:534), which may carry another code by then. A second scan of a code writes -1
  over the slot of its row (DP:310). The early return of `updateCodeToCarMap` leaves the
  map alone (DM:473), and a failed `try_lock` skips the write to it (DM:477).
* A retry that has to queue starts with a new budget of retries (RA:259).
* `acquire()` after `shutdown()` waits for ever (SP:23), for instance in the handler of a
  camera message that was still in the event queue.
* After an insertion that failed the stream takes no line until the file of the next hour
  is opened; nothing clears or reports it (LG:109). An exception costs its message (LG:116);
  one between the store of the day and the opening of its file leaves lines in the old
  day's file for the rest of the hour (LG:196-212). If the clock is set back between name and
  stamp, a line is older than its file (LG:11, 258).
* What is logged during or after `close()` stays in the queue (LG:276). The file of a new
  day's first hour may lie in the old day's directory (LG:210). `StepLogger` is never
  closed: the process ends with what it has queued (SL:140), and by `std::terminate`, as its
  thread is a joinable object of the program when it ends; its rotation leaves
  out the directory "step" that its constructor uses (SL:44, SL:183).
* If the window is closed while `init()` runs, `startLoop` sets `m_polling` again behind
  `stopLoop`: main hangs in `join`, or the loop runs without a writer and the process is
  terminated at exit. `WaitsEnd` and `WriterOutlivesLoop` exempt that case.
* `secondSerialSockets` holds null pointers only, and the close event calls `disconnect()`
  on each (DM:450).
* The test loop is not stopped by the close event; a joinable thread at exit ends in
  `std::terminate`. A button pressed before the connections are made indexes a vector
  that is still empty. Nothing reconnects, and a `recv` error other than a closed
  connection is retried at once, for ever.

## 8. Not modelled

* **Values that no decision of the models depends on**: the rows of `outport_config`, the
  time offsets and speeds that `resetSlotConfigurations` and `resetDriver` read, the
  camera positions after the start. What is modelled of these handlers is the
  connection they use, and `strong_slot`. The race of `outports_map[...]` and
  `slots_status_map[...]`, whose `operator[]` may insert under another thread's read,
  is not: the models' entries exist.
* **`snap7`**, which is vendored, and the functions of `PlcControl` that nothing calls;
  `ReadBools274_Bitset` and the connection are in `Configuration`.
* **The bytes of the drive frame** except byte 1: pure data.
* **The window's widgets, the query page and its pictures, string helpers,
  `LicenseManager`**: no state that the rest depends on, but the connection that the
  query page borrows, which `Configuration` has. A picture may come back to a label that
  the next query has deleted (LH:594); Qt's ownership of widgets is not modelled.
* **The network** below a message: a message cut in two. `uploadDropPackage` of
  `RequestAPI` is never called; its destructor runs when nothing else does.

## 9. Plan

Done, in this order: `CarItemTable` and `CarItemsWriter` with its abstract list; its
proofs; `UnloadLoop`; `StepPosition`; `RequestApi` and its proofs; `CameraGate`;
`SlotBinding`; `SqlPool`; `BackgroundLog`; `DeviceLifecycle` and its proofs.

Then: `Configuration` over `SqlPool`; messages that came together in `StepPosition` and
`CameraGate`; `SlotRequests`, which `RequestApi` implements.

Then the proofs: all invariants and action properties that the runs check, and
`EachEndsOnce`, in the order `RequestApi`, `BackgroundLog`, `SqlPool` with `Configuration`,
`StepPosition`, `CameraGate`, `UnloadLoop` over the writer, `SlotBinding`.

Then, with their proofs: the word that two cars of `carLocks` share, the errors and the clock of
the log, steps that come as one message in `CameraGate`, and requests that never end in
`SlotBinding`.

Next, in this order:

1. The rest of the type invariants of `StepPosition`, `CameraGate` and `UnloadLoop`.
2. Action properties that say what a step may never do where today an invariant speaks of the
   state after it, with their proofs from the invariants of section 5.

## 10. How to run

    tlc -workers 2 -config MCUnloadLoop.cfg MCUnloadLoop
    tlapm CarItemsProofs.tla

The largest runs are `camera`, about 5 300 000 states, `log`, about 730 000, and `position`,
about 580 000; each ends within five minutes.
