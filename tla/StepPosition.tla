---- MODULE StepPosition ----
(***************************************************************************)
(* How DeviceManager follows the belt.  The step photocell counts the cars *)
(* that have passed since the head car; the handler stepReceive on the     *)
(* main thread stores the number and its time and starts a job on Qt's     *)
(* thread pool, which computes the position of every car and the car under *)
(* each camera.  The thread carLoop takes over time and positions when     *)
(* carLoop_readCarStatusVersion has changed.                               *)
(*                                                                         *)
(* A message of the photocell is the number of cars that have passed, a    *)
(* byte.  The connection is a stream: the bytes of two steps that came     *)
(* together are one message and one number.                                *)
(*                                                                         *)
(* Times are numbers of messages: a time of the step photocell is the      *)
(* number of messages received when the clock was read, a time of the head *)
(* photocell the number of head signals.                                   *)
(***************************************************************************)
EXTENDS Integers, FiniteSets

CONSTANTS
    NumCars,       \* TotalCarNum
    NumCameras,    \* cameras an image of a parcel is taken by (2)
    CameraOffset,  \* _camera41Position, _camera42Position
    PoolSize,      \* threads of the pool
    MaxSteps,      \* bound on the messages received
    MaxMerged      \* bound on those that are the bytes of two steps

ASSUME PositionAssumption ==
    /\ NumCars \in Nat \ {0}
    /\ NumCameras \in Nat \ {0}
    /\ CameraOffset \in [1 .. NumCameras -> Nat \ {0}]
    /\ PoolSize \in Nat \ {0}
    /\ MaxSteps \in Nat /\ MaxMerged \in Nat

Cars == 1 .. NumCars
Cameras == 1 .. NumCameras
Jobs == 1 .. MaxSteps
NoPosition == NumCars + 1    \* copy_carStatus before it was first taken

VARIABLES
    belt,           \* cars that have passed the photocell (history)
    steps,          \* messages received (history)
    sent,           \* the number in each of them (history)
    passingCarNum,
    loopPassing,    \* carLoop_passingCarNum
    lastStep,       \* lastStepTimeNs
    heads,          \* originSignalCount
    lastOrigin,     \* lastOriginTimeNs
    main,           \* where the running handler of the main thread is
    jobs,           \* the job of every step
    holder,         \* the job that holds carStatusLock, 0 if none
    position,       \* carStatus[].currentPosition
    version,        \* carLoop_readCarStatusVersion
    camCount,       \* step_camera41Count, step_camera42Count
    camCar,         \* _currentCarIdFor41, _currentCarIdFor42
    loop,           \* where carLoop is
    copyHead,       \* copy_headCount
    copyOrigin,     \* copy_lastOriginalNs
    copyPassing,    \* copy_passingCarNum
    prev,           \* prevNs
    copyPosition,   \* copy_carStatus
    lastVersion,    \* lastCarStatusVersion
    rushed,         \* a step came before carLoop had taken over the one before (history)
    overlapped      \* a step came before the jobs of those before had ended (history)

history == <<belt, sent, rushed, overlapped>>
lineVars == <<steps, passingCarNum, loopPassing, lastStep, main>>
headVars == <<heads, lastOrigin>>
statusVars == <<holder, position, version>>
cameraVars == <<camCount, camCar>>
loopVars == <<loop, copyHead, copyOrigin, copyPassing, prev, copyPosition, lastVersion>>
vars == <<lineVars, headVars, jobs, statusVars, cameraVars, loopVars, history>>

JobSteps == {"none", "queued", "writing", "announce", "snap", "count", "store", "done"}
Numbers == 0 .. 256 * NumCars + NumCars
Job == [at: JobSteps, next: 1 .. NumCars + NumCameras + 1, snap: Numbers]
Positions == 1 - 256 * NumCars .. NumCars

TypeOK ==
    /\ steps \in 0 .. MaxSteps /\ lastStep \in 0 .. steps
    /\ belt \in 0 .. 2 * MaxSteps /\ sent \in [0 .. MaxSteps -> Numbers]
    /\ passingCarNum \in Numbers /\ loopPassing \in Numbers
    /\ heads \in Nat /\ lastOrigin \in 0 .. heads
    /\ main \in {"idle", "stepped", "stepCounted", "stepTimed", "headed", "headTimed"}
    /\ jobs \in [Jobs -> Job]
    /\ holder \in 0 .. MaxSteps
    /\ position \in [Cars -> Positions]
    /\ version \in 0 .. steps
    /\ camCount \in [Cameras -> 0 .. steps] /\ camCar \in [Cameras -> Cars]
    /\ loop \in {"top", "headTime", "headPassing", "compare", "time", "reload",
                 "passing", "judge", "check", "match"}
    /\ copyHead \in 0 .. heads /\ copyOrigin \in 0 .. heads
    /\ copyPassing \in Numbers
    /\ prev \in 0 .. lastStep
    /\ copyPosition \in [Cars -> Positions \cup {NoPosition}]
    /\ lastVersion \in 0 .. version
    /\ rushed \in BOOLEAN /\ overlapped \in BOOLEAN

\* dbInit places car i at position i before the first step.
Init ==
    /\ belt = 0 /\ steps = 0 /\ sent = [m \in 0 .. MaxSteps |-> 0] /\ passingCarNum = 0 /\ loopPassing = 0 /\ lastStep = 0
    /\ heads = 0 /\ lastOrigin = 0 /\ main = "idle"
    /\ jobs = [j \in Jobs |-> [at |-> "none", next |-> 1, snap |-> 0]]
    /\ holder = 0 /\ position = [c \in Cars |-> c] /\ version = 0
    /\ camCount = [k \in Cameras |-> 0] /\ camCar = [k \in Cameras |-> 1]
    /\ loop = "top" /\ copyHead = 0 /\ copyOrigin = 0 /\ copyPassing = 0 /\ prev = 0
    /\ copyPosition = [c \in Cars |-> NoPosition] /\ lastVersion = 0
    /\ rushed = FALSE /\ overlapped = FALSE

\* The number the photocell sends with its k-th step: 1 follows the head car.
CarsPassed(k) == IF k = 0 THEN 0 ELSE ((k - 1) % NumCars) + 1

\* What several of them make when they are read as one number.
Together(k, n) == IF n = 1 THEN CarsPassed(k + 1) ELSE 256 * CarsPassed(k + 1) + CarsPassed(k + 2)

\* C's %: the remainder has the sign of the dividend.
Rem(a, b) == IF a >= 0 THEN a % b ELSE -((-a) % b)

\* The position of car c, and the car under camera k, after n cars.  Two steps read
\* as one number give positions that are wrong, or negative, and another car.
Position(c, n) == Rem(NumCars - n + c, NumCars)
CameraCar(k, n) == Rem(n + CameraOffset[k] - 1, NumCars) + 1

Quiet == main = "idle" /\ \A j \in Jobs : jobs[j].at \in {"none", "done"}

----------------------------------------------------------------------------
\* stepReceive: the number ...
StepReceive ==
    /\ main = "idle" /\ steps < MaxSteps
    /\ \E n \in {1, 2} :
        /\ belt' = belt + n /\ belt' - (steps + 1) <= MaxMerged
        /\ passingCarNum' = Together(belt, n)
    /\ steps' = steps + 1
    /\ sent' = [sent EXCEPT ![steps + 1] = passingCarNum']
    /\ main' = "stepped"
    /\ rushed' = (rushed \/ lastVersion # steps
                    \/ loop \in {"time", "reload", "passing"})
    /\ overlapped' = (overlapped \/ ~Quiet)
    /\ UNCHANGED <<loopPassing, lastStep, headVars, jobs, statusVars, cameraVars, loopVars>>

\* ... again for carLoop ...
StepCount ==
    /\ main = "stepped"
    /\ loopPassing' = passingCarNum
    /\ main' = "stepCounted"
    /\ UNCHANGED <<steps, passingCarNum, lastStep, headVars, jobs, statusVars, cameraVars,
                   loopVars, history>>

\* ... the time ...
StepTime ==
    /\ main = "stepCounted"
    /\ lastStep' = steps
    /\ main' = "stepTimed"
    /\ UNCHANGED <<steps, passingCarNum, loopPassing, headVars, jobs, statusVars, cameraVars,
                   loopVars, history>>

\* ... and QtConcurrent::run.
StepRun ==
    /\ main = "stepTimed"
    /\ jobs' = [jobs EXCEPT ![steps].at = "queued"]
    /\ main' = "idle"
    /\ UNCHANGED <<steps, passingCarNum, loopPassing, lastStep, headVars, statusVars,
                   cameraVars, loopVars, history>>

\* headReceive, for the head car of each round.  It comes on a connection of its
\* own, before the first step of the round was sent.
HeadReceive ==
    /\ main = "idle"
    /\ heads * NumCars <= belt
    /\ heads' = heads + 1
    /\ main' = "headed"
    /\ UNCHANGED <<steps, passingCarNum, loopPassing, lastStep, lastOrigin, jobs, statusVars,
                   cameraVars, loopVars, history>>

HeadTime ==
    /\ main = "headed"
    /\ lastOrigin' = heads
    /\ main' = "headTimed"
    /\ UNCHANGED <<steps, passingCarNum, loopPassing, lastStep, heads, jobs, statusVars,
                   cameraVars, loopVars, history>>

HeadZero ==
    /\ main = "headTimed"
    /\ loopPassing' = 0
    /\ main' = "idle"
    /\ UNCHANGED <<steps, passingCarNum, lastStep, headVars, jobs, statusVars, cameraVars,
                   loopVars, history>>

----------------------------------------------------------------------------
\* updateCarPosition in the pool.  The pool starts its jobs in order, at most
\* PoolSize at a time; none takes the lock before all readers left.
JobLock(j) ==
    /\ jobs[j].at = "queued"
    /\ Cardinality({i \in 1 .. j - 1 : jobs[i].at # "done"}) < PoolSize
    /\ holder = 0
    /\ holder' = j
    /\ jobs' = [jobs EXCEPT ![j].at = "writing"]
    /\ UNCHANGED <<lineVars, headVars, position, version, cameraVars, loopVars, history>>

\* Each car's position is computed from the present passingCarNum.
JobWrite(j) ==
    /\ jobs[j].at = "writing" /\ jobs[j].next \in Cars
    /\ position' = [position EXCEPT ![jobs[j].next] = Position(jobs[j].next, passingCarNum)]
    /\ jobs' = [jobs EXCEPT ![j].next = @ + 1]
    /\ UNCHANGED <<lineVars, headVars, holder, version, cameraVars, loopVars, history>>

JobUnlock(j) ==
    /\ jobs[j].at = "writing" /\ jobs[j].next > NumCars
    /\ holder' = 0
    /\ jobs' = [jobs EXCEPT ![j].at = "announce"]
    /\ UNCHANGED <<lineVars, headVars, position, version, cameraVars, loopVars, history>>

\* Mutant: a flag instead of a count.
JobAnnounceFlag(j) ==
    /\ jobs[j].at = "announce"
    /\ version' = 1
    /\ jobs' = [jobs EXCEPT ![j].at = "snap"]
    /\ UNCHANGED <<lineVars, headVars, holder, position, cameraVars, loopVars, history>>

JobAnnounce(j) ==
    /\ jobs[j].at = "announce"
    /\ version' = version + 1
    /\ jobs' = [jobs EXCEPT ![j].at = "snap"]
    /\ UNCHANGED <<lineVars, headVars, holder, position, cameraVars, loopVars, history>>

\* updateCarForCamera: reads the number once more ...
JobSnap(j) ==
    /\ jobs[j].at = "snap"
    /\ jobs' = [jobs EXCEPT ![j].at = "count", ![j].snap = passingCarNum]
    /\ UNCHANGED <<lineVars, headVars, statusVars, cameraVars, loopVars, history>>

\* ... and for one camera after the other counts the step and stores the car.
JobCamera(j) == jobs[j].next - NumCars

JobCount(j) ==
    /\ jobs[j].at = "count"
    /\ camCount' = [camCount EXCEPT ![JobCamera(j)] = @ + 1]
    /\ jobs' = [jobs EXCEPT ![j].at = "store"]
    /\ UNCHANGED <<lineVars, headVars, statusVars, camCar, loopVars, history>>

\* Mutant: an attempt not to store an older car that forgets the wrap.
JobStoreLarger(j) ==
    /\ jobs[j].at = "store"
    /\ camCar' = [camCar EXCEPT ![JobCamera(j)] =
                    IF CameraCar(JobCamera(j), jobs[j].snap) > @
                    THEN CameraCar(JobCamera(j), jobs[j].snap) ELSE @]
    /\ jobs' = [jobs EXCEPT ![j].at = IF JobCamera(j) < NumCameras THEN "count" ELSE "done",
                            ![j].next = @ + 1]
    /\ UNCHANGED <<lineVars, headVars, statusVars, camCount, loopVars, history>>

JobStore(j) ==
    /\ jobs[j].at = "store"
    /\ camCar' = [camCar EXCEPT ![JobCamera(j)] = CameraCar(JobCamera(j), jobs[j].snap)]
    /\ jobs' = [jobs EXCEPT ![j].at = IF JobCamera(j) < NumCameras THEN "count" ELSE "done",
                            ![j].next = @ + 1]
    /\ UNCHANGED <<lineVars, headVars, statusVars, camCount, loopVars, history>>

----------------------------------------------------------------------------
\* Mutant: a new head signal does not make carLoop read its time.
LoopHeadOnly ==
    /\ loop = "top"
    /\ copyHead' = heads
    /\ loop' = IF heads = 0 THEN "top" ELSE "compare"
    /\ UNCHANGED <<lineVars, headVars, jobs, statusVars, cameraVars,
                   copyOrigin, copyPassing, prev, copyPosition, lastVersion, history>>

\* carLoop: has the head car passed again?  Without any head signal it sleeps.
LoopHead ==
    /\ loop = "top"
    /\ copyHead' = heads
    /\ loop' = IF heads # copyHead THEN "headTime"
               ELSE IF heads = 0 THEN "top" ELSE "compare"
    /\ UNCHANGED <<lineVars, headVars, jobs, statusVars, cameraVars,
                   copyOrigin, copyPassing, prev, copyPosition, lastVersion, history>>

LoopHeadTime ==
    /\ loop = "headTime"
    /\ copyOrigin' = lastOrigin
    /\ loop' = "headPassing"
    /\ UNCHANGED <<lineVars, headVars, jobs, statusVars, cameraVars,
                   copyHead, copyPassing, prev, copyPosition, lastVersion, history>>

LoopHeadPassing ==
    /\ loop = "headPassing"
    /\ copyPassing' = loopPassing
    /\ loop' = "compare"
    /\ UNCHANGED <<lineVars, headVars, jobs, statusVars, cameraVars,
                   copyHead, copyOrigin, prev, copyPosition, lastVersion, history>>

\* Mutant: the time is not read again.
LoopCompareSkipsTime ==
    /\ loop = "compare"
    /\ loop' = IF version # lastVersion THEN "reload" ELSE "judge"
    /\ UNCHANGED <<lineVars, headVars, jobs, statusVars, cameraVars,
                   copyHead, copyOrigin, copyPassing, prev, copyPosition, lastVersion, history>>

\* Mutant: the versions are compared the wrong way round.
LoopCompareSwapped ==
    /\ loop = "compare"
    /\ loop' = IF lastVersion > version THEN "time" ELSE "judge"
    /\ UNCHANGED <<lineVars, headVars, jobs, statusVars, cameraVars,
                   copyHead, copyOrigin, copyPassing, prev, copyPosition, lastVersion, history>>

LoopCompare ==
    /\ loop = "compare"
    /\ loop' = IF version # lastVersion THEN "time" ELSE "judge"
    /\ UNCHANGED <<lineVars, headVars, jobs, statusVars, cameraVars,
                   copyHead, copyOrigin, copyPassing, prev, copyPosition, lastVersion, history>>

LoopTime ==
    /\ loop = "time"
    /\ prev' = lastStep
    /\ loop' = "reload"
    /\ UNCHANGED <<lineVars, headVars, jobs, statusVars, cameraVars,
                   copyHead, copyOrigin, copyPassing, copyPosition, lastVersion, history>>

\* Under the shared lock: the version again and the positions; either branch of
\* the code keeps the second version.
LoopReload ==
    /\ loop = "reload"
    /\ holder = 0
    /\ copyPosition' = position /\ lastVersion' = version
    /\ loop' = "passing"
    /\ UNCHANGED <<lineVars, headVars, jobs, statusVars, cameraVars,
                   copyHead, copyOrigin, copyPassing, prev, history>>

LoopPassing ==
    /\ loop = "passing"
    /\ copyPassing' = loopPassing
    /\ loop' = "judge"
    /\ UNCHANGED <<lineVars, headVars, jobs, statusVars, cameraVars,
                   copyHead, copyOrigin, prev, copyPosition, lastVersion, history>>

\* The time since the head signal fits the cars passed, or the round is skipped.
LoopJudge ==
    /\ loop = "judge"
    /\ loop' \in {"top", "check"}
    /\ UNCHANGED <<lineVars, headVars, jobs, statusVars, cameraVars,
                   copyHead, copyOrigin, copyPassing, prev, copyPosition, lastVersion, history>>

\* For every car: still the same round and the same positions?
LoopCheck ==
    /\ loop = "check"
    /\ loop' = IF heads = copyHead /\ version = lastVersion THEN "match" ELSE "top"
    /\ UNCHANGED <<lineVars, headVars, jobs, statusVars, cameraVars,
                   copyHead, copyOrigin, copyPassing, prev, copyPosition, lastVersion, history>>

\* The car's position and the time since prev decide on unloading; UnloadLoop
\* models what follows.
LoopMatch ==
    /\ loop = "match"
    /\ loop' \in {"check", "top"}
    /\ UNCHANGED <<lineVars, headVars, jobs, statusVars, cameraVars,
                   copyHead, copyOrigin, copyPassing, prev, copyPosition, lastVersion, history>>

----------------------------------------------------------------------------
MainStep == StepCount \/ StepTime \/ StepRun \/ HeadTime \/ HeadZero

JobStep(j) == \/ JobLock(j) \/ JobWrite(j) \/ JobUnlock(j) \/ JobAnnounce(j)
              \/ JobSnap(j) \/ JobCount(j) \/ JobStore(j)

LoopStep == \/ LoopHead \/ LoopHeadTime \/ LoopHeadPassing \/ LoopCompare \/ LoopTime
            \/ LoopPassing \/ LoopJudge \/ LoopCheck \/ LoopMatch

Next == \/ StepReceive \/ HeadReceive \/ MainStep
        \/ \E j \in Jobs : JobStep(j)
        \/ LoopStep \/ LoopReload

\* The threads run.  carStatusLock is held by one job at a time and briefly, and
\* jobs come at the pace of the belt: carLoop gets it in the end.  A round of
\* the loop over the cars ends.
Fairness ==
    /\ WF_vars(MainStep)
    /\ \A j \in Jobs : WF_vars(JobStep(j))
    /\ WF_vars(LoopStep) /\ SF_vars(LoopReload)
    /\ SF_vars(LoopMatch /\ loop' = "top")

Spec == Init /\ [][Next]_vars /\ Fairness

----------------------------------------------------------------------------
\* The jobs may run at the same time and read a number that changes under them;
\* but when all of them are done the positions are those of the last message,
\* whatever the messages before made of them, and every message has been announced
\* and counted once.  The car under a camera is that of the last message only if
\* no message came while an earlier job was under way: that job may store its car
\* after the later one.
QuietPositions ==
    Quiet /\ steps > 0 =>
        /\ \A c \in Cars : position[c] = Position(c, sent[steps])
        /\ version = steps
        /\ \A k \in Cameras : camCount[k] = steps
        /\ ~overlapped => \A k \in Cameras : camCar[k] = CameraCar(k, sent[steps])

\* carLoop's positions differ from the shared ones only while the version says
\* so or a job that wrote them is about to count it up.
CopyIsFresh ==
    lastVersion = version /\ version > 0 /\ copyPosition # position =>
        \E j \in Jobs : jobs[j].at \in {"writing", "announce"}

\* A position is announced only after the time of its step is stored, so the
\* time carLoop reads is not older than the announcement it follows.
TimeBeforeVersion ==
    /\ version <= lastStep
    /\ lastVersion > 0 /\ loop \notin {"time", "reload"} => prev > 0

\* As long as carLoop takes over each step before the next one comes, it works
\* with positions and a time of the same step.
InStepWithBelt ==
    loop = "match" /\ lastVersion > 0 /\ ~rushed =>
        /\ prev = lastVersion
        /\ \A c \in Cars : copyPosition[c] = Position(c, sent[prev])

\* The head signal is counted before its time is stored, so carLoop can see a new
\* count, take the old time and keep it for the round; the time it works with is
\* never more than one head signal older than the count.
HeadTimeLagsByOne ==
    loop \in {"compare", "judge", "check", "match"} => copyOrigin + 1 >= copyHead

\* Every step reaches carLoop: when the belt stands still after the last step,
\* carLoop works with its positions from some time on, once a head signal came.
PositionsReachLoop ==
    (steps = MaxSteps /\ heads > 0) ~>
        \A c \in Cars : copyPosition[c] = Position(c, sent[MaxSteps])
====
