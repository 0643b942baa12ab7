---- MODULE StepPositionProofs ----
(***************************************************************************)
(* Proofs about StepPosition for every number of cars, cameras, messages   *)
(* and threads of the pool: what jobs that run at the same time leave, and *)
(* what carLoop works with.                                                *)
(***************************************************************************)
EXTENDS StepPosition, FiniteSetTheorems, TLAPS

----------------------------------------------------------------------------
(***************************************************************************)
(* The inductive invariants.                                               *)
(***************************************************************************)
\* The handler of a step that has not started its job yet.
Stepping == main \in {"stepped", "stepCounted", "stepTimed"}

\* How far a job is with its loop over the cars and the one over the cameras.
NextOf(at) == CASE at \in {"none", "queued"} -> {1}
                [] at = "writing" -> 1 .. NumCars + 1
                [] at \in {"announce", "snap"} -> {NumCars + 1}
                [] at \in {"count", "store"} -> NumCars + 1 .. NumCars + NumCameras
                [] at = "done" -> {NumCars + NumCameras + 1}

\* Each message has one job, which works on the last number received.
JobInv ==
    /\ steps \in 0 .. MaxSteps /\ belt \in Nat
    /\ jobs \in [Jobs -> [at: JobSteps, next: Nat, snap: Int]]
    /\ \A j \in Jobs : jobs[j].next \in NextOf(jobs[j].at)
    /\ \A j \in Jobs : jobs[j].at = "none" <=> j > steps \/ (j = steps /\ Stepping)
    /\ passingCarNum \in Int /\ sent \in [0 .. MaxSteps -> Int] /\ passingCarNum = sent[steps]
    /\ main \in {"idle", "stepped", "stepCounted", "stepTimed", "headed", "headTimed"}

\* The counts say how many jobs got that far.
Announced == {j \in Jobs : jobs[j].at \in {"snap", "count", "store", "done"}}
Counted(k) ==
    {j \in Jobs : \/ jobs[j].at = "count" /\ jobs[j].next > NumCars + k
                  \/ jobs[j].at = "store" /\ jobs[j].next >= NumCars + k
                  \/ jobs[j].at = "done"}
CountInv ==
    /\ version = Cardinality(Announced)
    /\ camCount \in [Cameras -> Nat] /\ \A k \in Cameras : camCount[k] = Cardinality(Counted(k))

\* What the job of the last message has written is the position after that message,
\* whatever the jobs before it still write.
Written(j, c) == \/ jobs[j].at \in {"announce", "snap", "count", "store", "done"}
                 \/ jobs[j].at = "writing" /\ c < jobs[j].next
PositionInv ==
    /\ position = [c \in Cars |-> position[c]]
    /\ steps > 0 /\ ~Stepping =>
        \A c \in Cars : Written(steps, c) => position[c] = Position(c, sent[steps])

\* The same of the cameras, but only if no other job may still store its car.
Stored(j, k) == \/ jobs[j].at \in {"count", "store"} /\ jobs[j].next > NumCars + k
                \/ jobs[j].at = "done"
CameraInv ==
    /\ camCar = [k \in Cameras |-> camCar[k]]
    /\ ~overlapped => \A j \in Jobs : j < steps => jobs[j].at = "done"
    /\ steps > 0 /\ ~Stepping =>
        /\ jobs[steps].at \in {"count", "store", "done"} => jobs[steps].snap = sent[steps]
        /\ ~overlapped => \A k \in Cameras : Stored(steps, k) => camCar[k] = CameraCar(k, sent[steps])

\* carLoop never misses more than the last message unless it was rushed.
LoopInv ==
    /\ lastVersion \in Nat /\ lastVersion <= version /\ CopyIsFresh
    /\ main \notin {"stepped", "stepCounted"} => lastStep = steps
    /\ ~rushed =>
        /\ steps <= lastVersion + 1
        /\ loop \in {"time", "reload"} => version = steps /\ steps > 0
        /\ loop = "reload" => prev = steps
        /\ loop \notin {"time", "reload"} /\ lastVersion > 0 =>
            /\ prev = lastVersion
            /\ \A c \in Cars : copyPosition[c] = Position(c, sent[lastVersion])

\* The time of a head signal is stored right after its count.
HeadInv ==
    /\ heads \in Nat /\ lastOrigin \in Nat /\ copyHead \in Nat /\ copyOrigin \in Nat
    /\ lastOrigin = IF main = "headed" THEN heads - 1 ELSE heads
    /\ loop = "headTime" => copyHead <= lastOrigin + 1
    /\ loop # "headTime" => copyHead <= copyOrigin + 1

----------------------------------------------------------------------------
(***************************************************************************)
(* The head signals: nothing else takes part.                              *)
(***************************************************************************)
LEMMA HeadInductive == HeadInv /\ [Next]_vars => HeadInv'
<1> SUFFICES ASSUME HeadInv, [Next]_vars PROVE HeadInv'
  OBVIOUS
<1> USE DEF HeadInv, headVars, loopVars, lineVars
<1>1. CASE StepReceive
  BY <1>1 DEF StepReceive
<1>2. CASE StepCount \/ StepTime \/ StepRun
  BY <1>2 DEF StepCount, StepTime, StepRun
<1>3. CASE HeadReceive
  BY <1>3 DEF HeadReceive
<1>4. CASE HeadTime \/ HeadZero
  BY <1>4 DEF HeadTime, HeadZero
<1>5. ASSUME NEW j \in Jobs, JobStep(j) PROVE HeadInv'
  BY <1>5 DEF JobStep, JobLock, JobWrite, JobUnlock, JobAnnounce, JobSnap, JobCount, JobStore
<1>6. CASE LoopHead
  BY <1>6 DEF LoopHead
<1>7. CASE LoopHeadTime
  BY <1>7 DEF LoopHeadTime
<1>8. CASE LoopHeadPassing \/ LoopCompare \/ LoopTime \/ LoopPassing \/ LoopJudge \/ LoopCheck \/ LoopMatch
  BY <1>8 DEF LoopHeadPassing, LoopCompare, LoopTime, LoopPassing, LoopJudge, LoopCheck, LoopMatch
<1>9. CASE LoopReload
  BY <1>9 DEF LoopReload
<1>10. CASE UNCHANGED vars
  BY <1>10 DEF vars
<1> QED BY <1>1, <1>2, <1>3, <1>4, <1>5, <1>6, <1>7, <1>8, <1>9, <1>10 DEF Next, MainStep, LoopStep

\* devicemanager.cpp:617-633, 833-847: the time of the head car that carLoop works with
\* is never more than one head signal older than the count it saw, although it reads
\* the two one after the other without a lock.
THEOREM HeadTimeIsAlmostCurrent == Spec => []HeadTimeLagsByOne
<1>1. Init => HeadInv
  BY DEF Init, HeadInv
<1>2. HeadInv => HeadTimeLagsByOne
  BY DEF HeadInv, HeadTimeLagsByOne
<1> QED BY <1>1, <1>2, HeadInductive, PTL DEF Spec

----------------------------------------------------------------------------
(***************************************************************************)
(* The jobs.                                                               *)
(***************************************************************************)
LEMMA NumbersLemma == ASSUME NEW k \in Nat, NEW n \in {1, 2} PROVE Together(k, n) \in Int
<1>1. \A m \in Nat : CarsPassed(m) \in Int
  <2>1. \A a \in Nat : a % NumCars \in Int
    BY PositionAssumption
  <2>2. \A m \in Nat : m # 0 => m - 1 \in Nat
    OBVIOUS
  <2> QED BY <2>1, <2>2 DEF CarsPassed
<1> QED BY <1>1 DEF Together

\* The steps that say nothing of the jobs.
JobsRest ==
    /\ UNCHANGED <<steps, belt, jobs, passingCarNum, sent>>
    /\ main' = main \/ {main, main'} \subseteq {"idle", "headed", "headTimed"}
                    \/ {main, main'} \subseteq {"stepped", "stepCounted", "stepTimed"}
LEMMA JobsRestLemma ==
  ASSUME \/ StepCount \/ StepTime \/ HeadReceive \/ HeadTime \/ HeadZero \/ LoopStep \/ LoopReload
         \/ UNCHANGED vars
  PROVE  JobsRest
<1> USE DEF JobsRest, history, lineVars
<1>1. CASE StepCount \/ StepTime
  BY <1>1 DEF StepCount, StepTime
<1>2. CASE HeadReceive \/ HeadTime \/ HeadZero
  BY <1>2 DEF HeadReceive, HeadTime, HeadZero
<1>3. CASE LoopStep \/ LoopReload
  BY <1>3 DEF LoopStep, LoopHead, LoopHeadTime, LoopHeadPassing, LoopCompare, LoopTime, LoopPassing,
              LoopJudge, LoopCheck, LoopMatch, LoopReload
<1>4. CASE UNCHANGED vars
  BY <1>4 DEF vars
<1> QED BY <1>1, <1>2, <1>3, <1>4

\* What a job's step makes of it.
JobMove(j, at, next) ==
    /\ jobs' \in [Jobs -> [at: JobSteps, next: Nat, snap: Int]]
    /\ \A i \in Jobs \ {j} : jobs'[i] = jobs[i]
    /\ jobs'[j].at = at /\ jobs'[j].next = next
    /\ UNCHANGED <<lineVars, history>>
LEMMA JobMoveLemma ==
  ASSUME JobInv, NEW j \in Jobs
  PROVE  /\ JobLock(j) => jobs[j].at = "queued" /\ JobMove(j, "writing", 1)
         /\ JobWrite(j) => jobs[j].at = "writing" /\ jobs[j].next \in Cars
                           /\ JobMove(j, "writing", jobs[j].next + 1)
         /\ JobUnlock(j) => jobs[j].at = "writing" /\ jobs[j].next = NumCars + 1
                            /\ JobMove(j, "announce", NumCars + 1)
         /\ JobAnnounce(j) => jobs[j].at = "announce" /\ JobMove(j, "snap", NumCars + 1)
         /\ JobSnap(j) => jobs[j].at = "snap" /\ JobMove(j, "count", NumCars + 1)
                          /\ jobs'[j].snap = passingCarNum
         /\ JobCount(j) => jobs[j].at = "count" /\ JobMove(j, "store", jobs[j].next)
         /\ JobStore(j) => jobs[j].at = "store"
                           /\ JobMove(j, IF JobCamera(j) < NumCameras THEN "count" ELSE "done",
                                      jobs[j].next + 1)
         /\ JobStep(j) /\ ~JobSnap(j) => jobs'[j].snap = jobs[j].snap
<1>1. /\ jobs \in [Jobs -> [at: JobSteps, next: Nat, snap: Int]] /\ jobs[j].next \in NextOf(jobs[j].at)
      /\ jobs[j].next \in Nat /\ jobs[j].next + 1 \in Nat /\ passingCarNum \in Int
      /\ NumCars \in Nat /\ NumCameras \in Nat
  BY PositionAssumption DEF JobInv
<1> USE <1>1 DEF JobMove, JobSteps
<1>2. JobLock(j) => jobs[j].at = "queued" /\ JobMove(j, "writing", 1) /\ jobs'[j].snap = jobs[j].snap
  BY DEF JobLock, NextOf
<1>3. JobWrite(j) => jobs[j].at = "writing" /\ jobs[j].next \in Cars
                     /\ JobMove(j, "writing", jobs[j].next + 1) /\ jobs'[j].snap = jobs[j].snap
  BY DEF JobWrite
<1>4. JobUnlock(j) => jobs[j].at = "writing" /\ jobs[j].next = NumCars + 1
                      /\ JobMove(j, "announce", NumCars + 1) /\ jobs'[j].snap = jobs[j].snap
  BY DEF JobUnlock, NextOf
<1>5. JobAnnounce(j) => jobs[j].at = "announce" /\ JobMove(j, "snap", NumCars + 1)
                        /\ jobs'[j].snap = jobs[j].snap
  BY DEF JobAnnounce, NextOf
<1>6. JobSnap(j) => jobs[j].at = "snap" /\ JobMove(j, "count", NumCars + 1) /\ jobs'[j].snap = passingCarNum
  <2>1. SUFFICES ASSUME JobSnap(j)
                 PROVE  /\ jobs[j].at = "snap" /\ JobMove(j, "count", NumCars + 1)
                        /\ jobs'[j].snap = passingCarNum
    OBVIOUS
  <2>2. jobs' = [jobs EXCEPT ![j] = [jobs[j] EXCEPT !.at = "count", !.snap = passingCarNum]]
    BY <2>1 DEF JobSnap
  <2>3. jobs[j].at = "snap" /\ jobs[j].next = NumCars + 1
    BY <2>1 DEF JobSnap, NextOf
  <2> QED BY <2>1, <2>2, <2>3 DEF JobSnap
<1>7. JobCount(j) => jobs[j].at = "count" /\ JobMove(j, "store", jobs[j].next) /\ jobs'[j].snap = jobs[j].snap
  BY DEF JobCount
<1>8. JobStore(j) => jobs[j].at = "store" /\ jobs'[j].snap = jobs[j].snap
                     /\ JobMove(j, IF JobCamera(j) < NumCameras THEN "count" ELSE "done", jobs[j].next + 1)
  BY DEF JobStore
<1> HIDE DEF JobMove
<1> QED BY <1>2, <1>3, <1>4, <1>5, <1>6, <1>7, <1>8 DEF JobStep

LEMMA JobInductive == JobInv /\ [Next]_vars => JobInv'
<1> SUFFICES ASSUME JobInv, [Next]_vars PROVE JobInv'
  OBVIOUS
<1>0. NumCars \in Nat \ {0} /\ NumCameras \in Nat \ {0} /\ MaxSteps \in Nat /\ Jobs = 1 .. MaxSteps
  BY PositionAssumption DEF Jobs
<1>1. CASE JobsRest
  BY <1>1 DEF JobsRest, JobInv, Stepping
<1>2. CASE StepReceive
  <2>1. PICK n \in {1, 2} : belt' = belt + n /\ passingCarNum' = Together(belt, n)
    BY <1>2 DEF StepReceive
  <2>2. belt' \in Nat /\ passingCarNum' \in Int
    BY <2>1, NumbersLemma, SMTT(30) DEF JobInv
  <2>3. steps' = steps + 1 /\ steps' \in 1 .. MaxSteps
    BY <1>0, <1>2 DEF StepReceive, JobInv
  <2>4. sent' = [sent EXCEPT ![steps'] = passingCarNum'] /\ main = "idle" /\ main' = "stepped" /\ jobs' = jobs
    BY <1>2, <2>3 DEF StepReceive
  <2>5. sent' \in [0 .. MaxSteps -> Int] /\ sent'[steps'] = passingCarNum'
    BY <2>2, <2>3, <2>4, <1>0 DEF JobInv
  <2>6. \A j \in Jobs : jobs'[j].at = "none" <=> j > steps' \/ (j = steps' /\ Stepping')
    BY <1>0, <2>3, <2>4 DEF JobInv, Stepping
  <2> QED BY <2>2, <2>3, <2>4, <2>5, <2>6 DEF JobInv
<1>3. CASE StepRun
  <2>1. /\ main = "stepTimed" /\ main' = "idle" /\ steps' = steps /\ sent' = sent /\ belt' = belt
        /\ passingCarNum' = passingCarNum /\ jobs' = [jobs EXCEPT ![steps].at = "queued"]
    BY <1>3 DEF StepRun, history
  <2>2. \A i \in Jobs : /\ jobs'[i].next = jobs[i].next
                        /\ jobs'[i].at = IF i = steps THEN "queued" ELSE jobs[i].at
        /\ jobs' \in [Jobs -> [at: JobSteps, next: Nat, snap: Int]]
    BY <2>1 DEF JobInv, JobSteps
  <2>3. \A i \in Jobs : i = steps => jobs[i].at = "none"
    BY <2>1 DEF JobInv, Stepping
  <2>4. \A i \in Jobs : jobs'[i].next \in NextOf(jobs'[i].at)
    BY <2>2, <2>3, ZenonT(60) DEF JobInv, NextOf
  <2>5. \A i \in Jobs : jobs'[i].at = "none" <=> i > steps
    BY <1>0, <2>1, <2>2 DEF JobInv, Stepping
  <2> QED BY <2>1, <2>2, <2>4, <2>5 DEF JobInv, Stepping
<1>4. ASSUME NEW j \in Jobs, JobStep(j) PROVE JobInv'
  <2>1. ASSUME NEW at \in JobSteps \ {"none"}, NEW next \in NextOf(at), JobMove(j, at, next), jobs[j].at # "none"
        PROVE  JobInv'
    BY <2>1 DEF JobMove, JobInv, lineVars, history, Stepping
  <2>2. jobs[j].next \in NextOf(jobs[j].at) /\ jobs[j].next \in Nat
    BY DEF JobInv
  <2>3. \A at \in JobSteps \ {"none"} : \A next \in NextOf(at) :
           JobMove(j, at, next) /\ jobs[j].at # "none" => JobInv'
    BY <2>1
  <2> USE <1>0, <2>2, <2>3, JobMoveLemma DEF JobSteps, NextOf
  <2>4. CASE JobLock(j)
    BY <2>4
  <2>5. CASE JobWrite(j)
    BY <2>5 DEF Cars
  <2>6. CASE JobUnlock(j) \/ JobAnnounce(j)
    BY <2>6
  <2>7. CASE JobSnap(j)
    BY <2>7
  <2>8. CASE JobCount(j)
    BY <2>8
  <2>9. CASE JobStore(j)
    <3>1. jobs[j].next \in NumCars + 1 .. NumCars + NumCameras /\ jobs[j].at = "store"
      BY <2>9
    <3>2. CASE jobs[j].next - NumCars < NumCameras
      <4>1. jobs[j].next + 1 \in NextOf("count") /\ JobMove(j, "count", jobs[j].next + 1)
        BY <2>9, <3>1, <3>2 DEF JobCamera
      <4> QED BY <3>1, <4>1
    <3>3. CASE ~(jobs[j].next - NumCars < NumCameras)
      <4>1. jobs[j].next + 1 \in NextOf("done") /\ JobMove(j, "done", jobs[j].next + 1)
        BY <2>9, <3>1, <3>3, SMTT(30) DEF JobCamera
      <4> QED BY <3>1, <4>1
    <3> QED BY <3>2, <3>3
  <2> HIDE DEF JobSteps, NextOf
  <2> QED BY <1>4, <2>4, <2>5, <2>6, <2>7, <2>8, <2>9 DEF JobStep
<1> QED BY <1>1, <1>2, <1>3, <1>4, JobsRestLemma DEF Next, MainStep

LEMMA JobInitially == Init => JobInv
<1> SUFFICES ASSUME Init PROVE JobInv
  OBVIOUS
<1>1. jobs = [j \in Jobs |-> [at |-> "none", next |-> 1, snap |-> 0]]
  BY DEF Init
<1>2. jobs \in [Jobs -> [at: JobSteps, next: Nat, snap: Int]]
  BY <1>1 DEF JobSteps
<1>3. \A j \in Jobs : jobs[j].at = "none" /\ jobs[j].next = 1 /\ j > 0
  BY <1>1, PositionAssumption DEF Jobs
<1>4. 0 \in 0 .. MaxSteps
  BY PositionAssumption
<1> QED BY <1>2, <1>3, <1>4 DEF Init, JobInv, NextOf

----------------------------------------------------------------------------
(***************************************************************************)
(* What is counted.                                                        *)
(***************************************************************************)
LEMMA FiniteLemma ==
  /\ IsFiniteSet(Announced) /\ Cardinality(Announced) \in Nat
  /\ \A k \in Cameras : IsFiniteSet(Counted(k)) /\ Cardinality(Counted(k)) \in Nat
<1>1. IsFiniteSet(Jobs)
  BY PositionAssumption, FS_Interval DEF Jobs
<1>2. Announced \subseteq Jobs /\ \A k : Counted(k) \subseteq Jobs
  BY DEF Announced, Counted
<1> QED BY <1>1, <1>2, FS_Subset, FS_CardinalityType

\* A step that takes no job over one of the borders that are counted.
NotCounted ==
    /\ UNCHANGED <<version, camCount>>
    /\ \A j \in Jobs : j \in Announced' <=> j \in Announced
    /\ \A j \in Jobs, k \in Cameras : j \in Counted(k)' <=> j \in Counted(k)
LEMMA NotCountedLemma == CountInv /\ NotCounted => CountInv'
<1> SUFFICES ASSUME CountInv, NotCounted PROVE CountInv'
  OBVIOUS
<1>1. Announced' = Announced
  BY DEF NotCounted, Announced
<1>2. \A k \in Cameras : Counted(k)' = Counted(k)
  BY DEF NotCounted, Counted
<1> HIDE DEF Announced, Counted
<1> QED BY <1>1, <1>2 DEF CountInv, NotCounted

LEMMA CountInductive == JobInv /\ CountInv /\ [Next]_vars => CountInv'
<1> SUFFICES ASSUME JobInv, CountInv, [Next]_vars PROVE CountInv'
  OBVIOUS
<1>0. NumCars \in Nat \ {0} /\ NumCameras \in Nat \ {0} /\ Cameras = 1 .. NumCameras /\ Jobs = 1 .. MaxSteps
      /\ MaxSteps \in Nat
  BY PositionAssumption DEF Jobs, Cameras
<1>1. CASE jobs' = jobs /\ UNCHANGED <<version, camCount>>
  <2>1. NotCounted
    BY <1>1 DEF NotCounted, Announced, Counted
  <2> QED BY <2>1, NotCountedLemma
<1>2. CASE StepReceive \/ StepCount \/ StepTime \/ HeadReceive \/ HeadTime \/ HeadZero
  <2>1. jobs' = jobs /\ UNCHANGED <<version, camCount>>
    BY <1>2 DEF StepReceive, StepCount, StepTime, HeadReceive, HeadTime, HeadZero, statusVars, cameraVars
  <2> QED BY <1>1, <2>1
<1>3. CASE StepRun
  <2>1. UNCHANGED <<version, camCount>>
    BY <1>3 DEF StepRun, statusVars, cameraVars
  <2>2. main = "stepTimed" /\ jobs' = [jobs EXCEPT ![steps].at = "queued"]
    BY <1>3 DEF StepRun
  <2>3. \A i \in Jobs : i # steps => jobs'[i] = jobs[i]
    BY <2>2 DEF JobInv
  <2>4. \A i \in Jobs : i = steps => jobs[i].at = "none" /\ jobs'[i].at = "queued"
    BY <2>2 DEF JobInv, Stepping
  <2>5. NotCounted
    BY <2>1, <2>3, <2>4 DEF NotCounted, Announced, Counted
  <2> QED BY <2>5, NotCountedLemma
<1>4. CASE LoopStep \/ LoopReload
  <2>1. jobs' = jobs /\ UNCHANGED <<version, camCount>>
    BY <1>4 DEF LoopStep, LoopHead, LoopHeadTime, LoopHeadPassing, LoopCompare, LoopTime, LoopPassing,
                LoopJudge, LoopCheck, LoopMatch, LoopReload, statusVars, cameraVars
  <2> QED BY <1>1, <2>1
<1>5. CASE UNCHANGED vars
  <2>1. jobs' = jobs /\ UNCHANGED <<version, camCount>>
    BY <1>5 DEF vars, statusVars, cameraVars
  <2> QED BY <1>1, <2>1
<1>6. ASSUME NEW j \in Jobs, JobStep(j) PROVE CountInv'
  <2>1. jobs[j].next \in NextOf(jobs[j].at) /\ jobs[j].next \in Nat
    BY DEF JobInv
  <2>2. \A i \in Jobs \ {j} : jobs'[i] = jobs[i]
    BY <1>6, JobMoveLemma DEF JobMove, JobStep
  <2>3. CASE JobLock(j) \/ JobWrite(j) \/ JobUnlock(j)
    <3>1. /\ jobs[j].at \in {"queued", "writing"} /\ jobs'[j].at \in {"writing", "announce"}
          /\ UNCHANGED <<version, camCount>>
      BY <2>3, JobMoveLemma DEF JobMove, JobLock, JobWrite, JobUnlock, cameraVars
    <3>2. NotCounted
      BY <2>2, <3>1 DEF NotCounted, Announced, Counted
    <3> QED BY <3>2, NotCountedLemma
  <2>4. CASE JobAnnounce(j)
    <3>1. /\ jobs[j].at = "announce" /\ jobs'[j].at = "snap"
          /\ version' = version + 1 /\ camCount' = camCount
      BY <2>4, JobMoveLemma DEF JobMove, JobAnnounce, cameraVars
    <3>2. Announced' = Announced \cup {j} /\ j \notin Announced
      BY <2>2, <3>1 DEF Announced
    <3>3. Cardinality(Announced') = Cardinality(Announced) + 1
      BY <3>2, FiniteLemma, FS_AddElement
    <3>4. \A k \in Cameras : Counted(k)' = Counted(k)
      BY <2>2, <3>1 DEF Counted
    <3> QED BY <3>1, <3>3, <3>4 DEF CountInv
  <2>5. CASE JobSnap(j)
    <3>1. /\ jobs[j].at = "snap" /\ jobs'[j].at = "count" /\ jobs'[j].next = NumCars + 1
          /\ UNCHANGED <<version, camCount>>
      BY <2>5, JobMoveLemma DEF JobMove, JobSnap, cameraVars, statusVars
    <3>2. NotCounted
      BY <1>0, <2>2, <3>1 DEF NotCounted, Announced, Counted
    <3> QED BY <3>2, NotCountedLemma
  <2>6. CASE JobCount(j)
    <3>0. jobs[j].at = "count" /\ jobs[j].next \in NumCars + 1 .. NumCars + NumCameras
      BY <2>1, <2>6 DEF JobCount, NextOf
    <3>k. PICK k \in Cameras : k = JobCamera(j) /\ jobs[j].next = NumCars + k
      BY <1>0, <3>0 DEF JobCamera
    <3>1. /\ jobs[j].at = "count" /\ jobs'[j].at = "store" /\ jobs'[j].next = jobs[j].next
          /\ version' = version /\ camCount' = [camCount EXCEPT ![k] = @ + 1]
      BY <2>6, <3>k, JobMoveLemma DEF JobMove, JobCount, statusVars
    <3>2. k \in Cameras /\ jobs[j].next = NumCars + k
      BY <3>k
    <3>3. Announced' = Announced
      BY <2>2, <3>1 DEF Announced
    <3>4. Counted(k)' = Counted(k) \cup {j} /\ j \notin Counted(k)
      BY <1>0, <2>2, <3>1, <3>2 DEF Counted
    <3>5. \A l \in Cameras : l # k => Counted(l)' = Counted(l)
      BY <1>0, <2>2, <3>1, <3>2, SMTT(30) DEF Counted
    <3>6. Cardinality(Counted(k)') = Cardinality(Counted(k)) + 1
      BY <3>2, <3>4, FiniteLemma, FS_AddElement
    <3>7. \A l \in Cameras : Cardinality(Counted(l))' = camCount'[l]
      <4>1. ASSUME NEW l \in Cameras PROVE Cardinality(Counted(l)') = camCount'[l]
        <5>1. CASE l = k
          BY <3>1, <3>2, <3>6, <5>1 DEF CountInv
        <5>2. CASE l # k
          BY <3>1, <3>2, <3>5, <5>2 DEF CountInv
        <5> QED BY <5>1, <5>2
      <4> QED BY <4>1
    <3>8. camCount' \in [Cameras -> Nat]
      BY <3>1, <3>2 DEF CountInv
    <3> QED BY <3>1, <3>3, <3>7, <3>8 DEF CountInv
  <2>7. CASE JobStore(j)
    <3>1. /\ jobs[j].at = "store" /\ jobs'[j].next = jobs[j].next + 1
          /\ jobs'[j].at = IF jobs[j].next - NumCars < NumCameras THEN "count" ELSE "done"
          /\ UNCHANGED <<version, camCount>>
      BY <2>7, JobMoveLemma DEF JobMove, JobStore, statusVars, JobCamera
    <3>2. jobs[j].next \in NumCars + 1 .. NumCars + NumCameras
      BY <2>1, <3>1 DEF NextOf
    <3>3. \A i \in Jobs : i \in Announced' <=> i \in Announced
      BY <2>2, <3>1 DEF Announced
    <3>4. \A i \in Jobs, l \in Cameras : i \in Counted(l)' <=> i \in Counted(l)
      <4>1. SUFFICES ASSUME NEW i \in Jobs, NEW l \in Cameras
                     PROVE  i \in Counted(l)' <=> i \in Counted(l)
        OBVIOUS
      <4>2. CASE i # j
        BY <2>2, <4>2 DEF Counted
      <4>3. CASE i = j
        BY <1>0, <3>1, <3>2, <4>3, SMTT(30) DEF Counted
      <4> QED BY <4>2, <4>3
    <3>5. NotCounted
      BY <3>1, <3>3, <3>4 DEF NotCounted
    <3> QED BY <3>5, NotCountedLemma
  <2> QED BY <1>6, <2>3, <2>4, <2>5, <2>6, <2>7 DEF JobStep
<1> QED BY <1>2, <1>3, <1>4, <1>5, <1>6 DEF Next, MainStep

LEMMA CountInitially == Init => CountInv
<1> SUFFICES ASSUME Init PROVE CountInv
  OBVIOUS
<1>1. \A j \in Jobs : jobs[j].at = "none"
  BY DEF Init
<1>2. Announced = {} /\ \A k \in Cameras : Counted(k) = {}
  BY <1>1 DEF Announced, Counted
<1>3. camCount \in [Cameras -> Nat] /\ \A k \in Cameras : camCount[k] = 0
  BY DEF Init
<1> QED BY <1>2, <1>3, FS_EmptySet DEF Init, CountInv

\* What the counts say.
LEMMA VersionLemma ==
  ASSUME JobInv, CountInv
  PROVE  /\ version \in Nat /\ version <= steps
         /\ version = steps => \A j \in Jobs : j <= steps => j \in Announced
<1>1. Announced \subseteq 1 .. steps
  BY PositionAssumption, SMTT(30) DEF Announced, JobInv, Jobs
<1>2. IsFiniteSet(1 .. steps) /\ Cardinality(1 .. steps) = steps
  BY FS_Interval DEF JobInv
<1>3. Cardinality(Announced) <= steps /\ (Cardinality(Announced) = steps => Announced = 1 .. steps)
  BY <1>1, <1>2, FS_Subset, FS_CardinalityType
<1>4. \A j \in Jobs : j <= steps => j \in 1 .. steps
  BY PositionAssumption DEF Jobs, JobInv
<1> QED BY <1>3, <1>4, FiniteLemma DEF CountInv

----------------------------------------------------------------------------
(***************************************************************************)
(* What the jobs leave.                                                    *)
(***************************************************************************)
LEMMA PositionInductive == JobInv /\ PositionInv /\ [Next]_vars => PositionInv'
<1> SUFFICES ASSUME JobInv, PositionInv, [Next]_vars PROVE PositionInv'
  OBVIOUS
<1>0. NumCars \in Nat \ {0} /\ MaxSteps \in Nat /\ Jobs = 1 .. MaxSteps /\ Cars = 1 .. NumCars
  BY PositionAssumption DEF Jobs, Cars
<1>1. CASE UNCHANGED <<position, jobs, steps, sent>> /\ (Stepping' \/ ~Stepping)
  BY <1>1 DEF PositionInv, Written
<1>2. CASE StepReceive
  BY <1>2 DEF StepReceive, statusVars, PositionInv, Stepping
<1>3. CASE StepCount \/ StepTime \/ HeadReceive \/ HeadTime \/ HeadZero
  <2>1. UNCHANGED <<position, jobs, steps, sent>> /\ (Stepping' \/ ~Stepping)
    BY <1>3 DEF StepCount, StepTime, HeadReceive, HeadTime, HeadZero, statusVars, history, Stepping
  <2> QED BY <1>1, <2>1
<1>4. CASE StepRun
  <2>1. /\ UNCHANGED <<position, steps, sent>> /\ jobs' = [jobs EXCEPT ![steps].at = "queued"]
    BY <1>4 DEF StepRun, statusVars, history
  <2>2. steps > 0 => jobs'[steps].at = "queued"
    BY <1>0, <2>1 DEF JobInv
  <2>3. \A c \in Cars : steps > 0 => ~Written(steps, c)'
    BY <2>1, <2>2 DEF Written
  <2> QED BY <2>1, <2>3 DEF PositionInv
<1>5. CASE LoopStep \/ LoopReload \/ UNCHANGED vars
  <2>1. UNCHANGED <<position, jobs, steps, sent, main>>
    BY <1>5 DEF LoopStep, LoopHead, LoopHeadTime, LoopHeadPassing, LoopCompare, LoopTime, LoopPassing,
                LoopJudge, LoopCheck, LoopMatch, LoopReload, statusVars, lineVars, history, vars
  <2> QED BY <1>1, <2>1 DEF Stepping
<1>6. ASSUME NEW j \in Jobs, JobStep(j) PROVE PositionInv'
  <2>1. jobs[j].next \in NextOf(jobs[j].at) /\ jobs[j].next \in Nat
    BY DEF JobInv
  <2>2. /\ \A i \in Jobs \ {j} : jobs'[i] = jobs[i]
        /\ UNCHANGED <<steps, sent, main, passingCarNum>>
    BY <1>6, JobMoveLemma DEF JobMove, JobStep, lineVars, history
  <2>3. steps > 0 => steps \in Jobs
    BY <1>0 DEF JobInv
  <2>4. CASE JobWrite(j)
    <3>1. PICK d \in Cars : /\ jobs[j].at = "writing" /\ d = jobs[j].next
                            /\ jobs'[j].at = "writing" /\ jobs'[j].next = d + 1
                            /\ position' = [position EXCEPT ![d] = Position(d, passingCarNum)]
      BY <2>4, JobMoveLemma DEF JobMove, JobWrite
    <3>2. /\ position' = [c \in Cars |-> position'[c]]
          /\ position'[d] = Position(d, sent[steps])
          /\ \A c \in Cars : c # d => position'[c] = position[c]
      BY <3>1 DEF PositionInv, JobInv
    <3>3. \A c \in Cars : c # d /\ steps > 0 /\ Written(steps, c)' => Written(steps, c)
      BY <1>0, <2>1, <2>2, <2>3, <3>1 DEF Written
    <3>4. Stepping' <=> Stepping
      BY <2>2 DEF Stepping
    <3> HIDE DEF Stepping, Written
    <3> QED BY <2>2, <3>2, <3>3, <3>4 DEF PositionInv
  <2>5. CASE ~JobWrite(j)
    <3>1. position' = position
      BY <1>6, <2>5 DEF JobStep, JobLock, JobUnlock, JobAnnounce, JobSnap, JobCount, JobStore, statusVars
    <3>2. \A c \in Cars : Written(j, c)' => Written(j, c)
      <4>1. CASE JobLock(j)
        BY <1>0, <4>1, JobMoveLemma DEF JobMove, Written
      <4>2. CASE JobUnlock(j)
        BY <1>0, <4>2, JobMoveLemma DEF JobMove, Written
      <4>3. CASE JobAnnounce(j) \/ JobSnap(j) \/ JobCount(j) \/ JobStore(j)
        BY <4>3, JobMoveLemma DEF Written
      <4> QED BY <1>6, <2>5, <4>1, <4>2, <4>3 DEF JobStep
    <3>3. \A c \in Cars : steps > 0 /\ Written(steps, c)' => Written(steps, c)
      BY <2>2, <2>3, <3>2 DEF Written
    <3>4. Stepping' <=> Stepping
      BY <2>2 DEF Stepping
    <3> HIDE DEF Stepping, Written
    <3> QED BY <2>2, <3>1, <3>3, <3>4 DEF PositionInv
  <2> QED BY <2>4, <2>5
<1> QED BY <1>2, <1>3, <1>4, <1>5, <1>6 DEF Next, MainStep

LEMMA CameraInductive == JobInv /\ CameraInv /\ [Next]_vars => CameraInv'
<1> SUFFICES ASSUME JobInv, CameraInv, [Next]_vars PROVE CameraInv'
  OBVIOUS
<1>0. NumCars \in Nat \ {0} /\ NumCameras \in Nat \ {0} /\ MaxSteps \in Nat /\ Jobs = 1 .. MaxSteps
      /\ Cameras = 1 .. NumCameras
  BY PositionAssumption DEF Jobs, Cameras
<1>1. CASE UNCHANGED <<camCar, jobs, steps, sent, overlapped>> /\ (Stepping' \/ ~Stepping)
  BY <1>1 DEF CameraInv, Stored
<1>2. CASE StepReceive
  <2>1. /\ camCar' = camCar /\ jobs' = jobs /\ steps' = steps + 1 /\ Stepping'
        /\ ~overlapped' => ~overlapped /\ Quiet
    <3>1. ~overlapped' => ~overlapped /\ Quiet
      BY <1>2, Zenon DEF StepReceive
    <3> QED BY <1>2, <3>1 DEF StepReceive, cameraVars, Stepping
  <2>2. ASSUME Quiet, NEW j \in Jobs, j < steps + 1 PROVE jobs[j].at = "done"
    BY <1>0, <2>2 DEF Quiet, JobInv, Stepping
  <2> QED BY <2>1, <2>2 DEF CameraInv
<1>3. CASE StepCount \/ StepTime \/ HeadReceive \/ HeadTime \/ HeadZero
  <2>1. UNCHANGED <<camCar, jobs, steps, sent, overlapped>> /\ (Stepping' \/ ~Stepping)
    BY <1>3 DEF StepCount, StepTime, HeadReceive, HeadTime, HeadZero, cameraVars, history, Stepping
  <2> QED BY <1>1, <2>1
<1>4. CASE StepRun
  <2>1. /\ UNCHANGED <<camCar, steps, sent, overlapped>> /\ jobs' = [jobs EXCEPT ![steps].at = "queued"]
    BY <1>4 DEF StepRun, cameraVars, history
  <2>2. steps > 0 => jobs'[steps].at = "queued"
    BY <1>0, <2>1 DEF JobInv
  <2>3. \A k \in Cameras : steps > 0 => ~Stored(steps, k)'
    BY <2>1, <2>2 DEF Stored
  <2>4. \A i \in Jobs : i < steps => jobs'[i] = jobs[i]
    BY <2>1 DEF JobInv
  <2> QED BY <2>1, <2>2, <2>3, <2>4 DEF CameraInv
<1>5. CASE LoopStep \/ LoopReload \/ UNCHANGED vars
  <2>1. UNCHANGED <<camCar, jobs, steps, sent, overlapped, main>>
    BY <1>5 DEF LoopStep, LoopHead, LoopHeadTime, LoopHeadPassing, LoopCompare, LoopTime, LoopPassing,
                LoopJudge, LoopCheck, LoopMatch, LoopReload, cameraVars, lineVars, history, vars
  <2> QED BY <1>1, <2>1 DEF Stepping
<1>6. ASSUME NEW j \in Jobs, JobStep(j) PROVE CameraInv'
  <2>1. jobs[j].next \in NextOf(jobs[j].at) /\ jobs[j].next \in Nat /\ jobs[j].at # "none"
    BY <1>6, JobMoveLemma DEF JobInv, JobStep
  <2>2. /\ \A i \in Jobs \ {j} : jobs'[i] = jobs[i]
        /\ UNCHANGED <<steps, sent, main, passingCarNum, overlapped>>
    BY <1>6, JobMoveLemma DEF JobMove, JobStep, lineVars, history
  <2>3. steps \in 0 .. MaxSteps /\ (steps > 0 => steps \in Jobs) /\ passingCarNum = sent[steps]
    BY <1>0 DEF JobInv
  <2>4. ~overlapped => j = steps \/ jobs[j].at = "done"
    BY <1>0, <2>1, <2>3 DEF JobInv, CameraInv
  <2>5. ~overlapped => j = steps
    BY <1>6, <2>4, JobMoveLemma DEF JobStep
  <2>6. ~overlapped' => \A i \in Jobs : i < steps' => jobs'[i].at = "done"
    BY <1>0, <2>2, <2>5 DEF CameraInv
  <2>7. steps > 0 /\ ~Stepping =>
           (jobs'[steps].at \in {"count", "store", "done"} => jobs'[steps].snap = sent[steps])
    <3>1. CASE JobSnap(j)
      BY <2>2, <2>3, <3>1, JobMoveLemma DEF CameraInv
    <3>2. CASE ~JobSnap(j)
      <4>1. jobs'[j].snap = jobs[j].snap
        BY <1>6, <3>2, JobMoveLemma
      <4>2. jobs'[j].at \in {"count", "store", "done"} => jobs[j].at \in {"count", "store"}
        BY <1>6, <3>2, JobMoveLemma DEF JobStep, JobMove
      <4> QED BY <2>2, <2>3, <4>1, <4>2 DEF CameraInv
    <3> QED BY <3>1, <3>2
  <2>8. CASE JobStore(j)
    <3>1. PICK k \in Cameras : k = JobCamera(j) /\ jobs[j].next = NumCars + k /\ jobs[j].at = "store"
      BY <1>0, <2>1, <2>8 DEF JobStore, JobCamera, NextOf
    <3>2. /\ camCar' = [camCar EXCEPT ![k] = CameraCar(k, jobs[j].snap)]
          /\ jobs'[j].next = NumCars + k + 1 /\ jobs'[j].at = IF k < NumCameras THEN "count" ELSE "done"
      BY <2>8, <3>1, JobMoveLemma DEF JobStore, JobMove
    <3>3. /\ camCar' = [l \in Cameras |-> camCar'[l]]
          /\ \A l \in Cameras : camCar'[l] = IF l = k THEN CameraCar(k, jobs[j].snap) ELSE camCar[l]
      BY <3>2 DEF CameraInv
    <3>4. \A l \in Cameras : l # k /\ Stored(j, l)' => Stored(j, l)
      BY <1>0, <3>1, <3>2 DEF Stored
    <3>5. steps > 0 /\ ~Stepping /\ ~overlapped =>
             \A l \in Cameras : Stored(steps, l)' => camCar'[l] = CameraCar(l, sent[steps])
      <4>1. SUFFICES ASSUME steps > 0, ~Stepping, ~overlapped, NEW l \in Cameras, Stored(steps, l)'
                     PROVE  camCar'[l] = CameraCar(l, sent[steps])
        BY <2>2
      <4>2. j = steps /\ jobs[j].snap = sent[steps]
        BY <2>5, <3>1, <4>1 DEF CameraInv
      <4>3. CASE l = k
        BY <3>3, <4>2, <4>3
      <4>4. CASE l # k
        <5>1. Stored(steps, l)
          BY <2>2, <3>4, <4>1, <4>2, <4>4
        <5>2. camCar[l] = CameraCar(l, sent[steps])
          BY <4>1, <5>1 DEF CameraInv
        <5> QED BY <3>3, <4>4, <5>2
      <4> QED BY <4>3, <4>4
    <3>6. Stepping' <=> Stepping
      BY <2>2 DEF Stepping
    <3> QED BY <2>2, <2>6, <2>7, <3>3, <3>5, <3>6 DEF CameraInv
  <2>9. CASE ~JobStore(j)
    <3>1. camCar' = camCar
      BY <1>6, <2>9 DEF JobStep, JobLock, JobWrite, JobUnlock, JobAnnounce, JobSnap, JobCount, cameraVars
    <3>2. \A l \in Cameras : Stored(j, l)' => Stored(j, l)
      <4>1. CASE JobLock(j) \/ JobWrite(j) \/ JobUnlock(j) \/ JobAnnounce(j)
        BY <4>1, JobMoveLemma DEF JobMove, Stored
      <4>2. CASE JobSnap(j)
        BY <1>0, <4>2, JobMoveLemma DEF JobMove, Stored
      <4>3. CASE JobCount(j)
        BY <4>3, JobMoveLemma DEF JobMove, Stored
      <4> QED BY <1>6, <2>9, <4>1, <4>2, <4>3 DEF JobStep
    <3>3. \A l \in Cameras : steps > 0 /\ Stored(steps, l)' => Stored(steps, l)
      BY <2>2, <2>3, <3>2 DEF Stored
    <3>4. Stepping' <=> Stepping
      BY <2>2 DEF Stepping
    <3> HIDE DEF Stored
    <3> QED BY <2>2, <2>6, <2>7, <3>1, <3>3, <3>4 DEF CameraInv
  <2> QED BY <2>8, <2>9
<1> QED BY <1>2, <1>3, <1>4, <1>5, <1>6 DEF Next, MainStep

----------------------------------------------------------------------------
(***************************************************************************)
(* What carLoop works with.                                                *)
(***************************************************************************)
\* When the version is that of the last message, its job has written everything.
LEMMA CurrentLemma ==
  ASSUME JobInv, CountInv, PositionInv, version = steps, steps > 0
  PROVE  /\ ~Stepping
         /\ \A c \in Cars : position[c] = Position(c, sent[steps])
<1>1. steps \in Jobs
  BY PositionAssumption DEF JobInv, Jobs
<1>2. jobs[steps].at \in {"snap", "count", "store", "done"}
  BY <1>1, VersionLemma DEF Announced, JobInv
<1>3. ~Stepping
  BY <1>1, <1>2 DEF JobInv
<1> QED BY <1>2, <1>3 DEF PositionInv, Written

\* The steps of the jobs and of the main thread that do not announce anything leave
\* what carLoop has.
LEMMA FreshLemma ==
  ASSUME CopyIsFresh, UNCHANGED <<copyPosition, lastVersion, version>>,
         position' = position \/ \E j \in Jobs : jobs'[j].at \in {"writing", "announce"},
         \A j \in Jobs : jobs[j].at \in {"writing", "announce"} => jobs'[j].at \in {"writing", "announce"}
  PROVE  CopyIsFresh'
BY DEF CopyIsFresh

LEMMA LoopInductive == JobInv /\ CountInv /\ PositionInv /\ LoopInv /\ [Next]_vars => LoopInv'
<1> SUFFICES ASSUME JobInv, CountInv, PositionInv, LoopInv, [Next]_vars PROVE LoopInv'
  OBVIOUS
<1>0. /\ steps \in 0 .. MaxSteps /\ MaxSteps \in Nat /\ Jobs = 1 .. MaxSteps
      /\ version \in Nat /\ version <= steps /\ lastVersion \in Nat /\ lastVersion <= version
      /\ sent \in [0 .. MaxSteps -> Int]
  BY PositionAssumption, VersionLemma DEF JobInv, LoopInv, Jobs
<1>1. CASE StepReceive
  <2>1. /\ UNCHANGED <<lastVersion, version, copyPosition, position, jobs, loop, prev>>
        /\ steps' = steps + 1 /\ sent' = [sent EXCEPT ![steps + 1] = passingCarNum'] /\ main' = "stepped"
    BY <1>1 DEF StepReceive, statusVars, loopVars
  <2>2. ~rushed' => ~rushed /\ lastVersion = steps /\ loop \notin {"time", "reload", "passing"}
    BY <1>1, Zenon DEF StepReceive
  <2>3. lastVersion = steps => sent'[lastVersion] = sent[lastVersion]
    BY <1>0, <2>1
  <2>4. CopyIsFresh'
    BY <2>1, FreshLemma DEF LoopInv
  <2> QED BY <1>0, <2>1, <2>2, <2>3, <2>4 DEF LoopInv
<1>2. CASE StepCount \/ StepTime \/ HeadReceive \/ HeadTime \/ HeadZero
  <2>1. UNCHANGED <<lastVersion, version, copyPosition, position, jobs, loop, prev, steps, sent, rushed>>
    BY <1>2 DEF StepCount, StepTime, HeadReceive, HeadTime, HeadZero, statusVars, loopVars, history
  <2>2. main' \notin {"stepped", "stepCounted"} => lastStep' = steps'
    BY <1>2 DEF StepCount, StepTime, HeadReceive, HeadTime, HeadZero, LoopInv, lineVars
  <2>3. CopyIsFresh'
    BY <2>1, FreshLemma DEF LoopInv
  <2> QED BY <2>1, <2>2, <2>3 DEF LoopInv
<1>3. CASE StepRun
  <2>1. /\ UNCHANGED <<lastVersion, version, copyPosition, position, loop, prev, steps, sent, rushed, lastStep>>
        /\ main = "stepTimed" /\ jobs' = [jobs EXCEPT ![steps].at = "queued"]
    BY <1>3 DEF StepRun, statusVars, loopVars, history
  <2>2. \A j \in Jobs : jobs[j].at \in {"writing", "announce"} => jobs'[j] = jobs[j]
    <3>1. \A j \in Jobs : j = steps => jobs[j].at = "none"
      BY <2>1 DEF JobInv, Stepping
    <3> QED BY <2>1, <3>1 DEF JobInv
  <2>3. CopyIsFresh'
    BY <2>1, <2>2, FreshLemma DEF LoopInv
  <2> QED BY <2>1, <2>3 DEF LoopInv
<1>4. ASSUME NEW j \in Jobs, JobStep(j) PROVE LoopInv'
  <2>1. /\ UNCHANGED <<lastVersion, copyPosition, loop, prev, steps, sent, rushed, main, lastStep>>
        /\ \A i \in Jobs \ {j} : jobs'[i] = jobs[i]
    <3>1. UNCHANGED <<steps, sent, rushed, main, lastStep>> /\ \A i \in Jobs \ {j} : jobs'[i] = jobs[i]
      BY <1>4, JobMoveLemma DEF JobMove, JobStep, lineVars, history
    <3>2. UNCHANGED <<lastVersion, copyPosition, loop, prev>>
      BY <1>4 DEF JobStep, JobLock, JobWrite, JobUnlock, JobAnnounce, JobSnap, JobCount, JobStore, loopVars
    <3> QED BY <3>1, <3>2
  <2>2. CASE JobAnnounce(j)
    <3>1. version' = version + 1 /\ jobs[j].at = "announce"
      BY <2>2 DEF JobAnnounce
    <3>2. version # steps
      <4>1. j <= steps /\ j \notin Announced
        BY <1>0, <3>1 DEF JobInv, Announced
      <4> QED BY <4>1, VersionLemma
    <3>3. CopyIsFresh'
      BY <1>0, <2>1, <3>1 DEF CopyIsFresh
    <3> QED BY <1>0, <2>1, <3>1, <3>2, <3>3 DEF LoopInv
  <2>3. CASE ~JobAnnounce(j)
    <3>1. version' = version
      BY <1>4, <2>3 DEF JobStep, JobLock, JobWrite, JobUnlock, JobSnap, JobCount, JobStore, statusVars
    <3>2. jobs[j].at \in {"writing", "announce"} => jobs'[j].at \in {"writing", "announce"}
      BY <1>4, <2>3, JobMoveLemma DEF JobStep, JobMove
    <3>3. position' = position \/ jobs'[j].at = "writing"
      <4>1. CASE JobWrite(j)
        BY <4>1, JobMoveLemma DEF JobMove
      <4>2. CASE ~JobWrite(j)
        BY <1>4, <2>3, <4>2 DEF JobStep, JobLock, JobUnlock, JobSnap, JobCount, JobStore, statusVars
      <4> QED BY <4>1, <4>2
    <3>4. CopyIsFresh'
      BY <2>1, <3>1, <3>2, <3>3, FreshLemma DEF LoopInv
    <3> QED BY <2>1, <3>1, <3>4 DEF LoopInv
  <2> QED BY <2>2, <2>3
<1>5. CASE LoopStep \/ LoopReload
  <2>1. UNCHANGED <<version, position, jobs, steps, sent, rushed, main, lastStep>>
    BY <1>5 DEF LoopStep, LoopHead, LoopHeadTime, LoopHeadPassing, LoopCompare, LoopTime, LoopPassing,
                LoopJudge, LoopCheck, LoopMatch, LoopReload, statusVars, lineVars, history
  <2>2. CASE LoopCompare
    <3>1. UNCHANGED <<lastVersion, copyPosition, prev>> /\ loop = "compare"
          /\ loop' = IF version # lastVersion THEN "time" ELSE "judge"
      BY <2>2 DEF LoopCompare
    <3>2. CopyIsFresh'
      BY <2>1, <3>1, FreshLemma DEF LoopInv
    <3> QED BY <1>0, <2>1, <3>1, <3>2 DEF LoopInv
  <2>3. CASE LoopTime
    <3>1. UNCHANGED <<lastVersion, copyPosition>> /\ loop = "time" /\ loop' = "reload" /\ prev' = lastStep
      BY <2>3 DEF LoopTime
    <3>2. ~rushed => version = steps /\ steps > 0
      BY <3>1 DEF LoopInv
    <3>3. ~rushed => lastStep = steps
      BY <3>2, CurrentLemma DEF LoopInv, Stepping
    <3>4. CopyIsFresh'
      BY <2>1, <3>1, FreshLemma DEF LoopInv
    <3> QED BY <2>1, <3>1, <3>2, <3>3, <3>4 DEF LoopInv
  <2>4. CASE LoopReload
    <3>1. copyPosition' = position /\ lastVersion' = version /\ prev' = prev /\ loop = "reload" /\ loop' = "passing"
      BY <2>4 DEF LoopReload
    <3>2. ~rushed => version = steps /\ steps > 0 /\ prev = steps
      BY <3>1 DEF LoopInv
    <3>3. ~rushed => \A c \in Cars : position[c] = Position(c, sent[steps])
      BY <3>2, CurrentLemma
    <3>4. CopyIsFresh'
      BY <2>1, <3>1 DEF CopyIsFresh
    <3> QED BY <1>0, <2>1, <3>1, <3>2, <3>3, <3>4 DEF LoopInv
  <2>5. CASE LoopHead \/ LoopHeadTime \/ LoopHeadPassing \/ LoopPassing \/ LoopJudge \/ LoopCheck \/ LoopMatch
    <3>1. UNCHANGED <<lastVersion, copyPosition, prev>>
      BY <2>5 DEF LoopHead, LoopHeadTime, LoopHeadPassing, LoopPassing, LoopJudge, LoopCheck, LoopMatch
    <3>2. loop \notin {"time", "reload"} /\ loop' \notin {"time", "reload"}
      BY <2>5 DEF LoopHead, LoopHeadTime, LoopHeadPassing, LoopPassing, LoopJudge, LoopCheck, LoopMatch
    <3>3. CopyIsFresh'
      BY <2>1, <3>1, FreshLemma DEF LoopInv
    <3> QED BY <2>1, <3>1, <3>2, <3>3 DEF LoopInv
  <2> QED BY <1>5, <2>2, <2>3, <2>4, <2>5 DEF LoopStep
<1>6. CASE UNCHANGED vars
  BY <1>6 DEF vars, lineVars, statusVars, loopVars, history, LoopInv, CopyIsFresh
<1> QED BY <1>1, <1>2, <1>3, <1>4, <1>5, <1>6 DEF Next, MainStep

----------------------------------------------------------------------------
IInv == JobInv /\ CountInv /\ PositionInv /\ CameraInv /\ LoopInv

LEMMA IInvariant == Spec => []IInv
<1>1. Init => IInv
  <2> SUFFICES ASSUME Init PROVE IInv
    OBVIOUS
  <2>1. PositionInv /\ CameraInv
    BY PositionAssumption DEF Init, PositionInv, CameraInv, Jobs
  <2>2. LoopInv
    BY DEF Init, LoopInv, CopyIsFresh
  <2> QED BY <2>1, <2>2, JobInitially, CountInitially DEF IInv
<1>2. IInv /\ [Next]_vars => IInv'
  BY JobInductive, CountInductive, PositionInductive, CameraInductive, LoopInductive DEF IInv
<1> QED BY <1>1, <1>2, PTL DEF Spec

LEMMA QuietLemma == IInv => QuietPositions
<1> SUFFICES ASSUME IInv, Quiet, steps > 0
             PROVE  /\ \A c \in Cars : position[c] = Position(c, sent[steps])
                    /\ version = steps
                    /\ \A k \in Cameras : camCount[k] = steps
                    /\ ~overlapped => \A k \in Cameras : camCar[k] = CameraCar(k, sent[steps])
  BY DEF QuietPositions
<1> USE DEF IInv
<1>1. /\ steps \in Jobs /\ steps \in Nat /\ ~Stepping
      /\ \A j \in Jobs : jobs[j].at = "done" <=> j \in 1 .. steps
      /\ 1 .. steps \subseteq Jobs
  <2>1. steps \in 1 .. MaxSteps /\ MaxSteps \in Nat /\ Jobs = 1 .. MaxSteps /\ main = "idle"
    BY PositionAssumption DEF JobInv, Jobs, Quiet
  <2>2. \A j \in Jobs : jobs[j].at = "none" <=> j > steps
    BY <2>1 DEF JobInv, Stepping
  <2>3. \A j \in Jobs : jobs[j].at = "done" <=> j <= steps
    BY <2>1, <2>2 DEF Quiet
  <2> QED BY <2>1, <2>3 DEF Stepping
<1>2. \A c \in Cars : position[c] = Position(c, sent[steps])
  BY <1>1 DEF PositionInv, Written
<1>3. Announced = 1 .. steps /\ \A k \in Cameras : Counted(k) = 1 .. steps
  BY <1>1 DEF Announced, Counted, Quiet
<1>4. Cardinality(1 .. steps) = steps
  BY <1>1, FS_Interval
<1>5. version = steps /\ \A k \in Cameras : camCount[k] = steps
  BY <1>3, <1>4 DEF CountInv
<1>6. ~overlapped => \A k \in Cameras : camCar[k] = CameraCar(k, sent[steps])
  BY <1>1 DEF CameraInv, Stored
<1> QED BY <1>2, <1>5, <1>6

\* devicemanager.cpp:546-558, 634-652: whatever order the jobs of the pool ran in, when
\* the last of them is done the positions are those of the last message and every
\* message was announced and counted once, for every number of messages and threads.
THEOREM JobsEndUp == Spec => []QuietPositions
BY IInvariant, QuietLemma, PTL

\* devicemanager.cpp:863-882: carLoop compares versions without the lock and still never
\* keeps old positions for current ones, unless a job is about to say so.
THEOREM CopyIsKeptFresh == Spec => []CopyIsFresh
<1>1. IInv => CopyIsFresh
  BY DEF IInv, LoopInv
<1> QED BY <1>1, IInvariant, PTL

\* devicemanager.cpp:865-882, 917-952: as long as carLoop takes over each step before the
\* next one comes, the positions and the time it decides on unloading with are of
\* the same step, which is the last or the one before.
THEOREM LoopIsInStep == Spec => []InStepWithBelt
<1>1. IInv => InStepWithBelt
  BY DEF IInv, LoopInv, InStepWithBelt
<1> QED BY <1>1, IInvariant, PTL

----------------------------------------------------------------------------
\* The time of a message is stored before its job is started; carLoop reads the
\* time only after it has seen a version, and a version is of a message.
TimeInv ==
    /\ lastStep \in Nat /\ prev \in Nat
    /\ main \in {"stepped", "stepCounted"} => lastStep = steps - 1
    /\ loop = "time" => version > 0
    /\ loop = "reload" \/ lastVersion > 0 => prev > 0

\* Only messages whose time is stored have been announced.
LEMMA StoredLemma == IInv /\ TimeInv => version <= lastStep
<1> SUFFICES ASSUME IInv, TimeInv PROVE version <= lastStep
  OBVIOUS
<1>0. /\ steps \in 0 .. MaxSteps /\ MaxSteps \in Nat /\ Jobs = 1 .. MaxSteps /\ version <= steps
      /\ version = Cardinality(Announced)
  BY PositionAssumption, VersionLemma DEF IInv, JobInv, CountInv, Jobs
<1>1. CASE main \notin {"stepped", "stepCounted"}
  BY <1>0, <1>1 DEF IInv, LoopInv
<1>2. CASE main \in {"stepped", "stepCounted"}
  <2>1. Announced \subseteq 1 .. steps - 1
    <3>1. \A j \in Jobs : j >= steps => jobs[j].at = "none"
      BY <1>0, <1>2 DEF IInv, JobInv, Stepping
    <3>2. \A j \in Announced : j \in Jobs /\ jobs[j].at # "none"
      BY DEF Announced
    <3>3. \A j \in Announced : j \in 1 .. MaxSteps /\ ~(j >= steps)
      BY <1>0, <3>1, <3>2, Zenon
    <3> QED BY <1>0, <3>3
  <2>2. lastStep = steps - 1 /\ steps - 1 \in Nat
    BY <1>2 DEF TimeInv
  <2>3. IsFiniteSet(1 .. steps - 1) /\ Cardinality(1 .. steps - 1) = steps - 1
    BY <2>2, FS_Interval
  <2>4. Cardinality(Announced) <= steps - 1
    BY <2>1, <2>3, FS_Subset
  <2> QED BY <1>0, <2>2, <2>4
<1> QED BY <1>1, <1>2

LEMMA TimeInductive == IInv /\ TimeInv /\ [Next]_vars => TimeInv'
<1> SUFFICES ASSUME IInv, TimeInv, [Next]_vars PROVE TimeInv'
  OBVIOUS
<1> USE DEF TimeInv, lineVars, statusVars, loopVars, history
<1>0. /\ steps \in Nat /\ version \in Nat /\ lastVersion \in Nat /\ lastVersion <= version
      /\ (main \notin {"stepped", "stepCounted"} => lastStep = steps)
      /\ version <= lastStep
  BY StoredLemma, VersionLemma DEF IInv, JobInv, LoopInv
<1>1. CASE StepReceive
  BY <1>0, <1>1 DEF StepReceive
<1>2. CASE StepCount \/ StepTime \/ StepRun \/ HeadReceive \/ HeadTime \/ HeadZero
  BY <1>0, <1>2 DEF StepCount, StepTime, StepRun, HeadReceive, HeadTime, HeadZero
<1>3. ASSUME NEW j \in Jobs, JobStep(j) PROVE TimeInv'
  <2>1. UNCHANGED <<steps, main, lastStep, prev, lastVersion, loop>> /\ version' \in {version, version + 1}
    BY <1>3 DEF JobStep, JobLock, JobWrite, JobUnlock, JobAnnounce, JobSnap, JobCount, JobStore
  <2> QED BY <1>0, <2>1
<1>4. CASE LoopCompare
  BY <1>0, <1>4 DEF LoopCompare
<1>5. CASE LoopTime
  BY <1>0, <1>5 DEF LoopTime
<1>6. CASE LoopReload
  BY <1>0, <1>6 DEF LoopReload
<1>7. CASE LoopHead \/ LoopHeadTime \/ LoopHeadPassing \/ LoopPassing \/ LoopJudge \/ LoopCheck \/ LoopMatch
  BY <1>7 DEF LoopHead, LoopHeadTime, LoopHeadPassing, LoopPassing, LoopJudge, LoopCheck, LoopMatch
<1>8. CASE UNCHANGED vars
  BY <1>8 DEF vars
<1> QED BY <1>1, <1>2, <1>3, <1>4, <1>5, <1>6, <1>7, <1>8 DEF Next, MainStep, LoopStep

\* devicemanager.cpp:602-612, 863-869: no version is counted up before the time of its
\* message is stored, and carLoop never works with positions before it has a time.
THEOREM TimeComesFirst == Spec => []TimeBeforeVersion
<1>1. Init => TimeInv
  BY DEF Init, TimeInv
<1>2. IInv /\ TimeInv => TimeBeforeVersion
  BY StoredLemma DEF TimeInv, TimeBeforeVersion
<1> QED BY <1>1, <1>2, TimeInductive, IInvariant, PTL DEF Spec
====
