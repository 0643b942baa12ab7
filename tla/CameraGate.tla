---- MODULE CameraGate ----
(***************************************************************************)
(* How a code that a camera read finds its car.  The step photocell also   *)
(* triggers the camera; the camera sends one result per picture, a code or *)
(* "NoRead", over its own connection.  DataProcessMain counts the results, *)
(* DeviceManager the steps, and on41cameraDataReceived (on42... is the     *)
(* same) takes the car now under the camera only if the two counts agree.  *)
(* If they do not, the result is ignored and the count of the steps is set *)
(* to that of the results.  The connection is a stream: two results that   *)
(* came together are handed over, counted and read as one.  So is that of  *)
(* the photocell: the bytes of two steps that came together are one number *)
(* and one job, which names any car.                                       *)
(*                                                                         *)
(* One camera; a car is named by the number of the picture taken of it,    *)
(* since results are never late by a whole round of the belt.  The pool    *)
(* jobs of the steps run one after the other here, StepPosition has them   *)
(* run at the same time.                                                   *)
(***************************************************************************)
EXTENDS Naturals, Sequences

CONSTANT MaxPictures   \* bound on the pictures taken
ASSUME PicturesAssumption == MaxPictures \in Nat

VARIABLES
    pictures,    \* pictures taken by the camera
    results,     \* the camera's results on their way, oldest first
    steps,       \* the last picture whose step came
    messages,    \* messages of steps received; each starts a job
    number,      \* the picture that passingCarNum stands for
    stepsDone,   \* jobs of steps that ended
    job,         \* the running job: where it is, the number it read
    stepCount,   \* step_camera41Count
    camCar,      \* _currentCarIdFor41
    headOk,      \* headDiffMs_isTrue
    resultCount, \* _camera41Count
    main,        \* the running handler of the main thread
    \* history, read by properties only:
    bound,       \* the last code bound to a car
    prompt,      \* no result overtook its step, no steps came as one message, and each
                 \* job ended before the next message
    inPhase,     \* the counts agreed on the same picture since the last good moment
    settled      \* a result was judged with nothing on its way, and all went well since

cameraVars == <<pictures, results>>
stepVars == <<steps, messages, number>>
jobVars == <<stepsDone, job, camCar>>
historyVars == <<bound, prompt, inPhase, settled>>
vars == <<cameraVars, stepVars, jobVars, stepCount, headOk, resultCount, main, historyVars>>

Pictures == 0 .. MaxPictures
Result == [picture: Pictures, read: BOOLEAN]

TypeOK ==
    /\ pictures \in Pictures /\ steps \in 0 .. pictures
    /\ messages \in 0 .. steps /\ number \in Pictures /\ stepsDone \in 0 .. messages
    /\ results \in Seq(Result)
    /\ job \in [at: {"idle", "count", "store"}, snap: Pictures]
    /\ stepCount \in 0 .. 2 * MaxPictures /\ camCar \in Pictures
    /\ headOk \in BOOLEAN
    /\ resultCount \in 0 .. pictures - Len(results)
    /\ main \in [at: {"idle", "head", "read", "count", "car", "judge"}, picture: Pictures,
                 merged: BOOLEAN, headOk: BOOLEAN, count: 0 .. 2 * MaxPictures, car: Pictures]
    /\ bound \in [picture: Pictures, merged: BOOLEAN, car: Pictures,
                  prompt: BOOLEAN, inPhase: BOOLEAN]
    /\ prompt \in BOOLEAN /\ inPhase \in BOOLEAN /\ settled \in BOOLEAN

NoHandler == [at |-> "idle", picture |-> 0, merged |-> FALSE, headOk |-> TRUE, count |-> 0, car |-> 0]

\* The constructor stores car 1 for both cameras; no picture was taken of it.
Init ==
    /\ pictures = 0 /\ results = <<>>
    /\ steps = 0 /\ messages = 0 /\ number = 0
    /\ stepsDone = 0 /\ job = [at |-> "idle", snap |-> 0]
    /\ stepCount = 0 /\ camCar = 0 /\ headOk = TRUE
    /\ resultCount = 0 /\ main = NoHandler
    /\ bound = [picture |-> 0, merged |-> FALSE, car |-> 0, prompt |-> TRUE, inPhase |-> TRUE]
    /\ prompt = TRUE /\ inPhase = TRUE /\ settled = TRUE

JobsDone == messages = stepsDone
NothingUnderWay == results = <<>> /\ pictures = steps /\ JobsDone

----------------------------------------------------------------------------
\* The camera and the photocell see the next car: the result and the number of
\* the step set out.  A result may get lost before it is sent.
Picture(read) ==
    /\ pictures < MaxPictures
    /\ pictures' = pictures + 1
    /\ results' = Append(results, [picture |-> pictures + 1, read |-> read])
    /\ UNCHANGED <<stepVars, jobVars, stepCount, headOk, resultCount, main, historyVars>>

PictureLost ==
    /\ pictures < MaxPictures
    /\ pictures' = pictures + 1
    /\ settled' = FALSE
    /\ UNCHANGED <<results, stepVars, jobVars, stepCount, headOk, resultCount, main,
                   bound, prompt, inPhase>>

\* stepReceive: what came is one step's number or, read as one, the bytes of
\* several, which make a number of any car; the job is started.
StepReceive ==
    /\ main.at = "idle"
    /\ \E n \in 1 .. pictures - steps :
        /\ steps' = steps + n
        /\ number' \in IF n = 1 THEN {steps'} ELSE Pictures
        /\ prompt' = (prompt /\ JobsDone /\ n = 1)
        /\ inPhase' = (inPhase /\ JobsDone /\ n = 1)
    /\ messages' = messages + 1
    /\ settled' = (settled /\ JobsDone)
    /\ UNCHANGED <<cameraVars, jobVars, stepCount, headOk, resultCount, main, bound>>

\* updateCarForCamera in the job: read the present number ...
JobSnap ==
    /\ job.at = "idle" /\ ~JobsDone
    /\ job' = [at |-> "count", snap |-> number]
    /\ UNCHANGED <<cameraVars, stepVars, stepsDone, camCar, stepCount, headOk, resultCount,
                   main, historyVars>>

\* ... count the step, then store the car.
JobCount ==
    /\ job.at = "count"
    /\ stepCount' = stepCount + 1
    /\ job' = [job EXCEPT !.at = "store"]
    /\ UNCHANGED <<cameraVars, stepVars, stepsDone, camCar, headOk, resultCount, main,
                   historyVars>>

JobStore ==
    /\ job.at = "store"
    /\ camCar' = job.snap
    /\ job' = [job EXCEPT !.at = "idle"]
    /\ stepsDone' = stepsDone + 1
    /\ UNCHANGED <<cameraVars, stepVars, stepCount, headOk, resultCount, main, historyVars>>

\* carLoop compares the time since the head car with the cars passed.
HeadDiff ==
    /\ headOk' = ~headOk
    /\ UNCHANGED <<cameraVars, stepVars, jobVars, stepCount, resultCount, main, historyVars>>

----------------------------------------------------------------------------
\* The handler of what recv returned: one result or several at once, which are not
\* told apart.  It is counted once, and passed over if it reads "NoRead"; of
\* several, camera 42 takes the whole text for the code, and camera 41 the text
\* after the first comma, which may or may not end with the first result.
ResultReceive ==
    /\ main.at = "idle"
    /\ \E n \in 1 .. Len(results) :
        LET first == results[1]
            last == results[n].picture
        IN /\ resultCount' = resultCount + 1
           /\ results' = SubSeq(results, n + 1, Len(results))
           /\ \E read \in {first.read, first.read \/ n > 1} :
                main' = IF read THEN [main EXCEPT !.at = "head", !.picture = first.picture,
                                                  !.merged = n > 1]
                                ELSE main
           /\ prompt' = (prompt /\ JobsDone /\ last <= steps)
           /\ inPhase' = (inPhase /\ JobsDone /\ last <= steps)
           /\ settled' = (settled /\ Len(results) = 1 /\ pictures = steps /\ JobsDone)
    /\ UNCHANGED <<pictures, stepVars, jobVars, stepCount, headOk, bound>>

\* carToCamera41: the count of the steps is void while the head car's time does
\* not fit; then the count and the car are read, in no fixed order.
LookHead ==
    /\ main.at = "head"
    /\ stepCount' = IF headOk THEN stepCount ELSE 0
    /\ main' = [main EXCEPT !.at = "read", !.headOk = headOk]
    /\ UNCHANGED <<cameraVars, stepVars, jobVars, headOk, resultCount, historyVars>>

ReadCount ==
    /\ main.at \in {"read", "count"}
    /\ main' = [main EXCEPT !.at = IF @ = "read" THEN "car" ELSE "judge", !.count = stepCount]
    /\ UNCHANGED <<cameraVars, stepVars, jobVars, stepCount, headOk, resultCount, historyVars>>

ReadCar ==
    /\ main.at \in {"read", "car"}
    /\ main' = [main EXCEPT !.at = IF @ = "read" THEN "count" ELSE "judge", !.car = camCar]
    /\ UNCHANGED <<cameraVars, stepVars, jobVars, stepCount, headOk, resultCount, historyVars>>

\* Mutants: the counts are not compared; the step count is left alone.
AcceptAlways ==
    /\ main.at = "judge"
    /\ bound' = [picture |-> main.picture, merged |-> main.merged, car |-> main.car,
                  prompt |-> prompt, inPhase |-> inPhase]
    /\ main' = NoHandler
    /\ UNCHANGED <<cameraVars, stepVars, jobVars, stepCount, headOk, resultCount,
                   prompt, inPhase, settled>>

IgnoreOnly ==
    /\ main.at = "judge" /\ main.count # resultCount
    /\ inPhase' = NothingUnderWay
    /\ settled' = NothingUnderWay
    /\ main' = NoHandler
    /\ UNCHANGED <<cameraVars, stepVars, jobVars, stepCount, headOk, resultCount, bound, prompt>>

\* The counts agree: the code goes to the car.
Accept ==
    /\ main.at = "judge" /\ main.count = resultCount
    /\ bound' = [picture |-> main.picture, merged |-> main.merged, car |-> main.car,
                  prompt |-> prompt, inPhase |-> inPhase]
    /\ main' = NoHandler
    /\ settled' = (settled \/ (NothingUnderWay /\ stepCount = resultCount))
    /\ UNCHANGED <<cameraVars, stepVars, jobVars, stepCount, headOk, resultCount, prompt, inPhase>>

\* They do not: the result is ignored and updateCamera41Count takes its count.
Ignore ==
    /\ main.at = "judge" /\ main.count # resultCount
    /\ stepCount' = resultCount
    /\ inPhase' = NothingUnderWay
    /\ settled' = NothingUnderWay
    /\ main' = NoHandler
    /\ UNCHANGED <<cameraVars, stepVars, jobVars, headOk, resultCount, bound, prompt>>

Next ==
    \/ \E read \in BOOLEAN : Picture(read)
    \/ PictureLost
    \/ StepReceive \/ JobSnap \/ JobCount \/ JobStore \/ HeadDiff
    \/ ResultReceive \/ LookHead \/ ReadCount \/ ReadCar \/ Accept \/ Ignore

Spec == Init /\ [][Next]_vars

----------------------------------------------------------------------------
\* However late results come, however many get lost and however they are cut, a
\* code goes to its own car and is the code of one result, as long as no result
\* overtakes its step, no two steps come as one message, each step's job ends before
\* the next message is handled, and no result was ignored while others were on their
\* way.  When one of these fails, the next result that is ignored with nothing on its
\* way sets it right, also after steps that came as one and named a wrong car.
InPhaseBindsRight == bound.inPhase => bound.car = bound.picture /\ ~bound.merged

\* The comparison does not throw codes away for long: once a result was judged
\* with nothing on its way, each result that then comes before the next picture
\* and after its step is taken, unless the head car's time does not fit.
SettledIsAccepted == [][Ignore => ~(settled /\ main.headOk)]_vars

----------------------------------------------------------------------------
\* A statement of the source that the code does not keep.

\* dataprocessmain.cpp:129: a result whose count does not fit is ignored, because
\* it would be bound to the wrong car.  Setting the step count to that of an
\* ignored result while another is on its way moves the counts out of phase, and
\* the next result is bound to the wrong car, even when messages come in order and
\* every job is prompt.
BoundToItsCar == bound.prompt => bound.car = bound.picture
====
