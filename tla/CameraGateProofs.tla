---- MODULE CameraGateProofs ----
(***************************************************************************)
(* Proofs about CameraGate, for every number of pictures: comparing the    *)
(* two counts is enough to bind a code to its own car while nothing        *)
(* overtakes, and does not throw codes away for long.                      *)
(***************************************************************************)
EXTENDS CameraGate, SequenceTheorems, TLAPS

\* The steps in stepCount and those that came in the message of another, which
\* stepCount never gets: a job counts its step before it has ended.
Counted == (steps - messages) + (IF job.at = "store" THEN stepsDone + 1 ELSE stepsDone)

Handling == main.at \in {"head", "read", "count", "car", "judge"}

\* The head car's time did not fit: stepCount is void until the result is ignored.
Void == main.at \in {"read", "count", "car", "judge"} /\ ~main.headOk

\* The pictures of the results on their way are different and in order.
QueueInv ==
    /\ results \in Seq([picture: Nat, read: BOOLEAN])
    /\ \A i \in 1 .. Len(results) : results[i].picture <= pictures
    /\ \A i, j \in 1 .. Len(results) : i < j => results[i].picture < results[j].picture

\* The last job to end has read the present number: it started after the last message.
JobInv ==
    /\ pictures \in Nat /\ steps \in Nat /\ messages \in Nat /\ number \in Nat
    /\ stepsDone \in Nat /\ camCar \in Nat /\ stepCount \in Nat /\ resultCount \in Nat
    /\ steps <= pictures /\ messages <= steps /\ stepsDone <= messages
    /\ job \in [at: {"idle", "count", "store"}, snap: Nat]
    /\ job.at # "idle" => stepsDone < messages
    /\ job.at # "idle" /\ stepsDone + 1 = messages => job.snap = number
    /\ JobsDone => camCar = number

Handlers == [at: {"idle", "head", "read", "count", "car", "judge"}, picture: Nat, merged: BOOLEAN,
             headOk: BOOLEAN, count: Nat, car: Nat]
USE DEF Handlers

\* What the handler has read, as long as no job can come between.
HandlerInv ==
    /\ main \in Handlers /\ headOk \in BOOLEAN
    /\ Handling => resultCount > 0
    /\ Handling /\ (inPhase \/ settled) =>
        /\ JobsDone
        /\ Void => stepCount = 0
        /\ main.at \in {"car", "judge"} => main.count = stepCount
        /\ main.at \in {"count", "judge"} => main.car = camCar

\* While the counts are in phase, the number is the last step's, or every result that
\* can still come is of a later picture; and no result runs ahead of its picture: the
\* k-th result since the last good moment is of the k-th picture since or a later one.
PhaseInv ==
    /\ inPhase /\ Handling =>
        main.picture <= steps /\ (main.merged => main.picture < steps)
    /\ inPhase =>
        \/ number = steps
        \/ ~Handling /\ \A i \in 1 .. Len(results) : results[i].picture > steps
    /\ inPhase /\ ~Void =>
        /\ resultCount + Len(results) + Counted <= pictures + stepCount
        /\ \A i \in 1 .. Len(results) :
              resultCount + i + Counted <= results[i].picture + stepCount
        /\ Handling => resultCount + Counted <= main.picture + stepCount

\* After a result that was judged with nothing on its way, the counts differ by what
\* is on its way.  Steps that came as one spoil that, but then the results of their
\* pictures are both on their way, and the next one to come finds another behind it.
SettledInv ==
    /\ settled => Len(results) + steps >= pictures
    /\ settled /\ Handling => Len(results) + steps = pictures
    /\ settled /\ ~Void =>
        \/ resultCount + Len(results) + Counted = pictures + stepCount
        \/ ~Handling /\ Len(results) > 1

IInv == QueueInv /\ JobInv /\ HandlerInv /\ PhaseInv /\ SettledInv /\ InPhaseBindsRight

LEMMA Initially == Init => IInv
<1> SUFFICES ASSUME Init PROVE IInv
  OBVIOUS
<1>1. results = <<>> /\ job = [at |-> "idle", snap |-> 0] /\ main = NoHandler
  BY DEF Init
<1>2. QueueInv
  BY <1>1 DEF QueueInv
<1>3. JobInv
  BY DEF Init, JobInv, JobsDone
<1>4. HandlerInv
  BY DEF Init, HandlerInv, NoHandler, Handling
<1>5. PhaseInv /\ SettledInv
  <2>1. ~Handling /\ Len(results) = 0 /\ Counted = 0
    BY <1>1 DEF Init, NoHandler, Handling, Counted
  <2>2. Init /\ ~Handling /\ Len(results) = 0 /\ Counted = 0
    BY <2>1
  <2> QED BY <2>2 DEF Init, PhaseInv, SettledInv
<1>6. InPhaseBindsRight
  BY DEF Init, InPhaseBindsRight
<1> QED BY <1>2, <1>3, <1>4, <1>5, <1>6 DEF IInv

LEMMA QueueTypes ==
  ASSUME QueueInv
  PROVE  /\ Len(results) \in Nat
         /\ \A i \in 1 .. Len(results) : /\ results[i] \in [picture: Nat, read: BOOLEAN]
                                         /\ results[i].picture \in Nat
<1> DEFINE S == [picture: Nat, read: BOOLEAN]
<1>1. results \in Seq(S)
  BY DEF QueueInv
<1>2. \A r \in S : r.picture \in Nat
  OBVIOUS
<1> HIDE DEF S
<1>3. Len(results) \in Nat /\ \A i \in 1 .. Len(results) : results[i] \in S
  BY <1>1
<1> QED BY <1>2, <1>3 DEF S

LEMMA Numbers ==
  ASSUME QueueInv, JobInv
  PROVE  /\ pictures \in Nat /\ steps \in Nat /\ messages \in Nat /\ number \in Nat /\ stepsDone \in Nat
         /\ camCar \in Nat /\ stepCount \in Nat /\ resultCount \in Nat
         /\ Counted \in Int /\ Len(results) \in Nat
         /\ \A i \in 1 .. Len(results) : results[i].picture \in Nat
         /\ JobsDone => Counted = steps /\ camCar = number
BY QueueTypes DEF JobInv, Counted, JobsDone

\* The queue: pictures are appended, results taken from the front.
LEMMA QueueLemma ==
  ASSUME QueueInv, JobInv
  PROVE  /\ \A read \in BOOLEAN : Picture(read) =>
              /\ QueueInv' /\ Len(results') = Len(results) + 1
              /\ results'[Len(results) + 1].picture = pictures + 1
              /\ \A i \in 1 .. Len(results) : results'[i] = results[i]
         /\ \A n \in 1 .. Len(results) :
              results' = SubSeq(results, n + 1, Len(results)) /\ UNCHANGED pictures =>
                /\ QueueInv' /\ Len(results') = Len(results) - n
                /\ \A i \in 1 .. Len(results') : n + i \in 1 .. Len(results) /\ results'[i] = results[n + i]
<1>0. /\ Len(results) \in Nat /\ pictures \in Nat
      /\ \A i \in 1 .. Len(results) : /\ results[i] \in [picture: Nat, read: BOOLEAN]
                                      /\ results[i].picture \in Nat
  BY QueueTypes DEF JobInv
<1> USE DEF QueueInv
<1>1. ASSUME NEW read \in BOOLEAN, Picture(read)
      PROVE  /\ QueueInv' /\ Len(results') = Len(results) + 1
             /\ results'[Len(results) + 1].picture = pictures + 1
             /\ \A i \in 1 .. Len(results) : results'[i] = results[i]
  <2> DEFINE r == [picture |-> pictures + 1, read |-> read]
  <2>1. results' = Append(results, r) /\ pictures' = pictures + 1
    BY <1>1 DEF Picture
  <2>2. r \in [picture: Nat, read: BOOLEAN] /\ r.picture = pictures + 1
    BY <1>0
  <2> HIDE DEF r
  <2>3. /\ results' \in Seq([picture: Nat, read: BOOLEAN]) /\ Len(results') = Len(results) + 1
        /\ \A i \in 1 .. Len(results) : results'[i] = results[i]
        /\ results'[Len(results) + 1] = r
    BY <2>1, <2>2, AppendProperties
  <2>4. \A i \in 1 .. Len(results') : i \in 1 .. Len(results) \/ i = Len(results) + 1
    BY <1>0, <2>3
  <2>5. \A i \in 1 .. Len(results') : results'[i].picture <= pictures'
    BY <1>0, <2>1, <2>2, <2>3, <2>4
  <2>6. \A i, j \in 1 .. Len(results') : i < j => results'[i].picture < results'[j].picture
    <3>1. SUFFICES ASSUME NEW i \in 1 .. Len(results'), NEW j \in 1 .. Len(results'), i < j
                   PROVE  results'[i].picture < results'[j].picture
      OBVIOUS
    <3>2. i \in 1 .. Len(results)
      BY <1>0, <2>3, <3>1
    <3>3. CASE j \in 1 .. Len(results)
      BY <2>3, <3>1, <3>2, <3>3
    <3>4. CASE j = Len(results) + 1
      <4>1. results'[i].picture <= pictures /\ results'[i].picture \in Nat /\ results'[j].picture = pictures + 1
        BY <1>0, <2>2, <2>3, <3>2, <3>4
      <4> QED BY <1>0, <4>1
    <3> QED BY <2>4, <3>3, <3>4
  <2> QED BY <2>2, <2>3, <2>5, <2>6
<1>2. ASSUME NEW n \in 1 .. Len(results), results' = SubSeq(results, n + 1, Len(results)), UNCHANGED pictures
      PROVE  /\ QueueInv' /\ Len(results') = Len(results) - n
             /\ \A i \in 1 .. Len(results') : n + i \in 1 .. Len(results) /\ results'[i] = results[n + i]
  <2>1. n + 1 \in 1 .. Len(results) + 1 /\ Len(results) \in (n + 1) - 1 .. Len(results)
    BY <1>0
  <2>2. /\ results' \in Seq([picture: Nat, read: BOOLEAN]) /\ Len(results') = Len(results) - n
        /\ \A i \in 1 .. Len(results) - n : results'[i] = results[n + i]
    <3> DEFINE S == [picture: Nat, read: BOOLEAN]
               l == Len(results)
               m == n + 1
    <3>0. m \in Int /\ l \in Int /\ (\A i \in m .. l : results[i] \in S) /\ results' = SubSeq(results, m, l)
      <4>1. \A i \in m .. l : i \in 1 .. l
        BY <1>0
      <4> QED BY <1>0, <1>2, <4>1
    <3> HIDE DEF S, l, m
    <3>4. /\ results' \in Seq(S) /\ Len(results') = IF m <= l THEN l - m + 1 ELSE 0
          /\ \A i \in 1 .. l - m + 1 : results'[i] = results[m + i - 1]
      BY <3>0, SubSeqProperties
    <3>1. /\ results' \in Seq([picture: Nat, read: BOOLEAN])
          /\ Len(results') = Len(results) - (n + 1) + 1
          /\ \A i \in 1 .. Len(results) - (n + 1) + 1 : results'[i] = results[(n + 1) + i - 1]
      <4>1. ~(m <= l) => l - m + 1 = 0
        BY <1>0 DEF l, m
      <4>2. Len(results') = l - m + 1
        BY <3>4, <4>1
      <4> QED BY <3>4, <4>2 DEF S, l, m
    <3>2. Len(results) - (n + 1) + 1 = Len(results) - n
      BY <1>0
    <3>3. \A i \in Nat : (n + 1) + i - 1 = n + i
      OBVIOUS
    <3> QED BY <3>1, <3>2, <3>3, SMTT(30)
  <2>3. \A i \in 1 .. Len(results') : n + i \in 1 .. Len(results)
    BY <1>0, <2>2
  <2>4. \A i, j \in 1 .. Len(results') : i < j => n + i < n + j
    BY <1>0
  <2> QED BY <1>2, <2>2, <2>3, <2>4
<1> QED BY <1>1, <1>2


LEMMA PictureStep == ASSUME IInv, \/ \E read \in BOOLEAN : Picture(read) \/ PictureLost PROVE IInv'
<1> USE DEF IInv
<1>1. /\ UNCHANGED <<steps, messages, number, stepsDone, job, camCar, stepCount, headOk, resultCount, main, bound, prompt, inPhase>>
      /\ pictures' = pictures + 1
  BY DEF Picture, PictureLost, stepVars, jobVars, historyVars
<1>2. pictures \in Nat /\ Len(results) \in Nat /\ Counted \in Int /\ resultCount \in Nat /\ stepCount \in Nat
      /\ steps \in Nat /\ steps <= pictures
  BY Numbers DEF JobInv
<1>3. JobInv'
  BY <1>1 DEF JobInv, JobsDone
<1>4. InPhaseBindsRight'
  BY <1>1 DEF InPhaseBindsRight
<1>5. Counted' = Counted /\ Handling' = Handling /\ Void' = Void /\ JobsDone' = JobsDone
  BY <1>1 DEF Counted, Handling, Void, JobsDone
<1>6. ASSUME NEW read \in BOOLEAN, Picture(read) PROVE IInv'
  <2>1. /\ QueueInv' /\ Len(results') = Len(results) + 1
        /\ results'[Len(results) + 1].picture = pictures + 1
        /\ \A i \in 1 .. Len(results) : results'[i] = results[i]
        /\ settled' = settled
    BY <1>6, QueueLemma DEF Picture, historyVars
  <2>2. HandlerInv'
    BY <1>1, <1>5, <2>1 DEF HandlerInv
  <2>3. PhaseInv'
    <3>1. \A i \in 1 .. Len(results') : i \in 1 .. Len(results) \/ i = Len(results) + 1
      BY <1>2, <2>1
    <3>2. ASSUME inPhase, ~Void, NEW i \in 1 .. Len(results')
          PROVE  resultCount + i + Counted <= results'[i].picture + stepCount
      <4>1. CASE i \in 1 .. Len(results)
        BY <2>1, <3>2, <4>1 DEF PhaseInv
      <4>2. CASE i = Len(results) + 1
        BY <1>2, <2>1, <3>2, <4>2 DEF PhaseInv
      <4> QED BY <3>1, <4>1, <4>2
    <3>3. inPhase /\ ~Void => resultCount + Len(results') + Counted <= pictures' + stepCount
      BY <1>1, <1>2, <2>1 DEF PhaseInv
    <3>4. inPhase => \/ number = steps
                     \/ ~Handling /\ \A i \in 1 .. Len(results') : results'[i].picture > steps
      BY <1>2, <2>1, <3>1 DEF PhaseInv
    <3> QED BY <1>1, <1>5, <3>2, <3>3, <3>4 DEF PhaseInv
  <2>4. SettledInv'
    BY <1>1, <1>2, <1>5, <2>1 DEF SettledInv
  <2> QED BY <1>3, <1>4, <2>1, <2>2, <2>3, <2>4
<1>7. CASE PictureLost
  <2>1. results' = results /\ settled' = FALSE
    BY <1>7 DEF PictureLost
  <2>2. QueueInv'
    <3>1. \A i \in 1 .. Len(results) : results[i].picture \in Nat /\ results[i].picture <= pictures
      BY QueueTypes DEF QueueInv
    <3>2. \A i \in 1 .. Len(results) : results[i].picture <= pictures + 1
      BY <1>2, <3>1
    <3> QED BY <1>1, <2>1, <3>2 DEF QueueInv
  <2>3. HandlerInv' /\ SettledInv'
    BY <1>1, <1>5, <2>1 DEF HandlerInv, SettledInv
  <2>4. PhaseInv'
    BY <1>1, <1>2, <1>5, <2>1 DEF PhaseInv
  <2> QED BY <1>3, <1>4, <2>2, <2>3, <2>4
<1> QED BY <1>6, <1>7

LEMMA StepStep == ASSUME IInv, StepReceive PROVE IInv'
<1> USE DEF IInv
<1>1. PICK n \in 1 .. pictures - steps :
         /\ steps' = steps + n
         /\ number' \in IF n = 1 THEN {steps'} ELSE Pictures
         /\ inPhase' = (inPhase /\ JobsDone /\ n = 1)
  BY DEF StepReceive
<1>2. /\ UNCHANGED <<pictures, results, stepsDone, job, camCar, stepCount, headOk, resultCount, main, bound>>
      /\ main.at = "idle" /\ messages' = messages + 1 /\ settled' = (settled /\ JobsDone)
  BY DEF StepReceive, jobVars, cameraVars
<1>3. /\ inPhase' => inPhase /\ JobsDone /\ n = 1
      /\ settled' => settled /\ JobsDone
  <2>1. inPhase' => inPhase /\ JobsDone /\ n = 1
    BY <1>1, Zenon
  <2>2. settled' => settled /\ JobsDone
    BY <1>2, Zenon
  <2> QED BY <2>1, <2>2
<1>4. /\ pictures \in Nat /\ steps \in Nat /\ messages \in Nat /\ stepsDone \in Nat /\ number \in Nat
      /\ stepCount \in Nat /\ resultCount \in Nat /\ Len(results) \in Nat
      /\ n \in Nat /\ 1 <= n /\ n <= pictures - steps
      /\ \A i \in 1 .. Len(results) : results[i].picture \in Nat
  BY QueueTypes DEF JobInv
<1>5. number' \in Nat /\ (n = 1 => number' = steps')
  BY <1>1, <1>4, PicturesAssumption DEF Pictures
<1>6. ~Handling /\ ~Handling' /\ ~Void /\ ~Void'
  BY <1>2 DEF Handling, Void
<1>7. Counted \in Int /\ Counted' \in Int /\ Counted' = Counted + (n - 1)
  BY <1>1, <1>2, <1>4 DEF Counted
<1>8. QueueInv' /\ InPhaseBindsRight'
  BY <1>2 DEF QueueInv, InPhaseBindsRight
<1>9. JobInv'
  <2>1. ~JobsDone'
    BY <1>2, <1>4 DEF JobInv, JobsDone
  <2> QED BY <1>1, <1>2, <1>4, <1>5, <2>1 DEF JobInv, JobsDone
<1>10. HandlerInv'
  BY <1>2, <1>6 DEF HandlerInv
<1>11. PhaseInv'
  <2>1. SUFFICES ASSUME inPhase' PROVE PhaseInv'
    BY DEF PhaseInv
  <2>2. inPhase /\ n = 1 /\ number' = steps' /\ Counted' = Counted
    BY <1>3, <1>5, <1>7, <2>1
  <2> QED BY <1>2, <1>6, <2>2 DEF PhaseInv
<1>12. SettledInv'
  <2>1. SUFFICES ASSUME settled' PROVE SettledInv'
    BY DEF SettledInv
  <2>2. /\ Len(results) + steps >= pictures
        /\ resultCount + Len(results) + Counted = pictures + stepCount \/ Len(results) > 1
    BY <1>3, <1>6, <2>1 DEF SettledInv
  <2>3. n = 1 \/ Len(results) > 1
    BY <1>4, <2>2
  <2>4. Len(results) + steps' >= pictures
    BY <1>1, <1>4, <2>2
  <2>5. resultCount + Len(results) + Counted' = pictures + stepCount \/ Len(results) > 1
    BY <1>4, <1>7, <2>2, <2>3
  <2> QED BY <1>2, <1>6, <2>4, <2>5 DEF SettledInv
<1> QED BY <1>8, <1>9, <1>10, <1>11, <1>12

LEMMA JobsStep == ASSUME IInv, JobSnap \/ JobCount \/ JobStore PROVE IInv'
<1> USE DEF IInv
<1>1. UNCHANGED <<pictures, results, steps, messages, number, headOk, resultCount, main, bound, inPhase, settled>>
  BY DEF JobSnap, JobCount, JobStore, cameraVars, stepVars, historyVars
<1>2. ~JobsDone
  BY DEF JobSnap, JobCount, JobStore, JobInv, JobsDone
<1>3. Handling' = Handling /\ Void' = Void
  BY <1>1 DEF Handling, Void
<1>4. ~(Handling /\ (inPhase \/ settled))
  BY <1>2 DEF HandlerInv
<1>5. QueueInv' /\ InPhaseBindsRight' /\ HandlerInv'
  BY <1>1, <1>3, <1>4 DEF QueueInv, InPhaseBindsRight, HandlerInv
<1>6. JobInv' /\ \/ Counted' = Counted /\ stepCount' = stepCount
                 \/ Counted' = Counted + 1 /\ stepCount' = stepCount + 1
  <2>1. CASE JobSnap
    <3>1. /\ job.at = "idle" /\ job' = [at |-> "count", snap |-> number]
          /\ UNCHANGED <<stepsDone, camCar, stepCount>>
      BY <2>1 DEF JobSnap
    <3>2. stepsDone < messages
      BY <1>2, Numbers DEF JobInv, JobsDone
    <3>3. JobInv'
      BY <1>1, <3>1, <3>2 DEF JobInv, JobsDone
    <3> QED BY <1>1, <3>1, <3>3 DEF Counted
  <2>2. CASE JobCount
    <3>1. /\ job.at = "count" /\ job' = [job EXCEPT !.at = "store"] /\ stepCount' = stepCount + 1
          /\ UNCHANGED <<stepsDone, camCar>>
      BY <2>2 DEF JobCount
    <3>2. job' \in [at: {"idle", "count", "store"}, snap: Nat] /\ job'.at = "store" /\ job'.snap = job.snap
      BY <3>1 DEF JobInv
    <3>3. JobInv'
      BY <1>1, <3>1, <3>2 DEF JobInv, JobsDone
    <3>4. Counted' = Counted + 1
      BY <1>1, <3>1, <3>2 DEF Counted, JobInv
    <3> QED BY <3>1, <3>3, <3>4
  <2>3. CASE JobStore
    <3>1. /\ job.at = "store" /\ job' = [job EXCEPT !.at = "idle"] /\ camCar' = job.snap
          /\ stepsDone' = stepsDone + 1 /\ stepCount' = stepCount
      BY <2>3 DEF JobStore
    <3>2. job' \in [at: {"idle", "count", "store"}, snap: Nat] /\ job'.at = "idle" /\ job.snap \in Nat
      BY <3>1 DEF JobInv
    <3>3. JobInv'
      BY <1>1, <3>1, <3>2 DEF JobInv, JobsDone
    <3>4. Counted' = Counted
      BY <1>1, <3>1, <3>2 DEF Counted, JobInv
    <3> QED BY <3>1, <3>3, <3>4
  <2> QED BY <2>1, <2>2, <2>3
<1>7. /\ pictures \in Nat /\ Len(results) \in Nat /\ Counted \in Int /\ resultCount \in Nat /\ stepCount \in Nat
      /\ \A i \in 1 .. Len(results) : results[i].picture \in Nat
  BY Numbers
<1>8. PhaseInv'
  <2>1. ASSUME inPhase, ~Void, NEW i \in 1 .. Len(results)
        PROVE  resultCount + i + Counted' <= results[i].picture + stepCount'
    <3>1. resultCount + i + Counted <= results[i].picture + stepCount
      BY <2>1 DEF PhaseInv
    <3> QED BY <1>6, <1>7, <3>1
  <2>2. inPhase /\ ~Void => resultCount + Len(results) + Counted' <= pictures + stepCount'
    BY <1>6, <1>7 DEF PhaseInv
  <2> QED BY <1>1, <1>3, <1>4, <2>1, <2>2 DEF PhaseInv
<1>9. SettledInv'
  BY <1>1, <1>3, <1>4, <1>6, <1>7 DEF SettledInv
<1> QED BY <1>5, <1>6, <1>8, <1>9

LEMMA ReceiveStep == ASSUME IInv, ResultReceive PROVE IInv'
<1> USE DEF IInv
<1>1. PICK n \in 1 .. Len(results) :
         /\ resultCount' = resultCount + 1
         /\ results' = SubSeq(results, n + 1, Len(results))
         /\ \E read \in {results[1].read, results[1].read \/ n > 1} :
              main' = IF read THEN [main EXCEPT !.at = "head", !.picture = results[1].picture, !.merged = n > 1]
                      ELSE main
         /\ prompt' = (prompt /\ JobsDone /\ results[n].picture <= steps)
         /\ inPhase' = (inPhase /\ JobsDone /\ results[n].picture <= steps)
         /\ settled' = (settled /\ Len(results) = 1 /\ pictures = steps /\ JobsDone)
  BY DEF ResultReceive
<1>2. /\ UNCHANGED <<pictures, steps, messages, number, stepsDone, job, camCar, stepCount, headOk, bound>>
      /\ main.at = "idle"
  BY DEF ResultReceive, stepVars, jobVars
<1>3. inPhase' => inPhase /\ JobsDone /\ results[n].picture <= steps
  BY <1>1, Zenon
<1>4. settled' => settled /\ Len(results) = 1 /\ pictures = steps /\ JobsDone
  BY <1>1, Zenon
<1>5. /\ pictures \in Nat /\ steps \in Nat /\ Len(results) \in Nat /\ Counted \in Int
      /\ resultCount \in Nat /\ stepCount \in Nat
      /\ \A i \in 1 .. Len(results) : results[i].picture \in Nat
  BY Numbers
<1>6. /\ QueueInv' /\ Len(results') = Len(results) - n
      /\ \A i \in 1 .. Len(results') : n + i \in 1 .. Len(results) /\ results'[i] = results[n + i]
  BY <1>1, <1>2, QueueLemma
<1>7. 1 \in 1 .. Len(results) /\ results[1].picture \in Nat /\ results[1].picture <= results[n].picture
      /\ (n > 1 => results[1].picture < results[n].picture)
  <2>1. 1 \in 1 .. Len(results) /\ (n = 1 \/ n > 1)
    BY <1>5
  <2>2. n > 1 => results[1].picture < results[n].picture
    BY <2>1 DEF QueueInv
  <2> QED BY <1>5, <2>1, <2>2
<1>8. \/ main' = main
      \/ main' = [main EXCEPT !.at = "head", !.picture = results[1].picture, !.merged = n > 1]
  BY <1>1
<1>9. /\ main' \in Handlers
      /\ main'.at \in {"idle", "head"}
      /\ main'.at = "head" => main'.picture = results[1].picture /\ (main'.merged <=> n > 1)
  <2>1. CASE main' = main
    BY <1>2, <2>1 DEF HandlerInv
  <2>2. CASE main' = [main EXCEPT !.at = "head", !.picture = results[1].picture, !.merged = n > 1]
    <3> DEFINE b == n > 1
    <3>1. b \in BOOLEAN /\ main' = [main EXCEPT !.at = "head", !.picture = results[1].picture, !.merged = b]
      BY <2>2
    <3> HIDE DEF b
    <3>2. /\ main' \in Handlers
          /\ main'.at = "head" /\ main'.picture = results[1].picture /\ (main'.merged <=> b)
      BY <1>7, <3>1 DEF HandlerInv
    <3> QED BY <3>2 DEF b
  <2> QED BY <1>8, <2>1, <2>2
<1>10. Counted' = Counted /\ ~Void /\ ~Void' /\ ~Handling /\ (Handling' <=> main'.at = "head")
  BY <1>2, <1>9 DEF Counted, Void, Handling
<1>11. resultCount' = resultCount + 1 /\ resultCount' \in Nat /\ resultCount' > 0
  <2>1. resultCount' = resultCount + 1
    BY <1>1, Zenon
  <2> QED BY <1>5, <2>1
<1>12. JobInv' /\ InPhaseBindsRight' /\ JobsDone' = JobsDone
  <2>1. JobInv'
    BY <1>2, <1>11 DEF JobInv, JobsDone
  <2>2. InPhaseBindsRight'
    BY <1>2 DEF InPhaseBindsRight
  <2>3. JobsDone' = JobsDone
    BY <1>2 DEF JobsDone
  <2> QED BY <2>1, <2>2, <2>3
<1>13. HandlerInv'
  BY <1>2, <1>11, <1>3, <1>4, <1>5, <1>9, <1>10, <1>12 DEF HandlerInv
<1>14. PhaseInv'
  <2>1. SUFFICES ASSUME inPhase' PROVE PhaseInv'
    BY DEF PhaseInv
  <2>2. /\ inPhase /\ JobsDone /\ results[n].picture <= steps
        /\ resultCount + Len(results) + Counted <= pictures + stepCount
        /\ \A i \in 1 .. Len(results) : resultCount + i + Counted <= results[i].picture + stepCount
    BY <1>3, <1>10, <2>1 DEF PhaseInv
  <2>3. (resultCount + 1) + Len(results') + Counted <= pictures + stepCount
    BY <1>5, <1>6, <2>2
  <2>4. ASSUME NEW i \in 1 .. Len(results')
        PROVE  (resultCount + 1) + i + Counted <= results'[i].picture + stepCount
    <3>1. n + i \in 1 .. Len(results) /\ results'[i] = results[n + i]
      BY <1>6
    <3>2. resultCount + (n + i) + Counted <= results[n + i].picture + stepCount /\ results[n + i].picture \in Nat
      BY <1>5, <2>2, <3>1
    <3>3. i \in Nat /\ n \in Nat /\ n >= 1
      BY <1>5, <1>6
    <3> QED BY <1>5, <3>1, <3>2, <3>3
  <2>5. (resultCount + 1) + Counted <= results[1].picture + stepCount
    BY <1>5, <1>7, <2>2
  <2>6. results[1].picture <= steps /\ (n > 1 => results[1].picture < steps)
    <3>1. results[n].picture \in Nat /\ results[n].picture <= steps
      BY <1>5, <2>2
    <3> QED BY <1>5, <1>7, <3>1
  <2>7. number = steps
    <3>1. n \in 1 .. Len(results) /\ ~(results[n].picture > steps)
      BY <1>5, <2>2
    <3> QED BY <2>2, <3>1 DEF PhaseInv
  <2> QED BY <1>1, <1>2, <1>9, <1>10, <2>2, <2>3, <2>4, <2>5, <2>6, <2>7 DEF PhaseInv
<1>15. SettledInv'
  <2>1. SUFFICES ASSUME settled' PROVE SettledInv'
    BY DEF SettledInv
  <2>2. settled /\ Len(results) = 1 /\ pictures = steps /\ n = 1 /\ Len(results') = 0
    <3>1. settled /\ Len(results) = 1 /\ pictures = steps /\ Len(results') = Len(results) - n
      BY <1>4, <1>6, <2>1
    <3> QED BY <3>1
  <2>3. resultCount + 1 + Counted = pictures + stepCount
    BY <1>5, <1>10, <2>2 DEF SettledInv
  <2> QED BY <1>1, <1>2, <1>5, <1>10, <2>2, <2>3 DEF SettledInv
<1> QED BY <1>6, <1>12, <1>13, <1>14, <1>15

LEMMA ReadStep == ASSUME IInv, LookHead \/ ReadCount \/ ReadCar \/ HeadDiff PROVE IInv'
<1> USE DEF IInv
<1>1. UNCHANGED <<pictures, results, steps, messages, number, stepsDone, job, camCar, resultCount, bound, inPhase, settled>>
  BY DEF LookHead, ReadCount, ReadCar, HeadDiff, cameraVars, stepVars, jobVars, historyVars
<1>2. QueueInv' /\ InPhaseBindsRight' /\ JobsDone' = JobsDone /\ Counted' = Counted
  BY <1>1 DEF QueueInv, InPhaseBindsRight, JobsDone, Counted
<1>3. number' = number /\ steps' = steps
  BY <1>1
<1>4. CASE LookHead
  <2>1. /\ main.at = "head" /\ stepCount' = IF headOk THEN stepCount ELSE 0
        /\ main' = [main EXCEPT !.at = "read", !.headOk = headOk] /\ headOk' = headOk
    BY <1>4 DEF LookHead
  <2>2. /\ main' \in Handlers
        /\ main'.at = "read" /\ main'.picture = main.picture /\ main'.merged = main.merged
        /\ (main'.headOk <=> headOk)
    BY <2>1 DEF HandlerInv
  <2>3. JobInv'
    BY <1>1, <2>1 DEF JobInv, JobsDone
  <2>4. Handling /\ Handling' /\ ~Void /\ (Void' <=> ~headOk) /\ (~Void' => stepCount' = stepCount)
        /\ (Void' => stepCount' = 0)
    BY <2>1, <2>2 DEF Handling, Void
  <2>5. HandlerInv'
    BY <1>1, <1>2, <2>1, <2>2, <2>4 DEF HandlerInv
  <2>6. PhaseInv' /\ SettledInv'
    BY <1>1, <1>2, <2>2, <2>4 DEF PhaseInv, SettledInv
  <2> QED BY <1>2, <2>3, <2>5, <2>6
<1>5. CASE ReadCount \/ ReadCar
  <2>1. /\ UNCHANGED <<headOk, stepCount>>
        /\ \/ /\ main.at \in {"read", "count"}
              /\ main' = [main EXCEPT !.at = IF @ = "read" THEN "car" ELSE "judge", !.count = stepCount]
           \/ /\ main.at \in {"read", "car"}
              /\ main' = [main EXCEPT !.at = IF @ = "read" THEN "count" ELSE "judge", !.car = camCar]
    BY <1>5 DEF ReadCount, ReadCar
  <2>2. stepCount \in Nat /\ camCar \in Nat
    BY DEF JobInv
  <2>3. /\ main' \in Handlers /\ main.at \in {"read", "count", "car"}
        /\ main'.at \in {"count", "car", "judge"}
        /\ main'.picture = main.picture /\ main'.merged = main.merged /\ main'.headOk = main.headOk
        /\ main'.at \in {"car", "judge"} =>
              main'.count = stepCount \/ (main.at \in {"car", "judge"} /\ main'.count = main.count)
        /\ main'.at \in {"count", "judge"} =>
              main'.car = camCar \/ (main.at \in {"count", "judge"} /\ main'.car = main.car)
    <3>1. main \in Handlers
      BY DEF HandlerInv
    <3>2. CASE /\ main.at \in {"read", "count"}
               /\ main' = [main EXCEPT !.at = IF @ = "read" THEN "car" ELSE "judge", !.count = stepCount]
      BY ONLY <2>2, <3>1, <3>2 DEF Handlers
    <3>3. CASE /\ main.at \in {"read", "car"}
               /\ main' = [main EXCEPT !.at = IF @ = "read" THEN "count" ELSE "judge", !.car = camCar]
      BY ONLY <2>2, <3>1, <3>3 DEF Handlers
    <3> QED BY <2>1, <3>2, <3>3
  <2>4. Handling /\ Handling' /\ (Void' <=> Void) /\ JobInv'
    BY <1>1, <2>1, <2>3 DEF Handling, Void, JobInv, JobsDone
  <2>5. HandlerInv'
    BY <1>1, <1>2, <2>1, <2>3, <2>4 DEF HandlerInv
  <2>6. PhaseInv' /\ SettledInv'
    BY <1>1, <1>2, <2>1, <2>3, <2>4 DEF PhaseInv, SettledInv
  <2> QED BY <1>2, <2>4, <2>5, <2>6
<1>6. CASE HeadDiff
  <2>1. main' = main /\ stepCount' = stepCount /\ headOk' \in BOOLEAN
    BY <1>6 DEF HeadDiff
  <2>2. Handling' = Handling /\ Void' = Void /\ JobInv'
    BY <1>1, <2>1 DEF Handling, Void, JobInv, JobsDone
  <2> QED BY <1>1, <1>2, <2>1, <2>2 DEF HandlerInv, PhaseInv, SettledInv
<1> QED BY <1>4, <1>5, <1>6

LEMMA JudgeStep == ASSUME IInv, Accept \/ Ignore PROVE IInv'
<1> USE DEF IInv
<1>1. /\ UNCHANGED <<pictures, results, steps, messages, number, stepsDone, job, camCar, resultCount, headOk>>
      /\ main.at = "judge" /\ main' = NoHandler
  BY DEF Accept, Ignore, cameraVars, stepVars, jobVars
<1>2. /\ QueueInv' /\ JobsDone' = JobsDone /\ Counted' = Counted
      /\ ~Handling' /\ ~Void' /\ Handling
      /\ main' \in Handlers
  BY <1>1 DEF QueueInv, JobsDone, Counted, Handling, Void, NoHandler
<1>3. HandlerInv'
  BY <1>1, <1>2 DEF HandlerInv
<1>4. /\ pictures \in Nat /\ steps \in Nat /\ stepsDone \in Nat /\ camCar \in Nat /\ Len(results) \in Nat
      /\ resultCount \in Nat /\ stepCount \in Nat /\ main.picture \in Nat /\ Counted \in Int
      /\ results = <<>> => Len(results) = 0
  BY Numbers DEF HandlerInv
<1>5. JobsDone => Counted = steps /\ camCar = number
  BY Numbers
<1>6. inPhase \/ settled => /\ JobsDone /\ resultCount > 0 /\ main.count = stepCount /\ main.car = camCar
                            /\ Void => stepCount = 0
  BY <1>1, <1>2 DEF HandlerInv
<1>7. CASE Accept
  <2>1. /\ main.count = resultCount /\ stepCount' = stepCount /\ inPhase' = inPhase
        /\ bound' = [picture |-> main.picture, merged |-> main.merged, car |-> main.car,
                     prompt |-> prompt, inPhase |-> inPhase]
    BY <1>7 DEF Accept
  <2>2. settled' => settled \/ (NothingUnderWay /\ stepCount = resultCount)
    BY <1>7, Zenon DEF Accept
  <2>3. inPhase \/ settled => ~Void /\ stepCount = resultCount
    BY <1>4, <1>6, <2>1
  <2>4. InPhaseBindsRight'
    <3>1. SUFFICES ASSUME inPhase PROVE main.car = main.picture /\ ~main.merged
      BY <2>1 DEF InPhaseBindsRight
    <3>2. resultCount + Counted <= main.picture + stepCount
      BY <1>2, <2>3, <3>1 DEF PhaseInv
    <3>3. main.picture <= steps /\ (main.merged => main.picture < steps)
      BY <1>2, <3>1 DEF PhaseInv
    <3>4. steps <= main.picture
      BY <1>4, <1>5, <1>6, <2>3, <3>1, <3>2
    <3>5. main.picture = steps /\ number = steps
      BY <1>2, <1>4, <3>1, <3>3, <3>4 DEF PhaseInv
    <3> QED BY <1>4, <1>5, <1>6, <3>1, <3>3, <3>5
  <2>5. JobInv'
    BY <1>1, <2>1 DEF JobInv, JobsDone
  <2>6. PhaseInv'
    BY <1>1, <1>2, <2>1, <2>3 DEF PhaseInv
  <2>7. NothingUnderWay => Len(results) = 0 /\ pictures = steps /\ Counted = steps
    BY <1>4, <1>5 DEF NothingUnderWay
  <2>8. SettledInv'
    <3>1. CASE settled
      BY <1>1, <1>2, <2>1, <2>3, <3>1 DEF SettledInv
    <3>2. CASE NothingUnderWay /\ stepCount = resultCount
      BY <1>1, <1>2, <1>4, <2>1, <2>7, <3>2 DEF SettledInv
    <3> QED BY <2>2, <3>1, <3>2 DEF SettledInv
  <2> QED BY <1>2, <1>3, <2>4, <2>5, <2>6, <2>8
<1>8. CASE Ignore
  <2>1. stepCount' = resultCount /\ bound' = bound
    BY <1>8 DEF Ignore
  <2>2. (inPhase' => NothingUnderWay) /\ (settled' => NothingUnderWay)
    BY <1>8, Zenon DEF Ignore
  <2>3. NothingUnderWay => Len(results) = 0 /\ pictures = steps /\ Counted = steps
    BY <1>4, <1>5 DEF NothingUnderWay
  <2>4. JobInv' /\ InPhaseBindsRight'
    BY <1>1, <1>4, <2>1 DEF JobInv, JobsDone, InPhaseBindsRight
  <2>5. PhaseInv' /\ SettledInv'
    BY <1>1, <1>2, <1>4, <2>1, <2>2, <2>3 DEF PhaseInv, SettledInv
  <2> QED BY <1>2, <1>3, <2>4, <2>5
<1> QED BY <1>7, <1>8

LEMMA Inductive == IInv /\ [Next]_vars => IInv'
<1> SUFFICES ASSUME IInv, [Next]_vars PROVE IInv'
  OBVIOUS
<1>1. CASE UNCHANGED vars
  <2>1. UNCHANGED <<pictures, results, steps, messages, number, stepsDone, job, camCar, stepCount, headOk, resultCount, main,
                    bound, inPhase, settled>>
    BY <1>1 DEF vars, cameraVars, stepVars, jobVars, historyVars
  <2> QED BY <2>1 DEF IInv, QueueInv, JobInv, HandlerInv, PhaseInv, SettledInv, InPhaseBindsRight,
                      Handling, Void, Counted, JobsDone
<1> QED BY <1>1, PictureStep, StepStep, JobsStep, ReceiveStep, ReadStep, JudgeStep DEF Next

LEMMA IInvariant == Spec => []IInv
BY Initially, Inductive, PTL DEF Spec

\* dataprocessmain.cpp:103-133, devicemanager.cpp:546-581: a code that was accepted while
\* the counts were in phase is the code of one result and went to the car its picture
\* was taken of, for every number of pictures, of results that are late, lost or read
\* as one, and of rounds in which the head car's time did not fit.
THEOREM CodesFindTheirCars == Spec => []InPhaseBindsRight
<1>1. IInv => InPhaseBindsRight
  BY DEF IInv
<1> QED BY <1>1, IInvariant, PTL

\* A settled result has a count that fits.
LEMMA SettledLemma == IInv => (Ignore => ~(settled /\ main.headOk))
<1> SUFFICES ASSUME IInv, Ignore, settled, main.headOk PROVE FALSE
  OBVIOUS
<1> USE DEF IInv
<1>1. main.at = "judge" /\ main.count # resultCount /\ Handling /\ ~Void
  BY DEF Ignore, Handling, Void
<1>2. JobsDone /\ main.count = stepCount
  BY <1>1 DEF HandlerInv
<1>3. /\ pictures \in Nat /\ steps \in Nat /\ Len(results) \in Nat /\ resultCount \in Nat /\ stepCount \in Nat
      /\ Counted = steps
  BY <1>2, Numbers
<1>4. Len(results) + steps = pictures /\ resultCount + Len(results) + Counted = pictures + stepCount
  BY <1>1 DEF SettledInv
<1> QED BY <1>1, <1>2, <1>3, <1>4

\* dataprocessmain.cpp:129-133, 166-182: once a result was judged with nothing on its
\* way, no result that comes alone and in time is ignored, unless the head car's time
\* did not fit: setting the count after an ignored result heals what it ignored.
THEOREM SettledResultsAreTaken == Spec => SettledIsAccepted
BY SettledLemma, IInvariant, PTL DEF SettledIsAccepted
====
