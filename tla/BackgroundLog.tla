---- MODULE BackgroundLog ----
(***************************************************************************)
(* Logger (logger.cpp) and its copy StepLogger: any thread logs by putting *)
(* a message into a queue; a background thread takes the messages out and  *)
(* writes them, each with the time, to the file of the present hour, which *)
(* lies in the directory of the present day.  The window's close event     *)
(* closes Logger; nobody closes StepLogger (closes).                       *)
(*                                                                         *)
(* The clock is read anew for each purpose, so an hour can end between two *)
(* readings; it is the local time of system_clock, which can be set back.  *)
(* Files fail to open, insertions into them fail, and what throws on the   *)
(* way to the file costs the message.  A message is its place in the order *)
(* of the calls of Log.                                                    *)
(***************************************************************************)
EXTENDS Naturals, Sequences

CONSTANTS
    HoursPerDay,
    MaxHours,     \* bound on the hours that pass
    MaxMessages   \* bound on the messages

ASSUME LogAssumption ==
    /\ HoursPerDay \in Nat \ {0}
    /\ MaxHours \in Nat /\ MaxMessages \in Nat

VARIABLES
    closes,       \* this log is closed before the process exits (constant)
    hour,         \* the clock
    logged,       \* messages logged so far
    queue,        \* g_msgQueue
    stop,         \* g_stopBackground
    bg,           \* where the background thread is
    current,      \* the message it writes
    currentHour,  \* the hour rotateLogFileIfNeeded last saw
    file,         \* logFile: is it open, has every insertion worked, its directory's
                  \* day and its name's hour
    main,         \* where the closing thread is
    \* history, read by properties only:
    handled,      \* what became of the messages taken from the queue, in order
    seenHour,     \* the hour when the message in hand was checked against its file
    fault,        \* an error has struck the present file since it was called for
    steady,       \* since then the clock was not set back, and no exception has left
                  \* the file behind currentHour
    loggedAtStop  \* messages logged before close() asked to stop

fileVars == <<currentHour, file>>
errorVars == <<fault, steady>>
historyVars == <<handled, seenHour, errorVars, loggedAtStop>>
vars == <<closes, hour, logged, queue, stop, bg, current, fileVars, main, historyVars>>

Hours == 0 .. MaxHours
Day(h) == h \div HoursPerDay
File == [open: BOOLEAN, good: BOOLEAN, day: Hours, name: Hours]
Line == [message: 1 .. MaxMessages, outcome: {"written", "lost", "thrown"}]

TypeOK ==
    /\ closes \in BOOLEAN
    /\ hour \in Hours /\ logged \in 0 .. MaxMessages
    /\ queue \in Seq(1 .. logged)
    /\ stop \in BOOLEAN
    /\ bg \in {"look", "blocking", "wait", "rotate", "open", "write", "done"}
    /\ current \in 0 .. logged
    /\ {currentHour, seenHour} \subseteq Hours /\ file \in File
    /\ main \in {"run", "stopped", "joining", "joined", "closed", "exited"}
    /\ handled \in Seq(Line)
    /\ fault \in BOOLEAN /\ steady \in BOOLEAN
    /\ loggedAtStop \in 0 .. logged

\* The constructor opened the file of the hour it was called in and started the
\* thread.
Init ==
    /\ closes \in BOOLEAN
    /\ hour = 0 /\ logged = 0 /\ queue = <<>> /\ stop = FALSE
    /\ bg = "look" /\ current = 0
    /\ currentHour = 0
    /\ file \in File /\ file.good /\ file.day = 0 /\ file.name = 0
    /\ main = "run"
    /\ handled = <<>> /\ seenHour = 0 /\ loggedAtStop = 0
    /\ fault = ~file.open /\ steady = TRUE

Alive == main # "exited"

Tick ==
    /\ Alive /\ hour < MaxHours
    /\ hour' = hour + 1
    /\ UNCHANGED <<closes, logged, queue, stop, bg, current, fileVars, main, historyVars>>

\* The clock is set back, by its owner or at the end of summer time.
SetBack ==
    /\ Alive
    /\ hour' \in 0 .. hour - 1
    /\ steady' = FALSE
    /\ UNCHANGED <<closes, logged, queue, stop, bg, current, fileVars, main, handled,
                   seenHour, fault, loggedAtStop>>

----------------------------------------------------------------------------
\* notify_one, notify_all: the background thread is the only one that waits.
Notify == bg' = IF bg = "wait" THEN "look" ELSE bg

\* Mutant: the message goes to the front.
LogInFront ==
    /\ Alive /\ bg # "blocking" /\ logged < MaxMessages
    /\ logged' = logged + 1
    /\ queue' = <<logged + 1>> \o queue
    /\ Notify
    /\ UNCHANGED <<closes, hour, stop, current, fileVars, main, historyVars>>

\* Log, in any thread and at any time; the background thread has the mutex from
\* its look at the queue until it waits.
Log ==
    /\ Alive /\ bg # "blocking" /\ logged < MaxMessages
    /\ logged' = logged + 1
    /\ queue' = Append(queue, logged + 1)
    /\ Notify
    /\ UNCHANGED <<closes, hour, stop, current, fileVars, main, historyVars>>

----------------------------------------------------------------------------
\* Mutant: a stop request is obeyed before the queue.
BgLookStopFirst ==
    /\ Alive /\ bg = "look"
    /\ IF stop THEN bg' = "done" /\ UNCHANGED <<queue, current>>
       ELSE IF queue # <<>>
       THEN queue' = Tail(queue) /\ current' = Head(queue) /\ bg' = "rotate"
       ELSE bg' = "blocking" /\ UNCHANGED <<queue, current>>
    /\ UNCHANGED <<closes, hour, logged, stop, fileVars, main, historyVars>>

\* With the mutex: take a message, or end if asked to, or get ready to wait.
BgLook ==
    /\ Alive /\ bg = "look"
    /\ IF queue # <<>>
       THEN queue' = Tail(queue) /\ current' = Head(queue) /\ bg' = "rotate"
       ELSE bg' = (IF stop THEN "done" ELSE "blocking") /\ UNCHANGED <<queue, current>>
    /\ UNCHANGED <<closes, hour, logged, stop, fileVars, main, historyVars>>

BgBlock ==
    /\ Alive /\ bg = "blocking"
    /\ bg' = "wait"
    /\ UNCHANGED <<closes, hour, logged, queue, stop, current, fileVars, main, historyVars>>

\* Mutant: wait instead of wait_for.
BgTimeoutNever == FALSE /\ UNCHANGED vars

\* wait_for ends after 500 ms.
BgTimeout ==
    /\ Alive /\ bg = "wait"
    /\ bg' = "look"
    /\ UNCHANGED <<closes, hour, logged, queue, stop, current, fileVars, main, historyVars>>

\* What becomes of the message in hand.
Handle(outcome) == handled' = Append(handled, [message |-> current, outcome |-> outcome])

\* An exception is caught, the thread goes on with the next message.
Catch == Handle("thrown") /\ bg' = "look"

CallForFile ==
    /\ currentHour' = hour /\ bg' = "open"
    /\ fault' = FALSE /\ steady' = TRUE

\* Mutant: another hour of the same day is not noticed.
BgRotateDaily ==
    /\ Alive /\ bg = "rotate"
    /\ \/ Day(hour) = Day(currentHour) /\ bg' = "write" /\ UNCHANGED <<currentHour, errorVars>>
       \/ Day(hour) # Day(currentHour) /\ CallForFile
    /\ seenHour' = hour
    /\ UNCHANGED <<closes, hour, logged, queue, stop, current, file, main, handled, loggedAtStop>>

\* rotateLogFileIfNeeded: another hour or day needs another file.  The hour is
\* stored whether or not the file will be opened.
BgRotate ==
    /\ Alive /\ bg = "rotate"
    /\ \/ hour = currentHour /\ bg' = "write" /\ UNCHANGED <<currentHour, errorVars>>
       \/ hour # currentHour /\ CallForFile
    /\ seenHour' = hour
    /\ UNCHANGED <<closes, hour, logged, queue, stop, current, file, main, handled, loggedAtStop>>

\* An exception leaves it before anything was stored, or, on another day, with the
\* hour stored and the old file still open.
BgRotateThrows ==
    /\ Alive /\ bg = "rotate"
    /\ Catch
    /\ \/ UNCHANGED <<currentHour, steady>>
       \/ Day(hour) # Day(currentHour) /\ currentHour' = hour /\ steady' = FALSE
    /\ UNCHANGED <<closes, hour, logged, queue, stop, current, file, main, seenHour, fault,
                   loggedAtStop>>

\* The old file is closed.  The directory is that of the hour seen, the name is made
\* from the clock.  open() clears the state of the stream if it works.
BgOpen ==
    /\ Alive /\ bg = "open"
    /\ \E ok \in BOOLEAN :
         /\ file' = [open |-> ok, good |-> ok, day |-> Day(currentHour), name |-> hour]
         /\ fault' = ~ok
    /\ bg' = "write"
    /\ UNCHANGED <<closes, hour, logged, queue, stop, current, currentHour, main, handled,
                   seenHour, steady, loggedAtStop>>

\* An exception between the two leaves no file open.
BgOpenThrows ==
    /\ Alive /\ bg = "open"
    /\ Catch
    /\ file' = [file EXCEPT !.open = FALSE]
    /\ fault' = TRUE
    /\ UNCHANGED <<closes, hour, logged, queue, stop, current, currentHour, main, seenHour, steady,
                   loggedAtStop>>

\* getCurrentTime, and the line if the file is open.  An insertion that fails leaves
\* the file open but its stream bad, and nothing is inserted into a bad stream.
BgWrite ==
    /\ Alive /\ bg = "write"
    /\ \/ /\ file.open /\ file.good
          /\ \/ Handle("written") /\ UNCHANGED <<file, fault>>
             \/ Handle("lost") /\ file' = [file EXCEPT !.good = FALSE] /\ fault' = TRUE
       \/ ~(file.open /\ file.good) /\ Handle("lost") /\ UNCHANGED <<file, fault>>
    /\ bg' = "look"
    /\ UNCHANGED <<closes, hour, logged, queue, stop, current, currentHour, main, seenHour, steady,
                   loggedAtStop>>

\* An exception from the making of the line.
BgWriteThrows ==
    /\ Alive /\ bg = "write"
    /\ Catch
    /\ UNCHANGED <<closes, hour, logged, queue, stop, current, fileVars, main, seenHour, errorVars,
                   loggedAtStop>>

----------------------------------------------------------------------------
\* close(): ask to stop ...
CloseStop ==
    /\ closes /\ main = "run"
    /\ stop' = TRUE /\ loggedAtStop' = logged
    /\ main' = "stopped"
    /\ UNCHANGED <<closes, hour, logged, queue, bg, current, fileVars, handled, seenHour,
                   errorVars>>

\* ... wake the thread ...
CloseNotify ==
    /\ main = "stopped"
    /\ Notify
    /\ main' = "joining"
    /\ UNCHANGED <<closes, hour, logged, queue, stop, current, fileVars, historyVars>>

\* ... wait for its end ...
CloseJoin ==
    /\ main = "joining" /\ bg = "done"
    /\ main' = "joined"
    /\ UNCHANGED <<closes, hour, logged, queue, stop, bg, current, fileVars, historyVars>>

\* ... and close the file.
CloseFile ==
    /\ main = "joined"
    /\ file' = [file EXCEPT !.open = FALSE]
    /\ main' = "closed"
    /\ UNCHANGED <<closes, hour, logged, queue, stop, bg, current, currentHour, historyVars>>

\* The application ends; the log object is never deleted.
Exit ==
    /\ main = (IF closes THEN "closed" ELSE "run")
    /\ main' = "exited"
    /\ UNCHANGED <<closes, hour, logged, queue, stop, bg, current, fileVars, historyVars>>

BgStep == \/ BgLook \/ BgBlock \/ BgTimeout \/ BgRotate \/ BgOpen \/ BgWrite
          \/ BgRotateThrows \/ BgOpenThrows \/ BgWriteThrows
CloseStep == CloseNotify \/ CloseJoin \/ CloseFile
Next == Tick \/ SetBack \/ Log \/ BgStep \/ CloseStop \/ CloseStep \/ Exit

\* The background thread and the closing thread run.
Fairness == WF_vars(BgStep) /\ WF_vars(CloseStep)

Spec == Init /\ [][Next]_vars /\ Fairness

----------------------------------------------------------------------------
InHand == IF bg \in {"rotate", "open", "write"} THEN <<current>> ELSE <<>>

\* No message is lost between the threads, doubled or overtaken: those handled,
\* the one in hand and those in the queue are all that were logged, in order.
AllInOrder ==
    [i \in 1 .. Len(handled) |-> handled[i].message] \o InHand \o queue
        = [i \in 1 .. logged |-> i]

\* When close() has joined the thread, and when the process exits after it, what
\* was logged before close() is handled.
CloseDrains ==
    main \in {"joined", "closed"} \/ (main = "exited" /\ closes)
        => Len(handled) >= loggedAtStop

\* A line goes to a file that fits it: in the directory of the day and not older than
\* the hour when its message was looked at, nor younger than the line's stamp; unless
\* the clock was set back or an exception left the old file open, which the next file
\* puts right.  And an error costs its own message and those that would go
\* to the same file, never one of another file: what nothing was thrown for is lost
\* only by an error since the present file was called for.
LineFits ==
    LET outcome == handled'[Len(handled')].outcome IN
    /\ outcome = "written" /\ steady =>
         /\ hour >= file.name /\ file.name >= seenHour
         /\ file.day = Day(seenHour)
    /\ outcome = "lost" => fault'
LinesFitTheirFile == [][handled' # handled => LineFits]_vars

\* The request to stop is made without the mutex and can come just before the
\* thread waits; close() returns all the same.
CloseReturns == (main = "stopped") ~> (main = "closed")

\* Everything logged is handled, if the process lives.
LoggedIsHandled ==
    \A n \in 1 .. MaxMessages :
        (logged >= n /\ ~stop) ~> (Len(handled) >= n \/ ~Alive)
====
