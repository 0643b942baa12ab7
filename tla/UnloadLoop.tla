---- MODULE UnloadLoop ----
(***************************************************************************)
(* How DeviceManager decides to unload a car: the thread carLoop, which    *)
(* works on a private copy of the car items, and the main-thread handlers  *)
(* that change the items through CarItemsWriter.  The copy is refreshed    *)
(* when carLoop_readCarItemsVersion differs from the version it was taken  *)
(* at; every writer of a port is to increment the version after its write. *)
(*                                                                         *)
(* Where a car is and what time it is are inputs here (StepPosition models *)
(* them): at any moment a car may or may not be in the 7 ms window of its  *)
(* port, its port may be locked by the PLC, a photocell may have fired.    *)
(* The lane is one serial-server connection, which can fail and is never   *)
(* reconnected.                                                            *)
(***************************************************************************)
EXTENDS CarItemsWriter

CONSTANTS
    Main,         \* the main thread
    CarLoop,      \* the thread m_pollCarThread
    TestPort,     \* test_slot_id, the port for parcels nobody can place
    EmptyLimit,   \* empty reports before a car is sent to TestPort (3)
    MaxVersion    \* bound on carLoop_readCarItemsVersion

ASSUME LoopAssumption ==
    /\ Callers = {Main, CarLoop} /\ Main # CarLoop
    /\ IsFiniteSet(Cars) /\ Cars = 1 .. Cardinality(Cars)
    /\ TestPort \in Ports
    /\ EmptyLimit \in Nat /\ EmptyLimit < MaxTurns
    /\ MaxVersion \in Nat

VARIABLES
    version,   \* carLoop_readCarItemsVersion
    copy,      \* copy_carItems
    lastVer,   \* lastCarItemsVersion
    seenVer,   \* ver2, read under the shared lock
    loop,      \* where carLoop is
    next,      \* the car the for loop of carLoop looks at
    handler,   \* where the running handler of the main thread is
    job,       \* the write that handler works on
    headSeen,  \* originSignalCount >= 1
    link,      \* SocketConnection of the serial server
    \* history, read by properties only:
    spent,     \* cars driven and given no port since
    tainted,   \* cars for which a write was deferred since their last clean reset
    hidden     \* cars the worker changed since the copy was taken

loopVars == <<copy, lastVer, seenVer, loop, next>>
mainVars == <<handler, job>>
envVars == <<headSeen, link>>
history == <<spent, tainted, hidden>>
unloadVars == <<version, loopVars, mainVars, envVars, history>>
allVars == <<vars, unloadVars>>

LoopTypeOK ==
    /\ version \in 0 .. MaxVersion /\ lastVer \in 0 .. version /\ seenVer \in 0 .. version
    /\ copy \in [Cars -> CarItem]
    /\ loop \in {"top", "reload", "copy", "scan", "init", "initing"}
    /\ next \in 1 .. Cardinality(Cars) + 1
    /\ handler \in {"idle", "slotRead", "emptyRead", "write", "writing"}
    /\ job \in Call
    /\ headSeen \in BOOLEAN /\ link \in BOOLEAN
    /\ spent \subseteq Cars /\ tainted \subseteq Cars /\ hidden \subseteq Cars

LoopInit ==
    /\ Init
    /\ version = 0 /\ lastVer = 0 /\ seenVer = 0
    /\ copy = [c \in Cars |-> EmptyItem]
    /\ loop = "top" /\ next = 1
    /\ handler = "idle" /\ job = InitItem(1)
    /\ headSeen = FALSE /\ link = TRUE
    /\ spent = {} /\ tainted = {} /\ hidden = {}

\* Nothing deferred is on its way into the table.
NothingDeferred == Outstanding = <<>> /\ \A t \in Callers : pc[t] # "push"

IncVersion == /\ version < MaxVersion
              /\ version' = version + 1

----------------------------------------------------------------------------
\* Main thread, updateSlotByCarID: an invalid slot becomes the test slot; the
\* present port is read under the shared lock, which is given up before ...
SlotAssigned(c, p) ==
    /\ handler = "idle"
    /\ BeginRead(Main)
    /\ handler' = "slotRead"
    /\ job' = WriteSlot(c, IF p \in Ports THEN p ELSE TestPort)
    /\ UNCHANGED <<version, loopVars, envVars, history>>

\* ... the comparison: the same port again writes nothing.
SlotCompared ==
    /\ handler = "slotRead"
    /\ EndRead(Main)
    /\ handler' = IF items[job.car].port = job.port THEN "idle" ELSE "write"
    /\ UNCHANGED <<job, version, loopVars, envVars, history>>

\* emptyReceive: the empty-car photocell reports a car.
EmptyReported(c) ==
    /\ handler = "idle"
    /\ BeginRead(Main)
    /\ handler' = "emptyRead"
    /\ job' = SetRunNum(c, 0)
    /\ UNCHANGED <<version, loopVars, envVars, history>>

EmptyDecided ==
    /\ handler = "emptyRead"
    /\ EndRead(Main)
    /\ LET it == items[job.car] IN
       \/ /\ ~headSeen \/ it.loaded
          /\ handler' = "idle" /\ job' = job
       \/ /\ headSeen /\ ~it.loaded
          /\ handler' = "write"
          /\ job' = IF it.turns <= EmptyLimit THEN SetRunNum(job.car, it.turns + 1)
                                              ELSE WriteSlot(job.car, TestPort)
    /\ UNCHANGED <<version, loopVars, envVars, history>>

\* updateCodeToCarMap reads the old code without the lock: while another
\* thread writes the table, the comparison can come out either way.
CodeScanned(c, x) ==
    /\ handler = "idle" /\ worker # "off"
    /\ items[c].code # x \/ holder \in {CarLoop, "worker"}
    /\ handler' = "write"
    /\ job' = WriteItem(c, x)
    /\ UNCHANGED <<vars, version, loopVars, envVars, history>>

\* The call of the writer ...
MainWrite ==
    /\ handler = "write"
    /\ \/ /\ WriteSync(Main, job) /\ UNCHANGED tainted
       \/ /\ WriteRefused(Main) /\ tainted' = tainted \cup {job.car}
    /\ handler' = "writing"
    /\ spent' = IF job.type = "WriteSlot" THEN spent \ {job.car} ELSE spent
    /\ UNCHANGED <<job, version, loopVars, envVars, hidden>>

MainInside ==
    /\ Release(Main) \/ Notify(Main) \/ Push(Main, job)
    /\ UNCHANGED unloadVars

\* Mutant: the new port is not announced.
MainFinishSilently ==
    /\ handler = "writing" /\ pc[Main] = "idle"
    /\ handler' = "idle"
    /\ UNCHANGED <<vars, version, job, loopVars, envVars, history>>

\* ... after which the writers of a port, and only they, count the version up.
MainFinish ==
    /\ handler = "writing" /\ pc[Main] = "idle"
    /\ IF job.type = "WriteSlot" THEN IncVersion ELSE UNCHANGED version
    /\ handler' = "idle"
    /\ UNCHANGED <<vars, job, loopVars, envVars, history>>

HeadReceive ==
    /\ handler = "idle" /\ ~headSeen
    /\ headSeen' = TRUE
    /\ UNCHANGED <<vars, version, loopVars, mainVars, link, history>>

----------------------------------------------------------------------------
\* Mutant: off by one.
LoopTopLate ==
    /\ loop = "top" /\ headSeen /\ worker # "off"
    /\ loop' = IF version > lastVer + 1 THEN "reload" ELSE "scan"
    /\ next' = 1
    /\ UNCHANGED <<vars, version, copy, lastVer, seenVer, mainVars, envVars, history>>

\* carLoop: compare the versions at the top of a round.
LoopTop ==
    /\ loop = "top" /\ headSeen /\ worker # "off"
    /\ loop' = IF version # lastVer THEN "reload" ELSE "scan"
    /\ next' = 1
    /\ UNCHANGED <<vars, version, copy, lastVer, seenVer, mainVars, envVars, history>>

\* Take the shared lock, read the version again ...
LoopReload ==
    /\ loop = "reload"
    /\ BeginRead(CarLoop)
    /\ seenVer' = version
    /\ loop' = "copy"
    /\ UNCHANGED <<version, copy, lastVer, next, mainVars, envVars, history>>

\* ... and copy the table; either branch of the code keeps the second version.
LoopCopy ==
    /\ loop = "copy"
    /\ EndRead(CarLoop)
    /\ copy' = items /\ lastVer' = seenVer
    /\ hidden' = {}
    /\ loop' = "scan"
    /\ UNCHANGED <<version, seenVer, next, mainVars, envVars, spent, tainted>>

\* A car that is not unloaded now: no valid port, not loaded, not in its
\* window, or its port is locked.
LoopSkip ==
    /\ loop = "scan" /\ next \in Cars
    /\ next' = next + 1
    /\ UNCHANGED <<vars, version, copy, lastVer, seenVer, loop, mainVars, envVars, history>>

\* The round ends: all cars seen, or a photocell fired meanwhile (break), or
\* the time since the last head signal is implausible (continue).
LoopEnd ==
    /\ loop = "scan"
    /\ loop' = "top"
    /\ UNCHANGED <<vars, version, copy, lastVer, seenVer, next, mainVars, envVars, history>>

\* handleCarUnload, driveByCarID: the command is refused without a connection;
\* with one the call returns true whether or not send() worked.
LoopDrive ==
    /\ loop = "scan" /\ next \in Cars
    /\ copy[next].port \in Ports /\ copy[next].loaded
    /\ \/ /\ ~link
          /\ next' = next + 1
          /\ UNCHANGED <<loop, link, spent>>
       \/ /\ link
          /\ link' \in BOOLEAN
          /\ spent' = spent \cup {next}
          /\ loop' = "init"
          /\ UNCHANGED next
    /\ UNCHANGED <<vars, version, copy, lastVer, seenVer, mainVars, headSeen, tainted, hidden>>

\* The reset of the unloaded car through the writer ...
LoopReset ==
    /\ loop = "init"
    /\ \/ /\ WriteSync(CarLoop, InitItem(next))
          /\ tainted' = IF NothingDeferred THEN tainted \ {next} ELSE tainted
       \/ /\ WriteRefused(CarLoop)
          /\ tainted' = tainted \cup {next}
    /\ loop' = "initing"
    /\ UNCHANGED <<version, copy, lastVer, seenVer, next, mainVars, envVars, spent, hidden>>

LoopInside ==
    /\ \/ Release(CarLoop) \/ Notify(CarLoop) \/ Push(CarLoop, InitItem(next))
    /\ UNCHANGED unloadVars

\* Mutant: the reset is not announced.
LoopFinishSilently ==
    /\ loop = "initing" /\ pc[CarLoop] = "idle"
    /\ next' = next + 1
    /\ loop' = "scan"
    /\ UNCHANGED <<vars, version, copy, lastVer, seenVer, mainVars, envVars, history>>

\* ... and the version of the items after it.
LoopFinish ==
    /\ loop = "initing" /\ pc[CarLoop] = "idle"
    /\ IncVersion
    /\ next' = next + 1
    /\ loop' = "scan"
    /\ UNCHANGED <<vars, copy, lastVer, seenVer, mainVars, envVars, history>>

----------------------------------------------------------------------------
\* The worker thread of the writer.
WorkerMoves ==
    /\ StartLoop \/ WorkerCheck \/ WorkerBlock \/ WorkerLock \/ WorkerRelease \/ SpuriousWakeup
    /\ UNCHANGED unloadVars

WorkerApplies ==
    /\ WorkerApply
    /\ LET hit == {Head(localq).carID} \cap Cars IN
       /\ hidden' = hidden \cup hit
       /\ tainted' = tainted \cup hit
    /\ UNCHANGED <<version, loopVars, mainVars, envVars, spent>>

MainStarts ==
    \/ \E c \in Cars : \/ \E p \in Ports \cup {NoPort} : SlotAssigned(c, p)
                       \/ EmptyReported(c)
                       \/ \E x \in Codes : CodeScanned(c, x)
    \/ HeadReceive

MainStep == SlotCompared \/ EmptyDecided \/ MainWrite \/ MainInside \/ MainFinish

LoopStep == LoopTop \/ LoopCopy \/ LoopSkip \/ LoopEnd \/ LoopDrive \/ LoopReset
            \/ LoopInside \/ LoopFinish

LoopNext == \/ MainStarts \/ MainStep
            \/ LoopStep \/ LoopReload
            \/ WorkerMoves \/ WorkerApplies

\* The threads run; carLoop and the worker get the lock in the end because its
\* other holders are short and the callers pause.
LoopFairness ==
    /\ WF_allVars(MainStep)
    /\ WF_allVars(LoopStep) /\ SF_allVars(LoopReload)
    /\ WF_allVars(StartLoop /\ UNCHANGED unloadVars)
    /\ WF_allVars((WorkerCheck \/ WorkerBlock \/ WorkerRelease) /\ UNCHANGED unloadVars)
    /\ WF_allVars(WorkerApplies)
    /\ SF_allVars(WorkerLock /\ UNCHANGED unloadVars)

LoopSpec == LoopInit /\ [][LoopNext]_allVars /\ LoopFairness

----------------------------------------------------------------------------
\* The version protocol: carLoop's copy differs from the table in the port of a
\* car only while the version says so, while the writer of that car has not yet
\* counted the version up, or because the worker applied a deferred write,
\* which nobody announces.
CopyIsCurrent ==
    \A c \in Cars : copy[c].port # items[c].port =>
        \/ version # lastVer
        \/ c \in hidden
        \/ handler = "writing" /\ job.type = "WriteSlot" /\ job.car = c
        \/ loop = "initing" /\ next = c

\* A car is driven a second time for the same parcel only if a write to it was
\* deferred; without contention for the lock one parcel means one command.
DoubleDriveOnlyIfDeferred ==
    [][\A c \in Cars : c \in spent /\ LoopDrive /\ next = c /\ link => c \in tainted]_allVars

\* Every announced change is taken over by carLoop, if the bound on versions
\* does not stop the writers.
ChangesAreSeen ==
    \A n \in 1 .. MaxVersion : (version >= n /\ headSeen) ~> (lastVer >= n \/ version = MaxVersion)
====
