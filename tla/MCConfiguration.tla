---- MODULE MCConfiguration ----
(***************************************************************************)
(* Instance of Configuration for TLC: the main thread, the init thread,    *)
(* slotLoop and a job of the thread pool.  To bound the states, only one   *)
(* subject varies in a behaviour: strong_slot, the PLC, the locks of two   *)
(* cars (two buttons of Main, init's loop over the cars), or the uses of   *)
(* the pool beside that loop; their values do not depend on each other.    *)
(***************************************************************************)
EXTENDS Configuration

CONSTANTS main, init, slot, job, c1, c2, junk, none

VARIABLE subject

MCInit ==
    /\ Init
    /\ subject \in {"slot", "plc", "car", "pool"}
    /\ lockedCar = c1
    /\ errorCars[c1] = IF subject = "car" THEN "error" ELSE none
    /\ errorCars[c2] = IF subject = "car" THEN "-1" ELSE none
    /\ subject # "plc" => plcLock = FALSE
    /\ strongSlot \in CASE subject = "slot" -> Slots [] subject = "plc" -> {1, junk} [] OTHER -> {1}

MCNext ==
    /\ Next
    /\ UNCHANGED subject
    /\ subject # "slot" => UNCHANGED strongSlot /\ at'[main] # "resetQuery"
    /\ subject # "plc" => plcLock' = FALSE /\ linked' = FALSE /\ free' = FALSE
    /\ subject # "car" => at'[main] # "lockQuery"
    /\ subject \in {"plc", "slot"} => at'[init] # "nextCar"
    /\ subject = "car" => /\ UNCHANGED uses[job] /\ at'[init] # "start"
                          /\ at[main] = "idle" => at'[main] \in {"idle", "lockQuery"}
    /\ subject # "car" => \A t \in Users : uses'[t] <= 1

MCSpec == MCInit /\ [][MCNext]_<<vars, subject>> /\ Fairness
====
