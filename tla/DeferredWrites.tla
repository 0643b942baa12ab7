---- MODULE DeferredWrites ----
(***************************************************************************)
(* What CarItemsWriteThread promises the threads that write car items: a   *)
(* write never waits.  Either it takes effect at once, or it joins a       *)
(* first-in first-out list of deferred writes; every deferred write takes  *)
(* effect exactly once, in the order of the list, and eventually.          *)
(* There is no promise about a write made at once while older writes are   *)
(* still deferred: those take effect after it.                             *)
(***************************************************************************)
EXTENDS CarItemTable, Sequences

VARIABLES
    table,     \* the item of every car
    pending    \* the deferred writes, oldest first

vars == <<table, pending>>

TypeOK == /\ table \in [Cars -> CarItem]
          /\ pending \in Seq(Event)

Init == /\ table = [c \in Cars |-> EmptyItem]
        /\ pending = <<>>

WriteAtOnce == \E call \in Calls : /\ table' = ApplyNow(table, call)
                                   /\ UNCHANGED pending

Defer == \E call \in Calls : \E ev \in MakeEvents(call) :
            /\ pending' = Append(pending, ev)
            /\ UNCHANGED table

ApplyOldest == /\ pending # <<>>
               /\ table' = ApplyLater(table, Head(pending))
               /\ pending' = Tail(pending)

Next == WriteAtOnce \/ Defer \/ ApplyOldest

Order == Init /\ [][Next]_vars

Spec == Order /\ WF_vars(ApplyOldest)
====
