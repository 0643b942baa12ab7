---- MODULE SlotRequests ----
(***************************************************************************)
(* What RequestAPI promises to those who ask for a slot: a request that    *)
(* was made is open until it ends, once, in one of three ways: with the    *)
(* signal getSlotSuccess, with the signal requestFailed, or dropped        *)
(* without a word when there is no room for it or for its retry.           *)
(* Several requests can fail at the same time.  When they end is left      *)
(* open; RequestApi says more about that.  Whoever only hears the two      *)
(* signals, as the module SlotBinding does, can rely on no more.           *)
(***************************************************************************)
CONSTANT Requests

VARIABLE outcome

TypeOK == outcome \in [Requests -> {"new", "open", "answered", "failed", "dropped"}]

Init == outcome = [r \in Requests |-> "new"]

Open(r) == outcome[r] = "new" /\ outcome' = [outcome EXCEPT ![r] = "open"]

Drop(r) == outcome[r] \in {"new", "open"} /\ outcome' = [outcome EXCEPT ![r] = "dropped"]

Answered(r) == outcome[r] = "open" /\ outcome' = [outcome EXCEPT ![r] = "answered"]

Fail(S) ==
    /\ \A r \in S : outcome[r] = "open"
    /\ outcome' = [r \in Requests |-> IF r \in S THEN "failed" ELSE outcome[r]]

Next ==
    \/ \E r \in Requests : Open(r) \/ Drop(r) \/ Answered(r)
    \/ \E S \in SUBSET Requests : Fail(S)

Spec == Init /\ [][Next]_outcome
====
