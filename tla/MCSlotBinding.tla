---- MODULE MCSlotBinding ----
(* Instance of SlotBinding for TLC. *)
EXTENDS SlotBinding
CONSTANTS c1, c2, x1, x2, p1, p2, none
====
