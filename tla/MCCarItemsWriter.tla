---- MODULE MCCarItemsWriter ----
(***************************************************************************)
(* CarItemsWriter on two callers (the main thread and carLoop) and small   *)
(* sets of cars, ports and codes.                                          *)
(***************************************************************************)
EXTENDS CarItemsWriter

CONSTANTS c1, c2, p1, x1, main, carLoop, none

MCCars1 == {c1}
MCCars2 == {c1, c2}
MCPorts == {p1}
MCCodes == {x1}
MCCallers == {main, carLoop}
====
