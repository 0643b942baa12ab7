---- MODULE MCUnloadLoop ----
(***************************************************************************)
(* UnloadLoop on one car, one port and one code.                           *)
(***************************************************************************)
EXTENDS UnloadLoop

CONSTANTS p1, x1, none

MCCars1 == 1 .. 1
MCPorts1 == {p1}
MCCodes1 == {x1}
MCCallers == {Main, CarLoop}
====
