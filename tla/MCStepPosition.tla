---- MODULE MCStepPosition ----
(***************************************************************************)
(* StepPosition on two cars and one camera.                                *)
(***************************************************************************)
EXTENDS StepPosition

MCCameraOffset == [k \in Cameras |-> k]
====
