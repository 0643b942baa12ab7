---- MODULE MCCameraGate ----
(* Instance of CameraGate for TLC. *)
EXTENDS CameraGate
====
