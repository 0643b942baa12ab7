---- MODULE MCDeviceLifecycle ----
(* Instance of DeviceLifecycle for TLC: one camera, one lane with one car and a
   car beyond it.  A photocell is a link like a camera; it is left out. *)
EXTENDS DeviceLifecycle
CONSTANT camera41
====
