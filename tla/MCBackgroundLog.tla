---- MODULE MCBackgroundLog ----
(* Instance of BackgroundLog for TLC. *)
EXTENDS BackgroundLog
====
