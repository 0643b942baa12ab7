---- MODULE MCRequestApi ----
(***************************************************************************)
(* RequestApi on a few requests.                                           *)
(***************************************************************************)
EXTENDS RequestApi

CONSTANTS r1, r2, r3, r4

MCRequests3 == {r1, r2, r3}
MCRequests4 == {r1, r2, r3, r4}
====
