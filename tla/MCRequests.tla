----------------------------- MODULE MCRequests -----------------------------
(***************************************************************************)
(* Instances of Requests for TLC.                                          *)
(***************************************************************************)
EXTENDS Requests
=============================================================================
