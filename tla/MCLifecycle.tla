----------------------------- MODULE MCLifecycle -----------------------------
(***************************************************************************)
(* Instances of Lifecycle for TLC.                                         *)
(***************************************************************************)
EXTENDS Lifecycle

\* One of the hosts answers, over IPv6 only.
MCReachable == {<<"h1", "v6">>}
=============================================================================
