----------------------------- MODULE MCNodeHealth -----------------------------
(***************************************************************************)
(* Instances of NodeHealth for TLC.                                        *)
(***************************************************************************)
EXTENDS NodeHealth

\* Two nodes that contend for a place; the second may fall silent.
MCClaims == {<<"n1", "a1">>, <<"n2", "a2">>}
=============================================================================
