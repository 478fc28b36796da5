------------------------- MODULE MCMutableItemStore -------------------------
(***************************************************************************)
(* Instances of MutableItemStore for TLC.                                  *)
(***************************************************************************)
EXTENDS MutableItemStore

CONSTANTS k1, k2, k3

MCTargets == {k1, k2, k3}

\* Two shards, one of two targets.
MCShardOf == [t \in MCTargets |-> IF t = k1 THEN 0 ELSE 1]
=============================================================================
