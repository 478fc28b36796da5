---------------------------- MODULE MCPeerStore ----------------------------
(***************************************************************************)
(* Instances of PeerStore for TLC.                                         *)
(***************************************************************************)
EXTENDS PeerStore

\* Nothing tells apart two hosts, two ports or two info hashes near us.
Symmetry ==
    Permutations(Hosts) \cup Permutations(Ports) \cup Permutations(InfoHashes)
=============================================================================
