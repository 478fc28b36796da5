--------------------------- MODULE MCRoutingTable ---------------------------
(***************************************************************************)
(* Instances of RoutingTable for TLC.                                      *)
(***************************************************************************)
EXTENDS RoutingTable

MCPow == [b \in 0 .. Bits |-> 2 ^ b]

\* Ids on both sides of our own (5), near and far, enough of them on one side
\* to split a leaf twice in one call.
StructureIds == {0, 1, 2, 3, 4, 6, 8}

StructureMarks == {1, 4}
=============================================================================
