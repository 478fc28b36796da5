------------------------------ MODULE MCLookup ------------------------------
(***************************************************************************)
(* Instances of Lookup for TLC.                                            *)
(***************************************************************************)
EXTENDS Lookup

MCIds == 1 .. 3

\* The nearer, the smaller the id; 2 and 3 share an address.
MCDist == [id \in MCIds |-> id]

MCContacts == {[id |-> 1, addr |-> "a"], [id |-> 2, addr |-> "b"],
               [id |-> 3, addr |-> "b"]}

MCRoots == {[id |-> 3, addr |-> "b"]}
=============================================================================
