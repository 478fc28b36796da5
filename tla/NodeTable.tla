------------------------------- MODULE NodeTable -------------------------------
(***************************************************************************)
(* What the routing table promises to those who use it, without its tree:  *)
(* at most MaxSize nodes, each remembered with one address and its         *)
(* history.  A newcomer is taken, takes the place of a Bad node, or is     *)
(* ignored; which of them happens is the table's business.  RoutingTable   *)
(* implements this specification; NodeHealth is built on it.               *)
(***************************************************************************)
EXTENDS NodeStatus, FiniteSets

CONSTANTS
    TableIds,    \* ids of nodes
    Addrs,       \* addresses of nodes
    MaxSize      \* nodes in the table

VARIABLES
    rec,         \* id -> entry, for the ids in the table
    clock        \* what Instant::now() returns

nodeVars == <<rec, clock>>

Init ==
    /\ rec = [id \in {} |-> NewNode(id)]
    /\ clock = 0

BadNodes(table) == {id \in DOMAIN table : IsBad(table[id])}

\* Table without the ids in gone and with a fresh entry for id.
With(table, gone, id, addr) ==
    [n \in (DOMAIN table \ gone) \cup {id} |->
       IF n = id THEN NewNode(addr) ELSE table[n]]

\* What add_node may do to a table: InsertResult and the table after it.
AddOutcomes(table, id, addr) ==
    IF id \in DOMAIN table
    THEN {[how |-> "WasExisting", gone |-> {}, table |-> table]}
    ELSE {[how |-> "Ignored", gone |-> {}, table |-> table]}
         \cup {[how |-> "ReplacedBad", gone |-> {bad},
                table |-> With(table, {bad}, id, addr)] :
                 bad \in BadNodes(table)}
         \cup (IF Cardinality(DOMAIN table) < MaxSize
               THEN {[how |-> "Added", gone |-> {},
                      table |-> With(table, {}, id, addr)]}
               ELSE {})

Add(id, addr) ==
    /\ \E o \in AddOutcomes(rec, id, addr) : rec' = o.table
    /\ UNCHANGED clock

Mark(id) ==
    /\ id \in DOMAIN rec
    /\ \E entry \in {MarkOutgoingRequest(rec[id], clock),
                     MarkLastQuery(rec[id], clock),
                     MarkResponse(rec[id], clock),
                     MarkError(rec[id])} :
         rec' = [rec EXCEPT ![id] = entry]
    /\ UNCHANGED clock

\* A new process starts from the nodes the last one saved.
Restart ==
    /\ rec' = [id \in DOMAIN rec |-> NewNode(rec[id].addr)]
    /\ UNCHANGED clock

Tick == clock' = clock + 1 /\ UNCHANGED rec

Next ==
    \/ \E id \in TableIds, addr \in Addrs : Add(id, addr)
    \/ \E id \in TableIds : Mark(id)
    \/ Restart
    \/ Tick

Spec == Init /\ [][Next]_nodeVars
=============================================================================
