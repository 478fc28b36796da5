---------------------------- MODULE RoutingTable ----------------------------
(***************************************************************************)
(* RoutingTable and the BucketTree inside it.                              *)
(*                                                                         *)
(* The tree is kept as the set of its leaves; the interior nodes only      *)
(* steer get_leaf to the leaf whose range holds an id, and that leaf is    *)
(* unique (LeavesPartitionIds).  The entries of all leaves are one         *)
(* function `rec' from ids to what NodeStatus remembers.                   *)
(*                                                                         *)
(* add_node runs under the table's write lock, but its loop may go round   *)
(* several times, splitting a leaf each time.  Each round is a step here;  *)
(* `pending' holds the insertion that has split and not returned yet, and  *)
(* no other step happens meanwhile.                                        *)
(***************************************************************************)
EXTENDS NodeStatus, FiniteSets

CONSTANTS
    Bits,        \* width of an id (160)
    Pow,         \* the powers of two, 2^0 .. 2^Bits
    SelfId,      \* our own id
    K,           \* nodes in a leaf (8)
    MaxSize,     \* max_size (512)
    Addrs,       \* addresses of nodes
    InputIds,    \* ids the callers of add_node come with
    MarkIds,     \* ids the callers of mark_* come with
    MaxClock,    \* bound on the clock
    MaxLen       \* bound on RoutingTable.size

Ids == 0 .. (Pow[Bits] - 1)

ASSUME BitsAssumption ==
    /\ Bits \in Nat
    /\ Pow \in [0 .. Bits -> Nat \ {0}]
    /\ Pow[0] = 1
    /\ \A b \in 0 .. (Bits - 1) : Pow[b + 1] = 2 * Pow[b]

ASSUME TableAssumption ==
    /\ SelfId \in Ids
    /\ InputIds \subseteq Ids
    /\ MarkIds \subseteq Ids
    /\ K \in Nat /\ K >= 2
    /\ MaxSize \in Nat
    /\ MaxClock \in Nat
    /\ MaxLen \in Nat

VARIABLES
    leaves,      \* the leaves: [bits, start, end, ids, last_refreshed]
    rec,         \* id -> entry, for the ids in the table
    tree_size,   \* BucketTree.size
    size,        \* RoutingTable.size, what len() returns
    clock,       \* what Instant::now() returns
    pending      \* {<<id, addr>>} while an insertion goes round, else {}

vars == <<leaves, rec, tree_size, size, clock, pending>>

-----------------------------------------------------------------------------
Known == DOMAIN rec

Instants == 0 .. MaxClock

LeafType ==
    [bits : 0 .. Bits, start : Ids, end : Ids, ids : SUBSET Ids,
     last_refreshed : Instants]

Covers(l, id) == l.start <= id /\ id <= l.end

RootLeaf ==
    [bits |-> Bits, start |-> 0, end |-> Pow[Bits] - 1, ids |-> {},
     last_refreshed |-> 0]

\* Fault: one error is enough to be thrown out.
FailedIn(l) == {id \in l.ids : rec[id].errors >= 1}

BadIn(l) == {id \in l.ids : IsBad(rec[id])}

\* Fault: the left half ends where the right half starts.
LeftEndMeets(l) == l.end - Pow[l.bits - 1] + 1

\* compute_split_start_end: bit number 160 - bits, the leading one of those
\* that vary within the leaf, is cleared in the end (where it is set) and set
\* in the start (where it is clear).
LeftEnd(l) == l.end - Pow[l.bits - 1]

RightStart(l) == l.start + Pow[l.bits - 1]

LeftHalf(l) ==
    [bits |-> l.bits - 1, start |-> l.start, end |-> LeftEnd(l),
     ids |-> {id \in l.ids : id < RightStart(l)}, last_refreshed |-> clock]

\* Fault: the end of a leaf is taken to be exclusive.
RightHalfShort(l) ==
    [bits |-> l.bits - 1, start |-> RightStart(l), end |-> l.end - 1,
     ids |-> {id \in l.ids : id >= RightStart(l)}, last_refreshed |-> clock]

RightHalf(l) ==
    [bits |-> l.bits - 1, start |-> RightStart(l), end |-> l.end,
     ids |-> {id \in l.ids : id >= RightStart(l)}, last_refreshed |-> clock]

\* Fault: the leaf is not refreshed.
Untouched(l) == l

Touched(l) == [l EXCEPT !.last_refreshed = clock]

Replace(l, new) == (leaves \ {l}) \cup new

-----------------------------------------------------------------------------
Init ==
    /\ leaves = {RootLeaf}
    /\ rec = [id \in {} |-> NewNode(id)]
    /\ tree_size = 0
    /\ size = 0
    /\ clock = 0
    /\ pending = {}

\* What one round of the insertion finds when the earlier ways out of the
\* loop were not taken.
MayInsert(id, addr) ==
    \/ pending = {<<id, addr>>}
    \/ pending = {} /\ size < MaxLen      \* the bound on size

NewAndNoneBad(l, id) == id \notin l.ids /\ BadIn(l) = {}

\* Fault: one node too many in the tree.
HasRoomForOneMore == tree_size <= MaxSize

HasRoom == tree_size # MaxSize

\* Fault: one node too many in a leaf.
OverFull(l) == Cardinality(l.ids) > K

Full(l) == Cardinality(l.ids) >= K

AddExisting(id, addr) ==
    /\ MayInsert(id, addr)
    /\ \E l \in leaves : Covers(l, id) /\ id \in l.ids
    /\ pending' = {}
    /\ UNCHANGED <<leaves, rec, tree_size, size, clock>>

\* The leaf is sorted by id, so the entry found first has the smallest id.
\* RoutingTable.size counts the replacement as an addition.
AddReplaceBad(id, addr) ==
    /\ MayInsert(id, addr)
    /\ \E l \in leaves :
         /\ Covers(l, id)
         /\ id \notin l.ids
         /\ \E bad \in BadIn(l) :
              /\ \A other \in BadIn(l) : bad <= other
              /\ leaves' = Replace(l, {[Touched(l) EXCEPT !.ids =
                                           (@ \ {bad}) \cup {id}]})
              /\ rec' = [n \in (Known \ {bad}) \cup {id} |->
                           IF n = id THEN NewNode(addr) ELSE rec[n]]
    /\ size' = size + 1
    /\ pending' = {}
    /\ UNCHANGED <<tree_size, clock>>

AddIgnoredFull(id, addr) ==
    /\ MayInsert(id, addr)
    /\ \E l \in leaves : Covers(l, id) /\ NewAndNoneBad(l, id)
    /\ ~HasRoom
    /\ pending' = {}
    /\ UNCHANGED <<leaves, rec, tree_size, size, clock>>

AddPush(id, addr) ==
    /\ MayInsert(id, addr)
    /\ HasRoom
    /\ \E l \in leaves :
         /\ Covers(l, id) /\ NewAndNoneBad(l, id) /\ ~Full(l)
         /\ leaves' = Replace(l, {[Touched(l) EXCEPT !.ids = @ \cup {id}]})
    /\ rec' = [n \in Known \cup {id} |->
                 IF n = id THEN NewNode(addr) ELSE rec[n]]
    /\ tree_size' = tree_size + 1
    /\ size' = size + 1
    /\ pending' = {}
    /\ UNCHANGED clock

\* Fault: the test for our own id is inverted.
AddIgnoredNear(id, addr) ==
    /\ MayInsert(id, addr)
    /\ HasRoom
    /\ \E l \in leaves :
         Covers(l, id) /\ NewAndNoneBad(l, id) /\ Full(l) /\ Covers(l, SelfId)
    /\ pending' = {}
    /\ UNCHANGED <<leaves, rec, tree_size, size, clock>>

AddIgnoredFar(id, addr) ==
    /\ MayInsert(id, addr)
    /\ HasRoom
    /\ \E l \in leaves :
         Covers(l, id) /\ NewAndNoneBad(l, id) /\ Full(l) /\ ~Covers(l, SelfId)
    /\ pending' = {}
    /\ UNCHANGED <<leaves, rec, tree_size, size, clock>>

\* Fault: leaves far from us are split as well.
MustSplitAnywhere(l, id) ==
    HasRoom /\ Covers(l, id) /\ NewAndNoneBad(l, id) /\ Full(l)

MustSplit(l, id) ==
    /\ HasRoom
    /\ Covers(l, id) /\ NewAndNoneBad(l, id) /\ Full(l) /\ Covers(l, SelfId)

Split(id, addr) ==
    /\ MayInsert(id, addr)
    /\ \E l \in leaves :
         /\ MustSplit(l, id)
         /\ leaves' = Replace(l, {LeftHalf(l), RightHalf(l)})
    /\ pending' = {<<id, addr>>}
    /\ UNCHANGED <<rec, tree_size, size, clock>>

AddNode(id, addr) ==
    \/ AddExisting(id, addr)
    \/ AddReplaceBad(id, addr)
    \/ AddIgnoredFull(id, addr)
    \/ AddPush(id, addr)
    \/ AddIgnoredFar(id, addr)
    \/ Split(id, addr)

-----------------------------------------------------------------------------
\* The marks find the entry by id alone; an unknown id changes nothing.
Mark(id, entry) ==
    /\ pending = {}
    /\ rec' = [rec EXCEPT ![id] = entry]
    /\ UNCHANGED <<tree_size, size, clock, pending>>

MarkRequest(id) ==
    /\ id \in Known
    /\ Mark(id, MarkOutgoingRequest(rec[id], clock))
    /\ UNCHANGED leaves

MarkQuery(id) ==
    /\ id \in Known
    /\ Mark(id, MarkLastQuery(rec[id], clock))
    /\ UNCHANGED leaves

MarkFailure(id) ==
    /\ id \in Known
    /\ Mark(id, MarkError(rec[id]))
    /\ UNCHANGED leaves

\* An answer also refreshes the leaf of the node.
MarkAnswer(id) ==
    /\ id \in Known
    /\ Mark(id, MarkResponse(rec[id], clock))
    /\ \E l \in leaves : Covers(l, id) /\ leaves' = Replace(l, {Touched(l)})

\* The table written to disk and read back by a new process: the shape and
\* both sizes stay, what is known of the nodes is forgotten and every leaf
\* counts as refreshed now.
Reload ==
    /\ pending = {}
    /\ leaves' = {Touched(l) : l \in leaves}
    /\ rec' = [id \in Known |-> NewNode(rec[id].addr)]
    /\ UNCHANGED <<tree_size, size, clock, pending>>

Tick ==
    /\ pending = {}
    /\ clock < MaxClock
    /\ clock' = clock + 1
    /\ UNCHANGED <<leaves, rec, tree_size, size, pending>>

MarkAny(id) ==
    MarkRequest(id) \/ MarkQuery(id) \/ MarkFailure(id) \/ MarkAnswer(id)

Next ==
    \/ \E id \in InputIds, addr \in Addrs : AddNode(id, addr)
    \/ \E id \in MarkIds : MarkAny(id)
    \/ Reload
    \/ Tick

\* A call of add_node that has begun runs on: nothing in it waits.
Fairness ==
    \A id \in InputIds, addr \in Addrs :
        WF_vars(pending # {} /\ AddNode(id, addr))

Spec == Init /\ [][Next]_vars /\ Fairness
-----------------------------------------------------------------------------
(***************************************************************************)
(* Properties                                                              *)
(***************************************************************************)

\* The type invariant.
TypeOK ==
    /\ leaves \in SUBSET LeafType
    /\ rec \in [Known -> Nodes(Addrs, Instants)]
    /\ Known \subseteq Ids
    /\ tree_size \in 0 .. MaxSize
    /\ size \in 0 .. MaxLen
    /\ clock \in Instants
    /\ pending \in SUBSET (InputIds \X Addrs)

\* Every id belongs to exactly one leaf, whatever splits have happened:
\* get_leaf always ends in a leaf, and the leaf it ends in is the only one an
\* entry for that id can be in.
LeavesPartitionIds ==
    \A id \in Ids : \E l \in leaves :
        Covers(l, id) /\ \A m \in leaves : Covers(m, id) => m = l

\* A node is filed in the leaf its id belongs to and nowhere else, so the
\* marks find it and add_node recognises it: redistributing a leaf's nodes
\* on a split misplaces none, and an eviction leaves no entry behind.
KnownOnce ==
    /\ Known = UNION {l.ids : l \in leaves}
    /\ \A l \in leaves : \A id \in l.ids : Covers(l, id)

\* Whatever was inserted, split and evicted, every id has one leaf, and every
\* node is where add_node and the marks look for it, and only there.
FiledWhereLookedFor == LeavesPartitionIds /\ KnownOnce

\* No leaf ever holds more than 8 nodes, not even after several splits in
\* one call of add_node, and the tree's own count is the number of nodes in
\* it and stays within max_size.
CapacityHolds ==
    /\ \A l \in leaves : Cardinality(l.ids) <= K
    /\ tree_size = Cardinality(Known)
    /\ tree_size <= MaxSize

\* The debug assertions of compute_split_start_end, and the bit it sets
\* existing at all: whenever add_node is about to split a leaf, both halves
\* are non-empty ranges of more than one id, left of each other.
SplitIsSound ==
    \A id \in InputIds : \A l \in leaves :
        MustSplit(l, id) =>
            /\ l.bits > 0
            /\ l.start < LeftEnd(l)
            /\ LeftEnd(l) < RightStart(l)
            /\ RightStart(l) < l.end

\* The tree only grows towards our own id: no leaf is smaller than the one
\* that holds our id, and of the leaves without it no two have the same size,
\* so there is one per distance from us.
OneLeafPerDistance ==
    \A l \in leaves :
        /\ Covers(l, SelfId) => \A m \in leaves : l.bits <= m.bits
        /\ ~Covers(l, SelfId) =>
             \A m \in leaves \ {l} : m.bits = l.bits => Covers(m, SelfId)

\* add_node drops a node from the table only if that node is Bad at that
\* moment, and an entry that stays keeps the address it was added with: a
\* known id that turns up at another address does not redirect the entry.
EvictsOnlyBad ==
    [][\A id \in Known :
         IF id \in DOMAIN rec'
         THEN rec'[id].addr = rec[id].addr
         ELSE Status(rec[id], clock) = "Bad"]_vars

Abstract == INSTANCE NodeTable WITH TableIds <- Ids

\* The tree with its leaves, ranges, splits and counts keeps the promise of a
\* plain table of at most max_size nodes: a round of add_node either takes
\* the newcomer, puts it in the place of a Bad node, or changes nothing that
\* users of the table can see, and a mark changes one entry.
ImplementsNodeTable == Abstract!Spec

\* A node that was heard from, or asked something, within the last 15
\* minutes is never Questionable (so the pinger leaves it alone); this relies
\* on an unsolicited answer being booked as a request too.
QuestionableMeansSilent ==
    \A id \in Known :
        Status(rec[id], clock) = "Questionable" =>
            /\ ~Within(rec[id].last_request, clock)
            /\ ~Within(rec[id].last_response, clock)
            /\ ~Within(rec[id].last_query, clock)

\* A Bad node stays Bad until it answers: neither time, nor its own queries,
\* nor further requests clear it.  (A restart forgets that it was Bad.)
BadUntilAnswer ==
    [][\A id \in Known \cap DOMAIN rec' :
         Status(rec[id], clock) = "Bad" /\ Status(rec'[id], clock') # "Bad"
             => \/ rec'[id].last_response = clock /\ rec'[id].errors = 0
                \/ Reload]_vars

\* A leaf counts as refreshed at least as recently as any of its nodes
\* answered, through splits and replacements, so the refresher never looks
\* up a bucket that has just been heard from.
LeafAsFreshAsItsNodes ==
    \A l \in leaves : \A id \in l.ids :
        rec[id].last_response <= l.last_refreshed

\* The loop of add_node ends: splitting makes room, or shows that the new
\* node falls into a leaf that may not be split.
InsertReturns == (pending # {}) ~> (pending = {})

\* The tests' reading of len(): it is the number of nodes in the table
\* (routing_table.rs:684, test_sorted_by_distance_from) and never exceeds
\* max_size (routing_table.rs:970).
LenIsNodeCount == size = Cardinality(Known)
=============================================================================
