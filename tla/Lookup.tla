------------------------------- MODULE Lookup -------------------------------
(***************************************************************************)
(* RecursiveRequest: one lookup of one address family.  It asks nodes,     *)
(* learns of closer nodes from their answers and asks those, up to         *)
(* max_depth away from where it started.  A find_node lookup (bootstrap,   *)
(* bucket refresher) starts from given addresses and ends; a get_peers     *)
(* lookup starts again from the routing table every minute until its       *)
(* stream is dropped.                                                      *)
(*                                                                         *)
(* A run of request_one is a call here, from the moment it is queued in    *)
(* node_tx.  It makes two requests, one after the other: the answer to the *)
(* first is shown to the callbacks, the nodes are taken from the second.   *)
(* What a request does in between is module Requests; what the callbacks   *)
(* do to the routing table is not part of this module.                     *)
(***************************************************************************)
EXTENDS Integers, Sequences, FiniteSets, SequencesExt

CONSTANTS
    Ids,          \* ids of remote nodes
    Contacts,     \* nodes an answer may name, [id, addr], of our family
    Dist,         \* distance of an id to the target
    Starts,       \* addresses a find_node lookup starts from
    Roots,        \* contacts in the routing table
    MaxDepth,     \* max_depth (4)
    Limit,        \* useful_nodes_limit (256, 32)
    AskAgain,     \* ticks after which a node may be asked again (60 s)
    MaxNamed,     \* bound on the nodes named in one answer
    MaxRounds,    \* bound on the rounds of get_peers
    MaxClock,     \* bound on the clock
    NoId          \* the id of a node we only have an address of

ASSUME LookupAssumption ==
    /\ NoId \notin Ids
    /\ Contacts \subseteq [id : Ids, addr : {c.addr : c \in Contacts}]
    /\ Roots \subseteq Contacts
    /\ IsFiniteSet(Roots) /\ IsFiniteSet(Starts)
    /\ Dist \in [Ids -> Nat]
    /\ \A a, b \in Ids : Dist[a] = Dist[b] => a = b
    /\ {MaxDepth, Limit, AskAgain, MaxNamed, MaxRounds, MaxClock} \subseteq Nat

VARIABLES
    kind,         \* "find_node" or "get_peers"
    calls,        \* the calls of request_one, in the order they were queued
    useful,       \* useful_nodes
    rounds,       \* rounds of get_peers_root
    clock,
    result        \* of a find_node lookup

vars == <<kind, calls, useful, rounds, clock, result>>

-----------------------------------------------------------------------------
FindNode == kind = "find_node"

Addrs == Starts \cup {c.addr : c \in Contacts}

Call(id, addr, depth) ==
    [id |-> id, addr |-> addr, depth |-> depth, at |-> clock,
     stage |-> "queued"]

Ended(c) == c.stage \in {"ok", "failed"}

AllEnded == \A i \in DOMAIN calls : Ended(calls[i])

Init ==
    /\ kind \in {"find_node", "get_peers"}
    /\ calls = IF FindNode
               THEN LET from == SetToSeq(Starts)
                    IN  [i \in DOMAIN from |->
                           [id |-> NoId, addr |-> from[i], depth |-> 0,
                            at |-> 0, stage |-> "queued"]]
               ELSE <<>>
    /\ useful = {}
    /\ rounds = 0
    /\ clock = 0
    /\ result = "running"

-----------------------------------------------------------------------------
(***************************************************************************)
(* useful_nodes                                                            *)
(***************************************************************************)

\* The order of useful_nodes: who returned peers, then who responded, then
\* the closest.  Ids are unique in it, so distance decides.
Before(m, n) ==
    IF m.returned_peers # n.returned_peers THEN m.returned_peers
    ELSE IF m.responded # n.responded THEN m.responded
    ELSE Dist[m.id] < Dist[n.id]

LastOf(nodes) == CHOOSE n \in nodes : \A m \in nodes \ {n} : Before(m, n)

Trimmed(nodes) ==
    IF Cardinality(nodes) > Limit THEN nodes \ {LastOf(nodes)} ELSE nodes

NewUseful(c) ==
    [id |-> c.id, addr |-> c.addr, last_request |-> clock,
     responded |-> FALSE, returned_peers |-> FALSE]

\* Fault: the boundary of the minute.
AskedRecentlyExclusive(n) == clock - n.last_request < AskAgain

AskedRecently(n) == clock - n.last_request <= AskAgain

\* Fault: a node that pushed out another is not asked.
ConsiderUnlessFull(d, found, c) ==
    LET known == {n \in found.useful : n.id = c.id}
        all   == found.useful \cup {NewUseful(c)}
        ask   == Append(found.queue, Call(c.id, c.addr, d + 1))
    IN  IF d >= MaxDepth \/ known # {} THEN found
        ELSE [found EXCEPT
                !.useful = Trimmed(all),
                !.queue = IF Cardinality(all) > Limit THEN @ ELSE ask]

\* should_request_node, for one node named in an answer to a call at depth d:
\* what becomes of useful_nodes and of the queue.
Consider(d, found, c) ==
    LET known == {n \in found.useful : n.id = c.id}
        more  == Trimmed(found.useful \cup {NewUseful(c)})
        ask   == Append(found.queue, Call(c.id, c.addr, d + 1))
    IN  IF d >= MaxDepth \/ \E n \in known : AskedRecently(n) THEN found
        ELSE IF known # {}
        THEN [found EXCEPT
                !.useful = {IF n \in known THEN [n EXCEPT !.last_request = clock]
                            ELSE n : n \in @},
                !.queue = ask]
        ELSE [useful |-> more,
              queue |-> IF NewUseful(c) \in more THEN ask ELSE found.queue]

\* All the nodes of an answer, in their order.
ConsiderAll(d, named) ==
    LET found[k \in 0 .. Len(named)] ==
          IF k = 0 THEN [useful |-> useful, queue |-> <<>>]
          ELSE Consider(d, found[k - 1], named[k])
    IN  found[Len(named)]

\* mark_node_responded goes by the address, and takes the first entry with it.
MarkNodeResponded(addr, peers) ==
    LET there == {n \in useful : n.addr = addr}
    IN  IF there = {} THEN UNCHANGED useful
        ELSE \E n \in there :
               useful' = (useful \ {n}) \cup
                   {[n EXCEPT !.responded = TRUE, !.returned_peers = peers]}

-----------------------------------------------------------------------------
(***************************************************************************)
(* request_one                                                             *)
(***************************************************************************)
Advance(i, from, to) ==
    /\ i \in DOMAIN calls
    /\ calls[i].stage = from
    /\ calls' = [calls EXCEPT ![i].stage = to]
    /\ UNCHANGED <<kind, rounds, clock, result>>

\* Taken from the queue; on_request_start; the first request.
Start(i) ==
    /\ Advance(i, "queued", "first")
    /\ UNCHANGED useful

\* An answer or an error message to the first request: useful_nodes is told,
\* then on_request_end; the second request.
FirstAnswered(i, peers) ==
    /\ Advance(i, "first", "second")
    /\ MarkNodeResponded(calls[i].addr, peers)

\* No answer: on_request_end, and the second request all the same.
FirstFails(i) ==
    /\ Advance(i, "first", "second")
    /\ UNCHANGED useful

\* The second request fails, or is answered with an error message, or its
\* answer has peers and nobody listens for them, as in find_node: the nodes
\* in the answer are lost.
SecondFails(i) ==
    /\ Advance(i, "second", "failed")
    /\ UNCHANGED useful

SecondAnswered(i, named) ==
    /\ i \in DOMAIN calls
    /\ calls[i].stage = "second"
    /\ LET found == ConsiderAll(calls[i].depth, named)
       IN  /\ calls' = [calls EXCEPT ![i].stage = "ok"] \o found.queue
           /\ useful' = found.useful
    /\ UNCHANGED <<kind, rounds, clock, result>>

Answers == UNION {[1 .. n -> Contacts] : n \in 0 .. MaxNamed}

Work(i) ==
    \/ Start(i)
    \/ \E peers \in BOOLEAN : FirstAnswered(i, peers)
    \/ FirstFails(i)
    \/ SecondFails(i)
    \/ \E named \in Answers : SecondAnswered(i, named)

-----------------------------------------------------------------------------
\* Fault: a lookup without a success waits for more.
FinishOnSuccess ==
    /\ FindNode
    /\ result = "running"
    /\ AllEnded
    /\ \E i \in DOMAIN calls : calls[i].stage = "ok"
    /\ result' = "ok"
    /\ UNCHANGED <<kind, calls, useful, rounds, clock>>

\* find_node_for_routing_table: nothing is running and nothing is queued.
Finish ==
    /\ FindNode
    /\ result = "running"
    /\ AllEnded
    /\ result' = IF \E i \in DOMAIN calls : calls[i].stage = "ok"
                 THEN "ok" ELSE "no_successful_lookups"
    /\ UNCHANGED <<kind, calls, useful, rounds, clock>>

\* get_peers_root: the best nodes of the table are queued, whether asked
\* recently or not; then it sleeps.
GetPeersRoot(roots) ==
    /\ ~FindNode
    /\ rounds < MaxRounds
    /\ result = "running"
    /\ rounds' = rounds + 1
    /\ LET from == SetToSeq(roots)
       IN  calls' = calls \o [i \in DOMAIN from |->
                                Call(from[i].id, from[i].addr, 0)]
    /\ UNCHANGED <<kind, useful, clock, result>>

\* The stream is dropped and the task aborted where it is.
Drop ==
    /\ ~FindNode
    /\ result = "running"
    /\ result' = "dropped"
    /\ calls' = [i \in DOMAIN calls |->
                   IF Ended(calls[i]) THEN calls[i]
                   ELSE [calls[i] EXCEPT !.stage = "failed"]]
    /\ UNCHANGED <<kind, useful, rounds, clock>>

Tick ==
    /\ clock < MaxClock
    /\ clock' = clock + 1
    /\ UNCHANGED <<kind, calls, useful, rounds, result>>

Next ==
    \/ \E i \in DOMAIN calls : Work(i)
    \/ Finish
    \/ \E roots \in SUBSET Roots : GetPeersRoot(roots)
    \/ Drop
    \/ Tick

\* A request ends (Requests!EveryCallReturns), and the task that runs the
\* calls is polled whenever one of them can go on.
Fairness == WF_vars((\E i \in DOMAIN calls : Work(i)) \/ Finish)

Spec == Init /\ [][Next]_vars /\ Fairness
-----------------------------------------------------------------------------
(***************************************************************************)
(* Properties                                                              *)
(***************************************************************************)

\* useful_nodes has one entry per node and at most useful_nodes_limit of
\* them, and whoever is in it has really been queued at the time noted there:
\* no node is taken for asked, and so left alone for a minute, that was not.
UsefulWereAsked ==
    /\ Cardinality(useful) <= Limit
    /\ \A m, n \in useful : m.id = n.id => m = n
    /\ \A n \in useful : \E i \in DOMAIN calls :
         calls[i].id = n.id /\ calls[i].at = n.last_request

\* "If recently requested, ignore" (dht.rs:533), although only the nodes in
\* useful_nodes are known to have been requested: however many answers name
\* it, no node is queued twice within a minute, not counting the nodes a
\* lookup starts from.
NotAskedTwice ==
    \A i, j \in DOMAIN calls :
        /\ i < j
        /\ calls[i].id = calls[j].id
        /\ calls[i].depth > 0 /\ calls[j].depth > 0
        => calls[j].at - calls[i].at > AskAgain

\* A find_node lookup ends, although every answer may name any node again and
\* nodes that were forgotten are asked again.
LookupEnds == FindNode => <>(result # "running")
=============================================================================
