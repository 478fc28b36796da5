----------------------------- MODULE NodeStatus -----------------------------
(***************************************************************************)
(* What the routing table remembers of one node (RoutingTableNode) and how *)
(* it judges it (NodeStatus), as operators on a record.  The three         *)
(* Option<Instant> fields hold a reading of the clock or Never.            *)
(***************************************************************************)
EXTENDS Integers

CONSTANT Inactivity        \* INACTIVITY_TIMEOUT, in ticks of the clock

ASSUME InactivityAssumption == Inactivity \in Nat \ {0}

Never == -1                \* None of an Option<Instant>

BadAfter == 2              \* errors in a row that make a node Bad

Nodes(addrs, instants) ==
    [addr          : addrs,
     last_request  : instants \cup {Never},
     last_response : instants \cup {Never},
     last_query    : instants \cup {Never},
     errors        : 0 .. BadAfter]

\* The entry a new node starts with, and the entry a node is restored with:
\* the three instants and the error count are not persisted.
NewNode(addr) ==
    [addr |-> addr, last_request |-> Never, last_response |-> Never,
     last_query |-> Never, errors |-> 0]

-----------------------------------------------------------------------------
Within(t, now) == t # Never /\ now - t < Inactivity

Beyond(t, now) == t # Never /\ now - t > Inactivity

Requested(n) == n.last_request # Never

IsBad(n) == Requested(n) /\ n.errors >= BadAfter

IsGood(n, now) ==
    /\ ~IsBad(n)
    /\ Requested(n)
    /\ n.last_response # Never
    /\ Within(n.last_response, now) \/ Within(n.last_query, now)

\* The last outgoing request is old enough, or there was none.
RequestIsOld(n, now) == Requested(n) => Beyond(n.last_request, now)

IsQuestionable(n, now) ==
    /\ ~IsBad(n)
    /\ ~IsGood(n, now)
    /\ Beyond(n.last_query, now) \/ Beyond(n.last_response, now)
    /\ RequestIsOld(n, now)

Status(n, now) ==
    IF IsBad(n) THEN "Bad"
    ELSE IF IsGood(n, now) THEN "Good"
    ELSE IF IsQuestionable(n, now) THEN "Questionable"
    ELSE "Unknown"

-----------------------------------------------------------------------------
MarkOutgoingRequest(n, now) == [n EXCEPT !.last_request = now]

\* Fault: a query clears the errors as an answer does.
MarkLastQueryForgives(n, now) == [n EXCEPT !.last_query = now, !.errors = 0]

MarkLastQuery(n, now) == [n EXCEPT !.last_query = now]

\* Fault: an answer to an unrecorded request is not booked as a request.
MarkResponseOnly(n, now) == [n EXCEPT !.last_response = now, !.errors = 0]

\* An answer to a request nobody recorded counts as a request as well.
MarkResponse(n, now) ==
    LET answered == [n EXCEPT !.last_response = now, !.errors = 0]
    IN  IF Requested(n) THEN answered ELSE MarkOutgoingRequest(answered, now)

\* The count saturates at BadAfter: nothing tells apart two larger counts.
MarkError(n) ==
    [n EXCEPT !.errors = IF @ < BadAfter THEN @ + 1 ELSE @]
=============================================================================
