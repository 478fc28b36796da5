------------------------------ MODULE NodeHealth ------------------------------
(***************************************************************************)
(* What keeps the routing table of one address family alive: the pinger,   *)
(* the bucket refresher, the callbacks of find_node lookups and the        *)
(* queries of others.  The table is a NodeTable of one leaf.  Lookups may  *)
(* run at any time, many at once: the bootstrap goes on for up to a day,   *)
(* and every host of it, and every leaf that is refreshed, has its own.    *)
(*                                                                         *)
(* The pinger comes by every PingEvery ticks of the clock, the refresher   *)
(* every Inactivity ticks.  What is begun in a tick may end in the next    *)
(* one, but not later: the two requests of a lookup to a node end within   *)
(* 20 seconds, a tick is some minutes.  Instead of a clock that grows, the *)
(* times in the table grow older: they are relative to a moment Now, just  *)
(* past INACTIVITY_TIMEOUT after the oldest time that is told from others. *)
(*                                                                         *)
(* A restart is an initial state: the nodes are loaded, what was known of  *)
(* them and the requests under way are gone.                               *)
(***************************************************************************)
EXTENDS NodeStatus, FiniteSets, Functions

CONSTANTS
    Claims,      \* <<id, address>> pairs that answers and queries name
    Mortal,      \* addresses that may fall silent for good
    MaxSize,     \* nodes in the leaf
    PingEvery,   \* INACTIVITY_TIMEOUT / 4, in ticks
    MaxVisits    \* bound on the nodes that lookups ask at a time

Ids == {c[1] : c \in Claims}

Addrs == {c[2] : c \in Claims}

Now == Inactivity + 1

ASSUME HealthAssumption ==
    /\ Claims = {<<c[1], c[2]>> : c \in Claims}
    /\ Mortal \subseteq Addrs
    /\ MaxSize \in Nat
    /\ PingEvery \in Nat \ {0}
    /\ MaxVisits \in Nat

VARIABLES
    rec,         \* the routing table
    leaf_age,    \* ticks since last_refreshed of the leaf
    ping_in,     \* ticks until the pinger's interval elapses
    refresh_in,  \* ticks until the refresher's interval elapses
    visits,      \* how many requests to named nodes are queued or under way
    dead,        \* the mortal addresses that fell silent
    failures,    \* history: visits of an id that failed since one was answered
    limbo,       \* history: ticks in a row that found a node neither Good nor
                 \* Bad, and no visit of it over
    untended     \* history: ticks since the leaf was refreshed or looked up

timers == <<ping_in, refresh_in>>

histories == <<failures, limbo, untended>>

vars == <<rec, leaf_age, timers, visits, dead, histories>>

Table == INSTANCE NodeTable WITH clock <- Now, TableIds <- Ids

-----------------------------------------------------------------------------
Known == DOMAIN rec

StatusOf(id) == Status(rec[id], Now)

\* A ping waits in the channel of the pinger before it is sent; a lookup asks
\* a node twice, one request after the other.
Visits ==
    [node : Claims, stage : {"queued", "pinged", "asked", "again"},
     late : BOOLEAN]

Visit(c, stage) == [node |-> c, stage |-> stage, late |-> FALSE]

IdOf(v) == v.node[1]

Ping(id) == Visit(<<id, rec[id].addr>>, "queued")

Begin(v) == visits' = [visits EXCEPT ![v] = @ + 1]

End(v) == visits' = [visits EXCEPT ![v] = @ - 1]

\* The visit v goes on as w.
GoOn(v, w) == visits' = [visits EXCEPT ![v] = @ - 1, ![w] = @ + 1]

AddrsOf(id) == {c[2] : c \in {d \in Claims : d[1] = id}}

Fresh == [id \in Ids |-> 0]

\* A process starts with an empty table, or with the nodes an earlier one
\* left, some of which may have fallen silent since.
Init ==
    /\ \E known \in SUBSET Ids : \E addr \in [known -> Addrs] :
         /\ Cardinality(known) <= MaxSize
         /\ \A id \in known : <<id, addr[id]>> \in Claims
         /\ rec = [id \in known |-> NewNode(addr[id])]
    /\ leaf_age = 0
    /\ ping_in = 0
    /\ refresh_in = Inactivity
    /\ visits = [v \in Visits |-> 0]
    /\ dead \in SUBSET Mortal
    /\ failures = Fresh
    /\ limbo = Fresh
    /\ untended = 0

-----------------------------------------------------------------------------
(***************************************************************************)
(* Time                                                                    *)
(***************************************************************************)
Older(t) == IF t > 0 THEN t - 1 ELSE t

OlderNode(n) ==
    [n EXCEPT !.last_request = Older(@), !.last_response = Older(@),
              !.last_query = Older(@)]

AtMost(n, bound) == IF n > bound THEN bound ELSE n

\* The clock goes on once the rounds that are due are done, and whatever was
\* under way when it last did so.
Tick ==
    /\ ping_in > 0 /\ refresh_in > 0
    /\ \A v \in Visits : v.late => visits[v] = 0
    /\ rec' = [id \in Known |-> OlderNode(rec[id])]
    /\ leaf_age' = AtMost(leaf_age + 1, Now)
    /\ ping_in' = ping_in - 1
    /\ refresh_in' = refresh_in - 1
    /\ visits' = [v \in Visits |->
                    IF v.late THEN visits[[v EXCEPT !.late = FALSE]] ELSE 0]
    /\ limbo' = [id \in Ids |->
                   IF id \in Known /\ StatusOf(id) \notin {"Good", "Bad"}
                   THEN AtMost(limbo[id] + 1, PingEvery + 2) ELSE 0]
    /\ untended' = AtMost(untended + 1, 2 * Inactivity)
    /\ UNCHANGED <<dead, failures>>

-----------------------------------------------------------------------------
(***************************************************************************)
(* pinger                                                                  *)
(***************************************************************************)

\* Fault: a node nothing is known of is left alone.
NeedsPingOnlyQuestionable(id) == StatusOf(id) = "Questionable"

NeedsPing(id) == StatusOf(id) \in {"Questionable", "Unknown"}

\* The looper of the pinger goes through the table.
PingRound ==
    /\ ping_in = 0
    /\ ping_in' = PingEvery
    /\ LET pings == {Ping(id) : id \in {n \in Known : NeedsPing(n)}}
       IN  visits' = [v \in Visits |->
                        IF v \in pings THEN visits[v] + 1 ELSE visits[v]]
    /\ UNCHANGED <<rec, leaf_age, refresh_in, dead, histories>>

\* The future of the ping is polled for the first time.  Its node may have
\* left the table by now.
PingStart(v) ==
    /\ v.stage = "queued"
    /\ GoOn(v, [v EXCEPT !.stage = "pinged"])
    /\ rec' = IF IdOf(v) \in Known
              THEN [rec EXCEPT ![IdOf(v)] = MarkOutgoingRequest(@, Now)]
              ELSE rec
    /\ UNCHANGED <<leaf_age, timers, dead, histories>>

-----------------------------------------------------------------------------
(***************************************************************************)
(* The bucket refresher, and find_node lookups                             *)
(***************************************************************************)

\* Fault: the boundary of INACTIVITY_TIMEOUT.
StaleExclusive == leaf_age > Inactivity

Stale == leaf_age >= Inactivity

\* The refresher starts a lookup of an id within a stale leaf.  It begins with
\* addresses, without their ids, so what comes of these is not booked.
RefreshRound ==
    /\ refresh_in = 0
    /\ refresh_in' = Inactivity
    /\ untended' = IF Stale THEN 0 ELSE untended
    /\ UNCHANGED <<rec, leaf_age, ping_in, visits, dead, failures, limbo>>

UnderWay == {v \in Visits : v.stage \in {"asked", "again"}}

\* An answer to a lookup names c; on_request_start, and the first request goes
\* out.
FindStart(c) ==
    /\ FoldFunctionOnSet(+, 0, visits, UnderWay) < MaxVisits
    /\ Begin(Visit(c, "asked"))
    /\ \E o \in Table!AddOutcomes(rec, c[1], c[2]) :
         LET new == DOMAIN o.table \ Known
         IN  /\ rec' =
                  IF o.how = "Ignored" THEN rec
                  ELSE [o.table EXCEPT ![c[1]] = MarkOutgoingRequest(@, Now)]
             /\ leaf_age' = IF new = {} THEN leaf_age ELSE 0
             /\ untended' = IF new = {} THEN untended ELSE 0
    /\ UNCHANGED <<timers, dead, failures, limbo>>

-----------------------------------------------------------------------------
(***************************************************************************)
(* Outcomes                                                                *)
(***************************************************************************)

\* A ping is over; a lookup asks a second time, whatever came of the first
\* request.
AfterFirst(v) ==
    IF v.stage = "pinged" THEN End(v) ELSE GoOn(v, [v EXCEPT !.stage = "again"])

\* An answer of any kind, an error message included: the pinger books it as
\* an answer, and so does on_request_end for the first request of a lookup.
\* Who answers is not compared with who was asked.
Answered(v) ==
    /\ v.stage \in {"pinged", "asked"}
    /\ v.node[2] \notin dead
    /\ AfterFirst(v)
    /\ IF IdOf(v) \in Known
       THEN /\ rec' = [rec EXCEPT ![IdOf(v)] = MarkResponse(@, Now)]
            /\ leaf_age' = 0
            /\ untended' = 0
       ELSE UNCHANGED <<rec, leaf_age, untended>>
    /\ failures' = [failures EXCEPT ![IdOf(v)] = 0]
    /\ limbo' = [limbo EXCEPT ![IdOf(v)] = 0]
    /\ UNCHANGED <<timers, dead>>

\* Fault: the pinger does not book its failures.
FailedUnbooked(v) ==
    /\ v.stage \in {"pinged", "asked"}
    /\ AfterFirst(v)
    /\ rec' = IF IdOf(v) \in Known /\ v.stage # "pinged"
              THEN [rec EXCEPT ![IdOf(v)] = MarkError(@)] ELSE rec
    /\ failures' = [failures EXCEPT ![IdOf(v)] = AtMost(@ + 1, BadAfter)]
    /\ limbo' = [limbo EXCEPT ![IdOf(v)] = 0]
    /\ UNCHANGED <<leaf_age, untended, timers, dead>>

\* A timeout or a send error.
Failed(v) ==
    /\ v.stage \in {"pinged", "asked"}
    /\ AfterFirst(v)
    /\ rec' = IF IdOf(v) \in Known
              THEN [rec EXCEPT ![IdOf(v)] = MarkError(@)] ELSE rec
    /\ failures' = [failures EXCEPT ![IdOf(v)] = AtMost(@ + 1, BadAfter)]
    /\ limbo' = [limbo EXCEPT ![IdOf(v)] = 0]
    /\ UNCHANGED <<leaf_age, untended, timers, dead>>

\* Fault: the failure of the second request is booked as well.
EndedBooked(v) ==
    /\ v.stage = "again"
    /\ End(v)
    /\ rec' = IF IdOf(v) \in Known
              THEN [rec EXCEPT ![IdOf(v)] = MarkError(@)] ELSE rec
    /\ UNCHANGED <<leaf_age, timers, dead, histories>>

\* The second request of a lookup is answered or fails: the table is told of
\* neither.
Ended(v) ==
    /\ v.stage = "again"
    /\ End(v)
    /\ UNCHANGED <<rec, leaf_age, timers, dead, histories>>

\* A query that carries an id of the table, from that node or another.
Query(c) ==
    /\ c[1] \in Known
    /\ c[2] \notin dead
    /\ rec' = [rec EXCEPT ![c[1]] = MarkLastQuery(@, Now)]
    /\ UNCHANGED <<leaf_age, timers, visits, dead, histories>>

\* A mortal node falls silent.
Die(addr) ==
    /\ addr \in Mortal \ dead
    /\ dead' = dead \cup {addr}
    /\ UNCHANGED <<rec, leaf_age, timers, visits, histories>>

VisitStep(v) ==
    visits[v] > 0 /\ (PingStart(v) \/ Answered(v) \/ Failed(v) \/ Ended(v))

Next ==
    \/ Tick
    \/ PingRound
    \/ RefreshRound
    \/ \E c \in Claims : FindStart(c) \/ Query(c)
    \/ \E v \in Visits : VisitStep(v)
    \/ \E addr \in Mortal : Die(addr)

\* Time goes by for ever.  Tick waits for the loops, which run as long as the
\* worker does, and for the requests under way for long, which are answered or
\* time out; each is possible whenever Tick waits for it, so no step is ever
\* in the way of the next Tick.
Fairness == []<><<Tick>>_vars

Spec == Init /\ [][Next]_vars /\ Fairness
-----------------------------------------------------------------------------
(***************************************************************************)
(* Properties                                                              *)
(***************************************************************************)

\* A node is Bad only if two visits of it failed and none was answered in
\* between, however many lookups and pings are on their way to it at a time,
\* and to whichever of its addresses; being evicted and named again does not
\* count against it.  A visit of a lookup counts as its first request went:
\* what the second one brings, an answer included, is booked nowhere.
BadIsDeserved ==
    \A id \in Known : StatusOf(id) = "Bad" => failures[id] >= BadAfter

\* No node is left in limbo: one that is neither Good nor Bad hears from us and
\* answers, or fails to, within an interval of the pinger and a request, whether
\* its last answer grew too old just after the pinger came by, its last visit
\* failed, or it was only just loaded, or named.  So a node that answers is
\* Good again by then, and one that does not is Bad after two such times.
NoneInLimbo == \A id \in Ids : limbo[id] <= PingEvery + 1

\* A leaf that nobody hears from is looked up before twice the inactivity
\* timeout has gone by, and again and again while nobody answers.
TendedInTime == untended < 2 * Inactivity

\* A node all of whose addresses fell silent ends up Bad, or gone, however it
\* stood and whatever the pinger and the lookups were doing.
DeadIsNoticed ==
    \A id \in Ids :
        (id \in Known /\ AddrsOf(id) \subseteq dead)
            ~> (id \in Known => StatusOf(id) = "Bad")
=============================================================================
