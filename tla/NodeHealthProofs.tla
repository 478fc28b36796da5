--------------------------- MODULE NodeHealthProofs ---------------------------
(***************************************************************************)
(* Proofs about NodeHealth, for any nodes and addresses, any of them dead  *)
(* or alive, any size of the table, any INACTIVITY_TIMEOUT and interval of *)
(* the pinger, and any number of lookups at a time.                        *)
(***************************************************************************)
EXTENDS NodeHealth, TLAPS

-----------------------------------------------------------------------------
(***************************************************************************)
(* The bucket refresher.                                                   *)
(***************************************************************************)

\* The refresher comes by every Inactivity ticks.  It leaves a leaf alone only
\* if that was refreshed since it last came, and then comes again in time.
RefresherInTime ==
    /\ leaf_age \in 0 .. Now
    /\ refresh_in \in 0 .. Inactivity
    /\ untended \in Nat
    /\ untended + refresh_in < 2 * Inactivity
    /\ leaf_age < Inactivity => untended <= leaf_age

LEMMA RefresherInit == Init => RefresherInTime
BY InactivityAssumption DEF Init, RefresherInTime, Now

LEMMA RefresherStep == RefresherInTime /\ [Next]_vars => RefresherInTime'
<1> SUFFICES ASSUME RefresherInTime, [Next]_vars
             PROVE  RefresherInTime'
  OBVIOUS
<1> USE InactivityAssumption DEF RefresherInTime, Now
<1>1. CASE Tick
  BY <1>1 DEF Tick, AtMost
<1>2. CASE RefreshRound
  BY <1>2 DEF RefreshRound, Stale
<1>3. ASSUME NEW c \in Claims, FindStart(c)
      PROVE  RefresherInTime'
  <2>1. \/ leaf_age' = leaf_age /\ untended' = untended
        \/ leaf_age' = 0 /\ untended' = 0
    BY <1>3 DEF FindStart
  <2>2. refresh_in' = refresh_in
    BY <1>3 DEF FindStart, timers
  <2> QED
    BY <2>1, <2>2
<1>4. ASSUME NEW v \in Visits, Answered(v)
      PROVE  RefresherInTime'
  BY <1>4 DEF Answered, timers
<1>5. CASE UNCHANGED <<leaf_age, refresh_in, untended>>
  BY <1>5
<1>6. ASSUME NEW v \in Visits, PingStart(v) \/ Failed(v) \/ Ended(v)
      PROVE  UNCHANGED <<leaf_age, refresh_in, untended>>
  BY <1>6 DEF PingStart, Failed, Ended, timers, histories
<1>7. ASSUME NEW c \in Claims, Query(c)
      PROVE  UNCHANGED <<leaf_age, refresh_in, untended>>
  BY <1>7 DEF Query, timers, histories
<1>8. ASSUME NEW addr \in Mortal, Die(addr)
      PROVE  UNCHANGED <<leaf_age, refresh_in, untended>>
  BY <1>8 DEF Die, timers, histories
<1>9. CASE PingRound \/ UNCHANGED vars
  BY <1>5, <1>9 DEF PingRound, vars, timers, histories
<1> QED
  BY <1>1, <1>2, <1>3, <1>4, <1>5, <1>6, <1>7, <1>8, <1>9 DEF Next, VisitStep

-----------------------------------------------------------------------------
(***************************************************************************)
(* What is booked on an entry.                                             *)
(***************************************************************************)

Typed ==
    /\ Known \subseteq Ids
    /\ rec \in [Known -> Nodes(Addrs, Int)]
    /\ \A id \in Known : <<id, rec[id].addr>> \in Claims
    /\ visits \in [Visits -> Nat]
    /\ failures \in [Ids -> 0 .. BadAfter]
    /\ limbo \in [Ids -> Nat]
    /\ ping_in \in 0 .. PingEvery

\* The errors of an entry are failures of its id, of requests it knows of.
Earned(id) ==
    /\ rec[id].errors <= failures[id]
    /\ rec[id].errors > 0 => Requested(rec[id])

\* The table knows of a request that is under way to one of its nodes, though
\* not of a ping that waits in the channel.
Recorded(v) ==
    visits[v] > 0 /\ v.stage # "queued" /\ IdOf(v) \in Known
        => Requested(rec[IdOf(v)])

Booked ==
    /\ Typed
    /\ \A id \in Known : Earned(id)
    /\ \A v \in Visits : Recorded(v)

LEMMA ClaimParts ==
    \A c \in Claims : c[1] \in Ids /\ c[2] \in Addrs /\ <<c[1], c[2]>> \in Claims
BY HealthAssumption DEF Ids, Addrs

LEMMA NewNodeFresh ==
    ASSUME NEW addr \in Addrs
    PROVE  /\ NewNode(addr) \in Nodes(Addrs, Int)
           /\ NewNode(addr).addr = addr /\ NewNode(addr).errors = 0
BY DEF NewNode, Nodes, Never, BadAfter

\* Every mark but those of outcomes leaves address and errors alone.
LEMMA MarksKeep ==
    ASSUME NEW n \in Nodes(Addrs, Int)
    PROVE  /\ MarkOutgoingRequest(n, Now) \in Nodes(Addrs, Int)
           /\ MarkOutgoingRequest(n, Now).addr = n.addr
           /\ MarkOutgoingRequest(n, Now).errors = n.errors
           /\ MarkLastQuery(n, Now) \in Nodes(Addrs, Int)
           /\ MarkLastQuery(n, Now).addr = n.addr
           /\ MarkLastQuery(n, Now).errors = n.errors
           /\ OlderNode(n) \in Nodes(Addrs, Int)
           /\ OlderNode(n).addr = n.addr
           /\ OlderNode(n).errors = n.errors
<1>1. Now \in Int
  BY InactivityAssumption DEF Now
<1>2. /\ MarkOutgoingRequest(n, Now) \in Nodes(Addrs, Int)
      /\ MarkOutgoingRequest(n, Now).addr = n.addr
      /\ MarkOutgoingRequest(n, Now).errors = n.errors
  BY <1>1 DEF Nodes, MarkOutgoingRequest
<1>3. /\ MarkLastQuery(n, Now) \in Nodes(Addrs, Int)
      /\ MarkLastQuery(n, Now).addr = n.addr
      /\ MarkLastQuery(n, Now).errors = n.errors
  BY <1>1 DEF Nodes, MarkLastQuery
<1>4. \A t \in Int \cup {Never} : Older(t) \in Int \cup {Never}
  BY DEF Older, Never
<1>5. [n EXCEPT !.last_request = Older(@)] \in Nodes(Addrs, Int)
  BY <1>4 DEF Nodes
<1>6. \A m \in Nodes(Addrs, Int) :
        [m EXCEPT !.last_response = Older(@)] \in Nodes(Addrs, Int)
  BY <1>4 DEF Nodes
<1>7. \A m \in Nodes(Addrs, Int) :
        [m EXCEPT !.last_query = Older(@)] \in Nodes(Addrs, Int)
  BY <1>4 DEF Nodes
<1>8. OlderNode(n) = [[[n EXCEPT !.last_request = Older(@)]
                         EXCEPT !.last_response = Older(@)]
                         EXCEPT !.last_query = Older(@)]
  BY DEF OlderNode, Nodes
<1>9. OlderNode(n) \in Nodes(Addrs, Int)
  BY <1>5, <1>6, <1>7, <1>8
<1>10. OlderNode(n).addr = n.addr /\ OlderNode(n).errors = n.errors
  BY DEF OlderNode, Nodes
<1> QED
  BY <1>2, <1>3, <1>9, <1>10

\* A request that is recorded stays so, and no mark but those of outcomes puts
\* a node in limbo.
LEMMA MarksAreHarmless ==
    ASSUME NEW n \in Nodes(Addrs, Int)
    PROVE  /\ Requested(MarkOutgoingRequest(n, Now))
           /\ Requested(n) => /\ Requested(MarkLastQuery(n, Now))
                              /\ Requested(OlderNode(n))
                              /\ Requested(MarkError(n))
           /\ Requested(MarkResponse(n, Now))
           /\ \A m \in {MarkOutgoingRequest(n, Now), MarkLastQuery(n, Now)} :
                /\ IsBad(n) => IsBad(m)
                /\ IsGood(n, Now) => IsGood(m, Now) \/ IsBad(m)
<1>1. Now \in Int /\ Now # Never /\ Within(Now, Now)
  BY InactivityAssumption DEF Now, Never, Within
<1>2. /\ MarkOutgoingRequest(n, Now).last_request = Now
      /\ MarkOutgoingRequest(n, Now).last_response = n.last_response
      /\ MarkOutgoingRequest(n, Now).last_query = n.last_query
      /\ MarkOutgoingRequest(n, Now).errors = n.errors
  BY DEF MarkOutgoingRequest, Nodes
<1>3. /\ MarkLastQuery(n, Now).last_request = n.last_request
      /\ MarkLastQuery(n, Now).last_response = n.last_response
      /\ MarkLastQuery(n, Now).last_query = Now
      /\ MarkLastQuery(n, Now).errors = n.errors
  BY DEF MarkLastQuery, Nodes
<1>4. Requested(n) => Requested(OlderNode(n))
  <2>1. n.last_request \in Int \cup {Never}
    BY DEF Nodes
  <2>2. OlderNode(n).last_request = Older(n.last_request)
    BY DEF OlderNode, Nodes
  <2> QED
    BY <2>1, <2>2 DEF Requested, Older, Never
<1>5. MarkError(n).last_request = n.last_request
  BY DEF MarkError, Nodes
<1>6. Requested(MarkResponse(n, Now))
  BY <1>1 DEF MarkResponse, MarkOutgoingRequest, Requested, Nodes
<1>7. \A m \in {MarkOutgoingRequest(n, Now), MarkLastQuery(n, Now)} :
        /\ IsBad(n) => IsBad(m)
        /\ IsGood(n, Now) => IsGood(m, Now) \/ IsBad(m)
  BY <1>1, <1>2, <1>3 DEF IsBad, IsGood, Requested
<1> QED
  BY <1>1, <1>2, <1>3, <1>4, <1>5, <1>6, <1>7 DEF Requested

LEMMA OutcomeMarks ==
    ASSUME NEW n \in Nodes(Addrs, Int)
    PROVE  /\ MarkResponse(n, Now) \in Nodes(Addrs, Int)
           /\ MarkResponse(n, Now).addr = n.addr
           /\ MarkResponse(n, Now).errors = 0
           /\ MarkError(n) \in Nodes(Addrs, Int)
           /\ MarkError(n).addr = n.addr
           /\ MarkError(n).errors = AtMost(n.errors + 1, BadAfter)
<1>1. Now \in Int
  BY InactivityAssumption DEF Now
<1>2. /\ MarkResponse(n, Now) \in Nodes(Addrs, Int)
      /\ MarkResponse(n, Now).addr = n.addr
      /\ MarkResponse(n, Now).errors = 0
  <2> DEFINE answered == [n EXCEPT !.last_response = Now, !.errors = 0]
  <2>1. [n EXCEPT !.last_response = Now] \in Nodes(Addrs, Int)
    BY <1>1 DEF Nodes
  <2>2. answered = [[n EXCEPT !.last_response = Now] EXCEPT !.errors = 0]
    BY DEF Nodes
  <2>3. answered \in Nodes(Addrs, Int)
    <3>1. 0 \in 0 .. BadAfter
      BY DEF BadAfter
    <3>2. \A m \in Nodes(Addrs, Int) : [m EXCEPT !.errors = 0] \in Nodes(Addrs, Int)
      BY <3>1 DEF Nodes
    <3> HIDE DEF answered
    <3> QED
      BY <2>1, <2>2, <3>2
  <2>4. answered.addr = n.addr /\ answered.errors = 0
    BY DEF Nodes
  <2> HIDE DEF answered
  <2>5. /\ MarkOutgoingRequest(answered, Now) \in Nodes(Addrs, Int)
        /\ MarkOutgoingRequest(answered, Now).addr = n.addr
        /\ MarkOutgoingRequest(answered, Now).errors = 0
    BY <2>3, <2>4, MarksKeep
  <2>6. MarkResponse(n, Now) \in {answered, MarkOutgoingRequest(answered, Now)}
    BY DEF MarkResponse, answered
  <2> QED
    BY <2>3, <2>4, <2>5, <2>6
<1>3. /\ n.errors \in 0 .. BadAfter
      /\ MarkError(n).errors = IF n.errors < BadAfter THEN n.errors + 1 ELSE n.errors
      /\ MarkError(n).addr = n.addr
  BY DEF Nodes, MarkError
<1>4. MarkError(n) \in Nodes(Addrs, Int)
  BY <1>3 DEF Nodes, MarkError, BadAfter
<1> QED
  BY <1>2, <1>3, <1>4 DEF AtMost, BadAfter

\* What an answer brings into the table: the entry named is new, or nothing is.
LEMMA OutcomeShape ==
    ASSUME Typed, NEW id \in Ids, NEW addr \in Addrs,
           NEW o \in Table!AddOutcomes(rec, id, addr)
    PROVE  /\ DOMAIN o.table \subseteq Known \cup {id}
           /\ o.table \in [DOMAIN o.table -> Nodes(Addrs, Int)]
           /\ \A n \in DOMAIN o.table :
                IF n \in Known THEN o.table[n] = rec[n]
                ELSE o.table[n] = NewNode(addr)
           /\ o.how = "Ignored" => o.table = rec /\ id \notin Known
           /\ o.how # "Ignored" => id \in DOMAIN o.table
           /\ \A n \in Known \ DOMAIN o.table : IsBad(rec[n])
<1>1. NewNode(addr) \in Nodes(Addrs, Int) /\ Table!NewNode(addr) = NewNode(addr)
  BY NewNodeFresh DEF Table!NewNode, NewNode, Table!Never, Never
<1>2. Known = DOMAIN rec /\ rec \in [Known -> Nodes(Addrs, Int)]
  BY DEF Known, Typed
<1>3. CASE /\ o.table = rec
            /\ IF id \in Known THEN o.how # "Ignored" ELSE o.how = "Ignored"
  BY <1>2, <1>3
<1>4. ASSUME NEW gone \in SUBSET Known, id \notin Known,
             \A n \in gone : IsBad(rec[n]),
             o.table = Table!With(rec, gone, id, addr), o.how # "Ignored"
      PROVE  /\ DOMAIN o.table \subseteq Known \cup {id}
             /\ o.table \in [DOMAIN o.table -> Nodes(Addrs, Int)]
             /\ \A n \in DOMAIN o.table :
                  IF n \in Known THEN o.table[n] = rec[n]
                  ELSE o.table[n] = NewNode(addr)
             /\ id \in DOMAIN o.table
             /\ \A n \in Known \ DOMAIN o.table : IsBad(rec[n])
  <2>1. o.table = [n \in (Known \ gone) \cup {id} |->
                     IF n = id THEN NewNode(addr) ELSE rec[n]]
    BY <1>1, <1>2, <1>4 DEF Table!With
  <2> QED
    BY <1>1, <1>2, <1>4, <2>1
<1>5. CASE id \in Known
  <2>1. o = [how |-> "WasExisting", gone |-> {}, table |-> rec]
    BY <1>2, <1>5 DEF Table!AddOutcomes
  <2> QED
    BY <1>3, <1>5, <2>1
<1>6. CASE id \notin Known
  <2>1. \/ o = [how |-> "Ignored", gone |-> {}, table |-> rec]
        \/ \E bad \in Table!BadNodes(rec) :
             o = [how |-> "ReplacedBad", gone |-> {bad},
                  table |-> Table!With(rec, {bad}, id, addr)]
        \/ o = [how |-> "Added", gone |-> {},
                table |-> Table!With(rec, {}, id, addr)]
    BY <1>2, <1>6 DEF Table!AddOutcomes
  <2>2. CASE o = [how |-> "Ignored", gone |-> {}, table |-> rec]
    BY <1>3, <1>6, <2>2
  <2>3. ASSUME NEW bad \in Table!BadNodes(rec),
               o = [how |-> "ReplacedBad", gone |-> {bad},
                    table |-> Table!With(rec, {bad}, id, addr)]
        PROVE  /\ {bad} \in SUBSET Known /\ \A n \in {bad} : IsBad(rec[n])
               /\ o.table = Table!With(rec, {bad}, id, addr) /\ o.how = "ReplacedBad"
    BY <1>2, <2>3
    DEF Table!BadNodes, Table!IsBad, Table!Requested, Table!Never, Table!BadAfter,
        IsBad, Requested, Never, BadAfter
  <2>4. CASE o = [how |-> "Added", gone |-> {},
                  table |-> Table!With(rec, {}, id, addr)]
    <3>1. /\ {} \in SUBSET Known /\ o.how = "Added"
          /\ o.table = Table!With(rec, {}, id, addr)
      BY <2>4
    <3> QED
      BY <1>4, <1>6, <3>1
  <2>5. CASE \E bad \in Table!BadNodes(rec) :
               o = [how |-> "ReplacedBad", gone |-> {bad},
                    table |-> Table!With(rec, {bad}, id, addr)]
    <3>1. PICK bad : /\ {bad} \in SUBSET Known
                     /\ \A n \in {bad} : IsBad(rec[n])
                     /\ o.table = Table!With(rec, {bad}, id, addr)
                     /\ o.how = "ReplacedBad"
      BY <2>3, <2>5
    <3> QED
      BY <1>4, <1>6, <3>1
  <2> QED
    BY <2>1, <2>2, <2>4, <2>5
<1> QED
  BY <1>5, <1>6

\* What a request of a lookup makes of the table.
LEMMA FindStartShape ==
    ASSUME Typed, NEW c \in Claims, FindStart(c)
    PROVE  /\ Known' \subseteq Known \cup {c[1]}
           /\ rec' \in [Known' -> Nodes(Addrs, Int)]
           /\ \A n \in Known' \ {c[1]} : rec'[n] = rec[n]
           /\ c[1] \in Known' =>
                rec'[c[1]] = MarkOutgoingRequest(
                    IF c[1] \in Known THEN rec[c[1]] ELSE NewNode(c[2]), Now)
           /\ \A n \in Known \ Known' : IsBad(rec[n])
<1>1. c[1] \in Ids /\ c[2] \in Addrs
  BY ClaimParts
<1>2. PICK o \in Table!AddOutcomes(rec, c[1], c[2]) :
        rec' = IF o.how = "Ignored" THEN rec
               ELSE [o.table EXCEPT ![c[1]] = MarkOutgoingRequest(o.table[c[1]], Now)]
  BY DEF FindStart
<1>3. /\ DOMAIN o.table \subseteq Known \cup {c[1]}
      /\ o.table \in [DOMAIN o.table -> Nodes(Addrs, Int)]
      /\ \A n \in DOMAIN o.table :
           IF n \in Known THEN o.table[n] = rec[n] ELSE o.table[n] = NewNode(c[2])
      /\ o.how = "Ignored" => o.table = rec /\ c[1] \notin Known
      /\ o.how # "Ignored" => c[1] \in DOMAIN o.table
      /\ \A n \in Known \ DOMAIN o.table : IsBad(rec[n])
  BY <1>1, OutcomeShape
<1>4. CASE o.how = "Ignored"
  BY <1>2, <1>3, <1>4 DEF Known
<1>5. CASE o.how # "Ignored"
  <2>1. c[1] \in DOMAIN o.table /\ o.table[c[1]] \in Nodes(Addrs, Int)
    BY <1>3, <1>5
  <2>2. rec' = [o.table EXCEPT ![c[1]] = MarkOutgoingRequest(o.table[c[1]], Now)]
    BY <1>2, <1>5
  <2>3. Known' = DOMAIN o.table
    BY <2>2 DEF Known
  <2>4. rec' \in [Known' -> Nodes(Addrs, Int)]
    BY <1>3, <2>1, <2>2, <2>3, MarksKeep
  <2>5. /\ rec'[c[1]] = MarkOutgoingRequest(o.table[c[1]], Now)
        /\ \A n \in Known' \ {c[1]} : rec'[n] = o.table[n]
    BY <1>3, <2>1, <2>2, <2>3
  <2> QED
    BY <1>3, <2>1, <2>3, <2>4, <2>5
<1> QED
  BY <1>4, <1>5

-----------------------------------------------------------------------------
(***************************************************************************)
(* How visits go on.                                                       *)
(***************************************************************************)

LEMMA VisitFields ==
    /\ \A v \in Visits : /\ v.node \in Claims /\ IdOf(v) \in Ids
                         /\ v.stage \in {"queued", "pinged", "asked", "again"}
                         /\ v.late \in BOOLEAN
    /\ \A v \in Visits, stage \in {"queued", "pinged", "asked", "again"} :
         LET w == [v EXCEPT !.stage = stage]
         IN  w \in Visits /\ IdOf(w) = IdOf(v) /\ w.stage = stage /\ w.late = v.late
    /\ \A c \in Claims, stage \in {"queued", "pinged", "asked", "again"} :
         LET w == Visit(c, stage)
         IN  w \in Visits /\ IdOf(w) = c[1] /\ w.stage = stage /\ ~w.late
BY ClaimParts DEF Visits, IdOf, Visit

LEMMA GoOnCounts ==
    ASSUME visits \in [Visits -> Nat], NEW v \in Visits, NEW w \in Visits,
           w # v, visits[v] > 0, GoOn(v, w)
    PROVE  /\ visits' \in [Visits -> Nat]
           /\ visits'[w] > 0
           /\ \A u \in Visits \ {v, w} : visits'[u] = visits[u]
<1> DEFINE less == [visits EXCEPT ![v] = visits[v] - 1]
<1>1. less \in [Visits -> Nat] /\ less[w] = visits[w]
  BY DEF GoOn
<1>2. visits' = [less EXCEPT ![w] = less[w] + 1]
  BY <1>1 DEF GoOn
<1>3. \A u \in Visits \ {v, w} : less[u] = visits[u]
  OBVIOUS
<1> HIDE DEF less
<1> QED
  BY <1>1, <1>2, <1>3

LEMMA EndCounts ==
    ASSUME visits \in [Visits -> Nat], NEW v \in Visits, visits[v] > 0, End(v)
    PROVE  /\ visits' \in [Visits -> Nat]
           /\ \A u \in Visits \ {v} : visits'[u] = visits[u]
BY DEF End

\* When the first request is over, nothing changes for the other nodes.
LEMMA AfterFirstCounts ==
    ASSUME visits \in [Visits -> Nat], NEW v \in Visits, visits[v] > 0,
           v.stage \in {"pinged", "asked"}, AfterFirst(v)
    PROVE  /\ visits' \in [Visits -> Nat]
           /\ \A u \in Visits : IdOf(u) # IdOf(v) => visits'[u] = visits[u]
<1>1. CASE v.stage = "pinged"
  BY <1>1, EndCounts DEF AfterFirst
<1>2. CASE v.stage = "asked"
  <2>1. PICK w : w = [v EXCEPT !.stage = "again"]
    OBVIOUS
  <2>2. w \in Visits /\ IdOf(w) = IdOf(v) /\ w.stage = "again"
    BY <2>1, VisitFields
  <2>3. GoOn(v, w) /\ w # v
    BY <1>2, <2>1, <2>2 DEF AfterFirst
  <2> QED
    BY <2>2, <2>3, GoOnCounts
<1> QED
  BY <1>1, <1>2

-----------------------------------------------------------------------------
LEMMA BookedInit == Init => Booked
<1> SUFFICES ASSUME Init
             PROVE  Booked
  OBVIOUS
<1>1. PICK known \in SUBSET Ids : \E addr \in [known -> Addrs] :
        /\ \A id \in known : <<id, addr[id]>> \in Claims
        /\ rec = [id \in known |-> NewNode(addr[id])]
  BY DEF Init
<1>2. PICK addr \in [known -> Addrs] :
        /\ \A id \in known : <<id, addr[id]>> \in Claims
        /\ rec = [id \in known |-> NewNode(addr[id])]
  BY <1>1
<1>3. /\ Known = known /\ rec \in [Known -> Nodes(Addrs, Int)]
      /\ \A id \in Known : rec[id].addr = addr[id] /\ rec[id].errors = 0
  BY <1>2, NewNodeFresh DEF Known
<1>4. /\ failures \in [Ids -> 0 .. BadAfter] /\ limbo \in [Ids -> Nat]
      /\ visits \in [Visits -> Nat] /\ \A v \in Visits : visits[v] = 0
      /\ ping_in \in 0 .. PingEvery
  BY HealthAssumption DEF Init, Fresh, BadAfter
<1>5. Typed
  BY <1>1, <1>2, <1>3, <1>4 DEF Typed
<1>6. \A id \in Known : Earned(id)
  BY <1>1, <1>3 DEF Init, Fresh, Earned
<1> QED
  BY <1>4, <1>5, <1>6 DEF Booked, Recorded

\* A mark that is not that of an outcome, on any of the entries.
LEMMA QuietStep ==
    ASSUME Booked, DOMAIN rec' = Known, rec' \in [Known -> Nodes(Addrs, Int)],
           \A id \in Known :
               /\ rec'[id].addr = rec[id].addr /\ rec'[id].errors = rec[id].errors
               /\ Requested(rec[id]) => Requested(rec'[id]),
           UNCHANGED failures, limbo' \in [Ids -> Nat],
           visits' \in [Visits -> Nat], ping_in' \in 0 .. PingEvery,
           \A v \in Visits : Recorded(v)'
    PROVE  Booked'
<1>1. Known' = Known
  BY DEF Known
<1>2. Typed'
  BY <1>1 DEF Booked, Typed
<1>3. \A id \in Known' : Earned(id)'
  BY <1>1 DEF Booked, Earned
<1> QED
  BY <1>2, <1>3 DEF Booked

\* A lookup names a node: an entry that is new has no errors.
LEMMA FindStartKeeps ==
    ASSUME Booked, NEW c \in Claims, FindStart(c)
    PROVE  Booked'
<1>1. c[1] \in Ids /\ c[2] \in Addrs /\ <<c[1], c[2]>> \in Claims
  BY ClaimParts
<1>2. /\ Known' \subseteq Known \cup {c[1]}
      /\ rec' \in [Known' -> Nodes(Addrs, Int)]
      /\ \A n \in Known' \ {c[1]} : rec'[n] = rec[n]
      /\ c[1] \in Known' =>
           rec'[c[1]] = MarkOutgoingRequest(
               IF c[1] \in Known THEN rec[c[1]] ELSE NewNode(c[2]), Now)
  BY FindStartShape DEF Booked
<1>3. UNCHANGED <<failures, limbo, ping_in>>
  BY DEF FindStart, timers
<1>4. PICK w : w = Visit(c, "asked")
  OBVIOUS
<1>5. /\ w \in Visits /\ IdOf(w) = c[1] /\ w.stage = "asked"
      /\ visits' = [visits EXCEPT ![w] = visits[w] + 1]
  BY <1>4, VisitFields DEF FindStart, Begin
<1>6. /\ visits' \in [Visits -> Nat]
      /\ \A v \in Visits \ {w} : visits'[v] = visits[v]
  BY <1>5 DEF Booked, Typed
<1>7. ASSUME c[1] \in Known'
      PROVE  /\ <<c[1], rec'[c[1]].addr>> \in Claims
             /\ Earned(c[1])' /\ Requested(rec'[c[1]])
  <2>1. failures[c[1]] \in Nat
    BY <1>1 DEF Booked, Typed, BadAfter
  <2>2. CASE c[1] \in Known
    <3>1. rec[c[1]] \in Nodes(Addrs, Int)
      BY <2>2 DEF Booked, Typed
    <3>2. rec'[c[1]] = MarkOutgoingRequest(rec[c[1]], Now)
      BY <1>2, <1>7, <2>2
    <3>3. /\ rec'[c[1]].addr = rec[c[1]].addr
          /\ rec'[c[1]].errors = rec[c[1]].errors
          /\ Requested(rec'[c[1]])
      BY <3>1, <3>2, MarksKeep, MarksAreHarmless
    <3>4. <<c[1], rec[c[1]].addr>> \in Claims /\ Earned(c[1])
      BY <2>2 DEF Booked, Typed
    <3> QED
      BY <1>3, <3>3, <3>4 DEF Earned
  <2>3. CASE c[1] \notin Known
    <3>1. rec'[c[1]] = MarkOutgoingRequest(NewNode(c[2]), Now)
      BY <1>2, <1>7, <2>3
    <3>2. PICK n \in Nodes(Addrs, Int) :
            n = NewNode(c[2]) /\ n.addr = c[2] /\ n.errors = 0
      BY <1>1, NewNodeFresh
    <3>3. /\ rec'[c[1]].addr = c[2] /\ rec'[c[1]].errors = 0
          /\ Requested(rec'[c[1]])
      BY <3>1, <3>2, MarksKeep, MarksAreHarmless
    <3> QED
      BY <1>1, <1>3, <2>1, <3>3 DEF Earned
  <2> QED
    BY <2>2, <2>3
<1>8. Typed'
  BY <1>1, <1>2, <1>3, <1>6, <1>7 DEF Booked, Typed
<1>9. ASSUME NEW id \in Known'
      PROVE  Earned(id)'
  BY <1>2, <1>3, <1>7 DEF Booked, Earned
<1>10. ASSUME NEW v \in Visits
       PROVE  Recorded(v)'
  <2>1. CASE IdOf(v) = c[1]
    BY <1>7, <2>1 DEF Recorded, IdOf
  <2>2. CASE IdOf(v) # c[1]
    BY <1>2, <1>5, <1>6, <2>2 DEF Booked, Recorded, IdOf
  <2> QED
    BY <2>1, <2>2
<1> QED
  BY <1>8, <1>9, <1>10 DEF Booked

\* An outcome changes one entry, if its node is still in the table, and counts
\* against the id, or for it, in any case.
LEMMA OutcomeKeeps ==
    ASSUME Booked, NEW v \in Visits, visits[v] > 0,
           v.stage \in {"pinged", "asked"}, Answered(v) \/ Failed(v)
    PROVE  Booked'
<1>1. v.node \in Claims /\ IdOf(v) \in Ids /\ AfterFirst(v) /\ UNCHANGED ping_in
  BY VisitFields DEF Answered, Failed, timers
<1>2. PICK id \in Ids : id = IdOf(v)
  BY <1>1
<1>3. /\ visits' \in [Visits -> Nat]
      /\ \A u \in Visits : IdOf(u) # id => visits'[u] = visits[u]
  BY <1>1, <1>2, AfterFirstCounts DEF Booked, Typed
<1>4. limbo' = [limbo EXCEPT ![id] = 0] /\ limbo' \in [Ids -> Nat]
  BY <1>2 DEF Answered, Failed, Booked, Typed
<1>5. failures[id] \in 0 .. BadAfter
  BY DEF Booked, Typed
<1>6. PICK count \in 0 .. BadAfter :
        /\ failures' = [failures EXCEPT ![id] = count]
        /\ Answered(v) \/ count = AtMost(failures[id] + 1, BadAfter)
  <2>1. CASE Answered(v)
    BY <1>2, <2>1 DEF Answered, BadAfter
  <2>2. CASE Failed(v)
    <3>1. AtMost(failures[id] + 1, BadAfter) \in 0 .. BadAfter
      BY <1>5 DEF AtMost, BadAfter
    <3> QED
      BY <1>2, <2>2, <3>1 DEF Failed
  <2> QED
    BY <2>1, <2>2
<1>7. /\ failures' \in [Ids -> 0 .. BadAfter] /\ failures'[id] = count
      /\ \A n \in Ids \ {id} : failures'[n] = failures[n]
  BY <1>6 DEF Booked, Typed
<1>8. CASE id \notin Known
  <2>1. rec' = rec /\ Known' = Known
    BY <1>2, <1>8 DEF Answered, Failed, Known
  <2>2. Typed'
    BY <1>1, <1>3, <1>4, <1>7, <2>1 DEF Booked, Typed
  <2>3. \A n \in Known' : Earned(n)'
    BY <1>7, <1>8, <2>1 DEF Booked, Typed, Earned
  <2>4. \A u \in Visits : Recorded(u)'
    BY <1>3, <1>8, <2>1 DEF Booked, Recorded, IdOf
  <2> QED
    BY <2>2, <2>3, <2>4 DEF Booked
<1>9. CASE id \in Known
  <2>1. /\ rec[id] \in Nodes(Addrs, Int) /\ Earned(id) /\ Requested(rec[id])
        /\ <<id, rec[id].addr>> \in Claims
    BY <1>2, <1>9 DEF Booked, Typed, Recorded
  <2>2. PICK entry \in Nodes(Addrs, Int) :
          /\ rec' = [rec EXCEPT ![id] = entry]
          /\ entry.addr = rec[id].addr /\ Requested(entry)
          /\ entry.errors <= count
    <3>1. CASE Answered(v)
      <4>1. rec' = [rec EXCEPT ![id] = MarkResponse(rec[id], Now)]
        BY <1>2, <1>9, <3>1 DEF Answered
      <4>2. /\ MarkResponse(rec[id], Now) \in Nodes(Addrs, Int)
            /\ MarkResponse(rec[id], Now).addr = rec[id].addr
            /\ MarkResponse(rec[id], Now).errors = 0
            /\ Requested(MarkResponse(rec[id], Now))
        BY <2>1, OutcomeMarks, MarksAreHarmless
      <4>3. 0 <= count
        BY DEF BadAfter
      <4> QED
        BY <4>1, <4>2, <4>3
    <3>2. CASE Failed(v) /\ ~Answered(v)
      <4>1. rec' = [rec EXCEPT ![id] = MarkError(rec[id])]
        BY <1>2, <1>9, <3>2 DEF Failed
      <4>2. rec[id].errors \in 0 .. BadAfter /\ rec[id].errors <= failures[id]
        BY <2>1 DEF Nodes, Earned
      <4>3. AtMost(rec[id].errors + 1, BadAfter) <= count
        BY <1>5, <1>6, <3>2, <4>2 DEF AtMost, BadAfter
      <4> QED
        BY <2>1, <4>1, <4>3, OutcomeMarks, MarksAreHarmless
    <3> QED
      BY <3>1, <3>2
  <2>3. /\ Known' = Known /\ rec' \in [Known -> Nodes(Addrs, Int)]
        /\ rec'[id] = entry /\ \A n \in Known \ {id} : rec'[n] = rec[n]
    BY <1>9, <2>2 DEF Known, Booked, Typed
  <2>4. Typed'
    BY <1>1, <1>3, <1>4, <1>7, <2>1, <2>2, <2>3 DEF Booked, Typed
  <2>5. ASSUME NEW n \in Known'
        PROVE  Earned(n)'
    <3>1. CASE n = id
      BY <1>7, <2>2, <2>3, <3>1 DEF Earned
    <3>2. CASE n # id
      BY <1>7, <2>3, <2>5, <3>2 DEF Booked, Typed, Earned
    <3> QED
      BY <3>1, <3>2
  <2>6. ASSUME NEW u \in Visits
        PROVE  Recorded(u)'
    <3>1. CASE IdOf(u) = id
      BY <2>2, <2>3, <3>1 DEF Recorded, IdOf
    <3>2. CASE IdOf(u) # id
      BY <1>3, <2>3, <3>2 DEF Booked, Recorded, IdOf
    <3> QED
      BY <3>1, <3>2
  <2> QED
    BY <2>4, <2>5, <2>6 DEF Booked
<1> QED
  BY <1>8, <1>9

\* A ping goes out: the table is told.
LEMMA PingStartShape ==
    ASSUME Booked, NEW v \in Visits, visits[v] > 0, PingStart(v)
    PROVE  \E w \in Visits :
             /\ IdOf(w) = IdOf(v) /\ w.stage = "pinged" /\ w.late = v.late
             /\ visits' \in [Visits -> Nat] /\ visits'[w] > 0
             /\ \A u \in Visits \ {v, w} : visits'[u] = visits[u]
<1>1. PICK w : w = [v EXCEPT !.stage = "pinged"]
  OBVIOUS
<1>2. /\ w \in Visits /\ IdOf(w) = IdOf(v) /\ w.stage = "pinged"
      /\ w.late = v.late
  BY <1>1, VisitFields
<1>3. w # v /\ GoOn(v, w)
  BY <1>1, <1>2 DEF PingStart
<1> QED
  BY <1>2, <1>3, GoOnCounts DEF Booked, Typed

LEMMA BookedStep == Booked /\ [Next]_vars => Booked'
<1> SUFFICES ASSUME Booked, [Next]_vars
             PROVE  Booked'
  OBVIOUS
<1>1. /\ Known = DOMAIN rec /\ rec \in [Known -> Nodes(Addrs, Int)]
      /\ \A id \in Known : <<id, rec[id].addr>> \in Claims
      /\ visits \in [Visits -> Nat] /\ limbo \in [Ids -> Nat]
      /\ ping_in \in 0 .. PingEvery
      /\ \A v \in Visits : Recorded(v)
  BY DEF Booked, Typed, Known
<1>2. CASE UNCHANGED <<rec, failures, limbo, visits, ping_in>>
  BY <1>1, <1>2, QuietStep DEF Recorded, Known, IdOf
<1>3. CASE Tick
  <2>1. /\ rec' = [id \in Known |-> OlderNode(rec[id])]
        /\ ping_in > 0 /\ ping_in' = ping_in - 1 /\ UNCHANGED failures
    BY <1>3 DEF Tick
  <2>2. /\ DOMAIN rec' = Known /\ rec' \in [Known -> Nodes(Addrs, Int)]
        /\ \A id \in Known :
             /\ rec'[id].addr = rec[id].addr /\ rec'[id].errors = rec[id].errors
             /\ Requested(rec[id]) => Requested(rec'[id])
    BY <1>1, <2>1, MarksKeep, MarksAreHarmless
  <2>3. limbo' \in [Ids -> Nat]
    <3>1. limbo' = [id \in Ids |->
                      IF id \in Known /\ StatusOf(id) \notin {"Good", "Bad"}
                      THEN AtMost(limbo[id] + 1, PingEvery + 2) ELSE 0]
      BY <1>3 DEF Tick
    <3>2. \A id \in Ids : AtMost(limbo[id] + 1, PingEvery + 2) \in Nat
      BY <1>1, HealthAssumption DEF AtMost
    <3> QED
      BY <3>1, <3>2
  <2>4. \A v \in Visits : [v EXCEPT !.late = FALSE] \in Visits
    BY DEF Visits
  <2>5. /\ visits' = [v \in Visits |->
                        IF v.late THEN visits[[v EXCEPT !.late = FALSE]] ELSE 0]
        /\ visits' \in [Visits -> Nat]
    BY <1>1, <1>3, <2>4 DEF Tick
  <2>6. ASSUME NEW v \in Visits
        PROVE  Recorded(v)'
    <3>1. PICK w : w = [v EXCEPT !.late = FALSE]
      OBVIOUS
    <3>2. w \in Visits /\ IdOf(w) = IdOf(v) /\ w.stage = v.stage
      BY <2>4, <3>1 DEF Visits, IdOf
    <3>3. visits'[v] > 0 => visits[w] > 0
      BY <2>5, <3>1
    <3> QED
      BY <1>1, <2>2, <3>2, <3>3 DEF Recorded, Known, IdOf
  <2>7. ping_in' \in 0 .. PingEvery
    BY <1>1, <2>1, HealthAssumption
  <2> QED
    BY <2>1, <2>2, <2>3, <2>5, <2>6, <2>7, QuietStep
<1>4. CASE PingRound
  <2>1. /\ ping_in' = PingEvery /\ UNCHANGED <<rec, failures, limbo>>
        /\ LET pings == {Ping(id) : id \in {n \in Known : NeedsPing(n)}}
           IN  visits' = [v \in Visits |->
                            IF v \in pings THEN visits[v] + 1 ELSE visits[v]]
    BY <1>4 DEF PingRound, histories
  <2>2. visits' \in [Visits -> Nat] /\ ping_in' \in 0 .. PingEvery
    BY <1>1, <2>1, HealthAssumption
  <2>3. \A v \in Visits : v.stage # "queued" => visits'[v] = visits[v]
    BY <2>1 DEF Ping, Visit
  <2>4. \A v \in Visits : Recorded(v)'
    BY <1>1, <2>1, <2>3 DEF Recorded, Known, IdOf
  <2> QED
    BY <1>1, <2>1, <2>2, <2>4, QuietStep
<1>5. ASSUME NEW v \in Visits, visits[v] > 0, PingStart(v)
      PROVE  Booked'
  <2>1. /\ rec' = IF IdOf(v) \in Known
                  THEN [rec EXCEPT ![IdOf(v)] =
                          MarkOutgoingRequest(rec[IdOf(v)], Now)]
                  ELSE rec
        /\ UNCHANGED <<failures, limbo, ping_in>>
    BY <1>5 DEF PingStart, timers, histories
  <2>2. /\ DOMAIN rec' = Known /\ rec' \in [Known -> Nodes(Addrs, Int)]
        /\ \A id \in Known :
             /\ rec'[id].addr = rec[id].addr /\ rec'[id].errors = rec[id].errors
             /\ Requested(rec[id]) => Requested(rec'[id])
        /\ IdOf(v) \in Known => Requested(rec'[IdOf(v)])
    BY <1>1, <2>1, MarksKeep, MarksAreHarmless
  <2>3. PICK w \in Visits :
          /\ IdOf(w) = IdOf(v) /\ w.stage = "pinged" /\ w.late = v.late
          /\ visits' \in [Visits -> Nat] /\ visits'[w] > 0
          /\ \A u \in Visits \ {v, w} : visits'[u] = visits[u]
    BY <1>5, PingStartShape
  <2>4. ASSUME NEW u \in Visits
        PROVE  Recorded(u)'
    <3>1. CASE IdOf(u) = IdOf(v)
      BY <2>2, <3>1 DEF Recorded, Known, IdOf
    <3>2. CASE IdOf(u) # IdOf(v)
      <4>1. visits'[u] = visits[u]
        BY <2>3, <3>2
      <4> QED
        BY <1>1, <2>2, <4>1 DEF Recorded, Known, IdOf
    <3> QED
      BY <3>1, <3>2
  <2> QED
    BY <1>1, <2>1, <2>2, <2>3, <2>4, QuietStep
<1>6. ASSUME NEW c \in Claims, Query(c)
      PROVE  Booked'
  <2>1. /\ c[1] \in Known
        /\ rec' = [rec EXCEPT ![c[1]] = MarkLastQuery(rec[c[1]], Now)]
        /\ UNCHANGED <<visits, failures, limbo, ping_in>>
    BY <1>1, <1>6 DEF Query, timers, histories
  <2>2. /\ DOMAIN rec' = Known /\ rec' \in [Known -> Nodes(Addrs, Int)]
        /\ \A id \in Known :
             /\ rec'[id].addr = rec[id].addr /\ rec'[id].errors = rec[id].errors
             /\ Requested(rec[id]) => Requested(rec'[id])
    BY <1>1, <2>1, MarksKeep, MarksAreHarmless
  <2>3. \A v \in Visits : Recorded(v)'
    BY <1>1, <2>1, <2>2 DEF Recorded, Known, IdOf
  <2> QED
    BY <1>1, <2>1, <2>2, <2>3, QuietStep
<1>7. ASSUME NEW v \in Visits, visits[v] > 0, Ended(v)
      PROVE  Booked'
  <2>1. UNCHANGED <<rec, failures, limbo, ping_in>> /\ End(v) /\ v.stage = "again"
    BY <1>7 DEF Ended, timers, histories
  <2>2. /\ visits' \in [Visits -> Nat]
        /\ \A u \in Visits \ {v} : visits'[u] = visits[u]
    BY <1>1, <1>7, <2>1, EndCounts
  <2>3. \A u \in Visits : Recorded(u)'
    BY <1>1, <1>7, <2>1, <2>2 DEF Recorded, Known, IdOf
  <2> QED
    BY <1>1, <2>1, <2>2, <2>3, QuietStep
<1>8. CASE RefreshRound \/ UNCHANGED vars
  BY <1>2, <1>8 DEF RefreshRound, vars, timers, histories
<1>9. ASSUME NEW addr \in Mortal, Die(addr)
      PROVE  Booked'
  BY <1>2, <1>9 DEF Die, timers, histories
<1>10. ASSUME NEW v \in Visits, visits[v] > 0, Answered(v) \/ Failed(v)
       PROVE  Booked'
  BY <1>10, OutcomeKeeps DEF Answered, Failed
<1> QED
  BY <1>3, <1>4, <1>5, <1>6, <1>7, <1>8, <1>9, <1>10, FindStartKeeps
  DEF Next, VisitStep

-----------------------------------------------------------------------------
(***************************************************************************)
(* How long a node is in limbo.                                            *)
(***************************************************************************)

InLimbo(id) ==
    /\ id \in Known
    /\ ~IsBad(rec[id])
    /\ ~IsGood(rec[id], Now)

\* Visits whose outcomes will be booked.
Booking(id) ==
    {v \in Visits : visits[v] > 0 /\ IdOf(v) = id /\ v.stage # "again"}

OnItsWay(id) == \E v \in Booking(id) : ~v.late

LongOnItsWay(id) == \E v \in Booking(id) : v.late

\* A node in limbo waits for the pinger, or for the outcome of a visit begun
\* in this tick or the last one.  One that is gone, or has the errors of a Bad
\* node, is not even counted.
Waits(id) ==
    /\ limbo[id] <= PingEvery + 1
    /\ id \notin Known \/ rec[id].errors >= BadAfter => limbo[id] = 0
    /\ InLimbo(id) =>
         \/ limbo[id] + ping_in <= PingEvery
         \/ OnItsWay(id) /\ limbo[id] <= PingEvery
         \/ LongOnItsWay(id)

Heard == \A id \in Ids : Waits(id)

LEMMA InLimboStatus ==
    \A id \in Known :
        /\ InLimbo(id) <=> StatusOf(id) \notin {"Good", "Bad"}
        /\ InLimbo(id) => NeedsPing(id)
BY DEF InLimbo, NeedsPing, StatusOf, Status

LEMMA HeardInit == Init => Heard
BY HealthAssumption DEF Init, Fresh, Heard, Waits

\* Where an entry is not touched, or is marked but not for an outcome, and no
\* visit of it ends, nothing changes.
LEMMA WaitsOn ==
    ASSUME Booked, Heard, NEW id \in Ids, id \in Known, id \in Known',
           rec'[id] \in {rec[id], MarkOutgoingRequest(rec[id], Now),
                         MarkLastQuery(rec[id], Now)},
           UNCHANGED ping_in, limbo'[id] = limbo[id],
           OnItsWay(id) => OnItsWay(id)', LongOnItsWay(id) => LongOnItsWay(id)'
    PROVE  Waits(id)'
<1>1. rec[id] \in Nodes(Addrs, Int) /\ Waits(id)
  BY DEF Booked, Typed, Heard
<1>2. rec'[id].errors = rec[id].errors
  BY <1>1, MarksKeep
<1>3. InLimbo(id)' => InLimbo(id)
  <2>1. IsBad(rec[id]) => IsBad(rec'[id])
    BY <1>1, MarksAreHarmless
  <2>2. IsGood(rec[id], Now) => IsGood(rec'[id], Now) \/ IsBad(rec'[id])
    BY <1>1, MarksAreHarmless
  <2> QED
    BY <2>1, <2>2 DEF InLimbo, Now
<1> QED
  BY <1>1, <1>2, <1>3 DEF Waits

LEMMA WaitsNot ==
    ASSUME Heard, NEW id \in Ids, id \notin Known, id \notin Known',
           limbo'[id] = limbo[id]
    PROVE  Waits(id)'
BY HealthAssumption DEF Heard, Waits, InLimbo

LEMMA WaitsAnew ==
    ASSUME NEW id \in Ids, limbo'[id] \in {0}, ping_in' \in 0 .. PingEvery
    PROVE  Waits(id)'
<1>1. PingEvery \in Nat /\ ping_in' \in Int /\ ping_in' <= PingEvery
  BY HealthAssumption
<1>2. limbo'[id] \in Int /\ limbo'[id] <= 0
  OBVIOUS
<1>3. limbo'[id] + ping_in' <= PingEvery /\ limbo'[id] <= PingEvery + 1
  BY <1>1, <1>2
<1>4. limbo'[id] = 0
  OBVIOUS
<1> QED
  BY <1>3, <1>4 DEF Waits

LEMMA TickHears ==
    ASSUME Booked, Heard, Tick
    PROVE  Heard'
<1>1. /\ ping_in > 0 /\ ping_in' = ping_in - 1
      /\ \A v \in Visits : v.late => visits[v] = 0
      /\ visits' = [v \in Visits |->
                      IF v.late THEN visits[[v EXCEPT !.late = FALSE]] ELSE 0]
      /\ limbo' = [id \in Ids |->
                     IF id \in Known /\ StatusOf(id) \notin {"Good", "Bad"}
                     THEN AtMost(limbo[id] + 1, PingEvery + 2) ELSE 0]
      /\ rec' = [id \in Known |-> OlderNode(rec[id])]
  BY DEF Tick
<1>2. ping_in \in Nat /\ PingEvery \in Nat /\ Known' = Known
  BY <1>1, HealthAssumption DEF Booked, Typed, Known
<1> SUFFICES ASSUME NEW id \in Ids
             PROVE  Waits(id)'
  BY DEF Heard
<1>3. limbo[id] \in Nat /\ Waits(id)
  BY DEF Booked, Typed, Heard
<1>4. ~LongOnItsWay(id)
  BY <1>1 DEF LongOnItsWay, Booking
<1>5. CASE InLimbo(id)
  <2>1. limbo[id] <= PingEvery
    BY <1>2, <1>3, <1>4, <1>5 DEF Waits
  <2>2. limbo'[id] = limbo[id] + 1
    BY <1>1, <1>2, <1>3, <1>5, <2>1, InLimboStatus DEF AtMost, InLimbo
  <2>3. id \in Known' /\ ~(rec'[id].errors >= BadAfter)
    <3>1. id \in Known /\ rec[id] \in Nodes(Addrs, Int) /\ ~IsBad(rec[id])
      BY <1>5 DEF InLimbo, Booked, Typed
    <3>2. rec[id].errors \in 0 .. BadAfter /\ Earned(id)
      BY <3>1 DEF Booked, Nodes
    <3>3. ~(rec[id].errors >= BadAfter)
      BY <3>1, <3>2 DEF Earned, IsBad, BadAfter
    <3>4. rec'[id].errors = rec[id].errors
      BY <1>1, <3>1, MarksKeep
    <3> QED
      BY <1>2, <3>1, <3>3, <3>4
  <2>4. CASE limbo[id] + ping_in <= PingEvery
    BY <1>1, <1>2, <1>3, <2>1, <2>2, <2>3, <2>4 DEF Waits
  <2>5. CASE OnItsWay(id)
    <3>1. PICK v \in Visits : /\ visits[v] > 0 /\ IdOf(v) = id
                              /\ v.stage # "again" /\ ~v.late
      BY <2>5 DEF OnItsWay, Booking
    <3>2. PICK w : w = [v EXCEPT !.late = TRUE]
      OBVIOUS
    <3>3. /\ w \in Visits /\ IdOf(w) = id /\ w.stage # "again" /\ w.late
          /\ [w EXCEPT !.late = FALSE] = v
      BY <3>1, <3>2 DEF Visits, IdOf
    <3>4. LongOnItsWay(id)'
      BY <1>1, <3>1, <3>3 DEF LongOnItsWay, Booking, IdOf
    <3> QED
      BY <1>2, <1>3, <2>1, <2>2, <2>3, <3>4 DEF Waits
  <2> QED
    BY <1>3, <1>4, <1>5, <2>4, <2>5 DEF Waits
<1>6. CASE ~InLimbo(id)
  <2>1. limbo'[id] = 0
    BY <1>1, <1>6, InLimboStatus DEF InLimbo
  <2> QED
    BY <1>1, <1>2, <2>1, HealthAssumption DEF Waits, Booked, Typed
<1> QED
  BY <1>5, <1>6

\* The pinger misses none that is in limbo: it is Questionable or Unknown.
LEMMA PingRoundHears ==
    ASSUME Booked, Heard, PingRound
    PROVE  Heard'
<1>1. /\ ping_in = 0 /\ UNCHANGED <<rec, limbo>> /\ Known' = Known
      /\ visits \in [Visits -> Nat] /\ limbo \in [Ids -> Nat]
  BY DEF PingRound, histories, Known, Booked, Typed
<1>2. PICK pings :
        /\ pings = {Ping(id) : id \in {n \in Known : NeedsPing(n)}}
        /\ visits' = [v \in Visits |->
                        IF v \in pings THEN visits[v] + 1 ELSE visits[v]]
  BY DEF PingRound
<1>3. \A id : Booking(id) \subseteq Booking(id)'
  BY <1>1, <1>2 DEF Booking, IdOf
<1> SUFFICES ASSUME NEW id \in Ids
             PROVE  Waits(id)'
  BY DEF Heard
<1>4. Waits(id) /\ (InLimbo(id)' <=> InLimbo(id))
  BY <1>1 DEF Heard, InLimbo, Now
<1>5. CASE InLimbo(id) /\ limbo[id] + ping_in <= PingEvery
  <2>1. id \in Known /\ NeedsPing(id) /\ <<id, rec[id].addr>> \in Claims
    BY <1>5, InLimboStatus DEF InLimbo, Booked, Typed
  <2>2. PICK w : w = Ping(id)
    OBVIOUS
  <2>3. /\ w \in Visits /\ IdOf(w) = id /\ w.stage = "queued" /\ ~w.late
        /\ w \in pings
    BY <1>2, <2>1, <2>2, VisitFields DEF Ping
  <2>4. visits'[w] > 0
    BY <1>1, <1>2, <2>3
  <2>5. OnItsWay(id)'
    BY <2>3, <2>4 DEF OnItsWay, Booking, IdOf
  <2>6. limbo[id] <= PingEvery
    BY <1>1, <1>5
  <2> QED
    BY <1>1, <1>4, <2>5, <2>6 DEF Waits
<1> QED
  BY <1>1, <1>3, <1>4, <1>5 DEF Waits, OnItsWay, LongOnItsWay

\* Whoever a lookup brings in is asked at once; whoever goes was Bad.
LEMMA FindStartHears ==
    ASSUME Booked, Heard, NEW c \in Claims, FindStart(c)
    PROVE  Heard'
<1>1. c[1] \in Ids
  BY ClaimParts
<1>2. /\ Known' \subseteq Known \cup {c[1]}
      /\ \A n \in Known' \ {c[1]} : rec'[n] = rec[n]
      /\ c[1] \in Known' =>
           rec'[c[1]] = MarkOutgoingRequest(
               IF c[1] \in Known THEN rec[c[1]] ELSE NewNode(c[2]), Now)
      /\ \A n \in Known \ Known' : IsBad(rec[n])
  BY FindStartShape DEF Booked
<1>3. UNCHANGED <<limbo, ping_in>>
  BY DEF FindStart, timers
<1>4. PICK w : w = Visit(c, "asked")
  OBVIOUS
<1>5. /\ w \in Visits /\ visits \in [Visits -> Nat]
      /\ visits' = [visits EXCEPT ![w] = visits[w] + 1]
  BY <1>4, VisitFields DEF FindStart, Begin, Booked, Typed
<1>6. \A id : Booking(id) \subseteq Booking(id)'
  BY <1>5 DEF Booking, IdOf
<1> SUFFICES ASSUME NEW id \in Ids
             PROVE  Waits(id)'
  BY DEF Heard
<1>7. Waits(id) /\ limbo'[id] = limbo[id]
  BY <1>3 DEF Heard
<1>8. CASE id \in Known /\ id \in Known'
  <2>1. /\ rec'[id] \in {rec[id], MarkOutgoingRequest(rec[id], Now),
                         MarkLastQuery(rec[id], Now)}
        /\ UNCHANGED ping_in
    BY <1>2, <1>3, <1>8
  <2>2. /\ OnItsWay(id) => OnItsWay(id)'
        /\ LongOnItsWay(id) => LongOnItsWay(id)'
    BY <1>6 DEF OnItsWay, LongOnItsWay
  <2> QED
    BY <1>7, <1>8, <2>1, <2>2, WaitsOn
<1>9. CASE id \notin Known /\ id \notin Known'
  BY <1>7, <1>9, WaitsNot
<1>10. CASE id \in Known /\ id \notin Known'
  <2>1. limbo[id] = 0
    BY <1>2, <1>7, <1>10 DEF Waits, IsBad
  <2> QED
    BY <1>7, <1>10, <2>1, HealthAssumption DEF Waits, InLimbo
<1>11. CASE id \notin Known /\ id \in Known'
  <2>1. limbo'[id] = 0 /\ ping_in' \in 0 .. PingEvery
    BY <1>3, <1>7, <1>11 DEF Waits, Booked, Typed
  <2> QED
    BY <2>1, WaitsAnew
<1> QED
  BY <1>8, <1>9, <1>10, <1>11

\* An outcome: the node is out of limbo, or in it from now on.
LEMMA OutcomeHears ==
    ASSUME Booked, Heard, NEW v \in Visits, visits[v] > 0,
           v.stage \in {"pinged", "asked"}, Answered(v) \/ Failed(v)
    PROVE  Heard'
<1>1. IdOf(v) \in Ids /\ AfterFirst(v) /\ UNCHANGED ping_in
  BY VisitFields DEF Answered, Failed, timers
<1>2. \A u \in Visits : IdOf(u) # IdOf(v) => visits'[u] = visits[u]
  BY <1>1, AfterFirstCounts DEF Booked, Typed
<1>3. limbo' = [limbo EXCEPT ![IdOf(v)] = 0] /\ limbo \in [Ids -> Nat]
  BY DEF Answered, Failed, Booked, Typed
<1>4. Known' = Known /\ \A n \in Known \ {IdOf(v)} : rec'[n] = rec[n]
  BY DEF Answered, Failed, Known
<1> SUFFICES ASSUME NEW id \in Ids
             PROVE  Waits(id)'
  BY DEF Heard
<1>5. CASE id = IdOf(v)
  <2>1. limbo'[id] = 0 /\ ping_in' \in 0 .. PingEvery
    BY <1>1, <1>3, <1>5 DEF Booked, Typed
  <2> QED
    BY <2>1, WaitsAnew
<1>6. CASE id # IdOf(v)
  <2>1. limbo'[id] = limbo[id]
    BY <1>3, <1>6
  <2>2. Booking(id) \subseteq Booking(id)'
    BY <1>2, <1>6 DEF Booking, IdOf
  <2>3. /\ OnItsWay(id) => OnItsWay(id)'
        /\ LongOnItsWay(id) => LongOnItsWay(id)'
    BY <2>2 DEF OnItsWay, LongOnItsWay
  <2>4. CASE id \in Known
    BY <1>1, <1>4, <1>6, <2>1, <2>3, <2>4, WaitsOn
  <2>5. CASE id \notin Known
    BY <1>4, <2>1, <2>5, WaitsNot
  <2> QED
    BY <2>4, <2>5
<1> QED
  BY <1>5, <1>6

LEMMA HeardStep == Booked /\ Heard /\ [Next]_vars => Heard'
<1> SUFFICES ASSUME Booked, Heard, [Next]_vars
             PROVE  Heard'
  OBVIOUS
<1>1. CASE UNCHANGED <<rec, visits, limbo, ping_in>>
  BY <1>1 DEF Heard, Waits, InLimbo, OnItsWay, LongOnItsWay, Booking, IdOf, Known, Now
<1>2. ASSUME NEW v \in Visits, visits[v] > 0, PingStart(v)
      PROVE  Heard'
  <2>1. PICK w \in Visits :
          /\ IdOf(w) = IdOf(v) /\ w.stage = "pinged" /\ w.late = v.late
          /\ visits' \in [Visits -> Nat] /\ visits'[w] > 0
          /\ \A u \in Visits \ {v, w} : visits'[u] = visits[u]
    BY <1>2, PingStartShape
  <2>2. /\ Known' = Known /\ UNCHANGED <<limbo, ping_in>>
        /\ \A n \in Known :
             rec'[n] \in {rec[n], MarkOutgoingRequest(rec[n], Now),
                          MarkLastQuery(rec[n], Now)}
    BY <1>2 DEF PingStart, timers, histories, Known
  <2> SUFFICES ASSUME NEW id \in Ids
               PROVE  Waits(id)'
    BY DEF Heard
  <2>3. \A u \in Booking(id) : \E x \in Booking(id)' : x.late = u.late
    <3> SUFFICES ASSUME NEW u \in Booking(id)
                 PROVE  \E x \in Booking(id)' : x.late = u.late
      OBVIOUS
    <3>1. u \in Visits /\ visits[u] > 0 /\ IdOf(u) = id /\ u.stage # "again"
      BY DEF Booking
    <3>2. CASE u = v \/ u = w
      <4>1. w \in Booking(id)'
        BY <2>1, <3>1, <3>2 DEF Booking, IdOf
      <4> QED
        BY <2>1, <3>2, <4>1
    <3>3. CASE u # v /\ u # w
      <4>1. visits'[u] = visits[u]
        BY <2>1, <3>1, <3>3
      <4>2. u \in Booking(id)'
        BY <3>1, <4>1 DEF Booking, IdOf
      <4> QED
        BY <4>2
    <3> QED
      BY <3>2, <3>3
  <2>4. /\ OnItsWay(id) => OnItsWay(id)'
        /\ LongOnItsWay(id) => LongOnItsWay(id)'
    BY <2>3 DEF OnItsWay, LongOnItsWay
  <2>5. CASE id \in Known
    BY <2>2, <2>4, <2>5, WaitsOn
  <2>6. CASE id \notin Known
    BY <2>2, <2>6, WaitsNot
  <2> QED
    BY <2>5, <2>6
<1>3. ASSUME NEW c \in Claims, Query(c)
      PROVE  Heard'
  <2>1. /\ Known' = Known /\ UNCHANGED <<visits, limbo, ping_in>>
        /\ \A n \in Known :
             rec'[n] \in {rec[n], MarkOutgoingRequest(rec[n], Now),
                          MarkLastQuery(rec[n], Now)}
    BY <1>3 DEF Query, timers, histories, Known
  <2>2. \A id : /\ OnItsWay(id) => OnItsWay(id)'
                /\ LongOnItsWay(id) => LongOnItsWay(id)'
    BY <2>1 DEF OnItsWay, LongOnItsWay, Booking, IdOf
  <2> SUFFICES ASSUME NEW id \in Ids
               PROVE  Waits(id)'
    BY DEF Heard
  <2>3. CASE id \in Known
    BY <2>1, <2>2, <2>3, WaitsOn
  <2>4. CASE id \notin Known
    BY <2>1, <2>4, WaitsNot
  <2> QED
    BY <2>3, <2>4
<1>4. ASSUME NEW v \in Visits, visits[v] > 0, Ended(v)
      PROVE  Heard'
  <2>1. UNCHANGED <<rec, limbo, ping_in>> /\ Known' = Known
        /\ End(v) /\ v.stage = "again"
    BY <1>4 DEF Ended, timers, histories, Known
  <2>2. \A u \in Visits \ {v} : visits'[u] = visits[u]
    BY <1>4, <2>1, EndCounts DEF Booked, Typed
  <2>3. \A id : Booking(id) \subseteq Booking(id)'
    BY <2>1, <2>2 DEF Booking, IdOf
  <2>4. \A id : /\ OnItsWay(id) => OnItsWay(id)'
                /\ LongOnItsWay(id) => LongOnItsWay(id)'
    BY <2>3 DEF OnItsWay, LongOnItsWay
  <2> SUFFICES ASSUME NEW id \in Ids
               PROVE  Waits(id)'
    BY DEF Heard
  <2>5. CASE id \in Known
    BY <2>1, <2>4, <2>5, WaitsOn
  <2>6. CASE id \notin Known
    BY <2>1, <2>6, WaitsNot
  <2> QED
    BY <2>5, <2>6
<1>5. ASSUME NEW v \in Visits, visits[v] > 0, Answered(v) \/ Failed(v)
      PROVE  Heard'
  BY <1>5, OutcomeHears DEF Answered, Failed
<1>6. CASE RefreshRound \/ UNCHANGED vars
  BY <1>1, <1>6 DEF RefreshRound, vars, timers, histories
<1>7. ASSUME NEW addr \in Mortal, Die(addr)
      PROVE  Heard'
  BY <1>1, <1>7 DEF Die, timers, histories
<1> QED
  BY <1>2, <1>3, <1>4, <1>5, <1>6, <1>7, TickHears, PingRoundHears, FindStartHears
  DEF Next, VisitStep

-----------------------------------------------------------------------------
(***************************************************************************)
(* The theorems.                                                           *)
(***************************************************************************)

\* The refresher never leaves a leaf without an answer or a lookup for twice
\* INACTIVITY_TIMEOUT.
THEOREM LeavesAreTended == Spec => []TendedInTime
<1>1. RefresherInTime => TendedInTime
  BY InactivityAssumption DEF RefresherInTime, TendedInTime
<1> QED
  BY <1>1, RefresherInit, RefresherStep, PTL DEF Spec

\* A node is Bad only after two visits of its id that failed, none answered in
\* between, however pings, lookups, evictions and returns interleave and at
\* whichever addresses.
THEOREM OnlyFailuresMakeBad == Spec => []BadIsDeserved
<1>1. Booked => BadIsDeserved
  <2> SUFFICES ASSUME Booked, NEW id \in Known, StatusOf(id) = "Bad"
               PROVE  failures[id] >= BadAfter
    BY DEF BadIsDeserved
  <2>1. Earned(id) /\ IsBad(rec[id])
    BY DEF Booked, StatusOf, Status
  <2>2. rec[id].errors \in Int /\ failures[id] \in Int
    BY DEF Booked, Typed, Nodes, BadAfter
  <2> QED
    BY <2>1, <2>2 DEF Earned, IsBad, BadAfter
<1> QED
  BY <1>1, BookedInit, BookedStep, PTL DEF Spec

\* No node is left neither Good nor Bad for longer than an interval of the
\* pinger and the time a visit takes, however its status came about.
THEOREM NobodyLeftInLimbo == Spec => []NoneInLimbo
<1>1. Heard => NoneInLimbo
  BY DEF Heard, Waits, NoneInLimbo
<1> QED
  BY <1>1, BookedInit, BookedStep, HeardInit, HeardStep, PTL DEF Spec
=============================================================================
