------------------------------- MODULE Exchange -------------------------------
(***************************************************************************)
(* Nodes that run this code talking to each other and to others: the       *)
(* requests a node makes (create_request), the dispatch of what arrives    *)
(* (on_received_message) with the answer to every kind of query, and the   *)
(* announcement at the end of a get_peers request.                         *)
(*                                                                         *)
(* The network keeps every datagram ever sent: any of them may arrive at   *)
(* any time, again, or never.  The life of a single request, with its      *)
(* timeouts and races, is Requests.  A node's store of tokens and peers    *)
(* has its limits here, and tokens grow old; peers do not, which would     *)
(* take them longer than any exchange lasts: that, the files and the locks *)
(* of the store are PeerStore.                                             *)
(***************************************************************************)
EXTENDS Messages, FiniteSets

CONSTANTS
    Nodes,        \* nodes that run this code; the id of a node is the node
    Others,       \* other nodes
    Table,        \* nodes in the routing tables: Table[n][family]
    ListLimit,    \* nodes in an answer (8)
    NearEnough,   \* nodes whose peer store takes the info hash
    Announced,    \* nodes near enough for a get_peers lookup to announce to
    Foreign,      \* datagrams of other nodes, from addresses of theirs
    MaxTokens,    \* max_remembered_tokens
    MaxPeers,     \* max_remembered_peers
    MaxGiven,     \* bound on the tokens a node gives
    MaxRequests   \* bound on the requests of a node

Families == {4, 6}

Addrs == (Nodes \cup Others) \X Families

Hash == "hash"            \* the target or info hash everybody asks about

Port == "port"            \* the port announced

ASSUME ExchangeAssumption ==
    /\ Nodes \cap Others = {}
    /\ Table \in [Nodes -> [Families -> SUBSET (Nodes \cup Others)]]
    /\ ListLimit \in Nat
    /\ MaxTokens \in Nat /\ MaxPeers \in Nat /\ MaxGiven \in Nat
    /\ MaxRequests \in [Nodes -> OwnTids]
    /\ \A d \in Foreign :
         d.from \in Others \X Families /\ d.to \in Addrs /\ d.meant = None

VARIABLES
    next_tid,     \* next_transaction_id of each node
    inflight,     \* requests waiting for an answer, by node
    net,          \* datagrams sent
    resolved,     \* requests that got their answer, by node
    tokens,       \* StoredToken: tokens kept and whom they were given to, by node
    given,        \* tokens given so far, by node
    expired,      \* history: how many of these grew too old, by node
    peers,        \* peers stored, by node
    queried       \* ids marked by mark_last_query in the table of a family

granted == <<tokens, given, expired>>

vars == <<next_tid, inflight, net, resolved, granted, peers, queried>>

Family(addr) == addr[2]

\* What travels: the bytes, and what the sender meant by them (history).
Datagram(from, to, raw, meant) ==
    [from |-> from, to |-> to, raw |-> raw, meant |-> meant]

Sent(from, to, m) == net' = net \cup {Datagram(from, to, Serialize(m), Some(m))}

Init ==
    /\ next_tid = [n \in Nodes |-> 0]
    /\ inflight = [n \in Nodes |-> {}]
    /\ net = Foreign
    /\ resolved = [n \in Nodes |-> {}]
    /\ tokens = [n \in Nodes |-> {}]
    /\ given = [n \in Nodes |-> 0]
    /\ expired = [n \in Nodes |-> 0]
    /\ peers = [n \in Nodes |-> {}]
    /\ queried = [n \in Nodes |-> {}]

-----------------------------------------------------------------------------
(* Our own requests.                                                       *)

WantOf(addr) == IF Family(addr) = 6 THEN "V6" ELSE "V4"

\* The arguments of a request to addr.
ArgumentsOf(n, kind, addr, token) ==
    IF kind = "GetPeersRequest"
    THEN [id |-> n, info_hash |-> Hash, want |-> Some(WantOf(addr))]
    ELSE IF kind = "FindNodeRequest"
    THEN [id |-> n, target |-> Hash, want |-> Some(WantOf(addr))]
    ELSE IF kind = "PingRequest" THEN [id |-> n]
    ELSE [id |-> n, implied_port |-> 0, info_hash |-> Hash, port |-> Port,
          token |-> token]

\* create_request, and the message on its way.
CreateRequest(n, kind, addr, token) ==
    LET from == <<n, Family(addr)>>
        t == TidBytes(next_tid[n])
    IN  /\ next_tid[n] < MaxRequests[n]
        /\ next_tid' = [next_tid EXCEPT ![n] = @ + 1]
        /\ Sent(from, addr, Message(kind, t, ArgumentsOf(n, kind, addr, token)))

Request(n, kind, addr) ==
    /\ CreateRequest(n, kind, addr, None)
    /\ inflight' = [inflight EXCEPT ![n] =
                      @ \cup {[tid |-> next_tid[n], addr |-> addr, kind |-> kind]}]
    /\ UNCHANGED <<resolved, granted, peers, queried>>

\* on_request_end of get_peers: an answer with a token, from a node near
\* enough.  The announcement is not waited for.
Announce(n, done) ==
    /\ done \in resolved[n]
    /\ done.request.kind = "GetPeersRequest"
    /\ done.answer.kind = "Response"
    /\ done.answer.body.token # None
    /\ done.request.addr[1] \in Announced
    /\ ~done.announced
    /\ CreateRequest(n, "AnnouncePeer", done.request.addr,
                     done.answer.body.token[1])
    /\ resolved' = [resolved EXCEPT ![n] =
                      (@ \ {done}) \cup {[done EXCEPT !.announced = TRUE]}]
    /\ UNCHANGED <<inflight, granted, peers, queried>>

-----------------------------------------------------------------------------
(* Answers that arrive.                                                    *)

\* Fault: the address the answer comes from is not looked at.
WaitingAnywhere(n, tid, addr) == {r \in inflight[n] : r.tid = tid}

Waiting(n, tid, addr) ==
    {r \in inflight[n] : r.tid = tid /\ r.addr = addr}

\* An answer with an id that is not ours, or that nobody waits for any more,
\* changes nothing (BadTransactionId, RequestNotFound).
OnAnswer(n, d, m) ==
    /\ m.kind \in {"Response", "Error"}
    /\ OurTid(m.transaction_id) # None
    /\ \E r \in Waiting(n, OurTid(m.transaction_id)[1], d.from) :
         /\ inflight' = [inflight EXCEPT ![n] = @ \ {r}]
         /\ resolved' = [resolved EXCEPT ![n] =
                           @ \cup {[request |-> r, answer |-> m,
                                    announced |-> FALSE]}]
    /\ UNCHANGED <<next_tid, net, granted, peers, queried>>

-----------------------------------------------------------------------------
(* Queries that arrive.                                                    *)

\* generate_compact_nodes: the best ListLimit of the table of a family, which
\* of them is a matter of their status and distance.
CompactNodes(n, family) ==
    LET all == {<<id, family>> : id \in Table[n][family]}
    IN  IF Cardinality(all) <= ListLimit THEN {all}
        ELSE {nodes \in SUBSET all : Cardinality(nodes) = ListLimit}

Listing(n, want, family, wanted) ==
    IF want \in wanted THEN {Some(nodes) : nodes \in CompactNodes(n, family)}
    ELSE {None}

NodesFor(n, want) == Listing(n, want, 4, {"V4", "Both"})

Nodes6For(n, want) == Listing(n, want, 6, {"V6", "Both"})

\* get_for_info_hash.
PeersFor(n, want) ==
    {p \in peers[n] : want = "Both" \/ want = WantOf(p.addr)}

\* Fault: a query that names no family gets the nodes of both.
WantedBoth(args, addr) == IF args.want = None THEN "Both" ELSE args.want[1]

\* A query that names no family wants the one it came over.
Wanted(args, addr) == IF args.want = None THEN WantOf(addr) ELSE args.want[1]

\* Four random bytes, taken to be other ones for every token a node gives.
Token(n, id, addr, nth) ==
    [by |-> n, node_id |-> id, addr |-> addr, nth |-> nth]

TokenFor(n, id, addr) == Token(n, id, addr, given[n])

Response(n, nodes, nodes6, values, token) ==
    [id |-> n, nodes |-> nodes, nodes6 |-> nodes6, values |-> values,
     token |-> token]

EmptyResponse(n) == Response(n, None, None, None, None)

\* Fault: the id is normalised to two bytes on the way back.
AnswerPadded(n, d, m, body) ==
    Sent(d.to, d.from,
         Message("Response", <<m.transaction_id[1], m.transaction_id[1]>>, body))

\* The answer carries the transaction id of the query as it came.
Answer(n, d, m, body) ==
    Sent(d.to, d.from, Message("Response", m.transaction_id, body))

MarkLastQuery(n, d, id) ==
    queried' = [queried EXCEPT ![n] =
                  @ \cup {<<Family(d.from), id>> : i \in
                            Table[n][Family(d.from)] \cap {id}}]

\* gen_token_for: the token is stored with the id and the address it is for,
\* and over the limit the oldest one goes.
GaveToken(n, id, addr) ==
    /\ given[n] < MaxGiven
    /\ given' = [given EXCEPT ![n] = @ + 1]
    /\ tokens' = [tokens EXCEPT ![n] =
                    {t \in @ \cup {TokenFor(n, id, addr)} :
                       given[n] < t.nth + MaxTokens}]
    /\ UNCHANGED expired

\* garbage_collect_peers, as far as tokens go: the oldest ones have expired.
ExpireTokens(n) ==
    \E nth \in expired[n] + 1 .. given[n] :
        /\ expired' = [expired EXCEPT ![n] = nth]
        /\ tokens' = [tokens EXCEPT ![n] = {t \in @ : t.nth >= nth}]
        /\ UNCHANGED <<next_tid, inflight, net, resolved, given, peers, queried>>

\* Queries that are only acknowledged; what a put brings is not stored yet.
OnPingOrPut(n, d, m) ==
    /\ m.kind \in {"PingRequest", "Bep44PutRequest"}
    /\ MarkLastQuery(n, d, m.body.id)
    /\ Answer(n, d, m, EmptyResponse(n))
    /\ UNCHANGED <<next_tid, inflight, resolved, granted, peers>>

\* Fault: the token is matched by its holder's id alone.
TokenMatchesLoosely(n, ann, addr) ==
    \E t \in tokens[n] : t.node_id = ann.id

TokenMatches(n, ann, addr) ==
    \E t \in tokens[n] :
        t = ann.token /\ t.addr = addr /\ t.node_id = ann.id

Full(n) == Cardinality(peers[n]) >= MaxPeers

\* A peer that is listed only has its time refreshed.
Room(n, peer) == peer \in peers[n] \/ ~Full(n)

Announcing(ann, addr) ==
    [addr |-> addr, port |-> IF ann.implied_port = 0 THEN ann.port ELSE "source"]

\* store_peer; the answer is the same whether the peer was stored or not.
OnAnnouncePeer(n, d, m) ==
    /\ m.kind = "AnnouncePeer"
    /\ MarkLastQuery(n, d, m.body.id)
    /\ LET peer == Announcing(m.body, d.from)
       IN  peers' = IF /\ n \in NearEnough
                       /\ TokenMatches(n, m.body, d.from)
                       /\ Room(n, peer)
                    THEN [peers EXCEPT ![n] = @ \cup {peer}]
                    ELSE peers
    /\ Answer(n, d, m, EmptyResponse(n))
    /\ UNCHANGED <<next_tid, inflight, resolved, granted>>

OnGetPeers(n, d, m) ==
    LET want == Wanted(m.body, d.from)
    IN  /\ m.kind = "GetPeersRequest"
        /\ MarkLastQuery(n, d, m.body.id)
        /\ GaveToken(n, m.body.id, d.from)
        /\ \E nodes \in NodesFor(n, want), nodes6 \in Nodes6For(n, want) :
             Answer(n, d, m,
                    Response(n, nodes, nodes6, Some(PeersFor(n, want)),
                             Some(TokenFor(n, m.body.id, d.from))))
        /\ UNCHANGED <<next_tid, inflight, resolved, peers>>

OnFindNode(n, d, m) ==
    LET want == Wanted(m.body, d.from)
    IN  /\ m.kind = "FindNodeRequest"
        /\ MarkLastQuery(n, d, m.body.id)
        /\ \E nodes \in NodesFor(n, want), nodes6 \in Nodes6For(n, want) :
             Answer(n, d, m, Response(n, nodes, nodes6, None, None))
        /\ UNCHANGED <<next_tid, inflight, resolved, granted, peers>>

\* Items are not looked up yet: nodes of both families, and a token.
OnBep44Get(n, d, m) ==
    /\ m.kind = "Bep44GetRequest"
    /\ MarkLastQuery(n, d, m.body.id)
    /\ GaveToken(n, m.body.id, d.from)
    /\ \E nodes \in NodesFor(n, "Both"), nodes6 \in Nodes6For(n, "Both") :
         Answer(n, d, m,
                Response(n, nodes, nodes6, None,
                         Some(TokenFor(n, m.body.id, d.from))))
    /\ UNCHANGED <<next_tid, inflight, resolved, peers>>

OnQuery(n, d, m) ==
    \/ OnPingOrPut(n, d, m)
    \/ OnAnnouncePeer(n, d, m)
    \/ OnGetPeers(n, d, m)
    \/ OnFindNode(n, d, m)
    \/ OnBep44Get(n, d, m)

\* A datagram arrives; one that does not parse is logged and dropped.
Receive(n, d) ==
    /\ d.to[1] = n
    /\ Deserialize(d.raw) # None
    /\ LET m == Deserialize(d.raw)[1]
       IN  OnAnswer(n, d, m) \/ OnQuery(n, d, m)

Next ==
    \E n \in Nodes :
        \/ \E kind \in {"PingRequest", "FindNodeRequest", "GetPeersRequest"},
              addr \in ((Nodes \cup Others) \ {n}) \X Families :
                Request(n, kind, addr)
        \/ \E done \in resolved[n] : Announce(n, done)
        \/ \E d \in net : Receive(n, d)
        \/ ExpireTokens(n)

Spec == Init /\ [][Next]_vars
-----------------------------------------------------------------------------
(***************************************************************************)
(* Properties                                                              *)
(***************************************************************************)

Ours == {d \in net : d.meant # None}

\* Whatever a node puts on the wire, another node that runs this code reads
\* back as the message that was meant: no kind of message, family wish or
\* transaction id is lost or turned into another one between
\* serialize_message and deserialize_message.
SentParsesBack == \A d \in Ours : Deserialize(d.raw) = d.meant

\* The answer of a node of this code to a request has what the request asked
\* for and nothing else: nodes of the family the request went out on, peers
\* and a token for get_peers only.  Answers that arrive late, twice, in any
\* order, or from elsewhere never resolve a request of another kind.
Fits(r, body) ==
    /\ (body.token # None) = (r.kind = "GetPeersRequest")
    /\ (body.values # None) = (r.kind = "GetPeersRequest")
    /\ (body.nodes # None) = (r.kind # "PingRequest" /\ Family(r.addr) = 4)
    /\ (body.nodes6 # None) = (r.kind # "PingRequest" /\ Family(r.addr) = 6)

AnswersFit ==
    \A n \in Nodes : \A done \in resolved[n] :
        done.request.addr[1] \in Nodes =>
            /\ done.answer.kind = "Response"
            /\ done.answer.body.id = done.request.addr[1]
            /\ Fits(done.request, done.answer.body)

\* A node sends an answer only to the sender of a query it received, under
\* the id of that query whatever its length, and never answers an answer, an
\* error or what it cannot read: two nodes can not keep each other busy.
IsAnswer(d) == d.raw.y = "r"

AnswersAnswerQueries ==
    \A d \in Ours : IsAnswer(d) =>
        \E q \in net :
            /\ q.to = d.from /\ q.from = d.to
            /\ q.raw.y = "q" /\ q.raw.t = d.raw.t
            /\ Deserialize(q.raw) # None

\* Nodes and peers are handed out by family: IPv4 ones under nodes, IPv6 ones
\* under nodes6, and peers only of the family the answer goes to, unless the
\* query wished otherwise.
FamiliesApart ==
    \A d \in Ours : IsAnswer(d) =>
        LET body == d.meant[1].body
            asked == {q \in net : q.to = d.from /\ q.from = d.to
                                  /\ q.raw.y = "q" /\ q.raw.t = d.raw.t
                                  /\ Deserialize(q.raw) # None
                                  /\ Deserialize(q.raw)[1].kind
                                       \in TakesWant \cup {"Bep44GetRequest"}}
            wished(q) == LET m == Deserialize(q.raw)[1]
                         IN  IF m.kind \in TakesWant
                             THEN m.body.want ELSE Some("Both")
        IN  /\ body.nodes # None => \A a \in body.nodes[1] : Family(a) = 4
            /\ body.nodes6 # None => \A a \in body.nodes6[1] : Family(a) = 6
            /\ (\A q \in asked : wished(q) = None) =>
                 /\ body.nodes # None => Family(d.to) = 4
                 /\ body.nodes6 # None => Family(d.to) = 6
                 /\ body.values # None =>
                      \A p \in body.values[1] : Family(p.addr) = Family(d.to)

\* Queries that bring a token.
GivesToken == {"GetPeersRequest", "Bep44GetRequest"}

\* The query q of an id to the node n was answered with the token t.
Brings(n, q, id, t) ==
    /\ q.to[1] = n /\ Deserialize(q.raw) # None
    /\ Deserialize(q.raw)[1].kind \in GivesToken
    /\ Deserialize(q.raw)[1].body.id = id
    /\ \E d \in Ours : /\ IsAnswer(d) /\ d.from = q.to /\ d.to = q.from
                      /\ d.raw.t = q.raw.t /\ d.meant[1].body.token = Some(t)

\* a announces its sender with the token that the query q brought it before.
Redeems(n, a, q) ==
    LET announced == Deserialize(a.raw)[1]
    IN  /\ a.to[1] = n /\ Deserialize(a.raw) # None
        /\ announced.kind = "AnnouncePeer"
        /\ q.from = a.from
        /\ Brings(n, q, announced.body.id, announced.body.token)

\* A token is lost when it grows too old, or when MaxTokens newer ones were
\* given.
Lost(n, token) ==
    token.nth < expired[n] \/ token.nth + MaxTokens < given[n]

\* A node that announces itself to another one comes with a token that was
\* given to its address and its id, and by the time it hears back it is listed
\* there, if the info hash is near enough, unless that token is lost or the
\* store is full: then it is told the same (the result of store_peer is not
\* looked at).  And nobody is listed who has not both asked for a token and
\* announced itself with it, from the same address and under the same id,
\* whatever else arrives.
AnnounceLands ==
    /\ \A q \in Ours, d \in Ours :
         (/\ q.raw.y = "q" /\ q.meant[1].kind = "AnnouncePeer"
          /\ IsAnswer(d) /\ d.from = q.to /\ d.to = q.from
          /\ d.raw.t = q.raw.t /\ q.to[1] \in NearEnough)
         => LET n == q.to[1]
                token == q.meant[1].body.token
            IN  \/ [addr |-> q.from, port |-> Port] \in peers[n]
                \/ Full(n)
                \/ Lost(n, token)
    /\ \A n \in Nodes : \A p \in peers[n] :
         \E a, q \in net : a.from = p.addr /\ Redeems(n, a, q)
=============================================================================
