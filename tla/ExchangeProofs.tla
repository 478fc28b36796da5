---------------------------- MODULE ExchangeProofs ----------------------------
(***************************************************************************)
(* Proofs about Messages and Exchange, for any nodes, tables, limits and   *)
(* whatever other nodes send.                                              *)
(***************************************************************************)
EXTENDS Exchange, TLAPS

USE DEF granted

-----------------------------------------------------------------------------
(***************************************************************************)
(* What is serialized is read back.                                        *)
(***************************************************************************)

LEMMA Options ==
    /\ \A x : Some(x) # None /\ Some(x)[1] = x
    /\ \A x, y : Some(x) = Some(y) => x = y
BY DEF Some, None

\* A family wish survives as the list of one it is sent as.
LEMMA WantReadsBack ==
    ASSUME NEW w \in {"V4", "V6"}
    PROVE  DecodeOptWant(EncodeOptWant(Some(w))) = Some(w)
<1>1. EncodeOptWant(Some(w)) = Some(EncodeWant(w))
  BY Options DEF EncodeOptWant
<1>2. DecodeOptWant(Some(EncodeWant(w))) = Some(DecodeWant(EncodeWant(w)))
  BY Options DEF DecodeOptWant
<1>3. CASE w = "V4"
  <2>1. EncodeWant(w) = <<"n4">>
    BY <1>3 DEF EncodeWant
  <2>2. Listed(<<"n4">>, "n4") /\ ~Listed(<<"n4">>, "n6")
    BY DEF Listed
  <2> QED
    BY <1>1, <1>2, <1>3, <2>1, <2>2 DEF DecodeWant
<1>4. CASE w = "V6"
  <2>1. EncodeWant(w) = <<"n6">>
    BY <1>4 DEF EncodeWant
  <2>2. ~Listed(<<"n6">>, "n4") /\ Listed(<<"n6">>, "n6")
    BY DEF Listed
  <2> QED
    BY <1>1, <1>2, <1>4, <2>1, <2>2 DEF DecodeWant
<1> QED
  BY <1>3, <1>4

\* No two kinds of query share a name.
LEMMA KindByName ==
    ASSUME NEW kind \in QueryKinds, NEW k \in QueryKinds,
           MethodName(kind) = MethodName(k)
    PROVE  k = kind
BY DEF QueryKinds, MethodName

\* A query that is written as args is read as what args parse to.
LEMMA QueryDispatch ==
    ASSUME NEW kind \in QueryKinds, NEW t, NEW args
    PROVE  LET d == Raw("q", t, Some(MethodName(kind)), Some(args), None, None)
           IN  Deserialize(d) = QueryParsed(d, kind)
<1> DEFINE d == Raw("q", t, Some(MethodName(kind)), Some(args), None, None)
<1>1. d.y = "q" /\ d.a # None /\ d.q # None /\ d.r = None /\ d.e = None
  BY Options DEF Raw
<1>2. ErrorReadable(d) /\ IsQuery(d)
  BY <1>1 DEF ErrorReadable, IsQuery
<1>3. d.q[1] = MethodName(kind)
  BY Options DEF Raw
<1> HIDE DEF d
<1>4. ParseQuery(d) = QueryParsed(d, kind)
  <2> DEFINE found == CHOOSE k \in QueryKinds : d.q[1] = MethodName(k)
  <2>1. found \in QueryKinds /\ d.q[1] = MethodName(found)
    BY <1>3
  <2>2. found = kind
    <3> HIDE DEF found
    <3> QED
      BY <1>3, <2>1, KindByName
  <2>3. ParseQuery(d) = QueryParsed(d, found)
    BY <1>3, Zenon DEF ParseQuery
  <2> QED
    BY <2>2, <2>3
<1>5. Deserialize(d) = QueryParsed(d, kind)
  BY <1>2, <1>4 DEF Deserialize
<1> QED
  BY <1>5 DEF d

LEMMA QuerySerialized ==
    ASSUME NEW kind \in QueryKinds, NEW t, NEW body
    PROVE  Serialize(Message(kind, t, body)) =
             Raw("q", t, Some(MethodName(kind)), Some(Arguments(kind, body)),
                 None, None)
BY DEF QueryKinds, Serialize, Message

LEMMA ResponseReadsBack ==
    ASSUME NEW t, NEW body, "id" \in DOMAIN body
    PROVE  LET m == Message("Response", t, body)
           IN  Deserialize(Serialize(m)) = Some(m) /\ Serialize(m).y = "r"
<1> DEFINE m == Message("Response", t, body)
           d == Raw("r", t, None, None, Some(body), None)
<1>1. Serialize(m) = d
  BY DEF Serialize, Message
<1>2. /\ d.y = "r" /\ d.a = None /\ d.r # None /\ d.e = None
      /\ d.r[1] = body /\ d.t = t
  BY Options DEF Raw
<1> HIDE DEF d
<1>3. ErrorReadable(d) /\ ~IsQuery(d) /\ IsResponse(d)
  BY <1>2 DEF ErrorReadable, IsQuery, IsResponse
<1>4. ParseResponse(d) = Some(m)
  BY <1>2 DEF ParseResponse
<1> QED
  BY <1>1, <1>2, <1>3, <1>4 DEF Deserialize

\* The requests a node makes are read back, those with a wish and those without.
LEMMA RequestReadsBack ==
    ASSUME NEW n, NEW addr, NEW t, NEW token,
           NEW kind \in {"PingRequest", "FindNodeRequest", "GetPeersRequest",
                         "AnnouncePeer"}
    PROVE  LET m == Message(kind, t, ArgumentsOf(n, kind, addr, token))
           IN  Deserialize(Serialize(m)) = Some(m) /\ Serialize(m).y = "q"
<1> DEFINE body == ArgumentsOf(n, kind, addr, token)
           args == Arguments(kind, body)
           m == Message(kind, t, body)
           d == Raw("q", t, Some(MethodName(kind)), Some(args), None, None)
<1>1. kind \in QueryKinds
  BY DEF QueryKinds
<1>2. Serialize(m) = d /\ Deserialize(d) = QueryParsed(d, kind)
  BY <1>1, QuerySerialized, QueryDispatch
<1>3. d.a[1] = args /\ d.t = t /\ d.y = "q"
  BY Options DEF Raw
<1> SUFFICES Deserialize(d) = Some(m)
  BY <1>2, <1>3
<1>4. WantOf(addr) \in {"V4", "V6"}
  BY DEF WantOf
<1>5. CASE kind = "PingRequest"
  <2>1. body = [id |-> n] /\ args = body
    BY <1>5 DEF ArgumentsOf, Arguments, TakesWant
  <2>2. Required(kind) \subseteq DOMAIN args /\ kind \notin TakesWant
    BY <1>5, <2>1 DEF Required, TakesWant
  <2> HIDE DEF d, args, body
  <2> QED
    BY <1>2, <1>3, <2>1, <2>2 DEF QueryParsed
<1>6. CASE kind = "AnnouncePeer"
  <2>1. /\ body = [id |-> n, implied_port |-> 0, info_hash |-> Hash,
                   port |-> Port, token |-> token]
        /\ args = body
    BY <1>6 DEF ArgumentsOf, Arguments, TakesWant
  <2>2. Required(kind) \subseteq DOMAIN args /\ kind \notin TakesWant
    BY <1>6, <2>1 DEF Required, TakesWant
  <2> HIDE DEF d, args, body
  <2> QED
    BY <1>2, <1>3, <2>1, <2>2 DEF QueryParsed
<1>7. CASE kind = "FindNodeRequest"
  <2> DEFINE list == EncodeOptWant(Some(WantOf(addr)))
  <2>1. body = [id |-> n, target |-> Hash, want |-> Some(WantOf(addr))]
    BY <1>7 DEF ArgumentsOf
  <2>2. kind \in TakesWant
    BY <1>7 DEF TakesWant
  <2>3. args = [id |-> n, target |-> Hash, want |-> list]
    BY <2>1, <2>2 DEF Arguments
  <2>4. DecodeOptWant(list) = Some(WantOf(addr))
    BY <1>4, WantReadsBack
  <2> HIDE DEF list, d, body, args
  <2>5. Required(kind) \subseteq DOMAIN args
    BY <1>7, <2>3 DEF Required
  <2>6. [args EXCEPT !.want = DecodeOptWant(@)] = body
    BY <2>1, <2>3, <2>4
  <2> QED
    BY <1>2, <1>3, <2>2, <2>5, <2>6 DEF QueryParsed
<1>8. CASE kind = "GetPeersRequest"
  <2> DEFINE list == EncodeOptWant(Some(WantOf(addr)))
  <2>1. body = [id |-> n, info_hash |-> Hash, want |-> Some(WantOf(addr))]
    BY <1>8 DEF ArgumentsOf
  <2>2. kind \in TakesWant
    BY <1>8 DEF TakesWant
  <2>3. args = [id |-> n, info_hash |-> Hash, want |-> list]
    BY <2>1, <2>2 DEF Arguments
  <2>4. DecodeOptWant(list) = Some(WantOf(addr))
    BY <1>4, WantReadsBack
  <2> HIDE DEF list, d, body, args
  <2>5. Required(kind) \subseteq DOMAIN args
    BY <1>8, <2>3 DEF Required
  <2>6. [args EXCEPT !.want = DecodeOptWant(@)] = body
    BY <2>1, <2>3, <2>4
  <2> QED
    BY <1>2, <1>3, <2>2, <2>5, <2>6 DEF QueryParsed
<1> QED
  BY <1>5, <1>6, <1>7, <1>8

-----------------------------------------------------------------------------
(***************************************************************************)
(* What is in the network.                                                 *)
(***************************************************************************)

IInv == SentParsesBack /\ AnswersAnswerQueries

\* What is read as a query was one, under the id it is read with.
LEMMA QueryRead ==
    ASSUME NEW d, Deserialize(d) # None, Deserialize(d)[1].kind \in QueryKinds
    PROVE  d.y = "q" /\ Deserialize(d)[1].transaction_id = d.t
<1>1. "Response" \notin QueryKinds /\ "Error" \notin QueryKinds
  BY DEF QueryKinds
<1>2. CASE IsQuery(d) /\ ErrorReadable(d)
  <2>1. PICK kind : Deserialize(d) = QueryParsed(d, kind)
    BY <1>2 DEF Deserialize, ParseQuery
  <2>2. PICK body : QueryParsed(d, kind) = Some(Message(kind, d.t, body))
    BY <2>1 DEF QueryParsed
  <2>3. Deserialize(d)[1] = Message(kind, d.t, body)
    BY <2>1, <2>2, Options
  <2> QED
    BY <1>2, <2>3 DEF IsQuery, Message
<1>3. CASE ~IsQuery(d) \/ ~ErrorReadable(d)
  <2>1. \/ Deserialize(d) = ParseResponse(d) /\ ParseResponse(d) # None
        \/ Deserialize(d) = ParseError(d)
    BY <1>3 DEF Deserialize
  <2>2. PICK m : /\ Deserialize(d) = Some(m)
                 /\ m.kind = "Response" \/ m.kind = "Error"
    BY <2>1 DEF ParseResponse, ParseError, Message
  <2> QED
    BY <1>1, <2>2, Options
<1> QED
  BY <1>2, <1>3

\* A new datagram of ours that is read back, and is a query or has one it
\* answers.
LEMMA NetGrows ==
    ASSUME IInv, NEW from, NEW to, NEW m, Sent(from, to, m),
           Deserialize(Serialize(m)) = Some(m),
           Serialize(m).y = "r" =>
               \E q \in net : /\ q.to = from /\ q.from = to
                              /\ q.raw.y = "q" /\ q.raw.t = Serialize(m).t
                              /\ Deserialize(q.raw) # None
    PROVE  IInv'
<1> DEFINE new == Datagram(from, to, Serialize(m), Some(m))
<1>1. net' = net \cup {new}
  BY DEF Sent
<1>2. /\ new.from = from /\ new.to = to
      /\ new.raw = Serialize(m) /\ new.meant = Some(m)
  BY DEF Datagram
<1> HIDE DEF new
<1>3. SentParsesBack'
  BY <1>1, <1>2 DEF IInv, SentParsesBack, Ours
<1>4. AnswersAnswerQueries'
  BY <1>1, <1>2 DEF IInv, AnswersAnswerQueries, Ours, IsAnswer
<1> QED
  BY <1>3, <1>4 DEF IInv

LEMMA RequestKeeps ==
    ASSUME IInv, NEW n, NEW addr, NEW token,
           NEW kind \in {"PingRequest", "FindNodeRequest", "GetPeersRequest",
                         "AnnouncePeer"},
           CreateRequest(n, kind, addr, token)
    PROVE  IInv'
<1>1. PICK from, t :
        Sent(from, addr, Message(kind, t, ArgumentsOf(n, kind, addr, token)))
  BY DEF CreateRequest
<1>2. PICK m : /\ m = Message(kind, t, ArgumentsOf(n, kind, addr, token))
               /\ Sent(from, addr, m)
  BY <1>1
<1>3. Deserialize(Serialize(m)) = Some(m) /\ Serialize(m).y = "q"
  BY <1>2, RequestReadsBack
<1> QED
  BY <1>2, <1>3, NetGrows

LEMMA AnswerKeeps ==
    ASSUME IInv, NEW n, NEW d \in net, NEW body, "id" \in DOMAIN body,
           Deserialize(d.raw) # None, Deserialize(d.raw)[1].kind \in QueryKinds,
           Answer(n, d, Deserialize(d.raw)[1], body)
    PROVE  IInv'
<1>1. d.raw.y = "q" /\ Deserialize(d.raw)[1].transaction_id = d.raw.t
  BY QueryRead
<1>2. PICK m : m = Message("Response", d.raw.t, body) /\ Sent(d.to, d.from, m)
  BY <1>1 DEF Answer
<1>3. Deserialize(Serialize(m)) = Some(m)
  BY <1>2, ResponseReadsBack
<1>4. Serialize(m).t = d.raw.t
  BY <1>2 DEF Serialize, Message, Raw
<1> QED
  BY <1>1, <1>2, <1>3, <1>4, NetGrows

LEMMA QueryAnswered ==
    ASSUME IInv, NEW n, NEW d \in net, Deserialize(d.raw) # None,
           OnQuery(n, d, Deserialize(d.raw)[1])
    PROVE  IInv'
<1>1. PICK m : m = Deserialize(d.raw)[1] /\ OnQuery(n, d, m)
  OBVIOUS
<1>2. m.kind \in QueryKinds
  BY <1>1 DEF OnQuery, OnPingOrPut, OnAnnouncePeer, OnGetPeers, OnFindNode,
     OnBep44Get, QueryKinds
<1>3. ASSUME NEW nodes, NEW nodes6, NEW values, NEW token
      PROVE  "id" \in DOMAIN Response(n, nodes, nodes6, values, token)
  BY DEF Response
<1>4. PICK body : "id" \in DOMAIN body /\ Answer(n, d, m, body)
  BY <1>1, <1>3 DEF OnQuery, OnPingOrPut, OnAnnouncePeer, OnGetPeers, OnFindNode,
     OnBep44Get, EmptyResponse
<1> QED
  BY <1>1, <1>2, <1>4, AnswerKeeps

LEMMA InductiveInvariant == Spec => []IInv
<1>1. Init => IInv
  BY ExchangeAssumption
  DEF Init, IInv, SentParsesBack, AnswersAnswerQueries, Ours
<1>2. IInv /\ [Next]_vars => IInv'
  <2> SUFFICES ASSUME IInv, [Next]_vars
               PROVE  IInv'
    OBVIOUS
  <2>1. ASSUME NEW n \in Nodes,
               NEW kind \in {"PingRequest", "FindNodeRequest", "GetPeersRequest"},
               NEW addr, Request(n, kind, addr)
        PROVE  IInv'
    BY <2>1, RequestKeeps DEF Request
  <2>2. ASSUME NEW n \in Nodes, NEW done, Announce(n, done)
        PROVE  IInv'
    BY <2>2, RequestKeeps DEF Announce
  <2>3. ASSUME NEW n \in Nodes, NEW d \in net, Receive(n, d)
        PROVE  IInv'
    <3>1. CASE OnQuery(n, d, Deserialize(d.raw)[1])
      BY <2>3, <3>1, QueryAnswered DEF Receive
    <3>2. CASE OnAnswer(n, d, Deserialize(d.raw)[1])
      BY <3>2 DEF OnAnswer, IInv, SentParsesBack, AnswersAnswerQueries, Ours
    <3> QED
      BY <2>3, <3>1, <3>2 DEF Receive
  <2>4. CASE UNCHANGED net
    BY <2>4 DEF IInv, SentParsesBack, AnswersAnswerQueries, Ours
  <2> QED
    BY <2>1, <2>2, <2>3, <2>4 DEF Next, ExpireTokens, vars
<1> QED
  BY <1>1, <1>2, PTL DEF Spec

-----------------------------------------------------------------------------
(***************************************************************************)
(* Who asked what, and what an answer to it has in it.                     *)
(***************************************************************************)

\* Addresses are those of the sockets datagrams come from and go to, and only
\* our nodes send from theirs.
Sources ==
    \A d \in net : /\ d.from \in Addrs /\ d.to \in Addrs
                   /\ d.from[1] \in Nodes <=> d.meant # None
                   /\ d.meant # None => d.raw.y \in {"q", "r"}

OwnKinds == {"PingRequest", "FindNodeRequest", "GetPeersRequest",
             "AnnouncePeer"}

\* The datagram of a request.
OwnQuery(n, kind, addr, token, tid) ==
    LET m == Message(kind, TidBytes(tid), ArgumentsOf(n, kind, addr, token))
    IN  Datagram(<<n, Family(addr)>>, addr, Serialize(m), Some(m))

\* A token that n gave to an id at an address is kept until it is lost.
Granted(n, id, addr, token) ==
    \E nth \in 0 .. given[n] - 1 :
        /\ token = Token(n, id, addr, nth)
        /\ token \in tokens[n] \/ Lost(n, token)

\* Every query of a node has an id of its own, and an announcement the token
\* it was given for its address by the node it goes to.
QueriesNumbered ==
    \A q \in Ours : q.raw.y = "q" =>
        \E kind \in OwnKinds, tid \in 0 .. next_tid[q.from[1]] - 1 : \E token :
            /\ q = OwnQuery(q.from[1], kind, q.to, token, tid)
            /\ kind = "AnnouncePeer" /\ q.to[1] \in Nodes =>
                 Granted(q.to[1], q.from[1], q.from, token)

NumbersUnique ==
    \A p, q \in Ours :
        /\ p.raw.y = "q" /\ q.raw.y = "q"
        /\ p.from[1] = q.from[1] /\ p.raw.t = q.raw.t
        => p = q

\* Whoever waits for an answer has asked.
WaitingAsked ==
    \A n \in Nodes : \A r \in inflight[n] :
        /\ r.kind \in OwnKinds \ {"AnnouncePeer"}
        /\ r.addr \in Addrs /\ r.tid \in OwnTids
        /\ OwnQuery(n, r.kind, r.addr, None, r.tid) \in net

TakesNodes == TakesWant \cup {"Bep44GetRequest"}

\* What the answer of n to a query m from addr has in it.
Suits(n, m, addr, body) ==
    LET want == IF m.kind \in TakesWant THEN Wanted(m.body, addr) ELSE "Both"
    IN  /\ body.id = n
        /\ (body.nodes # None) =
             (m.kind \in TakesNodes /\ want \in {"V4", "Both"})
        /\ (body.nodes6 # None) =
             (m.kind \in TakesNodes /\ want \in {"V6", "Both"})
        /\ body.nodes # None => \A a \in body.nodes[1] : Family(a) = 4
        /\ body.nodes6 # None => \A a \in body.nodes6[1] : Family(a) = 6
        /\ (body.values # None) = (m.kind = "GetPeersRequest")
        /\ body.values # None => \A p \in body.values[1] :
             p.addr \in Addrs /\ (want = "Both" \/ want = WantOf(p.addr))
        /\ (body.token # None) = (m.kind \in GivesToken)

\* What has become of the announcement q when n acknowledges it.
Settled(n, q) ==
    LET token == q.meant[1].body.token
    IN  \E nth \in Nat :
          /\ token.nth = nth
          /\ \/ [addr |-> q.from, port |-> Port] \in peers[n]
             \/ Full(n)
             \/ Lost(n, token)

AnswerTo(q, d) ==
    LET m == Deserialize(q.raw)[1]
        n == d.from[1]
        body == d.meant[1].body
    IN  /\ q.to = d.from /\ q.from = d.to
        /\ q.raw.y = "q" /\ q.raw.t = d.raw.t /\ Deserialize(q.raw) # None
        /\ Suits(n, m, d.to, body)
        /\ m.kind \in GivesToken => Granted(n, m.body.id, d.to, body.token[1])
        /\ m.kind = "AnnouncePeer" /\ q \in Ours /\ n \in NearEnough =>
             Settled(n, q)

AnswersSuit ==
    \A d \in Ours : IsAnswer(d) =>
        /\ d.meant[1].kind = "Response"
        /\ d.meant[1].transaction_id = d.raw.t
        /\ \E q \in net : AnswerTo(q, d)

DoneSuits ==
    \A n \in Nodes : \A done \in resolved[n] :
        LET r == done.request
            body == done.answer.body
        IN  /\ \E b : done = [request |-> r, answer |-> done.answer,
                             announced |-> b]
            /\ r.addr \in Addrs
            /\ r.addr[1] \in Nodes =>
                 /\ done.answer.kind = "Response"
                 /\ body.id = r.addr[1]
                 /\ Fits(r, body)
                 /\ r.kind = "GetPeersRequest" =>
                      Granted(r.addr[1], n, <<n, Family(r.addr)>>, body.token[1])

PeersGranted ==
    \A n \in Nodes :
        /\ \A t \in tokens[n] :
             \E q \in net : q.from = t.addr /\ Brings(n, q, t.node_id, t)
        /\ \A p \in peers[n] :
             p.addr \in Addrs /\ \E a, q \in net : a.from = p.addr /\ Redeems(n, a, q)

Typed ==
    /\ next_tid \in [Nodes -> Nat]
    /\ \A n \in Nodes : next_tid[n] <= MaxRequests[n]
    /\ DOMAIN inflight = Nodes /\ DOMAIN resolved = Nodes
    /\ DOMAIN tokens = Nodes /\ DOMAIN peers = Nodes
    /\ given \in [Nodes -> Nat] /\ expired \in [Nodes -> Nat]
    /\ \A n \in Nodes : \A t \in tokens[n] : t.nth \in Nat

Conversation ==
    /\ Sources
    /\ Typed
    /\ QueriesNumbered
    /\ NumbersUnique
    /\ WaitingAsked
    /\ AnswersSuit
    /\ DoneSuits
    /\ PeersGranted

LEMMA DivMod ==
    ASSUME NEW a \in Nat, NEW b \in Nat, b > 0
    PROVE  b * (a \div b) + (a % b) = a
BY SMTT(30)

\* A node finds its own number again in the bytes it was sent as.
LEMMA TidReadsBack ==
    ASSUME NEW tid \in OwnTids
    PROVE  OurTid(TidBytes(tid)) = Some(tid)
<1>1. tid \in Nat /\ ByteBase \in Nat /\ ByteBase > 0
  <2>1. ByteBase \in Nat /\ ByteBase > 0
    BY ByteAssumption
  <2>2. ByteBase * ByteBase \in Nat
    BY <2>1
  <2> QED
    BY <2>1, <2>2 DEF OwnTids
<1>2. ByteBase * (tid \div ByteBase) + (tid % ByteBase) = tid
  BY <1>1, DivMod
<1>3. ASSUME NEW x, NEW y
      PROVE  OurTid(<<x, y>>) = Some(ByteBase * x + y)
  <2>1. Len(<<x, y>>) = 2 /\ <<x, y>>[1] = x /\ <<x, y>>[2] = y
    OBVIOUS
  <2> QED
    BY <2>1, Zenon DEF OurTid
<1>4. OurTid(TidBytes(tid))
        = Some(ByteBase * (tid \div ByteBase) + (tid % ByteBase))
  BY <1>3 DEF TidBytes
<1> QED
  BY <1>2, <1>4, Zenon

LEMMA TidsDiffer ==
    ASSUME NEW i \in OwnTids, NEW j \in OwnTids, TidBytes(i) = TidBytes(j)
    PROVE  i = j
BY TidReadsBack, Options

LEMMA AddressParts ==
    ASSUME NEW addr \in Addrs
    PROVE  /\ addr[1] \in Nodes \cup Others /\ Family(addr) \in {4, 6}
           /\ addr = <<addr[1], Family(addr)>>
BY DEF Addrs, Family, Families

\* What is on the wire of a request.
LEMMA OwnQueryParts ==
    ASSUME NEW n, NEW kind \in OwnKinds, NEW addr, NEW token, NEW tid
    PROVE  LET m == Message(kind, TidBytes(tid), ArgumentsOf(n, kind, addr, token))
               d == OwnQuery(n, kind, addr, token, tid)
           IN  /\ d.from = <<n, Family(addr)>> /\ d.to = addr
               /\ d.meant = Some(m) /\ d.raw = Serialize(m)
               /\ d.raw.y = "q" /\ d.raw.t = TidBytes(tid)
               /\ Deserialize(d.raw) = Some(m)
<1> DEFINE m == Message(kind, TidBytes(tid), ArgumentsOf(n, kind, addr, token))
           d == OwnQuery(n, kind, addr, token, tid)
<1>1. /\ d.from = <<n, Family(addr)>> /\ d.to = addr
      /\ d.meant = Some(m) /\ d.raw = Serialize(m)
  BY DEF OwnQuery, Datagram
<1>2. Deserialize(Serialize(m)) = Some(m) /\ Serialize(m).y = "q"
  BY RequestReadsBack DEF OwnKinds
<1>3. kind \in QueryKinds
  BY DEF OwnKinds, QueryKinds
<1>4. Serialize(m).t = TidBytes(tid)
  BY <1>3, QuerySerialized DEF Raw
<1> QED
  BY <1>1, <1>2, <1>4

-----------------------------------------------------------------------------
(***************************************************************************)
(* A request goes out.                                                     *)
(***************************************************************************)

Grown ==
    /\ net \subseteq net'
    /\ \A n \in Nodes :
         /\ given'[n] \in Nat /\ given[n] <= given'[n]
         /\ expired'[n] \in Nat /\ expired[n] <= expired'[n]
         /\ \A t \in tokens[n] : t \in tokens'[n] \/ Lost(n, t)'
         /\ peers[n] \subseteq peers'[n]
         /\ Full(n) => Full(n)'

\* What is lost is not found again.
LEMMA LostStays ==
    ASSUME Conversation, Grown, NEW n \in Nodes, NEW t, t.nth \in Nat, Lost(n, t)
    PROVE  Lost(n, t)'
<1>1. /\ given[n] \in Nat /\ given'[n] \in Nat /\ given[n] <= given'[n]
      /\ expired[n] \in Nat /\ expired'[n] \in Nat /\ expired[n] <= expired'[n]
      /\ MaxTokens \in Nat
  BY ExchangeAssumption DEF Conversation, Typed, Grown
<1> QED
  BY <1>1 DEF Lost

LEMMA GrantedStays ==
    ASSUME Conversation, Grown, NEW n \in Nodes, NEW id, NEW addr, NEW t,
           Granted(n, id, addr, t)
    PROVE  Granted(n, id, addr, t)'
<1>1. PICK nth \in 0 .. given[n] - 1 :
        /\ t = Token(n, id, addr, nth)
        /\ t \in tokens[n] \/ Lost(n, t)
  BY DEF Granted
<1>2. nth \in 0 .. given'[n] - 1 /\ nth \in Nat
  BY DEF Conversation, Typed, Grown
<1>3. t.nth = nth
  BY <1>1 DEF Token
<1>4. t \in tokens'[n] \/ Lost(n, t)'
  BY <1>1, <1>2, <1>3, LostStays DEF Grown
<1> QED
  BY <1>1, <1>2, <1>4 DEF Granted

\* What was a proper answer stays one: peers are not taken back, a store that
\* is full stays so, and no token is found again.
LEMMA AnswerStays ==
    ASSUME Conversation, Grown, NEW d \in Ours, IsAnswer(d), NEW q \in net,
           AnswerTo(q, d)
    PROVE  AnswerTo(q, d)'
<1> DEFINE m == Deserialize(q.raw)[1]
           n == d.from[1]
           body == d.meant[1].body
<1>1. n \in Nodes /\ (q \in Ours' => q \in Ours)
  BY DEF Conversation, Sources, Ours
<1>2. /\ q.to = d.from /\ q.from = d.to
      /\ q.raw.y = "q" /\ q.raw.t = d.raw.t /\ Deserialize(q.raw) # None
      /\ Suits(n, m, d.to, body)
  BY DEF AnswerTo
<1>3. m.kind \in GivesToken => Granted(n, m.body.id, d.to, body.token[1])'
  <2>1. m.kind \in GivesToken => Granted(n, m.body.id, d.to, body.token[1])
    BY DEF AnswerTo
  <2> HIDE DEF m, n, body
  <2>2. m.kind \in GivesToken =>
          \E id, addr, t : /\ id = m.body.id /\ addr = d.to /\ t = body.token[1]
                           /\ Granted(n, id, addr, t)'
    BY <1>1, <2>1, GrantedStays
  <2>3. (m.kind \in GivesToken)' <=> m.kind \in GivesToken
    BY DEF m
  <2> QED
    BY <2>2, <2>3 DEF m, n, body
<1>4. m.kind = "AnnouncePeer" /\ q \in Ours' /\ n \in NearEnough =>
        Settled(n, q)'
  <2> SUFFICES ASSUME m.kind = "AnnouncePeer", q \in Ours, n \in NearEnough
               PROVE  Settled(n, q)'
    BY <1>1
  <2> DEFINE token == q.meant[1].body.token
  <2>1. PICK nth \in Nat :
          /\ token.nth = nth
          /\ \/ [addr |-> q.from, port |-> Port] \in peers[n]
             \/ Full(n)
             \/ Lost(n, token)
    BY DEF AnswerTo, Settled
  <2>2. token.nth \in Nat
    BY <2>1
  <2>3. Lost(n, token) => Lost(n, token)'
    <3> HIDE DEF token, n
    <3> QED
      BY <1>1, <2>2, LostStays
  <2>4. \/ [addr |-> q.from, port |-> Port] \in peers'[n]
        \/ Full(n)'
        \/ Lost(n, token)'
    BY <1>1, <2>1, <2>3 DEF Grown
  <2> QED
    BY <2>1, <2>4 DEF Settled
<1> QED
  BY <1>2, <1>3, <1>4, Zenon DEF AnswerTo

\* The numbers that are left are not used yet.
LEMMA NumbersFree ==
    ASSUME Conversation, NEW n \in Nodes, next_tid[n] < MaxRequests[n]
    PROVE  /\ next_tid[n] \in OwnTids
           /\ \A tid \in 0 .. next_tid[n] - 1 : tid \in OwnTids
<1>1. /\ MaxRequests[n] \in OwnTids /\ next_tid[n] \in Nat
      /\ ByteBase \in Nat
  BY ExchangeAssumption, ByteAssumption DEF Conversation, Typed
<1>2. ByteBase * ByteBase \in Nat
  BY <1>1
<1> QED
  BY <1>1, <1>2 DEF OwnTids

LEMMA NumbersUsed ==
    ASSUME Conversation, NEW n \in Nodes
    PROVE  \A tid \in 0 .. next_tid[n] - 1 : tid \in OwnTids
<1>1. /\ MaxRequests[n] \in OwnTids /\ next_tid[n] \in Nat
      /\ next_tid[n] <= MaxRequests[n] /\ ByteBase \in Nat
  BY ExchangeAssumption, ByteAssumption DEF Conversation, Typed
<1>2. ByteBase * ByteBase \in Nat
  BY <1>1
<1> QED
  BY <1>1, <1>2 DEF OwnTids

\* What a token was brought by, and who redeemed it, stays known.
LEMMA BringsStays ==
    ASSUME net \subseteq net', NEW n, NEW q, NEW id, NEW t, Brings(n, q, id, t)
    PROVE  Brings(n, q, id, t)'
BY DEF Brings, Ours, IsAnswer

LEMMA RedeemsStays ==
    ASSUME net \subseteq net', NEW n, NEW a, NEW q, Redeems(n, a, q)
    PROVE  Redeems(n, a, q)'
BY BringsStays DEF Redeems

LEMMA GrantsStay ==
    ASSUME PeersGranted, net \subseteq net', peers' = peers,
           \A n \in Nodes : tokens'[n] \subseteq tokens[n]
    PROVE  PeersGranted'
<1>1. ASSUME NEW n \in Nodes, NEW t \in tokens'[n]
      PROVE  \E q \in net' : q.from = t.addr /\ Brings(n, q, t.node_id, t)'
  BY <1>1, BringsStays DEF PeersGranted
<1>2. ASSUME NEW n \in Nodes, NEW p \in peers'[n]
      PROVE  /\ p.addr \in Addrs
             /\ \E a, q \in net' : a.from = p.addr /\ Redeems(n, a, q)'
  BY <1>2, RedeemsStays DEF PeersGranted
<1> QED
  BY <1>1, <1>2 DEF PeersGranted

\* As long as nothing is asked, what is known of the queries stays known.
LEMMA QueriesStay ==
    ASSUME Conversation, Grown, UNCHANGED next_tid,
           \A q \in Ours' : q.raw.y = "q" => q \in Ours
    PROVE  QueriesNumbered' /\ NumbersUnique'
<1>1. QueriesNumbered'
  <2> SUFFICES ASSUME NEW q \in Ours', q.raw.y = "q"
               PROVE  \E k \in OwnKinds, i \in 0 .. next_tid'[q.from[1]] - 1 : \E tok :
                        /\ q = OwnQuery(q.from[1], k, q.to, tok, i)
                        /\ k = "AnnouncePeer" /\ q.to[1] \in Nodes =>
                             Granted(q.to[1], q.from[1], q.from, tok)'
    BY DEF QueriesNumbered
  <2>1. PICK k \in OwnKinds, i \in 0 .. next_tid[q.from[1]] - 1 : \E tok :
          /\ q = OwnQuery(q.from[1], k, q.to, tok, i)
          /\ k = "AnnouncePeer" /\ q.to[1] \in Nodes =>
               Granted(q.to[1], q.from[1], q.from, tok)
    BY DEF Conversation, QueriesNumbered
  <2>2. PICK tok :
          /\ q = OwnQuery(q.from[1], k, q.to, tok, i)
          /\ k = "AnnouncePeer" /\ q.to[1] \in Nodes =>
               Granted(q.to[1], q.from[1], q.from, tok)
    BY <2>1
  <2>3. k = "AnnouncePeer" /\ q.to[1] \in Nodes =>
          Granted(q.to[1], q.from[1], q.from, tok)'
    BY <2>2, GrantedStays
  <2> QED
    BY <2>2, <2>3
<1>2. NumbersUnique'
  BY DEF Conversation, NumbersUnique
<1> QED
  BY <1>1, <1>2

\* A request that got its answer keeps it.
LEMMA DoneStays ==
    ASSUME Conversation, Grown, NEW n \in Nodes, NEW done \in resolved[n]
    PROVE  LET r == done.request
               body == done.answer.body
           IN  /\ \E b : done = [request |-> r, answer |-> done.answer,
                                 announced |-> b]
               /\ r.addr \in Addrs
               /\ r.addr[1] \in Nodes =>
                    /\ done.answer.kind = "Response"
                    /\ body.id = r.addr[1]
                    /\ Fits(r, body)
                    /\ r.kind = "GetPeersRequest" =>
                         Granted(r.addr[1], n, <<n, Family(r.addr)>>,
                                 body.token[1])'
<1> DEFINE r == done.request
           token == done.answer.body.token[1]
<1>1. r.addr[1] \in Nodes /\ r.kind = "GetPeersRequest" =>
        Granted(r.addr[1], n, <<n, Family(r.addr)>>, token)
  BY DEF Conversation, DoneSuits
<1>2. r.addr[1] \in Nodes /\ r.kind = "GetPeersRequest" =>
        Granted(r.addr[1], n, <<n, Family(r.addr)>>, token)'
  <2> HIDE DEF r, token
  <2>1. ASSUME r.addr[1] \in Nodes, r.kind = "GetPeersRequest"
        PROVE  \E k \in Nodes : \E a, t :
                 /\ k = r.addr[1] /\ a = <<n, Family(r.addr)>> /\ t = token
                 /\ Granted(k, n, a, t)'
    BY <1>1, <2>1, GrantedStays
  <2> QED
    BY <2>1 DEF r, token
<1> QED
  BY <1>2 DEF Conversation, DoneSuits

LEMMA QuerySent ==
    ASSUME Conversation, NEW n \in Nodes, NEW kind \in OwnKinds,
           NEW addr \in Addrs, NEW token,
           CreateRequest(n, kind, addr, token), UNCHANGED <<granted, peers>>,
           kind = "AnnouncePeer" /\ addr[1] \in Nodes =>
             Granted(addr[1], n, <<n, Family(addr)>>, token)
    PROVE  /\ net \subseteq net'
           /\ OwnQuery(n, kind, addr, token, next_tid[n]) \in net'
           /\ next_tid' \in [Nodes -> Nat]
           /\ \A k \in Nodes : next_tid'[k] <= MaxRequests[k]
           /\ Sources' /\ QueriesNumbered' /\ NumbersUnique'
           /\ AnswersSuit' /\ PeersGranted'
<1> DEFINE tid == next_tid[n]
           m == Message(kind, TidBytes(tid), ArgumentsOf(n, kind, addr, token))
           new == OwnQuery(n, kind, addr, token, tid)
<1>1. net' = net \cup {new}
  BY DEF CreateRequest, Sent, OwnQuery
<1>2. /\ new.from = <<n, Family(addr)>> /\ new.to = addr
      /\ new.meant = Some(m) /\ new.raw.y = "q" /\ new.raw.t = TidBytes(tid)
  BY OwnQueryParts
<1>3. /\ next_tid' = [next_tid EXCEPT ![n] = tid + 1] /\ tid < MaxRequests[n]
      /\ MaxRequests[n] \in Nat
  BY ExchangeAssumption DEF CreateRequest, OwnTids
<1>4. /\ next_tid' \in [Nodes -> Nat]
      /\ next_tid'[n] = tid + 1 /\ tid \in Nat
      /\ \A k \in Nodes \ {n} : next_tid'[k] = next_tid[k]
      /\ \A k \in Nodes : next_tid'[k] <= MaxRequests[k]
  BY <1>3 DEF Conversation, Typed
<1>5. new.meant # None /\ new.from[1] = n /\ new.from \in Addrs
  <2>1. <<n, Family(addr)>> \in Addrs
    BY AddressParts DEF Addrs, Families
  <2> QED
    BY <1>2, <2>1, Options
<1>6. Sources'
  BY <1>1, <1>2, <1>5 DEF Conversation, Sources
<1>a. \A k, id, a, t : Granted(k, id, a, t)' <=> Granted(k, id, a, t)
  BY DEF Granted, Lost
<1>7. QueriesNumbered'
  <2> SUFFICES ASSUME NEW q \in Ours', q.raw.y = "q"
               PROVE  \E k \in OwnKinds, i \in 0 .. next_tid'[q.from[1]] - 1 : \E tok :
                        /\ q = OwnQuery(q.from[1], k, q.to, tok, i)
                        /\ k = "AnnouncePeer" /\ q.to[1] \in Nodes =>
                             Granted(q.to[1], q.from[1], q.from, tok)'
    BY DEF QueriesNumbered
  <2>1. CASE q = new
    <3>1. tid \in 0 .. next_tid'[q.from[1]] - 1
      BY <1>4, <1>5, <2>1
    <3>2. /\ q = OwnQuery(q.from[1], kind, q.to, token, tid)
          /\ q.from[1] = n
          /\ kind = "AnnouncePeer" /\ q.to[1] \in Nodes =>
               Granted(q.to[1], q.from[1], q.from, token)'
      BY <1>a, <1>2, <1>5, <2>1
    <3> HIDE DEF new, tid
    <3> QED
      BY <3>1, <3>2, Zenon
  <2>2. CASE q # new
    <3>1. q \in Ours /\ q.from[1] \in Nodes
      BY <1>1, <2>2 DEF Ours, Conversation, Sources
    <3>2. PICK k \in OwnKinds, i \in 0 .. next_tid[q.from[1]] - 1 : \E tok :
            /\ q = OwnQuery(q.from[1], k, q.to, tok, i)
            /\ k = "AnnouncePeer" /\ q.to[1] \in Nodes =>
                 Granted(q.to[1], q.from[1], q.from, tok)
      BY <3>1 DEF Conversation, QueriesNumbered
    <3>3. i \in 0 .. next_tid'[q.from[1]] - 1
      BY <1>4, <3>1, <3>2 DEF Conversation, Typed
    <3> QED
      BY <1>a, <3>2, <3>3, Zenon
  <2> QED
    BY <2>1, <2>2
<1>8. NumbersUnique'
  <2>1. ASSUME NEW q \in Ours, q.raw.y = "q", q.from[1] = n
        PROVE  q.raw.t # TidBytes(tid)
    <3>1. PICK k \in OwnKinds, i \in 0 .. tid - 1 :
            \E tok : q = OwnQuery(n, k, q.to, tok, i)
      BY <2>1 DEF Conversation, QueriesNumbered
    <3>2. q.raw.t = TidBytes(i)
      BY <3>1, OwnQueryParts
    <3>3. i \in OwnTids /\ tid \in OwnTids /\ i # tid
      BY <1>3, <1>4, NumbersFree
    <3> QED
      BY <3>2, <3>3, TidsDiffer
  <2>2. \A q \in Ours' : q = new \/ q \in Ours
    BY <1>1 DEF Ours
  <2> HIDE DEF new, tid
  <2> QED
    BY <1>2, <1>5, <2>1, <2>2 DEF Conversation, NumbersUnique
<1>9. Grown
  <2>1. \A k \in Nodes : given[k] \in Nat /\ expired[k] \in Nat
    BY DEF Conversation, Typed
  <2> QED
    BY <1>1, <2>1 DEF Grown, Full
<1>10. AnswersSuit'
  <2> SUFFICES ASSUME NEW d \in Ours', IsAnswer(d)
               PROVE  /\ d.meant[1].kind = "Response"
                      /\ d.meant[1].transaction_id = d.raw.t
                      /\ \E q \in net' : AnswerTo(q, d)'
    BY DEF AnswersSuit, IsAnswer
  <2>1. d \in Ours
    BY <1>1, <1>2 DEF Ours, IsAnswer
  <2> QED
    BY <1>1, <1>9, <2>1, AnswerStays DEF Conversation, AnswersSuit
<1>11. PeersGranted'
  BY <1>1, GrantsStay DEF Conversation
<1> QED
  BY <1>1, <1>4, <1>6, <1>7, <1>8, <1>10, <1>11

-----------------------------------------------------------------------------
(***************************************************************************)
(* An answer comes in.                                                     *)
(***************************************************************************)

\* What is ours on the wire and is read as an answer, was sent as one.
LEMMA OursRead ==
    ASSUME IInv, Conversation, NEW d \in Ours,
           Deserialize(d.raw)[1].kind \in {"Response", "Error"}
    PROVE  /\ Deserialize(d.raw) = d.meant /\ IsAnswer(d)
           /\ d.from[1] \in Nodes
<1>1. Deserialize(d.raw) = d.meant /\ d.raw.y \in {"q", "r"}
      /\ d.from[1] \in Nodes
  BY DEF IInv, SentParsesBack, Conversation, Sources, Ours
<1>2. SUFFICES ASSUME d.raw.y = "q"
               PROVE  FALSE
  BY <1>1 DEF IsAnswer
<1>3. PICK kind \in OwnKinds : \E tid, token :
        d = OwnQuery(d.from[1], kind, d.to, token, tid)
  BY <1>2 DEF Conversation, QueriesNumbered
<1>4. PICK t, body : d.meant = Some(Message(kind, t, body))
  BY <1>3, OwnQueryParts
<1>5. d.meant[1].kind = kind
  BY <1>4, Options DEF Message
<1> QED
  BY <1>1, <1>5 DEF OwnKinds

\* The answer that resolves a request of a node to another one of ours answers
\* that very request, and no other it ever made.
LEMMA AnswerOfRequest ==
    ASSUME IInv, Conversation, NEW n \in Nodes, NEW d \in Ours, d.to[1] = n,
           IsAnswer(d), NEW r \in inflight[n], r.addr = d.from,
           Some(r.tid) = OurTid(d.raw.t)
    PROVE  AnswerTo(OwnQuery(n, r.kind, r.addr, None, r.tid), d)
<1> DEFINE p == OwnQuery(n, r.kind, r.addr, None, r.tid)
<1>1. PICK q \in net : AnswerTo(q, d)
  BY DEF Conversation, AnswersSuit
<1>2. q.from[1] = n /\ q.raw.y = "q" /\ q.raw.t = d.raw.t /\ q \in Ours
  BY <1>1 DEF AnswerTo, Conversation, Sources, Ours
<1>3. PICK kind \in OwnKinds, tid \in 0 .. next_tid[n] - 1 :
        \E token : q = OwnQuery(n, kind, q.to, token, tid)
  BY <1>2 DEF Conversation, QueriesNumbered
<1>4. q.raw.t = TidBytes(tid) /\ tid \in OwnTids
  BY <1>3, OwnQueryParts, NumbersUsed
<1>5. r.tid = tid
  BY <1>2, <1>4, TidReadsBack, Options
<1>6. r.kind \in OwnKinds /\ p \in net
  BY DEF Conversation, WaitingAsked
<1>7. /\ p.raw.y = "q" /\ p.raw.t = TidBytes(tid) /\ p.from[1] = n
      /\ p.meant # None
  BY <1>5, <1>6, OwnQueryParts, Options
<1>8. p \in Ours
  BY <1>6, <1>7 DEF Ours
<1>9. p = q
  <2> HIDE DEF p
  <2> QED
    BY <1>2, <1>4, <1>7, <1>8 DEF Conversation, NumbersUnique
<1> QED
  BY <1>1, <1>9

\* What a request is answered with.
LEMMA AnswerFits ==
    ASSUME IInv, Conversation, NEW n \in Nodes, NEW d \in Ours, d.to[1] = n,
           IsAnswer(d), NEW r \in inflight[n], r.addr = d.from,
           AnswerTo(OwnQuery(n, r.kind, r.addr, None, r.tid), d)
    PROVE  LET body == d.meant[1].body
           IN  /\ body.id = r.addr[1]
               /\ Fits(r, body)
               /\ r.kind = "GetPeersRequest" =>
                    Granted(r.addr[1], n, <<n, Family(r.addr)>>, body.token[1])
<1> DEFINE p == OwnQuery(n, r.kind, r.addr, None, r.tid)
           args == ArgumentsOf(n, r.kind, r.addr, None)
           m == Message(r.kind, TidBytes(r.tid), args)
           body == d.meant[1].body
<1>1. /\ r.kind \in OwnKinds \ {"AnnouncePeer"} /\ r.addr \in Addrs
  BY DEF Conversation, WaitingAsked
<1>2. Deserialize(p.raw)[1] = m /\ p.from = <<n, Family(r.addr)>>
  <2>1. r.kind \in OwnKinds
    BY <1>1
  <2>2. Deserialize(p.raw) = Some(m) /\ p.from = <<n, Family(r.addr)>>
    BY <2>1, OwnQueryParts
  <2> QED
    BY <2>2, Options
<1>3. m.kind = r.kind /\ m.body = args
  BY DEF Message
<1>4. d.to = <<n, Family(r.addr)>>
  BY <1>2 DEF AnswerTo
<1> HIDE DEF p, m, args
<1>5. args.id = n
      /\ (r.kind \in TakesWant => args.want = Some(WantOf(r.addr)))
  BY <1>1 DEF args, ArgumentsOf, TakesWant, OwnKinds
<1>6. Suits(r.addr[1], m, d.to, body)
      /\ (m.kind \in GivesToken =>
            Granted(r.addr[1], m.body.id, d.to, body.token[1]))
  BY <1>2 DEF AnswerTo, p
<1>7. body.id = r.addr[1]
  BY <1>6 DEF Suits
<1>8. r.kind \in TakesWant => Wanted(m.body, d.to) = WantOf(r.addr)
  BY <1>3, <1>5, Options DEF Wanted
<1>9. /\ Family(r.addr) \in {4, 6}
      /\ WantOf(r.addr) = IF Family(r.addr) = 6 THEN "V6" ELSE "V4"
  BY <1>1, AddressParts DEF WantOf
<1> HIDE DEF body
<1>10. (body.token # None) = (r.kind = "GetPeersRequest")
  <2>1. (body.token # None) = (r.kind \in GivesToken)
    BY <1>3, <1>6 DEF Suits
  <2>2. r.kind \in GivesToken <=> r.kind = "GetPeersRequest"
    BY <1>1 DEF GivesToken, OwnKinds
  <2> QED
    BY <2>1, <2>2, Options
<1>11. (body.values # None) = (r.kind = "GetPeersRequest")
  BY <1>3, <1>6 DEF Suits
<1>12. CASE r.kind = "PingRequest"
  <2>1. r.kind \notin TakesNodes
    BY <1>12 DEF TakesNodes, TakesWant
  <2>2. body.nodes = None /\ body.nodes6 = None
    BY <1>3, <1>6, <2>1 DEF Suits
  <2> QED
    BY <1>7, <1>10, <1>11, <1>12, <2>2 DEF Fits, body
<1>13. CASE r.kind # "PingRequest"
  <2>1. r.kind \in TakesNodes /\ r.kind \in TakesWant
    BY <1>1, <1>13 DEF TakesNodes, TakesWant, OwnKinds
  <2>2. /\ (body.nodes # None) = (WantOf(r.addr) \in {"V4", "Both"})
        /\ (body.nodes6 # None) = (WantOf(r.addr) \in {"V6", "Both"})
    BY <1>3, <1>6, <1>8, <2>1 DEF Suits
  <2>3. /\ (body.nodes # None) = (Family(r.addr) = 4)
        /\ (body.nodes6 # None) = (Family(r.addr) = 6)
    BY <1>9, <2>2
  <2>4. Fits(r, body)
    BY <1>10, <1>11, <1>13, <2>3 DEF Fits
  <2>5. r.kind = "GetPeersRequest" =>
          Granted(r.addr[1], n, <<n, Family(r.addr)>>, body.token[1])
    BY <1>3, <1>4, <1>5, <1>6 DEF GivesToken
  <2> QED
    BY <1>7, <2>4, <2>5 DEF body
<1> QED
  BY <1>12, <1>13

LEMMA AnswerIn ==
    ASSUME IInv, Conversation, NEW n \in Nodes, NEW d \in net, d.to[1] = n,
           OnAnswer(n, d, Deserialize(d.raw)[1])
    PROVE  Conversation'
<1> DEFINE m == Deserialize(d.raw)[1]
<1>1. /\ m.kind \in {"Response", "Error"}
      /\ OurTid(m.transaction_id) # None
      /\ UNCHANGED <<next_tid, net, granted, peers>>
  BY DEF OnAnswer
<1>2. PICK r \in Waiting(n, OurTid(m.transaction_id)[1], d.from) :
        /\ inflight' = [inflight EXCEPT ![n] = @ \ {r}]
        /\ resolved' = [resolved EXCEPT ![n] =
                          @ \cup {[request |-> r, answer |-> m,
                                   announced |-> FALSE]}]
  BY DEF OnAnswer
<1>3. /\ r \in inflight[n] /\ r.tid = OurTid(m.transaction_id)[1]
      /\ r.addr = d.from
  BY <1>2 DEF Waiting
<1>4. DOMAIN inflight = Nodes /\ DOMAIN resolved = Nodes
  BY DEF Conversation, Typed
<1>5. /\ inflight'[n] \subseteq inflight[n]
      /\ \A k \in Nodes \ {n} : inflight'[k] = inflight[k]
      /\ \A k \in Nodes \ {n} : resolved'[k] = resolved[k]
      /\ resolved'[n] = resolved[n] \cup {[request |-> r, answer |-> m,
                                           announced |-> FALSE]}
      /\ DOMAIN inflight' = Nodes /\ DOMAIN resolved' = Nodes
  BY <1>2, <1>4
<1>6. WaitingAsked'
  BY <1>1, <1>5 DEF Conversation, WaitingAsked
<1>a. \A k, id, a, t : Granted(k, id, a, t)' <=> Granted(k, id, a, t)
  BY <1>1 DEF Granted, Lost
<1>7. /\ Sources' /\ Typed' /\ QueriesNumbered' /\ NumbersUnique'
      /\ AnswersSuit' /\ PeersGranted'
  <2>1. Typed'
    BY <1>1, <1>5 DEF Conversation, Typed
  <2>2. Sources' /\ NumbersUnique' /\ PeersGranted'
    BY <1>1, GrantsStay DEF Conversation, Sources, NumbersUnique, Ours
  <2>3. Ours' = Ours
    BY <1>1 DEF Ours
  <2>4. QueriesNumbered'
    BY <1>1, <1>a, <2>3 DEF Conversation, QueriesNumbered
  <2>5. \A q, a : AnswerTo(q, a)' <=> AnswerTo(q, a)
    BY <1>1, <1>a, <2>3 DEF AnswerTo, Settled, Full, Lost
  <2>6. AnswersSuit'
    BY <1>1, <2>3, <2>5 DEF Conversation, AnswersSuit
  <2> QED
    BY <2>1, <2>2, <2>4, <2>6
<1>8. r.addr \in Addrs
  BY <1>3 DEF Conversation, WaitingAsked
<1>9. ASSUME r.addr[1] \in Nodes
      PROVE  /\ m.kind = "Response"
             /\ m.body.id = r.addr[1]
             /\ Fits(r, m.body)
             /\ r.kind = "GetPeersRequest" =>
                  Granted(r.addr[1], n, <<n, Family(r.addr)>>, m.body.token[1])
  <2>1. d \in Ours
    BY <1>3, <1>9 DEF Conversation, Sources, Ours
  <2>2. IsAnswer(d) /\ Deserialize(d.raw) = d.meant
    BY <1>1, <2>1, OursRead
  <2>3. m.kind = "Response" /\ m.transaction_id = d.raw.t
    BY <2>1, <2>2 DEF Conversation, AnswersSuit
  <2>4. Some(r.tid) = OurTid(d.raw.t)
    BY <1>1, <1>3, <2>3, Options DEF OurTid
  <2>5. AnswerTo(OwnQuery(n, r.kind, r.addr, None, r.tid), d)
    BY <1>3, <2>1, <2>2, <2>4, AnswerOfRequest
  <2>6. LET body == d.meant[1].body
        IN  /\ body.id = r.addr[1]
            /\ Fits(r, body)
            /\ r.kind = "GetPeersRequest" =>
                 Granted(r.addr[1], n, <<n, Family(r.addr)>>, body.token[1])
    BY <1>3, <2>1, <2>2, <2>5, AnswerFits
  <2> QED
    BY <2>2, <2>3, <2>6
<1> HIDE DEF m
<1>10. DoneSuits'
  <2> SUFFICES ASSUME NEW k \in Nodes, NEW done \in resolved'[k]
               PROVE  LET q == done.request
                          body == done.answer.body
                      IN  /\ \E b : done = [request |-> q, answer |-> done.answer,
                                            announced |-> b]
                          /\ q.addr \in Addrs
                          /\ q.addr[1] \in Nodes =>
                               /\ done.answer.kind = "Response"
                               /\ body.id = q.addr[1]
                               /\ Fits(q, body)
                               /\ q.kind = "GetPeersRequest" =>
                                    Granted(q.addr[1], k, <<k, Family(q.addr)>>,
                                            body.token[1])
    BY <1>a DEF DoneSuits
  <2>1. CASE done \in resolved[k]
    BY <2>1 DEF Conversation, DoneSuits
  <2>2. CASE k = n /\ done = [request |-> r, answer |-> m, announced |-> FALSE]
    <3>1. done.request = r /\ done.answer = m
      BY <2>2
    <3>2. \E b : done = [request |-> r, answer |-> m, announced |-> b]
      BY <2>2
    <3> QED
      BY <1>8, <1>9, <2>2, <3>1, <3>2
  <2> QED
    BY <1>5, <2>1, <2>2
<1> QED
  BY <1>6, <1>7, <1>10 DEF Conversation

-----------------------------------------------------------------------------
(***************************************************************************)
(* A query comes in.                                                       *)
(***************************************************************************)

LEMMA ListsByFamily ==
    ASSUME NEW n, NEW want
    PROVE  /\ \A nodes \in NodesFor(n, want) :
                /\ (nodes # None) = (want \in {"V4", "Both"})
                /\ nodes # None => \A a \in nodes[1] : Family(a) = 4
           /\ \A nodes \in Nodes6For(n, want) :
                /\ (nodes # None) = (want \in {"V6", "Both"})
                /\ nodes # None => \A a \in nodes[1] : Family(a) = 6
<1>1. ASSUME NEW family, NEW wanted, NEW nodes \in Listing(n, want, family, wanted)
      PROVE  /\ (nodes # None) = (want \in wanted)
             /\ nodes # None => \A a \in nodes[1] : Family(a) = family
  <2>1. CASE want \in wanted
    <3>1. PICK all \in CompactNodes(n, family) : nodes = Some(all)
      BY <1>1, <2>1 DEF Listing
    <3>2. all \subseteq {<<id, family>> : id \in Table[n][family]}
      BY <3>1 DEF CompactNodes
    <3>3. \A a \in all : Family(a) = family
      BY <3>2 DEF Family
    <3> QED
      BY <2>1, <3>1, <3>3, Options
  <2>2. CASE want \notin wanted
    BY <1>1, <2>2 DEF Listing
  <2> QED
    BY <2>1, <2>2
<1> QED
  BY <1>1 DEF NodesFor, Nodes6For

\* What the handler of a query does: its answer suits the query, the token in
\* it is kept, and an announcement of ours gets its peer listed if there is
\* room and its token is not lost.
Handled(n, d, m, body) ==
    /\ Answer(n, d, m, body)
    /\ m.kind \in QueryKinds
    /\ Suits(n, m, d.from, body)
    /\ m.kind \in GivesToken => Granted(n, m.body.id, d.from, body.token[1])'
    /\ m.kind = "AnnouncePeer" /\ d \in Ours /\ n \in NearEnough => Settled(n, d)'
    /\ UNCHANGED <<next_tid, inflight, resolved>>
    /\ Grown /\ Typed' /\ PeersGranted'

\* An announcement of ours has the token it needs with it.
LEMMA OwnAnnouncement ==
    ASSUME IInv, Conversation, NEW n \in Nodes, NEW d \in Ours, d.to[1] = n,
           Deserialize(d.raw)[1].kind = "AnnouncePeer", d.raw.y = "q"
    PROVE  LET m == Deserialize(d.raw)[1]
               token == d.meant[1].body.token
           IN  /\ TokenMatches(n, m.body, d.from) \/ Lost(n, token)
               /\ token.nth \in Nat
               /\ m.body.implied_port = 0 /\ m.body.port = Port
<1>1. PICK kind \in OwnKinds, tid \in 0 .. next_tid[d.from[1]] - 1 : \E token :
        /\ d = OwnQuery(d.from[1], kind, d.to, token, tid)
        /\ kind = "AnnouncePeer" /\ d.to[1] \in Nodes =>
             Granted(d.to[1], d.from[1], d.from, token)
  BY DEF Conversation, QueriesNumbered
<1>2. PICK token :
        /\ d = OwnQuery(d.from[1], kind, d.to, token, tid)
        /\ kind = "AnnouncePeer" => Granted(n, d.from[1], d.from, token)
  BY <1>1
<1> DEFINE args == ArgumentsOf(d.from[1], kind, d.to, token)
<1>3. /\ Deserialize(d.raw) = Some(Message(kind, TidBytes(tid), args))
      /\ d.meant = Some(Message(kind, TidBytes(tid), args))
  BY <1>2, OwnQueryParts
<1>4. /\ Deserialize(d.raw)[1] = Message(kind, TidBytes(tid), args)
      /\ d.meant[1] = Message(kind, TidBytes(tid), args)
  BY <1>3, Options
<1> HIDE DEF args
<1>5. /\ kind = "AnnouncePeer" /\ Deserialize(d.raw)[1].body = args
      /\ d.meant[1].body = args
  BY <1>4 DEF Message
<1>6. args = [id |-> d.from[1], implied_port |-> 0, info_hash |-> Hash,
              port |-> Port, token |-> token]
  BY <1>5 DEF args, ArgumentsOf
<1>7. /\ args.id = d.from[1] /\ args.token = token
      /\ args.implied_port = 0 /\ args.port = Port
  BY <1>6
<1>8. /\ token.addr = d.from /\ token.node_id = d.from[1] /\ token.nth \in Nat
      /\ token \in tokens[n] \/ Lost(n, token)
  BY <1>2, <1>5 DEF Granted, Token
<1> QED
  BY <1>5, <1>7, <1>8 DEF TokenMatches

LEMMA EmptySuits ==
    ASSUME NEW n, NEW m, NEW addr, m.kind \notin TakesNodes
    PROVE  Suits(n, m, addr, EmptyResponse(n))
<1> DEFINE body == EmptyResponse(n)
<1>1. /\ body.id = n /\ body.nodes = None /\ body.nodes6 = None
      /\ body.values = None /\ body.token = None
  BY DEF EmptyResponse, Response
<1> HIDE DEF body
<1>2. m.kind \notin GivesToken /\ m.kind # "GetPeersRequest"
  BY DEF TakesNodes, TakesWant, GivesToken
<1>3. Suits(n, m, addr, body)
  BY <1>1, <1>2 DEF Suits
<1> QED
  BY <1>3 DEF body

\* Tokens are only changed where a token is given.
LEMMA QuietGrows ==
    ASSUME Conversation, net \subseteq net', UNCHANGED granted,
           UNCHANGED <<next_tid, inflight, resolved>>,
           DOMAIN peers' = Nodes,
           \A k \in Nodes : peers[k] \subseteq peers'[k]
                           /\ (peers'[k] = peers[k] \/ ~Full(k))
    PROVE  Grown /\ Typed'
<1>1. \A k \in Nodes : given[k] \in Nat /\ expired[k] \in Nat
  BY DEF Conversation, Typed
<1>2. \A k \in Nodes : Full(k) => Full(k)'
  BY DEF Full
<1> QED
  BY <1>1, <1>2 DEF Grown, Conversation, Typed

LEMMA QuietHandlers ==
    ASSUME IInv, Conversation, NEW n \in Nodes, NEW d \in net, d.to[1] = n,
           NEW m, m = Deserialize(d.raw)[1], Deserialize(d.raw) # None,
           OnPingOrPut(n, d, m) \/ OnAnnouncePeer(n, d, m)
    PROVE  \E body : Handled(n, d, m, body)
<1>1. /\ m.kind \in QueryKinds /\ m.kind \notin TakesNodes
      /\ m.kind \notin GivesToken
      /\ UNCHANGED <<next_tid, inflight, resolved, granted>>
      /\ Answer(n, d, m, EmptyResponse(n))
  BY DEF OnPingOrPut, OnAnnouncePeer, QueryKinds, TakesNodes, TakesWant,
     GivesToken
<1>2. Suits(n, m, d.from, EmptyResponse(n))
  BY <1>1, EmptySuits
<1>3. DOMAIN peers = Nodes /\ d.from \in Addrs
  BY DEF Conversation, Typed, Sources
<1>a. net \subseteq net'
  BY <1>1 DEF Answer, Sent
<1>4. CASE UNCHANGED peers /\ (m.kind = "AnnouncePeer" /\ d \in Ours
                               /\ n \in NearEnough => Settled(n, d)')
  <2>1. PeersGranted'
    BY <1>1, <1>4, <1>a, GrantsStay DEF Conversation
  <2>2. Grown /\ Typed'
    BY <1>1, <1>3, <1>4, <1>a, QuietGrows
  <2> QED
    BY <1>1, <1>2, <1>4, <2>1, <2>2 DEF Handled
<1>5. CASE OnAnnouncePeer(n, d, m)
  <2> DEFINE peer == Announcing(m.body, d.from)
             token == d.meant[1].body.token
  <2>1. m.kind = "AnnouncePeer"
    BY <1>5 DEF OnAnnouncePeer
  <2>2. d \in Ours => /\ TokenMatches(n, m.body, d.from) \/ Lost(n, token)
                      /\ token.nth \in Nat
                      /\ peer = [addr |-> d.from, port |-> Port]
    BY <1>1, <2>1, QueryRead, OwnAnnouncement DEF Announcing
  <2>3. peer.addr = d.from
    BY DEF Announcing
  <2>4. peers' = IF n \in NearEnough /\ TokenMatches(n, m.body, d.from)
                    /\ Room(n, peer)
                 THEN [peers EXCEPT ![n] = @ \cup {peer}]
                 ELSE peers
    BY <1>5 DEF OnAnnouncePeer
  <2> HIDE DEF peer, token
  <2>5. CASE n \in NearEnough /\ TokenMatches(n, m.body, d.from) /\ Room(n, peer)
    <3>1. peers' = [peers EXCEPT ![n] = @ \cup {peer}]
      BY <2>4, <2>5
    <3>2. /\ DOMAIN peers' = Nodes /\ peers'[n] = peers[n] \cup {peer}
          /\ \A k \in Nodes \ {n} : peers'[k] = peers[k]
      BY <1>3, <3>1
    <3>3. peer \in peers[n] \/ ~Full(n)
      BY <2>5 DEF Room
    <3>4. \A k \in Nodes : peers[k] \subseteq peers'[k]
                          /\ (peers'[k] = peers[k] \/ ~Full(k))
      BY <3>2, <3>3
    <3>5. PICK query \in net : Redeems(n, d, query)
      <4>1. PICK t \in tokens[n] :
              t = m.body.token /\ t.addr = d.from /\ t.node_id = m.body.id
        BY <2>5 DEF TokenMatches
      <4>2. PICK q \in net : q.from = t.addr /\ Brings(n, q, t.node_id, t)
        BY DEF Conversation, PeersGranted
      <4> QED
        BY <2>1, <4>1, <4>2 DEF Redeems
    <3>6. PeersGranted'
      <4>1. ASSUME NEW k \in Nodes, NEW t \in tokens'[k]
            PROVE  \E q \in net' : q.from = t.addr /\ Brings(k, q, t.node_id, t)'
        BY <1>1, <1>a, <4>1, BringsStays DEF Conversation, PeersGranted
      <4>2. ASSUME NEW k \in Nodes, NEW p \in peers'[k]
            PROVE  /\ p.addr \in Addrs
                   /\ \E x, q \in net' : x.from = p.addr /\ Redeems(k, x, q)'
        <5>1. CASE p \in peers[k]
          BY <1>a, <5>1, RedeemsStays DEF Conversation, PeersGranted
        <5>2. CASE k = n /\ p = peer
          BY <1>3, <1>a, <2>3, <3>5, <5>2, RedeemsStays
        <5> QED
          BY <3>2, <4>2, <5>1, <5>2
      <4> QED
        BY <4>1, <4>2 DEF PeersGranted
    <3>7. Grown /\ Typed'
      BY <1>1, <1>a, <3>2, <3>4, QuietGrows
    <3>8. d \in Ours => Settled(n, d)'
      BY <2>2, <3>2 DEF Settled, token
    <3> QED
      BY <1>1, <1>2, <3>6, <3>7, <3>8 DEF Handled
  <2>6. CASE ~(n \in NearEnough /\ TokenMatches(n, m.body, d.from) /\ Room(n, peer))
    <3>1. UNCHANGED peers
      BY <2>4, <2>6
    <3>2. d \in Ours /\ n \in NearEnough => Full(n) \/ Lost(n, token)
      BY <2>2, <2>6 DEF Room
    <3>3. (Full(n) => Full(n)') /\ (Lost(n, token) => Lost(n, token)')
      BY <1>1, <3>1 DEF Full, Lost, token
    <3>4. d \in Ours /\ n \in NearEnough => Settled(n, d)'
      BY <2>2, <3>2, <3>3 DEF Settled, token
    <3> QED
      BY <1>4, <3>1, <3>4
  <2> QED
    BY <2>5, <2>6
<1>6. CASE OnPingOrPut(n, d, m)
  BY <1>4, <1>6 DEF OnPingOrPut
<1> QED
  BY <1>5, <1>6

LEMMA NodesHandlers ==
    ASSUME IInv, Conversation, NEW n \in Nodes, NEW d \in net, d.to[1] = n,
           NEW m, m = Deserialize(d.raw)[1], Deserialize(d.raw) # None,
           OnGetPeers(n, d, m) \/ OnFindNode(n, d, m) \/ OnBep44Get(n, d, m)
    PROVE  \E body : Handled(n, d, m, body)
<1> DEFINE want == IF m.kind \in TakesWant THEN Wanted(m.body, d.from) ELSE "Both"
<1>n. PICK new : new = TokenFor(n, m.body.id, d.from)
  OBVIOUS
<1>1. /\ m.kind \in QueryKinds /\ m.kind \in TakesNodes
      /\ m.kind # "AnnouncePeer"
      /\ UNCHANGED <<next_tid, inflight, resolved, peers>>
  BY DEF OnGetPeers, OnFindNode, OnBep44Get, QueryKinds, TakesNodes, TakesWant
<1>a. PICK nodes \in NodesFor(n, want), nodes6 \in Nodes6For(n, want) :
        Answer(n, d, m,
          Response(n, nodes, nodes6,
            IF m.kind = "GetPeersRequest" THEN Some(PeersFor(n, want)) ELSE None,
            IF m.kind \in GivesToken THEN Some(new) ELSE None))
  <2>1. CASE OnGetPeers(n, d, m)
    <3>1. m.kind = "GetPeersRequest" /\ want = Wanted(m.body, d.from)
          /\ m.kind \in GivesToken
      BY <2>1 DEF OnGetPeers, TakesWant, GivesToken
    <3> HIDE DEF want
    <3> QED
      BY <1>n, <2>1, <3>1 DEF OnGetPeers
  <2>2. CASE OnFindNode(n, d, m)
    <3>1. m.kind = "FindNodeRequest" /\ want = Wanted(m.body, d.from)
          /\ m.kind \notin GivesToken
      BY <2>2 DEF OnFindNode, TakesWant, GivesToken
    <3> HIDE DEF want
    <3> QED
      BY <2>2, <3>1 DEF OnFindNode
  <2>3. CASE OnBep44Get(n, d, m)
    <3>1. m.kind = "Bep44GetRequest" /\ want = "Both" /\ m.kind \in GivesToken
      BY <2>3 DEF OnBep44Get, TakesWant, GivesToken
    <3> HIDE DEF want
    <3> QED
      BY <1>n, <2>3, <3>1 DEF OnBep44Get
  <2> QED
    BY <2>1, <2>2, <2>3
<1>2. PICK values, token :
        /\ Answer(n, d, m, Response(n, nodes, nodes6, values, token))
        /\ values = IF m.kind = "GetPeersRequest"
                    THEN Some(PeersFor(n, want)) ELSE None
        /\ token = IF m.kind \in GivesToken THEN Some(new) ELSE None
  BY <1>a, Zenon
<1> DEFINE body == Response(n, nodes, nodes6, values, token)
<1>3. /\ body.id = n /\ body.nodes = nodes /\ body.nodes6 = nodes6
      /\ body.values = values /\ body.token = token
  BY DEF Response
<1>4. /\ DOMAIN tokens = Nodes
      /\ given \in [Nodes -> Nat] /\ expired \in [Nodes -> Nat]
      /\ \A k \in Nodes : \A t \in tokens[k] : t.nth \in Nat
      /\ MaxTokens \in Nat
  BY ExchangeAssumption DEF Conversation, Typed
<1>5. IF m.kind \in GivesToken
      THEN /\ given' = [given EXCEPT ![n] = @ + 1]
           /\ tokens' = [tokens EXCEPT ![n] =
                           {t \in @ \cup {new} : given[n] < t.nth + MaxTokens}]
           /\ expired' = expired
      ELSE UNCHANGED granted
  BY <1>n DEF OnGetPeers, OnFindNode, OnBep44Get, GaveToken, GivesToken
<1>6. net \subseteq net'
  BY <1>2 DEF Answer, Sent
<1>b. new.nth = given[n] /\ new = Token(n, m.body.id, d.from, given[n])
      /\ new.addr = d.from /\ new.node_id = m.body.id
  BY <1>n DEF TokenFor, Token
<1> HIDE DEF body
<1>c. ASSUME m.kind \in GivesToken
      PROVE  Grown /\ Typed' /\ Granted(n, m.body.id, d.from, new)'
  <2>1. /\ given'[n] = given[n] + 1
        /\ \A k \in Nodes \ {n} : given'[k] = given[k] /\ tokens'[k] = tokens[k]
        /\ tokens'[n] = {t \in tokens[n] \cup {new} : given[n] < t.nth + MaxTokens}
        /\ given' \in [Nodes -> Nat] /\ DOMAIN tokens' = Nodes
        /\ expired' = expired
    BY <1>4, <1>5, <1>c
  <2>2. \A k \in Nodes : \A t \in tokens[k] : t \in tokens'[k] \/ Lost(k, t)'
    BY <1>4, <2>1 DEF Lost
  <2>3. Full(n) = Full(n)' /\ \A k \in Nodes : Full(k) => Full(k)'
    BY <1>1 DEF Full
  <2>4. Grown
    BY <1>1, <1>4, <1>6, <2>1, <2>2, <2>3 DEF Grown
  <2>5. \A t \in tokens'[n] : t.nth \in Nat
    BY <1>4, <1>b, <2>1
  <2>6. Typed'
    BY <1>1, <1>4, <2>1, <2>5 DEF Conversation, Typed
  <2>7. new \in tokens'[n] \/ Lost(n, new)'
    BY <1>4, <1>b, <2>1 DEF Lost
  <2>8. Granted(n, m.body.id, d.from, new)'
    <3>1. given[n] \in 0 .. given'[n] - 1
      BY <1>4, <2>1
    <3> QED
      BY <1>b, <2>7, <3>1 DEF Granted
  <2> QED
    BY <2>4, <2>6, <2>8
<1>d. ASSUME m.kind \notin GivesToken
      PROVE  Grown /\ Typed'
  <2>1. DOMAIN peers' = Nodes
    BY <1>1 DEF Conversation, Typed
  <2> QED
    BY <1>1, <1>5, <1>6, <1>d, <2>1, QuietGrows
<1>7. values # None => \A p \in values[1] :
        p.addr \in Addrs /\ (want = "Both" \/ want = WantOf(p.addr))
  <2> HIDE DEF want
  <2>1. \A p \in PeersFor(n, want) :
          p.addr \in Addrs /\ (want = "Both" \/ want = WantOf(p.addr))
    BY DEF PeersFor, Conversation, PeersGranted
  <2> QED
    BY <1>2, <2>1, Options
<1>8. Suits(n, m, d.from, body)
  <2>1. /\ (nodes # None) = (want \in {"V4", "Both"})
        /\ nodes # None => \A a \in nodes[1] : Family(a) = 4
        /\ (nodes6 # None) = (want \in {"V6", "Both"})
        /\ nodes6 # None => \A a \in nodes6[1] : Family(a) = 6
    <3> HIDE DEF want
    <3> QED
      BY <1>a, ListsByFamily
  <2>2. (values # None) = (m.kind = "GetPeersRequest")
    BY <1>2, Options
  <2> QED
    BY <1>1, <1>2, <1>3, <1>7, <2>1, <2>2, Options DEF Suits
<1>9. PeersGranted'
  <2> DEFINE answer == Message("Response", m.transaction_id, body)
             sent == Datagram(d.to, d.from, Serialize(answer), Some(answer))
  <2>1. /\ sent.from = d.to /\ sent.to = d.from /\ sent.meant = Some(answer)
        /\ sent.raw.y = "r" /\ sent.raw.t = m.transaction_id
        /\ sent.meant # None /\ answer.body = body /\ sent.meant[1] = answer
    BY Options DEF Datagram, Serialize, Message, Raw
  <2>2. sent \in net' /\ m.transaction_id = d.raw.t
    BY <1>1, <1>2, QueryRead DEF Answer, Sent, body
  <2> HIDE DEF sent, answer
  <2>3. sent \in Ours' /\ IsAnswer(sent)
    BY <2>1, <2>2 DEF Ours, IsAnswer
  <2>4. m.kind \in GivesToken => Brings(n, d, m.body.id, new)'
    <3>1. m.kind \in GivesToken => sent.meant[1].body.token = Some(new)
      BY <1>2, <1>3, <2>1
    <3>2. m.kind \in GivesToken =>
            \E a \in Ours' : /\ IsAnswer(a) /\ a.from = d.to /\ a.to = d.from
                             /\ a.raw.t = d.raw.t
                             /\ a.meant[1].body.token = Some(new)
      BY <2>1, <2>2, <2>3, <3>1
    <3> QED
      BY <3>2 DEF Brings, IsAnswer
  <2>5. \A k \in Nodes : \A t \in tokens'[k] :
          t \in tokens[k] \/ (k = n /\ t = new /\ m.kind \in GivesToken)
    BY <1>4, <1>5
  <2>6. ASSUME NEW k \in Nodes, NEW t \in tokens'[k]
        PROVE  \E q \in net' : q.from = t.addr /\ Brings(k, q, t.node_id, t)'
    <3>1. CASE t \in tokens[k]
      BY <1>6, <3>1, BringsStays DEF Conversation, PeersGranted
    <3>2. CASE k = n /\ t = new /\ m.kind \in GivesToken
      BY <1>6, <1>b, <2>4, <3>2
    <3> QED
      BY <2>5, <2>6, <3>1, <3>2
  <2>7. ASSUME NEW k \in Nodes, NEW p \in peers'[k]
        PROVE  /\ p.addr \in Addrs
               /\ \E x, q \in net' : x.from = p.addr /\ Redeems(k, x, q)'
    BY <1>1, <1>6, <2>7, RedeemsStays DEF Conversation, PeersGranted
  <2> QED
    BY <2>6, <2>7 DEF PeersGranted
<1>10. Handled(n, d, m, body)
  <2> HIDE DEF want
  <2>1. Answer(n, d, m, body)
    BY <1>2 DEF body
  <2>2. m.kind \in GivesToken => Granted(n, m.body.id, d.from, body.token[1])'
    <3>1. m.kind \in GivesToken => body.token[1] = new
      BY <1>2, <1>3, Options
    <3>2. m.kind \in GivesToken => Granted(n, m.body.id, d.from, new)'
      BY <1>c
    <3> QED
      BY <3>1, <3>2
  <2> QED
    BY <1>1, <1>8, <1>9, <1>c, <1>d, <2>1, <2>2 DEF Handled
<1> QED
  BY <1>10

LEMMA QueryIn ==
    ASSUME IInv, Conversation, NEW n \in Nodes, NEW d \in net, d.to[1] = n,
           Deserialize(d.raw) # None, OnQuery(n, d, Deserialize(d.raw)[1])
    PROVE  Conversation'
<1>1. PICK m : m = Deserialize(d.raw)[1] /\ OnQuery(n, d, m)
  OBVIOUS
<1>2. PICK body : Handled(n, d, m, body)
  BY <1>1, QuietHandlers, NodesHandlers DEF OnQuery
<1>3. d.raw.y = "q" /\ m.transaction_id = d.raw.t
  BY <1>1, <1>2, QueryRead DEF Handled
<1> DEFINE answer == Message("Response", d.raw.t, body)
           new == Datagram(d.to, d.from, Serialize(answer), Some(answer))
<1>4. net' = net \cup {new}
  BY <1>2, <1>3 DEF Handled, Answer, Sent
<1>5. /\ new.from = d.to /\ new.to = d.from /\ new.meant = Some(answer)
      /\ new.raw.y = "r" /\ new.raw.t = d.raw.t
  BY DEF Datagram, Serialize, Message, Raw
<1>6. /\ new.meant[1].kind = "Response" /\ new.meant[1].body = body
      /\ new.meant[1].transaction_id = d.raw.t /\ new.meant # None
  BY <1>5, Options DEF Message
<1> HIDE DEF new
<1>7. /\ UNCHANGED <<next_tid, inflight, resolved>>
      /\ Grown /\ Typed' /\ PeersGranted'
  BY <1>2 DEF Handled
<1>9. d.from \in Addrs /\ d.to \in Addrs
  BY DEF Conversation, Sources
<1>10. Sources'
  BY <1>4, <1>5, <1>6, <1>9 DEF Conversation, Sources
<1>12. ASSUME NEW q \in Ours', q.raw.y = "q"
       PROVE  q \in Ours
  BY <1>4, <1>5, <1>12 DEF Ours
<1>13. QueriesNumbered' /\ NumbersUnique'
  BY <1>7, <1>12, QueriesStay
<1>15. WaitingAsked'
  BY <1>4, <1>7 DEF Conversation, WaitingAsked
<1>16. AnswerTo(d, new)'
  <2>1. Suits(new.from[1], m, new.to, body)
    BY <1>2, <1>5 DEF Handled
  <2>2. m.kind \in GivesToken =>
          Granted(new.from[1], m.body.id, new.to, body.token[1])'
    BY <1>2, <1>5 DEF Handled
  <2>3. m.kind = "AnnouncePeer" /\ d \in Ours' /\ new.from[1] \in NearEnough =>
          Settled(new.from[1], d)'
    BY <1>2, <1>3, <1>5, <1>12 DEF Handled
  <2> QED
    BY <1>1, <1>3, <1>5, <1>6, <2>1, <2>2, <2>3 DEF AnswerTo
<1>17. AnswersSuit'
  <2> SUFFICES ASSUME NEW a \in Ours', IsAnswer(a)
               PROVE  /\ a.meant[1].kind = "Response"
                      /\ a.meant[1].transaction_id = a.raw.t
                      /\ \E q \in net' : AnswerTo(q, a)'
    BY DEF AnswersSuit, IsAnswer
  <2>1. CASE a = new
    BY <1>4, <1>5, <1>6, <1>16, <2>1
  <2>2. CASE a # new
    <3>1. a \in Ours
      BY <1>4, <2>2 DEF Ours
    <3> QED
      BY <1>7, <3>1, AnswerStays DEF Conversation, AnswersSuit, Grown
  <2> QED
    BY <2>1, <2>2
<1>18. DoneSuits'
  BY <1>7, DoneStays DEF DoneSuits
<1> QED
  BY <1>7, <1>10, <1>13, <1>15, <1>17, <1>18 DEF Conversation

-----------------------------------------------------------------------------
(***************************************************************************)
(* Every step keeps the conversation.                                      *)
(***************************************************************************)

LEMMA RequestMade ==
    ASSUME Conversation, NEW n \in Nodes, NEW addr \in Addrs,
           NEW kind \in {"PingRequest", "FindNodeRequest", "GetPeersRequest"},
           Request(n, kind, addr)
    PROVE  Conversation'
<1> DEFINE r == [tid |-> next_tid[n], addr |-> addr, kind |-> kind]
<1>1. /\ CreateRequest(n, kind, addr, None)
      /\ inflight' = [inflight EXCEPT ![n] = @ \cup {r}]
      /\ UNCHANGED <<resolved, granted, peers>>
  BY DEF Request
<1>2. kind \in OwnKinds \ {"AnnouncePeer"}
  BY DEF OwnKinds
<1>3. /\ net \subseteq net'
      /\ OwnQuery(n, kind, addr, None, next_tid[n]) \in net'
      /\ next_tid' \in [Nodes -> Nat]
      /\ \A k \in Nodes : next_tid'[k] <= MaxRequests[k]
      /\ Sources' /\ QueriesNumbered' /\ NumbersUnique'
      /\ AnswersSuit' /\ PeersGranted'
  BY <1>1, <1>2, QuerySent
<1>4. next_tid[n] \in OwnTids
  BY <1>1, NumbersFree DEF CreateRequest
<1>5. /\ inflight'[n] = inflight[n] \cup {r}
      /\ \A k \in Nodes \ {n} : inflight'[k] = inflight[k]
      /\ DOMAIN inflight' = Nodes
  BY <1>1 DEF Conversation, Typed
<1>6. r.tid = next_tid[n] /\ r.addr = addr /\ r.kind = kind
  OBVIOUS
<1> HIDE DEF r
<1>7. WaitingAsked'
  BY <1>2, <1>3, <1>4, <1>5, <1>6 DEF Conversation, WaitingAsked
<1>a. \A k, id, a, t : Granted(k, id, a, t)' <=> Granted(k, id, a, t)
  BY <1>1 DEF Granted, Lost
<1>8. DoneSuits' /\ Typed'
  BY <1>1, <1>a, <1>3, <1>5 DEF Conversation, DoneSuits, Typed
<1> QED
  BY <1>3, <1>7, <1>8 DEF Conversation

LEMMA AnnouncementMade ==
    ASSUME Conversation, NEW n \in Nodes, NEW done \in resolved[n],
           Announce(n, done)
    PROVE  Conversation'
<1> DEFINE addr == done.request.addr
           token == done.answer.body.token[1]
           after == [done EXCEPT !.announced = TRUE]
<1>1. /\ CreateRequest(n, "AnnouncePeer", addr, token)
      /\ done.request.kind = "GetPeersRequest"
      /\ resolved' = [resolved EXCEPT ![n] = (@ \ {done}) \cup {after}]
      /\ UNCHANGED <<inflight, granted, peers>>
  BY DEF Announce
<1>2. /\ \E b : done = [request |-> done.request, answer |-> done.answer,
                        announced |-> b]
      /\ addr \in Addrs
      /\ addr[1] \in Nodes =>
           Granted(addr[1], n, <<n, Family(addr)>>, token)
  BY <1>1 DEF Conversation, DoneSuits
<1>3. "AnnouncePeer" \in OwnKinds
  BY DEF OwnKinds
<1>4. /\ after.request = done.request /\ after.answer = done.answer
      /\ after = [request |-> done.request, answer |-> done.answer,
                  announced |-> TRUE]
  <2> DEFINE Done(x, y, b) == [request |-> x, answer |-> y, announced |-> b]
  <2>1. PICK b : done = Done(done.request, done.answer, b)
    BY <1>2
  <2>2. ASSUME NEW x, NEW y, NEW c
        PROVE  [Done(x, y, b) EXCEPT !.announced = c] = Done(x, y, c)
    BY SMTT(30)
  <2>3. \A x, y : Done(x, y, TRUE).request = x /\ Done(x, y, TRUE).answer = y
    OBVIOUS
  <2> HIDE DEF Done
  <2>4. ASSUME NEW x, NEW y, done = Done(x, y, b)
        PROVE  after = Done(x, y, TRUE)
    BY <2>2, <2>4, Zenon
  <2>5. after = Done(done.request, done.answer, TRUE)
    BY <2>1, <2>4
  <2> HIDE DEF after
  <2> QED
    BY <2>3, <2>5 DEF Done
<1> HIDE DEF addr, token, after
<1>5. /\ net \subseteq net'
      /\ next_tid' \in [Nodes -> Nat]
      /\ \A k \in Nodes : next_tid'[k] <= MaxRequests[k]
      /\ Sources' /\ QueriesNumbered' /\ NumbersUnique'
      /\ AnswersSuit' /\ PeersGranted'
  BY <1>1, <1>2, <1>3, QuerySent
<1>6. /\ resolved'[n] = (resolved[n] \ {done}) \cup {after}
      /\ \A k \in Nodes \ {n} : resolved'[k] = resolved[k]
      /\ DOMAIN resolved' = Nodes
  BY <1>1 DEF Conversation, Typed
<1>a. \A k, id, a, t : Granted(k, id, a, t)' <=> Granted(k, id, a, t)
  BY <1>1 DEF Granted, Lost
<1>7. DoneSuits'
  <2> SUFFICES ASSUME NEW k \in Nodes, NEW x \in resolved'[k]
               PROVE  LET q == x.request
                          body == x.answer.body
                      IN  /\ \E b : x = [request |-> q, answer |-> x.answer,
                                         announced |-> b]
                          /\ q.addr \in Addrs
                          /\ q.addr[1] \in Nodes =>
                               /\ x.answer.kind = "Response"
                               /\ body.id = q.addr[1]
                               /\ Fits(q, body)
                               /\ q.kind = "GetPeersRequest" =>
                                    Granted(q.addr[1], k, <<k, Family(q.addr)>>,
                                            body.token[1])
    BY <1>a DEF DoneSuits
  <2>1. CASE x \in resolved[k]
    BY <2>1 DEF Conversation, DoneSuits
  <2>2. CASE k = n /\ x = after
    <3>1. x.request = done.request /\ x.answer = done.answer
      BY <1>4, <2>2
    <3>2. \E b : x = [request |-> x.request, answer |-> x.answer, announced |-> b]
      BY <1>4, <2>2, <3>1
    <3> QED
      BY <2>2, <3>1, <3>2 DEF Conversation, DoneSuits
  <2> QED
    BY <1>6, <2>1, <2>2
<1>8. WaitingAsked' /\ Typed'
  BY <1>1, <1>5, <1>6 DEF Conversation, WaitingAsked, Typed
<1> QED
  BY <1>5, <1>7, <1>8 DEF Conversation

LEMMA NothingSaidYet == Init => Conversation
<1> SUFFICES ASSUME Init
             PROVE  Conversation
  OBVIOUS
<1>1. \A d \in net : /\ d.from \in Others \X Families /\ d.to \in Addrs
                     /\ d.meant = None
  BY ExchangeAssumption DEF Init
<1>2. Ours = {}
  BY <1>1 DEF Ours
<1>3. Sources
  <2>1. \A d \in net : d.from \in Addrs /\ d.from[1] \notin Nodes
    BY <1>1, ExchangeAssumption DEF Addrs
  <2> QED
    BY <1>1, <2>1 DEF Sources
<1>4. Typed
  BY ExchangeAssumption DEF Init, Typed, OwnTids
<1>5. QueriesNumbered /\ NumbersUnique /\ AnswersSuit
  BY <1>2 DEF QueriesNumbered, NumbersUnique, AnswersSuit
<1>6. WaitingAsked /\ DoneSuits /\ PeersGranted
  BY DEF Init, WaitingAsked, DoneSuits, PeersGranted
<1> QED
  BY <1>3, <1>4, <1>5, <1>6 DEF Conversation

LEMMA NothingSaid ==
    ASSUME Conversation, Grown, Typed',
           UNCHANGED <<next_tid, inflight, net, resolved, peers>>,
           \A k \in Nodes : tokens'[k] \subseteq tokens[k]
    PROVE  Conversation'
<1>1. Ours' = Ours
  BY DEF Ours
<1>2. Sources' /\ WaitingAsked'
  BY DEF Conversation, Sources, WaitingAsked
<1>3. QueriesNumbered' /\ NumbersUnique'
  BY <1>1, QueriesStay
<1>4. AnswersSuit'
  <2> SUFFICES ASSUME NEW a \in Ours, IsAnswer(a)
               PROVE  /\ a.meant[1].kind = "Response"
                      /\ a.meant[1].transaction_id = a.raw.t
                      /\ \E q \in net' : AnswerTo(q, a)'
    BY <1>1 DEF AnswersSuit, IsAnswer
  <2> QED
    BY AnswerStays DEF Conversation, AnswersSuit
<1>5. DoneSuits'
  BY DoneStays DEF DoneSuits
<1>6. PeersGranted'
  BY GrantsStay DEF Conversation
<1> QED
  BY <1>2, <1>3, <1>4, <1>5, <1>6 DEF Conversation

LEMMA StepKeeps ==
    ASSUME IInv, Conversation, [Next]_vars
    PROVE  Conversation'
<1>1. ASSUME NEW n \in Nodes,
             NEW kind \in {"PingRequest", "FindNodeRequest", "GetPeersRequest"},
             NEW addr \in ((Nodes \cup Others) \ {n}) \X Families,
             Request(n, kind, addr)
      PROVE  Conversation'
  <2>1. addr \in Addrs
    BY DEF Addrs
  <2> QED
    BY <1>1, <2>1, RequestMade
<1>2. ASSUME NEW n \in Nodes, NEW done \in resolved[n], Announce(n, done)
      PROVE  Conversation'
  BY <1>2, AnnouncementMade
<1>3. ASSUME NEW n \in Nodes, NEW d \in net, Receive(n, d)
      PROVE  Conversation'
  BY <1>3, AnswerIn, QueryIn DEF Receive
<1>4. ASSUME NEW n \in Nodes, ExpireTokens(n)
      PROVE  Conversation'
  <2>1. PICK nth \in expired[n] + 1 .. given[n] :
          /\ expired' = [expired EXCEPT ![n] = nth]
          /\ tokens' = [tokens EXCEPT ![n] = {t \in @ : t.nth >= nth}]
    BY <1>4 DEF ExpireTokens
  <2>2. UNCHANGED <<next_tid, inflight, net, resolved, given, peers, queried>>
    BY <1>4 DEF ExpireTokens
  <2>3. /\ given \in [Nodes -> Nat] /\ expired \in [Nodes -> Nat]
        /\ DOMAIN tokens = Nodes
        /\ \A k \in Nodes : \A t \in tokens[k] : t.nth \in Nat
    BY DEF Conversation, Typed
  <2>4. nth \in Nat /\ nth > expired[n]
    BY <2>3
  <2>5. /\ expired' \in [Nodes -> Nat] /\ expired'[n] = nth
        /\ DOMAIN tokens' = Nodes
        /\ tokens'[n] = {t \in tokens[n] : t.nth >= nth}
        /\ \A k \in Nodes \ {n} :
             expired'[k] = expired[k] /\ tokens'[k] = tokens[k]
    BY <2>1, <2>3, <2>4
  <2>6. \A k \in Nodes : \A t \in tokens[k] : t \in tokens'[k] \/ Lost(k, t)'
    BY <2>3, <2>4, <2>5 DEF Lost
  <2>7. Grown
    <3>1. \A k \in Nodes : /\ expired'[k] \in Nat /\ expired[k] <= expired'[k]
                          /\ given'[k] \in Nat /\ given[k] <= given'[k]
      BY <2>2, <2>3, <2>4, <2>5
    <3> QED
      BY <2>2, <2>6, <3>1 DEF Grown, Full
  <2>8. Typed'
    BY <2>2, <2>3, <2>5 DEF Conversation, Typed
  <2>9. \A k \in Nodes : tokens'[k] \subseteq tokens[k]
    BY <2>5
  <2> QED
    BY <2>2, <2>7, <2>8, <2>9, NothingSaid
<1>5. CASE UNCHANGED vars
  <2>1. Grown
    BY <1>5 DEF vars, Grown, Full, Conversation, Typed
  <2>2. Typed'
    BY <1>5 DEF vars, Conversation, Typed
  <2> QED
    BY <1>5, <2>1, <2>2, NothingSaid DEF vars
<1> QED
  BY <1>1, <1>2, <1>3, <1>4, <1>5 DEF Next

LEMMA ConversationHolds == Spec => [](IInv /\ Conversation)
<1>1. Init => Conversation
  BY NothingSaidYet
<1>2. IInv /\ Conversation /\ [Next]_vars => Conversation'
  BY StepKeeps
<1> QED
  BY <1>1, <1>2, InductiveInvariant, PTL DEF Spec

-----------------------------------------------------------------------------
(***************************************************************************)
(* The theorems.                                                           *)
(***************************************************************************)

\* What a node of this code serializes, another one deserializes to the same
\* message: queries with and without a wish, announcements and every answer.
THEOREM WireReadsBack == Spec => []SentParsesBack
BY InductiveInvariant, PTL DEF IInv

\* Every answer on the wire has a query it goes back to, under its id; nothing
\* else is ever answered.
THEOREM OnlyQueriesAreAnswered == Spec => []AnswersAnswerQueries
BY InductiveInvariant, PTL DEF IInv

\* A node of this code answers a request with what was asked for and nothing
\* else, whatever arrives before, in between or again: the answer that resolves
\* a request is the answer to that very request.
THEOREM RequestsGetTheirAnswers == Spec => []AnswersFit
<1>1. Conversation => AnswersFit
  BY DEF Conversation, DoneSuits, AnswersFit
<1> QED
  BY <1>1, ConversationHolds, PTL

\* The lists of the two families never mix, and who wished for none gets the
\* nodes and peers of the family the query came over.
THEOREM ListsStayApart == Spec => []FamiliesApart
<1>1. ASSUME Conversation, NEW d \in Ours, IsAnswer(d), NEW q \in net,
             AnswerTo(q, d)
      PROVE  LET body == d.meant[1].body
                 m == Deserialize(q.raw)[1]
                 wished == IF m.kind \in TakesWant THEN m.body.want
                           ELSE Some("Both")
             IN  /\ body.nodes # None => \A a \in body.nodes[1] : Family(a) = 4
                 /\ body.nodes6 # None => \A a \in body.nodes6[1] : Family(a) = 6
                 /\ m.kind \in TakesNodes /\ wished = None =>
                      /\ body.nodes # None => Family(d.to) = 4
                      /\ body.nodes6 # None => Family(d.to) = 6
                      /\ body.values # None =>
                           \A p \in body.values[1] : Family(p.addr) = Family(d.to)
                 /\ m.kind \notin TakesNodes =>
                      body.nodes = None /\ body.nodes6 = None /\ body.values = None
  <2> DEFINE body == d.meant[1].body
             m == Deserialize(q.raw)[1]
             want == IF m.kind \in TakesWant THEN Wanted(m.body, d.to) ELSE "Both"
  <2>1. /\ (body.nodes # None) =
             (m.kind \in TakesNodes /\ want \in {"V4", "Both"})
        /\ (body.nodes6 # None) =
             (m.kind \in TakesNodes /\ want \in {"V6", "Both"})
        /\ body.nodes # None => \A a \in body.nodes[1] : Family(a) = 4
        /\ body.nodes6 # None => \A a \in body.nodes6[1] : Family(a) = 6
        /\ (body.values # None) = (m.kind = "GetPeersRequest")
        /\ body.values # None => \A p \in body.values[1] :
             p.addr \in Addrs /\ (want = "Both" \/ want = WantOf(p.addr))
    BY <1>1 DEF AnswerTo, Suits
  <2>2. d.to \in Addrs
    BY <1>1 DEF Conversation, Sources, Ours
  <2>3. ASSUME m.kind \in TakesWant, m.body.want = None
        PROVE  want = WantOf(d.to)
    BY <2>3 DEF Wanted
  <2>4. m.kind = "GetPeersRequest" => m.kind \in TakesWant
    BY DEF TakesWant
  <2>5. Some("Both") # None
    BY Options
  <2>6. \A a \in Addrs : /\ Family(a) \in {4, 6}
                         /\ WantOf(a) = IF Family(a) = 6 THEN "V6" ELSE "V4"
    BY AddressParts DEF WantOf
  <2>7. m.kind \in TakesWant => m.kind \in TakesNodes
    BY DEF TakesNodes
  <2> HIDE DEF body, m, want
  <2>8. ASSUME m.kind \in TakesWant, m.body.want = None
        PROVE  /\ body.nodes # None => Family(d.to) = 4
               /\ body.nodes6 # None => Family(d.to) = 6
               /\ body.values # None =>
                    \A p \in body.values[1] : Family(p.addr) = Family(d.to)
    <3>1. want = (IF Family(d.to) = 6 THEN "V6" ELSE "V4") /\ Family(d.to) \in {4, 6}
      BY <2>2, <2>3, <2>6, <2>8
    <3>2. /\ body.nodes # None => Family(d.to) = 4
          /\ body.nodes6 # None => Family(d.to) = 6
      BY <2>1, <3>1
    <3>3. body.values # None =>
            \A p \in body.values[1] : Family(p.addr) = Family(d.to)
      BY <2>1, <2>6, <3>1
    <3> QED
      BY <3>2, <3>3
  <2>9. m.kind \notin TakesNodes =>
          body.nodes = None /\ body.nodes6 = None /\ body.values = None
    BY <2>1, <2>4, <2>7
  <2> QED
    BY <2>1, <2>5, <2>8, <2>9 DEF body, m
<1>2. Conversation => FamiliesApart
  <2> SUFFICES ASSUME Conversation, NEW d \in Ours, IsAnswer(d)
               PROVE  LET body == d.meant[1].body
                          asked == {q \in net : q.to = d.from /\ q.from = d.to
                                      /\ q.raw.y = "q" /\ q.raw.t = d.raw.t
                                      /\ Deserialize(q.raw) # None
                                      /\ Deserialize(q.raw)[1].kind
                                           \in TakesWant \cup {"Bep44GetRequest"}}
                          wished(q) == LET m == Deserialize(q.raw)[1]
                                       IN  IF m.kind \in TakesWant
                                           THEN m.body.want ELSE Some("Both")
                      IN  /\ body.nodes # None => \A a \in body.nodes[1] : Family(a) = 4
                          /\ body.nodes6 # None => \A a \in body.nodes6[1] : Family(a) = 6
                          /\ (\A q \in asked : wished(q) = None) =>
                               /\ body.nodes # None => Family(d.to) = 4
                               /\ body.nodes6 # None => Family(d.to) = 6
                               /\ body.values # None =>
                                    \A p \in body.values[1] :
                                        Family(p.addr) = Family(d.to)
    BY DEF FamiliesApart
  <2>1. PICK q \in net : AnswerTo(q, d)
    BY DEF Conversation, AnswersSuit
  <2>2. /\ q.to = d.from /\ q.from = d.to /\ q.raw.y = "q" /\ q.raw.t = d.raw.t
        /\ Deserialize(q.raw) # None
    BY <2>1 DEF AnswerTo
  <2> QED
    BY <1>1, <2>1, <2>2 DEF TakesNodes
<1> QED
  BY <1>2, ConversationHolds, PTL

\* Who announces itself does so with a token that was given to it, and is
\* listed by the time it hears back unless that token is lost by then or the
\* store is full; nobody is listed who has not redeemed a token that a query
\* from the same address had brought it.
THEOREM AnnouncementsLand == Spec => []AnnounceLands
<1>1. ASSUME IInv, Conversation, NEW q \in Ours, NEW d \in Ours,
             q.raw.y = "q", q.meant[1].kind = "AnnouncePeer", IsAnswer(d),
             d.from = q.to, d.to = q.from, d.raw.t = q.raw.t,
             q.to[1] \in NearEnough
      PROVE  LET n == q.to[1]
                 token == q.meant[1].body.token
             IN  \/ [addr |-> q.from, port |-> Port] \in peers[n]
                 \/ Full(n)
                 \/ Lost(n, token)
  <2>1. PICK p \in net : AnswerTo(p, d)
    BY <1>1 DEF Conversation, AnswersSuit
  <2>2. p.from = q.from /\ p.raw.y = "q" /\ p.raw.t = q.raw.t
    BY <1>1, <2>1 DEF AnswerTo
  <2>3. p \in Ours
    BY <1>1, <2>2 DEF Conversation, Sources, Ours
  <2>4. p = q
    BY <1>1, <2>2, <2>3 DEF Conversation, NumbersUnique
  <2>5. Deserialize(q.raw)[1].kind = "AnnouncePeer"
    BY <1>1 DEF IInv, SentParsesBack
  <2> QED
    BY <1>1, <2>1, <2>4, <2>5 DEF AnswerTo, Settled
<1>2. IInv /\ Conversation => AnnounceLands
  BY <1>1 DEF AnnounceLands, Conversation, PeersGranted
<1> QED
  BY <1>2, ConversationHolds, PTL
=============================================================================
