------------------------------- MODULE Messages -------------------------------
(***************************************************************************)
(* KRPC messages: what serialize_message puts into a datagram and what     *)
(* deserialize_message makes of one, ours or anybody else's.               *)
(*                                                                         *)
(* A datagram is the dictionary RawMessage: the strings under y and t, and *)
(* the optional entries q, a, r and e.  An Option is the empty sequence or *)
(* a sequence of one element.  The entries v and ip, which nobody reads,   *)
(* and the bytes of bencoding are left out.                                *)
(***************************************************************************)
EXTENDS Naturals, Sequences

CONSTANT ByteBase          \* values of a byte (256)

ASSUME ByteAssumption == ByteBase \in Nat \ {0, 1}

None == <<>>

Some(x) == <<x>>

Option(S) == {None} \cup {Some(x) : x \in S}

-----------------------------------------------------------------------------
(* Transaction ids of our own requests: two bytes, the high one first.     *)

OwnTids == 0 .. (ByteBase * ByteBase - 1)

TidBytes(tid) == <<tid \div ByteBase, tid % ByteBase>>

\* Only an id of two bytes can be one of ours.
OurTid(bytes) ==
    IF Len(bytes) # 2 THEN None
    ELSE Some(ByteBase * bytes[1] + bytes[2])

-----------------------------------------------------------------------------
(* Which address families a query wants nodes and peers of.                *)

Wants == {"V4", "V6", "Both", "None"}

\* Fault: who wants IPv6 nodes gets IPv4 ones as well.
EncodeWantOpen(w) ==
    IF w = "V4" THEN <<"n4">>
    ELSE IF w = "None" THEN <<>>
    ELSE <<"n4", "n6">>

EncodeWant(w) ==
    IF w = "V4" THEN <<"n4">>
    ELSE IF w = "V6" THEN <<"n6">>
    ELSE IF w = "Both" THEN <<"n4", "n6">>
    ELSE <<>>

Listed(list, item) == \E i \in DOMAIN list : list[i] = item

\* Any order, repetitions and unknown items are accepted.
DecodeWant(list) ==
    IF Listed(list, "n4")
    THEN IF Listed(list, "n6") THEN "Both" ELSE "V4"
    ELSE IF Listed(list, "n6") THEN "V6" ELSE "None"

EncodeOptWant(w) == IF w = None THEN None ELSE Some(EncodeWant(w[1]))

DecodeOptWant(l) == IF l = None THEN None ELSE Some(DecodeWant(l[1]))

-----------------------------------------------------------------------------
(* Kinds of query: MessageKind, the name under q, the keys under a.        *)

QueryKinds == {"PingRequest", "FindNodeRequest", "GetPeersRequest",
               "AnnouncePeer", "Bep44GetRequest", "Bep44PutRequest"}

Kinds == QueryKinds \cup {"Response", "Error"}

MethodName(kind) ==
    IF kind = "PingRequest" THEN "ping"
    ELSE IF kind = "FindNodeRequest" THEN "find_node"
    ELSE IF kind = "GetPeersRequest" THEN "get_peers"
    ELSE IF kind = "AnnouncePeer" THEN "announce_peer"
    ELSE IF kind = "Bep44GetRequest" THEN "get"
    ELSE "put"

\* Keys without which the arguments of a query do not parse; seq of a get and
\* salt and cas of a put are optional and nothing reads them yet.
Required(kind) ==
    IF kind = "PingRequest" THEN {"id"}
    ELSE IF kind = "FindNodeRequest" THEN {"id", "target"}
    ELSE IF kind = "GetPeersRequest" THEN {"id", "info_hash"}
    ELSE IF kind = "AnnouncePeer"
         THEN {"id", "implied_port", "info_hash", "port", "token"}
    ELSE IF kind = "Bep44GetRequest" THEN {"id", "target"}
    ELSE {"id", "token", "k", "sig", "seq", "v"}

TakesWant == {"FindNodeRequest", "GetPeersRequest"}

Arguments(kind, args) ==
    IF kind \in TakesWant
    THEN [args EXCEPT !.want = EncodeOptWant(@)]
    ELSE args

-----------------------------------------------------------------------------
(* A message is its kind, its transaction id and what is under a, r or e.  *)

Raw(y, t, q, a, r, e) == [y |-> y, t |-> t, q |-> q, a |-> a, r |-> r, e |-> e]

Message(kind, t, body) == [kind |-> kind, transaction_id |-> t, body |-> body]

\* serialize_message.
Serialize(m) ==
    IF m.kind = "Error"
    THEN Raw("e", m.transaction_id, None, None, None,
             Some(<<m.body.code, m.body.description>>))
    ELSE IF m.kind = "Response"
    THEN Raw("r", m.transaction_id, None, None, Some(m.body), None)
    ELSE Raw("q", m.transaction_id, Some(MethodName(m.kind)),
             Some(Arguments(m.kind, m.body)), None, None)

\* An error is a list of exactly two elements; one of any other length makes
\* the whole datagram unreadable, whatever its type.
ErrorReadable(d) == d.e = None \/ Len(d.e[1]) = 2

\* Exactly a and q.
IsQuery(d) == d.y = "q" /\ d.a # None /\ d.q # None /\ d.r = None /\ d.e = None

\* Exactly r; "some peers are sending method name against the protocol".
IsResponse(d) == d.y = "r" /\ d.r # None /\ d.a = None /\ d.e = None

IsError(d) == d.y = "e" /\ d.e # None /\ d.a = None /\ d.r = None

QueryParsed(d, kind) ==
    LET args == d.a[1]
    IN  IF ~(Required(kind) \subseteq DOMAIN args) THEN None
        ELSE Some(Message(kind, d.t,
                          IF kind \in TakesWant
                          THEN [args EXCEPT !.want = DecodeOptWant(@)]
                          ELSE args))

ParseQuery(d) ==
    IF \E kind \in QueryKinds : d.q[1] = MethodName(kind)
    THEN QueryParsed(d, CHOOSE kind \in QueryKinds : d.q[1] = MethodName(kind))
    ELSE None

ParseResponse(d) ==
    IF "id" \in DOMAIN d.r[1] THEN Some(Message("Response", d.t, d.r[1]))
    ELSE None

ParseError(d) ==
    Some(Message("Error", d.t,
                 [code |-> d.e[1][1], description |-> d.e[1][2]]))

\* deserialize_message: None is an error, which only gets logged.
Deserialize(d) ==
    IF ~ErrorReadable(d) THEN None
    ELSE IF IsQuery(d) THEN ParseQuery(d)
    ELSE IF IsResponse(d) THEN ParseResponse(d)
    ELSE IF IsError(d) THEN ParseError(d)
    ELSE None
=============================================================================
