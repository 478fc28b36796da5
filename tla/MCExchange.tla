------------------------------ MODULE MCExchange ------------------------------
(***************************************************************************)
(* Instances of Exchange for TLC.                                          *)
(***************************************************************************)
EXTENDS Exchange

CONSTANTS A, B, C          \* two nodes of ours and another one

\* One node more than fits into a list, for one family of one node.
MCTable == [n \in {A, B} |-> [f \in Families |->
                                 IF n = B /\ f = 4 THEN {A, C} ELSE {C}]]

MCMaxRequests == [n \in {A, B} |-> IF n = A THEN 2 ELSE 0]

FromC(f, to, y, t, q, a, r, e) ==
    Datagram(<<C, f>>, <<to, f>>, Raw(y, t, q, a, r, e), None)

\* What another implementation may send: ids of one and of three bytes, a wish
\* for the family it does not come over, with an unknown item beside it, and
\* none at all (a wish for both multiplies the states), a query of BEP 44, an
\* announcement with a token that it may or may not have got by
\* then, answers and errors, asked for or not, and messages that do not parse.
MCForeign ==
    LET find(want) == Some([id |-> C, target |-> Hash, want |-> want])
        get == Some([id |-> C, info_hash |-> Hash, want |-> None])
        item == Some([id |-> C, target |-> Hash])
        token == Token(C, A, <<A, 4>>, 0)
        ann == Some([id |-> C, implied_port |-> 1, info_hash |-> Hash,
                     port |-> Port, token |-> Token(B, C, <<C, 4>>, 0)])
        answer == Some(Response(C, None, None, None, Some(token)))
    IN  {FromC(4, B, "q", <<1>>, Some("find_node"),
               find(Some(<<"n6", "x">>)), None, None),
         FromC(6, B, "q", <<0, 0, 1>>, Some("get_peers"), get, None, None),
         FromC(4, B, "q", <<1, 1>>, Some("get"), item, None, None),
         FromC(4, B, "q", <<0, 1>>, Some("announce_peer"), ann, None, None),
         FromC(6, B, "q", <<0>>, Some("put"), item, None, None),
         FromC(4, B, "q", <<0>>, Some("vote"), item, None, None),
         FromC(4, A, "r", <<0, 0>>, Some("ping"), None, answer, None),
         FromC(4, A, "e", <<0, 0>>, None, None, None, Some(<<201, "no">>)),
         FromC(4, A, "e", <<0, 0>>, None, None, None, Some(<<201>>))}
=============================================================================
