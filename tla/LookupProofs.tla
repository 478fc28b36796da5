----------------------------- MODULE LookupProofs -----------------------------
(***************************************************************************)
(* Proofs about useful_nodes: whoever is in it was asked when it says, and *)
(* it keeps enough of the others not to ask anybody twice within a minute, *)
(* for any number of nodes, any distances, limits and depths.              *)
(***************************************************************************)
EXTENDS Lookup, FiniteSetTheorems, SequenceTheorems, WellFoundedInduction,
        TLAPS

-----------------------------------------------------------------------------
(***************************************************************************)
(* The inductive invariant.                                                *)
(***************************************************************************)

Stages == {"queued", "first", "second", "ok", "failed"}

Calls ==
    {c \in [id : Ids \cup {NoId}, addr : Addrs, depth : Nat, at : Nat,
            stage : Stages] : c.depth > 0 => c.id \in Ids}

UsefulNodes ==
    [id : Ids, addr : Addrs, last_request : Nat, responded : BOOLEAN,
     returned_peers : BOOLEAN]

\* A memory of nodes with one entry each.
Entries(us) ==
    /\ us \subseteq UsefulNodes
    /\ IsFiniteSet(us)
    /\ \A m, n \in us : m.id = n.id => m = n
    /\ \A n \in us : n.returned_peers => n.responded

Shape(us) == Entries(us) /\ Cardinality(us) <= Limit

\* Whoever is remembered has been asked when it says.
Noted(seq, us) ==
    \A n \in us : \E i \in DOMAIN seq :
        seq[i].id = n.id /\ seq[i].at = n.last_request

Ahead(n, id) == n.responded \/ Dist[n.id] < Dist[id]

\* The memory is full of nodes that keep id out if it is named again.
Forgotten(us, id) ==
    /\ Cardinality(us) = Limit
    /\ \A n \in us : n.id # id /\ Ahead(n, id)

\* Whoever was asked is remembered, or forgotten for good.
Remembered(seq, us) ==
    \A i \in DOMAIN seq : seq[i].depth > 0 =>
        \/ \E n \in us : n.id = seq[i].id /\ n.last_request >= seq[i].at
        \/ Forgotten(us, seq[i].id)

Spaced(seq) ==
    \A i, j \in DOMAIN seq :
        /\ i < j
        /\ seq[i].id = seq[j].id
        /\ seq[i].depth > 0 /\ seq[j].depth > 0
        => seq[j].at - seq[i].at > AskAgain

Sound(seq, us) ==
    /\ seq \in Seq(Calls)
    /\ Shape(us)
    /\ Noted(seq, us)
    /\ Remembered(seq, us)
    /\ Spaced(seq)

IInv == clock \in Nat /\ Sound(calls, useful)

-----------------------------------------------------------------------------
(***************************************************************************)
(* The order of useful_nodes.                                              *)
(***************************************************************************)

LEMMA Distances ==
    /\ \A id \in Ids : Dist[id] \in Nat
    /\ \A a, b \in Ids : Dist[a] = Dist[b] => a = b
BY LookupAssumption

LEMMA BeforeTotal ==
    ASSUME NEW m \in UsefulNodes, NEW n \in UsefulNodes, m.id # n.id
    PROVE  Before(m, n) \/ Before(n, m)
BY Distances DEF Before, UsefulNodes

LEMMA BeforeAsymmetric ==
    ASSUME NEW m \in UsefulNodes, NEW n \in UsefulNodes, Before(m, n)
    PROVE  ~Before(n, m)
BY Distances DEF Before, UsefulNodes

LEMMA BeforeTransitive ==
    ASSUME NEW l \in UsefulNodes, NEW m \in UsefulNodes, NEW n \in UsefulNodes,
           Before(l, m), Before(m, n)
    PROVE  Before(l, n)
BY Distances DEF Before, UsefulNodes

\* Induction over the natural numbers, about membership in a set.
LEMMA NatSetInduction ==
    ASSUME NEW S, 0 \in S, \A n \in Nat : n \in S => n + 1 \in S
    PROVE  \A n \in Nat : n \in S
<1> DEFINE T == Nat \ S
<1> SUFFICES ASSUME T # {}
             PROVE  FALSE
  OBVIOUS
<1>1. PICK x \in T : \A y \in T : <<y, x>> \notin OpToRel(<, Nat)
  BY NatLessThanWellFounded, WFMin
<1>2. x \in Nat /\ x # 0
  OBVIOUS
<1>3. x - 1 \in Nat /\ x - 1 < x /\ x - 1 + 1 = x
  BY <1>2
<1>4. x - 1 \in T
  BY <1>2, <1>3
<1>5. <<x - 1, x>> \in OpToRel(<, Nat)
  BY <1>2, <1>3 DEF OpToRel
<1> QED
  BY <1>1, <1>4, <1>5

IsLast(n, nodes) == n \in nodes /\ \A m \in nodes \ {n} : Before(m, n)

\* A memory that is not empty has a last node, by induction over its size.
LEMMA LastExists ==
    ASSUME NEW us, Entries(us), us # {}
    PROVE  \E n \in us : \A m \in us \ {n} : Before(m, n)
<1> DEFINE S == {k \in Nat : \A nodes \in SUBSET us :
                   Cardinality(nodes) = k /\ nodes # {} =>
                     \E n : IsLast(n, nodes)}
<1>1. 0 \in S
  <2>1. ASSUME NEW nodes \in SUBSET us, Cardinality(nodes) = 0
        PROVE  nodes = {}
    BY <2>1, FS_Subset, FS_EmptySet DEF Entries
  <2> QED
    BY <2>1
<1>2. ASSUME NEW k \in Nat, k \in S
      PROVE  k + 1 \in S
  <2> SUFFICES ASSUME NEW nodes \in SUBSET us, Cardinality(nodes) = k + 1,
                      nodes # {}
               PROVE  \E n : IsLast(n, nodes)
    OBVIOUS
  <2>1. PICK x \in nodes : TRUE
    OBVIOUS
  <2> DEFINE rest == nodes \ {x}
  <2>2. Cardinality(rest) = k
    <3>1. IsFiniteSet(nodes)
      BY FS_Subset DEF Entries
    <3> QED
      BY <2>1, <3>1, FS_RemoveElement
  <2>3. CASE rest = {}
    BY <2>3 DEF IsLast
  <2>4. CASE rest # {}
    <3>1. PICK l : IsLast(l, rest)
      BY <1>2, <2>2, <2>4
    <3>2. /\ nodes \subseteq UsefulNodes
          /\ l \in nodes /\ l # x /\ l.id # x.id
      BY <3>1 DEF IsLast, Entries
    <3>3. CASE Before(x, l)
      BY <3>1, <3>2, <3>3 DEF IsLast
    <3>4. CASE Before(l, x)
      <4>1. ASSUME NEW m \in nodes \ {x}
            PROVE  Before(m, x)
        <5>1. m = l \/ Before(m, l)
          BY <3>1 DEF IsLast
        <5> QED
          BY <3>2, <3>4, <5>1, BeforeTransitive
      <4> QED
        BY <4>1 DEF IsLast
    <3> QED
      BY <3>2, <3>3, <3>4, BeforeTotal
  <2> QED
    BY <2>3, <2>4
<1> HIDE DEF S
<1>3. Cardinality(us) \in S
  BY <1>1, <1>2, NatSetInduction, FS_CardinalityType DEF Entries
<1> QED
  BY <1>3 DEF S, IsLast

\* The last entry gives way to a newcomer when the memory is full.
LEMMA TrimmedEntries ==
    ASSUME NEW us, Entries(us), Cardinality(us) > Limit
    PROVE  \E l \in us :
             /\ Trimmed(us) = us \ {l}
             /\ \A m \in us \ {l} : Before(m, l)
<1>1. us # {}
  BY FS_EmptySet, LookupAssumption
<1>2. /\ LastOf(us) \in us
      /\ \A m \in us \ {LastOf(us)} : Before(m, LastOf(us))
  BY <1>1, LastExists DEF LastOf
<1> QED
  BY <1>2 DEF Trimmed

-----------------------------------------------------------------------------
(***************************************************************************)
(* What an answer does to the memory.                                      *)
(***************************************************************************)

\* An entry changed, but not whose it is.
LEMMA ReplaceEntry ==
    ASSUME NEW us, Shape(us), NEW n \in us, NEW m \in UsefulNodes,
           m.id = n.id, m.returned_peers => m.responded
    PROVE  /\ Shape((us \ {n}) \cup {m})
           /\ Cardinality((us \ {n}) \cup {m}) = Cardinality(us)
<1> DEFINE rest == us \ {n}
           new == rest \cup {m}
<1>1. /\ IsFiniteSet(rest)
      /\ Cardinality(rest) = Cardinality(us) - 1
      /\ Cardinality(us) \in Nat
  BY FS_RemoveElement, FS_CardinalityType DEF Shape, Entries
<1>2. m \notin rest
  BY DEF Shape, Entries
<1>3. IsFiniteSet(new) /\ Cardinality(new) = Cardinality(rest) + 1
  BY <1>1, <1>2, FS_AddElement
<1>4. Cardinality(new) = Cardinality(us)
  BY <1>1, <1>3
<1>5. \A x, y \in new : x.id = y.id => x = y
  BY DEF Shape, Entries
<1> QED
  BY <1>3, <1>4, <1>5 DEF Shape, Entries

LEMMA SpacedOut ==
    ASSUME NEW seq \in Seq(Calls), NEW e \in Calls, Spaced(seq),
           \A i \in DOMAIN seq : seq[i].id = e.id /\ seq[i].depth > 0
                                   => e.at - seq[i].at > AskAgain
    PROVE  Spaced(Append(seq, e))
<1> DEFINE more == Append(seq, e)
<1>1. /\ DOMAIN seq = 1 .. Len(seq) /\ DOMAIN more = 1 .. Len(seq) + 1
      /\ \A i \in 1 .. Len(seq) : more[i] = seq[i]
      /\ more[Len(seq) + 1] = e
  OBVIOUS
<1> SUFFICES ASSUME NEW i \in DOMAIN more, NEW j \in DOMAIN more, i < j,
                    more[i].id = more[j].id, more[i].depth > 0,
                    more[j].depth > 0
             PROVE  more[j].at - more[i].at > AskAgain
  BY DEF Spaced
<1>2. i \in 1 .. Len(seq) /\ more[i] = seq[i]
  BY <1>1
<1> HIDE DEF more
<1>3. CASE j = Len(seq) + 1
  BY <1>1, <1>2, <1>3
<1>4. CASE j \in 1 .. Len(seq)
  <2>1. more[j] = seq[j]
    BY <1>1, <1>4
  <2> QED
    BY <1>1, <1>2, <1>4, <2>1 DEF Spaced
<1> QED
  BY <1>1, <1>3, <1>4

\* A node that is remembered, and was not asked within the minute, is asked.
LEMMA AskKnown ==
    ASSUME clock \in Nat, NEW seq, NEW us, Sound(seq, us),
           NEW k \in us, ~AskedRecently(k),
           NEW e \in Calls, e.id = k.id, e.at = clock
    PROVE  Sound(Append(seq, e),
                 (us \ {k}) \cup {[k EXCEPT !.last_request = clock]})
<1> DEFINE new == [k EXCEPT !.last_request = clock]
           more == (us \ {k}) \cup {new}
           asked == Append(seq, e)
<1>1. /\ k \in UsefulNodes /\ new \in UsefulNodes
      /\ new.id = k.id /\ new.last_request = clock
      /\ new.responded = k.responded
      /\ new.returned_peers = k.returned_peers
  BY DEF Sound, Shape, Entries, UsefulNodes
<1> HIDE DEF new
<1>2. Shape(more) /\ Cardinality(more) = Cardinality(us)
  <2>1. new.returned_peers => new.responded
    BY <1>1 DEF Sound, Shape, Entries
  <2> QED
    BY <1>1, <2>1, ReplaceEntry DEF Sound
<1>3. /\ seq \in Seq(Calls) /\ asked \in Seq(Calls)
      /\ DOMAIN seq = 1 .. Len(seq) /\ DOMAIN asked = 1 .. Len(seq) + 1
      /\ Len(seq) \in Nat
      /\ \A i \in DOMAIN seq : asked[i] = seq[i]
      /\ asked[Len(seq) + 1] = e
  BY DEF Sound
<1>4. \A i \in DOMAIN seq : seq[i].depth > 0 /\ seq[i].id = k.id
                              => seq[i].at <= k.last_request
  BY DEF Sound, Remembered, Forgotten, Shape, Entries
<1>5. k.last_request \in Nat /\ clock - k.last_request > AskAgain
      /\ AskAgain \in Nat
  BY <1>1, LookupAssumption DEF AskedRecently, UsefulNodes
<1>6. \A i \in DOMAIN seq : seq[i].at \in Nat
  BY <1>3 DEF Calls
<1> HIDE DEF asked, more
<1>7. Noted(asked, more)
  <2> SUFFICES ASSUME NEW n \in more
               PROVE  \E i \in DOMAIN asked :
                        asked[i].id = n.id /\ asked[i].at = n.last_request
    BY DEF Noted
  <2>1. CASE n = new
    <3>1. Len(seq) + 1 \in DOMAIN asked
      BY <1>3
    <3> QED
      BY <1>1, <1>3, <2>1, <3>1
  <2>2. CASE n \in us
    <3>1. PICK i \in DOMAIN seq :
            seq[i].id = n.id /\ seq[i].at = n.last_request
      BY <2>2 DEF Sound, Noted
    <3> QED
      BY <1>3, <3>1
  <2> QED
    BY <2>1, <2>2 DEF more
<1>8. Remembered(asked, more)
  <2> SUFFICES ASSUME NEW i \in DOMAIN asked, asked[i].depth > 0
               PROVE  \/ \E n \in more : n.id = asked[i].id
                                         /\ n.last_request >= asked[i].at
                      \/ Forgotten(more, asked[i].id)
    BY DEF Remembered
  <2>0. new \in more
    BY DEF more
  <2>1. CASE i = Len(seq) + 1
    BY <1>1, <1>3, <2>0, <2>1
  <2>2. CASE i \in DOMAIN seq /\ asked[i].id = k.id
    BY <1>1, <1>3, <1>4, <1>5, <1>6, <2>0, <2>2
  <2>3. CASE i \in DOMAIN seq /\ asked[i].id # k.id
    <3>1. CASE \E n \in us : n.id = seq[i].id /\ n.last_request >= seq[i].at
      BY <1>3, <2>3, <3>1 DEF more
    <3>2. CASE Forgotten(us, seq[i].id)
      <4>1. \A n \in more : n.id # seq[i].id /\ Ahead(n, seq[i].id)
        BY <1>1, <3>2 DEF Forgotten, Ahead, more
      <4> QED
        BY <1>2, <1>3, <2>3, <3>2, <4>1 DEF Forgotten
    <3> QED
      BY <1>3, <2>3, <3>1, <3>2 DEF Sound, Remembered
  <2> QED
    BY <1>3, <2>1, <2>2, <2>3
<1>9. Spaced(asked)
  <2>1. \A i \in DOMAIN seq : seq[i].id = e.id /\ seq[i].depth > 0
                                => e.at - seq[i].at > AskAgain
    BY <1>4, <1>5, <1>6
  <2> QED
    BY <1>3, <2>1, SpacedOut DEF Sound, asked
<1>10. Sound(asked, more)
  BY <1>2, <1>3, <1>7, <1>8, <1>9 DEF Sound
<1> QED
  BY <1>10 DEF new, more, asked

\* A newcomer finds a place: nobody comes back whom the memory had forgotten,
\* and the last one, if it is pushed out, is forgotten itself.
LEMMA Displaced ==
    ASSUME NEW us, Shape(us), NEW new \in UsefulNodes,
           ~new.responded, ~new.returned_peers,
           \A n \in us : n.id # new.id,
           new \in Trimmed(us \cup {new})
    PROVE  LET more == Trimmed(us \cup {new})
           IN  /\ more \subseteq us \cup {new}
               /\ Shape(more)
               /\ \A x \in us : x \in more \/ Forgotten(more, x.id)
               /\ \A id \in Ids : Forgotten(us, id) => Forgotten(more, id)
               /\ ~Forgotten(us, new.id)
<1> DEFINE all == us \cup {new}
           more == Trimmed(all)
<1>1. /\ IsFiniteSet(us) /\ Cardinality(us) \in Nat
      /\ Cardinality(us) <= Limit
  BY FS_CardinalityType DEF Shape, Entries
<1>2. IsFiniteSet(all) /\ Cardinality(all) = Cardinality(us) + 1
  BY <1>1, FS_AddElement
<1>3. Limit \in Nat
  BY LookupAssumption
<1>4. Entries(all)
  BY <1>2 DEF Shape, Entries
<1>5. CASE Cardinality(all) <= Limit
  <2>1. more = all
    BY <1>1, <1>2, <1>3, <1>5 DEF Trimmed
  <2>2. \A id : ~Forgotten(us, id)
    BY <1>1, <1>2, <1>3, <1>5 DEF Forgotten
  <2> QED
    BY <1>4, <1>5, <2>1, <2>2 DEF Shape
<1>6. CASE Cardinality(all) > Limit
  <2>1. PICK l \in all : /\ Trimmed(all) = all \ {l}
                         /\ \A m \in all \ {l} : Before(m, l)
    BY <1>4, <1>6, TrimmedEntries
  <2>2. l \in us /\ l # new
    BY <2>1
  <2>3. Cardinality(more) = Limit /\ Cardinality(us) = Limit
    <3>1. Cardinality(all \ {l}) = Cardinality(all) - 1
      BY <1>2, FS_RemoveElement
    <3>2. more = all \ {l}
      BY <2>1
    <3> HIDE DEF all, more
    <3> QED
      BY <1>1, <1>2, <1>3, <1>6, <3>1, <3>2
  <2>4. more \subseteq all /\ IsFiniteSet(more)
    BY <1>2, <2>1, FS_RemoveElement
  <2>5. Before(new, l) /\ l \in UsefulNodes
    BY <2>1, <2>2 DEF Shape, Entries
  <2>6. ~l.responded /\ Dist[new.id] < Dist[l.id]
    BY <2>2, <2>5 DEF Before, UsefulNodes, Shape, Entries
  <2>7. ASSUME NEW x, x \in Ids, Forgotten(us, x)
        PROVE  Forgotten(more, x)
    <3>1. x # new.id
      BY <2>2, <2>5, <2>6, <2>7, Distances DEF Forgotten, Ahead, UsefulNodes
    <3>2. Ahead(new, x)
      <4>1. Dist[l.id] < Dist[x]
        BY <2>2, <2>6, <2>7 DEF Forgotten, Ahead
      <4> QED
        BY <2>5, <2>6, <2>7, <4>1, Distances DEF Ahead, UsefulNodes
    <3>3. \A n \in more : n.id # x /\ Ahead(n, x)
      BY <2>4, <2>7, <3>1, <3>2 DEF Forgotten
    <3> QED
      BY <2>3, <3>3 DEF Forgotten
  <2>8. Forgotten(more, l.id)
    <3>1. ASSUME NEW n \in more
          PROVE  n.id # l.id /\ Ahead(n, l.id)
      <4>1. n \in all /\ n # l /\ Before(n, l)
        BY <2>1
      <4>2. n.id # l.id
        BY <1>4, <4>1 DEF Entries
      <4>3. n.returned_peers => n.responded
        BY <1>4, <4>1 DEF Entries
      <4> QED
        BY <2>6, <4>1, <4>2, <4>3 DEF Before, Ahead
    <3> QED
      BY <2>3, <3>1 DEF Forgotten
  <2>9. Shape(more)
    BY <1>2, <1>3, <1>4, <2>1, <2>3, <2>4 DEF Shape, Entries
  <2>10. ~Forgotten(us, new.id)
    <3>1. SUFFICES ASSUME Ahead(l, new.id)
                   PROVE  FALSE
      BY <2>2 DEF Forgotten
    <3> QED
      BY <2>5, <2>6, <3>1, Distances DEF Ahead, UsefulNodes
  <2> QED
    BY <2>1, <2>4, <2>7, <2>8, <2>9, <2>10
<1>7. Cardinality(all) <= Limit \/ Cardinality(all) > Limit
  BY <1>1, <1>2, <1>3
<1> QED
  BY <1>5, <1>6, <1>7, Zenon

\* A newcomer is asked.
LEMMA AskNew ==
    ASSUME clock \in Nat, NEW seq, NEW us, Sound(seq, us),
           NEW new \in UsefulNodes, new.last_request = clock,
           ~new.responded, ~new.returned_peers,
           \A n \in us : n.id # new.id,
           new \in Trimmed(us \cup {new}),
           NEW e \in Calls, e.id = new.id, e.at = clock
    PROVE  Sound(Append(seq, e), Trimmed(us \cup {new}))
<1> DEFINE more == Trimmed(us \cup {new})
           asked == Append(seq, e)
<1>1. /\ more \subseteq us \cup {new}
      /\ Shape(more)
      /\ \A x \in us : x \in more \/ Forgotten(more, x.id)
      /\ \A id \in Ids : Forgotten(us, id) => Forgotten(more, id)
      /\ ~Forgotten(us, new.id)
      /\ new \in more
  BY Displaced DEF Sound
<1>2. /\ seq \in Seq(Calls) /\ asked \in Seq(Calls)
      /\ DOMAIN seq = 1 .. Len(seq) /\ DOMAIN asked = 1 .. Len(seq) + 1
      /\ Len(seq) \in Nat
      /\ \A i \in DOMAIN seq : asked[i] = seq[i]
      /\ asked[Len(seq) + 1] = e
  BY DEF Sound
<1> HIDE DEF more, asked
<1>3. Noted(asked, more)
  <2> SUFFICES ASSUME NEW n \in more
               PROVE  \E i \in DOMAIN asked :
                        asked[i].id = n.id /\ asked[i].at = n.last_request
    BY DEF Noted
  <2>1. CASE n = new
    <3>1. Len(seq) + 1 \in DOMAIN asked
      BY <1>2
    <3> QED
      BY <1>2, <2>1, <3>1
  <2>2. CASE n \in us
    <3>1. PICK i \in DOMAIN seq :
            seq[i].id = n.id /\ seq[i].at = n.last_request
      BY <2>2 DEF Sound, Noted
    <3> QED
      BY <1>2, <3>1
  <2> QED
    BY <1>1, <2>1, <2>2
<1>4. Remembered(asked, more)
  <2> SUFFICES ASSUME NEW i \in DOMAIN asked, asked[i].depth > 0
               PROVE  \/ \E n \in more : n.id = asked[i].id
                                         /\ n.last_request >= asked[i].at
                      \/ Forgotten(more, asked[i].id)
    BY DEF Remembered
  <2>1. CASE i = Len(seq) + 1
    BY <1>1, <1>2, <2>1
  <2>2. CASE i \in DOMAIN seq
    <3>1. seq[i].id \in Ids /\ asked[i] = seq[i] /\ seq[i].depth > 0
      BY <1>2, <2>2 DEF Calls
    <3>2. CASE Forgotten(us, seq[i].id)
      BY <1>1, <3>1, <3>2
    <3>3. CASE \E n \in us : n.id = seq[i].id /\ n.last_request >= seq[i].at
      BY <1>1, <3>1, <3>3
    <3> QED
      BY <2>2, <3>1, <3>2, <3>3 DEF Sound, Remembered
  <2> QED
    BY <1>2, <2>1, <2>2
<1>5. Spaced(asked)
  <2>1. \A i \in DOMAIN seq : ~(seq[i].id = e.id /\ seq[i].depth > 0)
    BY <1>1 DEF Sound, Remembered
  <2> QED
    BY <1>2, <2>1, SpacedOut DEF Sound, asked
<1>6. Sound(asked, more)
  BY <1>1, <1>2, <1>3, <1>4, <1>5 DEF Sound
<1> QED
  BY <1>6 DEF more, asked

LEMMA BothReplaced ==
    ASSUME NEW v, NEW p, NEW s, NEW r
    PROVE  [[useful |-> v, queue |-> p] EXCEPT !.useful = s, !.queue = r]
             = [useful |-> s, queue |-> r]
<1> DEFINE g == [[useful |-> v, queue |-> p]
                   EXCEPT !.useful = s, !.queue = r]
<1>1. g \in [useful : {s}, queue : {r}]
  OBVIOUS
<1> HIDE DEF g
<1> QED
  BY <1>1

\* What is known while the nodes of an answer are gone through, after the
\* calls that were there before.
Found(before, f) ==
    \E u, q : /\ f = [useful |-> u, queue |-> q]
              /\ q \in Seq(Calls)
              /\ Sound(before \o q, u)

\* One node named in an answer.
LEMMA ConsiderKeeps ==
    ASSUME clock \in Nat, NEW before \in Seq(Calls), NEW f, Found(before, f),
           NEW c \in Contacts, NEW d \in Nat
    PROVE  Found(before, Consider(d, f, c))
<1> DEFINE u == f.useful
           q == f.queue
<1>1. /\ f = [useful |-> u, queue |-> q]
      /\ q \in Seq(Calls)
      /\ Sound(before \o q, u)
  BY DEF Found
<1>2. c.id \in Ids /\ c.addr \in Addrs
  BY LookupAssumption DEF Addrs
<1> DEFINE e == Call(c.id, c.addr, d + 1)
           new == NewUseful(c)
           known == {n \in u : n.id = c.id}
           ask == Append(q, e)
           told == {IF n \in known THEN [n EXCEPT !.last_request = clock]
                    ELSE n : n \in u}
           more == Trimmed(u \cup {new})
<1>3. e \in Calls /\ e.id = c.id /\ e.at = clock
  BY <1>2 DEF Call, Calls, Stages
<1>4. /\ new \in UsefulNodes /\ new.id = c.id /\ new.last_request = clock
      /\ ~new.responded /\ ~new.returned_peers
  BY <1>2 DEF NewUseful, UsefulNodes
<1>5. ask \in Seq(Calls) /\ before \o ask = Append(before \o q, e)
  <2>1. ask = q \o <<e>> /\ <<e>> \in Seq(Calls)
    BY <1>1, <1>3, AppendIsConcat
  <2>2. before \o (q \o <<e>>) = (before \o q) \o <<e>>
    BY <1>1, <2>1, ConcatAssociative
  <2>3. before \o q \in Seq(Calls)
    BY <1>1, ConcatProperties
  <2>4. (before \o q) \o <<e>> = Append(before \o q, e)
    BY <1>3, <2>3, AppendIsConcat
  <2>5. ask \in Seq(Calls)
    BY <1>1, <1>3
  <2> HIDE DEF ask
  <2> QED
    BY <2>1, <2>2, <2>4, <2>5
<1>6. Consider(d, f, c) =
        IF d >= MaxDepth \/ \E n \in known : AskedRecently(n) THEN f
        ELSE IF known # {} THEN [useful |-> told, queue |-> ask]
        ELSE [useful |-> more, queue |-> IF new \in more THEN ask ELSE q]
  <2>1. \A s, r : [f EXCEPT !.useful = s, !.queue = r]
                   = [useful |-> s, queue |-> r]
    BY <1>1, BothReplaced, Zenon
  <2>2. [f EXCEPT !.useful = told, !.queue = ask]
          = [useful |-> told, queue |-> ask]
    BY <2>1
  <2> QED
    BY <2>2, Zenon DEF Consider
<1> HIDE DEF e, new, ask, u, q
<1>7. CASE d >= MaxDepth \/ \E n \in known : AskedRecently(n)
  BY <1>6, <1>7
<1>8. CASE ~(d >= MaxDepth \/ \E n \in known : AskedRecently(n)) /\ known # {}
  <2>1. PICK k \in known : TRUE
    BY <1>8
  <2>2. /\ k \in u /\ k.id = c.id /\ ~AskedRecently(k)
        /\ \A n \in known : n = k
    BY <1>1, <1>8, <2>1 DEF Sound, Shape, Entries
  <2>3. told = (u \ {k}) \cup {[k EXCEPT !.last_request = clock]}
    BY <2>1, <2>2
  <2>4. Sound(before \o ask, told)
    <3>1. Sound(Append(before \o q, e),
                (u \ {k}) \cup {[k EXCEPT !.last_request = clock]})
      BY <1>1, <1>3, <2>2, AskKnown
    <3> QED
      BY <1>5, <2>3, <3>1, Zenon
  <2>5. Consider(d, f, c) = [useful |-> told, queue |-> ask]
    BY <1>6, <1>8
  <2> HIDE DEF told
  <2> QED
    BY <1>5, <2>4, <2>5 DEF Found
<1>9. CASE ~(d >= MaxDepth \/ \E n \in known : AskedRecently(n)) /\ known = {}
  <2>1. \A n \in u : n.id # new.id
    BY <1>4, <1>9
  <2>2. CASE new \in more
    <3>1. Sound(before \o ask, more)
      <4>1. Sound(Append(before \o q, e), more)
        BY <1>1, <1>3, <1>4, <2>1, <2>2, AskNew
      <4> QED
        BY <1>5, <4>1, Zenon
    <3>2. Consider(d, f, c) = [useful |-> more, queue |-> ask]
      BY <1>6, <1>9, <2>2
    <3> HIDE DEF more
    <3> QED
      BY <1>5, <3>1, <3>2 DEF Found
  <2>3. CASE new \notin more
    <3>1. Entries(u \cup {new}) /\ Shape(u)
      <4>1. IsFiniteSet(u \cup {new})
        BY <1>1, FS_AddElement DEF Sound, Shape, Entries
      <4> QED
        BY <1>1, <1>4, <2>1, <4>1 DEF Sound, Shape, Entries
    <3>2. Cardinality(u \cup {new}) > Limit
      BY <2>3 DEF Trimmed
    <3>3. PICK l \in u \cup {new} : more = (u \cup {new}) \ {l}
      BY <3>1, <3>2, TrimmedEntries
    <3>4. new \notin u
      BY <2>1
    <3>5. more = u
      BY <2>3, <3>3, <3>4
    <3>6. Consider(d, f, c) = [useful |-> u, queue |-> q]
      BY <1>6, <1>9, <2>3, <3>5
    <3> QED
      BY <1>1, <3>6 DEF Found
  <2> QED
    BY <2>2, <2>3
<1> QED
  BY <1>7, <1>8, <1>9

\* The nodes of an answer up to the k-th.
Considered(d, named, found, k) ==
    IF k = 0 THEN [useful |-> useful, queue |-> <<>>]
    ELSE Consider(d, found[k - 1], named[k])

\* The recursive function of ConsiderAll exists, by induction over its domain.
LEMMA ConsideredExists ==
    ASSUME NEW d, NEW named
    PROVE  \A n \in Nat : \E found :
             found = [k \in 0 .. n |-> Considered(d, named, found, k)]
<1> DEFINE S == {n \in Nat : \E found :
                   found = [k \in 0 .. n |-> Considered(d, named, found, k)]}
<1>1. 0 \in S
  <2> DEFINE found == [k \in 0 .. 0 |-> [useful |-> useful, queue |-> <<>>]]
  <2>1. found = [k \in 0 .. 0 |-> Considered(d, named, found, k)]
    BY DEF Considered
  <2> QED
    BY <2>1
<1>2. ASSUME NEW n \in Nat, n \in S
      PROVE  n + 1 \in S
  <2>1. PICK found : found = [k \in 0 .. n |-> Considered(d, named, found, k)]
    BY <1>2
  <2> DEFINE more == [k \in 0 .. n + 1 |-> Considered(d, named, found, k)]
  <2>2. \A k \in 0 .. n : more[k] = found[k]
    BY <2>1
  <2>3. more = [k \in 0 .. n + 1 |-> Considered(d, named, found, k)]
    OBVIOUS
  <2> HIDE DEF more
  <2>4. ASSUME NEW k \in 0 .. n + 1
        PROVE  Considered(d, named, more, k) = Considered(d, named, found, k)
    <3>1. k = 0 \/ k - 1 \in 0 .. n
      OBVIOUS
    <3> QED
      BY <2>2, <3>1 DEF Considered
  <2>5. more = [k \in 0 .. n + 1 |-> Considered(d, named, more, k)]
    BY <2>3, <2>4, Zenon
  <2>6. n + 1 \in Nat
    OBVIOUS
  <2> QED
    BY <2>5, <2>6, Zenon
<1> HIDE DEF S
<1>3. \A n \in Nat : n \in S
  BY <1>1, <1>2, NatSetInduction
<1> QED
  BY <1>3 DEF S

\* ConsiderAll is the last value of that function.
LEMMA ConsiderAllIsLast ==
    ASSUME NEW named, Len(named) \in Nat, NEW d
    PROVE  \E found :
             /\ \A k \in 0 .. Len(named) :
                  found[k] = Considered(d, named, found, k)
             /\ ConsiderAll(d, named) = found[Len(named)]
<1> DEFINE Solves(f) ==
             f = [k \in 0 .. Len(named) |-> Considered(d, named, f, k)]
           found == CHOOSE f : Solves(f)
<1>1. \E f : Solves(f)
  BY ConsideredExists, Zenon
<1>2. Solves(found)
  BY <1>1
<1>3. ConsiderAll(d, named) = found[Len(named)]
  BY DEF ConsiderAll, Considered
<1> HIDE DEF found
<1>4. \A k \in 0 .. Len(named) : found[k] = Considered(d, named, found, k)
  BY <1>2
<1> QED
  BY <1>3, <1>4

\* A whole answer, by induction over the nodes in it.
LEMMA ConsiderAllKeeps ==
    ASSUME clock \in Nat, NEW before \in Seq(Calls), Sound(before, useful),
           NEW named \in Seq(Contacts), NEW d \in Nat
    PROVE  Found(before, ConsiderAll(d, named))
<1>1. Len(named) \in Nat
  OBVIOUS
<1>2. PICK found :
        /\ \A k \in 0 .. Len(named) :
             found[k] = Considered(d, named, found, k)
        /\ ConsiderAll(d, named) = found[Len(named)]
  BY <1>1, ConsiderAllIsLast, Zenon
<1> DEFINE S == {k \in Nat : k <= Len(named) => Found(before, found[k])}
<1>3. ConsiderAll(d, named) = found[Len(named)]
  BY <1>2
<1>4. \A k \in 0 .. Len(named) : found[k] = Considered(d, named, found, k)
  BY <1>2
<1>5. 0 \in S
  <2>1. found[0] = [useful |-> useful, queue |-> <<>>]
    BY <1>4 DEF Considered
  <2>2. before \o <<>> = before
    BY ConcatEmptySeq
  <2>3. <<>> \in Seq(Calls)
    OBVIOUS
  <2>4. Found(before, found[0])
    BY <2>1, <2>2, <2>3, Zenon DEF Found
  <2> QED
    BY <2>4
<1>6. ASSUME NEW n \in Nat, n \in S
      PROVE  n + 1 \in S
  <2> SUFFICES ASSUME n + 1 <= Len(named)
               PROVE  Found(before, found[n + 1])
    OBVIOUS
  <2>1. Found(before, found[n])
    BY <1>6
  <2>2. n + 1 \in 0 .. Len(named) /\ named[n + 1] \in Contacts
    OBVIOUS
  <2>3. found[n + 1] = Consider(d, found[n], named[n + 1])
    BY <1>4, <2>2 DEF Considered
  <2> QED
    BY <2>1, <2>2, <2>3, ConsiderKeeps
<1> HIDE DEF S
<1>7. Len(named) \in S
  BY <1>5, <1>6, NatSetInduction
<1> QED
  BY <1>3, <1>7 DEF S

-----------------------------------------------------------------------------
(***************************************************************************)
(* What the other steps do to the calls and to the memory.                 *)
(***************************************************************************)

\* Only how far each call has come is different.
LEMMA SameCalls ==
    ASSUME NEW seq, NEW us, Sound(seq, us), NEW new \in Seq(Calls),
           Len(new) = Len(seq),
           \A i \in 1 .. Len(seq) : /\ new[i].id = seq[i].id
                                    /\ new[i].at = seq[i].at
                                    /\ new[i].depth = seq[i].depth
    PROVE  Sound(new, us)
<1>1. /\ DOMAIN seq = 1 .. Len(seq) /\ DOMAIN new = 1 .. Len(seq)
  BY DEF Sound
<1>2. Noted(new, us)
  BY <1>1 DEF Sound, Noted
<1>3. Remembered(new, us)
  BY <1>1 DEF Sound, Remembered
<1>4. Spaced(new)
  BY <1>1 DEF Sound, Spaced
<1> QED
  BY <1>2, <1>3, <1>4 DEF Sound

LEMMA MarkKeeps ==
    ASSUME NEW seq, NEW us, Sound(seq, us), NEW n \in us,
           NEW peers \in BOOLEAN
    PROVE  Sound(seq, (us \ {n}) \cup
                   {[n EXCEPT !.responded = TRUE, !.returned_peers = peers]})
<1> DEFINE m == [n EXCEPT !.responded = TRUE, !.returned_peers = peers]
           new == (us \ {n}) \cup {m}
<1>1. /\ n \in UsefulNodes /\ m \in UsefulNodes
      /\ m.id = n.id /\ m.last_request = n.last_request /\ m.responded
  BY DEF Sound, Shape, Entries, UsefulNodes
<1> HIDE DEF m
<1>2. Shape(new) /\ Cardinality(new) = Cardinality(us)
  BY <1>1, ReplaceEntry DEF Sound
<1> HIDE DEF new
<1>3. /\ m \in new
      /\ \A x \in new : x = m \/ x \in us
      /\ \A x \in us : x = n \/ x \in new
  BY DEF new
<1>4. Noted(seq, new)
  BY <1>1, <1>3 DEF Sound, Noted
<1>5. \A id : Forgotten(us, id) => Forgotten(new, id)
  BY <1>1, <1>2, <1>3 DEF Forgotten, Ahead
<1>6. Remembered(seq, new)
  <2> SUFFICES ASSUME NEW i \in DOMAIN seq, seq[i].depth > 0
               PROVE  \/ \E x \in new : x.id = seq[i].id
                                        /\ x.last_request >= seq[i].at
                      \/ Forgotten(new, seq[i].id)
    BY DEF Remembered
  <2>1. \/ \E x \in us : x.id = seq[i].id /\ x.last_request >= seq[i].at
        \/ Forgotten(us, seq[i].id)
    BY DEF Sound, Remembered
  <2> QED
    BY <1>1, <1>3, <1>5, <2>1
<1>7. Sound(seq, new)
  BY <1>2, <1>4, <1>6 DEF Sound
<1> QED
  BY <1>7 DEF new, m

\* The nodes a lookup starts from are not looked for in the memory.
LEMMA RootsKeep ==
    ASSUME NEW seq, NEW us, Sound(seq, us), NEW new \in Seq(Calls),
           \A i \in 1 .. Len(new) : new[i].depth = 0
    PROVE  Sound(seq \o new, us)
<1> DEFINE all == seq \o new
<1>1. /\ seq \in Seq(Calls) /\ all \in Seq(Calls)
      /\ DOMAIN seq = 1 .. Len(seq) /\ DOMAIN all = 1 .. Len(all)
      /\ Len(seq) \in Nat /\ Len(new) \in Nat
      /\ Len(all) = Len(seq) + Len(new)
      /\ \A i \in 1 .. Len(all) :
           all[i] = IF i <= Len(seq) THEN seq[i] ELSE new[i - Len(seq)]
  BY ConcatProperties DEF Sound
<1> HIDE DEF all
<1>2. \A i \in DOMAIN all : all[i].depth > 0 =>
        i \in DOMAIN seq /\ all[i] = seq[i]
  <2> SUFFICES ASSUME NEW i \in DOMAIN all, i > Len(seq)
               PROVE  all[i].depth = 0
    BY <1>1
  <2>1. i - Len(seq) \in 1 .. Len(new) /\ all[i] = new[i - Len(seq)]
    BY <1>1
  <2> QED
    BY <2>1
<1>3. \A i \in DOMAIN seq : i \in DOMAIN all /\ all[i] = seq[i]
  BY <1>1
<1>4. Noted(all, us)
  <2> SUFFICES ASSUME NEW n \in us
               PROVE  \E i \in DOMAIN all :
                        all[i].id = n.id /\ all[i].at = n.last_request
    BY DEF Noted
  <2>1. PICK i \in DOMAIN seq : seq[i].id = n.id /\ seq[i].at = n.last_request
    BY DEF Sound, Noted
  <2> QED
    BY <1>3, <2>1
<1>5. Remembered(all, us)
  BY <1>2 DEF Sound, Remembered
<1>6. Spaced(all)
  BY <1>1, <1>2 DEF Sound, Spaced
<1>7. Sound(all, us)
  BY <1>1, <1>4, <1>5, <1>6 DEF Sound
<1> QED
  BY <1>7 DEF all

LEMMA SetSequence ==
    ASSUME NEW S, IsFiniteSet(S)
    PROVE  SetToSeq(S) \in Seq(S)
<1>1. /\ Cardinality(S) \in Nat
      /\ \E f \in [1 .. Cardinality(S) -> S] : IsInjective(f)
  <2>1. ExistsBijection(1 .. Cardinality(S), S) /\ Cardinality(S) \in Nat
    BY FS_CardinalityType
  <2> QED
    BY <2>1 DEF ExistsBijection, Bijection, Injection, IsInjective
<1>2. SetToSeq(S) \in [1 .. Cardinality(S) -> S]
  BY <1>1 DEF SetToSeq
<1> QED
  BY <1>1, <1>2

-----------------------------------------------------------------------------
(***************************************************************************)
(* Invariance.                                                             *)
(***************************************************************************)

LEMMA NothingAskedYet ==
    ASSUME NEW seq \in Seq(Calls), \A i \in 1 .. Len(seq) : seq[i].depth = 0
    PROVE  Sound(seq, {})
<1>1. Shape({})
  BY FS_EmptySet, LookupAssumption DEF Shape, Entries
<1>2. Remembered(seq, {}) /\ Spaced(seq)
  BY DEF Remembered, Spaced
<1> QED
  BY <1>1, <1>2 DEF Sound, Noted

LEMMA InitInvariant == Init => IInv
<1> SUFFICES ASSUME Init
             PROVE  Sound(calls, {})
  BY DEF Init, IInv
<1>1. CASE FindNode
  <2> DEFINE from == SetToSeq(Starts)
             new == [i \in DOMAIN from |->
                       [id |-> NoId, addr |-> from[i], depth |-> 0, at |-> 0,
                        stage |-> "queued"]]
  <2>1. from \in Seq(Starts)
    BY SetSequence, LookupAssumption
  <2> HIDE DEF from
  <2>2. DOMAIN from = 1 .. Len(from) /\ Len(from) \in Nat
        /\ \A i \in DOMAIN from : from[i] \in Starts
    BY <2>1
  <2>3. \A i \in DOMAIN from : new[i] \in Calls /\ new[i].depth = 0
    BY <2>2 DEF Calls, Addrs, Stages
  <2>4. new \in Seq(Calls) /\ Len(new) = Len(from)
    BY <2>2, <2>3
  <2>5. Sound(new, {})
    <3> HIDE DEF new
    <3> QED
      BY <2>2, <2>3, <2>4, NothingAskedYet
  <2>6. calls = new
    BY <1>1 DEF Init, from
  <2> QED
    BY <2>5, <2>6, Zenon
<1>2. CASE ~FindNode
  <2>1. calls = <<>>
    BY <1>2, Zenon DEF Init
  <2>2. <<>> \in Seq(Calls) /\ 1 .. Len(<<>>) = {}
    OBVIOUS
  <2>3. Sound(<<>>, {})
    BY <2>2, NothingAskedYet
  <2> QED
    BY <2>1, <2>3, Zenon
<1> QED
  BY <1>1, <1>2

\* A call that goes on is the same call.
LEMMA AdvanceKeeps ==
    ASSUME IInv, NEW i, NEW from, NEW to \in Stages, Advance(i, from, to)
    PROVE  Sound(calls', useful)
<1>1. /\ calls \in Seq(Calls) /\ i \in 1 .. Len(calls)
      /\ calls' = [calls EXCEPT ![i].stage = to]
  BY DEF IInv, Sound, Advance
<1>2. calls[i] \in Calls
  BY <1>1
<1>3. [calls[i] EXCEPT !.stage = to] \in Calls
  BY <1>2 DEF Calls
<1>4. calls' \in Seq(Calls) /\ Len(calls') = Len(calls)
  BY <1>1, <1>3
<1>5. \A k \in 1 .. Len(calls) : /\ calls'[k].id = calls[k].id
                                 /\ calls'[k].at = calls[k].at
                                 /\ calls'[k].depth = calls[k].depth
  BY <1>1 DEF Calls
<1> QED
  BY <1>4, <1>5, SameCalls DEF IInv

LEMMA WorkInvariant ==
    ASSUME IInv, NEW i, Work(i)
    PROVE  IInv'
<1>1. {"first", "second", "ok", "failed"} \subseteq Stages
  BY DEF Stages
<1>2. CASE Start(i) \/ FirstFails(i) \/ SecondFails(i)
  <2>1. Sound(calls', useful) /\ UNCHANGED <<useful, clock>>
    <3>1. CASE Start(i)
      BY <1>1, <3>1, AdvanceKeeps DEF Start, Advance
    <3>2. CASE FirstFails(i)
      BY <1>1, <3>2, AdvanceKeeps DEF FirstFails, Advance
    <3>3. CASE SecondFails(i)
      BY <1>1, <3>3, AdvanceKeeps DEF SecondFails, Advance
    <3> QED
      BY <1>2, <3>1, <3>2, <3>3
  <2> QED
    BY <2>1, Zenon DEF IInv
<1>3. ASSUME NEW peers \in BOOLEAN, FirstAnswered(i, peers)
      PROVE  IInv'
  <2>1. Sound(calls', useful) /\ clock' = clock
    BY <1>1, <1>3, AdvanceKeeps DEF FirstAnswered, Advance
  <2>2. MarkNodeResponded(calls[i].addr, peers)
    BY <1>3 DEF FirstAnswered
  <2>3. CASE useful' = useful
    BY <2>1, <2>3, Zenon DEF IInv
  <2>4. CASE \E n \in useful :
               useful' = (useful \ {n}) \cup
                 {[n EXCEPT !.responded = TRUE, !.returned_peers = peers]}
    <3>1. PICK n \in useful :
            useful' = (useful \ {n}) \cup
              {[n EXCEPT !.responded = TRUE, !.returned_peers = peers]}
      BY <2>4
    <3>2. Sound(calls', (useful \ {n}) \cup
            {[n EXCEPT !.responded = TRUE, !.returned_peers = peers]})
      BY <2>1, MarkKeeps
    <3>3. Sound(calls', useful')
      BY <3>1, <3>2, Zenon
    <3>4. clock \in Nat
      BY DEF IInv
    <3> QED
      BY <2>1, <3>3, <3>4, Zenon DEF IInv
  <2> QED
    BY <2>2, <2>3, <2>4 DEF MarkNodeResponded
<1>4. ASSUME NEW named \in Answers, SecondAnswered(i, named)
      PROVE  IInv'
  <2> DEFINE before == [calls EXCEPT ![i].stage = "ok"]
             found == ConsiderAll(calls[i].depth, named)
  <2>1. /\ calls \in Seq(Calls) /\ i \in 1 .. Len(calls) /\ clock \in Nat
        /\ calls[i] \in Calls
    BY <1>4 DEF IInv, Sound, SecondAnswered
  <2>2. [calls[i] EXCEPT !.stage = "ok"] \in Calls
    BY <1>1, <2>1 DEF Calls
  <2>3. before \in Seq(Calls) /\ Len(before) = Len(calls)
    BY <2>1, <2>2
  <2>4. \A k \in 1 .. Len(calls) : /\ before[k].id = calls[k].id
                                   /\ before[k].at = calls[k].at
                                   /\ before[k].depth = calls[k].depth
    BY <2>1 DEF Calls
  <2> HIDE DEF before
  <2>5. Sound(before, useful)
    BY <2>3, <2>4, SameCalls DEF IInv
  <2>6. named \in Seq(Contacts)
    BY <1>4 DEF Answers
  <2>7. calls[i].depth \in Nat
    BY <2>1 DEF Calls
  <2>8. Found(before, found)
    BY <2>1, <2>3, <2>5, <2>6, <2>7, ConsiderAllKeeps
  <2>9. calls' = before \o found.queue /\ useful' = found.useful
        /\ clock' = clock
    BY <1>4 DEF SecondAnswered, before
  <2> HIDE DEF found
  <2>10. Sound(before \o found.queue, found.useful)
    BY <2>8 DEF Found
  <2> QED
    BY <2>1, <2>9, <2>10, Zenon DEF IInv
<1> QED
  BY <1>2, <1>3, <1>4 DEF Work

LEMMA RootsInvariant ==
    ASSUME IInv, NEW roots \in SUBSET Roots, GetPeersRoot(roots)
    PROVE  IInv'
<1> DEFINE from == SetToSeq(roots)
           new == [i \in DOMAIN from |-> Call(from[i].id, from[i].addr, 0)]
<1>1. from \in Seq(roots)
  BY SetSequence, FS_Subset, LookupAssumption
<1>2. calls' = calls \o new /\ UNCHANGED <<useful, clock>>
  BY DEF GetPeersRoot
<1> HIDE DEF from
<1>3. /\ DOMAIN from = 1 .. Len(from) /\ Len(from) \in Nat
      /\ \A i \in DOMAIN from : from[i] \in Contacts
  BY <1>1, LookupAssumption
<1>4. \A i \in DOMAIN from : from[i].id \in Ids /\ from[i].addr \in Addrs
  BY <1>3, LookupAssumption DEF Addrs
<1>5. clock \in Nat
  BY DEF IInv
<1>6. \A i \in DOMAIN from : new[i] \in Calls /\ new[i].depth = 0
  BY <1>4, <1>5 DEF Calls, Stages, Call
<1>7. new \in Seq(Calls) /\ Len(new) = Len(from)
  BY <1>3, <1>6
<1> HIDE DEF new
<1>8. Sound(calls \o new, useful)
  BY <1>3, <1>6, <1>7, RootsKeep DEF IInv
<1> QED
  BY <1>2, <1>5, <1>8, Zenon DEF IInv

LEMMA DropInvariant ==
    ASSUME IInv, Drop
    PROVE  IInv'
<1>1. /\ calls \in Seq(Calls) /\ clock \in Nat
      /\ DOMAIN calls = 1 .. Len(calls)
      /\ calls' = [i \in DOMAIN calls |->
                     IF Ended(calls[i]) THEN calls[i]
                     ELSE [calls[i] EXCEPT !.stage = "failed"]]
      /\ UNCHANGED <<useful, clock>>
  BY DEF IInv, Sound, Drop
<1>2. \A i \in 1 .. Len(calls) :
        /\ calls'[i] \in Calls
        /\ calls'[i].id = calls[i].id
        /\ calls'[i].at = calls[i].at
        /\ calls'[i].depth = calls[i].depth
  <2> SUFFICES ASSUME NEW i \in 1 .. Len(calls)
               PROVE  /\ calls'[i] \in Calls
                      /\ calls'[i].id = calls[i].id
                      /\ calls'[i].at = calls[i].at
                      /\ calls'[i].depth = calls[i].depth
    OBVIOUS
  <2>1. calls[i] \in Calls
    BY <1>1
  <2>2. calls'[i] = calls[i]
        \/ calls'[i] = [calls[i] EXCEPT !.stage = "failed"]
    BY <1>1
  <2> QED
    BY <2>1, <2>2 DEF Calls, Stages
<1>3. calls' \in Seq(Calls) /\ Len(calls') = Len(calls)
  BY <1>1, <1>2
<1>4. Sound(calls', useful)
  BY <1>2, <1>3, SameCalls DEF IInv
<1> QED
  BY <1>1, <1>4, Zenon DEF IInv

LEMMA NextInvariant == IInv /\ [Next]_vars => IInv'
<1> SUFFICES ASSUME IInv, [Next]_vars
             PROVE  IInv'
  OBVIOUS
<1>1. CASE \E i \in DOMAIN calls : Work(i)
  BY <1>1, WorkInvariant
<1>2. CASE \E roots \in SUBSET Roots : GetPeersRoot(roots)
  BY <1>2, RootsInvariant
<1>3. CASE Drop
  BY <1>3, DropInvariant
<1>4. CASE Finish \/ UNCHANGED vars
  BY <1>4, Zenon DEF Finish, IInv, vars
<1>5. CASE Tick
  <2>1. clock' \in Nat
    BY <1>5 DEF Tick, IInv
  <2> QED
    BY <1>5, <2>1, Zenon DEF Tick, IInv
<1> QED
  BY <1>1, <1>2, <1>3, <1>4, <1>5 DEF Next

LEMMA Invariance == Spec => []IInv
BY InitInvariant, NextInvariant, PTL DEF Spec

\* useful_nodes says the truth: one entry per node, at most as many as it may
\* have, and each of them was queued by should_request_node or before, at the
\* time of its last_request.
THEOREM MemoryIsTrue == Spec => []UsefulWereAsked
<1>1. IInv => UsefulWereAsked
  BY DEF IInv, Sound, Shape, Entries, Noted, UsefulWereAsked
<1> QED
  BY <1>1, Invariance, PTL

\* No node is queued twice within a minute by should_request_node, although
\* it only looks into useful_nodes and useful_nodes forgets: those it forgot
\* are kept out by those it remembers.
THEOREM NobodyAskedTwice == Spec => []NotAskedTwice
<1>1. IInv => NotAskedTwice
  BY DEF IInv, Sound, Spaced, NotAskedTwice
<1> QED
  BY <1>1, Invariance, PTL

-----------------------------------------------------------------------------
(***************************************************************************)
(* Why a lookup ends: an answer only queues calls a level deeper.          *)
(***************************************************************************)

Progress(c) ==
    IF c.stage = "queued" THEN 0
    ELSE IF c.stage = "first" THEN 1
    ELSE IF c.stage = "second" THEN 2
    ELSE 3

\* Calls queued by an answer to a call at depth d that names n nodes.
Deeper(q, d, n) ==
    /\ q \in Seq(Calls)
    /\ Len(q) <= n
    /\ \A k \in 1 .. Len(q) : q[k].depth = d + 1 /\ d < MaxDepth

QueuedBy(f, d, n) ==
    \E u, q : f = [useful |-> u, queue |-> q] /\ Deeper(q, d, n)

\* One call goes on, and may leave a few calls a level deeper.
OneGoesOn ==
    \E i \in DOMAIN calls, n \in 0 .. MaxNamed :
        \E ahead \in [DOMAIN calls -> Calls], q \in Seq(Calls) :
            /\ calls' = ahead \o q
            /\ Progress(ahead[i]) > Progress(calls[i])
            /\ ahead[i].depth = calls[i].depth
            /\ \A k \in DOMAIN calls \ {i} : ahead[k] = calls[k]
            /\ Deeper(q, calls[i].depth, n)
            /\ n > 0 => Ended(ahead[i])

\* One node of an answer, after n others.
LEMMA ConsiderDeeper ==
    ASSUME clock \in Nat, NEW c \in Contacts, NEW d \in Nat, NEW n \in Nat,
           NEW f, QueuedBy(f, d, n)
    PROVE  QueuedBy(Consider(d, f, c), d, n + 1)
<1>0. PICK u, q : f = [useful |-> u, queue |-> q] /\ Deeper(q, d, n)
  BY DEF QueuedBy
<1> DEFINE e == Call(c.id, c.addr, d + 1)
           ask == Append(q, e)
           known == {m \in f.useful : m.id = c.id}
           told == {IF m \in known THEN [m EXCEPT !.last_request = clock]
                    ELSE m : m \in f.useful}
           more == Trimmed(f.useful \cup {NewUseful(c)})
<1>1. e \in Calls /\ e.depth = d + 1
  BY LookupAssumption DEF Call, Calls, Stages, Addrs
<1>2. Deeper(q, d, n + 1)
  BY <1>0 DEF Deeper
<1>3. ASSUME d < MaxDepth
      PROVE  Deeper(ask, d, n + 1)
  BY <1>0, <1>1, <1>3 DEF Deeper
<1>4. f.queue = q /\ f.useful = u
  BY <1>0
<1>5. [f EXCEPT !.useful = told, !.queue = ask]
        = [useful |-> told, queue |-> ask]
  BY <1>0, BothReplaced, Zenon
<1>6. Consider(d, f, c) =
        IF d >= MaxDepth \/ \E m \in known : AskedRecently(m) THEN f
        ELSE IF known # {} THEN [useful |-> told, queue |-> ask]
        ELSE [useful |-> more,
              queue |-> IF NewUseful(c) \in more THEN ask ELSE q]
  BY <1>4, <1>5, Zenon DEF Consider
<1>7. d >= MaxDepth \/ d < MaxDepth
  BY LookupAssumption
<1> HIDE DEF e, ask, known, told, more
<1> QED
  BY <1>0, <1>2, <1>3, <1>6, <1>7 DEF QueuedBy

\* A whole answer.
LEMMA ConsiderAllDeeper ==
    ASSUME clock \in Nat, NEW named \in Seq(Contacts), NEW d \in Nat
    PROVE  Deeper(ConsiderAll(d, named).queue, d, Len(named))
<1>1. Len(named) \in Nat
  OBVIOUS
<1>2. PICK found :
        /\ \A k \in 0 .. Len(named) :
             found[k] = Considered(d, named, found, k)
        /\ ConsiderAll(d, named) = found[Len(named)]
  BY <1>1, ConsiderAllIsLast, Zenon
<1> DEFINE S == {k \in Nat : k <= Len(named) => QueuedBy(found[k], d, k)}
<1>3. 0 \in S
  <2>1. found[0] = [useful |-> useful, queue |-> <<>>]
    BY <1>1, <1>2 DEF Considered
  <2>2. Deeper(<<>>, d, 0)
    BY DEF Deeper
  <2>3. QueuedBy(found[0], d, 0)
    BY <2>1, <2>2, Zenon DEF QueuedBy
  <2> QED
    BY <2>3
<1>4. ASSUME NEW k \in Nat, k \in S
      PROVE  k + 1 \in S
  <2> SUFFICES ASSUME k + 1 <= Len(named)
               PROVE  QueuedBy(found[k + 1], d, k + 1)
    OBVIOUS
  <2>1. QueuedBy(found[k], d, k)
    BY <1>1, <1>4
  <2>2. k + 1 \in 0 .. Len(named) /\ named[k + 1] \in Contacts
    BY <1>1
  <2>3. found[k + 1] = Consider(d, found[k], named[k + 1])
    BY <1>2, <2>2 DEF Considered
  <2>4. QueuedBy(Consider(d, found[k], named[k + 1]), d, k + 1)
    BY <2>1, <2>2, ConsiderDeeper
  <2> QED
    BY <2>3, <2>4, Zenon
<1>5. QueuedBy(found[Len(named)], d, Len(named))
  <2>1. Len(named) \in S
    <3> HIDE DEF S
    <3> QED
      BY <1>1, <1>3, <1>4, NatSetInduction
  <2> QED
    BY <1>1, <2>1
<1> QED
  BY <1>2, <1>5 DEF QueuedBy

\* A request that ends, with nothing else.
LEMMA AdvanceGoesOn ==
    ASSUME IInv, NEW i, NEW from, NEW to, Advance(i, from, to),
           <<from, to>> \in {<<"queued", "first">>, <<"first", "second">>,
                             <<"second", "failed">>}
    PROVE  OneGoesOn
<1>1. /\ calls \in Seq(Calls) /\ i \in 1 .. Len(calls) /\ to \in Stages
      /\ calls[i].stage = from
      /\ calls' = [calls EXCEPT ![i].stage = to]
      /\ DOMAIN calls = 1 .. Len(calls)
  BY DEF IInv, Sound, Advance, Stages
<1>2. calls[i] \in Calls
  BY <1>1
<1>3. /\ [calls[i] EXCEPT !.stage = to] \in Calls
      /\ [calls[i] EXCEPT !.stage = to].depth = calls[i].depth
      /\ [calls[i] EXCEPT !.stage = to].stage = to
  BY <1>1, <1>2 DEF Calls
<1>4. /\ calls' \in [DOMAIN calls -> Calls]
      /\ calls' \in Seq(Calls)
      /\ calls'[i] = [calls[i] EXCEPT !.stage = to]
      /\ \A k \in DOMAIN calls \ {i} : calls'[k] = calls[k]
  BY <1>1, <1>3
<1>5. calls' = calls' \o <<>>
  BY <1>4, ConcatEmptySeq
<1>6. Progress(calls'[i]) > Progress(calls[i])
  BY <1>1, <1>3, <1>4 DEF Progress
<1>7. calls[i].depth \in Nat /\ 0 \in 0 .. MaxNamed
  BY <1>2, LookupAssumption DEF Calls
<1>8. Deeper(<<>>, calls[i].depth, 0) /\ <<>> \in Seq(Calls)
  BY DEF Deeper
<1>9. calls'[i].depth = calls[i].depth /\ ~(0 > 0) /\ i \in DOMAIN calls
  BY <1>1, <1>3, <1>4
<1> QED
  BY <1>4, <1>5, <1>6, <1>7, <1>8, <1>9, Zenon DEF OneGoesOn

LEMMA AnswerGoesOn ==
    ASSUME IInv, NEW i, NEW named \in Answers, SecondAnswered(i, named)
    PROVE  OneGoesOn
<1> DEFINE ahead == [calls EXCEPT ![i].stage = "ok"]
           q == ConsiderAll(calls[i].depth, named).queue
<1>1. /\ calls \in Seq(Calls) /\ i \in 1 .. Len(calls) /\ clock \in Nat
      /\ calls[i].stage = "second"
      /\ calls' = ahead \o q
      /\ DOMAIN calls = 1 .. Len(calls)
  BY DEF IInv, Sound, SecondAnswered
<1>2. calls[i] \in Calls /\ "ok" \in Stages
  BY <1>1 DEF Stages
<1>3. /\ [calls[i] EXCEPT !.stage = "ok"] \in Calls
      /\ [calls[i] EXCEPT !.stage = "ok"].depth = calls[i].depth
      /\ [calls[i] EXCEPT !.stage = "ok"].stage = "ok"
  BY <1>2 DEF Calls
<1>4. /\ ahead \in [DOMAIN calls -> Calls]
      /\ ahead[i] = [calls[i] EXCEPT !.stage = "ok"]
      /\ \A k \in DOMAIN calls \ {i} : ahead[k] = calls[k]
  BY <1>1, <1>3
<1>5. calls[i].depth \in Nat
  BY <1>2 DEF Calls
<1>6. named \in Seq(Contacts) /\ Len(named) \in 0 .. MaxNamed
  <2>1. PICK n \in 0 .. MaxNamed : named \in [1 .. n -> Contacts]
    BY DEF Answers
  <2>2. n \in Nat
    BY LookupAssumption
  <2>3. named \in Seq(Contacts) /\ Len(named) = n
    BY <2>1, <2>2
  <2> QED
    BY <2>3
<1>7. Deeper(q, calls[i].depth, Len(named))
  BY <1>1, <1>5, <1>6, ConsiderAllDeeper
<1> DEFINE n == Len(named)
<1> HIDE DEF ahead, q, n
<1>8. Progress(ahead[i]) > Progress(calls[i]) /\ Ended(ahead[i])
      /\ ahead[i].depth = calls[i].depth
  BY <1>1, <1>3, <1>4 DEF Progress, Ended
<1>9. q \in Seq(Calls) /\ i \in DOMAIN calls
  BY <1>1, <1>7 DEF Deeper
<1>10. n \in 0 .. MaxNamed /\ Deeper(q, calls[i].depth, n)
  BY <1>6, <1>7 DEF n
<1> QED
  BY <1>1, <1>4, <1>8, <1>9, <1>10, Zenon DEF OneGoesOn

\* A find_node lookup goes on in one call at a time, and only what an answer
\* names is added: at most MaxNamed calls, each a level deeper than the call
\* that was answered and at most max_depth deep.  Since answers may name any
\* node again and useful_nodes forgets, this is what makes the lookup end.
THEOREM LookupsGoDeeper ==
    Spec => [][FindNode => OneGoesOn \/ UNCHANGED calls]_vars
<1>1. ASSUME IInv, [Next]_vars
      PROVE  [FindNode => OneGoesOn \/ UNCHANGED calls]_vars
  <2>1. ASSUME NEW i \in DOMAIN calls, Work(i)
        PROVE  OneGoesOn
    <3>1. CASE Start(i)
      BY <1>1, <3>1, AdvanceGoesOn DEF Start
    <3>2. CASE FirstFails(i)
      BY <1>1, <3>2, AdvanceGoesOn DEF FirstFails
    <3>3. CASE SecondFails(i)
      BY <1>1, <3>3, AdvanceGoesOn DEF SecondFails
    <3>4. CASE \E peers \in BOOLEAN : FirstAnswered(i, peers)
      BY <1>1, <3>4, AdvanceGoesOn DEF FirstAnswered
    <3>5. CASE \E named \in Answers : SecondAnswered(i, named)
      BY <1>1, <3>5, AnswerGoesOn
    <3> QED
      BY <2>1, <3>1, <3>2, <3>3, <3>4, <3>5 DEF Work
  <2>2. CASE Finish \/ Tick \/ UNCHANGED vars
    BY <2>2 DEF Finish, Tick, vars
  <2>3. CASE Drop \/ \E roots \in SUBSET Roots : GetPeersRoot(roots)
    BY <2>3 DEF Drop, GetPeersRoot
  <2> QED
    BY <1>1, <2>1, <2>2, <2>3 DEF Next
<1> QED
  BY <1>1, Invariance, PTL DEF Spec

=============================================================================
