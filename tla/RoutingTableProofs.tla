------------------------- MODULE RoutingTableProofs -------------------------
(***************************************************************************)
(* Proofs about RoutingTable, for ids of any width, leaves of any capacity *)
(* and any sequence of insertions, marks, restarts and ticks.              *)
(***************************************************************************)
EXTENDS RoutingTable, FiniteSetTheorems, TLAPS

-----------------------------------------------------------------------------
(***************************************************************************)
(* The inductive invariant.                                                *)
(***************************************************************************)

\* A leaf of b bits covers 2^b ids.
LeafShape == \A l \in leaves : l.end = l.start + Pow[l.bits] - 1

\* An insertion under way began below the bound on size.
PendingBounded == pending # {} => size < MaxLen

IInv ==
    /\ TypeOK
    /\ LeafShape
    /\ PendingBounded
    /\ LeavesPartitionIds
    /\ KnownOnce
    /\ CapacityHolds
    /\ OneLeafPerDistance

-----------------------------------------------------------------------------
\* Any set of ids is finite.
LEMMA IdsFinite ==
    ASSUME NEW S \in SUBSET Ids
    PROVE  IsFiniteSet(S) /\ Cardinality(S) \in Nat
<1>1. Pow[Bits] \in Nat
  BY BitsAssumption
<1>2. IsFiniteSet(Ids)
  BY <1>1, FS_Interval DEF Ids
<1> QED
  BY <1>2, FS_Subset, FS_CardinalityType

\* Ids are integers.
LEMMA IdsAreIntegers == Ids \subseteq Int
BY BitsAssumption DEF Ids

\* The powers of two as far as a split needs them: half of an even range.
LEMMA HalfPow ==
    ASSUME NEW b \in 0 .. Bits, Pow[b] >= 3
    PROVE  /\ b - 1 \in 0 .. Bits
           /\ Pow[b - 1] \in Nat
           /\ Pow[b - 1] >= 2
           /\ Pow[b] = 2 * Pow[b - 1]
<1> USE BitsAssumption
<1>1. b # 0
  OBVIOUS
<1>2. b - 1 \in 0 .. (Bits - 1) /\ (b - 1) + 1 = b
  BY <1>1
<1>3. Pow[b] = 2 * Pow[b - 1]
  BY <1>2
<1>4. Pow[b - 1] \in Nat
  BY <1>2
<1> QED
  BY <1>2, <1>3, <1>4

\* Where a split happens the leaf covers more than two ids: it holds K nodes
\* and the id that does not fit belongs there too.
LEMMA SplitHasRoom ==
    ASSUME TypeOK, LeafShape, KnownOnce, NEW l \in leaves, NEW id \in InputIds,
           MustSplit(l, id)
    PROVE  Pow[l.bits] >= 3
<1> DEFINE S == l.ids \cup {id}
<1>1. /\ l.start \in Int /\ l.end \in Int /\ l.bits \in 0 .. Bits
      /\ l.ids \in SUBSET Ids /\ id \in Int
  BY BitsAssumption, TableAssumption DEF TypeOK, LeafType, Ids
<1>2. S \in SUBSET (l.start .. l.end)
  BY <1>1, TableAssumption DEF KnownOnce, MustSplit, Covers, Ids
<1>3. Cardinality(S) = Cardinality(l.ids) + 1 /\ Cardinality(l.ids) \in Nat
  BY <1>1, IdsFinite, FS_AddElement DEF MustSplit, NewAndNoneBad
<1>4. Cardinality(S) >= 3
  BY <1>3, TableAssumption DEF MustSplit, Full
<1>5. Cardinality(S) <= Cardinality(l.start .. l.end)
  BY <1>1, <1>2, FS_Interval, FS_Subset
<1>6. l.start <= l.end /\ Cardinality(l.start .. l.end) = l.end - l.start + 1
  <2>1. id \in Int /\ l.start <= id /\ id <= l.end
    BY <1>1 DEF MustSplit, Covers
  <2>2. l.start <= l.end
    BY <1>1, <2>1
  <2>3. Cardinality(l.start .. l.end) =
            IF l.start > l.end THEN 0 ELSE l.end - l.start + 1
    BY <1>1, FS_Interval
  <2> QED
    BY <1>1, <2>2, <2>3
<1>7. Pow[l.bits] \in Nat /\ l.end = l.start + Pow[l.bits] - 1
  BY <1>1, BitsAssumption DEF LeafShape
<1> QED
  BY <1>1, <1>3, <1>4, <1>5, <1>6, <1>7

\* The two halves of a leaf that is split: their ranges are adjacent and make
\* up the range of the leaf.
LEMMA Halves ==
    ASSUME TypeOK, LeafShape, KnownOnce, NEW l \in leaves, NEW id \in InputIds,
           MustSplit(l, id)
    PROVE  /\ l.bits - 1 \in 0 .. Bits
           /\ LeftEnd(l) + 1 = RightStart(l)
           /\ l.start < LeftEnd(l) /\ RightStart(l) < l.end
           /\ LeftEnd(l) \in Ids /\ RightStart(l) \in Ids
           /\ LeftEnd(l) = l.start + Pow[l.bits - 1] - 1
           /\ l.end = RightStart(l) + Pow[l.bits - 1] - 1
<1> DEFINE h == Pow[l.bits - 1]
<1>1. l.start \in Ids /\ l.end \in Ids /\ l.bits \in 0 .. Bits
  BY DEF TypeOK, LeafType
<1>2. l.bits - 1 \in 0 .. Bits /\ h \in Nat /\ h >= 2 /\ Pow[l.bits] = 2 * h
  BY <1>1, SplitHasRoom, HalfPow
<1>3. l.end = l.start + 2 * h - 1
  BY <1>2 DEF LeafShape
<1>4. Pow[Bits] \in Nat
  BY BitsAssumption
<1> QED
  BY <1>1, <1>2, <1>3, <1>4 DEF LeftEnd, RightStart, Ids
\* The two halves cover what the leaf covered, and nothing twice.
LEMMA HalvesCover ==
    ASSUME TypeOK, LeafShape, KnownOnce, NEW l \in leaves, NEW id \in InputIds,
           MustSplit(l, id), NEW n \in Ids
    PROVE  /\ Covers(LeftHalf(l), n) <=> Covers(l, n) /\ n < RightStart(l)
           /\ Covers(RightHalf(l), n) <=> Covers(l, n) /\ n >= RightStart(l)
<1>1. /\ l.start \in Int /\ l.end \in Int /\ LeftEnd(l) \in Int
      /\ RightStart(l) \in Int /\ n \in Int
  BY Halves, IdsAreIntegers DEF TypeOK, LeafType
<1>2. /\ LeftEnd(l) + 1 = RightStart(l)
      /\ l.start < LeftEnd(l) /\ RightStart(l) < l.end
  BY Halves
<1>3. /\ LeftHalf(l).start = l.start /\ LeftHalf(l).end = LeftEnd(l)
      /\ RightHalf(l).start = RightStart(l) /\ RightHalf(l).end = l.end
  BY DEF LeftHalf, RightHalf
<1> QED
  BY <1>1, <1>2, <1>3 DEF Covers

\* Replacing a leaf by leaves that cover the same ids, none twice, keeps the
\* partition.
LEMMA ReplaceKeepsPartition ==
    ASSUME LeavesPartitionIds, NEW l \in leaves, NEW new,
           leaves' = Replace(l, new),
           \A n \in new, id \in Ids : Covers(n, id) => Covers(l, id),
           \A id \in Ids : Covers(l, id) =>
               \E n \in new : /\ Covers(n, id)
                              /\ \A m \in new : Covers(m, id) => m = n
    PROVE  LeavesPartitionIds'
<1> SUFFICES ASSUME NEW id \in Ids
             PROVE  \E p \in leaves' : /\ Covers(p, id)
                                       /\ \A m \in leaves' : Covers(m, id) => m = p
  BY DEF LeavesPartitionIds, Covers
<1>1. PICK p \in leaves : /\ Covers(p, id)
                          /\ \A m \in leaves : Covers(m, id) => m = p
  BY DEF LeavesPartitionIds
<1>2. CASE p = l
  BY <1>1, <1>2 DEF Replace
<1>3. CASE p # l
  BY <1>1, <1>3 DEF Replace
<1> QED
  BY <1>2, <1>3

\* An id of a leaf is in no other leaf.
LEMMA FiledOnce ==
    ASSUME TypeOK, LeavesPartitionIds, KnownOnce,
           NEW l \in leaves, NEW m \in leaves, NEW id \in l.ids, id \in m.ids
    PROVE  l = m
<1>1. id \in Ids /\ Covers(l, id) /\ Covers(m, id)
  BY DEF TypeOK, LeafType, KnownOnce
<1> QED
  BY <1>1 DEF LeavesPartitionIds

\* A leaf replaced by one with the same range.
LEMMA SameRange ==
    ASSUME LeavesPartitionIds, NEW l \in leaves, NEW new,
           new.start = l.start, new.end = l.end, leaves' = Replace(l, {new})
    PROVE  LeavesPartitionIds'
<1>1. \A id \in Ids : Covers(new, id) <=> Covers(l, id)
  BY DEF Covers
<1> QED
  BY <1>1, ReplaceKeepsPartition

\* The distances of the leaves, when a leaf is replaced by one with the same
\* range and size.
LEMMA SameDistance ==
    ASSUME OneLeafPerDistance, NEW l \in leaves, NEW new,
           new.start = l.start, new.end = l.end, new.bits = l.bits,
           leaves' = Replace(l, {new})
    PROVE  OneLeafPerDistance'
<1>1. Covers(new, SelfId) <=> Covers(l, SelfId)
  BY DEF Covers
<1> QED
  BY <1>1 DEF OneLeafPerDistance, Replace, Covers
-----------------------------------------------------------------------------
\* The operations on entries keep their type.
LEMMA EntriesTyped ==
    ASSUME NEW n \in Nodes(Addrs, Instants), NEW now \in Instants
    PROVE  /\ MarkOutgoingRequest(n, now) \in Nodes(Addrs, Instants)
           /\ MarkLastQuery(n, now) \in Nodes(Addrs, Instants)
           /\ MarkResponse(n, now) \in Nodes(Addrs, Instants)
           /\ MarkError(n) \in Nodes(Addrs, Instants)
<1>1. MarkOutgoingRequest(n, now) \in Nodes(Addrs, Instants)
  BY DEF Nodes, MarkOutgoingRequest
<1>2. MarkLastQuery(n, now) \in Nodes(Addrs, Instants)
  BY DEF Nodes, MarkLastQuery
<1>3. MarkResponse(n, now) \in Nodes(Addrs, Instants)
  <2> DEFINE answered == [n EXCEPT !.last_response = now, !.errors = 0]
  <2>1. answered \in Nodes(Addrs, Instants)
    <3>1. ASSUME NEW m \in Nodes(Addrs, Instants)
          PROVE  [m EXCEPT !.errors = 0] \in Nodes(Addrs, Instants)
      BY <3>1 DEF Nodes, BadAfter
    <3>2. [n EXCEPT !.last_response = now] \in Nodes(Addrs, Instants)
      BY DEF Nodes
    <3>3. answered = [[n EXCEPT !.last_response = now] EXCEPT !.errors = 0]
      OBVIOUS
    <3> QED
      BY <3>1, <3>2, <3>3
  <2>2. MarkOutgoingRequest(answered, now) \in Nodes(Addrs, Instants)
    BY <2>1 DEF Nodes, MarkOutgoingRequest
  <2> QED
    BY <2>1, <2>2 DEF MarkResponse
<1>4. MarkError(n) \in Nodes(Addrs, Instants)
  BY DEF Nodes, MarkError, BadAfter
<1> QED
  BY <1>1, <1>2, <1>3, <1>4

\* A fresh entry is well typed.
LEMMA NewNodeTyped ==
    ASSUME NEW addr \in Addrs
    PROVE  NewNode(addr) \in Nodes(Addrs, Instants)
BY DEF Nodes, NewNode, BadAfter

\* An insertion that begins or goes on is below the bound on size.
LEMMA InsertBounded ==
    ASSUME PendingBounded, NEW id, NEW addr, MayInsert(id, addr)
    PROVE  size < MaxLen
BY DEF PendingBounded, MayInsert

\* Replacing a leaf by one with the same range and size.
LEMMA SameShape ==
    ASSUME TypeOK, LeafShape, NEW l \in leaves, NEW ids \in SUBSET Ids,
           leaves' = Replace(l, {[Touched(l) EXCEPT !.ids = ids]})
    PROVE  leaves' \in SUBSET LeafType /\ LeafShape'
<1> DEFINE new == [Touched(l) EXCEPT !.ids = ids]
<1>1. /\ new \in LeafType
      /\ new.bits = l.bits /\ new.start = l.start /\ new.end = l.end
  BY DEF Touched, TypeOK, LeafType
<1> QED
  BY <1>1 DEF Replace, TypeOK, LeafShape

\* Every step keeps the types and the shape of the leaves.
LEMMA TypeStep ==
    /\ TypeOK /\ LeafShape /\ KnownOnce /\ PendingBounded /\ [Next]_vars
    => TypeOK' /\ LeafShape' /\ PendingBounded'
<1> SUFFICES ASSUME TypeOK, LeafShape, KnownOnce, PendingBounded, [Next]_vars
             PROVE  TypeOK' /\ LeafShape' /\ PendingBounded'
  OBVIOUS
<1> USE TableAssumption
<1>1. ASSUME NEW id \in InputIds, NEW addr \in Addrs,
             \/ AddExisting(id, addr)
             \/ AddIgnoredFull(id, addr)
             \/ AddIgnoredFar(id, addr)
      PROVE  TypeOK' /\ LeafShape' /\ PendingBounded'
  <2>1. /\ UNCHANGED <<leaves, rec, tree_size, size, clock>>
        /\ pending' = {}
    BY <1>1 DEF AddExisting, AddIgnoredFull, AddIgnoredFar
  <2> QED
    BY <2>1 DEF TypeOK, LeafShape, PendingBounded, Known
<1>2. ASSUME NEW id \in InputIds, NEW addr \in Addrs, AddReplaceBad(id, addr)
      PROVE  TypeOK' /\ LeafShape' /\ PendingBounded'
  <2>a. PICK l \in leaves : \E bad \in BadIn(l) :
          /\ leaves' = Replace(l, {[Touched(l) EXCEPT !.ids =
                                       (@ \ {bad}) \cup {id}]})
          /\ rec' = [n \in (Known \ {bad}) \cup {id} |->
                       IF n = id THEN NewNode(addr) ELSE rec[n]]
    BY <1>2 DEF AddReplaceBad
  <2>1. PICK bad \in BadIn(l) :
          /\ leaves' = Replace(l, {[Touched(l) EXCEPT !.ids =
                                       (@ \ {bad}) \cup {id}]})
          /\ rec' = [n \in (Known \ {bad}) \cup {id} |->
                       IF n = id THEN NewNode(addr) ELSE rec[n]]
    BY <2>a
  <2>2. (l.ids \ {bad}) \cup {id} \in SUBSET Ids
    BY DEF TypeOK, LeafType
  <2>3. leaves' = Replace(l, {[Touched(l) EXCEPT !.ids =
                                  (l.ids \ {bad}) \cup {id}]})
    BY <2>1 DEF Touched
  <2>4. leaves' \in SUBSET LeafType /\ LeafShape'
    BY <2>2, <2>3, SameShape
  <2>5. rec' \in [Known' -> Nodes(Addrs, Instants)] /\ Known' \subseteq Ids
    BY <2>1, NewNodeTyped DEF TypeOK, Known
  <2>6. size' \in 0 .. MaxLen
    BY <1>2, InsertBounded DEF AddReplaceBad, TypeOK
  <2> QED
    BY <1>2, <2>4, <2>5, <2>6 DEF AddReplaceBad, TypeOK, PendingBounded
<1>3. ASSUME NEW id \in InputIds, NEW addr \in Addrs, AddPush(id, addr)
      PROVE  TypeOK' /\ LeafShape' /\ PendingBounded'
  <2>1. PICK l \in leaves :
          leaves' = Replace(l, {[Touched(l) EXCEPT !.ids = @ \cup {id}]})
    BY <1>3 DEF AddPush
  <2>2. l.ids \cup {id} \in SUBSET Ids
    BY DEF TypeOK, LeafType
  <2>3. leaves' = Replace(l, {[Touched(l) EXCEPT !.ids = l.ids \cup {id}]})
    BY <2>1 DEF Touched
  <2>4. leaves' \in SUBSET LeafType /\ LeafShape'
    BY <2>2, <2>3, SameShape
  <2>5. rec' \in [Known' -> Nodes(Addrs, Instants)] /\ Known' \subseteq Ids
    BY <1>3, NewNodeTyped DEF AddPush, TypeOK, Known
  <2>6. size' \in 0 .. MaxLen
    BY <1>3, InsertBounded DEF AddPush, TypeOK
  <2>7. tree_size' \in 0 .. MaxSize
    BY <1>3 DEF AddPush, HasRoom, TypeOK
  <2> QED
    BY <1>3, <2>4, <2>5, <2>6, <2>7 DEF AddPush, TypeOK, PendingBounded
<1>4. ASSUME NEW id \in InputIds, NEW addr \in Addrs, Split(id, addr)
      PROVE  TypeOK' /\ LeafShape' /\ PendingBounded'
  <2>1. PICK l \in leaves :
          /\ MustSplit(l, id)
          /\ leaves' = Replace(l, {LeftHalf(l), RightHalf(l)})
    BY <1>4 DEF Split
  <2>2. /\ LeftHalf(l) \in LeafType /\ RightHalf(l) \in LeafType
        /\ LeftHalf(l).end = LeftHalf(l).start + Pow[LeftHalf(l).bits] - 1
        /\ RightHalf(l).end = RightHalf(l).start + Pow[RightHalf(l).bits] - 1
    BY <2>1, Halves DEF LeftHalf, RightHalf, TypeOK, LeafType
  <2>3. leaves' \in SUBSET LeafType /\ LeafShape'
    BY <2>1, <2>2 DEF Replace, TypeOK, LeafShape
  <2>4. size < MaxLen
    BY <1>4, InsertBounded DEF Split
  <2> QED
    BY <1>4, <2>3, <2>4 DEF Split, TypeOK, PendingBounded, Known
<1>5. ASSUME NEW id \in MarkIds, MarkRequest(id) \/ MarkQuery(id) \/ MarkFailure(id)
      PROVE  TypeOK' /\ LeafShape' /\ PendingBounded'
  <2>1. rec' \in [Known' -> Nodes(Addrs, Instants)] /\ Known' = Known
    BY <1>5, EntriesTyped
       DEF MarkRequest, MarkQuery, MarkFailure, Mark, TypeOK, Known
  <2> QED
    BY <1>5, <2>1 DEF MarkRequest, MarkQuery, MarkFailure, Mark, TypeOK,
       LeafShape, PendingBounded
<1>6. ASSUME NEW id \in MarkIds, MarkAnswer(id)
      PROVE  TypeOK' /\ LeafShape' /\ PendingBounded'
  <2>1. rec' \in [Known' -> Nodes(Addrs, Instants)] /\ Known' = Known
    BY <1>6, EntriesTyped DEF MarkAnswer, Mark, TypeOK, Known
  <2>2. PICK l \in leaves : leaves' = Replace(l, {Touched(l)})
    BY <1>6 DEF MarkAnswer
  <2>3. Touched(l) \in LeafType /\ Touched(l).bits = l.bits
        /\ Touched(l).start = l.start /\ Touched(l).end = l.end
    BY DEF Touched, TypeOK, LeafType
  <2>4. leaves' \in SUBSET LeafType /\ LeafShape'
    BY <2>2, <2>3 DEF Replace, TypeOK, LeafShape
  <2> QED
    BY <1>6, <2>1, <2>4 DEF MarkAnswer, Mark, TypeOK, PendingBounded
<1>7. CASE Reload
  <2>1. rec' \in [Known' -> Nodes(Addrs, Instants)] /\ Known' = Known
    <3>1. \A id \in Known : rec[id].addr \in Addrs
      BY DEF TypeOK, Nodes
    <3> QED
      BY <1>7, <3>1, NewNodeTyped DEF Reload, Known
  <2>2. \A l \in leaves : /\ Touched(l) \in LeafType
                          /\ Touched(l).bits = l.bits
                          /\ Touched(l).start = l.start
                          /\ Touched(l).end = l.end
    BY DEF Touched, TypeOK, LeafType
  <2>3. leaves' \in SUBSET LeafType /\ LeafShape'
    BY <1>7, <2>2 DEF Reload, TypeOK, LeafShape
  <2> QED
    BY <1>7, <2>1, <2>3 DEF Reload, TypeOK, PendingBounded
<1>8. CASE Tick
  <2>1. clock' \in Instants
    BY <1>8 DEF Tick, TypeOK, Instants
  <2> QED
    BY <1>8, <2>1 DEF Tick, TypeOK, LeafShape, PendingBounded, Known
<1>9. CASE UNCHANGED vars
  BY <1>9 DEF vars, TypeOK, LeafShape, PendingBounded, Known
<1> QED
  BY <1>1, <1>2, <1>3, <1>4, <1>5, <1>6, <1>7, <1>8, <1>9
     DEF Next, AddNode, MarkAny
-----------------------------------------------------------------------------
\* A leaf whose nodes change while its range stays: if the known ids change
\* with it, every one of them is still filed once.
LEMMA Refiled ==
    ASSUME TypeOK, LeavesPartitionIds, KnownOnce, NEW l \in leaves, NEW new,
           new.start = l.start, new.end = l.end, leaves' = Replace(l, {new}),
           \A id \in new.ids : Covers(l, id),
           Known' = (Known \ l.ids) \cup new.ids
    PROVE  KnownOnce'
<1>1. \A m \in leaves' : \A id \in m.ids : Covers(m, id)
  BY DEF Replace, KnownOnce, Covers
<1>2. Known' \subseteq UNION {m.ids : m \in leaves'}
  BY DEF Replace, KnownOnce
<1>3. ASSUME NEW m \in leaves', NEW id \in m.ids
      PROVE  id \in Known'
  <2>1. CASE m = new
    BY <2>1
  <2>2. CASE m \in leaves /\ m # l
    BY <2>2, FiledOnce DEF KnownOnce
  <2> QED
    BY <2>1, <2>2 DEF Replace
<1>4. UNION {m.ids : m \in leaves'} \subseteq Known'
  BY <1>3
<1> QED
  BY <1>1, <1>2, <1>4 DEF KnownOnce, Covers

\* A new id is added to its leaf and to the known ids.
LEMMA PushSizes ==
    ASSUME TypeOK, LeavesPartitionIds, KnownOnce, NEW l \in leaves,
           NEW id \in Ids, Covers(l, id), id \notin l.ids
    PROVE  /\ id \notin Known
           /\ Cardinality(Known \cup {id}) = Cardinality(Known) + 1
           /\ Cardinality(l.ids \cup {id}) = Cardinality(l.ids) + 1
           /\ Cardinality(Known) \in Nat /\ Cardinality(l.ids) \in Nat
<1>1. id \notin Known
  BY DEF KnownOnce, LeavesPartitionIds
<1>2. l.ids \in SUBSET Ids /\ Known \in SUBSET Ids
  BY DEF TypeOK, LeafType
<1> QED
  BY <1>1, <1>2, IdsFinite, FS_AddElement

\* A Bad node makes place for a new id, in its leaf and in the known ids.
LEMMA SwapSizes ==
    ASSUME TypeOK, LeavesPartitionIds, KnownOnce, NEW l \in leaves,
           NEW id \in Ids, Covers(l, id), id \notin l.ids, NEW bad \in l.ids
    PROVE  /\ Cardinality((Known \ {bad}) \cup {id}) = Cardinality(Known)
           /\ Cardinality((l.ids \ {bad}) \cup {id}) = Cardinality(l.ids)
<1>1. id \notin Known
  BY DEF KnownOnce, LeavesPartitionIds
<1>2. l.ids \in SUBSET Ids /\ Known \in SUBSET Ids /\ bad \in Known
  BY DEF TypeOK, LeafType, KnownOnce
<1>3. ASSUME NEW S \in SUBSET Ids, bad \in S, id \notin S
      PROVE  Cardinality((S \ {bad}) \cup {id}) = Cardinality(S)
  <2>1. IsFiniteSet(S) /\ Cardinality(S) \in Nat
    BY IdsFinite
  <2>2. IsFiniteSet(S \ {bad}) /\ Cardinality(S \ {bad}) = Cardinality(S) - 1
    BY <1>3, <2>1, FS_RemoveElement
  <2>3. Cardinality((S \ {bad}) \cup {id}) = Cardinality(S \ {bad}) + 1
    BY <1>3, <2>2, FS_AddElement
  <2> QED
    BY <2>1, <2>2, <2>3
<1> QED
  BY <1>1, <1>2, <1>3

\* Halving a leaf that holds our id: one half holds it, both are smaller than
\* any other leaf.
LEMMA SplitDistance ==
    ASSUME TypeOK, LeafShape, LeavesPartitionIds, KnownOnce, OneLeafPerDistance,
           NEW l \in leaves, NEW id \in InputIds, MustSplit(l, id),
           leaves' = Replace(l, {LeftHalf(l), RightHalf(l)})
    PROVE  OneLeafPerDistance'
<1> DEFINE L == LeftHalf(l)
           R == RightHalf(l)
<1>1. /\ L.bits = l.bits - 1 /\ R.bits = l.bits - 1 /\ l.bits \in Int
      /\ \A m \in leaves : m.bits \in Int
  BY DEF LeftHalf, RightHalf, TypeOK, LeafType
<1>2. Covers(L, SelfId) <=> ~Covers(R, SelfId)
  <2>1. SelfId \in Int /\ RightStart(l) \in Int
    BY Halves, IdsAreIntegers, TableAssumption
  <2> QED
    BY <2>1, HalvesCover, TableAssumption DEF MustSplit
<1>3. \A m \in leaves : l.bits <= m.bits
  BY DEF OneLeafPerDistance, MustSplit
<1>4. ASSUME NEW p \in leaves', Covers(p, SelfId), NEW m \in leaves'
      PROVE  p.bits <= m.bits
  <2>1. \A q \in leaves : Covers(q, SelfId) => q = l
    BY TableAssumption DEF LeavesPartitionIds, MustSplit
  <2>2. p \in {L, R}
    BY <1>4, <2>1 DEF Replace
  <2> QED
    BY <1>1, <1>3, <2>2 DEF Replace
<1>5. ASSUME NEW p \in leaves', ~Covers(p, SelfId), NEW m \in leaves' \ {p},
             m.bits = p.bits
      PROVE  Covers(m, SelfId)
  <2>1. CASE p \in {L, R}
    <3>1. m \in {L, R}
      BY <1>1, <1>3, <1>5, <2>1 DEF Replace
    <3> QED
      BY <1>2, <1>5, <2>1, <3>1
  <2>2. CASE p \in leaves \ {l}
    <3>1. m \in leaves \ {l}
      BY <1>1, <1>3, <1>5, <2>2 DEF Replace
    <3> QED
      BY <1>5, <2>2, <3>1 DEF OneLeafPerDistance
  <2> QED
    BY <2>1, <2>2 DEF Replace
<1> QED
  BY <1>4, <1>5 DEF OneLeafPerDistance, Covers
-----------------------------------------------------------------------------
(***************************************************************************)
(* The step of the structural part of the invariant.                       *)
(***************************************************************************)
Structure ==
    LeavesPartitionIds /\ KnownOnce /\ CapacityHolds /\ OneLeafPerDistance

\* The number of a leaf's nodes is at most K wherever it was, when one leaf
\* is replaced by leaves that hold at most K.
LEMMA ReplaceCapacity ==
    ASSUME CapacityHolds, NEW l \in leaves, NEW new,
           leaves' = Replace(l, new),
           \A n \in new : Cardinality(n.ids) <= K,
           tree_size' = Cardinality(Known'), tree_size' <= MaxSize
    PROVE  CapacityHolds'
BY DEF CapacityHolds, Replace

\* Replacing a Bad node keeps the structure.
LEMMA ReplaceBadStep ==
    ASSUME TypeOK, Structure, NEW id \in InputIds, NEW addr \in Addrs,
           AddReplaceBad(id, addr)
    PROVE  Structure'
<1>a. PICK l \in leaves :
        /\ Covers(l, id) /\ id \notin l.ids
        /\ \E bad \in BadIn(l) :
             /\ leaves' = Replace(l, {[Touched(l) EXCEPT !.ids =
                                          (@ \ {bad}) \cup {id}]})
             /\ rec' = [n \in (Known \ {bad}) \cup {id} |->
                          IF n = id THEN NewNode(addr) ELSE rec[n]]
  BY DEF AddReplaceBad
<1>b. PICK bad \in l.ids :
        /\ leaves' = Replace(l, {[Touched(l) EXCEPT !.ids =
                                     (@ \ {bad}) \cup {id}]})
        /\ rec' = [n \in (Known \ {bad}) \cup {id} |->
                     IF n = id THEN NewNode(addr) ELSE rec[n]]
  BY <1>a DEF BadIn
<1> DEFINE new == [Touched(l) EXCEPT !.ids = (@ \ {bad}) \cup {id}]
<1>1. /\ new.bits = l.bits /\ new.start = l.start /\ new.end = l.end
      /\ new.ids = (l.ids \ {bad}) \cup {id}
  BY DEF Touched, TypeOK, LeafType
<1>2. leaves' = Replace(l, {new})
  BY <1>b
<1>3. Known' = (Known \ {bad}) \cup {id}
  BY <1>b DEF Known
<1>4. l.ids \subseteq Known /\ id \in Ids
  BY TableAssumption DEF Structure, KnownOnce
<1> HIDE DEF new
<1>5. LeavesPartitionIds'
  BY <1>1, <1>2, SameRange DEF Structure
<1>6. OneLeafPerDistance'
  BY <1>1, <1>2, SameDistance DEF Structure
<1>7. KnownOnce'
  <2>1. Known' = (Known \ l.ids) \cup new.ids
    BY <1>1, <1>3, <1>4
  <2>2. \A n \in new.ids : Covers(l, n)
    BY <1>a, <1>1 DEF Structure, KnownOnce
  <2> QED
    BY <1>1, <1>2, <2>1, <2>2, Refiled DEF Structure
<1>8. CapacityHolds'
  <2>1. /\ Cardinality(Known') = Cardinality(Known)
        /\ Cardinality(new.ids) = Cardinality(l.ids)
    BY <1>a, <1>1, <1>3, <1>4, SwapSizes DEF Structure
  <2>2. tree_size' = tree_size
    BY DEF AddReplaceBad
  <2> QED
    BY <1>2, <2>1, <2>2, ReplaceCapacity DEF Structure, CapacityHolds
<1> QED
  BY <1>5, <1>6, <1>7, <1>8 DEF Structure

\* Pushing a node into a leaf with room keeps the structure.
LEMMA PushStep ==
    ASSUME TypeOK, Structure, NEW id \in InputIds, NEW addr \in Addrs,
           AddPush(id, addr)
    PROVE  Structure'
<1>a. PICK l \in leaves :
        /\ Covers(l, id) /\ NewAndNoneBad(l, id) /\ ~Full(l)
        /\ leaves' = Replace(l, {[Touched(l) EXCEPT !.ids = @ \cup {id}]})
  BY DEF AddPush
<1> DEFINE new == [Touched(l) EXCEPT !.ids = @ \cup {id}]
<1>1. /\ new.bits = l.bits /\ new.start = l.start /\ new.end = l.end
      /\ new.ids = l.ids \cup {id}
  BY DEF Touched, TypeOK, LeafType
<1>2. leaves' = Replace(l, {new})
  BY <1>a
<1>3. Known' = Known \cup {id}
  BY DEF AddPush, Known
<1>4. l.ids \subseteq Known /\ id \in Ids /\ id \notin l.ids
  BY <1>a, TableAssumption DEF Structure, KnownOnce, NewAndNoneBad
<1> HIDE DEF new
<1>5. LeavesPartitionIds'
  BY <1>1, <1>2, SameRange DEF Structure
<1>6. OneLeafPerDistance'
  BY <1>1, <1>2, SameDistance DEF Structure
<1>7. KnownOnce'
  <2>1. Known' = (Known \ l.ids) \cup new.ids
    BY <1>1, <1>3, <1>4
  <2>2. \A n \in new.ids : Covers(l, n)
    BY <1>a, <1>1 DEF Structure, KnownOnce
  <2> QED
    BY <1>1, <1>2, <2>1, <2>2, Refiled DEF Structure
<1>8. CapacityHolds'
  <2>1. /\ Cardinality(Known') = Cardinality(Known) + 1
        /\ Cardinality(new.ids) = Cardinality(l.ids) + 1
        /\ Cardinality(Known) \in Nat /\ Cardinality(l.ids) \in Nat
    BY <1>a, <1>1, <1>3, <1>4, PushSizes DEF Structure
  <2>2. tree_size' = tree_size + 1 /\ tree_size # MaxSize
    BY DEF AddPush, HasRoom
  <2>3. tree_size = Cardinality(Known) /\ tree_size <= MaxSize
    BY DEF Structure, CapacityHolds
  <2>4. tree_size' = Cardinality(Known') /\ tree_size' <= MaxSize
    BY <2>1, <2>2, <2>3, TableAssumption
  <2>5. Cardinality(new.ids) <= K
    BY <1>a, <2>1, TableAssumption DEF Full
  <2> QED
    BY <1>2, <2>4, <2>5, ReplaceCapacity DEF Structure
<1> QED
  BY <1>5, <1>6, <1>7, <1>8 DEF Structure
\* Splitting the leaf of our own id keeps the structure.
LEMMA SplitStep ==
    ASSUME TypeOK, LeafShape, Structure, NEW id \in InputIds,
           NEW addr \in Addrs, Split(id, addr)
    PROVE  Structure'
<1>1. PICK l \in leaves :
        /\ MustSplit(l, id)
        /\ leaves' = Replace(l, {LeftHalf(l), RightHalf(l)})
  BY DEF Split
<1> DEFINE L == LeftHalf(l)
           R == RightHalf(l)
<1>2. /\ L.ids = {n \in l.ids : n < RightStart(l)}
      /\ R.ids = {n \in l.ids : n >= RightStart(l)}
  BY DEF LeftHalf, RightHalf
<1>3. /\ l.ids \in SUBSET Ids /\ Ids \subseteq Int /\ RightStart(l) \in Int
      /\ \A n \in Ids : n < RightStart(l) \/ n >= RightStart(l)
      /\ \A n \in Ids : ~(n < RightStart(l) /\ n >= RightStart(l))
  <2>1. l.ids \in SUBSET Ids /\ KnownOnce
    BY DEF Structure, TypeOK, LeafType
  <2>2. RightStart(l) \in Ids
    BY <1>1, <2>1, Halves
  <2>3. RightStart(l) \in Int /\ \A n \in Ids : n \in Int
    BY <2>2, IdsAreIntegers
  <2>4. \A n, r \in Int : (n < r \/ n >= r) /\ ~(n < r /\ n >= r)
    OBVIOUS
  <2> QED
    BY <2>1, <2>3, <2>4
<1>4. \A n \in Ids : /\ Covers(L, n) <=> Covers(l, n) /\ n < RightStart(l)
                     /\ Covers(R, n) <=> Covers(l, n) /\ n >= RightStart(l)
  BY <1>1, HalvesCover DEF Structure
<1>5. Known' = Known
  BY DEF Split, Known
<1> HIDE DEF L, R
<1>6. LeavesPartitionIds'
  <2>1. leaves' = Replace(l, {L, R})
    BY <1>1 DEF L, R
  <2>2. \A n \in {L, R}, x \in Ids : Covers(n, x) => Covers(l, x)
    BY <1>4
  <2>3. \A x \in Ids : Covers(l, x) =>
          \E n \in {L, R} : /\ Covers(n, x)
                            /\ \A m \in {L, R} : Covers(m, x) => m = n
    BY <1>3, <1>4
  <2> QED
    BY <2>1, <2>2, <2>3, ReplaceKeepsPartition DEF Structure
<1>7. OneLeafPerDistance'
  BY <1>1, SplitDistance DEF Structure
<1>8. KnownOnce'
  <2>1. leaves' = (leaves \ {l}) \cup {L, R}
    BY <1>1 DEF L, R, Replace
  <2>2. L.ids \cup R.ids = l.ids
    BY <1>2, <1>3
  <2>3. UNION {m.ids : m \in leaves'} = UNION {m.ids : m \in leaves}
    BY <2>1, <2>2
  <2>4. \A m \in leaves' : \A n \in m.ids : Covers(m, n)
    BY <1>2, <1>3, <1>4, <2>1 DEF Structure, KnownOnce
  <2> QED
    BY <1>5, <2>3, <2>4 DEF Structure, KnownOnce, Covers
<1>9. CapacityHolds'
  <2>1. /\ IsFiniteSet(l.ids)
        /\ L.ids \in SUBSET l.ids /\ R.ids \in SUBSET l.ids
    BY <1>2, <1>3, IdsFinite
  <2>2. /\ Cardinality(L.ids) <= Cardinality(l.ids)
        /\ Cardinality(R.ids) <= Cardinality(l.ids)
        /\ Cardinality(L.ids) \in Nat /\ Cardinality(R.ids) \in Nat
        /\ Cardinality(l.ids) \in Nat
    BY <2>1, FS_Subset, FS_CardinalityType
  <2>3. \A n \in {L, R} : Cardinality(n.ids) <= K
    BY <2>2, TableAssumption DEF Structure, CapacityHolds
  <2>4. tree_size' = tree_size
    BY DEF Split
  <2> QED
    BY <1>1, <1>5, <2>3, <2>4, ReplaceCapacity
       DEF Structure, CapacityHolds, L, R
<1> QED
  BY <1>6, <1>7, <1>8, <1>9 DEF Structure

\* Marking an answer refreshes a leaf and changes nothing of its shape.
LEMMA AnswerStep ==
    ASSUME TypeOK, Structure, NEW id \in MarkIds, MarkAnswer(id)
    PROVE  Structure'
<1>1. PICK l \in leaves : leaves' = Replace(l, {Touched(l)})
  BY DEF MarkAnswer
<1> DEFINE new == Touched(l)
<1>2. /\ new.bits = l.bits /\ new.start = l.start /\ new.end = l.end
      /\ new.ids = l.ids
  BY DEF Touched, TypeOK, LeafType
<1>3. Known' = Known /\ tree_size' = tree_size
  BY DEF MarkAnswer, Mark, Known, TypeOK
<1>4. l.ids \subseteq Known
  BY DEF Structure, KnownOnce
<1> HIDE DEF new
<1>5. leaves' = Replace(l, {new})
  BY <1>1 DEF new
<1>6. LeavesPartitionIds'
  BY <1>2, <1>5, SameRange DEF Structure
<1>7. OneLeafPerDistance'
  BY <1>2, <1>5, SameDistance DEF Structure
<1>8. KnownOnce'
  <2>1. Known' = (Known \ l.ids) \cup new.ids
    BY <1>2, <1>3, <1>4
  <2>2. \A n \in new.ids : Covers(l, n)
    BY <1>2 DEF Structure, KnownOnce
  <2> QED
    BY <1>2, <1>5, <2>1, <2>2, Refiled DEF Structure
<1>9. CapacityHolds'
  BY <1>2, <1>3, <1>5, ReplaceCapacity DEF Structure, CapacityHolds
<1> QED
  BY <1>6, <1>7, <1>8, <1>9 DEF Structure

\* Reading the table back refreshes every leaf.
LEMMA ReloadStep ==
    ASSUME TypeOK, Structure, Reload
    PROVE  Structure'
<1>1. leaves' = {Touched(l) : l \in leaves}
  BY DEF Reload
<1>2. \A l \in leaves : /\ Touched(l).bits = l.bits
                        /\ Touched(l).start = l.start
                        /\ Touched(l).end = l.end
                        /\ Touched(l).ids = l.ids
  BY DEF Touched, TypeOK, LeafType
<1>3. \A l \in leaves, n \in Ids : Covers(Touched(l), n) <=> Covers(l, n)
  BY <1>2 DEF Covers
<1>4. Known' = Known /\ tree_size' = tree_size
  BY DEF Reload, Known
<1>5. LeavesPartitionIds'
  <2> SUFFICES ASSUME NEW id \in Ids
               PROVE  \E p \in leaves' :
                        /\ Covers(p, id)
                        /\ \A m \in leaves' : Covers(m, id) => m = p
    BY DEF LeavesPartitionIds, Covers
  <2>1. PICK l \in leaves : /\ Covers(l, id)
                            /\ \A m \in leaves : Covers(m, id) => m = l
    BY DEF Structure, LeavesPartitionIds
  <2>2. Touched(l) \in leaves' /\ Covers(Touched(l), id)
    BY <1>1, <1>3, <2>1
  <2>3. ASSUME NEW m \in leaves', Covers(m, id)
        PROVE  m = Touched(l)
    <3>1. PICK q \in leaves : m = Touched(q)
      BY <1>1
    <3>2. Covers(q, id)
      BY <1>3, <2>3, <3>1
    <3> QED
      BY <2>1, <3>1, <3>2
  <2> QED
    BY <2>2, <2>3
<1>6. OneLeafPerDistance'
  <2>1. SelfId \in Ids
    BY TableAssumption
  <2> QED
    BY <1>1, <1>2, <1>3, <2>1 DEF Structure, OneLeafPerDistance, Covers
<1>7. KnownOnce'
  <2>1. UNION {m.ids : m \in leaves'} = UNION {m.ids : m \in leaves}
    BY <1>1, <1>2
  <2>2. \A m \in leaves' : \A n \in m.ids : Covers(m, n)
    BY <1>1, <1>2 DEF Structure, KnownOnce, Covers
  <2> QED
    BY <1>4, <2>1, <2>2 DEF Structure, KnownOnce, Covers
<1>8. CapacityHolds'
  BY <1>1, <1>2, <1>4 DEF Structure, CapacityHolds
<1> QED
  BY <1>5, <1>6, <1>7, <1>8 DEF Structure

\* Nothing else touches the leaves or the set of known ids.
LEMMA StructureStep == IInv /\ [Next]_vars => Structure'
<1> SUFFICES ASSUME IInv, [Next]_vars
             PROVE  Structure'
  OBVIOUS
<1>a. TypeOK /\ LeafShape /\ Structure
  BY DEF IInv, Structure
<1>b. ASSUME UNCHANGED <<leaves, tree_size>>, Known' = Known
      PROVE  Structure'
  BY <1>a, <1>b DEF Structure, LeavesPartitionIds, KnownOnce, CapacityHolds,
     OneLeafPerDistance, Covers
<1>1. ASSUME NEW id \in InputIds, NEW addr \in Addrs,
             \/ AddExisting(id, addr)
             \/ AddIgnoredFull(id, addr)
             \/ AddIgnoredFar(id, addr)
      PROVE  Structure'
  BY <1>b, <1>1 DEF AddExisting, AddIgnoredFull, AddIgnoredFar, Known
<1>2. ASSUME NEW id \in InputIds, NEW addr \in Addrs, AddReplaceBad(id, addr)
      PROVE  Structure'
  BY <1>a, <1>2, ReplaceBadStep
<1>3. ASSUME NEW id \in InputIds, NEW addr \in Addrs, AddPush(id, addr)
      PROVE  Structure'
  BY <1>a, <1>3, PushStep
<1>4. ASSUME NEW id \in InputIds, NEW addr \in Addrs, Split(id, addr)
      PROVE  Structure'
  BY <1>a, <1>4, SplitStep
<1>5. ASSUME NEW id \in MarkIds,
             MarkRequest(id) \/ MarkQuery(id) \/ MarkFailure(id)
      PROVE  Structure'
  BY <1>a, <1>b, <1>5 DEF MarkRequest, MarkQuery, MarkFailure, Mark, Known,
     TypeOK
<1>6. ASSUME NEW id \in MarkIds, MarkAnswer(id)
      PROVE  Structure'
  BY <1>a, <1>6, AnswerStep
<1>7. CASE Reload
  BY <1>a, <1>7, ReloadStep
<1>8. CASE Tick
  BY <1>b, <1>8 DEF Tick, Known
<1>9. CASE UNCHANGED vars
  BY <1>b, <1>9 DEF vars, Known
<1> QED
  BY <1>1, <1>2, <1>3, <1>4, <1>5, <1>6, <1>7, <1>8, <1>9
     DEF Next, AddNode, MarkAny

-----------------------------------------------------------------------------
\* The inductive invariant holds of the empty table.
LEMMA InitIInv == Init => IInv
<1> SUFFICES ASSUME Init
             PROVE  IInv
  OBVIOUS
<1>1. /\ Bits \in 0 .. Bits /\ Pow[Bits] \in Nat \ {0}
      /\ 0 \in Ids /\ Pow[Bits] - 1 \in Ids /\ 0 \in Instants
  BY BitsAssumption, TableAssumption DEF Ids, Instants
<1>2. Known = {} /\ leaves = {RootLeaf}
  BY DEF Init, Known
<1>3. RootLeaf \in LeafType /\ RootLeaf.end = RootLeaf.start + Pow[RootLeaf.bits] - 1
  BY <1>1 DEF RootLeaf, LeafType
<1>4. \A id \in Ids : Covers(RootLeaf, id)
  BY <1>1 DEF Covers, RootLeaf, Ids
<1>5. TypeOK /\ LeafShape /\ PendingBounded
  BY <1>1, <1>2, <1>3, TableAssumption
     DEF Init, TypeOK, LeafShape, PendingBounded
<1>6. LeavesPartitionIds /\ OneLeafPerDistance
  BY <1>1, <1>2, <1>3, <1>4 DEF LeavesPartitionIds, OneLeafPerDistance, LeafType
<1>7. RootLeaf.ids = {}
  BY DEF RootLeaf
<1>8. KnownOnce
  BY <1>2, <1>7 DEF KnownOnce
<1>9. CapacityHolds
  <2>1. Cardinality({}) = 0
    BY FS_EmptySet
  <2>2. tree_size = 0 /\ K >= 0 /\ 0 <= MaxSize
    BY TableAssumption DEF Init
  <2> QED
    BY <1>2, <1>7, <2>1, <2>2 DEF CapacityHolds
<1> QED
  BY <1>5, <1>6, <1>8, <1>9 DEF IInv

\* Every step keeps the inductive invariant.
LEMMA NextIInv == IInv /\ [Next]_vars => IInv'
BY TypeStep, StructureStep DEF IInv, Structure

\* The inductive invariant, types and structure of the tree, holds in every
\* state of add_node, the marks and a restart.
THEOREM Invariance == Spec => []IInv
<1> QED
  BY InitIInv, NextIInv, PTL DEF Spec

\* The type invariant, for ids of any width and any bounds.
THEOREM TypeCorrect == Spec => []TypeOK
<1>1. IInv => TypeOK
  BY DEF IInv
<1> QED
  BY <1>1, Invariance, PTL

\* get_leaf finds exactly one leaf for every id, and every known node is in
\* the leaf of its id.
THEOREM EveryIdHasItsLeaf == Spec => []FiledWhereLookedFor
<1>1. IInv => FiledWhereLookedFor
  BY DEF IInv, FiledWhereLookedFor
<1> QED
  BY <1>1, Invariance, PTL

\* No leaf outgrows its capacity, the tree's count is exact and never exceeds
\* max_size.
THEOREM CapacityKept == Spec => []CapacityHolds
<1>1. IInv => CapacityHolds
  BY DEF IInv
<1> QED
  BY <1>1, Invariance, PTL

\* The debug assertions of compute_split_start_end never fail.
THEOREM SplitsAreSound == Spec => []SplitIsSound
<1>1. IInv => SplitIsSound
  <2> SUFFICES ASSUME IInv, NEW id \in InputIds, NEW l \in leaves,
                      MustSplit(l, id)
               PROVE  /\ l.bits > 0
                      /\ l.start < LeftEnd(l)
                      /\ LeftEnd(l) < RightStart(l)
                      /\ RightStart(l) < l.end
    BY DEF SplitIsSound
  <2>1. /\ l.bits - 1 \in 0 .. Bits
        /\ LeftEnd(l) + 1 = RightStart(l)
        /\ l.start < LeftEnd(l) /\ RightStart(l) < l.end
        /\ LeftEnd(l) \in Int
    BY Halves, IdsAreIntegers DEF IInv
  <2>2. l.bits \in Int
    BY DEF IInv, TypeOK, LeafType
  <2> QED
    BY <2>1, <2>2, BitsAssumption
<1> QED
  BY <1>1, Invariance, PTL

\* Leaves are split around our own id only: one leaf per distance from it.
THEOREM TreeGrowsTowardsUs == Spec => []OneLeafPerDistance
<1>1. IInv => OneLeafPerDistance
  BY DEF IInv
<1> QED
  BY <1>1, Invariance, PTL
-----------------------------------------------------------------------------
\* The marks keep the address.
LEMMA MarksKeepAddr ==
    ASSUME NEW n \in Nodes(Addrs, Instants), NEW now \in Instants
    PROVE  /\ MarkOutgoingRequest(n, now).addr = n.addr
           /\ MarkLastQuery(n, now).addr = n.addr
           /\ MarkResponse(n, now).addr = n.addr
           /\ MarkError(n).addr = n.addr
BY DEF Nodes, MarkOutgoingRequest, MarkLastQuery, MarkResponse, MarkError

\* What a step may do to the entry of a known id.
KeepsOrEvictsBad ==
    \A id \in Known :
        IF id \in DOMAIN rec'
        THEN rec'[id].addr = rec[id].addr
        ELSE Status(rec[id], clock) = "Bad"

\* A step drops Bad nodes only and keeps the addresses of the others.
LEMMA EvictionStep == IInv /\ [Next]_vars => [KeepsOrEvictsBad]_vars
<1> SUFFICES ASSUME IInv, Next
             PROVE  KeepsOrEvictsBad
  BY DEF vars
<1>a. TypeOK /\ KnownOnce /\ LeavesPartitionIds
  BY DEF IInv
<1>b. ASSUME rec' = rec
      PROVE  KeepsOrEvictsBad
  BY <1>b DEF KeepsOrEvictsBad, Known
<1>1. ASSUME NEW id \in InputIds, NEW addr \in Addrs,
             \/ AddExisting(id, addr)
             \/ AddIgnoredFull(id, addr)
             \/ AddIgnoredFar(id, addr)
             \/ Split(id, addr)
      PROVE  KeepsOrEvictsBad
  BY <1>b, <1>1 DEF AddExisting, AddIgnoredFull, AddIgnoredFar, Split
<1>2. ASSUME NEW id \in InputIds, NEW addr \in Addrs, AddReplaceBad(id, addr)
      PROVE  KeepsOrEvictsBad
  <2>1. PICK l \in leaves :
          /\ Covers(l, id) /\ id \notin l.ids
          /\ \E bad \in BadIn(l) :
               rec' = [n \in (Known \ {bad}) \cup {id} |->
                         IF n = id THEN NewNode(addr) ELSE rec[n]]
    BY <1>2 DEF AddReplaceBad
  <2>2. PICK bad \in BadIn(l) :
          rec' = [n \in (Known \ {bad}) \cup {id} |->
                    IF n = id THEN NewNode(addr) ELSE rec[n]]
    BY <2>1
  <2>3. id \notin Known
    BY <1>a, <2>1, TableAssumption DEF KnownOnce, LeavesPartitionIds
  <2>4. Status(rec[bad], clock) = "Bad"
    BY <2>2 DEF BadIn, Status
  <2> QED
    BY <2>2, <2>3, <2>4 DEF KeepsOrEvictsBad
<1>3. ASSUME NEW id \in InputIds, NEW addr \in Addrs, AddPush(id, addr)
      PROVE  KeepsOrEvictsBad
  <2>1. PICK l \in leaves : Covers(l, id) /\ id \notin l.ids
    BY <1>3 DEF AddPush, NewAndNoneBad
  <2>2. id \notin Known
    BY <1>a, <2>1, TableAssumption DEF KnownOnce, LeavesPartitionIds
  <2>3. rec' = [n \in Known \cup {id} |->
                  IF n = id THEN NewNode(addr) ELSE rec[n]]
    BY <1>3 DEF AddPush
  <2> QED
    BY <2>2, <2>3 DEF KeepsOrEvictsBad
<1>4. ASSUME NEW id \in MarkIds, MarkAny(id)
      PROVE  KeepsOrEvictsBad
  <2>1. id \in Known /\ rec[id] \in Nodes(Addrs, Instants) /\ clock \in Instants
    BY <1>4, <1>a DEF MarkAny, MarkRequest, MarkQuery, MarkFailure, MarkAnswer,
       TypeOK
  <2>2. PICK entry : rec' = [rec EXCEPT ![id] = entry] /\ entry.addr = rec[id].addr
    BY <1>4, <2>1, MarksKeepAddr DEF MarkAny, MarkRequest, MarkQuery,
       MarkFailure, MarkAnswer, Mark
  <2> QED
    BY <1>a, <2>2 DEF KeepsOrEvictsBad, TypeOK, Known
<1>5. CASE Reload
  BY <1>5 DEF Reload, NewNode, KeepsOrEvictsBad, Known
<1>6. CASE Tick
  BY <1>b, <1>6 DEF Tick
<1> QED
  BY <1>1, <1>2, <1>3, <1>4, <1>5, <1>6 DEF Next, AddNode

\* Only Bad nodes are dropped, and entries keep their addresses.
THEOREM EvictionsAreOfBadNodes == Spec => EvictsOnlyBad
<1> QED
  BY Invariance, EvictionStep, PTL DEF Spec, EvictsOnlyBad, KeepsOrEvictsBad

-----------------------------------------------------------------------------
(***************************************************************************)
(* RoutingTable implements NodeTable.                                      *)
(***************************************************************************)

\* An id that is not in its leaf is not in the table.
LEMMA NewcomerUnknown ==
    ASSUME IInv, NEW id \in InputIds, NEW l \in leaves,
           Covers(l, id), id \notin l.ids
    PROVE  id \notin Known
BY TableAssumption DEF IInv, KnownOnce, LeavesPartitionIds

\* A replacement and an insertion are additions to the plain table.
LEMMA ReplaceIsAdd ==
    ASSUME IInv, NEW id \in InputIds, NEW addr \in Addrs,
           AddReplaceBad(id, addr)
    PROVE  Abstract!Add(id, addr)
<1>1. PICK l \in leaves :
        /\ Covers(l, id) /\ id \notin l.ids
        /\ \E bad \in BadIn(l) :
             rec' = [n \in (Known \ {bad}) \cup {id} |->
                       IF n = id THEN NewNode(addr) ELSE rec[n]]
  BY DEF AddReplaceBad
<1>2. PICK bad \in BadIn(l) :
        rec' = [n \in (Known \ {bad}) \cup {id} |->
                  IF n = id THEN NewNode(addr) ELSE rec[n]]
  BY <1>1
<1>3. id \notin DOMAIN rec
  BY <1>1, NewcomerUnknown DEF Known
<1>4. bad \in Abstract!BadNodes(rec)
  BY <1>2 DEF Abstract!BadNodes, Abstract!IsBad, Abstract!Requested, Abstract!Never,
     Abstract!BadAfter, IInv, KnownOnce, BadIn, IsBad, Requested, Never, BadAfter,
     Known
<1>5. rec' = Abstract!With(rec, {bad}, id, addr)
  BY <1>2 DEF Abstract!With, Abstract!NewNode, Abstract!Never, NewNode, Never,
     Known
<1> DEFINE o == [how |-> "ReplacedBad", gone |-> {bad},
                 table |-> Abstract!With(rec, {bad}, id, addr)]
<1>6. o \in Abstract!AddOutcomes(rec, id, addr)
  BY <1>3, <1>4 DEF Abstract!AddOutcomes
<1>7. clock' = clock
  BY DEF AddReplaceBad
<1> QED
  BY <1>5, <1>6, <1>7 DEF Abstract!Add

\* (The counts of the two modules are the same operator under two names.)
LEMMA PushIsAdd ==
    ASSUME IInv, NEW id \in InputIds, NEW addr \in Addrs, AddPush(id, addr)
    PROVE  Abstract!Add(id, addr)
<1>1. PICK l \in leaves : Covers(l, id) /\ id \notin l.ids
  BY DEF AddPush, NewAndNoneBad
<1>2. id \notin DOMAIN rec
  BY <1>1, NewcomerUnknown DEF Known
<1>3. Cardinality(DOMAIN rec) < MaxSize
  BY TableAssumption DEF AddPush, HasRoom, IInv, CapacityHolds, TypeOK, Known
<1>4. rec' = Abstract!With(rec, {}, id, addr)
  BY DEF AddPush, Abstract!With, Abstract!NewNode, Abstract!Never, NewNode,
     Never, Known
<1> DEFINE o == [how |-> "Added", gone |-> {},
                 table |-> Abstract!With(rec, {}, id, addr)]
<1>5. o \in Abstract!AddOutcomes(rec, id, addr)
  <2>1. Abstract!Cardinality(DOMAIN rec) = Cardinality(DOMAIN rec)
    BY DEF Abstract!Cardinality, Cardinality
  <2> QED
    BY <1>2, <1>3, <2>1 DEF Abstract!AddOutcomes
<1>6. clock' = clock
  BY DEF AddPush
<1> QED
  BY <1>4, <1>5, <1>6 DEF Abstract!Add

\* The initial table is the empty plain table.
LEMMA AbstractInit == Init => Abstract!Init
BY DEF Init, Abstract!Init, Abstract!NewNode, NewNode, Abstract!Never, Never

\* Every step of the tree is a step of the plain table, or none.
LEMMA AbstractStep ==
    IInv /\ [Next]_vars => [Abstract!Next]_Abstract!nodeVars
<1> SUFFICES ASSUME IInv, [Next]_vars
             PROVE  Abstract!Next \/ UNCHANGED <<rec, clock>>
  BY DEF Abstract!nodeVars
<1>a. InputIds \subseteq Ids /\ MarkIds \subseteq Ids
  BY TableAssumption
<1>1. ASSUME NEW id \in InputIds, NEW addr \in Addrs, AddNode(id, addr)
      PROVE  Abstract!Next \/ UNCHANGED <<rec, clock>>
  <2>1. CASE AddReplaceBad(id, addr) \/ AddPush(id, addr)
    BY <1>a, <2>1, ReplaceIsAdd, PushIsAdd DEF Abstract!Next
  <2>2. CASE ~(AddReplaceBad(id, addr) \/ AddPush(id, addr))
    BY <1>1, <2>2 DEF AddNode, AddExisting, AddIgnoredFull, AddIgnoredFar, Split
  <2> QED
    BY <2>1, <2>2
<1>2. ASSUME NEW id \in MarkIds, MarkAny(id)
      PROVE  Abstract!Mark(id)
  <2>1. id \in DOMAIN rec /\ clock' = clock
    BY <1>2 DEF MarkAny, MarkRequest, MarkQuery, MarkFailure, MarkAnswer, Mark,
       Known
  <2>2. /\ Abstract!MarkOutgoingRequest(rec[id], clock) =
            MarkOutgoingRequest(rec[id], clock)
        /\ Abstract!MarkLastQuery(rec[id], clock) = MarkLastQuery(rec[id], clock)
        /\ Abstract!MarkResponse(rec[id], clock) = MarkResponse(rec[id], clock)
        /\ Abstract!MarkError(rec[id]) = MarkError(rec[id])
    BY DEF Abstract!MarkOutgoingRequest, Abstract!MarkLastQuery,
       Abstract!MarkResponse, Abstract!MarkError, Abstract!Requested,
       Abstract!Never, Abstract!BadAfter, MarkOutgoingRequest, MarkLastQuery,
       MarkResponse, MarkError, Requested, Never, BadAfter
  <2>3. \E entry \in {MarkOutgoingRequest(rec[id], clock),
                      MarkLastQuery(rec[id], clock),
                      MarkResponse(rec[id], clock), MarkError(rec[id])} :
          rec' = [rec EXCEPT ![id] = entry]
    BY <1>2 DEF MarkAny, MarkRequest, MarkQuery, MarkFailure, MarkAnswer, Mark
  <2> QED
    BY <2>1, <2>2, <2>3 DEF Abstract!Mark
<1>3. CASE Reload
  BY <1>3 DEF Reload, Abstract!Next, Abstract!Restart, Abstract!NewNode, NewNode,
     Abstract!Never, Never, Known
<1>4. CASE Tick
  BY <1>4 DEF Tick, Abstract!Next, Abstract!Tick
<1>5. CASE UNCHANGED vars
  BY <1>5 DEF vars
<1> QED
  BY <1>a, <1>1, <1>2, <1>3, <1>4, <1>5 DEF Next, Abstract!Next

\* To its users the tree of buckets is a plain table of at most max_size
\* nodes, for ids of any width and leaves of any capacity.
THEOREM TreeImplementsTable == Spec => ImplementsNodeTable
<1> QED
  BY Invariance, AbstractInit, AbstractStep, PTL
     DEF Spec, ImplementsNodeTable, Abstract!Spec

-----------------------------------------------------------------------------
(***************************************************************************)
(* The status of nodes.                                                    *)
(***************************************************************************)

\* Whoever answered has been asked, as far as the table knows.
AnsweredWereAsked ==
    \A id \in Known : rec[id].last_response # Never => Requested(rec[id])

\* Each mark keeps it.
LEMMA MarksAsk ==
    ASSUME NEW n \in Nodes(Addrs, Instants), NEW now \in Instants,
           n.last_response # Never => Requested(n),
           NEW m \in {MarkOutgoingRequest(n, now), MarkLastQuery(n, now),
                      MarkResponse(n, now), MarkError(n)}
    PROVE  m.last_response # Never => Requested(m)
<1>1. now # Never
  BY TableAssumption DEF Instants, Never
<1> QED
  BY <1>1 DEF Nodes, Requested, MarkOutgoingRequest, MarkLastQuery,
     MarkResponse, MarkError

\* A step leaves the entries alone, marks one, adds a fresh one, or is a
\* restart.
LEMMA EntryStep ==
    ASSUME IInv, [Next]_vars, NEW id \in DOMAIN rec'
    PROVE  \/ id \in Known /\ rec'[id] = rec[id]
           \/ id \in Known /\ clock' = clock /\
              rec'[id] \in {MarkOutgoingRequest(rec[id], clock),
                           MarkLastQuery(rec[id], clock),
                           MarkResponse(rec[id], clock), MarkError(rec[id])}
           \/ id \notin Known /\ \E addr : rec'[id] = NewNode(addr)
           \/ Reload
<1> DEFINE Goal ==
             \/ id \in Known /\ rec'[id] = rec[id]
             \/ id \in Known /\ clock' = clock /\
                rec'[id] \in {MarkOutgoingRequest(rec[id], clock),
                             MarkLastQuery(rec[id], clock),
                             MarkResponse(rec[id], clock), MarkError(rec[id])}
             \/ id \notin Known /\ \E addr : rec'[id] = NewNode(addr)
             \/ Reload
<1>1. CASE rec' = rec
  BY <1>1 DEF Known
<1>2. ASSUME NEW new \in InputIds, NEW addr \in Addrs,
             AddReplaceBad(new, addr) \/ AddPush(new, addr)
      PROVE  Goal
  <2>1. PICK gone : rec' = [n \in (Known \ gone) \cup {new} |->
                              IF n = new THEN NewNode(addr) ELSE rec[n]]
    <3>1. CASE AddReplaceBad(new, addr)
      BY <3>1 DEF AddReplaceBad
    <3>2. CASE AddPush(new, addr)
      <4>1. Known \cup {new} = (Known \ {}) \cup {new}
        OBVIOUS
      <4> QED
        BY <3>2, <4>1 DEF AddPush
    <3> QED
      BY <1>2, <3>1, <3>2
  <2>2. PICK l \in leaves : Covers(l, new) /\ new \notin l.ids
    BY <1>2 DEF AddReplaceBad, AddPush, NewAndNoneBad
  <2>3. new \notin Known
    BY <2>2, NewcomerUnknown
  <2>4. CASE id = new
    BY <2>1, <2>3, <2>4
  <2>5. CASE id # new
    BY <2>1, <2>5
  <2> QED
    BY <2>4, <2>5
<1>3. ASSUME NEW marked \in MarkIds, MarkAny(marked)
      PROVE  Goal
  <2>1. /\ marked \in Known /\ clock' = clock
        /\ \E entry \in {MarkOutgoingRequest(rec[marked], clock),
                         MarkLastQuery(rec[marked], clock),
                         MarkResponse(rec[marked], clock),
                         MarkError(rec[marked])} :
              rec' = [rec EXCEPT ![marked] = entry]
    BY <1>3 DEF MarkAny, MarkRequest, MarkQuery, MarkFailure, MarkAnswer, Mark
  <2> QED
    BY <2>1 DEF Known
<1> QED
  BY <1>1, <1>2, <1>3 DEF Next, AddNode, AddExisting, AddIgnoredFull,
     AddIgnoredFar, Split, Tick, vars

LEMMA AnsweredStep ==
    IInv /\ AnsweredWereAsked /\ [Next]_vars => AnsweredWereAsked'
<1> SUFFICES ASSUME IInv, AnsweredWereAsked, [Next]_vars, NEW id \in DOMAIN rec'
             PROVE  rec'[id].last_response # Never => Requested(rec'[id])
  BY DEF AnsweredWereAsked, Known, Requested
<1>1. CASE id \in Known /\ rec'[id] = rec[id]
  BY <1>1 DEF AnsweredWereAsked
<1>2. CASE id \in Known /\ rec'[id] \in {MarkOutgoingRequest(rec[id], clock),
                        MarkLastQuery(rec[id], clock),
                        MarkResponse(rec[id], clock), MarkError(rec[id])}
  <2>1. rec[id] \in Nodes(Addrs, Instants) /\ clock \in Instants
    BY <1>2 DEF IInv, TypeOK
  <2>2. rec[id].last_response # Never => Requested(rec[id])
    BY <1>2 DEF AnsweredWereAsked
  <2> QED
    BY <1>2, <2>1, <2>2, MarksAsk
<1>3. CASE \E addr : rec'[id] = NewNode(addr)
  BY <1>3 DEF NewNode
<1>4. CASE Reload
  BY <1>4 DEF Reload, NewNode
<1> QED
  BY <1>1, <1>2, <1>3, <1>4, EntryStep

\* A node of which anything was heard, or that was asked, in the last 15
\* minutes is not Questionable.
THEOREM SilentIfQuestionable == Spec => []QuestionableMeansSilent
<1>1. Init => AnsweredWereAsked
  BY DEF Init, AnsweredWereAsked, Known
<1>2. IInv /\ AnsweredWereAsked => QuestionableMeansSilent
  <2> SUFFICES ASSUME IInv, AnsweredWereAsked, NEW id \in Known,
                      IsQuestionable(rec[id], clock)
               PROVE  /\ ~Within(rec[id].last_request, clock)
                      /\ ~Within(rec[id].last_response, clock)
                      /\ ~Within(rec[id].last_query, clock)
    BY DEF QuestionableMeansSilent, Status
  <2>1. /\ rec[id].last_request \in Instants \cup {Never}
        /\ rec[id].last_response \in Instants \cup {Never}
        /\ rec[id].last_query \in Instants \cup {Never}
        /\ clock \in Int /\ Instants \subseteq Int /\ Inactivity \in Int
    BY InactivityAssumption, TableAssumption DEF IInv, TypeOK, Nodes, Instants
  <2>2. \A t \in Instants \cup {Never} : ~(Within(t, clock) /\ Beyond(t, clock))
    BY <2>1 DEF Within, Beyond, Never
  <2>3. /\ ~IsBad(rec[id]) /\ ~IsGood(rec[id], clock)
        /\ RequestIsOld(rec[id], clock)
        /\ \/ Beyond(rec[id].last_query, clock)
           \/ Beyond(rec[id].last_response, clock)
    BY DEF IsQuestionable
  <2>4. ~Within(rec[id].last_request, clock)
    BY <2>1, <2>2, <2>3 DEF RequestIsOld, Requested, Within
  <2>5. ~Within(rec[id].last_response, clock)
    BY <2>3 DEF IsGood, AnsweredWereAsked, Within
  <2>6. ~Within(rec[id].last_query, clock)
    BY <2>1, <2>2, <2>3 DEF IsGood, AnsweredWereAsked, Within, Beyond
  <2> QED
    BY <2>4, <2>5, <2>6
<1> QED
  BY <1>1, <1>2, AnsweredStep, Invariance, PTL DEF Spec

\* A mark takes the badness from a node only if it books an answer.
LEMMA OnlyAnswersForgive ==
    ASSUME NEW n \in Nodes(Addrs, Instants), NEW now \in Instants, IsBad(n),
           NEW m \in {MarkOutgoingRequest(n, now), MarkLastQuery(n, now),
                      MarkResponse(n, now), MarkError(n)},
           ~IsBad(m)
    PROVE  m.last_response = now /\ m.errors = 0
<1>1. now # Never
  BY TableAssumption DEF Instants, Never
<1>2. CASE m = MarkResponse(n, now)
  BY <1>2 DEF MarkResponse, MarkOutgoingRequest, Nodes
<1>3. CASE m \in {MarkOutgoingRequest(n, now), MarkLastQuery(n, now),
                 MarkError(n)}
  BY <1>1, <1>3 DEF IsBad, Requested, BadAfter, MarkOutgoingRequest,
     MarkLastQuery, MarkError, Nodes
<1> QED
  BY <1>2, <1>3

\* Only an answer, or a restart, makes a Bad node anything else.
THEOREM BadStaysBad == Spec => BadUntilAnswer
<1>1. ASSUME IInv, [Next]_vars, NEW id \in Known \cap DOMAIN rec',
             Status(rec[id], clock) = "Bad", Status(rec'[id], clock') # "Bad"
      PROVE  \/ rec'[id].last_response = clock /\ rec'[id].errors = 0
             \/ Reload
  <2>1. IsBad(rec[id]) /\ ~IsBad(rec'[id])
    BY <1>1 DEF Status
  <2>2. rec[id] \in Nodes(Addrs, Instants) /\ clock \in Instants
    BY <1>1 DEF IInv, TypeOK
  <2> QED
    BY <1>1, <2>1, <2>2, EntryStep, OnlyAnswersForgive
<1>2. IInv /\ [Next]_vars =>
        [\A id \in Known \cap DOMAIN rec' :
           Status(rec[id], clock) = "Bad" /\ Status(rec'[id], clock') # "Bad"
             => \/ rec'[id].last_response = clock /\ rec'[id].errors = 0
                \/ Reload]_vars
  BY <1>1
<1> QED
  BY <1>2, Invariance, PTL DEF Spec, BadUntilAnswer

-----------------------------------------------------------------------------
(***************************************************************************)
(* The freshness of leaves.                                                *)
(***************************************************************************)

NotFromTheFuture == \A l \in leaves : l.last_refreshed <= clock

FInv == IInv /\ NotFromTheFuture /\ LeafAsFreshAsItsNodes

\* No answer is from the future either.
LEMMA AnswersPast ==
    ASSUME FInv, NEW l \in leaves, NEW id \in l.ids
    PROVE  /\ id \in Known /\ rec[id].last_response \in Int
           /\ rec[id].last_response <= clock
<1>1. id \in Known
  BY DEF FInv, IInv, KnownOnce
<1>2. rec[id].last_response \in Instants \cup {Never} /\ clock \in Instants
  BY <1>1 DEF FInv, IInv, TypeOK, Nodes
<1>3. l.last_refreshed \in Instants
  BY DEF FInv, IInv, TypeOK, LeafType
<1>4. Instants \subseteq Int /\ Never \in Int
  BY TableAssumption DEF Instants, Never
<1>5. rec[id].last_response <= l.last_refreshed /\ l.last_refreshed <= clock
  BY DEF FInv, NotFromTheFuture, LeafAsFreshAsItsNodes
<1>6. /\ rec[id].last_response \in Int /\ clock \in Int
      /\ l.last_refreshed \in Int
  BY <1>2, <1>3, <1>4
<1>7. \A r, s, t \in Int : r <= s /\ s <= t => r <= t
  OBVIOUS
<1>8. rec[id].last_response <= clock
  BY <1>5, <1>6, <1>7
<1> QED
  BY <1>1, <1>6, <1>8

\* A leaf that is refreshed now, and whose nodes were there before or are
\* new, is as fresh as they are.
LEMMA RefreshedLeafFresh ==
    ASSUME FInv, NEW l \in leaves, NEW ids, NEW id \in ids,
           \/ id \in l.ids /\ rec'[id] = rec[id]
           \/ \E addr : rec'[id] = NewNode(addr)
           \/ rec'[id].last_response = clock
    PROVE  rec'[id].last_response <= clock
<1>1. clock \in Instants /\ Instants \subseteq Int /\ clock >= 0
  BY TableAssumption DEF FInv, IInv, TypeOK, Instants
<1>2. CASE id \in l.ids /\ rec'[id] = rec[id]
  BY <1>2, AnswersPast
<1>3. CASE \E addr : rec'[id] = NewNode(addr)
  BY <1>1, <1>3 DEF NewNode, Never
<1>4. CASE rec'[id].last_response = clock
  BY <1>1, <1>4
<1> QED
  BY <1>2, <1>3, <1>4

LEMMA FreshStep == FInv /\ [Next]_vars => NotFromTheFuture' /\ LeafAsFreshAsItsNodes'
<1> SUFFICES ASSUME FInv, [Next]_vars
             PROVE  NotFromTheFuture' /\ LeafAsFreshAsItsNodes'
  OBVIOUS
<1> DEFINE FreshAt(m) == /\ m.last_refreshed <= clock'
                         /\ \A id \in m.ids :
                              rec'[id].last_response <= m.last_refreshed
<1> SUFFICES ASSUME NEW m \in leaves'
             PROVE  FreshAt(m)
  BY DEF NotFromTheFuture, LeafAsFreshAsItsNodes
<1>a. clock \in Int /\ clock <= clock
  BY TableAssumption DEF FInv, IInv, TypeOK, Instants
<1>b. ASSUME m \in leaves, clock' = clock,
             \A id \in m.ids : rec'[id].last_response = rec[id].last_response
      PROVE  FreshAt(m)
  BY <1>b DEF FInv, NotFromTheFuture, LeafAsFreshAsItsNodes
<1>c. \A l, n \in leaves : \A id \in l.ids : id \in n.ids => l = n
  BY FiledOnce DEF FInv, IInv
<1>d. \A l \in leaves : l.ids \subseteq Known
  BY DEF FInv, IInv, KnownOnce
<1>1. CASE UNCHANGED <<leaves, rec, clock>>
  BY <1>b, <1>1
<1>2. ASSUME NEW new \in InputIds, NEW addr \in Addrs,
             AddReplaceBad(new, addr) \/ AddPush(new, addr)
      PROVE  FreshAt(m)
  <2>1. PICK l \in leaves :
          \E gone \in SUBSET l.ids :
            /\ Covers(l, new) /\ new \notin l.ids
            /\ leaves' = Replace(l, {[Touched(l) EXCEPT !.ids =
                                        (l.ids \ gone) \cup {new}]})
            /\ rec' = [n \in (Known \ gone) \cup {new} |->
                         IF n = new THEN NewNode(addr) ELSE rec[n]]
    <3>1. CASE AddReplaceBad(new, addr)
      BY <3>1 DEF AddReplaceBad, BadIn, Touched
    <3>2. CASE AddPush(new, addr)
      <4>1. PICK l \in leaves :
              /\ Covers(l, new) /\ new \notin l.ids
              /\ leaves' = Replace(l, {[Touched(l) EXCEPT !.ids = @ \cup {new}]})
        BY <3>2 DEF AddPush, NewAndNoneBad
      <4>2. Known \cup {new} = (Known \ {}) \cup {new}
            /\ l.ids \cup {new} = (l.ids \ {}) \cup {new}
        OBVIOUS
      <4>3. leaves' = Replace(l, {[Touched(l) EXCEPT !.ids =
                                    (l.ids \ {}) \cup {new}]})
        BY <4>1, <4>2 DEF Touched
      <4>4. rec' = [n \in (Known \ {}) \cup {new} |->
                     IF n = new THEN NewNode(addr) ELSE rec[n]]
        BY <3>2, <4>2 DEF AddPush
      <4> QED
        BY <4>1, <4>3, <4>4
    <3> QED
      BY <1>2, <3>1, <3>2
  <2>2. PICK gone \in SUBSET l.ids :
            /\ leaves' = Replace(l, {[Touched(l) EXCEPT !.ids =
                                        (l.ids \ gone) \cup {new}]})
            /\ rec' = [n \in (Known \ gone) \cup {new} |->
                         IF n = new THEN NewNode(addr) ELSE rec[n]]
    BY <2>1
  <2>3. clock' = clock
    BY <1>2 DEF AddReplaceBad, AddPush
  <2>4. new \notin Known
    BY <2>1, NewcomerUnknown DEF FInv
  <2>5. CASE m \in leaves \ {l}
    <3>1. \A id \in m.ids : id \in Known /\ id # new /\ id \notin gone
      BY <1>c, <1>d, <2>4, <2>5
    <3>2. \A id \in m.ids : rec'[id] = rec[id]
      BY <2>2, <3>1
    <3> QED
      BY <1>b, <2>3, <2>5, <3>2
  <2>6. CASE m = [Touched(l) EXCEPT !.ids = (l.ids \ gone) \cup {new}]
    <3>1. m.last_refreshed = clock /\ m.ids = (l.ids \ gone) \cup {new}
      BY <2>6 DEF Touched, FInv, IInv, TypeOK, LeafType
    <3>2. \A id \in m.ids : \/ id \in l.ids /\ rec'[id] = rec[id]
                            \/ rec'[id] = NewNode(addr)
      BY <1>d, <2>2, <3>1
    <3> QED
      BY <1>a, <2>3, <3>1, <3>2, RefreshedLeafFresh
  <2> QED
    BY <2>2, <2>5, <2>6 DEF Replace
<1>3. ASSUME NEW new \in InputIds, NEW addr \in Addrs, Split(new, addr)
      PROVE  FreshAt(m)
  <2>1. PICK l \in leaves : leaves' = Replace(l, {LeftHalf(l), RightHalf(l)})
    BY <1>3 DEF Split
  <2>2. UNCHANGED <<rec, clock>>
    BY <1>3 DEF Split
  <2>3. CASE m \in leaves
    BY <1>b, <2>2, <2>3
  <2>4. CASE m \in {LeftHalf(l), RightHalf(l)}
    <3>1. m.last_refreshed = clock /\ m.ids \subseteq l.ids
      BY <2>4 DEF LeftHalf, RightHalf
    <3>2. \A id \in m.ids : rec'[id].last_response <= clock
      BY <2>2, <3>1, RefreshedLeafFresh
    <3> QED
      BY <1>a, <2>2, <3>1, <3>2
  <2> QED
    BY <2>1, <2>3, <2>4 DEF Replace
<1>4. ASSUME NEW id \in MarkIds, MarkRequest(id) \/ MarkQuery(id) \/ MarkFailure(id)
      PROVE  FreshAt(m)
  <2>1. leaves' = leaves /\ clock' = clock /\ id \in Known
    BY <1>4 DEF MarkRequest, MarkQuery, MarkFailure, Mark
  <2>2. PICK entry : /\ rec' = [rec EXCEPT ![id] = entry]
                     /\ entry.last_response = rec[id].last_response
    <3>1. rec[id] \in Nodes(Addrs, Instants)
      BY <2>1 DEF FInv, IInv, TypeOK
    <3> QED
      BY <1>4, <3>1 DEF MarkRequest, MarkQuery, MarkFailure, Mark,
         MarkOutgoingRequest, MarkLastQuery, MarkError, Nodes
  <2>3. \A n \in m.ids : rec'[n].last_response = rec[n].last_response
    BY <1>d, <2>1, <2>2 DEF Known
  <2> QED
    BY <1>b, <2>1, <2>3
<1>5. ASSUME NEW id \in MarkIds, MarkAnswer(id)
      PROVE  FreshAt(m)
  <2>1. PICK l \in leaves : Covers(l, id) /\ leaves' = Replace(l, {Touched(l)})
    BY <1>5 DEF MarkAnswer
  <2>2. /\ id \in Known /\ clock' = clock
        /\ rec' = [rec EXCEPT ![id] = MarkResponse(rec[id], clock)]
    BY <1>5 DEF MarkAnswer, Mark
  <2>3. id \in l.ids
    BY <2>1, <2>2, TableAssumption DEF FInv, IInv, KnownOnce, LeavesPartitionIds
  <2>4. MarkResponse(rec[id], clock).last_response = clock
    <3>1. rec[id] \in Nodes(Addrs, Instants)
      BY <2>2 DEF FInv, IInv, TypeOK
    <3> QED
      BY <3>1 DEF MarkResponse, MarkOutgoingRequest, Nodes
  <2>5. CASE m \in leaves \ {l}
    <3>1. \A n \in m.ids : rec'[n] = rec[n]
      BY <1>c, <1>d, <2>2, <2>3, <2>5 DEF Known
    <3> QED
      BY <1>b, <2>2, <2>5, <3>1
  <2>6. CASE m = Touched(l)
    <3>1. m.last_refreshed = clock /\ m.ids = l.ids
      BY <2>6 DEF Touched, FInv, IInv, TypeOK, LeafType
    <3>2. \A n \in m.ids : \/ n \in l.ids /\ rec'[n] = rec[n]
                           \/ rec'[n].last_response = clock
      BY <1>d, <2>2, <2>4, <3>1 DEF Known
    <3> QED
      BY <1>a, <2>2, <3>1, <3>2, RefreshedLeafFresh
  <2> QED
    BY <2>1, <2>5, <2>6 DEF Replace
<1>6. CASE Reload
  <2>1. PICK l \in leaves : m = Touched(l)
    BY <1>6 DEF Reload
  <2>2. m.last_refreshed = clock /\ m.ids = l.ids /\ clock' = clock
    BY <1>6, <2>1 DEF Reload, Touched, FInv, IInv, TypeOK, LeafType
  <2>3. \A n \in m.ids : \E addr : rec'[n] = NewNode(addr)
    BY <1>6, <1>d, <2>2 DEF Reload
  <2> QED
    BY <1>a, <2>2, <2>3, RefreshedLeafFresh
<1>7. CASE Tick
  <2>1. clock' = clock + 1 /\ UNCHANGED <<leaves, rec>>
    BY <1>7 DEF Tick
  <2>2. m.last_refreshed \in Int
    BY <2>1, TableAssumption DEF FInv, IInv, TypeOK, LeafType, Instants
  <2>3. /\ m.last_refreshed <= clock
        /\ \A n \in m.ids : rec[n].last_response <= m.last_refreshed
    BY <2>1 DEF FInv, NotFromTheFuture, LeafAsFreshAsItsNodes
  <2> QED
    BY <1>a, <2>1, <2>2, <2>3
<1> QED
  BY <1>1, <1>2, <1>3, <1>4, <1>5, <1>6, <1>7 DEF Next, AddNode, AddExisting,
     AddIgnoredFull, AddIgnoredFar, MarkAny, vars

\* last_refreshed of a leaf is never older than an answer of one of its
\* nodes, through every split, replacement and restart.
THEOREM LeavesFresh == Spec => []LeafAsFreshAsItsNodes
<1>1. Init => FInv
  BY InitIInv, TableAssumption
     DEF Init, FInv, NotFromTheFuture, LeafAsFreshAsItsNodes, RootLeaf
<1>2. FInv /\ [Next]_vars => FInv'
  BY NextIInv, FreshStep DEF FInv
<1>3. FInv => LeafAsFreshAsItsNodes
  BY DEF FInv
<1> QED
  BY <1>1, <1>2, <1>3, PTL DEF Spec

-----------------------------------------------------------------------------
(***************************************************************************)
(* The loop of add_node wears itself out: it goes round only to split the  *)
(* leaf of our own id, and that has only so many bits.                     *)
(***************************************************************************)

\* Bits that vary within our own leaf: the splits that are left.
SplitsLeft(ls) == (CHOOSE l \in ls : Covers(l, SelfId)).bits

Counted ==
    /\ IsFiniteSet(leaves)
    /\ SplitsLeft(leaves) \in 0 .. Bits
    /\ Cardinality(leaves) = Bits + 1 - SplitsLeft(leaves)

\* A leaf as good as alone with our id.
LEMMA OwnLeaf ==
    ASSUME NEW ls, NEW l \in ls, Covers(l, SelfId),
           \A m \in ls : Covers(m, SelfId) => m = l
    PROVE  SplitsLeft(ls) = l.bits
BY DEF SplitsLeft

LEMMA OwnLeafNow ==
    ASSUME TypeOK, LeavesPartitionIds
    PROVE  \E l \in leaves : /\ Covers(l, SelfId)
                             /\ \A m \in leaves : Covers(m, SelfId) => m = l
                             /\ SplitsLeft(leaves) = l.bits
                             /\ l.bits \in 0 .. Bits
<1>1. PICK l \in leaves : /\ Covers(l, SelfId)
                          /\ \A m \in leaves : Covers(m, SelfId) => m = l
  BY TableAssumption DEF LeavesPartitionIds
<1> QED
  BY <1>1, OwnLeaf DEF TypeOK, LeafType

\* Every leaf covers an id.
LEMMA NoEmptyLeaf ==
    ASSUME TypeOK, LeafShape, NEW l \in leaves
    PROVE  \E id \in Ids : Covers(l, id)
<1>1. l.start \in Ids /\ l.bits \in 0 .. Bits
  BY DEF TypeOK, LeafType
<1>2. Pow[l.bits] \in Nat \ {0} /\ l.end = l.start + Pow[l.bits] - 1
  BY <1>1, BitsAssumption DEF LeafShape
<1>3. l.start \in Int
  BY <1>1, IdsAreIntegers
<1>4. \A s \in Int, p \in Nat \ {0} : s <= s /\ s <= s + p - 1
  OBVIOUS
<1>5. Covers(l, l.start)
  BY <1>2, <1>3, <1>4 DEF Covers
<1> QED
  BY <1>1, <1>5

\* A leaf gives way to one of the same range.
LEMMA LeafExchanged ==
    ASSUME TypeOK, LeafShape, LeavesPartitionIds, Counted, NEW l \in leaves,
           NEW new, new.start = l.start, new.end = l.end, new.bits = l.bits,
           leaves' = Replace(l, {new})
    PROVE  Counted' /\ SplitsLeft(leaves') = SplitsLeft(leaves)
<1>1. \A id : Covers(new, id) <=> Covers(l, id)
  BY DEF Covers
<1>2. new \notin leaves \ {l}
  <2>1. PICK id \in Ids : Covers(l, id)
    BY NoEmptyLeaf
  <2>2. Covers(new, id)
    BY <1>1, <2>1
  <2> QED
    BY <2>1, <2>2 DEF LeavesPartitionIds
<1>3. PICK p \in leaves : /\ Covers(p, SelfId)
                          /\ \A m \in leaves : Covers(m, SelfId) => m = p
                          /\ SplitsLeft(leaves) = p.bits
  BY OwnLeafNow
<1>4. SplitsLeft(leaves') = p.bits
  <2>1. CASE p = l
    <3>1. \A m \in leaves' : Covers(m, SelfId) => m = new
      BY <1>3, <2>1 DEF Replace
    <3>2. new \in leaves' /\ Covers(new, SelfId)
      BY <1>1, <1>3, <2>1 DEF Replace
    <3> QED
      BY <2>1, <3>1, <3>2, OwnLeaf
  <2>2. CASE p # l
    <3>1. \A m \in leaves' : Covers(m, SelfId) => m = p
      BY <1>1, <1>3, <2>2 DEF Replace
    <3>2. p \in leaves'
      BY <2>2 DEF Replace
    <3> QED
      BY <1>3, <3>1, <3>2, OwnLeaf
  <2> QED
    BY <2>1, <2>2
<1>5. IsFiniteSet(leaves') /\ Cardinality(leaves') = Cardinality(leaves)
  <2>1. IsFiniteSet(leaves) /\ Cardinality(leaves) \in Nat
    BY FS_CardinalityType DEF Counted
  <2>2. IsFiniteSet(leaves \ {l})
        /\ Cardinality(leaves \ {l}) = Cardinality(leaves) - 1
    BY <2>1, FS_RemoveElement
  <2>3. IsFiniteSet((leaves \ {l}) \cup {new})
        /\ Cardinality((leaves \ {l}) \cup {new})
             = Cardinality(leaves \ {l}) + 1
    BY <1>2, <2>2, FS_AddElement
  <2> QED
    BY <2>1, <2>2, <2>3 DEF Replace
<1> QED
  BY <1>3, <1>4, <1>5 DEF Counted

LEMMA SplitCounted ==
    ASSUME TypeOK, LeafShape, Structure, Counted, NEW id \in InputIds,
           NEW addr \in Addrs, Split(id, addr)
    PROVE  Counted' /\ SplitsLeft(leaves') = SplitsLeft(leaves) - 1
<1>1. PICK l \in leaves :
        /\ MustSplit(l, id)
        /\ leaves' = Replace(l, {LeftHalf(l), RightHalf(l)})
  BY DEF Split
<1> DEFINE L == LeftHalf(l)
           R == RightHalf(l)
<1>2. /\ L.bits = l.bits - 1 /\ R.bits = l.bits - 1
      /\ l.bits \in 0 .. Bits /\ l.bits - 1 \in 0 .. Bits
      /\ \A m \in leaves : m.bits \in Int
  BY <1>1, Halves DEF LeftHalf, RightHalf, TypeOK, LeafType, Structure
<1>3. Covers(L, SelfId) <=> ~Covers(R, SelfId)
  <2>1. SelfId \in Int /\ RightStart(l) \in Int
    BY <1>1, Halves, IdsAreIntegers, TableAssumption DEF Structure
  <2> QED
    BY <1>1, <2>1, HalvesCover, TableAssumption DEF MustSplit, Structure
<1>4. \A m \in leaves : l.bits <= m.bits
  BY <1>1 DEF Structure, OneLeafPerDistance, MustSplit
<1>5. \A m \in leaves : Covers(m, SelfId) => m = l
  BY <1>1, TableAssumption DEF Structure, LeavesPartitionIds, MustSplit
<1>6. L # R /\ L \notin leaves /\ R \notin leaves
  <2>1. L # R
    BY <1>3
  <2> HIDE DEF L, R
  <2> QED
    BY <1>2, <1>4, <2>1, BitsAssumption
<1> HIDE DEF L, R
<1>7. leaves' = (leaves \ {l}) \cup {L} \cup {R}
  BY <1>1 DEF Replace, L, R
<1>8. SplitsLeft(leaves) = l.bits
  BY <1>1, <1>5, OwnLeaf DEF MustSplit
<1>9. SplitsLeft(leaves') = l.bits - 1
  <2>1. PICK p \in {L, R} : Covers(p, SelfId)
    BY <1>3
  <2>2. \A m \in leaves' : Covers(m, SelfId) => m = p
    BY <1>3, <1>5, <1>7, <2>1
  <2>3. p \in leaves' /\ p.bits = l.bits - 1
    BY <1>2, <1>7, <2>1
  <2> QED
    BY <2>1, <2>2, <2>3, OwnLeaf
<1>10. IsFiniteSet(leaves') /\ Cardinality(leaves') = Cardinality(leaves) + 1
  <2>1. IsFiniteSet(leaves) /\ Cardinality(leaves) \in Nat
    BY FS_CardinalityType DEF Counted
  <2>2. IsFiniteSet(leaves \ {l})
        /\ Cardinality(leaves \ {l}) = Cardinality(leaves) - 1
    BY <2>1, FS_RemoveElement
  <2> DEFINE S == (leaves \ {l}) \cup {L}
  <2>3. IsFiniteSet(S) /\ Cardinality(S) = Cardinality(leaves \ {l}) + 1
    BY <1>6, <2>2, FS_AddElement
  <2>4. R \notin S
    BY <1>6
  <2> HIDE DEF S
  <2>5. IsFiniteSet(S \cup {R}) /\ Cardinality(S \cup {R}) = Cardinality(S) + 1
    BY <2>3, <2>4, FS_AddElement
  <2> QED
    BY <1>7, <2>1, <2>2, <2>3, <2>5 DEF S
<1>11. SplitsLeft(leaves') \in 0 .. Bits
  BY <1>2, <1>9
<1>12. Cardinality(leaves') = Bits + 1 - SplitsLeft(leaves')
  BY <1>2, <1>8, <1>9, <1>10, BitsAssumption DEF Counted
<1> QED
  BY <1>8, <1>9, <1>10, <1>11, <1>12 DEF Counted

\* A restart keeps the leaves as they were cut.
LEMMA ReloadCounted ==
    ASSUME TypeOK, LeafShape, LeavesPartitionIds, Counted, Reload
    PROVE  Counted' /\ SplitsLeft(leaves') = SplitsLeft(leaves)
<1>1. leaves' = {Touched(l) : l \in leaves}
  BY DEF Reload
<1>2. \A l \in leaves : /\ Touched(l).bits = l.bits
                        /\ Touched(l).start = l.start
                        /\ Touched(l).end = l.end
  BY DEF Touched, TypeOK, LeafType
<1>3. \A l \in leaves : \A id : Covers(Touched(l), id) <=> Covers(l, id)
  BY <1>2 DEF Covers
<1>4. SplitsLeft(leaves') = SplitsLeft(leaves)
  <2>1. PICK p \in leaves : /\ Covers(p, SelfId)
                            /\ \A m \in leaves : Covers(m, SelfId) => m = p
                            /\ SplitsLeft(leaves) = p.bits
    BY OwnLeafNow
  <2>2. \A m \in leaves' : Covers(m, SelfId) => m = Touched(p)
    BY <1>1, <1>3, <2>1
  <2>3. Touched(p) \in leaves' /\ Covers(Touched(p), SelfId)
    BY <1>1, <1>3, <2>1
  <2> QED
    BY <1>2, <2>1, <2>2, <2>3, OwnLeaf
<1>5. IsFiniteSet(leaves') /\ Cardinality(leaves') = Cardinality(leaves)
  <2> DEFINE touch == [l \in leaves |-> Touched(l)]
  <2>1. ASSUME NEW l \in leaves, NEW m \in leaves, Touched(l) = Touched(m)
        PROVE  l = m
    <3>1. PICK id \in Ids : Covers(l, id)
      BY NoEmptyLeaf
    <3>2. Covers(Touched(l), id) <=> Covers(l, id)
      BY <1>3
    <3>3. Covers(Touched(m), id) <=> Covers(m, id)
      BY <1>3
    <3>4. Covers(m, id)
      BY <2>1, <3>1, <3>2, <3>3, Zenon
    <3> QED
      BY <3>1, <3>4 DEF LeavesPartitionIds
  <2>2. touch \in Bijection(leaves, leaves')
    <3>1. touch \in [leaves -> leaves']
      BY <1>1
    <3>2. \A l \in leaves : touch[l] = Touched(l)
      OBVIOUS
    <3>3. IsInjective(touch)
      BY <2>1, <3>1, <3>2 DEF IsInjective
    <3>4. \A t \in leaves' : \E l \in leaves : touch[l] = t
      BY <1>1, <3>2
    <3> QED
      BY <3>1, <3>3, <3>4 DEF Bijection, Injection, Surjection
  <2>3. ExistsBijection(leaves, leaves')
    BY <2>2 DEF ExistsBijection
  <2> QED
    BY <2>3, FS_Bijection DEF Counted
<1> QED
  BY <1>4, <1>5 DEF Counted

\* What a step does to the splits that are left.
WearsDown ==
    /\ SplitsLeft(leaves') <= SplitsLeft(leaves)
    /\ pending' # {} => SplitsLeft(leaves') = SplitsLeft(leaves) - 1

LEMMA CountedStep ==
    ASSUME IInv, Counted, [Next]_vars
    PROVE  Counted' /\ [WearsDown]_vars
<1>a. TypeOK /\ LeafShape /\ LeavesPartitionIds /\ Structure
  BY DEF IInv, Structure
<1>b. SplitsLeft(leaves) \in Int
  BY DEF Counted
<1>c. ASSUME Counted', SplitsLeft(leaves') = SplitsLeft(leaves), pending' = {}
      PROVE  Counted' /\ WearsDown
  BY <1>b, <1>c DEF WearsDown
<1>1. ASSUME NEW id \in InputIds, NEW addr \in Addrs, AddReplaceBad(id, addr)
      PROVE  Counted' /\ WearsDown
  <2>0. PICK l \in leaves :
          \E ids : leaves' = Replace(l, {[Touched(l) EXCEPT !.ids = ids]})
    BY <1>1 DEF AddReplaceBad
  <2>1. PICK ids : leaves' = Replace(l, {[Touched(l) EXCEPT !.ids = ids]})
    BY <2>0
  <2>2. LET new == [Touched(l) EXCEPT !.ids = ids]
        IN  new.start = l.start /\ new.end = l.end /\ new.bits = l.bits
    BY <1>a DEF Touched, TypeOK, LeafType
  <2>3. pending' = {}
    BY <1>1 DEF AddReplaceBad
  <2> QED
    BY <1>a, <1>c, <2>1, <2>2, <2>3, LeafExchanged
<1>2. ASSUME NEW id \in InputIds, NEW addr \in Addrs, AddPush(id, addr)
      PROVE  Counted' /\ WearsDown
  <2>1. PICK l \in leaves :
          leaves' = Replace(l, {[Touched(l) EXCEPT !.ids = @ \cup {id}]})
    BY <1>2 DEF AddPush
  <2>2. LET new == [Touched(l) EXCEPT !.ids = @ \cup {id}]
        IN  new.start = l.start /\ new.end = l.end /\ new.bits = l.bits
    BY <1>a DEF Touched, TypeOK, LeafType
  <2>3. pending' = {}
    BY <1>2 DEF AddPush
  <2> QED
    BY <1>a, <1>c, <2>1, <2>2, <2>3, LeafExchanged
<1>3. ASSUME NEW id \in InputIds, NEW addr \in Addrs, Split(id, addr)
      PROVE  Counted' /\ WearsDown
  BY <1>a, <1>b, <1>3, SplitCounted DEF WearsDown
<1>4. ASSUME NEW id \in MarkIds, MarkAnswer(id)
      PROVE  Counted' /\ WearsDown
  <2>1. PICK l \in leaves : leaves' = Replace(l, {Touched(l)})
    BY <1>4 DEF MarkAnswer
  <2>2. /\ Touched(l).start = l.start /\ Touched(l).end = l.end
        /\ Touched(l).bits = l.bits
    BY <1>a DEF Touched, TypeOK, LeafType
  <2>3. pending' = {}
    BY <1>4 DEF MarkAnswer, Mark
  <2> QED
    BY <1>a, <1>c, <2>1, <2>2, <2>3, LeafExchanged
<1>5. CASE Reload
  BY <1>a, <1>c, <1>5, ReloadCounted DEF Reload
<1>6. ASSUME UNCHANGED leaves, pending' = {}
      PROVE  Counted' /\ WearsDown
  BY <1>c, <1>6 DEF Counted
<1>7. ASSUME NEW id \in InputIds, NEW addr \in Addrs,
             \/ AddExisting(id, addr)
             \/ AddIgnoredFull(id, addr)
             \/ AddIgnoredFar(id, addr)
      PROVE  Counted' /\ WearsDown
  BY <1>6, <1>7 DEF AddExisting, AddIgnoredFull, AddIgnoredFar
<1>8. ASSUME NEW id \in MarkIds,
             MarkRequest(id) \/ MarkQuery(id) \/ MarkFailure(id)
      PROVE  Counted' /\ WearsDown
  BY <1>6, <1>8 DEF MarkRequest, MarkQuery, MarkFailure, Mark
<1>9. CASE Tick
  BY <1>6, <1>9 DEF Tick
<1>10. CASE UNCHANGED vars
  BY <1>10 DEF vars, Counted
<1> QED
  BY <1>1, <1>2, <1>3, <1>4, <1>5, <1>7, <1>8, <1>9, <1>10
     DEF Next, AddNode, MarkAny

LEMMA OneLeafToBeginWith == Init => Counted
<1> SUFFICES ASSUME Init
             PROVE  Counted
  OBVIOUS
<1>1. leaves = {RootLeaf} /\ IInv
  BY InitIInv DEF Init
<1>2. SplitsLeft(leaves) = RootLeaf.bits
  BY <1>1, OwnLeafNow DEF IInv
<1>3. RootLeaf.bits = Bits /\ Bits \in Nat
  BY BitsAssumption DEF RootLeaf
<1>4. IsFiniteSet(leaves) /\ Cardinality(leaves) = 1
  BY <1>1, FS_Singleton
<1> QED
  BY <1>2, <1>3, <1>4 DEF Counted

LEMMA CountHolds == Spec => [](IInv /\ Counted)
<1>1. IInv /\ Counted /\ [Next]_vars => Counted'
  BY CountedStep
<1> QED
  BY <1>1, OneLeafToBeginWith, Invariance, PTL DEF Spec

\* The tree has one leaf more than bits of our id have been told apart, through
\* any splits, replacements and restarts: at most 161 of them, whatever others
\* insert.
THEOREM LeavesAreFew ==
    Spec => [](/\ SplitsLeft(leaves) \in 0 .. Bits
               /\ Cardinality(leaves) = Bits + 1 - SplitsLeft(leaves))
<1>1. Counted => /\ SplitsLeft(leaves) \in 0 .. Bits
                 /\ Cardinality(leaves) = Bits + 1 - SplitsLeft(leaves)
  BY DEF Counted
<1> QED
  BY <1>1, CountHolds, PTL

\* The loop of add_node goes round only by a split that leaves one split fewer
\* for good, as nothing ever joins leaves again: over the whole life of a
\* table it goes round at most once per bit of an id.
THEOREM InsertWearsDown == Spec => [][WearsDown]_vars
<1>1. IInv /\ Counted /\ [Next]_vars => [WearsDown]_vars
  BY CountedStep
<1> QED
  BY <1>1, CountHolds, PTL DEF Spec
=============================================================================
