----------------------- MODULE MutableItemStoreProofs -----------------------
(***************************************************************************)
(* Proofs about MutableItemStore, for any number of threads, targets,      *)
(* shards and sequence numbers, any capacity, and any past of the store.   *)
(* Only that it keeps its capacity needs one that is not 0.  (A store of   *)
(* capacity 0 keeps one item: evict_oldest finds nothing, and the item is  *)
(* inserted.)                                                              *)
(***************************************************************************)
EXTENDS MutableItemStore, FiniteSetTheorems, TLAPS

-----------------------------------------------------------------------------
(***************************************************************************)
(* The inductive invariant.                                                *)
(***************************************************************************)

\* A store call has its item, a removal its victim; a walk begins with
\* nothing counted, nothing found and the first shard.
ArgsGiven ==
    \A th \in Threads :
        /\ pc[th] \in Storing => Target(th) \in Targets /\ Item(th) \in Items
        /\ pc[th] \in {"remove", "gc_remove"} => victim[th] \in Targets
        /\ pc[th] \notin {"evict", "remove", "gc_evict", "gc_remove"} =>
             victim[th] = NoTarget
        /\ pc[th] \notin {"len", "gc_len"} => count[th] = 0
        /\ pc[th] \notin {"len", "evict", "gc_len", "gc_evict"} => shard[th] = 0

Typed == TypeOK /\ ArgsGiven /\ IsFiniteSet(Stored)

\* What is in the shards before the n-th.
Before(n) == {t \in Stored : ShardOf[t] < n}

OldestOf(S, t) == t \in S /\ \A u \in S : items[t].updated <= items[u].updated

\* The victim so far is the oldest item of the shards walked so far.
Found(th) ==
    \/ victim[th] = NoTarget /\ Before(shard[th]) = {}
    \/ OldestOf(Before(shard[th]), victim[th])

\* A call that has the store for itself: what it has found is still so.
Undisturbed(th) ==
    /\ Alone(th)
    /\ pc[th] \in Storing \ {"check"} => ~Refused(th)
    /\ pc[th] \in {"len", "evict", "remove"} => Target(th) \notin Stored
    /\ pc[th] \in {"len", "gc_len"} => count[th] = Cardinality(Before(shard[th]))
    /\ pc[th] \in {"evict", "remove"} => Cardinality(Stored) >= MaxItems
    /\ pc[th] \in {"gc_evict", "gc_remove"} => Cardinality(Stored) > MaxItems
    /\ pc[th] \in {"evict", "gc_evict"} => Found(th)
    /\ pc[th] \in {"remove", "gc_remove"} => Oldest(victim[th])

IInv ==
    /\ Typed
    /\ overlapped => raced
    /\ ~overlapped => \A th \in Threads : pc[th] # "idle" => Undisturbed(th)

\* While no two calls have ever overlapped there is room for whatever is about
\* to be inserted.
HasRoom(th) ==
    pc[th] = "insert" => Target(th) \in Stored \/ Cardinality(Stored) < MaxItems

Orderly == WithinCapacity /\ \A th \in Threads : HasRoom(th)

-----------------------------------------------------------------------------
\* What is stored after an item was put at a target, or taken from it.
LEMMA StoredAfter ==
    ASSUME TypeOK, NEW t \in Targets, NEW item \in Items \cup {NoItem},
           items' = [items EXCEPT ![t] = item]
    PROVE  Stored' = IF item = NoItem THEN Stored \ {t} ELSE Stored \cup {t}
BY StoreAssumption DEF TypeOK, Stored, Items

\* How the histories and the other threads go on when one takes a step.
LEMMA OneMoves ==
    ASSUME TypeOK, NEW th \in Threads, NEW step,
           Enter(th, step) \/ Goto(th, step)
    PROVE  /\ pc' = [pc EXCEPT ![th] = step]
           /\ pc'[th] = step
           /\ \A other \in Threads \ {th} : pc'[other] = pc[other]
           /\ raced' \in BOOLEAN /\ overlapped' \in BOOLEAN
           /\ ~raced' => ~raced
           /\ ~overlapped' => Alone(th) /\ Alone(th)'
           /\ Goto(th, step) /\ ~overlapped' => ~overlapped
           /\ (overlapped => raced) => (overlapped' => raced')
BY DEF TypeOK, Enter, Goto, Alone

\* A walk has come one shard further, or has seen all that is stored.
LEMMA NextBefore ==
    ASSUME Typed, NEW th \in Threads
    PROVE  /\ Before(0) = {}
           /\ Before(shard[th] + 1) = Before(shard[th]) \cup InShard(th)
           /\ Last(th) => Before(shard[th] + 1) = Stored
           /\ Cardinality(InShard(th)) \in Nat
           /\ Cardinality(Before(shard[th] + 1)) =
                Cardinality(Before(shard[th])) + Cardinality(InShard(th))
<1>1. /\ shard[th] \in Int
      /\ \A t \in Stored : /\ ShardOf[t] \in Int
                           /\ 0 <= ShardOf[t] /\ ShardOf[t] < Shards
      /\ Shards \in Int
  BY StoreAssumption DEF Typed, TypeOK, Stored
<1>2. Before(0) = {}
  BY <1>1 DEF Before
<1>3. Before(shard[th] + 1) = Before(shard[th]) \cup InShard(th)
  BY <1>1 DEF Before, InShard
<1>4. ASSUME Last(th)
      PROVE  Before(shard[th] + 1) = Stored
  BY <1>1, <1>4 DEF Before, Last
<1>5. Before(shard[th]) \cap InShard(th) = {}
  BY <1>1 DEF Before, InShard
<1>6. IsFiniteSet(Before(shard[th])) /\ IsFiniteSet(InShard(th))
  BY FS_Subset DEF Typed, Before, InShard
<1>7. /\ Cardinality(Before(shard[th])) \in Nat
      /\ Cardinality(InShard(th)) \in Nat
  BY <1>6, FS_CardinalityType
<1>8. Cardinality(Before(shard[th]) \cup InShard(th)) =
        Cardinality(Before(shard[th])) + Cardinality(InShard(th))
          - Cardinality(Before(shard[th]) \cap InShard(th))
  BY <1>6, FS_Union
<1>9. Cardinality(Before(shard[th]) \cap InShard(th)) = 0
  BY <1>5, FS_EmptySet
<1>10. Cardinality(Before(shard[th] + 1)) =
         Cardinality(Before(shard[th])) + Cardinality(InShard(th))
  <2>1. Cardinality(Before(shard[th] + 1)) =
          Cardinality(Before(shard[th]) \cup InShard(th))
    BY <1>3, Zenon
  <2>2. PICK a \in Nat, b \in Nat :
          a = Cardinality(Before(shard[th])) /\ b = Cardinality(InShard(th))
    BY <1>7
  <2>3. Cardinality(Before(shard[th]) \cup InShard(th)) = a + b - 0
    BY <1>8, <1>9, <2>2, Zenon
  <2> QED
    BY <2>1, <2>2, <2>3
<1> QED
  BY <1>2, <1>3, <1>4, <1>7, <1>10

-----------------------------------------------------------------------------
(***************************************************************************)
(* Types.                                                                  *)
(***************************************************************************)

LEMMA AddUpTyped ==
    ASSUME Typed, NEW th \in Threads, NEW next \in Steps, AddUp(th, next),
           pc[th] \in {"len", "gc_len"},
           next \in {"evict", "insert", "gc_evict", "idle"},
           next \in Storing => pc[th] = "len"
    PROVE  TypeOK' /\ ArgsGiven'
<1>1. /\ Total(th) \in Nat
      /\ shard[th] \in 0 .. Shards - 1 /\ Shards \in Nat
      /\ shard' = [shard EXCEPT ![th] = IF Last(th) THEN 0 ELSE shard[th] + 1]
      /\ count' = [count EXCEPT ![th] = IF Last(th) THEN 0 ELSE Total(th)]
      /\ UNCHANGED <<items, clock, arg, victim>>
  BY NextBefore, StoreAssumption
  DEF AddUp, NextShard, Total, Typed, TypeOK
<1>2. PICK step \in {next, pc[th]} :
        /\ Goto(th, step)
        /\ step = IF Last(th) THEN next ELSE pc[th]
  BY DEF AddUp
<1>3. /\ pc' = [pc EXCEPT ![th] = step] /\ pc'[th] = step
      /\ \A other \in Threads \ {th} : pc'[other] = pc[other]
      /\ raced' \in BOOLEAN /\ overlapped' \in BOOLEAN
  BY <1>2, OneMoves DEF Typed
<1>4. (IF Last(th) THEN 0 ELSE shard[th] + 1) \in 0 .. Shards - 1
  BY <1>1, StoreAssumption DEF Last
<1>5. (IF Last(th) THEN 0 ELSE Total(th)) \in Nat
  BY <1>1
<1>6. TypeOK'
  BY <1>1, <1>2, <1>3, <1>4, <1>5 DEF Typed, TypeOK
<1>7. ArgsGiven'
  BY <1>1, <1>2, <1>3 DEF Typed, TypeOK, ArgsGiven, Storing, Target, Item
<1> QED
  BY <1>6, <1>7

LEMMA FindOldestTyped ==
    ASSUME Typed, NEW th \in Threads, NEW found \in Steps, NEW notFound \in Steps,
           FindOldest(th, found, notFound),
           \/ pc[th] = "evict" /\ found = "remove" /\ notFound = "insert"
           \/ pc[th] = "gc_evict" /\ found = "gc_remove" /\ notFound = "gc_len"
    PROVE  TypeOK' /\ ArgsGiven'
<1>1. /\ shard[th] \in 0 .. Shards - 1 /\ Shards \in Nat
      /\ shard' = [shard EXCEPT ![th] = IF Last(th) THEN 0 ELSE shard[th] + 1]
      /\ UNCHANGED <<items, clock, arg, count>>
  BY StoreAssumption DEF FindOldest, NextShard, Typed, TypeOK
<1>2. (IF Last(th) THEN 0 ELSE shard[th] + 1) \in 0 .. Shards - 1
  BY <1>1, StoreAssumption DEF Last
<1>3. PICK v \in Targets \cup {NoTarget}, step \in {found, notFound, pc[th]} :
        /\ Goto(th, step)
        /\ victim' = [victim EXCEPT ![th] = v]
        /\ Last(th) <=> step # pc[th]
        /\ step = found => v \in Targets
        /\ step = notFound => v = NoTarget
  <2>1. CASE \E t \in Candidates(th) :
               /\ victim' = [victim EXCEPT ![th] = t]
               /\ Goto(th, IF Last(th) THEN found ELSE pc[th])
    <3>1. PICK t \in Candidates(th) :
               /\ victim' = [victim EXCEPT ![th] = t]
               /\ Goto(th, IF Last(th) THEN found ELSE pc[th])
      BY <2>1
    <3>2. t \in Targets
      BY <3>1 DEF Candidates, InShard, Stored, Typed, TypeOK
    <3> QED
      BY <3>1, <3>2
  <2>2. CASE /\ Candidates(th) = {}
             /\ Goto(th, IF Last(th) THEN notFound ELSE pc[th])
             /\ UNCHANGED victim
    <3>1. victim[th] = NoTarget /\ victim' = [victim EXCEPT ![th] = NoTarget]
      BY <2>2 DEF Candidates, Typed, TypeOK
    <3> QED
      BY <2>2, <3>1
  <2> QED
    BY <2>1, <2>2 DEF FindOldest
<1>4. /\ pc' = [pc EXCEPT ![th] = step] /\ pc'[th] = step
      /\ \A other \in Threads \ {th} : pc'[other] = pc[other]
      /\ raced' \in BOOLEAN /\ overlapped' \in BOOLEAN
  BY <1>3, OneMoves DEF Typed
<1>5. TypeOK'
  BY <1>1, <1>2, <1>3, <1>4 DEF Typed, TypeOK
<1>6. ArgsGiven'
  BY <1>1, <1>3, <1>4 DEF Typed, TypeOK, ArgsGiven, Storing, Target, Item
<1> QED
  BY <1>5, <1>6

LEMMA RemoveTyped ==
    ASSUME Typed, NEW th \in Threads, NEW next \in Steps, RemoveVictim(th, next),
           \/ pc[th] = "remove" /\ next = "insert"
           \/ pc[th] = "gc_remove" /\ next = "gc_len"
    PROVE  TypeOK' /\ ArgsGiven'
<1>1. /\ victim[th] \in Targets
      /\ items' = [items EXCEPT ![victim[th]] = NoItem]
      /\ victim' = [victim EXCEPT ![th] = NoTarget]
      /\ UNCHANGED <<clock, arg, shard, count>>
  BY DEF RemoveVictim, Typed, ArgsGiven, scan
<1>2. /\ pc' = [pc EXCEPT ![th] = next] /\ pc'[th] = next
      /\ \A other \in Threads \ {th} : pc'[other] = pc[other]
      /\ raced' \in BOOLEAN /\ overlapped' \in BOOLEAN
  BY OneMoves DEF Typed, RemoveVictim
<1>3. TypeOK'
  BY <1>1, <1>2 DEF Typed, TypeOK
<1>4. ArgsGiven'
  BY <1>1, <1>2 DEF Typed, TypeOK, ArgsGiven, Storing, Target, Item
<1> QED
  BY <1>3, <1>4

\* Only a removal and an insertion touch the map, one target at a time.
LEMMA FiniteStep == Typed /\ [Next]_vars => IsFiniteSet(Stored)'
<1> SUFFICES ASSUME Typed, [Next]_vars
             PROVE  IsFiniteSet(Stored')
  OBVIOUS
<1>1. ASSUME NEW th \in Threads, EvictRemove(th) \/ GcRemove(th) \/ Insert(th)
      PROVE  IsFiniteSet(Stored')
  <2>1. PICK t \in Targets, item \in Items \cup {NoItem} :
          items' = [items EXCEPT ![t] = item]
    BY <1>1 DEF EvictRemove, GcRemove, RemoveVictim, Insert, Typed, ArgsGiven,
       Storing
  <2>2. Stored' \subseteq Stored \cup {t}
    BY <2>1, StoredAfter DEF Typed
  <2> QED
    BY <2>2, FS_AddElement, FS_Subset DEF Typed
<1>2. ASSUME UNCHANGED items
      PROVE  IsFiniteSet(Stored')
  BY <1>2 DEF Stored, Typed
<1> QED
  BY <1>1, <1>2 DEF Next, Running, Call, CallGc, Check, ContainsKey, Len, Evict,
     GcLen, GcEvict, AddUp, FindOldest, vars

\* Every map call keeps the types, and what a call needs to go on.
LEMMA TypeStep == Typed /\ [Next]_vars => Typed'
<1> SUFFICES ASSUME Typed, [Next]_vars
             PROVE  TypeOK' /\ ArgsGiven'
  BY FiniteStep DEF Typed
<1> USE DEF Steps
<1>1. ASSUME NEW th \in Threads, NEW t \in Targets, NEW seq \in Seqs,
             Call(th, t, seq)
      PROVE  TypeOK' /\ ArgsGiven'
  <2>1. clock + 1 \in 0 .. MaxClock
    BY <1>1, StoreAssumption DEF Call, Typed, TypeOK
  <2>2. PICK item \in Items : /\ item = [seq |-> seq, updated |-> clock + 1]
                              /\ arg' = [arg EXCEPT ![th] = <<t, item>>]
    BY <1>1, <2>1 DEF Items, Call
  <2>3. /\ pc' = [pc EXCEPT ![th] = "check"] /\ pc'[th] = "check"
        /\ \A other \in Threads \ {th} : pc'[other] = pc[other]
        /\ raced' \in BOOLEAN /\ overlapped' \in BOOLEAN
    BY <1>1, OneMoves DEF Typed, Call
  <2>4. pc[th] = "idle" /\ clock' = clock + 1 /\ UNCHANGED <<items, shard, count, victim>>
    BY <1>1 DEF Call, scan
  <2>5. TypeOK'
    BY <2>1, <2>2, <2>3, <2>4 DEF Typed, TypeOK
  <2>6. ArgsGiven'
    BY <2>2, <2>3, <2>4 DEF Typed, TypeOK, ArgsGiven, Storing, Target, Item
  <2> QED
    BY <2>5, <2>6
<1>2. ASSUME NEW th \in Threads,
             Check(th) \/ ContainsKey(th) \/ CallGc(th)
      PROVE  TypeOK' /\ ArgsGiven'
  <2>1. PICK step \in Steps :
          /\ Enter(th, step) \/ Goto(th, step)
          /\ pc[th] \notin Storing => step = "gc_len"
          /\ step \in {"idle", "contains", "insert", "len", "gc_len"}
          /\ pc[th] \in {"check", "contains", "idle"}
          /\ arg' = arg \/ (step = "idle" /\ arg' = [arg EXCEPT ![th] = NoArg])
    BY <1>2 DEF Check, ContainsKey, CallGc, Storing
  <2>2. /\ pc' = [pc EXCEPT ![th] = step] /\ pc'[th] = step
        /\ \A other \in Threads \ {th} : pc'[other] = pc[other]
        /\ raced' \in BOOLEAN /\ overlapped' \in BOOLEAN
    BY <2>1, OneMoves DEF Typed
  <2>3. UNCHANGED <<items, clock, shard, count, victim>>
    BY <1>2 DEF Check, ContainsKey, CallGc, scan
  <2>4. TypeOK'
    BY <2>1, <2>2, <2>3 DEF Typed, TypeOK, NoArg
  <2>5. ArgsGiven'
    BY <2>1, <2>2, <2>3 DEF Typed, TypeOK, ArgsGiven, Storing, Target, Item
  <2> QED
    BY <2>4, <2>5
<1>3. ASSUME NEW th \in Threads, Len(th) \/ GcLen(th)
      PROVE  TypeOK' /\ ArgsGiven'
  BY <1>3, AddUpTyped DEF Len, GcLen, Storing
<1>4. ASSUME NEW th \in Threads, Evict(th) \/ GcEvict(th)
      PROVE  TypeOK' /\ ArgsGiven'
  BY <1>4, FindOldestTyped DEF Evict, GcEvict
<1>5. ASSUME NEW th \in Threads, EvictRemove(th) \/ GcRemove(th)
      PROVE  TypeOK' /\ ArgsGiven'
  BY <1>5, RemoveTyped DEF EvictRemove, GcRemove
<1>6. ASSUME NEW th \in Threads, Insert(th)
      PROVE  TypeOK' /\ ArgsGiven'
  <2>1. /\ pc[th] = "insert" /\ Target(th) \in Targets /\ Item(th) \in Items
        /\ items' = [items EXCEPT ![Target(th)] = Item(th)]
        /\ arg' = [arg EXCEPT ![th] = NoArg]
        /\ UNCHANGED <<clock, shard, count, victim>>
    BY <1>6 DEF Insert, scan, Typed, ArgsGiven, Storing
  <2>2. /\ pc' = [pc EXCEPT ![th] = "idle"] /\ pc'[th] = "idle"
        /\ \A other \in Threads \ {th} : pc'[other] = pc[other]
        /\ raced' \in BOOLEAN /\ overlapped' \in BOOLEAN
    BY <1>6, OneMoves DEF Typed, Insert
  <2>3. TypeOK'
    BY <2>1, <2>2 DEF Typed, TypeOK, NoArg
  <2>4. ArgsGiven'
    BY <2>1, <2>2 DEF Typed, TypeOK, ArgsGiven, Storing, Target, Item
  <2> QED
    BY <2>3, <2>4
<1>7. CASE UNCHANGED vars
  BY <1>7 DEF vars, scan, races, Typed, TypeOK, ArgsGiven, Target, Item
<1> QED
  BY <1>1, <1>2, <1>3, <1>4, <1>5, <1>6, <1>7 DEF Next, Running

-----------------------------------------------------------------------------
(***************************************************************************)
(* A call nobody overlaps finds things as they are.                        *)
(***************************************************************************)

\* A step that changes nothing in the map keeps what was found there.
LEMMA MapUnchanged ==
    ASSUME UNCHANGED items
    PROVE  /\ Stored' = Stored
           /\ WithinCapacity' <=> WithinCapacity
           /\ \A t : Oldest(t)' <=> Oldest(t)
           /\ \A n : Before(n)' = Before(n)
BY DEF Stored, WithinCapacity, Oldest, Before

LEMMA ArgUnchanged ==
    ASSUME NEW th \in Threads, UNCHANGED <<items, arg>>
    PROVE  /\ Target(th)' = Target(th) /\ Item(th)' = Item(th)
           /\ Refused(th)' <=> Refused(th)
BY DEF Stored, Target, Item, Refused

\* The shards of len() add up to what is stored.
LEMMA AddUpExact ==
    ASSUME Typed, NEW th \in Threads, NEW next, AddUp(th, next),
           count[th] = Cardinality(Before(shard[th]))
    PROVE  /\ Last(th) => Total(th) = Cardinality(Stored)
           /\ count'[th] = Cardinality(Before(shard'[th]))
<1>1. PICK n \in Nat : n = Cardinality(InShard(th))
  BY NextBefore
<1>2. Total(th) = Cardinality(Before(shard[th] + 1))
  BY NextBefore DEF Total
<1>3. Last(th) => Total(th) = Cardinality(Stored)
  BY <1>2, NextBefore
<1>4. /\ shard'[th] = IF Last(th) THEN 0 ELSE shard[th] + 1
      /\ count'[th] = IF Last(th) THEN 0 ELSE Total(th)
  BY DEF AddUp, NextShard, Typed, TypeOK
<1>5. Cardinality(Before(0)) = 0
  BY NextBefore, FS_EmptySet
<1> QED
  BY <1>2, <1>3, <1>4, <1>5

\* The walk of evict_oldest finds the oldest item, or nothing in an empty map.
LEMMA FindOldestExact ==
    ASSUME Typed, NEW th \in Threads, NEW found, NEW notFound,
           FindOldest(th, found, notFound), Found(th)
    PROVE  \/ /\ Last(th) /\ Goto(th, found) /\ Oldest(victim'[th])
           \/ /\ Last(th) /\ Goto(th, notFound) /\ Stored = {}
           \/ /\ ~Last(th) /\ Goto(th, pc[th])
              /\ \/ victim'[th] = NoTarget /\ Before(shard'[th]) = {}
                 \/ OldestOf(Before(shard'[th]), victim'[th])
<1>1. \A t \in Stored : items[t].updated \in Int
  BY StoreAssumption DEF Typed, TypeOK, Stored, Items
<1>2. /\ Before(shard[th] + 1) = Before(shard[th]) \cup InShard(th)
      /\ Last(th) => Before(shard[th] + 1) = Stored
      /\ Before(shard[th]) \subseteq Stored
      /\ InShard(th) \subseteq Stored
      /\ NoTarget \notin Stored
  BY NextBefore, StoreAssumption DEF Before, InShard, Stored
<1>3. ~Last(th) => shard'[th] = shard[th] + 1
  BY DEF FindOldest, NextShard, Typed, TypeOK
<1>4. CASE \E t \in Candidates(th) :
             /\ \A u \in Candidates(th) : items[t].updated <= items[u].updated
             /\ victim' = [victim EXCEPT ![th] = t]
             /\ Goto(th, IF Last(th) THEN found ELSE pc[th])
  <2>1. PICK t \in Candidates(th) :
             /\ \A u \in Candidates(th) : items[t].updated <= items[u].updated
             /\ victim' = [victim EXCEPT ![th] = t]
             /\ Goto(th, IF Last(th) THEN found ELSE pc[th])
    BY <1>4
  <2>2. victim'[th] = t
    BY <2>1 DEF Typed, TypeOK
  <2>3. CASE victim[th] = NoTarget /\ Before(shard[th]) = {}
    <3>1. Candidates(th) = InShard(th) /\ Before(shard[th] + 1) = InShard(th)
      BY <1>2, <2>3 DEF Candidates
    <3>2. OldestOf(Before(shard[th] + 1), t)
      BY <2>1, <3>1 DEF OldestOf
    <3> QED
      BY <1>2, <1>3, <2>1, <2>2, <3>2 DEF OldestOf, Oldest
  <2>4. CASE OldestOf(Before(shard[th]), victim[th])
    <3>1. /\ victim[th] \in Before(shard[th]) /\ victim[th] \in Candidates(th)
          /\ Candidates(th) = InShard(th) \cup {victim[th]}
          /\ t \in Before(shard[th] + 1)
      BY <1>2, <2>1, <2>4 DEF OldestOf, Candidates
    <3>2. ASSUME NEW u \in Before(shard[th])
          PROVE  items[t].updated <= items[u].updated
      <4>1. /\ items[t].updated <= items[victim[th]].updated
            /\ items[victim[th]].updated <= items[u].updated
        BY <2>1, <2>4, <3>1 DEF OldestOf
      <4>2. /\ items[t].updated \in Int /\ items[u].updated \in Int
            /\ items[victim[th]].updated \in Int
        BY <1>1, <1>2, <3>1
      <4> QED
        BY <4>1, <4>2
    <3>3. OldestOf(Before(shard[th] + 1), t)
      BY <1>2, <2>1, <3>1, <3>2 DEF OldestOf
    <3> QED
      BY <1>2, <1>3, <2>1, <2>2, <3>3 DEF OldestOf, Oldest
  <2> QED
    BY <2>3, <2>4 DEF Found
<1>5. CASE /\ Candidates(th) = {}
           /\ Goto(th, IF Last(th) THEN notFound ELSE pc[th])
           /\ UNCHANGED victim
  <2>1. victim[th] = NoTarget /\ InShard(th) = {}
    BY <1>5 DEF Candidates
  <2>2. Before(shard[th]) = {}
    BY <1>2, <2>1 DEF Found, OldestOf
  <2>3. Before(shard[th] + 1) = {}
    BY <1>2, <2>1, <2>2
  <2> QED
    BY <1>2, <1>3, <1>5, <2>1, <2>3
<1> QED
  BY <1>4, <1>5 DEF FindOldest

\* A thread that begins a call with the store to itself.
LEMMA EnterUndisturbed ==
    ASSUME Typed, Typed', NEW th \in Threads, pc[th] = "idle",
           Enter(th, "check") \/ Enter(th, "gc_len"), ~overlapped',
           UNCHANGED <<items, scan, victim>>
    PROVE  Undisturbed(th)'
<1>1. pc'[th] \in {"check", "gc_len"} /\ Alone(th)'
  BY OneMoves DEF Typed
<1>2. count'[th] = 0 /\ shard'[th] = 0
  BY DEF Typed, ArgsGiven, scan
<1>3. Before(0)' = {}
  BY NextBefore, MapUnchanged
<1>4. count'[th] = Cardinality(Before(shard[th])')
  BY <1>2, <1>3, FS_EmptySet DEF Before
<1> QED
  BY <1>1, <1>4 DEF Undisturbed, Storing

\* A map call of a thread that has the store to itself.
LEMMA RunningUndisturbed ==
    ASSUME Typed, Typed', NEW th \in Threads, Undisturbed(th), Running(th),
           ~overlapped', pc'[th] # "idle"
    PROVE  Undisturbed(th)'
<1>1. ASSUME NEW step, Goto(th, step)
      PROVE  pc'[th] = step /\ Alone(th)'
  BY <1>1, OneMoves DEF Typed
<1>2. Cardinality(Stored) \in Nat /\ MaxItems \in Nat
  BY FS_CardinalityType, StoreAssumption DEF Typed
<1>3. CASE Check(th)
  <2>1. Goto(th, "contains") /\ ~Refused(th) /\ UNCHANGED <<items, arg>>
    BY <1>1, <1>3 DEF Check
  <2>2. ~Refused(th)'
    BY <2>1, ArgUnchanged
  <2> QED
    BY <1>1, <2>1, <2>2 DEF Undisturbed, Storing
<1>4. CASE ContainsKey(th)
  <2>1. /\ Goto(th, IF Target(th) \in Stored THEN "insert" ELSE "len")
        /\ UNCHANGED <<items, arg, count, shard>> /\ pc[th] = "contains"
    BY <1>4 DEF ContainsKey, scan
  <2>2. pc'[th] = (IF Target(th) \in Stored THEN "insert" ELSE "len") /\ Alone(th)'
    BY <1>1, <2>1
  <2>3. ~Refused(th)' /\ Target(th)' = Target(th) /\ Stored' = Stored
    BY <2>1, ArgUnchanged, MapUnchanged DEF Undisturbed, Storing
  <2>4. count'[th] = 0 /\ shard'[th] = 0
    BY <2>1 DEF Typed, ArgsGiven
  <2>5. count'[th] = Cardinality(Before(shard[th])')
    BY <2>1, <2>4, NextBefore, MapUnchanged, FS_EmptySet DEF Before
  <2> QED
    BY <2>2, <2>3, <2>5 DEF Undisturbed, Storing
<1>5. CASE Len(th)
  <2>1. PICK next : /\ next = IF Total(th) >= MaxItems THEN "evict" ELSE "insert"
                    /\ AddUp(th, next)
    BY <1>5 DEF Len
  <2>2. /\ pc[th] = "len" /\ count[th] = Cardinality(Before(shard[th]))
        /\ ~Refused(th) /\ Target(th) \notin Stored /\ UNCHANGED <<items, arg, victim>>
    BY <1>5, <2>1 DEF Len, AddUp, Undisturbed, Storing
  <2>3. /\ ~Refused(th)' /\ Target(th)' \notin Stored'
        /\ \A n : Before(n)' = Before(n)
        /\ Cardinality(Stored)' = Cardinality(Stored)
    BY <2>2, ArgUnchanged, MapUnchanged
  <2>4. /\ Last(th) => Total(th) = Cardinality(Stored)
        /\ count'[th] = Cardinality(Before(shard'[th]))
    BY <2>1, <2>2, AddUpExact
  <2>5. CASE ~Last(th)
    <3>1. pc'[th] = "len" /\ Alone(th)'
      BY <1>1, <2>1, <2>2, <2>5 DEF AddUp
    <3>2. count'[th] = Cardinality(Before(shard[th])')
      BY <2>2, <2>4 DEF Before, Stored
    <3> QED
      BY <2>3, <3>1, <3>2 DEF Undisturbed, Storing
  <2>6. CASE Last(th) /\ next = "evict"
    <3>1. pc'[th] = "evict" /\ Alone(th)'
      BY <1>1, <2>1, <2>6 DEF AddUp
    <3>2. Cardinality(Stored)' >= MaxItems
      BY <2>1, <2>3, <2>4, <2>6
    <3>3. victim'[th] = NoTarget /\ shard'[th] = 0
      BY <2>1, <2>2, <2>6 DEF Typed, TypeOK, ArgsGiven, AddUp, NextShard
    <3>4. Found(th)'
      BY <2>3, <3>3, NextBefore DEF Found
    <3> QED
      BY <2>3, <3>1, <3>2, <3>4 DEF Undisturbed, Storing
  <2>7. CASE Last(th) /\ next = "insert"
    <3>1. pc'[th] = "insert" /\ Alone(th)'
      BY <1>1, <2>1, <2>7 DEF AddUp
    <3> QED
      BY <2>3, <3>1 DEF Undisturbed, Storing
  <2> QED
    BY <2>1, <2>5, <2>6, <2>7
<1>6. CASE Evict(th)
  <2>1. /\ FindOldest(th, "remove", "insert") /\ pc[th] = "evict"
        /\ Found(th) /\ ~Refused(th) /\ Target(th) \notin Stored
        /\ Cardinality(Stored) >= MaxItems /\ UNCHANGED <<items, arg>>
    BY <1>6 DEF Evict, FindOldest, Undisturbed, Storing
  <2>2. /\ ~Refused(th)' /\ Target(th)' \notin Stored'
        /\ \A n : Before(n)' = Before(n)
        /\ \A t : Oldest(t)' <=> Oldest(t)
        /\ Cardinality(Stored)' = Cardinality(Stored)
    BY <2>1, ArgUnchanged, MapUnchanged
  <2>3. CASE Last(th) /\ Goto(th, "remove") /\ Oldest(victim'[th])
    <3>1. Oldest(victim[th])'
      BY <2>1, <2>3 DEF Oldest, Stored
    <3> QED
      BY <1>1, <2>1, <2>2, <2>3, <3>1 DEF Undisturbed, Storing
  <2>4. CASE Last(th) /\ Goto(th, "insert") /\ Stored = {}
    BY <1>1, <2>2, <2>4 DEF Undisturbed, Storing
  <2>5. CASE /\ ~Last(th) /\ Goto(th, pc[th])
             /\ \/ victim'[th] = NoTarget /\ Before(shard'[th]) = {}
                \/ OldestOf(Before(shard'[th]), victim'[th])
    <3>1. Found(th)'
      BY <2>1, <2>5 DEF Found, OldestOf, Before, Stored
    <3> QED
      BY <1>1, <2>1, <2>2, <2>5, <3>1 DEF Undisturbed, Storing
  <2> QED
    BY <2>1, <2>3, <2>4, <2>5, FindOldestExact
<1>7. CASE EvictRemove(th)
  <2>1. /\ Target(th) \notin Stored /\ Oldest(victim[th]) /\ pc[th] = "remove"
        /\ items' = [items EXCEPT ![victim[th]] = NoItem]
        /\ Goto(th, "insert") /\ UNCHANGED arg
    BY <1>7 DEF EvictRemove, RemoveVictim, Undisturbed, Storing
  <2>2. Stored' = Stored \ {victim[th]} /\ Target(th)' = Target(th)
    BY <2>1, StoredAfter DEF Typed, Oldest, Stored, Target
  <2>3. ~Refused(th)'
    BY <2>1, <2>2 DEF Refused
  <2> QED
    BY <1>1, <2>1, <2>3 DEF Undisturbed, Storing
<1>8. CASE Insert(th)
  BY <1>1, <1>8 DEF Insert
<1>9. CASE GcLen(th)
  <2>1. PICK next : /\ next = IF Total(th) > MaxItems THEN "gc_evict" ELSE "idle"
                    /\ AddUp(th, next)
    BY <1>9 DEF GcLen
  <2>2. /\ pc[th] = "gc_len" /\ count[th] = Cardinality(Before(shard[th]))
        /\ UNCHANGED <<items, victim>>
    BY <1>9, <2>1 DEF GcLen, AddUp, Undisturbed
  <2>3. /\ \A n : Before(n)' = Before(n)
        /\ Cardinality(Stored)' = Cardinality(Stored)
    BY <2>2, MapUnchanged
  <2>4. /\ Last(th) => Total(th) = Cardinality(Stored)
        /\ count'[th] = Cardinality(Before(shard'[th]))
    BY <2>1, <2>2, AddUpExact
  <2>5. CASE ~Last(th)
    <3>1. pc'[th] = "gc_len" /\ Alone(th)'
      BY <1>1, <2>1, <2>2, <2>5 DEF AddUp
    <3>2. count'[th] = Cardinality(Before(shard[th])')
      BY <2>2, <2>4 DEF Before, Stored
    <3> QED
      BY <3>1, <3>2 DEF Undisturbed, Storing
  <2>6. CASE Last(th) /\ next = "gc_evict"
    <3>1. pc'[th] = "gc_evict" /\ Alone(th)'
      BY <1>1, <2>1, <2>6 DEF AddUp
    <3>2. Cardinality(Stored)' > MaxItems
      BY <2>1, <2>3, <2>4, <2>6
    <3>3. victim'[th] = NoTarget /\ shard'[th] = 0
      BY <2>1, <2>2, <2>6 DEF Typed, TypeOK, ArgsGiven, AddUp, NextShard
    <3>4. Found(th)'
      BY <2>3, <3>3, NextBefore DEF Found
    <3> QED
      BY <3>1, <3>2, <3>4 DEF Undisturbed, Storing
  <2>7. CASE Last(th) /\ next = "idle"
    BY <1>1, <2>1, <2>7 DEF AddUp
  <2> QED
    BY <2>1, <2>5, <2>6, <2>7
<1>10. CASE GcEvict(th)
  <2>1. /\ FindOldest(th, "gc_remove", "gc_len") /\ pc[th] = "gc_evict"
        /\ Found(th) /\ Cardinality(Stored) > MaxItems /\ UNCHANGED items
    BY <1>10 DEF GcEvict, FindOldest, Undisturbed
  <2>2. /\ \A n : Before(n)' = Before(n)
        /\ \A t : Oldest(t)' <=> Oldest(t)
        /\ Cardinality(Stored)' = Cardinality(Stored)
    BY <2>1, MapUnchanged
  <2>3. CASE Last(th) /\ Goto(th, "gc_remove") /\ Oldest(victim'[th])
    <3>1. Oldest(victim[th])'
      BY <2>1, <2>3 DEF Oldest, Stored
    <3> QED
      BY <1>1, <2>1, <2>2, <2>3, <3>1 DEF Undisturbed, Storing
  <2>4. CASE Last(th) /\ Goto(th, "gc_len") /\ Stored = {}
    BY <1>2, <2>1, <2>4, FS_EmptySet
  <2>5. CASE /\ ~Last(th) /\ Goto(th, pc[th])
             /\ \/ victim'[th] = NoTarget /\ Before(shard'[th]) = {}
                \/ OldestOf(Before(shard'[th]), victim'[th])
    <3>1. Found(th)'
      BY <2>1, <2>5 DEF Found, OldestOf, Before, Stored
    <3> QED
      BY <1>1, <2>1, <2>2, <2>5, <3>1 DEF Undisturbed, Storing
  <2> QED
    BY <2>1, <2>3, <2>4, <2>5, FindOldestExact
<1>11. CASE GcRemove(th)
  <2>1. pc[th] = "gc_remove" /\ Goto(th, "gc_len") /\ UNCHANGED scan
    BY <1>11 DEF GcRemove, RemoveVictim
  <2>2. count'[th] = 0 /\ shard'[th] = 0
    BY <2>1 DEF Typed, ArgsGiven, scan
  <2>3. Before(shard[th])' = {}
    BY <2>2, StoreAssumption DEF Before, Stored
  <2> QED
    BY <1>1, <2>1, <2>2, <2>3, FS_EmptySet DEF Undisturbed, Storing
<1> QED
  BY <1>3, <1>4, <1>5, <1>6, <1>7, <1>8, <1>9, <1>10, <1>11 DEF Running

-----------------------------------------------------------------------------
LEMMA InitIInv == Init => IInv
<1> SUFFICES ASSUME Init
             PROVE  IInv
  OBVIOUS
<1>1. TypeOK
  <2>1. 0 \in 0 .. MaxClock /\ 0 \in 0 .. Shards - 1
    BY StoreAssumption
  <2>2. arg \in [Threads -> (Targets \cup {NoTarget}) \X (Items \cup {NoItem})]
    BY DEF Init, NoArg
  <2> QED
    BY <2>1, <2>2 DEF Init, TypeOK, Steps
<1>2. Stored = {}
  BY DEF Init, Stored
<1>3. IsFiniteSet(Stored)
  BY <1>2, FS_EmptySet
<1>4. ArgsGiven
  BY DEF ArgsGiven, Init, Storing
<1> QED
  BY <1>1, <1>3, <1>4 DEF IInv, Typed, Init

LEMMA StepIInv == IInv /\ [Next]_vars => IInv'
<1> SUFFICES ASSUME IInv, [Next]_vars
             PROVE  IInv'
  OBVIOUS
<1>1. Typed /\ Typed'
  BY TypeStep DEF IInv
<1>2. ASSUME NEW th \in Threads, NEW step, Enter(th, step) \/ Goto(th, step),
             ~overlapped' /\ pc'[th] # "idle" => Undisturbed(th)'
      PROVE  IInv'
  <2>1. overlapped' => raced'
    BY <1>1, <1>2, OneMoves DEF IInv, Typed
  <2>2. ASSUME ~overlapped', NEW other \in Threads, pc'[other] # "idle"
        PROVE  Undisturbed(other)'
    <3>1. Alone(th)'
      BY <1>1, <1>2, <2>2, OneMoves DEF Typed
    <3>2. other = th
      BY <2>2, <3>1 DEF Alone
    <3> QED
      BY <1>2, <2>2, <3>2
  <2> QED
    BY <1>1, <2>1, <2>2 DEF IInv
<1>3. ASSUME NEW th \in Threads, NEW t \in Targets, NEW seq \in Seqs,
             Call(th, t, seq)
      PROVE  IInv'
  BY <1>1, <1>2, <1>3, EnterUndisturbed DEF Call
<1>4. ASSUME NEW th \in Threads, CallGc(th)
      PROVE  IInv'
  BY <1>1, <1>2, <1>4, EnterUndisturbed DEF CallGc
<1>5. ASSUME NEW th \in Threads, Running(th)
      PROVE  IInv'
  <2>1. PICK step : Goto(th, step)
    BY <1>5 DEF Running, Check, ContainsKey, Len, Evict, EvictRemove, Insert,
       GcLen, GcEvict, GcRemove, AddUp, FindOldest, RemoveVictim
  <2>2. pc[th] # "idle"
    BY <1>5 DEF Running, Check, ContainsKey, Len, Evict, EvictRemove, Insert,
       GcLen, GcEvict, GcRemove
  <2>3. ~overlapped' => Undisturbed(th)
    BY <1>1, <2>1, <2>2, OneMoves DEF IInv, Typed
  <2> QED
    BY <1>1, <1>2, <1>5, <2>1, <2>3, RunningUndisturbed
<1>6. CASE UNCHANGED vars
  BY <1>6 DEF vars, scan, races, IInv, Typed, TypeOK, ArgsGiven, Undisturbed,
     Alone, Found, OldestOf, Before, Stored, Oldest, Refused, Target, Item
<1> QED
  BY <1>3, <1>4, <1>5, <1>6 DEF Next

\* IInv is inductive, however often calls have overlapped.
LEMMA InductiveInvariant == Spec => []IInv
BY InitIInv, StepIInv, PTL DEF Spec

\* While no two calls have ever overlapped the store is in order.
LEMMA OrderlyStep ==
    ASSUME MaxItems # 0, IInv, Orderly, Next, ~raced'
    PROVE  Orderly'
<1>1. PICK th \in Threads :
        \/ \E t \in Targets, seq \in Seqs : Call(th, t, seq)
        \/ CallGc(th)
        \/ Running(th)
  BY DEF Next
<1>2. PICK step : Enter(th, step) \/ Goto(th, step)
  BY <1>1 DEF Call, CallGc, Running, Check, ContainsKey, Len, Evict, EvictRemove,
     Insert, GcLen, GcEvict, GcRemove, AddUp, FindOldest, RemoveVictim
<1>3. Typed /\ Typed' /\ ~overlapped' /\ Alone(th)' /\ pc'[th] = step
  BY <1>2, StepIInv, OneMoves DEF IInv, Typed
<1>4. Running(th) => Undisturbed(th)
  <2>1. Running(th) => pc[th] # "idle"
    BY DEF Running, Check, ContainsKey, Len, Evict, EvictRemove, Insert, GcLen,
       GcEvict, GcRemove
  <2>2. Running(th) => \E goto : Goto(th, goto)
    BY DEF Running, Check, ContainsKey, Len, Evict, EvictRemove, Insert, GcLen,
       GcEvict, GcRemove, AddUp, FindOldest, RemoveVictim
  <2> QED
    BY <1>3, <2>1, <2>2, OneMoves DEF IInv, Typed
<1>5. /\ Cardinality(Stored) \in Nat /\ Cardinality(Stored') \in Nat
      /\ MaxItems \in Nat /\ MaxItems >= 1 /\ Cardinality(Stored) <= MaxItems
  BY <1>3, FS_CardinalityType, StoreAssumption DEF Typed, Orderly, WithinCapacity
<1>6. ASSUME WithinCapacity', HasRoom(th)'
      PROVE  Orderly'
  <2>1. ASSUME NEW other \in Threads
        PROVE  HasRoom(other)'
    BY <1>3, <1>6 DEF HasRoom, Alone
  <2> QED
    BY <1>6, <2>1 DEF Orderly
<1>7. ASSUME UNCHANGED items, step # "insert"
      PROVE  Orderly'
  <2>1. WithinCapacity'
    BY <1>7, MapUnchanged DEF Orderly
  <2> QED
    BY <1>3, <1>6, <1>7, <2>1 DEF HasRoom
<1>8. ASSUME UNCHANGED <<items, arg>>,
             Target(th) \in Stored \/ Cardinality(Stored) < MaxItems
      PROVE  Orderly'
  <2>1. WithinCapacity'
    BY <1>8, MapUnchanged DEF Orderly
  <2>2. HasRoom(th)'
    BY <1>8, ArgUnchanged, MapUnchanged DEF HasRoom
  <2> QED
    BY <1>6, <2>1, <2>2
<1>9. CASE \E t \in Targets, seq \in Seqs : Call(th, t, seq)
  <2>1. UNCHANGED items /\ pc'[th] = "check"
    BY <1>3, <1>9, OneMoves DEF Call, IInv, Typed
  <2> QED
    BY <1>3, <1>7, <2>1
<1>10. CASE CallGc(th)
  <2>1. UNCHANGED items /\ pc'[th] = "gc_len"
    BY <1>3, <1>10, OneMoves DEF CallGc, IInv, Typed
  <2> QED
    BY <1>3, <1>7, <2>1
<1>11. CASE Check(th)
  <2>1. UNCHANGED items /\ pc'[th] \in {"idle", "contains"}
    BY <1>3, <1>11, OneMoves DEF Check, IInv, Typed
  <2> QED
    BY <1>3, <1>7, <2>1
<1>12. CASE ContainsKey(th)
  <2>1. /\ UNCHANGED <<items, arg>>
        /\ Target(th) \notin Stored => pc'[th] = "len"
    BY <1>3, <1>12, OneMoves DEF ContainsKey, IInv, Typed
  <2> QED
    BY <1>3, <1>7, <1>8, <2>1
<1>13. CASE Len(th)
  <2>1. PICK next : /\ next = IF Total(th) >= MaxItems THEN "evict" ELSE "insert"
                    /\ AddUp(th, next) /\ pc[th] = "len"
    BY <1>13 DEF Len
  <2>2. Last(th) => Total(th) = Cardinality(Stored)
    BY <1>3, <1>4, <1>13, <2>1, AddUpExact DEF Running, Undisturbed
  <2>3. /\ UNCHANGED <<items, arg>>
        /\ pc'[th] = IF Last(th) THEN next ELSE "len"
    BY <1>3, <2>1, OneMoves DEF AddUp, Typed
  <2> QED
    BY <1>3, <1>5, <1>7, <1>8, <2>1, <2>2, <2>3
<1>14. CASE Evict(th)
  <2>1. /\ FindOldest(th, "remove", "insert") /\ Found(th)
        /\ UNCHANGED <<items, arg>> /\ pc[th] = "evict"
    BY <1>4, <1>14 DEF Running, Evict, FindOldest, Undisturbed
  <2>2. pc'[th] \in {"remove", "evict"} \/ Stored = {}
    BY <1>3, <2>1, FindOldestExact, OneMoves DEF Typed
  <2>3. Stored = {} => Cardinality(Stored) < MaxItems
    BY <1>5, FS_EmptySet
  <2> QED
    BY <1>3, <1>7, <1>8, <2>1, <2>2, <2>3
<1>15. CASE EvictRemove(th)
  <2>1. /\ Oldest(victim[th]) /\ UNCHANGED arg
        /\ items' = [items EXCEPT ![victim[th]] = NoItem]
    BY <1>4, <1>15 DEF Running, EvictRemove, RemoveVictim, Undisturbed
  <2>2. Stored' = Stored \ {victim[th]} /\ victim[th] \in Stored
    BY <1>3, <2>1, StoredAfter DEF Typed, Oldest, Stored
  <2>3. Cardinality(Stored \ {victim[th]}) = Cardinality(Stored) - 1
    BY <1>3, <2>2, FS_RemoveElement DEF Typed
  <2>4. Cardinality(Stored') < MaxItems
    BY <1>5, <2>2, <2>3
  <2> QED
    BY <1>5, <1>6, <2>4 DEF WithinCapacity, HasRoom
<1>16. CASE Insert(th)
  <2>1. /\ Target(th) \in Targets /\ Item(th) \in Items
        /\ Target(th) \in Stored \/ Cardinality(Stored) < MaxItems
        /\ items' = [items EXCEPT ![Target(th)] = Item(th)]
        /\ pc'[th] = "idle"
    BY <1>3, <1>16, OneMoves
    DEF Insert, Typed, ArgsGiven, Orderly, HasRoom, Storing
  <2>2. Item(th) # NoItem
    BY <2>1, StoreAssumption DEF Items
  <2>3. Stored' = Stored \cup {Target(th)}
    BY <1>3, <2>1, <2>2, StoredAfter DEF Typed
  <2>4. CASE Target(th) \in Stored
    <3>1. Stored' = Stored
      BY <2>3, <2>4
    <3> QED
      BY <1>5, <1>6, <2>1, <3>1 DEF WithinCapacity, HasRoom
  <2>5. CASE Target(th) \notin Stored
    <3>1. Cardinality(Stored \cup {Target(th)}) = Cardinality(Stored) + 1
      BY <1>3, <2>5, FS_AddElement DEF Typed
    <3>2. Cardinality(Stored') <= MaxItems
      BY <1>5, <2>1, <2>3, <2>5, <3>1
    <3> QED
      BY <1>6, <2>1, <3>2 DEF WithinCapacity, HasRoom
  <2> QED
    BY <2>4, <2>5
<1>17. CASE GcLen(th)
  <2>1. UNCHANGED items /\ pc'[th] # "insert"
    BY <1>3, <1>17, OneMoves DEF GcLen, AddUp, Typed
  <2> QED
    BY <1>3, <1>7, <2>1
<1>18. CASE GcEvict(th) \/ GcRemove(th)
  BY <1>4, <1>5, <1>18 DEF Running, GcEvict, GcRemove, Undisturbed
<1> QED
  BY <1>1, <1>9, <1>10, <1>11, <1>12, <1>13, <1>14, <1>15, <1>16, <1>17, <1>18
  DEF Running

-----------------------------------------------------------------------------
(***************************************************************************)
(* The theorems.                                                           *)
(***************************************************************************)

\* Every variable keeps its type, whatever the capacity.
THEOREM TypeCorrect == Spec => []TypeOK
<1>1. IInv => TypeOK
  BY DEF IInv, Typed
<1> QED
  BY <1>1, InductiveInvariant, PTL

\* Until two calls overlap the store keeps its maximum capacity.
THEOREM CapacityKept == MaxItems # 0 => (Spec => []CapacityUnlessRaced)
<1> SUFFICES ASSUME MaxItems # 0
             PROVE  Spec => []CapacityUnlessRaced
  OBVIOUS
<1> DEFINE CapInv == IInv /\ (~raced => Orderly)
<1>1. Init => CapInv
  <2> SUFFICES ASSUME Init
               PROVE  Orderly
    BY InitIInv
  <2>1. Stored = {}
    BY DEF Init, Stored
  <2>2. WithinCapacity
    BY <2>1, FS_EmptySet, StoreAssumption DEF WithinCapacity
  <2> QED
    BY <2>2 DEF Orderly, HasRoom, Init
<1>2. CapInv /\ [Next]_vars => CapInv'
  <2> SUFFICES ASSUME CapInv, [Next]_vars
               PROVE  ~raced' => Orderly'
    BY StepIInv
  <2>1. CASE Next
    <3>1. ~raced' => ~raced
      <4>1. PICK th \in Threads : \E step : Enter(th, step) \/ Goto(th, step)
        BY <2>1 DEF Next, Call, CallGc, Running, Check, ContainsKey, Len, Evict,
           EvictRemove, Insert, GcLen, GcEvict, GcRemove, AddUp, FindOldest,
           RemoveVictim
      <4> QED
        BY <4>1, OneMoves DEF IInv, Typed
    <3> QED
      BY <2>1, <3>1, OrderlyStep
  <2>2. CASE UNCHANGED vars
    BY <2>2 DEF vars, scan, races, Orderly, WithinCapacity, HasRoom, Stored, Target
  <2> QED
    BY <2>1, <2>2
<1>3. CapInv => CapacityUnlessRaced
  BY DEF Orderly, CapacityUnlessRaced
<1> HIDE DEF CapInv
<1> QED
  BY <1>1, <1>2, <1>3, PTL DEF Spec

\* The steps that touch the map, in a call that nobody overlaps.
LEMMA UndisturbedChange ==
    ASSUME IInv, [Next]_vars, ~overlapped', NEW t \in Stored, items'[t] # items[t]
    PROVE  \E th \in Threads :
             /\ Undisturbed(th)
             /\ \/ /\ pc[th] \in {"remove", "gc_remove"} /\ victim[th] = t
                   /\ items'[t] = NoItem
                \/ /\ pc[th] = "insert" /\ Target(th) = t
                   /\ items'[t] = Item(th) /\ items'[t] # NoItem
                   /\ Item(th) \in Items
<1>1. PICK th \in Threads : EvictRemove(th) \/ Insert(th) \/ GcRemove(th)
  BY DEF Next, Running, Call, CallGc, Check, ContainsKey, Len, Evict, GcLen, GcEvict,
     AddUp, FindOldest, vars
<1>2. PICK step : Goto(th, step)
  BY <1>1 DEF EvictRemove, Insert, GcRemove, RemoveVictim
<1>3. TypeOK /\ ArgsGiven /\ t \in Targets
  BY DEF IInv, Typed, Stored
<1>4. Undisturbed(th)
  BY <1>1, <1>2, <1>3, OneMoves DEF IInv, EvictRemove, Insert, GcRemove
<1>5. CASE EvictRemove(th) \/ GcRemove(th)
  BY <1>3, <1>4, <1>5 DEF EvictRemove, GcRemove, RemoveVictim, TypeOK
<1>6. CASE Insert(th)
  <2>1. Target(th) \in Targets /\ Item(th) \in Items
    BY <1>3, <1>6 DEF Insert, ArgsGiven, Storing
  <2>2. Item(th) # NoItem
    BY <2>1, StoreAssumption DEF Items
  <2> QED
    BY <1>3, <1>4, <1>6, <2>1, <2>2 DEF Insert, TypeOK
<1> QED
  BY <1>1, <1>5, <1>6

\* An item that is replaced by a call that no other overlaps gives way to a
\* newer one, whatever the store has been through.
THEOREM NewerReplacesOlder == Spec => SeqOnlyGrows
<1>1. IInv /\ [Next]_vars =>
        [\A t \in Stored :
           ~overlapped' /\ items'[t] # NoItem /\ items'[t] # items[t] =>
               items'[t].seq > items[t].seq]_vars
  <2> SUFFICES ASSUME IInv, [Next]_vars, NEW t \in Stored,
                      ~overlapped', items'[t] # NoItem, items'[t] # items[t]
               PROVE  items'[t].seq > items[t].seq
    OBVIOUS
  <2>1. PICK th \in Threads : /\ Undisturbed(th) /\ pc[th] = "insert"
                              /\ Target(th) = t /\ items'[t] = Item(th)
                              /\ Item(th) \in Items
    BY UndisturbedChange
  <2>2. ~Refused(th)
    BY <2>1 DEF Undisturbed, Storing
  <2>3. ~(items[t].seq >= Item(th).seq)
    BY <2>1, <2>2 DEF Refused
  <2>4. items[t] \in Items
    BY DEF IInv, Typed, TypeOK, Stored
  <2>5. items[t].seq \in Int /\ Item(th).seq \in Int
    BY <2>1, <2>4, StoreAssumption DEF Items
  <2> QED
    BY <2>1, <2>3, <2>5
<1> QED
  BY <1>1, InductiveInvariant, PTL DEF Spec, SeqOnlyGrows

\* A call that no other overlaps pushes out only the item stored longest ago,
\* and only from a full store, whatever the store has been through.
THEOREM OldestIsPushedOut == Spec => EvictsOldestWhenFull
<1>1. IInv /\ [Next]_vars =>
        [\A t \in Stored :
           ~overlapped' /\ items'[t] = NoItem =>
               /\ Cardinality(Stored) >= MaxItems
               /\ Oldest(t)]_vars
  <2> SUFFICES ASSUME IInv, [Next]_vars, NEW t \in Stored,
                      ~overlapped', items'[t] = NoItem
               PROVE  Cardinality(Stored) >= MaxItems /\ Oldest(t)
    OBVIOUS
  <2>1. items'[t] # items[t]
    BY DEF Stored
  <2>2. PICK th \in Threads :
          Undisturbed(th) /\ pc[th] \in {"remove", "gc_remove"} /\ victim[th] = t
    BY <2>1, UndisturbedChange
  <2>3. Cardinality(Stored) \in Nat /\ MaxItems \in Nat
    BY FS_CardinalityType, StoreAssumption DEF IInv, Typed
  <2> QED
    BY <2>2, <2>3 DEF Undisturbed
<1> QED
  BY <1>1, InductiveInvariant, PTL DEF Spec, EvictsOldestWhenFull
=============================================================================
