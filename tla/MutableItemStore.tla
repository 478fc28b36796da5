-------------------------- MODULE MutableItemStore --------------------------
(***************************************************************************)
(* MutableItemStore: the store for BEP 44 mutable items.  store and        *)
(* garbage_collect make several calls to the DashMap, and other threads    *)
(* may run between them.  A call for one key locks the shard of that key   *)
(* and is a step; len and iter lock one shard after the other, and a shard *)
(* is a step.  While a thread walks the map, the best item it has found so *)
(* far keeps the shard of that item locked against writers.                *)
(*                                                                         *)
(* An item is abstracted to its sequence number and last_updated, the time *)
(* its caller stamped it with before calling store.                        *)
(***************************************************************************)
EXTENDS Integers, FiniteSets

CONSTANTS
    Threads,     \* threads that use the store
    Targets,     \* SHA-1 targets items are stored under
    Seqs,        \* sequence numbers
    Shards,      \* number of shards of the map
    ShardOf,     \* the shard a target falls into
    MaxItems,    \* max_items
    MaxClock,    \* bound on the clock
    NoItem,      \* no item at a target
    NoTarget     \* no target

ASSUME StoreAssumption ==
    /\ Seqs \subseteq Int
    /\ Shards \in Nat \ {0}
    /\ ShardOf \in [Targets -> 0 .. Shards - 1]
    /\ MaxItems \in Nat
    /\ MaxClock \in Nat
    /\ NoTarget \notin Targets
    /\ NoItem \notin [seq : Seqs, updated : 0 .. MaxClock]

VARIABLES
    items,       \* the map
    clock,       \* what Instant::now() returns
    pc,          \* the map call a thread makes next
    arg,         \* target and item of the store call a thread is in
    shard,       \* the shard a thread in len or iter comes to next
    count,       \* the items a thread in len has counted
    victim,      \* the key evict_oldest has found, so far
    raced,       \* history: two calls have run at the same time
    overlapped   \* history: so has the call that runs, or ran last

scan == <<shard, count>>

races == <<raced, overlapped>>

vars == <<items, clock, pc, arg, scan, victim, races>>

Items == [seq : Seqs, updated : 0 .. MaxClock]

Steps == {"idle", "check", "contains", "len", "evict", "remove", "insert",
          "gc_len", "gc_evict", "gc_remove"}

Storing == {"check", "contains", "len", "evict", "remove", "insert"}

NoArg == <<NoTarget, NoItem>>

Stored == {t \in Targets : items[t] # NoItem}

Oldest(t) ==
    t \in Stored /\ \A u \in Stored : items[t].updated <= items[u].updated

Init ==
    /\ items = [t \in Targets |-> NoItem]
    /\ clock = 0
    /\ pc = [th \in Threads |-> "idle"]
    /\ arg = [th \in Threads |-> NoArg]
    /\ shard = [th \in Threads |-> 0]
    /\ count = [th \in Threads |-> 0]
    /\ victim = [th \in Threads |-> NoTarget]
    /\ raced = FALSE
    /\ overlapped = FALSE

Alone(th) == \A other \in Threads \ {th} : pc[other] = "idle"

\* A thread begins a call: from here on it matters who else is in one.
Enter(th, step) ==
    /\ pc' = [pc EXCEPT ![th] = step]
    /\ raced' = (raced \/ ~Alone(th))
    /\ overlapped' = ~Alone(th)

Goto(th, step) ==
    /\ pc' = [pc EXCEPT ![th] = step]
    /\ raced' = (raced \/ ~Alone(th))
    /\ overlapped' = (overlapped \/ ~Alone(th))

Target(th) == arg[th][1]

Item(th) == arg[th][2]

-----------------------------------------------------------------------------
(***************************************************************************)
(* store                                                                   *)
(***************************************************************************)

\* The caller stamps an item and calls store; no two stamps are equal.
Call(th, t, seq) ==
    /\ pc[th] = "idle"
    /\ clock < MaxClock
    /\ clock' = clock + 1
    /\ arg' = [arg EXCEPT ![th] = <<t, [seq |-> seq, updated |-> clock + 1]>>]
    /\ Enter(th, "check")
    /\ UNCHANGED <<items, scan, victim>>

\* Fault: an equal sequence number replaces the item.
RefusedIfOlder(th) ==
    /\ Target(th) \in Stored
    /\ items[Target(th)].seq > Item(th).seq

\* The item stored under the target is at least as new: store returns false.
Refused(th) ==
    /\ Target(th) \in Stored
    /\ items[Target(th)].seq >= Item(th).seq

Check(th) ==
    /\ pc[th] = "check"
    /\ \/ /\ Refused(th)
          /\ arg' = [arg EXCEPT ![th] = NoArg]
          /\ Goto(th, "idle")
       \/ /\ ~Refused(th)
          /\ Goto(th, "contains")
          /\ UNCHANGED arg
    /\ UNCHANGED <<items, clock, scan, victim>>

ContainsKey(th) ==
    /\ pc[th] = "contains"
    /\ Goto(th, IF Target(th) \in Stored THEN "insert" ELSE "len")
    /\ UNCHANGED <<items, clock, arg, scan, victim>>

\* Items of the shard a thread in len or iter has come to.
InShard(th) == {t \in Stored : ShardOf[t] = shard[th]}

Last(th) == shard[th] = Shards - 1

NextShard(th) == shard' = [shard EXCEPT ![th] = IF Last(th) THEN 0 ELSE @ + 1]

Total(th) == count[th] + Cardinality(InShard(th))

\* len() adds up the shards, and locks one at a time.
AddUp(th, next) ==
    /\ NextShard(th)
    /\ count' = [count EXCEPT ![th] = IF Last(th) THEN 0 ELSE Total(th)]
    /\ Goto(th, IF Last(th) THEN next ELSE pc[th])
    /\ UNCHANGED <<items, clock, arg, victim>>

\* Fault: room is made one item too late.
LenOffByOne(th) ==
    pc[th] = "len" /\ AddUp(th, IF Total(th) > MaxItems THEN "evict" ELSE "insert")

Len(th) ==
    pc[th] = "len" /\ AddUp(th, IF Total(th) >= MaxItems THEN "evict" ELSE "insert")

\* What min_by_key compares in a shard: its items, and the best from before.
Candidates(th) == InShard(th) \cup ({victim[th]} \ {NoTarget})

\* Fault: the item updated last is found.
FindNewest(th, found, notFound) ==
    /\ \/ \E t \in Candidates(th) :
            /\ \A u \in Candidates(th) : items[t].updated >= items[u].updated
            /\ victim' = [victim EXCEPT ![th] = t]
            /\ Goto(th, IF Last(th) THEN found ELSE pc[th])
       \/ /\ Candidates(th) = {}
          /\ Goto(th, IF Last(th) THEN notFound ELSE pc[th])
          /\ UNCHANGED victim
    /\ NextShard(th)
    /\ UNCHANGED <<items, clock, arg, count>>

\* evict_oldest: walk the shards for the oldest item, then remove whatever is
\* at its key.
FindOldest(th, found, notFound) ==
    /\ \/ \E t \in Candidates(th) :
            /\ \A u \in Candidates(th) : items[t].updated <= items[u].updated
            /\ victim' = [victim EXCEPT ![th] = t]
            /\ Goto(th, IF Last(th) THEN found ELSE pc[th])
       \/ /\ Candidates(th) = {}
          /\ Goto(th, IF Last(th) THEN notFound ELSE pc[th])
          /\ UNCHANGED victim
    /\ NextShard(th)
    /\ UNCHANGED <<items, clock, arg, count>>

\* A walk of another thread has its best item so far in the shard of t.
Locked(th, t) ==
    \E other \in Threads \ {th} :
        /\ pc[other] \in {"evict", "gc_evict"}
        /\ victim[other] # NoTarget
        /\ ShardOf[victim[other]] = ShardOf[t]

RemoveVictim(th, next) ==
    /\ ~Locked(th, victim[th])
    /\ items' = [items EXCEPT ![victim[th]] = NoItem]
    /\ victim' = [victim EXCEPT ![th] = NoTarget]
    /\ Goto(th, next)
    /\ UNCHANGED <<clock, arg, scan>>

Evict(th) == pc[th] = "evict" /\ FindOldest(th, "remove", "insert")

EvictRemove(th) == pc[th] = "remove" /\ RemoveVictim(th, "insert")

Insert(th) ==
    /\ pc[th] = "insert"
    /\ ~Locked(th, Target(th))
    /\ items' = [items EXCEPT ![Target(th)] = Item(th)]
    /\ arg' = [arg EXCEPT ![th] = NoArg]
    /\ Goto(th, "idle")
    /\ UNCHANGED <<clock, scan, victim>>

-----------------------------------------------------------------------------
(***************************************************************************)
(* garbage_collect                                                         *)
(***************************************************************************)
CallGc(th) ==
    /\ pc[th] = "idle"
    /\ Enter(th, "gc_len")
    /\ UNCHANGED <<items, clock, arg, scan, victim>>

\* Fault: the collection tolerates one item too many.
GcLenOffByOne(th) ==
    /\ pc[th] = "gc_len"
    /\ AddUp(th, IF Total(th) > MaxItems + 1 THEN "gc_evict" ELSE "idle")

GcLen(th) ==
    pc[th] = "gc_len" /\ AddUp(th, IF Total(th) > MaxItems THEN "gc_evict" ELSE "idle")

GcEvict(th) == pc[th] = "gc_evict" /\ FindOldest(th, "gc_remove", "gc_len")

GcRemove(th) == pc[th] = "gc_remove" /\ RemoveVictim(th, "gc_len")

-----------------------------------------------------------------------------
Running(th) ==
    \/ Check(th) \/ ContainsKey(th) \/ Len(th) \/ Evict(th) \/ EvictRemove(th)
    \/ Insert(th) \/ GcLen(th) \/ GcEvict(th) \/ GcRemove(th)

Next ==
    \E th \in Threads :
        \/ \E t \in Targets, seq \in Seqs : Call(th, t, seq)
        \/ CallGc(th)
        \/ Running(th)

\* A thread inside a call keeps running; calling is up to the callers.
Fairness == \A th \in Threads : WF_vars(Running(th))

Spec == Init /\ [][Next]_vars /\ Fairness

-----------------------------------------------------------------------------
(***************************************************************************)
(* Properties                                                              *)
(***************************************************************************)

\* The type invariant.
TypeOK ==
    /\ items \in [Targets -> Items \cup {NoItem}]
    /\ clock \in 0 .. MaxClock
    /\ pc \in [Threads -> Steps]
    /\ arg \in [Threads -> (Targets \cup {NoTarget}) \X (Items \cup {NoItem})]
    /\ shard \in [Threads -> 0 .. Shards - 1]
    /\ count \in [Threads -> Nat]
    /\ victim \in [Threads -> Targets \cup {NoTarget}]
    /\ raced \in BOOLEAN
    /\ overlapped \in BOOLEAN

\* "Items are stored with sequence number ordering: newer items (higher seq)
\* replace older ones" (mutable_item_store.rs:4): a call that no other overlaps
\* only lets the sequence number of an item go up, whatever earlier calls did
\* to the store.
SeqOnlyGrows ==
    [][\A t \in Stored :
         ~overlapped' /\ items'[t] # NoItem /\ items'[t] # items[t] =>
             items'[t].seq > items[t].seq]_vars

\* "The store enforces a maximum capacity" (mutable_item_store.rs:32).
WithinCapacity == Cardinality(Stored) <= MaxItems

\* As long as no two calls overlap, it does.
CapacityUnlessRaced == ~raced => WithinCapacity

\* A call that no other overlaps pushes out the item stored longest ago and no
\* other, and only when there is no room, however full the store is.
EvictsOldestWhenFull ==
    [][\A t \in Stored :
         ~overlapped' /\ items'[t] = NoItem =>
             /\ Cardinality(Stored) >= MaxItems
             /\ Oldest(t)]_vars

\* The weaker half of the same sentence, for stores that race: an item is
\* never replaced by an older one.
SeqNeverDrops ==
    [][\A t \in Stored :
         items'[t] # NoItem => items'[t].seq >= items[t].seq]_vars

\* However far racing stores have overshot the capacity, a garbage collection
\* that begins a count after the last of them brings the map back within it,
\* whatever it found and removed while they ran, and with other collections
\* evicting as well.  (One that ran its last count next to a store may not:
\* the store inserts into a shard it has counted.  And while stores go on, one
\* that removes what the collection is about to remove undoes its work.)
GcCatchesUp ==
    \A th \in Threads :
        ( /\ pc[th] = "gc_len" /\ shard[th] = 0
          /\ [](\A other \in Threads : pc[other] \notin Storing) )
            ~> WithinCapacity
=============================================================================
