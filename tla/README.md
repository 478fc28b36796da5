# A TLA+ model of librtbit-dht

librtbit-dht is a node of the BitTorrent mainline DHT (BEP 5, with the storage
part of BEP 44). This directory holds a model of its core as TLA+ modules,
instances of them for TLC, and proofs checked by TLAPS. Line numbers refer to
`src/src/*.rs`; `PROJECT.json` maps every definition that stands for code to
its lines.

## 1. The system

Nearly everything runs in one tokio task, `DhtWorker::start` (dht.rs:1268):
`select!` polls the framer (socket reader and writer), the reader of incoming
messages, two pingers, two bucket refreshers, the bootstrap and the collection
of the peer store, which therefore interleave only where they await. In
parallel with it run the tasks of `get_peers` lookups, any user of
`DhtState::ping`, and the persistence task. Shared are the two routing tables
(`RwLock`), the peer store and the table of requests in flight (`DashMap`s and
atomics), and an unbounded channel of messages to send.

| Component | State | Operations | Hard behaviour | What makes it correct |
|---|---|---|---|---|
| Routing table (routing_table.rs), one per address family | tree of leaves with id ranges, entries with three instants and an error count, two counters | `add_node`, `mark_outgoing_request`, `mark_response`, `mark_error`, `mark_last_query`, iteration, (de)serialization | a split may need several rounds; order of the ways out of the loop; status at boundaries of time; restart forgets the status | ranges partition the ids, every node filed once and found, limits, only bad nodes evicted, status changes for a reason |
| Outgoing requests (dht.rs:574-711, 770-811, 1032-1038) | next transaction id, requests in flight by (id, address), one oneshot per caller, queue to the worker | `create_request`, `request`, answer, send error, timeout, cancellation | ids wrap after 65536; late, repeated and lost answers; timeouts remove by key; worker ends; cancellation leaves an entry | every call returns, with its own answer, leaving nothing behind |
| Recursive lookups (dht.rs:42-570) | calls queued and running, `useful_nodes` | `find_node_for_routing_table`, `request_peers_forever`, `request_one`, `should_request_node`, `mark_node_responded` | answers name any nodes in any order; a bounded memory of whom was asked; two requests per node; dropped at any time | ends, bounded depth, asks nobody again too early, misses nobody it says it asked |
| Peer store (peer_store.rs) | queue of tokens, peers per info hash, counter | `gen_token_for`, `store_peer`, `garbage_collect_peers`, (de)serialization | counter apart from the peers; three limits; read piecemeal by the dump; old data after a restart | exact counter, limits, token needed, stale data goes, eviction is fair |
| Mutable item store (mutable_item_store.rs), not yet used by the rest | `DashMap` of items | `store`, `garbage_collect`, `evict_oldest`, `get` | several map calls per operation, from several threads | capacity, order of sequence numbers, the oldest goes |
| Persistence (persistence.rs) | the file, the temporary file | `dump_dht`, `PersistentDht::create` | a dump while the worker runs; crash between its steps; rename before flush | what is loaded satisfies what the process relies on |
| Query handler (dht.rs:813-988) | none of its own | one per kind of query | order of lock on the table and access to the peer store; ids of any length; wishes for families | answers once, the sender of the query, with the right family, nodes and peers; takes and gives tokens |
| Node health (dht.rs:87-186, 1097-1211): pinger, bucket refresher, callbacks of lookups | timers, queues | ping questionable and unknown nodes, look up stale leaves, mark nodes | two requests per node of a lookup, pings queued for nodes that have left, a node named at another's address; Good and Bad nodes are not pinged | nobody is left neither good nor bad for long, silent nodes become bad, nobody becomes bad without failing, leaves get refreshed |
| Bootstrap and worker lifecycle (dht.rs:1040-1095, 1268-1357, 1420-1431) | retries, `bootstrap_done` | resolve, look up ourselves in both families, retry up to a day; end | whole node ends when it fails | one success of one host in one family suffices; it is over some day |
| Messages (bprotocol.rs) | none | `serialize_message`, `deserialize_message` | many kinds told apart by which entries are there; optional wishes; foreign ids | what is sent is read back |
| BEP 44 signatures, errors (bep44_crypto.rs, error.rs, utils.rs) | none | sign, verify, format | | pure functions |

How they interact: a lookup or pinger calls `request`, which registers itself
and queues a message; the framer sends it or reports a send error; the reader
passes an answer to `on_received_message`, which removes the entry and resolves
the oneshot; the caller marks the node in a routing table. A query from outside
marks its sender in the table, then reads or writes the peer store and queues
an answer. The dump holds both tables' read locks and reads the peer store.

`PROJECT.json` lists, under "hazards", everything in this code that is hard to
test, each at its line, with the properties that cover it.

## 2. Modules

| Module | Models | Notes |
|---|---|---|
| `NodeStatus` | `RoutingTableNode`, `NodeStatus` | operators on a record; `None` is `Never`; the error count saturates at 2, beyond which nothing tells counts apart |
| `NodeTable` | what the routing table promises its users | abstract: no tree, a newcomer is taken, replaces a Bad node or is ignored |
| `RoutingTable` | `RoutingTable`, `BucketTree` | the tree as its set of leaves, entries as one function from ids; **one action per way out of a round of the insertion loop**, `pending` between two rounds; `Reload` is a restart; implements `NodeTable` (`ImplementsNodeTable`) |
| `Rpc` | what `request` promises its callers | abstract: begins, returns once or is abandoned, a response only to what was sent |
| `Requests` | `request` and everything that touches `inflight_by_transaction_id` | one action per atomic step; a caller is between steps wherever another task may run; implements `Rpc` (`KeepsPromise`) |
| `Lookup` | `RecursiveRequest` for both kinds | a run of `request_one` is a record that moves through its stages; requests are abstracted to answered or failed |
| `NodeHealth` | pinger, bucket refresher, callbacks of `find_node`, marks by queries | built on `NodeTable` (`Table!AddOutcomes`) and `NodeStatus`; lookups as claims that answers name, requests as visits that end either way, counted, since several lookups may ask one node |
| `Lifecycle` | bootstrap, end of the worker | a step per await of each host's future; lookups are over in a step |
| `Messages` | `bprotocol.rs` | pure operators from messages to `RawMessage` and back |
| `Exchange` | query handler, `create_request`, dispatch of answers, announcements | several nodes of this code over `Messages`, and a network that keeps every datagram |
| `PeerStore` | `PeerStore`, `dump_dht`, `PersistentDht::create`, and the order of locks in the query handler | the dump reads one info hash per step |
| `MutableItemStore` | `MutableItemStore` | one action per call of the `DashMap` for a key, one per shard of `len` and `iter` |
| `MC...` | | instances for TLC: sets, orders and symmetry that a cfg cannot write |
| `...Proofs` | | proofs about the module of that name, see 6 |

State and actions carry the names of the source. A few correspondences that are
not evident:

* *Routing table.* `rec[id]` is the `RoutingTableNode` of `id`; a leaf only
  holds the set of its ids, since its vector is kept sorted by id.
  `size` is `RoutingTable.size` and `tree_size` is `BucketTree.size`. In
  `AddReplaceBad` the bad node with the smallest id goes, as `iter_mut().find`
  on the sorted leaf does. The powers of two are a constant (`Pow`), defined
  by its recurrence, so that the proofs do not depend on exponentiation.
* *Requests.* `inflight[k] = c` is an entry of the map holding the sending half
  of `c`'s oneshot. Overwriting or removing an entry drops that half, which is
  what `SenderDropped` does. `Deliver` is the removal and the `send` on the
  oneshot in one step: nobody else can reach the sender once it is removed.
  Answers that find no entry change nothing. An address is taken to answer only
  under ids of requests that were sent to it; the code resolves whatever entry
  matches id and address (dht.rs:782), so that an address that guesses an id is a
  sender more, like a ghost. The rate limiter only delays and
  is left out. `rounds`, how often the counter has come round, `round`, in which of
  them a sender got its id, and `origin` are history. `Ghosts` are requests the
  process before sent from the same port: its ids started at 0 as ours do, and
  their answers may still come.
* *Lookup.* `errors_in_a_row` of useful nodes is never read and is left out, and
  with it `mark_node_error`; so is the freshness in the sorting key, which
  comes after the distance, and ids are unique. The address family is fixed:
  nodes of the other one are filtered out. `ConsiderAll` takes the nodes of an
  answer in their order, as a recursive function.
* *Peer store.* The `DashMap` of vectors is one set of records. All writers run
  in the worker task. `BeginQuery` is the `mark_last_query` that opens every
  query, under the write lock of a table; `worker = "handling"` is the window
  between it and the access to the peer store. `DumpRename` and `DumpFlush` are
  apart because the temporary file is renamed while the last block is still
  in the `BufWriter`. `Unexpired` is `tokens.retain`. `granted` is history.
* *Node health.* The table is one leaf. A tick is some minutes, finer than the
  pinger's interval (`PingEvery` ticks, a quarter of `INACTIVITY_TIMEOUT` in the code), so
  that a status may change between two rounds of the pinger, and coarser than a
  visit: the two requests of a lookup take at most 20 s, so that what begins in a tick
  ends in that one or the next (`late` visits are those of the tick before). Instead
  of a clock that grows the times in the entries grow older, relative to a moment
  `Now`, which keeps the state space finite over an unbounded run. `visits` counts
  the requests made for a node, by stage: those of the pinger wait in its channel (`queued`)
  before they start, and the node may have left the table by then; a lookup asks
  twice, `asked` and then `again`, whatever came of the first request, and books only
  the first (the callback at dht.rs:437 comes before the second request at dht.rs:440,
  the outcome of which the table is not told). Any number of lookups may ask
  the same node at the same time. The nodes a
  refresh starts from are asked as bare addresses and not booked either.
  Marks go by id alone, whoever answered. `failures`, `limbo` and `untended` are
  history.
* *Exchange.* `net` only grows: any datagram may arrive again, late, or never.
  `meant` is history, the message its sender serialized. `Foreign` is
  everything other implementations send; as far as it is not from their own
  addresses it is left out (`ExchangeAssumption`), that is, source addresses are
  not forged. Nodes of this code send requests to both kinds. Timeouts are left
  to `Requests`: a request that is not answered stays in `inflight`. The info
  hash is near enough to the nodes in `NearEnough` for their stores (20 bits) and
  to those in `Announced` for the lookup to announce to (16 bits). A node's store has its limits
  on tokens and peers, and tokens grow too old at any time, the oldest first
  (`ExpireTokens`); the four random bytes of a token are taken to differ from those of
  every other. Peers do not age here: that is `PeerStore`.
* *Lifecycle.* `Reachable` says which hosts answer in which family as long as the
  node runs; other lookups may end either way. `MaxAttempts` stands for the
  total delay of a day after which the retries end.
* *Mutable items.* A call of the `DashMap` for one key locks the shard of the key and is
  a step. `len` and `iter` lock one shard after the other, and other threads may
  come in between: a step counts, or compares, one shard (`AddUp`, `FindOldest`). What
  `min_by_key` holds on to while it goes on keeps its shard locked
  against writers (`Locked`). `raced` and `overlapped` are history: two calls have
  run at the same time, ever, or the one that runs now with any. `get` changes nothing.

Each module contains, in front of some definitions, a variant marked
`\* Fault:`. It is the definition with one plausible mistake, and is used by
nothing: `PROJECT.json` names, for every property, the fault it detects, and
TLC finds the property violated when the definition is replaced by it.

## 3. Runs

| Run | Instance | Question |
|---|---|---|
| `table_structure` | 4-bit ids, ours is 5, leaves of 3, 5 nodes, 7 ids on both sides of ours | is the tree sound after any sequence of insertions, splits, failures, evictions and restarts? |
| `table_status` | 3-bit ids, 3 nodes, 2 addresses, clock to 3 with an inactivity of 1 | how may the judgement of a node and the freshness of a leaf change, and is the tree a plain table to its users? |
| `table_len` (violation) | as above, smaller | is `len()` the number of nodes? |
| `requests` | 2 calls, an announcement, a request of the process before, 1 address, 2 transaction ids | does anybody wait for nothing, leak an entry, or get somebody else's answer? does every call return, as `Rpc` promises? |
| `requests_tracked` (violation) | 1 call and an announcement | is every message with `our_tid` tracked? |
| `lookup` | 3 nodes, 2 of them at one address, depth 2, 2 useful nodes, 2 named per answer, clock to 2; find_node and get_peers | does it end, asking nobody again too early? |
| `health` | 2 nodes, one of which may fall silent, a table of 1, the pinger and the refresher every 2 ticks, 2 lookup visits at a time, every initial table | is nobody Bad without failing, nor neither Good nor Bad for long, is a silent node found out, and is the leaf looked after, for ever? |
| `lifecycle` | every list of up to 3 hosts, one of which answers over IPv6 only, 2 families, 2 attempts | does one host suffice, and is the bootstrap over some day? |
| `exchange` | 2 nodes of this code and another one, 2 families, 2 requests of one node, 9 foreign datagrams, bytes of base 2, room for one token and one peer, 2 tokens given by a node | is all that is sent understood, and answered to the right place with the right contents? |
| `peers` | 2 hosts with 2 ports each, 2 info hashes, 2 peers in all and 1 per hash, a token, a dump, restarts at any point, clock to 3 | do counter, limits, tokens and expiry hold over dumps, crashes and restarts; whom does a collection push out? |
| `items` | 2 threads, 3 targets in 2 shards, 2 sequence numbers, room for 1 item, 4 stores, any collections | what does the store keep until calls overlap, and does it recover after? |
| `items_race_seq` (violation) | same, 3 stores | can an older item win a race? |

Bounds, and why they are enough:

* *Routing table.* Four bits with three nodes per leaf let a leaf split twice
  within one insertion, with all nodes on one side, next to our id and away from
  it; five nodes let the tree fill up before its leaves. `MaxLen` bounds `size`,
  which grows with every replacement. For `table_status`, two ticks pass
  each of the three boundaries (within, exactly at, beyond); one more lets
  all three instants differ.
* *Requests.* With fewer ids than senders ids come round while the first ones
  wait, which is what 65536 ids do under load. A call, its twin and the
  announcement are what it takes for one to overwrite the entry of another while
  a timeout removes it; the ghost has any id. Answers may arrive any number of times
  once a request has left, or never. One address is enough, since another
  one only separates keys. Both ids of the first round are given to two senders, and
  the third sender gets the first id again, one round later. That nothing is lost with more of everything is
  proved (6).
* *Lookup.* Two useful nodes for three ids make every new node push one out; an
  `AskAgain` of 1 and a clock to 2 let a node become askable again; answers
  name up to two nodes in either order, or one twice.
* *Node health.* Two ticks of inactivity tell apart within, exactly at and
  beyond, and an interval of two ticks lets a status change between two rounds;
  two visits of lookups at a time, with pings besides, may be of one node; a table of one makes every newcomer depend on an eviction, so that pings
  in flight meet evicted and returned nodes; time is not bounded. Every id is named at
  one address in the run, as a second one multiplies the states past what can be
  searched; the theorems (6) hold for any claims, leaf, intervals and number of visits.
* *Lifecycle.* Three hosts: one that answers, and two that may fail in different
  ways while it does.
* *Exchange.* One node asks, the other answers, announces included; a second
  asker adds nothing but more ids. The foreign node is asked as well, and among
  its datagrams are an answer with a token and an error under the first id of
  the asker. A wish for both families is not among them, as it multiplies the states;
  the theorems about lists (6) hold for every set of foreign datagrams. Lists of one entry with two nodes in the
  table make the choice of whom to name real. Room for one token and one peer makes
  announcements come with a token that another one has pushed out, and to a
  store that another peer has filled.
* *Peer store.* Every limit is reached and exceeded by one more announcement;
  the clock passes the time to live, also after a restart; the single dump is
  interleaved with everything, and the process may restart before, in and
  after it, any number of times. Hosts, ports and info hashes are symmetric:
  no property or action tells two of them apart.
* *Mutable items.* Four stores (stamps) on two threads, for a store of one item:
  it is overshot by up to two, with a collection running, and a store
  may be about to put a newer item where the collection found the oldest.
  Collections are not bounded.

Deadlock is checked, except where all calls may have ended: `requests`,
`requests_tracked`, `lookup`, `lifecycle` and `exchange`.

Fairness. `Requests`: a call that has begun is polled and its timeout passes
(tokio; `timeout` in `request`); nothing is assumed of the network or the
worker. `RoutingTable`: an `add_node` runs on, as it awaits nothing.
`MutableItemStore`: a thread inside a call is scheduled; calls need not come.
`Lookup`: the lookup is polled as long as a call can go on, and a request ends,
which is what `Requests` shows. `NodeHealth`: time goes by (`[]<><<Tick>>_vars`); what a tick waits for, the rounds
that are due and the visits of the tick before, can always be done, so nothing else
has to be assumed.
`Lifecycle`: resolving, lookups and pauses end (a lookup does, by
`Lookup!LookupEnds`), and the worker polls its bootstrap. `PeerStore` and
`Exchange` need none.

## 4. What the checks show

Holds, and why one might have doubted it:

* *The tree.* Whatever is inserted, every id has one leaf, every node is in the
  leaf of its id, no leaf exceeds its limit even though the loop pushes only
  after splitting as often as needed, and the loop always ends. The range
  of a split leaf never degenerates (`SplitIsSound`), because only the leaf of
  our own id splits and a leaf that small cannot be full. To its users it is a
  plain bounded table (`ImplementsNodeTable`): the rounds of the loop are not
  seen, and nothing but a Bad node ever leaves.
* *Status.* A node becomes Questionable by the passing of time only; Bad ends with an
  answer or a restart. `LeafAsFreshAsItsNodes` holds through splits.
* *Requests.* Nobody is left waiting for an answer that has nowhere to go, not
  even when ids come round. Only entries of cancelled calls stay behind; they do
  so for good (until the id comes round), which is what happens when a
  `get_peers` stream is dropped. A wrong answer, or `DhtDead` while
  the worker lives, takes another sender with the same id *and* address, of this
  process or of the one before (`OnlyTwinsInterfere`), and within the process the
  counter must have come round between the two (`AnswersMatch`). What a caller may rely on is
  `Rpc`: it returns once, and a response means that something had been sent
  under its key.
* *Lookup.* `useful_nodes` forgets nodes it asked, and the comment "If recently
  requested, ignore" (dht.rs:533) relies on it. It is right all the
  same: a node that was pushed out never comes back in, since those in front
  of it have answered or are nearer, and neither changes; hence `NotAskedTwice`.
  The nodes a lookup starts with are not in `useful_nodes` and may be asked twice.
* *Node health.* `BadIsDeserved`: although several lookups, each with two requests, and
  a ping may be under way to a node, it is Bad only after two visits that failed with
  none answered in between, because a visit of a lookup counts as its first request
  went. That the second request is answered is booked nowhere: a node whose first
  request failed, whose second was answered and whose next ping fails is Bad,
  although the comment says that nodes "become bad when they fail to respond to
  multiple queries in a row" (routing_table.rs:424). `NoneInLimbo`: a node that is neither Good nor Bad
  is visited, and the visit is over, within an interval of the pinger and a
  visit. It is not true that a node that answers is always Good: heard just
  after a round of the pinger, it is still Good three rounds later, turns Questionable
  soon after, and stays so until the round after that. A node that falls silent ends up
  Bad or gone (`DeadIsNoticed`), also one that was loaded as if nothing were known
  of it, and a leaf that nobody hears from is looked up within twice the
  timeout, though the refresher goes by its own clock (`TendedInTime`). Marks go by
  id alone, so that an id which somebody names at another address gets the failures
  of that address.
* *Exchange.* Whatever a node of this code sends is read back as what was meant,
  though kinds are told apart by the keys that happen to be there;
  transaction ids of others come back as they were, of whatever length;
  families stay apart unless the query wished otherwise; a peer that announces
  itself with its token is listed, if the info hash is near enough to the
  receiver, its token has neither grown too old nor been pushed out by newer ones, and
  there is room; otherwise it is told the same (the result of `store_peer` is
  not looked at). Nobody is listed who has not asked for a token and redeemed it
  from the same address under the same id. The announcing side goes up to a distance of 144 bits (dht.rs:222), the store
  takes what is within 140 (`max_distance`): the
  nodes in between acknowledge an announcement that they drop. That is what
  `NearEnough` and `Announced`, two sets, stand for.
* *Lifecycle.* One host that answers in one family is enough, whatever the
  others do and however late they fail. An empty list of hosts ends the worker, and so
  does the failure of all of them.
* *Peer store.* `NeverOverLimit`: since the dump holds both tables' locks and
  every query takes one first, at most the rest of one handler runs while the
  peer store is read, so that the copy never holds more peers than the limit;
  hence the last part of the collection, eviction over the global limit,
  never has anything to do. (In the run the limits per info hash add up to the global
  one, so that this rests on the proof.) With the lock order changed it would
  (the fault `BeginQueryUnlocked`).
* *Mutable items.* A call that no other overlaps does what the documentation says,
  whatever earlier ones did to the store. After races, a collection that begins a
  count after the last store brings the store back within its capacity, with other
  collections evicting as well and whatever it found and removed before
  (`GcCatchesUp`). One that runs its last count next to a store need not, since
  the store may insert into a shard that was counted already; nor while stores go
  on, since one that removes what the collection is about to remove undoes
  its work. A store with
  `max_items` of 0 is the exception: it keeps one item, since there is nothing to
  evict when the first one comes.

Disagreements between code and its documentation ("findings"):

* `LenIsNodeCount`: `add_node` counts a replacement as an addition
  (routing_table.rs:525), while the tests take `size` for the number of nodes.
* `TrackedWhenQueued`: an announcement carries `our_tid` (dht.rs:153) without an
  entry, against the comment at dht.rs:64. Its answer is reported as
  an unknown request, or meets the entry of a later twin.
* `SeqNeverDrops`: two racing stores let an older item replace a newer one in the
  "thread-safe" store with "sequence number ordering"
  (mutable_item_store.rs:29-32). For the same reason `WithinCapacity` holds only
  until calls overlap (`CapacityUnlessRaced`).

One hazard has no property: when the worker has died, a `get_peers` stream never
ends but repeats a round that fails at once every minute or so (dht.rs:374). The code
neither promises an end nor looks for one.

## 5. What is left to TLC

Liveness: `InsertReturns`, `EveryCallReturns`, `LookupEnds`, `GcCatchesUp`,
`DeadIsNoticed` and `BootstrapSettles`. What follows from fairness, or says of an
action that it is ENABLED, is out of the prover's reach. Every safety and action
property of a passing run is proved, and so are both refinements. For three of the six,
what makes them end is proved as well, as an action property (a variant):
`InsertWearsDown` for `InsertReturns`, `LookupsGoDeeper` for `LookupEnds` and
`HostsOnlyGoOn` for `BootstrapSettles`; of these TLC has to show only that fairness
keeps them going.

The library's induction theorems take an operator as a parameter, which the provers
cannot instantiate. Where a proof needs induction over data, that is over the
nodes of an answer and the queue of tokens, it is done over a set of numbers
(`NatSetInduction`, from `WFMin` and `NatLessThanWellFounded`), and the operator it is
about is a recursive function. No operator is declared RECURSIVE.

## 6. Proofs

All theorems hold for every value of the constants that satisfies the named
`ASSUME`s. These are as weak as the code justifies: any width of ids, any
leaf capacity of at least two, any limits, any sets of calls, addresses and
ids. Bounds that exist only for TLC (`MaxClock`, `MaxLen`) are arbitrary.

`RoutingTableProofs`. The inductive invariant `IInv` consists of the types,
`LeafShape` (a leaf of b bits covers 2^b ids), `PendingBounded`,
`LeavesPartitionIds`, `KnownOnce`, `CapacityHolds` and `OneLeafPerDistance`.
`LeafShape` is what a split needs: it makes the two halves adjacent and
disjoint with the same union (`Halves`, `HalvesCover`), hence the partition
survives (`ReplaceKeepsPartition`), and it gives room for a split, since a full
leaf of at least two nodes has at least one bit (`SplitHasRoom`).
The cardinalities are the library's theorems on finite sets. Each disjunct of
`Next` that changes the structure has a lemma (`ReplaceBadStep`, `PushStep`,
`SplitStep`, `AnswerStep`, `ReloadStep`). Theorems: `TypeCorrect`,
`EveryIdHasItsLeaf` (a node is filed where it is looked for), `CapacityKept`,
`SplitsAreSound`, `TreeGrowsTowardsUs`, and the action property
`EvictionsAreOfBadNodes`. On top of them: `TreeImplementsTable`, where a push is an
addition to `NodeTable`, a replacement an eviction, and all other rounds
stutter; `SilentIfQuestionable`, since whoever answered was asked
(`AnsweredWereAsked`) and so has a second instant to go by; `BadStaysBad`;
and `LeavesFresh`, which needs that no instant is in the future
(`NotFromTheFuture`). Last, what bounds the loop: `Counted` says that leaves and
the splits still possible (`SplitsLeft`, the bits of our own leaf) add up, since
one leaf goes and two come; hence `LeavesAreFew`, and `InsertWearsDown`, by which
a round that does not end the call leaves one split fewer for good.

`RequestsProofs`. `NoLostWakeup` alone is not inductive: that an entry belongs
to its caller and that its caller can still be resolved (`EntriesOwned`), that
callers who have not registered are untouched (`Untouched`) and that queued
messages were created (`QueuedWereCreated`) are needed to show that whoever removes
an entry resolves the right oneshot. `TidsDistinct` says that ids are distinct
in each round of the counter, which with `TwinInv` gives that answers are one's own
or a ghost's. Theorems: `TypeCorrect`, `NoCallerForgotten`, `NoStrayEntries`,
`InterferenceNeedsTwin`, `AnswersAreOwn`, and `ImplementsRpc`, the refinement,
which adds to the invariant that an answer has a cause among what was sent
(`SentIfAnswered`).

`PeerStoreProofs`. `NeverOverLimit` and `CountExact` need each other and more:
a refresh keeps the count only if an address is listed once (`Listed`), which
must hold of the copies on disk too, since they come back (`Sound`). For the
dump, `CopyInv` bounds what it *will* have (`Promised`: what it has read and
the hashes it still has to read) and says that as long as the one handler that
may have got in before the locks has not finished, that is the store itself; its
announcement then keeps `Promised` within the store, and collections
shrink it. With the limit known, `NothingToEvict` shows that the eviction over the global
limit never removes anything, from which fairness follows.
Theorems: `CounterIsExact`, `LimitKept`, `PeersListedOnce`, and the action property
`EvictionIsFair`. The second half is about types, tokens and times (`TInv`).
Queues of tokens and lists of peers, in memory, in the dump and on disk alike, only
have hosts that were granted a token (`QueueSound`, `PeersGranted`), since all
three come back. `Scheduled` relates what is stored to the *next*
collection: by then it is younger than its time to live plus an interval, whatever
the file had, as the first collection after a start takes what is older.
`UnexpiredTokens` says what the filter leaves. Theorems: `TypeCorrect`,
`ListedHadTokens`, `NothingGoesStale`.

`MutableItemStoreProofs`. `IInv` says that whoever is in a call that nobody overlaps is
alone there and finds what it found before (`Undisturbed`): the item still not
refused, the store still full, the victim still the oldest. A walk over the shards
has counted what is in those `Before` the one it has come to, or has the oldest of
it (`Found`); `NextBefore` says what a shard adds, `AddUpExact` and `FindOldestExact`
what that makes of a whole walk. A call begins with nothing counted and nothing found
(`ArgsGiven`), which is why an earlier race does no harm to it. Theorems:
`TypeCorrect`, `NewerReplacesOlder`, `OldestIsPushedOut`, for any capacity and any
past, and `CapacityKept`, for one other than 0 and until two calls overlap, which
adds that there is room for whatever is about to be inserted (`HasRoom`).

`NodeHealthProofs`. `RefresherInTime`: the time a leaf has gone unattended and the
time until the refresher comes together stay below twice the timeout, and a
leaf it will find fresh has been attended since; hence `LeavesAreTended`. `Booked`: the
errors of an entry are at most the failures of its id (`Earned`), so that
a Bad node has two of them (`OnlyFailuresMakeBad`), and the table knows of every request
that is under way to one of its nodes (`Recorded`), so that no node that waits for
an outcome is Unknown. Evictions and returns are covered
by the shape of what `NodeTable` may do (`OutcomeShape`, `FindStartShape`). `Heard`: a node
in limbo waits for the pinger, with as many ticks to go as its limbo is short
of the bound, or for the outcome of a visit begun in this tick or the last one
(`Waits`). The pinger misses none that is in limbo (`PingRoundHears`), whoever a lookup
brings in is asked at once (`FindStartHears`), and an outcome ends the limbo
(`OutcomeHears`); hence `NobodyLeftInLimbo`.

`LookupProofs`. `useful_nodes` forgets, so that `NotAskedTwice` needs to know of whom.
`Remembered`: whoever was queued is still in it, with that time or a later one, or is
`Forgotten`, that is, the memory is full of nodes that have all responded or are all
nearer (`Ahead`). Neither ever changes, hence a forgotten node never gets back
in (`Displaced`, which rests on the order of `useful_nodes` being total,
`BeforeTotal`, `BeforeTransitive`, so that a last one exists, `LastExists`). `Noted`
says that those in it were queued when it says, `Spaced` is the property.
`ConsiderKeeps` does one node of an answer, `ConsiderAllKeeps` all of them by induction.
Theorems: `MemoryIsTrue`, `NobodyAskedTwice`, and `LookupsGoDeeper`: of a
find_node lookup one call goes on at a time, and only an answered one leaves others, a
level deeper and within `MaxDepth`.

`LifecycleProofs`. `Earned` says of each host what must have happened for it to be where it
is: a family that answers is not given up, and a host fails only after its
last attempt, with no success. Theorems: `NoneWasLeft`, and `HostsOnlyGoOn`: each
step of a host goes up in its attempt (`Rank`), ends one of its lookups or begins
the next of at most `MaxAttempts`.

`ExchangeProofs`. `IInv` is the first two properties together: what is answered is
what was read from the wire, so that answers answer queries only if what is
sent reads back. The work is in the operators of `Messages`: every request
(`RequestReadsBack`, over `QueryDispatch`, which shows that no kind is taken for
another) and every response (`ResponseReadsBack`) comes back from
`Deserialize` unchanged; `NetGrows` carries both properties over to a larger
network. `Conversation` then relates requests in flight, answers and the two
stores to everything that was sent: queries of a node have numbers of their own
(`QueriesNumbered`, `NumbersUnique`; that two bytes read back as the number is `DivMod`),
whoever waits has asked (`WaitingAsked`), an answer of a node of this code has what
the query it answers calls for (`AnswersSuit`), so has what resolved a request
(`DoneSuits`), and tokens and peers come from datagrams that ask for them
(`PeersGranted`). A token is kept until it is lost, and what is lost stays lost, so that an
announcement finds its token, or never will (`GrantedStays`, `LostStays`, `AnswerStays`). An answer that meets a waiting request has its number and comes
from its address, and so was made for that very request. This needs that nobody
else sends from our nodes' addresses, and that ids do not come round within the
bound on requests (`MaxRequests`); what happens when they do is `Requests`. Each handler
has a lemma (`QuietHandlers`, `NodesHandlers`, `QueryIn`), and so have answers
(`AnswerIn`) and what a node sends (`RequestMade`, `AnnouncementMade`). Theorems:
`WireReadsBack`, `OnlyQueriesAreAnswered`, `RequestsGetTheirAnswers`,
`ListsStayApart`, `AnnouncementsLand`.

## 7. Not modelled

* The vector of tree nodes with its indexes and the descent in `get_leaf`
  (`RoutingTable` has the set of leaves), `sorted_by_distance_from` and
  `iter_buckets`: reading only.
* Of `bprotocol.rs`, the bytes of bencoding and of compact addresses, the version
  and the `ip` of an answer, which nobody reads. Errors and arguments are modelled
  as far as the code looks at them.
* `bep44_crypto.rs`, `error.rs`, `utils.rs`: pure functions on bytes, types,
  formatting. The signatures of mutable items are checked by no code that stores
  them.
* In persistence, the listen address and the choice of file. The table for
  IPv6 is written (persistence.rs:57) and not used when loading (persistence.rs:149-151).
* The rate limiter, the socket, tokio and DashMap are represented by what is
  assumed of them: messages are delayed, lost and repeated, a map call for one key
  is a step, `len` and `iter` of a map lock its shards one after the other, a oneshot
  carries one value. In `Requests` an address answers only under ids that were sent to
  it.
* `RoutingTable!Reload` restarts with the table of the moment. The code loads the last
  dump, up to a minute old, or starts with an empty table if the file cannot be deserialized; both
  are tables the process could have had, and `NodeHealth` starts from any. The table for IPv6
  is never loaded.
* In `PeerStore` the collection is assumed not to be late (`Tick`).
* In `NodeHealth` the table is one leaf, and a lookup is what its answers name; in
  `Lifecycle` a lookup is its outcome.

## 8. Plan

Done: the routing table with its abstraction, outgoing requests with theirs,
lookups, the peer store with persistence, mutable items, node health,
lifecycle, messages and their exchange; proofs of every safety and action property
that the runs check. Left, in this order:

1. A store of mutable items whose calls are atomic, implemented by
   `MutableItemStore` until calls overlap.
2. `BucketTree`: the vector of nodes with indexes and `get_leaf`, implementing
   `RoutingTable`'s set of leaves.
3. Variants for what else must end: that a collection of the item store only removes,
   and that failures of a silent node only add up.
4. What is signed in BEP 44 (`signable_data`), as an injective encoding.
