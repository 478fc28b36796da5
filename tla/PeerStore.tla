----------------------------- MODULE PeerStore -----------------------------
(***************************************************************************)
(* PeerStore: the tokens we hand out with get_peers answers, the peers     *)
(* that announce themselves with them, the collection every five minutes,  *)
(* and the copy of all this that the persistence task writes to disk while *)
(* the worker runs, for the next process to start from.                    *)
(*                                                                         *)
(* All writes come from the worker task, one handler at a time.  A handler *)
(* first takes the write lock of a routing table (mark_last_query),        *)
(* releases it, and only then touches the peer store.  The persistence     *)
(* task holds the read locks of both tables while it reads the peer store, *)
(* one shard of the map after the other.                                   *)
(***************************************************************************)
EXTENDS Integers, Sequences, FiniteSets, SequencesExt

CONSTANTS
    NodeIds,     \* ids nodes claim in their queries
    Hosts, Ports,
    Tokens,      \* four random bytes
    InfoHashes,
    Near,        \* the info hashes within max_distance of our id
    MaxTokens,   \* max_remembered_tokens
    MaxPeers,    \* max_remembered_peers
    MaxPerHash,  \* MAX_PEERS_PER_INFO_HASH
    TokenTTL, PeerTTL,
    GcEvery,     \* ticks between two collections
    MaxClock,    \* bound on the clock
    MaxDumps,    \* bound on dumps begun
    Broken       \* a file that cannot be deserialized, or none

ASSUME PeerStoreAssumption ==
    /\ Near \subseteq InfoHashes
    /\ {MaxTokens, MaxPeers, MaxPerHash, TokenTTL, PeerTTL, GcEvery}
         \subseteq Nat \ {0}
    /\ MaxClock \in Nat
    /\ MaxDumps \in Nat

VARIABLES
    tokens,      \* the queue of tokens, oldest first
    peers,       \* the peers of all info hashes
    peers_len,   \* the atomic counter
    clock,       \* what Utc::now() returns
    next_gc,     \* when the interval of the collection fires next
    booting,     \* no collection has run in this process yet
    worker,      \* "handling": mark_last_query done, the rest to come
    dumps,       \* dumps begun
    copying,     \* info hashes the running dump has not read yet
    snapshot,    \* what the running dump has read
    dump,        \* where the persistence task is
    disk,        \* the file
    granted      \* history: hosts that were sent a token

store == <<tokens, peers, peers_len>>

gc == <<next_gc, booting>>

dumping == <<dump, dumps, copying, snapshot, disk>>

vars == <<store, clock, gc, worker, dumping, granted>>

-----------------------------------------------------------------------------
SockAddrs == [host : Hosts, port : Ports]

Instants == 0 .. MaxClock

StoredTokens ==
    [token : Tokens, node_id : NodeIds, addr : SockAddrs, time : Instants]

StoredPeers == [hash : InfoHashes, addr : SockAddrs, time : Instants]

Snapshots == [tokens : Seq(StoredTokens), peers : SUBSET StoredPeers]

Empty == [tokens |-> <<>>, peers |-> {}]

Of(ps, h) == {p \in ps : p.hash = h}

Oldest(ps, p) == \A q \in ps : p.time <= q.time

Init ==
    /\ tokens = <<>>
    /\ peers = {}
    /\ peers_len = 0
    /\ clock = 0
    /\ next_gc = GcEvery
    /\ booting = TRUE
    /\ worker = "idle"
    /\ dump = "none"
    /\ dumps = 0
    /\ copying = {}
    /\ snapshot = Empty
    /\ disk = Broken
    /\ granted = {}

-----------------------------------------------------------------------------
(***************************************************************************)
(* Queries                                                                 *)
(***************************************************************************)

\* Fault: queries do not wait for the dump to release the tables.
BeginQueryUnlocked ==
    /\ worker = "idle"
    /\ worker' = "handling"
    /\ UNCHANGED <<store, clock, gc, dumping, granted>>

\* The write lock is free only when no dump holds the tables.
BeginQuery ==
    /\ worker = "idle"
    /\ dump # "copying"
    /\ worker' = "handling"
    /\ UNCHANGED <<store, clock, gc, dumping, granted>>

EndQuery ==
    /\ worker = "handling"
    /\ worker' = "idle"
    /\ UNCHANGED <<clock, gc, dumping>>

\* gen_token_for, on get_peers and the get of BEP 44.
GenToken(id, addr, token) ==
    /\ EndQuery
    /\ LET all == Append(tokens, [token |-> token, node_id |-> id,
                                  addr |-> addr, time |-> clock])
       IN  tokens' = IF Len(all) > MaxTokens THEN Tail(all) ELSE all
    /\ granted' = granted \cup {addr.host}
    /\ UNCHANGED <<peers, peers_len>>

\* Fault: any host may use a token.
HasTokenOfAnyone(id, addr, token) ==
    \E t \in ToSet(tokens) : t.token = token /\ t.node_id = id

HasToken(id, addr, token) ==
    \E t \in ToSet(tokens) :
        t.token = token /\ t.addr = addr /\ t.node_id = id

\* The address the peer is filed under.
Announced(addr, implied, port) ==
    IF implied THEN addr ELSE [addr EXCEPT !.port = port]

Accepted(id, addr, token, h) == h \in Near /\ HasToken(id, addr, token)

At(h, addr) == {p \in Of(peers, h) : p.addr = addr}

\* Fault: a refresh counts as another peer.
RefreshCounted(h, addr) ==
    /\ At(h, addr) # {}
    /\ peers' = {IF p \in At(h, addr) THEN [p EXCEPT !.time = clock] ELSE p :
                   p \in peers}
    /\ peers_len' = peers_len + 1

\* A known address is refreshed, however full the store is.
Refresh(h, addr) ==
    /\ At(h, addr) # {}
    /\ peers' = {IF p \in At(h, addr) THEN [p EXCEPT !.time = clock] ELSE p :
                   p \in peers}
    /\ UNCHANGED peers_len

\* Fault: a known address is not looked for.
PushAgain(h, addr) ==
    /\ peers_len < MaxPeers
    /\ peers' = peers \cup {[hash |-> h, addr |-> addr, time |-> clock]}
    /\ peers_len' = peers_len + 1

Push(h, addr) ==
    /\ At(h, addr) = {}
    /\ peers_len < MaxPeers
    /\ peers' = peers \cup {[hash |-> h, addr |-> addr, time |-> clock]}
    /\ peers_len' = peers_len + 1

\* store_peer returns true.
StorePeer(id, addr, token, h, implied, port) ==
    /\ EndQuery
    /\ Accepted(id, addr, token, h)
    /\ \/ Refresh(h, Announced(addr, implied, port))
       \/ Push(h, Announced(addr, implied, port))
    /\ UNCHANGED <<tokens, granted>>

\* The store is left alone: a refused announcement (too far, no such token,
\* out of capacity), or a query of another kind.
OtherQuery == EndQuery /\ UNCHANGED <<store, granted>>

-----------------------------------------------------------------------------
\* tokens.retain(..): the tokens that have not expired, in their order.
Unexpired(queue) ==
    LET kept[i \in 0 .. Len(queue)] ==
          IF i = 0 THEN <<>>
          ELSE IF queue[i].time > clock - TokenTTL
          THEN Append(kept[i - 1], queue[i]) ELSE kept[i - 1]
    IN  kept[Len(queue)]

(***************************************************************************)
(* garbage_collect_peers.  Where entries are of the same time, their order *)
(* in the map decides: any choice.  It takes no lock of the tables, and a  *)
(* dump may read some info hashes before it has cleaned them and some      *)
(* after: the same as reading those before, and these after, all of it.    *)
(***************************************************************************)
\* Fault: a peer is kept for one tick too many.
FreshOffByOne(ps) == {p \in ps : p.time >= clock - PeerTTL}

Fresh(ps) == {p \in ps : p.time > clock - PeerTTL}

\* Fault: sorted the wrong way round, the oldest ones are kept.
LeastRecentOf(kept, ps) ==
    \A h \in InfoHashes :
        LET in == Of(kept, h)   out == Of(ps, h) \ in
        IN  /\ Cardinality(in) <= MaxPerHash
            /\ out # {} => Cardinality(in) = MaxPerHash
            /\ \A p \in in, q \in out : p.time <= q.time

\* The most recent ones of every info hash, up to the limit.
MostRecentOf(kept, ps) ==
    \A h \in InfoHashes :
        LET in == Of(kept, h)   out == Of(ps, h) \ in
        IN  /\ Cardinality(in) <= MaxPerHash
            /\ out # {} => Cardinality(in) = MaxPerHash
            /\ \A p \in in, q \in out : p.time >= q.time

\* The excess over the limit of the store goes, info hash by info hash in the
\* order of their oldest entries, the oldest of each first.
EvictedDownTo(left, kept) ==
    LET out == kept \ left
        OldestIn(h) == CHOOSE t \in Instants :
                           \E p \in Of(kept, h) :
                               p.time = t /\ Oldest(Of(kept, h), p)
    IN  /\ Cardinality(left) <= MaxPeers
        /\ out # {} => Cardinality(left) = MaxPeers
        /\ \A p \in left, q \in out :
             IF p.hash = q.hash THEN q.time <= p.time
             ELSE /\ OldestIn(q.hash) <= OldestIn(p.hash)
                  /\ Of(left, q.hash) = {} \/ Of(out, p.hash) = {}

GarbageCollect ==
    /\ worker = "idle"
    /\ clock = next_gc
    /\ tokens' = Unexpired(tokens)
    /\ \E kept \in SUBSET Fresh(peers) :
         /\ MostRecentOf(kept, Fresh(peers))
         /\ \E left \in SUBSET kept :
              EvictedDownTo(left, kept) /\ peers' = left
    /\ peers_len' = Cardinality(peers')
    /\ next_gc' = clock + GcEvery
    /\ booting' = FALSE
    /\ UNCHANGED <<clock, worker, dumping, granted>>

-----------------------------------------------------------------------------
(***************************************************************************)
(* The dump, the file, and the next process                                *)
(***************************************************************************)
DumpStart ==
    /\ dump = "none"
    /\ dumps < MaxDumps
    /\ dumps' = dumps + 1
    /\ dump' = "copying"
    /\ copying' = InfoHashes
    /\ snapshot' = [tokens |-> tokens, peers |-> {}]
    /\ UNCHANGED <<store, clock, gc, worker, disk, granted>>

DumpHash(h) ==
    /\ dump = "copying"
    /\ h \in copying
    /\ copying' = copying \ {h}
    /\ snapshot' = [snapshot EXCEPT !.peers = @ \cup Of(peers, h)]
    /\ UNCHANGED <<store, clock, gc, worker, dump, dumps, disk, granted>>

\* The locks are released and the temporary file is renamed over the old
\* one.  Its last block is still in the buffer of the writer.
DumpRename ==
    /\ dump = "copying"
    /\ copying = {}
    /\ dump' = "renamed"
    /\ disk' = Broken
    /\ UNCHANGED <<store, clock, gc, worker, dumps, copying, snapshot, granted>>

\* The writer is dropped at the end of dump_dht, which flushes it.
DumpFlush ==
    /\ dump = "renamed"
    /\ dump' = "none"
    /\ disk' = snapshot
    /\ snapshot' = Empty
    /\ UNCHANGED <<store, clock, gc, worker, dumps, copying, granted>>

\* Serializing or renaming fails, or the flush does, which nobody notices: the
\* file stays as it is.
DumpFails ==
    /\ dump # "none"
    /\ dump' = "none"
    /\ copying' = {}
    /\ snapshot' = Empty
    /\ UNCHANGED <<store, clock, gc, worker, dumps, disk, granted>>

\* The process ends at any point and a new one loads the file, or starts with
\* an empty store when there is none it can read.
Restart ==
    /\ LET from == IF disk = Broken THEN Empty ELSE disk
       IN  /\ tokens' = from.tokens
           /\ peers' = from.peers
           /\ peers_len' = Cardinality(from.peers)
    /\ next_gc' = clock + GcEvery
    /\ booting' = TRUE
    /\ worker' = "idle"
    /\ dump' = "none"
    /\ copying' = {}
    /\ snapshot' = Empty
    /\ UNCHANGED <<clock, dumps, disk, granted>>

\* The collection is not late.
Tick ==
    /\ clock < MaxClock
    /\ clock < next_gc
    /\ clock' = clock + 1
    /\ UNCHANGED <<store, gc, worker, dumping, granted>>

Next ==
    \/ BeginQuery
    \/ \E id \in NodeIds, addr \in SockAddrs, token \in Tokens :
         \/ GenToken(id, addr, token)
         \/ \E h \in InfoHashes, implied \in BOOLEAN, port \in Ports :
              StorePeer(id, addr, token, h, implied, port)
    \/ OtherQuery
    \/ GarbageCollect
    \/ DumpStart
    \/ \E h \in InfoHashes : DumpHash(h)
    \/ DumpRename
    \/ DumpFlush
    \/ DumpFails
    \/ Restart
    \/ Tick

Spec == Init /\ [][Next]_vars
-----------------------------------------------------------------------------
(***************************************************************************)
(* Properties                                                              *)
(***************************************************************************)

\* The type invariant.
TypeOK ==
    /\ tokens \in Seq(StoredTokens) /\ Len(tokens) <= MaxTokens
    /\ peers \in SUBSET StoredPeers
    /\ peers_len \in Nat
    /\ clock \in Instants
    /\ next_gc \in Nat
    /\ booting \in BOOLEAN
    /\ worker \in {"idle", "handling"}
    /\ dump \in {"none", "copying", "renamed"}
    /\ dumps \in 0 .. MaxDumps
    /\ copying \in SUBSET InfoHashes
    /\ snapshot \in Snapshots
    /\ disk \in Snapshots \cup {Broken}
    /\ granted \in SUBSET Hosts

\* The counter that guards the limit is the number of peers in the store
\* whenever an announcement is judged by it: refreshes, collections and
\* restarts from a copy taken piecemeal do not let it drift.
CountExact == peers_len = Cardinality(peers)

\* The store never holds more peers than max_remembered_peers, and neither
\* does what a dump has read or the file it leaves, although the dump reads
\* the info hashes at different moments: the locks it holds keep announcements
\* out meanwhile, but for one.  So the last part of the collection, which
\* evicts down to that limit, finds nothing to do, after a restart either.
NeverOverLimit ==
    /\ Cardinality(peers) <= MaxPeers
    /\ Cardinality(snapshot.peers) <= MaxPeers
    /\ disk # Broken => Cardinality(disk.peers) <= MaxPeers

\* A peer is listed once per info hash, also when it announces under another
\* port than it sends from, or through a restart.
ListedOnce ==
    \A p, q \in peers : p.hash = q.hash /\ p.addr = q.addr => p = q

\* A peer is only listed, and only kept over restarts, at a host we sent a
\* token to: nobody announces somebody else's host.
HostsHadTokens == \A p \in peers : p.addr.host \in granted

\* Once a collection has run in this process no token works, and no peer is
\* handed out, for longer than its time to live and one collection interval,
\* however old the file was that the process started from.
StaleIsGone ==
    ~booting =>
        /\ \A t \in ToSet(tokens) : clock - t.time < TokenTTL + GcEvery
        /\ \A p \in peers : clock - p.time < PeerTTL + GcEvery

\* As long as the process runs, a peer disappears only when it has been
\* silent for its time to live, or when as many peers of its own info hash as
\* are kept were heard from no less recently: a busy info hash crowds out no
\* other one.
CrowdedOutByItsOwn ==
    [][\A p \in peers :
         \/ \E q \in peers' : q.hash = p.hash /\ q.addr = p.addr
         \/ clock - p.time >= PeerTTL
         \/ Cardinality({q \in peers' : q.hash = p.hash /\ q.time >= p.time})
              >= MaxPerHash
         \/ Restart]_vars
=============================================================================
