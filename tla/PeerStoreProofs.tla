--------------------------- MODULE PeerStoreProofs ---------------------------
(***************************************************************************)
(* Proofs about the peers in PeerStore, in memory, in a dump and on disk,  *)
(* for any number of hosts, info hashes and dumps and any limits; then     *)
(* about the tokens, the schedule of the collection and what goes stale.   *)
(***************************************************************************)
EXTENDS PeerStore, FiniteSetTheorems, SequenceTheorems,
        WellFoundedInduction, TLAPS

-----------------------------------------------------------------------------
(***************************************************************************)
(* The inductive invariant.                                                *)
(***************************************************************************)

Listed(ps) == \A p, q \in ps : p.hash = q.hash /\ p.addr = q.addr => p = q

\* What holds of the peers wherever they are kept.
Sound(ps) ==
    /\ ps \subseteq StoredPeers
    /\ IsFiniteSet(ps)
    /\ Listed(ps)
    /\ Cardinality(ps) <= MaxPeers

\* What the dump has when it reads all the rest at once.
Promised == snapshot.peers \cup {p \in peers : p.hash \in copying}

\* While the tables are locked, the remainder of one handler may run; until
\* then the store is the one the dump began with.
CopyInv ==
    dump = "copying" =>
        /\ \A p \in snapshot.peers : p.hash \notin copying
        /\ Cardinality(Promised) <= MaxPeers
        /\ worker = "handling" => Promised = peers

IInv ==
    /\ clock \in Instants
    /\ Sound(peers)
    /\ peers_len = Cardinality(peers)
    /\ snapshot = [tokens |-> snapshot.tokens, peers |-> snapshot.peers]
    /\ Sound(snapshot.peers)
    /\ disk # Broken => Sound(disk.peers)
    /\ CopyInv

-----------------------------------------------------------------------------
\* A part of a sound set of peers is sound.
LEMMA SoundSubset ==
    ASSUME NEW ps, Sound(ps), NEW qs \in SUBSET ps
    PROVE  /\ Sound(qs)
           /\ Cardinality(qs) \in Nat
           /\ Cardinality(qs) <= Cardinality(ps)
           /\ Cardinality(qs) = Cardinality(ps) => qs = ps
<1>1. /\ IsFiniteSet(qs)
      /\ Cardinality(qs) <= Cardinality(ps)
      /\ Cardinality(ps) = Cardinality(qs) => ps = qs
  BY FS_Subset DEF Sound
<1>2. Cardinality(qs) \in Nat /\ Cardinality(ps) \in Nat
  BY <1>1, FS_CardinalityType DEF Sound
<1>3. Cardinality(qs) <= MaxPeers
  BY <1>1, <1>2, PeerStoreAssumption DEF Sound
<1> QED
  BY <1>1, <1>2, <1>3 DEF Sound, Listed

\* No peers at all.
LEMMA EmptyIsSound == Sound({})
BY FS_EmptySet, PeerStoreAssumption DEF Sound, Listed

\* What a dump will have is finite.
LEMMA FinitePromised ==
    ASSUME IInv
    PROVE  IsFiniteSet(Promised) /\ Cardinality(Promised) \in Nat
<1>1. IsFiniteSet({p \in peers : p.hash \in copying})
  BY FS_Subset DEF IInv, Sound
<1>2. IsFiniteSet(Promised)
  BY <1>1, FS_Union DEF IInv, Sound, Promised
<1> QED
  BY <1>2, FS_CardinalityType

-----------------------------------------------------------------------------
\* A refresh exchanges one entry for another of the same address.
LEMMA RefreshSound ==
    ASSUME IInv, NEW h, NEW addr, Refresh(h, addr)
    PROVE  /\ Sound(peers')
           /\ Cardinality(peers') = Cardinality(peers)
           /\ \E p \in peers : \E r \in peers' :
                /\ p.hash = h /\ r.hash = h /\ r.addr = p.addr
                /\ peers' = (peers \ {p}) \cup {r}
<1>1. PICK p \in peers : p.hash = h /\ p.addr = addr
  BY DEF Refresh, At, Of
<1> DEFINE r == [p EXCEPT !.time = clock]
<1>2. At(h, addr) = {p}
  BY <1>1 DEF At, Of, IInv, Sound, Listed
<1>3. r \in StoredPeers /\ r.hash = h /\ r.addr = p.addr
  BY <1>1 DEF IInv, Sound, StoredPeers
<1>4. peers' = (peers \ {p}) \cup {r}
  BY <1>1, <1>2 DEF Refresh
<1>5. r \notin peers \ {p}
  BY <1>1, <1>3 DEF IInv, Sound, Listed
<1> HIDE DEF r
<1>6. /\ IsFiniteSet(peers \ {p})
      /\ Cardinality(peers \ {p}) = Cardinality(peers) - 1
  BY <1>1, FS_RemoveElement DEF IInv, Sound
<1>7. /\ IsFiniteSet(peers')
      /\ Cardinality(peers') = Cardinality(peers \ {p}) + 1
  BY <1>4, <1>5, <1>6, FS_AddElement
<1>8. Cardinality(peers) \in Nat
  BY FS_CardinalityType DEF IInv, Sound
<1>9. peers' \subseteq StoredPeers /\ Listed(peers')
  BY <1>1, <1>3, <1>4 DEF IInv, Sound, Listed
<1> QED
  BY <1>1, <1>3, <1>4, <1>6, <1>7, <1>8, <1>9 DEF IInv, Sound

\* A push adds one entry of an address that was not there.
LEMMA PushSound ==
    ASSUME IInv, NEW h \in InfoHashes, NEW addr \in SockAddrs, Push(h, addr)
    PROVE  /\ Sound(peers')
           /\ Cardinality(peers') = Cardinality(peers) + 1
           /\ peers \subseteq peers'
<1> DEFINE r == [hash |-> h, addr |-> addr, time |-> clock]
<1>1. r \in StoredPeers /\ r.hash = h /\ r.addr = addr
  BY DEF IInv, StoredPeers
<1>2. \A p \in peers : ~(p.hash = h /\ p.addr = addr)
  BY DEF Push, At, Of
<1>3. peers' = peers \cup {r}
  BY DEF Push
<1>4. r \notin peers
  BY <1>1, <1>2
<1> HIDE DEF r
<1>5. /\ IsFiniteSet(peers')
      /\ Cardinality(peers') = Cardinality(peers) + 1
  BY <1>3, <1>4, FS_AddElement DEF IInv, Sound
<1>6. Cardinality(peers) \in Nat
  BY FS_CardinalityType DEF IInv, Sound
<1>7. Cardinality(peers) < MaxPeers
  BY DEF Push, IInv
<1>8. peers' \subseteq StoredPeers /\ Listed(peers')
  BY <1>1, <1>2, <1>3 DEF IInv, Sound, Listed
<1> QED
  BY <1>3, <1>5, <1>6, <1>7, <1>8, PeerStoreAssumption DEF Sound

-----------------------------------------------------------------------------
(***************************************************************************)
(* Every action keeps the invariant.                                       *)
(***************************************************************************)

\* Taking the write lock, handing out a token, doing nothing and the passing
\* of time leave all peers where they are.
LEMMA SamePeersStep ==
    ASSUME IInv,
           clock' \in Instants,
           UNCHANGED <<peers, peers_len, dumping>>,
           dump = "copying" => worker' # "handling"
    PROVE  IInv'
<1>1. Promised' = Promised
  BY DEF Promised, dumping
<1> QED
  BY <1>1 DEF IInv, CopyInv, Sound, Listed, dumping

\* An announcement.  While the dump holds the tables it can only be the
\* remainder of the one handler that got in before: what the dump will have
\* is then part of the store, or as before.
LEMMA StorePeerStep ==
    ASSUME IInv,
           NEW id \in NodeIds, NEW sender \in SockAddrs, NEW token \in Tokens,
           NEW h \in InfoHashes, NEW implied \in BOOLEAN, NEW port \in Ports,
           StorePeer(id, sender, token, h, implied, port)
    PROVE  IInv'
<1> DEFINE addr == Announced(sender, implied, port)
<1>1. addr \in SockAddrs
  BY DEF Announced, SockAddrs
<1>2. /\ worker = "handling" /\ worker' = "idle"
      /\ UNCHANGED <<clock, dumping>>
      /\ Refresh(h, addr) \/ Push(h, addr)
  BY DEF StorePeer, EndQuery
<1> HIDE DEF addr
<1>3. Sound(peers') /\ peers_len' = Cardinality(peers')
  <2>1. CASE Refresh(h, addr)
    BY <2>1, RefreshSound DEF Refresh, IInv
  <2>2. CASE Push(h, addr)
    BY <1>1, <2>2, PushSound DEF Push, IInv
  <2> QED
    BY <1>2, <2>1, <2>2
<1>4. ASSUME dump = "copying"
      PROVE  Promised' \subseteq peers' \/ Promised' = Promised
  <2>1. /\ Promised = peers
        /\ \A p \in snapshot.peers : p.hash \notin copying
    BY <1>2, <1>4 DEF IInv, CopyInv
  <2>2. UNCHANGED <<snapshot, copying>>
    BY <1>2 DEF dumping
  <2>3. CASE Refresh(h, addr)
    <3>1. PICK p \in peers, r \in peers' :
            /\ p.hash = h /\ r.hash = h
            /\ peers' = (peers \ {p}) \cup {r}
      BY <2>3, RefreshSound
    <3>2. CASE h \in copying
      BY <2>1, <2>2, <3>1, <3>2 DEF Promised
    <3>3. CASE h \notin copying
      BY <2>1, <2>2, <3>1, <3>3 DEF Promised
    <3> QED
      BY <3>2, <3>3
  <2>4. CASE Push(h, addr)
    <3>1. peers \subseteq peers'
      BY <1>1, <2>4, PushSound
    <3> QED
      BY <2>1, <2>2, <3>1 DEF Promised
  <2> QED
    BY <1>2, <2>3, <2>4
<1>5. CopyInv'
  <2>1. ASSUME dump = "copying"
        PROVE  Cardinality(Promised') <= MaxPeers
    <3>1. CASE Promised' \subseteq peers'
      <4>1. Cardinality(Promised') <= Cardinality(peers')
            /\ Cardinality(Promised') \in Nat /\ Cardinality(peers') \in Nat
        BY <1>3, <3>1, FS_Subset, FS_CardinalityType DEF Sound
      <4> QED
        BY <1>3, <4>1, PeerStoreAssumption DEF Sound
    <3>2. CASE Promised' = Promised
      BY <2>1, <3>2 DEF IInv, CopyInv
    <3> QED
      BY <1>4, <2>1, <3>1, <3>2
  <2> QED
    BY <1>2, <2>1 DEF IInv, CopyInv, dumping
<1> QED
  BY <1>2, <1>3, <1>5 DEF IInv, Sound, Listed, dumping

\* A collection only removes peers, and counts those that stay.
LEMMA GarbageCollectStep ==
    ASSUME IInv, GarbageCollect
    PROVE  IInv'
<1>1. /\ peers' \subseteq peers
      /\ peers_len' = Cardinality(peers')
      /\ worker = "idle" /\ worker' = "idle"
      /\ UNCHANGED <<clock, dumping>>
  BY DEF GarbageCollect, Fresh
<1>2. Sound(peers')
  BY <1>1, SoundSubset DEF IInv
<1>3. Promised' \subseteq Promised
  BY <1>1 DEF Promised, dumping
<1>4. ASSUME dump = "copying"
      PROVE  Cardinality(Promised') <= MaxPeers
  <2>1. IsFiniteSet(Promised) /\ Cardinality(Promised) \in Nat
    BY FinitePromised
  <2>2. Cardinality(Promised') <= Cardinality(Promised)
        /\ Cardinality(Promised') \in Nat
    BY <1>3, <2>1, FS_Subset, FS_CardinalityType
  <2> QED
    BY <1>4, <2>1, <2>2, PeerStoreAssumption DEF IInv, CopyInv
<1>5. CopyInv'
  BY <1>1, <1>4 DEF IInv, CopyInv, dumping
<1> QED
  BY <1>1, <1>2, <1>5 DEF IInv, Sound, Listed, dumping

\* The dump begins: it will have what is in the store.
LEMMA DumpStartStep ==
    ASSUME IInv, DumpStart
    PROVE  IInv'
<1>1. /\ UNCHANGED <<store, clock, worker, disk>>
      /\ copying' = InfoHashes
      /\ snapshot' = [tokens |-> tokens, peers |-> {}]
  BY DEF DumpStart
<1>2. snapshot'.peers = {} /\ snapshot'.tokens = tokens
  BY <1>1
<1>3. \A p \in peers : p.hash \in InfoHashes
  BY DEF IInv, Sound, StoredPeers
<1>4. Promised' = peers'
  BY <1>1, <1>2, <1>3 DEF Promised, store
<1>5. Sound(peers')
  BY <1>1 DEF IInv, Sound, Listed, store
<1>6. CopyInv'
  BY <1>2, <1>4, <1>5 DEF CopyInv, Sound
<1>7. Sound(snapshot'.peers)
  BY <1>2, EmptyIsSound
<1> QED
  BY <1>1, <1>2, <1>5, <1>6, <1>7 DEF IInv, Sound, Listed, store

\* The dump reads one info hash, of which it had nothing.
LEMMA DumpHashStep ==
    ASSUME IInv, NEW h \in InfoHashes, DumpHash(h)
    PROVE  IInv'
<1>1. /\ dump = "copying" /\ h \in copying
      /\ copying' = copying \ {h}
      /\ snapshot' = [snapshot EXCEPT !.peers = @ \cup Of(peers, h)]
      /\ UNCHANGED <<store, clock, worker, dump, disk>>
  BY DEF DumpHash
<1>2. /\ snapshot'.peers = snapshot.peers \cup Of(peers, h)
      /\ snapshot' = [tokens |-> snapshot'.tokens, peers |-> snapshot'.peers]
  BY <1>1 DEF IInv
<1>3. /\ \A p \in snapshot.peers : p.hash \notin copying
      /\ Cardinality(Promised) <= MaxPeers
      /\ worker = "handling" => Promised = peers
  BY <1>1 DEF IInv, CopyInv
<1>4. Promised' = Promised
  BY <1>1, <1>2 DEF Promised, Of, store
<1>5. CopyInv'
  BY <1>1, <1>2, <1>3, <1>4 DEF CopyInv, Of, store
<1>6. Sound(snapshot'.peers)
  <2>1. snapshot'.peers \subseteq Promised
    BY <1>1, <1>2 DEF Promised, Of
  <2>2. IsFiniteSet(Promised) /\ Cardinality(Promised) \in Nat
    BY FinitePromised
  <2>3. /\ IsFiniteSet(snapshot'.peers)
        /\ Cardinality(snapshot'.peers) \in Nat
        /\ Cardinality(snapshot'.peers) <= Cardinality(Promised)
    BY <2>1, <2>2, FS_Subset, FS_CardinalityType
  <2>4. snapshot'.peers \subseteq StoredPeers
    BY <1>2 DEF IInv, Sound, Of
  <2>5. Listed(snapshot'.peers)
    BY <1>1, <1>2, <1>3 DEF IInv, Sound, Listed, Of
  <2> QED
    BY <1>3, <2>2, <2>3, <2>4, <2>5, PeerStoreAssumption DEF Sound
<1> QED
  BY <1>1, <1>2, <1>5, <1>6 DEF IInv, Sound, Listed, store

\* The dump ends, one way or another.
LEMMA DumpEndStep ==
    ASSUME IInv, DumpRename \/ DumpFlush \/ DumpFails
    PROVE  IInv'
<1>1. UNCHANGED <<store, clock, worker>>
  BY DEF DumpRename, DumpFlush, DumpFails
<1>2. dump' \in {"renamed", "none"}
  BY DEF DumpRename, DumpFlush, DumpFails
<1>3. /\ snapshot' \in {snapshot, Empty}
      /\ disk' \in {disk, Broken, snapshot}
  BY DEF DumpRename, DumpFlush, DumpFails
<1>4. Sound(Empty.peers)
  BY EmptyIsSound DEF Empty
<1>5. CopyInv'
  BY <1>2 DEF CopyInv
<1>6. /\ snapshot' = [tokens |-> snapshot'.tokens, peers |-> snapshot'.peers]
      /\ Sound(snapshot'.peers)
  <2>1. CASE snapshot' = snapshot
    BY <2>1 DEF IInv
  <2>2. CASE snapshot' = Empty
    BY <2>2, <1>4 DEF Empty
  <2> QED
    BY <1>3, <2>1, <2>2
<1>7. disk' # Broken => Sound(disk'.peers)
  BY <1>3 DEF IInv
<1> QED
  BY <1>1, <1>5, <1>6, <1>7 DEF IInv, Sound, Listed, store

\* The next process starts from a sound copy, and counts it.
LEMMA RestartStep ==
    ASSUME IInv, Restart
    PROVE  IInv'
<1>1. Sound(Empty.peers)
  BY EmptyIsSound DEF Empty
<1>2. /\ Sound(peers') /\ peers_len' = Cardinality(peers')
      /\ snapshot' = Empty /\ dump' = "none"
      /\ UNCHANGED <<clock, disk>>
  <2>1. CASE disk = Broken
    BY <1>1, <2>1 DEF Restart
  <2>2. CASE disk # Broken
    BY <2>2 DEF Restart, IInv
  <2> QED
    BY <2>1, <2>2
<1>3. CopyInv'
  BY <1>2 DEF CopyInv
<1>4. snapshot' = [tokens |-> snapshot'.tokens, peers |-> snapshot'.peers]
      /\ Sound(snapshot'.peers)
  BY <1>1, <1>2 DEF Empty
<1> QED
  BY <1>2, <1>3, <1>4 DEF IInv, Sound, Listed

-----------------------------------------------------------------------------
LEMMA InitIInv == Init => IInv
<1> SUFFICES ASSUME Init PROVE IInv
  OBVIOUS
<1>1. Sound(peers) /\ Sound(snapshot.peers)
  BY EmptyIsSound DEF Init, Empty
<1> QED
  BY <1>1, FS_EmptySet, PeerStoreAssumption
  DEF Init, IInv, CopyInv, Empty, Instants

LEMMA NextIInv == IInv /\ [Next]_vars => IInv'
<1> SUFFICES ASSUME IInv, [Next]_vars PROVE IInv'
  OBVIOUS
<1>1. CASE BeginQuery
  BY <1>1, SamePeersStep DEF BeginQuery, store, IInv
<1>2. ASSUME NEW id \in NodeIds, NEW addr \in SockAddrs, NEW token \in Tokens,
             GenToken(id, addr, token)
      PROVE  IInv'
  BY <1>2, SamePeersStep DEF GenToken, EndQuery, IInv
<1>3. ASSUME NEW id \in NodeIds, NEW addr \in SockAddrs, NEW token \in Tokens,
             NEW h \in InfoHashes, NEW implied \in BOOLEAN, NEW port \in Ports,
             StorePeer(id, addr, token, h, implied, port)
      PROVE  IInv'
  BY <1>3, StorePeerStep
<1>4. CASE OtherQuery
  BY <1>4, SamePeersStep DEF OtherQuery, EndQuery, store, IInv
<1>5. CASE GarbageCollect
  BY <1>5, GarbageCollectStep
<1>6. CASE DumpStart
  BY <1>6, DumpStartStep
<1>7. ASSUME NEW h \in InfoHashes, DumpHash(h)
      PROVE  IInv'
  BY <1>7, DumpHashStep
<1>8. CASE DumpRename \/ DumpFlush \/ DumpFails
  BY <1>8, DumpEndStep
<1>9. CASE Restart
  BY <1>9, RestartStep
<1>10. CASE Tick
  <2>1. clock' \in Instants
    BY <1>10, PeerStoreAssumption DEF Tick, Instants, IInv
  <2>2. Promised' = Promised
    BY <1>10 DEF Tick, Promised, store, dumping
  <2> QED
    BY <1>10, <2>1, <2>2
    DEF Tick, IInv, CopyInv, Sound, Listed, store, dumping
<1>11. CASE UNCHANGED vars
  <2>1. Promised' = Promised
    BY <1>11 DEF vars, Promised, store, dumping
  <2> QED
    BY <1>11, <2>1 DEF vars, IInv, CopyInv, Sound, Listed, store, dumping
<1> QED
  BY <1>1, <1>2, <1>3, <1>4, <1>5, <1>6, <1>7, <1>8, <1>9, <1>10, <1>11
  DEF Next

\* The peers stay sound through announcements, collections, dumps and
\* restarts.
THEOREM Invariance == Spec => []IInv
<1> QED
  BY InitIInv, NextIInv, PTL DEF Spec

\* The counter an announcement is judged by is the number of peers.
THEOREM CounterIsExact == Spec => []CountExact
<1>1. IInv => CountExact
  BY DEF IInv, CountExact
<1> QED
  BY <1>1, Invariance, PTL

\* Neither the store, nor a dump that reads it piecemeal, nor the file ever
\* exceeds max_remembered_peers.
THEOREM LimitKept == Spec => []NeverOverLimit
<1>1. IInv => NeverOverLimit
  BY DEF IInv, Sound, NeverOverLimit
<1> QED
  BY <1>1, Invariance, PTL

\* Each address is listed once per info hash, through restarts.
THEOREM PeersListedOnce == Spec => []ListedOnce
<1>1. IInv => ListedOnce
  BY DEF IInv, Sound, Listed, ListedOnce
<1> QED
  BY <1>1, Invariance, PTL

-----------------------------------------------------------------------------
(***************************************************************************)
(* Who may disappear.                                                      *)
(***************************************************************************)

\* The last part of the collection, which evicts over the limit of the store
\* and would do so unfairly, has nothing to do.
LEMMA NothingToEvict ==
    ASSUME IInv, NEW kept \in SUBSET peers, NEW left \in SUBSET kept,
           EvictedDownTo(left, kept)
    PROVE  left = kept
<1>1. /\ Cardinality(kept) \in Nat /\ Cardinality(kept) <= MaxPeers
      /\ Sound(kept)
  BY SoundSubset DEF IInv, Sound
<1>2. /\ Cardinality(left) \in Nat
      /\ Cardinality(left) <= Cardinality(kept)
      /\ Cardinality(left) = Cardinality(kept) => left = kept
  BY <1>1, SoundSubset
<1>3. kept \ left # {} => Cardinality(left) = MaxPeers
  BY DEF EvictedDownTo
<1> QED
  BY <1>1, <1>2, <1>3, PeerStoreAssumption

\* CrowdedOutByItsOwn, for one peer.
StaysOrGoesFairly(p) ==
    \/ \E q \in peers' : q.hash = p.hash /\ q.addr = p.addr
    \/ clock - p.time >= PeerTTL
    \/ Cardinality({q \in peers' : q.hash = p.hash /\ q.time >= p.time})
         >= MaxPerHash

LEMMA CollectedFairly ==
    ASSUME IInv, GarbageCollect, NEW p \in peers
    PROVE  StaysOrGoesFairly(p)
<1>1. PICK kept \in SUBSET Fresh(peers) :
        /\ MostRecentOf(kept, Fresh(peers))
        /\ \E left \in SUBSET kept :
             EvictedDownTo(left, kept) /\ peers' = left
  BY DEF GarbageCollect
<1>2. peers' = kept
  BY <1>1, NothingToEvict DEF Fresh
<1>3. /\ p.hash \in InfoHashes /\ p.time \in Instants
      /\ clock \in Instants
  BY DEF IInv, Sound, StoredPeers
<1>4. CASE p \notin Fresh(peers)
  BY <1>3, <1>4, PeerStoreAssumption DEF Fresh, StaysOrGoesFairly, Instants
<1>5. CASE p \in kept
  BY <1>2, <1>5 DEF StaysOrGoesFairly
<1>6. CASE p \in Fresh(peers) /\ p \notin kept
  <2>1. p \in Of(Fresh(peers), p.hash) \ Of(kept, p.hash)
    BY <1>6 DEF Of
  <2>2. /\ Cardinality(Of(kept, p.hash)) = MaxPerHash
        /\ \A q \in Of(kept, p.hash) : q.time >= p.time
    BY <1>1, <1>3, <2>1 DEF MostRecentOf, Of
  <2> DEFINE others == {q \in peers' : q.hash = p.hash /\ q.time >= p.time}
  <2>3. others = Of(kept, p.hash)
    BY <1>2, <2>2 DEF Of
  <2>4. MaxPerHash \in Nat
    BY PeerStoreAssumption
  <2>5. Cardinality(others) >= MaxPerHash
    <3> HIDE DEF others
    <3> QED
      BY <2>2, <2>3, <2>4
  <2> QED
    BY <2>5 DEF StaysOrGoesFairly
<1> QED
  BY <1>4, <1>5, <1>6

\* Announcements take nobody away.
LEMMA AnnouncedFairly ==
    ASSUME IInv,
           NEW id \in NodeIds, NEW sender \in SockAddrs, NEW token \in Tokens,
           NEW h \in InfoHashes, NEW implied \in BOOLEAN, NEW port \in Ports,
           StorePeer(id, sender, token, h, implied, port), NEW p \in peers
    PROVE  StaysOrGoesFairly(p)
<1> DEFINE addr == Announced(sender, implied, port)
<1>1. addr \in SockAddrs
  BY DEF Announced, SockAddrs
<1>2. Refresh(h, addr) \/ Push(h, addr)
  BY DEF StorePeer
<1> HIDE DEF addr
<1>3. CASE Refresh(h, addr)
  <2>1. PICK q \in peers, r \in peers' :
          /\ q.hash = h /\ r.hash = h /\ r.addr = q.addr
          /\ peers' = (peers \ {q}) \cup {r}
    BY <1>3, RefreshSound
  <2> QED
    BY <2>1 DEF StaysOrGoesFairly
<1>4. CASE Push(h, addr)
  BY <1>1, <1>4, PushSound DEF StaysOrGoesFairly
<1> QED
  BY <1>2, <1>3, <1>4

\* While the process runs a peer disappears only by its own silence, or when
\* its own info hash has enough peers heard from no less recently.
THEOREM EvictionIsFair == Spec => CrowdedOutByItsOwn
<1>1. IInv /\ [Next]_vars =>
        [\A p \in peers : StaysOrGoesFairly(p) \/ Restart]_vars
  <2> SUFFICES ASSUME IInv, [Next]_vars, ~Restart, NEW p \in peers
               PROVE  StaysOrGoesFairly(p)
    OBVIOUS
  <2>1. CASE peers' = peers
    BY <2>1 DEF StaysOrGoesFairly
  <2>2. CASE GarbageCollect
    BY <2>2, CollectedFairly
  <2>3. ASSUME NEW id \in NodeIds, NEW addr \in SockAddrs,
               NEW token \in Tokens, NEW h \in InfoHashes,
               NEW implied \in BOOLEAN, NEW port \in Ports,
               StorePeer(id, addr, token, h, implied, port)
        PROVE  StaysOrGoesFairly(p)
    BY <2>3, AnnouncedFairly
  <2>4. BeginQuery \/ OtherQuery \/ DumpStart \/ DumpRename \/ DumpFlush
          \/ DumpFails \/ Tick \/ UNCHANGED vars
          => peers' = peers
    BY DEF BeginQuery, OtherQuery, DumpStart, DumpRename, DumpFlush,
           DumpFails, Tick, vars, store
  <2>5. ASSUME NEW h \in InfoHashes, DumpHash(h) PROVE peers' = peers
    BY <2>5 DEF DumpHash, store
  <2>6. ASSUME NEW id \in NodeIds, NEW addr \in SockAddrs,
               NEW token \in Tokens, GenToken(id, addr, token)
        PROVE  peers' = peers
    BY <2>6 DEF GenToken
  <2> QED
    BY <2>1, <2>2, <2>3, <2>4, <2>5, <2>6 DEF Next
<1>2. [\A p \in peers : StaysOrGoesFairly(p) \/ Restart]_vars =>
        [\A p \in peers :
           \/ \E q \in peers' : q.hash = p.hash /\ q.addr = p.addr
           \/ clock - p.time >= PeerTTL
           \/ Cardinality({q \in peers' : q.hash = p.hash /\ q.time >= p.time})
                >= MaxPerHash
           \/ Restart]_vars
  BY DEF StaysOrGoesFairly
<1> QED
  BY <1>1, <1>2, Invariance, PTL DEF Spec, CrowdedOutByItsOwn
-----------------------------------------------------------------------------
(***************************************************************************)
(* The queue of tokens.                                                    *)
(***************************************************************************)

\* Induction over the natural numbers, about membership in a set.
LEMMA NatSetInduction ==
    ASSUME NEW S, 0 \in S, \A n \in Nat : n \in S => n + 1 \in S
    PROVE  \A n \in Nat : n \in S
<1> DEFINE T == Nat \ S
<1> SUFFICES ASSUME T # {}
             PROVE  FALSE
  OBVIOUS
<1>1. PICK x \in T : \A y \in T : <<y, x>> \notin OpToRel(<, Nat)
  BY NatLessThanWellFounded, WFMin
<1>2. x \in Nat /\ x # 0
  OBVIOUS
<1>3. x - 1 \in Nat /\ x - 1 < x /\ x - 1 + 1 = x
  BY <1>2
<1>4. x - 1 \in T
  BY <1>2, <1>3
<1>5. <<x - 1, x>> \in OpToRel(<, Nat)
  BY <1>2, <1>3 DEF OpToRel
<1> QED
  BY <1>1, <1>4, <1>5

\* One round of retain.
Retained(q, kept, i) ==
    IF i = 0 THEN <<>>
    ELSE IF q[i].time > clock - TokenTTL
    THEN Append(kept[i - 1], q[i]) ELSE kept[i - 1]

\* The recursion of Unexpired has a solution, for each prefix of the queue.
LEMMA RetainedExists ==
    ASSUME NEW q
    PROVE  \A n \in Nat : \E kept :
             kept = [i \in 0 .. n |-> Retained(q, kept, i)]
<1> DEFINE S == {n \in Nat : \E kept :
                   kept = [i \in 0 .. n |-> Retained(q, kept, i)]}
<1>1. 0 \in S
  <2> DEFINE kept == [i \in 0 .. 0 |-> <<>>]
  <2>1. kept = [i \in 0 .. 0 |-> Retained(q, kept, i)]
    BY DEF Retained
  <2> QED
    BY <2>1
<1>2. ASSUME NEW n \in Nat, n \in S
      PROVE  n + 1 \in S
  <2>1. PICK kept : kept = [i \in 0 .. n |-> Retained(q, kept, i)]
    BY <1>2
  <2> DEFINE more == [i \in 0 .. n + 1 |-> Retained(q, kept, i)]
  <2>2. \A i \in 0 .. n : more[i] = kept[i]
    BY <2>1
  <2>3. more = [i \in 0 .. n + 1 |-> Retained(q, kept, i)]
    OBVIOUS
  <2> HIDE DEF more
  <2>4. ASSUME NEW i \in 0 .. n + 1
        PROVE  Retained(q, more, i) = Retained(q, kept, i)
    <3>1. i = 0 \/ i - 1 \in 0 .. n
      OBVIOUS
    <3> QED
      BY <2>2, <3>1 DEF Retained
  <2>5. more = [i \in 0 .. n + 1 |-> Retained(q, more, i)]
    BY <2>3, <2>4, Zenon
  <2>6. n + 1 \in Nat
    OBVIOUS
  <2> QED
    BY <2>5, <2>6, Zenon
<1> HIDE DEF S
<1>3. \A n \in Nat : n \in S
  BY <1>1, <1>2, NatSetInduction
<1> QED
  BY <1>3 DEF S

\* What a collection leaves of the queue: tokens that were in it and have not
\* expired.
LEMMA UnexpiredTokens ==
    ASSUME NEW q \in Seq(StoredTokens)
    PROVE  /\ Unexpired(q) \in Seq(StoredTokens)
           /\ Len(Unexpired(q)) <= Len(q)
           /\ ToSet(Unexpired(q)) \subseteq ToSet(q)
           /\ \A t \in ToSet(Unexpired(q)) : t.time > clock - TokenTTL
<1> DEFINE Solves(f) == f = [i \in 0 .. Len(q) |-> Retained(q, f, i)]
           kept == CHOOSE f : Solves(f)
           Good(s, i) ==
             /\ s \in Seq(StoredTokens)
             /\ Len(s) <= i
             /\ \A j \in 1 .. Len(s) :
                  s[j] \in ToSet(q) /\ s[j].time > clock - TokenTTL
           S == {i \in Nat : i <= Len(q) => Good(kept[i], i)}
<1>1. \E f : Solves(f)
  <2>1. Len(q) \in Nat
    OBVIOUS
  <2> QED
    BY <2>1, RetainedExists, Zenon
<1>2. Solves(kept)
  BY <1>1
<1>3. Unexpired(q) = kept[Len(q)]
  BY DEF Unexpired, Retained
<1> HIDE DEF kept
<1>4. \A i \in 0 .. Len(q) : kept[i] = Retained(q, kept, i)
  BY <1>2
<1>5. 0 \in S
  <2>1. kept[0] = <<>>
    BY <1>4 DEF Retained
  <2>2. Good(<<>>, 0)
    OBVIOUS
  <2> QED
    BY <2>1, <2>2
<1>6. ASSUME NEW n \in Nat, n \in S
      PROVE  n + 1 \in S
  <2> SUFFICES ASSUME n + 1 <= Len(q)
               PROVE  Good(kept[n + 1], n + 1)
    OBVIOUS
  <2>1. Good(kept[n], n)
    BY <1>6
  <2>2. n + 1 \in 1 .. Len(q) /\ q[n + 1] \in ToSet(q)
        /\ q[n + 1] \in StoredTokens
    BY DEF ToSet
  <2>3. kept[n + 1] = IF q[n + 1].time > clock - TokenTTL
                      THEN Append(kept[n], q[n + 1]) ELSE kept[n]
    BY <1>4, <2>2 DEF Retained
  <2>4. CASE q[n + 1].time > clock - TokenTTL
    BY <2>1, <2>2, <2>3, <2>4
  <2>5. CASE ~(q[n + 1].time > clock - TokenTTL)
    BY <2>1, <2>3, <2>5
  <2> QED
    BY <2>4, <2>5
<1> HIDE DEF S
<1>7. Len(q) \in S
  BY <1>5, <1>6, NatSetInduction
<1>8. Good(Unexpired(q), Len(q))
  BY <1>3, <1>7 DEF S
<1> QED
  BY <1>8 DEF ToSet

-----------------------------------------------------------------------------
(***************************************************************************)
(* Types, tokens and times.                                                *)
(***************************************************************************)

\* What holds of a queue of tokens wherever it is kept.
QueueSound(q) ==
    /\ q \in Seq(StoredTokens)
    /\ Len(q) <= MaxTokens
    /\ \A t \in ToSet(q) : t.addr.host \in granted

PeersGranted(ps) == \A p \in ps : p.addr.host \in granted

\* The next collection is at most an interval away.  What is in the store
\* will have been there for less than its time to live and an interval when
\* that collection comes, once there was one before.
Scheduled ==
    /\ next_gc \in Nat
    /\ clock <= next_gc
    /\ next_gc <= clock + GcEvery
    /\ ~booting =>
         /\ \A t \in ToSet(tokens) : next_gc < t.time + TokenTTL + GcEvery
         /\ \A p \in peers : next_gc < p.time + PeerTTL + GcEvery

TInv ==
    /\ TypeOK
    /\ QueueSound(tokens) /\ PeersGranted(peers)
    /\ QueueSound(snapshot.tokens) /\ PeersGranted(snapshot.peers)
    /\ disk # Broken => QueueSound(disk.tokens) /\ PeersGranted(disk.peers)
    /\ Scheduled

\* A token joins the queue, and may push out the first one.
LEMMA TokenAdded ==
    ASSUME NEW q \in Seq(StoredTokens), Len(q) <= MaxTokens,
           NEW t \in StoredTokens,
           NEW more,
           more = IF Len(Append(q, t)) > MaxTokens
                  THEN Tail(Append(q, t)) ELSE Append(q, t)
    PROVE  /\ more \in Seq(StoredTokens)
           /\ Len(more) <= MaxTokens
           /\ ToSet(more) \subseteq ToSet(q) \cup {t}
<1> DEFINE all == Append(q, t)
<1>1. /\ all \in Seq(StoredTokens)
      /\ Len(all) = Len(q) + 1
      /\ \A i \in 1 .. Len(all) : all[i] \in ToSet(q) \cup {t}
  BY DEF ToSet
<1>2. MaxTokens \in Nat
  BY PeerStoreAssumption
<1> HIDE DEF all
<1>3. CASE Len(all) > MaxTokens
  <2>1. more = Tail(all) /\ all # <<>>
    BY <1>1, <1>3 DEF all
  <2>2. /\ Tail(all) \in Seq(StoredTokens)
        /\ Len(Tail(all)) = Len(all) - 1
        /\ \A i \in 1 .. Len(Tail(all)) : Tail(all)[i] = all[i + 1]
    BY <1>1, <2>1, HeadTailProperties
  <2> QED
    BY <1>1, <1>2, <2>1, <2>2 DEF ToSet
<1>4. CASE ~(Len(all) > MaxTokens)
  <2>1. more = all
    BY <1>4 DEF all
  <2> QED
    BY <1>1, <1>2, <1>4, <2>1 DEF ToSet
<1> QED
  BY <1>3, <1>4

NewToken(id, addr, token) ==
    [token |-> token, node_id |-> id, addr |-> addr, time |-> clock]

LEMMA TokenGiven ==
    ASSUME TypeOK,
           NEW id \in NodeIds, NEW addr \in SockAddrs, NEW token \in Tokens,
           GenToken(id, addr, token)
    PROVE  /\ NewToken(id, addr, token) \in StoredTokens
           /\ tokens' \in Seq(StoredTokens)
           /\ Len(tokens') <= MaxTokens
           /\ ToSet(tokens') \subseteq
                ToSet(tokens) \cup {NewToken(id, addr, token)}
<1> DEFINE t == NewToken(id, addr, token)
<1>1. t \in StoredTokens
  BY DEF StoredTokens, NewToken, TypeOK
<1>2. tokens \in Seq(StoredTokens) /\ Len(tokens) <= MaxTokens
  BY DEF TypeOK
<1>3. tokens' = IF Len(Append(tokens, t)) > MaxTokens
                THEN Tail(Append(tokens, t)) ELSE Append(tokens, t)
  BY DEF GenToken, NewToken
<1> HIDE DEF t
<1>4. /\ tokens' \in Seq(StoredTokens)
      /\ Len(tokens') <= MaxTokens
      /\ ToSet(tokens') \subseteq ToSet(tokens) \cup {t}
  BY <1>1, <1>2, <1>3, TokenAdded
<1> QED
  BY <1>1, <1>4 DEF t

\* Times are numbers.
LEMMA Times ==
    ASSUME TypeOK
    PROVE  /\ clock \in Nat /\ next_gc \in Nat
           /\ {TokenTTL, PeerTTL, GcEvery} \subseteq Nat \ {0}
           /\ \A t \in ToSet(tokens) : t.time \in Nat
           /\ \A p \in peers : p.time \in Nat
<1>1. \A t \in ToSet(tokens) : t \in StoredTokens
  BY DEF TypeOK, ToSet
<1> QED
  BY <1>1, PeerStoreAssumption
  DEF TypeOK, Instants, StoredTokens, StoredPeers

LEMMA InitTInv == Init => TInv
BY PeerStoreAssumption
DEF Init, TInv, TypeOK, QueueSound, PeersGranted, Scheduled, Empty, Snapshots,
    Instants, ToSet

\* The queue and the peers, in memory and in copies, are as they were or come
\* from one another.
LEMMA TypeTStep == IInv' /\ TInv /\ [Next]_vars => TypeOK'
<1> SUFFICES ASSUME IInv', TInv, [Next]_vars
             PROVE  TypeOK'
  OBVIOUS
<1>0. peers_len' \in Nat
  BY FS_CardinalityType DEF IInv, Sound
<1> USE <1>0, PeerStoreAssumption DEF TInv, TypeOK
<1>1. CASE BeginQuery
  BY <1>1 DEF BeginQuery, store, gc, dumping
<1>2. ASSUME NEW id \in NodeIds, NEW addr \in SockAddrs, NEW token \in Tokens,
             GenToken(id, addr, token)
      PROVE  TypeOK'
  <2>1. tokens' \in Seq(StoredTokens) /\ Len(tokens') <= MaxTokens
    BY <1>2, TokenGiven
  <2>2. granted' \in SUBSET Hosts
    BY <1>2 DEF GenToken, SockAddrs
  <2> QED
    BY <1>2, <2>1, <2>2 DEF GenToken, EndQuery, gc, dumping
<1>3. ASSUME NEW id \in NodeIds, NEW addr \in SockAddrs, NEW token \in Tokens,
             NEW h \in InfoHashes, NEW implied \in BOOLEAN, NEW port \in Ports,
             StorePeer(id, addr, token, h, implied, port)
      PROVE  TypeOK'
  <2> DEFINE a == Announced(addr, implied, port)
  <2>1. a \in SockAddrs
    BY DEF Announced, SockAddrs
  <2> HIDE DEF a
  <2>2. Refresh(h, a) \/ Push(h, a)
    BY <1>3 DEF StorePeer, a
  <2>3. peers' \in SUBSET StoredPeers /\ peers_len' \in Nat
    BY <2>1, <2>2 DEF Refresh, Push, StoredPeers
  <2> QED
    BY <1>3, <2>3 DEF StorePeer, EndQuery, gc, dumping
<1>4. CASE OtherQuery
  BY <1>4 DEF OtherQuery, EndQuery, store, gc, dumping
<1>5. CASE GarbageCollect
  <2>1. tokens' \in Seq(StoredTokens) /\ Len(tokens') <= MaxTokens
    <3>1. /\ Unexpired(tokens) \in Seq(StoredTokens)
          /\ Len(Unexpired(tokens)) <= Len(tokens)
      BY UnexpiredTokens
    <3> QED
      BY <1>5, <3>1 DEF GarbageCollect
  <2>2. peers' \in SUBSET peers
    BY <1>5 DEF GarbageCollect, Fresh
  <2>3. next_gc' \in Nat
    BY <1>5 DEF GarbageCollect, Instants
  <2> QED
    BY <1>5, <2>1, <2>2, <2>3 DEF GarbageCollect, dumping
<1>6. CASE DumpStart
  BY <1>6 DEF DumpStart, store, gc, Snapshots
<1>7. ASSUME NEW h \in InfoHashes, DumpHash(h)
      PROVE  TypeOK'
  BY <1>7 DEF DumpHash, store, gc, Snapshots, Of
<1>8. CASE DumpRename
  BY <1>8 DEF DumpRename, store, gc
<1>9. CASE DumpFlush
  BY <1>9 DEF DumpFlush, store, gc, Snapshots, Empty
<1>10. CASE DumpFails
  BY <1>10 DEF DumpFails, store, gc, Snapshots, Empty
<1>11. CASE Restart
  <2>1. /\ tokens' \in Seq(StoredTokens) /\ Len(tokens') <= MaxTokens
        /\ peers' \in SUBSET StoredPeers
    <3>1. CASE disk = Broken
      BY <1>11, <3>1 DEF Restart, Empty
    <3>2. CASE disk # Broken
      BY <1>11, <3>2 DEF Restart, QueueSound, Snapshots
    <3> QED
      BY <3>1, <3>2
  <2> QED
    BY <1>11, <2>1 DEF Restart, Snapshots, Empty, Instants
<1>12. CASE Tick
  BY <1>12 DEF Tick, store, gc, dumping, Instants
<1>13. CASE UNCHANGED vars
  BY <1>13 DEF vars, store, gc, dumping
<1> QED
  BY <1>1, <1>2, <1>3, <1>4, <1>5, <1>6, <1>7, <1>8, <1>9, <1>10, <1>11,
     <1>12, <1>13 DEF Next

\* Hosts in the store and in its copies were granted a token.
Granted ==
    /\ QueueSound(tokens) /\ PeersGranted(peers)
    /\ QueueSound(snapshot.tokens) /\ PeersGranted(snapshot.peers)
    /\ disk # Broken => QueueSound(disk.tokens) /\ PeersGranted(disk.peers)

\* A queue stays sound when more hosts are granted tokens.
LEMMA QueueKept ==
    ASSUME NEW q, QueueSound(q), granted \subseteq granted'
    PROVE  QueueSound(q)'
BY DEF QueueSound

\* An announcement is accepted from hosts only that were granted a token.
LEMMA AnnouncedGranted ==
    ASSUME TInv, NEW id \in NodeIds, NEW addr \in SockAddrs,
           NEW token \in Tokens, NEW h \in InfoHashes,
           NEW implied \in BOOLEAN, NEW port \in Ports,
           StorePeer(id, addr, token, h, implied, port)
    PROVE  PeersGranted(peers')
<1> DEFINE a == Announced(addr, implied, port)
<1>1. addr.host \in granted
  <2>1. PICK t \in ToSet(tokens) : t.addr = addr
    BY DEF StorePeer, Accepted, HasToken
  <2> QED
    BY <2>1 DEF TInv, QueueSound
<1>2. a.host = addr.host
  BY DEF Announced, SockAddrs
<1>3. Refresh(h, a) \/ Push(h, a)
  BY DEF StorePeer
<1>4. /\ granted' = granted
      /\ \A p \in peers : p.addr.host \in granted
      /\ peers \subseteq StoredPeers
  BY DEF StorePeer, TInv, TypeOK, PeersGranted
<1> HIDE DEF a
<1>5. CASE Refresh(h, a)
  <2> SUFFICES ASSUME NEW p \in peers'
               PROVE  p.addr.host \in granted
    BY <1>4 DEF PeersGranted
  <2>1. PICK q \in peers : p = q \/ p = [q EXCEPT !.time = clock]
    BY <1>5 DEF Refresh
  <2>2. p.addr = q.addr
    BY <1>4, <2>1 DEF StoredPeers
  <2> QED
    BY <1>4, <2>2
<1>6. CASE Push(h, a)
  BY <1>1, <1>2, <1>4, <1>6 DEF Push, PeersGranted
<1> QED
  BY <1>3, <1>5, <1>6

LEMMA GrantedStep == TInv /\ [Next]_vars => Granted'
<1> SUFFICES ASSUME TInv, [Next]_vars
             PROVE  Granted'
  OBVIOUS
<1> USE DEF TInv, Granted
<1>0. ASSUME UNCHANGED <<tokens, peers, granted>>
      PROVE  QueueSound(tokens') /\ PeersGranted(peers')
  BY <1>0 DEF QueueSound, PeersGranted
<1>1. CASE BeginQuery \/ OtherQuery \/ Tick \/ UNCHANGED vars
  BY <1>1 DEF BeginQuery, OtherQuery, EndQuery, Tick, vars, store, dumping,
              QueueSound, PeersGranted
<1>2. ASSUME NEW id \in NodeIds, NEW addr \in SockAddrs, NEW token \in Tokens,
             GenToken(id, addr, token)
      PROVE  Granted'
  <2> DEFINE t == NewToken(id, addr, token)
  <2>1. t.addr.host \in granted'
    BY <1>2 DEF NewToken, GenToken
  <2>2. granted \subseteq granted'
    BY <1>2 DEF GenToken
  <2>3. /\ tokens' \in Seq(StoredTokens) /\ Len(tokens') <= MaxTokens
        /\ ToSet(tokens') \subseteq ToSet(tokens) \cup {t}
    BY <1>2, TokenGiven
  <2> HIDE DEF t
  <2>4. QueueSound(tokens)'
    BY <2>1, <2>2, <2>3 DEF QueueSound
  <2>5. UNCHANGED <<peers, snapshot, disk>>
    BY <1>2 DEF GenToken, EndQuery, dumping
  <2> QED
    BY <2>2, <2>4, <2>5 DEF PeersGranted, QueueSound
<1>3. ASSUME NEW id \in NodeIds, NEW addr \in SockAddrs, NEW token \in Tokens,
             NEW h \in InfoHashes, NEW implied \in BOOLEAN, NEW port \in Ports,
             StorePeer(id, addr, token, h, implied, port)
      PROVE  Granted'
  <2>1. UNCHANGED <<tokens, granted, snapshot, disk>>
    BY <1>3 DEF StorePeer, EndQuery, dumping
  <2>2. PeersGranted(peers)'
    BY <1>3, <2>1, AnnouncedGranted DEF PeersGranted
  <2> QED
    BY <2>1, <2>2 DEF PeersGranted, QueueSound
<1>4. CASE GarbageCollect
  <2>1. UNCHANGED <<granted, snapshot, disk>> /\ tokens' = Unexpired(tokens)
    BY <1>4 DEF GarbageCollect, dumping
  <2>2. QueueSound(tokens')
    BY <2>1, UnexpiredTokens, PeerStoreAssumption DEF QueueSound
  <2>3. peers' \subseteq peers
    BY <1>4 DEF GarbageCollect, Fresh
  <2> QED
    BY <2>1, <2>2, <2>3 DEF PeersGranted, QueueSound
<1>5. CASE DumpStart
  BY <1>5 DEF DumpStart, store, QueueSound, PeersGranted
<1>6. ASSUME NEW h \in InfoHashes, DumpHash(h)
      PROVE  Granted'
  <2>1. /\ UNCHANGED <<tokens, peers, granted, disk>>
        /\ snapshot'.tokens = snapshot.tokens
        /\ snapshot'.peers \subseteq snapshot.peers \cup peers
    BY <1>6 DEF DumpHash, store, TypeOK, Snapshots, Of
  <2> QED
    BY <2>1 DEF PeersGranted, QueueSound
<1>7. CASE DumpRename
  BY <1>7 DEF DumpRename, store, QueueSound, PeersGranted
<1>8. QueueSound(<<>>) /\ PeersGranted({})
  BY PeerStoreAssumption DEF QueueSound, PeersGranted, ToSet
<1>9. CASE DumpFlush \/ DumpFails
  <2>1. /\ UNCHANGED <<tokens, peers, granted>>
        /\ snapshot' = Empty
        /\ disk' = disk \/ disk' = snapshot
    BY <1>9 DEF DumpFlush, DumpFails, store
  <2> QED
    BY <1>8, <2>1 DEF QueueSound, PeersGranted, Empty
<1>10. CASE Restart
  <2>1. /\ UNCHANGED <<disk, granted>> /\ snapshot' = Empty
        /\ \/ tokens' = <<>> /\ peers' = {}
           \/ disk # Broken /\ tokens' = disk.tokens /\ peers' = disk.peers
    BY <1>10 DEF Restart, Empty
  <2> QED
    BY <1>8, <2>1 DEF QueueSound, PeersGranted, Empty
<1> QED
  BY <1>1, <1>2, <1>3, <1>4, <1>5, <1>6, <1>7, <1>9, <1>10 DEF Next

\* Collections come in time, and what one of them leaves, or comes later, has
\* not expired long when the next one comes.
LEMMA ScheduledStep == TInv /\ [Next]_vars => Scheduled'
<1> SUFFICES ASSUME TInv, [Next]_vars
             PROVE  Scheduled'
  OBVIOUS
<1>0. /\ clock \in Nat /\ next_gc \in Nat
      /\ {TokenTTL, PeerTTL, GcEvery} \subseteq Nat \ {0}
      /\ \A t \in ToSet(tokens) : t.time \in Nat
      /\ \A p \in peers : p \in StoredPeers /\ p.time \in Nat
      /\ Scheduled
  BY Times DEF TInv, TypeOK
<1>1. CASE UNCHANGED <<tokens, peers, clock, next_gc, booting>>
  BY <1>0, <1>1 DEF Scheduled
<1>2. BeginQuery \/ OtherQuery \/ DumpStart \/ DumpRename \/ DumpFlush
        \/ DumpFails \/ UNCHANGED vars
        => UNCHANGED <<tokens, peers, clock, next_gc, booting>>
  BY DEF BeginQuery, OtherQuery, EndQuery, DumpStart, DumpRename, DumpFlush,
         DumpFails, vars, store, gc
<1>3. ASSUME NEW h \in InfoHashes, DumpHash(h)
      PROVE  UNCHANGED <<tokens, peers, clock, next_gc, booting>>
  BY <1>3 DEF DumpHash, store, gc
<1>4. ASSUME NEW id \in NodeIds, NEW addr \in SockAddrs, NEW token \in Tokens,
             GenToken(id, addr, token)
      PROVE  Scheduled'
  <2> DEFINE t == NewToken(id, addr, token)
  <2>1. t.time = clock
    BY DEF NewToken
  <2>2. ToSet(tokens') \subseteq ToSet(tokens) \cup {t}
    BY <1>4, TokenGiven DEF TInv
  <2>3. UNCHANGED <<peers, clock, next_gc, booting>>
    BY <1>4 DEF GenToken, EndQuery, gc
  <2> HIDE DEF t
  <2> QED
    BY <1>0, <2>1, <2>2, <2>3 DEF Scheduled
<1>5. ASSUME NEW id \in NodeIds, NEW addr \in SockAddrs, NEW token \in Tokens,
             NEW h \in InfoHashes, NEW implied \in BOOLEAN, NEW port \in Ports,
             StorePeer(id, addr, token, h, implied, port)
      PROVE  Scheduled'
  <2>1. UNCHANGED <<tokens, clock, next_gc, booting>>
    BY <1>5 DEF StorePeer, EndQuery, gc
  <2>2. \A p \in peers' : p \in peers \/ p.time = clock
    BY <1>0, <1>5 DEF StorePeer, Refresh, Push, StoredPeers
  <2> QED
    BY <1>0, <2>1, <2>2 DEF Scheduled
<1>6. CASE GarbageCollect
  <2>1. /\ clock = next_gc /\ next_gc' = clock + GcEvery /\ clock' = clock
        /\ tokens' = Unexpired(tokens)
        /\ peers' \subseteq Fresh(peers)
    BY <1>6 DEF GarbageCollect
  <2>2. /\ ToSet(Unexpired(tokens)) \subseteq ToSet(tokens)
        /\ \A t \in ToSet(Unexpired(tokens)) : t.time > clock - TokenTTL
    BY UnexpiredTokens DEF TInv, TypeOK
  <2>3. \A p \in peers' : p \in peers /\ p.time > clock - PeerTTL
    BY <2>1 DEF Fresh
  <2>4. /\ \A t \in ToSet(tokens') : next_gc' < t.time + TokenTTL + GcEvery
        /\ \A p \in peers' : next_gc' < p.time + PeerTTL + GcEvery
    BY <1>0, <2>1, <2>2, <2>3
  <2> QED
    BY <1>0, <2>1, <2>4 DEF Scheduled
<1>7. CASE Restart
  BY <1>0, <1>7 DEF Restart, Scheduled
<1>8. CASE Tick
  BY <1>0, <1>8 DEF Tick, Scheduled, store, gc
<1> QED
  BY <1>1, <1>2, <1>3, <1>4, <1>5, <1>6, <1>7, <1>8 DEF Next

LEMMA TokenInvariance == Spec => []TInv
<1>1. IInv' /\ TInv /\ [Next]_vars => TInv'
  BY TypeTStep, GrantedStep, ScheduledStep DEF TInv, Granted
<1> QED
  BY <1>1, InitTInv, Invariance, PTL DEF Spec

\* Every variable keeps its type; the queue of tokens keeps its limit, and
\* so do the queues in a dump and on disk.
THEOREM TypeCorrect == Spec => []TypeOK
<1>1. TInv => TypeOK
  BY DEF TInv
<1> QED
  BY <1>1, TokenInvariance, PTL

\* A peer is only listed, and only comes back from disk, at a host that was
\* sent a token.
THEOREM ListedHadTokens == Spec => []HostsHadTokens
<1>1. TInv => HostsHadTokens
  BY DEF TInv, PeersGranted, HostsHadTokens
<1> QED
  BY <1>1, TokenInvariance, PTL

\* Once a collection has run, tokens and peers outlive their time to live by
\* less than one interval, whatever the file was the process started from.
THEOREM NothingGoesStale == Spec => []StaleIsGone
<1>1. TInv => StaleIsGone
  <2> SUFFICES ASSUME TInv, ~booting
               PROVE  /\ \A t \in ToSet(tokens) :
                           clock - t.time < TokenTTL + GcEvery
                      /\ \A p \in peers : clock - p.time < PeerTTL + GcEvery
    BY DEF StaleIsGone
  <2>1. /\ \A t \in ToSet(tokens) : t.time \in Nat
        /\ \A p \in peers : p.time \in Nat
        /\ clock \in Nat /\ next_gc \in Nat
        /\ {TokenTTL, PeerTTL, GcEvery} \subseteq Nat
    BY Times DEF TInv
  <2> QED
    BY <2>1 DEF TInv, Scheduled
<1> QED
  BY <1>1, TokenInvariance, PTL
=============================================================================
