--------------------------- MODULE RequestsProofs ---------------------------
(***************************************************************************)
(* Proofs about Requests, for any number of calls, announcements,          *)
(* addresses and transaction ids.                                          *)
(***************************************************************************)
EXTENDS Requests, TLAPS

USE DEF numbering

-----------------------------------------------------------------------------
(***************************************************************************)
(* The parts of the inductive invariant.                                   *)
(***************************************************************************)

\* A call that has not put its entry in the table has nothing to show.
Untouched ==
    \A c \in Calls : pc[c] \in {"new", "created"} =>
        oneshot[c] = "open" /\ origin[c] = Nobody /\ result[c] = "none"

\* An entry sits under its caller's key, its caller has neither returned nor
\* been resolved.
EntriesOwned ==
    \A k \in Keys : inflight[k] # Nobody =>
        /\ key[inflight[k]] = k
        /\ pc[inflight[k]] \in {"registered", "waiting", "removing",
                                "cancelled"}
        /\ oneshot[inflight[k]] \in {"open", "closed"}

\* Only requests that were created are queued or sent.
QueuedWereCreated ==
    /\ \A i \in 1 .. Len(outbox) : pc[outbox[i]] # "new"
    /\ \A s \in asked : pc[s] # "new"

\* In its present round the counter is ahead of every transaction id given
\* out, and no id is given out twice in a round.
TidsDistinct ==
    /\ \A s \in Own : pc[s] # "new" =>
         /\ round[s] <= rounds
         /\ round[s] = rounds => key[s][1] < next_tid
    /\ \A s, t \in Own :
         /\ pc[s] # "new" /\ pc[t] # "new"
         /\ round[s] = round[t] /\ key[s][1] = key[t][1]
         => s = t

\* OnlyTwinsInterfere with what leads to it.
TwinInv ==
    \A c \in Calls :
        /\ origin[c] \notin {Nobody, c} => IsTwin(origin[c], c)
        /\ oneshot[c] = "dropped" => Twin(c) \/ pc[c] = "done"
        /\ result[c] = "dead" /\ alive => Twin(c)

IInv ==
    /\ TypeOK
    /\ Untouched
    /\ EntriesOwned
    /\ NoLostWakeup
    /\ QueuedWereCreated
    /\ TidsDistinct
    /\ TwinInv

-----------------------------------------------------------------------------
\* Every step keeps the types.
LEMMA TypeStep == TypeOK /\ [Next]_vars => TypeOK'
<1> SUFFICES ASSUME TypeOK, [Next]_vars
             PROVE  TypeOK'
  OBVIOUS
<1> USE RequestsAssumption DEF TypeOK, Senders, Own, Keys, Tids
<1>1. ASSUME NEW s \in Senders, NEW addr \in Addrs, CreateRequest(s, addr)
      PROVE  TypeOK'
  BY <1>1 DEF CreateRequest
<1>2. ASSUME NEW c \in Calls, Register(c)
      PROVE  TypeOK'
  BY <1>2 DEF Register, SenderDropped, Resolved
<1>3. ASSUME NEW c \in Calls, Enqueue(c)
      PROVE  TypeOK'
  BY <1>3 DEF Enqueue
<1>4. ASSUME NEW c \in Calls, EnqueueFails(c)
      PROVE  TypeOK'
  BY <1>4 DEF EnqueueFails
<1>5. ASSUME NEW c \in Calls, Returns(c)
      PROVE  TypeOK'
  BY <1>5 DEF Returns
<1>6. ASSUME NEW c \in Calls, FindsDropped(c)
      PROVE  TypeOK'
  BY <1>6 DEF FindsDropped
<1>7. ASSUME NEW c \in Calls, TimesOut(c)
      PROVE  TypeOK'
  BY <1>7 DEF TimesOut
<1>8. ASSUME NEW c \in Calls, Remove(c)
      PROVE  TypeOK'
  BY <1>8 DEF Remove, SenderDropped, Resolved
<1>9. ASSUME NEW c \in Calls, Cancel(c)
      PROVE  TypeOK'
  BY <1>9 DEF Cancel
<1>10. ASSUME NEW s \in Announces, Announce(s)
       PROVE  TypeOK'
  BY <1>10 DEF Announce
<1>11. CASE SendOk
  BY <1>11 DEF SendOk
<1>12. CASE SendFails
  <2> DEFINE s == Head(outbox)
  <2>1. s \in Senders /\ key[s] \in Keys /\ outbox' \in Seq(Senders)
    BY <1>12 DEF SendFails
  <2>2. CASE inflight[key[s]] = Nobody
    BY <1>12, <2>1, <2>2 DEF SendFails
  <2>3. CASE inflight[key[s]] # Nobody
    <3>1. ResolveEntry(key[s], "failed", s)
      BY <1>12, <2>3 DEF SendFails
    <3>2. /\ inflight' \in [Keys -> Calls \cup {Nobody}]
          /\ oneshot' \in [Calls -> {"open", "answered", "failed", "dropped",
                                    "closed"}]
          /\ origin' \in [Calls -> Senders \cup {Nobody}]
      BY <2>1, <2>3, <3>1 DEF ResolveEntry, Resolved
    <3> QED
      BY <1>12, <2>1, <3>2 DEF SendFails
  <2> QED
    BY <2>2, <2>3
<1>13. ASSUME NEW s \in Senders, Deliver(s)
       PROVE  TypeOK'
  BY <1>13 DEF Deliver, ResolveEntry, Resolved
<1>14. CASE WorkerStops
  <2>1. outbox' \in Seq(Senders)
    BY <1>14 DEF WorkerStops
  <2> QED
    BY <1>14, <2>1 DEF WorkerStops
<1>15. CASE UNCHANGED vars
  BY <1>15 DEF vars
<1> QED
  BY <1>1, <1>2, <1>3, <1>4, <1>5, <1>6, <1>7, <1>8, <1>9, <1>10, <1>11,
     <1>12, <1>13, <1>14, <1>15 DEF Next, Step


-----------------------------------------------------------------------------
\* Dropping the sender at k changes the channel of the call waiting there,
\* if that is still open, and no other.
LEMMA SenderDroppedChannels ==
    ASSUME TypeOK, NEW k \in Keys, NEW d \in Calls
    PROVE  SenderDropped(k)[d] = IF d = inflight[k] /\ oneshot[d] = "open"
                                 THEN "dropped" ELSE oneshot[d]
BY RequestsAssumption DEF SenderDropped, Resolved, TypeOK, Senders, Own

\* What resolving the entry at s's key does, channel by channel.
Resolution(s, how) ==
    /\ key[s] \in Keys
    /\ inflight[key[s]] \in Calls
    /\ inflight' = [inflight EXCEPT ![key[s]] = Nobody]
    /\ \A d \in Calls :
         /\ oneshot'[d] = IF d = inflight[key[s]] /\ oneshot[d] = "open"
                          THEN how ELSE oneshot[d]
         /\ origin'[d] = IF d = inflight[key[s]] /\ oneshot[d] = "open"
                         THEN s ELSE origin[d]
    /\ UNCHANGED <<pc, key, result, alive>>

\* ResolveEntry takes one entry out and sends at most its caller something.
LEMMA ResolveEntryResolves ==
    ASSUME TypeOK, NEW s \in Senders, NEW how \in {"answered", "failed"},
           inflight[key[s]] # Nobody, ResolveEntry(key[s], how, s),
           UNCHANGED <<pc, key, result, alive>>
    PROVE  Resolution(s, how)
<1> DEFINE c == inflight[key[s]]
<1>1. key[s] \in Keys /\ c \in Calls
  BY DEF TypeOK
<1>2. CASE oneshot[c] = "open"
  BY <1>1, <1>2 DEF TypeOK, ResolveEntry, Resolved, Resolution, Senders, Own
<1>3. CASE oneshot[c] # "open"
  BY <1>1, <1>3 DEF TypeOK, ResolveEntry, Resolved, Resolution, Senders, Own
<1> QED
  BY <1>2, <1>3

\* A message that arrives for an entry resolves it.
LEMMA DeliverResolves ==
    ASSUME TypeOK, NEW s \in Senders, Deliver(s)
    PROVE  Resolution(s, "answered")
BY ResolveEntryResolves DEF Deliver

\* A failed send leaves the table alone, or resolves the entry of whoever
\* waits at the message's key.
LEMMA SendFailsResolves ==
    ASSUME TypeOK, SendFails
    PROVE  /\ Head(outbox) \in Senders
           /\ \/ UNCHANGED <<inflight, oneshot, origin, pc, key, result, alive>>
              \/ Resolution(Head(outbox), "failed")
<1>1. Head(outbox) \in Senders
  BY DEF SendFails, TypeOK
<1>2. UNCHANGED <<pc, key, result, alive>>
  BY DEF SendFails
<1>3. CASE inflight[key[Head(outbox)]] = Nobody
  BY <1>1, <1>2, <1>3 DEF SendFails
<1>4. CASE inflight[key[Head(outbox)]] # Nobody
  <2>1. ResolveEntry(key[Head(outbox)], "failed", Head(outbox))
    BY <1>4 DEF SendFails
  <2> QED
    BY <1>1, <1>2, <1>4, <2>1, ResolveEntryResolves
<1> QED
  BY <1>3, <1>4

\* Nothing reaches a call before it has an entry.
LEMMA UntouchedStep ==
    TypeOK /\ Untouched /\ EntriesOwned /\ [Next]_vars => Untouched'
<1> SUFFICES ASSUME TypeOK, Untouched, EntriesOwned, [Next]_vars
             PROVE  Untouched'
  OBVIOUS
<1> USE RequestsAssumption DEF TypeOK, Senders, Own, Untouched, EntriesOwned
<1>1. ASSUME NEW s \in Senders, NEW addr \in Addrs, CreateRequest(s, addr)
      PROVE  Untouched'
  BY <1>1 DEF CreateRequest
<1>2. ASSUME NEW c \in Calls, Register(c)
      PROVE  Untouched'
  <2>1. key[c] \in Keys
    OBVIOUS
  <2>2. /\ oneshot' = SenderDropped(key[c]) /\ UNCHANGED <<origin, result>>
        /\ pc' = [pc EXCEPT ![c] = "registered"]
    BY <1>2 DEF Register
  <2>a. inflight[key[c]] # Nobody =>
          pc[inflight[key[c]]] \notin {"new", "created"}
    BY <2>1
  <2>b. \A d \in Calls : pc'[d] \in {"new", "created"} => pc[d] = pc'[d]
    BY <2>2
  <2>3. \A d \in Calls : pc'[d] \in {"new", "created"} =>
          pc[d] \in {"new", "created"} /\ d # inflight[key[c]]
    BY <2>a, <2>b
  <2>4. \A d \in Calls : d # inflight[key[c]] => oneshot'[d] = oneshot[d]
    BY <2>1, <2>2, SenderDroppedChannels
  <2> QED
    BY <2>2, <2>3, <2>4
<1>3. ASSUME NEW c \in Calls, Enqueue(c)
      PROVE  Untouched'
  BY <1>3 DEF Enqueue
<1>4. ASSUME NEW c \in Calls, EnqueueFails(c)
      PROVE  Untouched'
  BY <1>4 DEF EnqueueFails
<1>5. ASSUME NEW c \in Calls, Returns(c)
      PROVE  Untouched'
  BY <1>5 DEF Returns
<1>6. ASSUME NEW c \in Calls, FindsDropped(c)
      PROVE  Untouched'
  BY <1>6 DEF FindsDropped
<1>7. ASSUME NEW c \in Calls, TimesOut(c)
      PROVE  Untouched'
  BY <1>7 DEF TimesOut
<1>8. ASSUME NEW c \in Calls, Remove(c)
      PROVE  Untouched'
  <2> DEFINE d == inflight[key[c]]
  <2>1. d # Nobody => pc[d] \notin {"new", "created"}
    OBVIOUS
  <2>2. \A e \in Calls : e # d => oneshot'[e] = oneshot[e]
    BY <1>8, SenderDroppedChannels DEF Remove
  <2>3. /\ UNCHANGED <<origin, result>>
        /\ \A e \in Calls : pc'[e] \in {"new", "created"} => pc[e] = pc'[e]
    BY <1>8 DEF Remove
  <2> QED
    BY <2>1, <2>2, <2>3
<1>9. ASSUME NEW c \in Calls, Cancel(c)
      PROVE  Untouched'
  BY <1>9 DEF Cancel
<1>10. ASSUME NEW s \in Announces, Announce(s)
       PROVE  Untouched'
  BY <1>10 DEF Announce
<1>11. CASE SendOk
  BY <1>11 DEF SendOk
<1>12. CASE SendFails
  <2>1. CASE UNCHANGED <<inflight, oneshot, origin, pc, key, result, alive>>
    BY <2>1
  <2>2. CASE Resolution(Head(outbox), "failed")
    <3> DEFINE d == inflight[key[Head(outbox)]]
    <3>0. key[Head(outbox)] \in Keys /\ d \in Calls /\ d # Nobody
      BY <2>2 DEF Resolution
    <3>1. d \in Calls /\ pc[d] \notin {"new", "created"}
      BY <3>0
    <3>2. \A e \in Calls \ {d} : UNCHANGED <<oneshot[e], origin[e]>>
      BY <2>2 DEF Resolution
    <3>3. UNCHANGED <<pc, result>>
      BY <2>2 DEF Resolution
    <3> HIDE DEF d
    <3>4. \A e \in Calls : pc[e] \in {"new", "created"} =>
            UNCHANGED <<oneshot[e], origin[e]>>
      BY <3>1, <3>2
    <3> QED
      BY <3>3, <3>4
  <2> QED
    BY <1>12, <2>1, <2>2, SendFailsResolves
<1>13. ASSUME NEW s \in Senders, Deliver(s)
       PROVE  Untouched'
  <2>1. Resolution(s, "answered")
    BY <1>13, DeliverResolves
  <2> DEFINE d == inflight[key[s]]
  <2>0. key[s] \in Keys /\ d \in Calls /\ d # Nobody
    BY <2>1 DEF Resolution
  <2>2. d \in Calls /\ pc[d] \notin {"new", "created"}
    BY <2>0
  <2>3. \A e \in Calls \ {d} : UNCHANGED <<oneshot[e], origin[e]>>
    BY <2>1 DEF Resolution
  <2>4. UNCHANGED <<pc, result>>
    BY <2>1 DEF Resolution
  <2> HIDE DEF d
  <2>5. \A e \in Calls : pc[e] \in {"new", "created"} =>
          UNCHANGED <<oneshot[e], origin[e]>>
    BY <2>2, <2>3
  <2> QED
    BY <2>4, <2>5
<1>14. CASE WorkerStops
  BY <1>14 DEF WorkerStops
<1>15. CASE UNCHANGED vars
  BY <1>15 DEF vars
<1> QED
  BY <1>1, <1>2, <1>3, <1>4, <1>5, <1>6, <1>7, <1>8, <1>9, <1>10, <1>11,
     <1>12, <1>13, <1>14, <1>15 DEF Next, Step

\* Taking one entry out leaves the others as they were.
LEMMA ResolutionKeepsEntries ==
    ASSUME TypeOK, EntriesOwned, NEW s, NEW how, Resolution(s, how)
    PROVE  EntriesOwned'
<1> SUFFICES ASSUME NEW k \in Keys, inflight'[k] # Nobody
             PROVE  /\ key'[inflight'[k]] = k
                    /\ pc'[inflight'[k]] \in {"registered", "waiting",
                                             "removing", "cancelled"}
                    /\ oneshot'[inflight'[k]] \in {"open", "closed"}
  BY DEF EntriesOwned
<1>1. inflight'[k] = inflight[k] /\ k # key[s] /\ inflight[k] \in Calls
  BY DEF TypeOK, Resolution
<1>2. key[inflight[k]] = k /\ key[inflight[key[s]]] = key[s]
  BY <1>1, RequestsAssumption DEF TypeOK, EntriesOwned, Resolution, Senders, Own
<1>3. oneshot'[inflight[k]] = oneshot[inflight[k]] /\ UNCHANGED <<key, pc>>
  BY <1>1, <1>2 DEF Resolution
<1> QED
  BY <1>1, <1>2, <1>3 DEF EntriesOwned

\* Entries stay with their callers.
LEMMA EntriesStep ==
    TypeOK /\ Untouched /\ EntriesOwned /\ [Next]_vars => EntriesOwned'
<1> SUFFICES ASSUME TypeOK, Untouched, EntriesOwned, [Next]_vars
             PROVE  EntriesOwned'
  OBVIOUS
<1> USE RequestsAssumption
       DEF TypeOK, Senders, Own, Keys, Tids, Untouched, EntriesOwned
<1>1. ASSUME NEW s \in Senders, NEW addr \in Addrs, CreateRequest(s, addr)
      PROVE  EntriesOwned'
  BY <1>1 DEF CreateRequest
<1>2. ASSUME NEW c \in Calls, Register(c)
      PROVE  EntriesOwned'
  <2>1. key[c] \in Keys
    OBVIOUS
  <2> QED
    BY <1>2, <2>1, SenderDroppedChannels DEF Register
<1>3. ASSUME NEW c \in Calls, Enqueue(c)
      PROVE  EntriesOwned'
  BY <1>3 DEF Enqueue
<1>4. ASSUME NEW c \in Calls, EnqueueFails(c)
      PROVE  EntriesOwned'
  BY <1>4 DEF EnqueueFails
<1>5. ASSUME NEW c \in Calls, Returns(c)
      PROVE  EntriesOwned'
  BY <1>5 DEF Returns
<1>6. ASSUME NEW c \in Calls, FindsDropped(c)
      PROVE  EntriesOwned'
  BY <1>6 DEF FindsDropped
<1>7. ASSUME NEW c \in Calls, TimesOut(c)
      PROVE  EntriesOwned'
  BY <1>7 DEF TimesOut
<1>8. ASSUME NEW c \in Calls, Remove(c)
      PROVE  EntriesOwned'
  <2>1. key[c] \in Keys
    OBVIOUS
  <2> QED
    BY <1>8, <2>1, SenderDroppedChannels DEF Remove
<1>9. ASSUME NEW c \in Calls, Cancel(c)
      PROVE  EntriesOwned'
  BY <1>9 DEF Cancel
<1>10. ASSUME NEW s \in Announces, Announce(s)
       PROVE  EntriesOwned'
  BY <1>10 DEF Announce
<1>11. CASE SendOk
  BY <1>11 DEF SendOk
<1>12. CASE SendFails
  <2>1. CASE UNCHANGED <<inflight, oneshot, origin, pc, key, result, alive>>
    BY <2>1
  <2>2. CASE Resolution(Head(outbox), "failed")
    BY <2>2, ResolutionKeepsEntries
  <2> QED
    BY <1>12, <2>1, <2>2, SendFailsResolves
<1>13. ASSUME NEW s \in Senders, Deliver(s)
       PROVE  EntriesOwned'
  <2>1. Resolution(s, "answered")
    BY <1>13, DeliverResolves
  <2> QED
    BY <2>1, ResolutionKeepsEntries
<1>14. CASE WorkerStops
  BY <1>14 DEF WorkerStops
<1>15. CASE UNCHANGED vars
  BY <1>15 DEF vars
<1> QED
  BY <1>1, <1>2, <1>3, <1>4, <1>5, <1>6, <1>7, <1>8, <1>9, <1>10, <1>11,
     <1>12, <1>13, <1>14, <1>15 DEF Next, Step

\* Whoever loses an entry is told.
LEMMA WakeupStep ==
    TypeOK /\ Untouched /\ EntriesOwned /\ NoLostWakeup /\ [Next]_vars => NoLostWakeup'
<1> SUFFICES ASSUME TypeOK, Untouched, EntriesOwned, NoLostWakeup, [Next]_vars
             PROVE  NoLostWakeup'
  OBVIOUS
<1> USE RequestsAssumption
       DEF TypeOK, Senders, Own, Keys, Tids, Untouched, EntriesOwned, NoLostWakeup
<1>1. ASSUME NEW s \in Senders, NEW addr \in Addrs, CreateRequest(s, addr)
      PROVE  NoLostWakeup'
  BY <1>1 DEF CreateRequest
<1>2. ASSUME NEW c \in Calls, Register(c)
      PROVE  NoLostWakeup'
  <2>1. key[c] \in Keys
    OBVIOUS
  <2> QED
    BY <1>2, <2>1, SenderDroppedChannels DEF Register
<1>3. ASSUME NEW c \in Calls, Enqueue(c)
      PROVE  NoLostWakeup'
  BY <1>3 DEF Enqueue
<1>4. ASSUME NEW c \in Calls, EnqueueFails(c)
      PROVE  NoLostWakeup'
  BY <1>4 DEF EnqueueFails
<1>5. ASSUME NEW c \in Calls, Returns(c)
      PROVE  NoLostWakeup'
  BY <1>5 DEF Returns
<1>6. ASSUME NEW c \in Calls, FindsDropped(c)
      PROVE  NoLostWakeup'
  BY <1>6 DEF FindsDropped
<1>7. ASSUME NEW c \in Calls, TimesOut(c)
      PROVE  NoLostWakeup'
  BY <1>7 DEF TimesOut
<1>8. ASSUME NEW c \in Calls, Remove(c)
      PROVE  NoLostWakeup'
  <2>1. key[c] \in Keys
    OBVIOUS
  <2> QED
    BY <1>8, <2>1, SenderDroppedChannels DEF Remove
<1>9. ASSUME NEW c \in Calls, Cancel(c)
      PROVE  NoLostWakeup'
  BY <1>9 DEF Cancel
<1>10. ASSUME NEW s \in Announces, Announce(s)
       PROVE  NoLostWakeup'
  BY <1>10 DEF Announce
<1>11. CASE SendOk
  BY <1>11 DEF SendOk
<1>12. CASE SendFails
  <2>1. CASE UNCHANGED <<inflight, oneshot, origin, pc, key, result, alive>>
    BY <2>1
  <2>2. CASE Resolution(Head(outbox), "failed")
    BY <2>2 DEF Resolution
  <2> QED
    BY <1>12, <2>1, <2>2, SendFailsResolves
<1>13. ASSUME NEW s \in Senders, Deliver(s)
       PROVE  NoLostWakeup'
  <2>1. Resolution(s, "answered")
    BY <1>13, DeliverResolves
  <2> QED
    BY <2>1 DEF Resolution
<1>14. CASE WorkerStops
  BY <1>14 DEF WorkerStops
<1>15. CASE UNCHANGED vars
  BY <1>15 DEF vars
<1> QED
  BY <1>1, <1>2, <1>3, <1>4, <1>5, <1>6, <1>7, <1>8, <1>9, <1>10, <1>11,
     <1>12, <1>13, <1>14, <1>15 DEF Next, Step

\* Only created requests are queued.
LEMMA QueuedStep ==
    TypeOK /\ QueuedWereCreated /\ [Next]_vars => QueuedWereCreated'
<1> SUFFICES ASSUME TypeOK, QueuedWereCreated, [Next]_vars
             PROVE  QueuedWereCreated'
  OBVIOUS
<1> USE RequestsAssumption DEF TypeOK, Senders, Own, QueuedWereCreated
<1>1. ASSUME NEW s \in Senders, NEW addr \in Addrs, CreateRequest(s, addr)
      PROVE  QueuedWereCreated'
  BY <1>1 DEF CreateRequest
<1>2. ASSUME NEW c \in Calls, Register(c)
      PROVE  QueuedWereCreated'
  BY <1>2 DEF Register, SenderDropped, Resolved
<1>3. ASSUME NEW c \in Calls, Enqueue(c)
      PROVE  QueuedWereCreated'
  BY <1>3 DEF Enqueue
<1>4. ASSUME NEW c \in Calls, EnqueueFails(c)
      PROVE  QueuedWereCreated'
  BY <1>4 DEF EnqueueFails
<1>5. ASSUME NEW c \in Calls, Returns(c)
      PROVE  QueuedWereCreated'
  BY <1>5 DEF Returns
<1>6. ASSUME NEW c \in Calls, FindsDropped(c)
      PROVE  QueuedWereCreated'
  BY <1>6 DEF FindsDropped
<1>7. ASSUME NEW c \in Calls, TimesOut(c)
      PROVE  QueuedWereCreated'
  BY <1>7 DEF TimesOut
<1>8. ASSUME NEW c \in Calls, Remove(c)
      PROVE  QueuedWereCreated'
  BY <1>8 DEF Remove, SenderDropped, Resolved
<1>9. ASSUME NEW c \in Calls, Cancel(c)
      PROVE  QueuedWereCreated'
  BY <1>9 DEF Cancel
<1>10. ASSUME NEW s \in Announces, Announce(s)
       PROVE  QueuedWereCreated'
  BY <1>10 DEF Announce
<1>11. CASE SendOk
  BY <1>11 DEF SendOk
<1>12. CASE SendFails
  BY <1>12 DEF SendFails, ResolveEntry, Resolved
<1>13. ASSUME NEW s \in Senders, Deliver(s)
       PROVE  QueuedWereCreated'
  BY <1>13 DEF Deliver, ResolveEntry, Resolved
<1>14. CASE WorkerStops
  BY <1>14 DEF WorkerStops
<1>15. CASE UNCHANGED vars
  BY <1>15 DEF vars
<1> QED
  BY <1>1, <1>2, <1>3, <1>4, <1>5, <1>6, <1>7, <1>8, <1>9, <1>10, <1>11,
     <1>12, <1>13, <1>14, <1>15 DEF Next, Step

\* Transaction ids are distinct until the counter wraps.
LEMMA TidsStep ==
    TypeOK /\ TidsDistinct /\ [Next]_vars => TidsDistinct'
<1> SUFFICES ASSUME TypeOK, TidsDistinct, [Next]_vars
             PROVE  TidsDistinct'
  OBVIOUS
<1> USE RequestsAssumption DEF TypeOK, Senders, Own, Keys, Tids, TidsDistinct
<1>1. ASSUME NEW s \in Senders, NEW addr \in Addrs, CreateRequest(s, addr)
      PROVE  TidsDistinct'
  <2>1. /\ key' = [key EXCEPT ![s] = <<next_tid, addr>>]
        /\ pc' = [pc EXCEPT ![s] = "created"]
        /\ round' = [round EXCEPT ![s] = rounds]
        /\ rounds \in Nat /\ next_tid \in Nat
        /\ \/ rounds' = rounds + 1
           \/ rounds' = rounds /\ next_tid' = next_tid + 1
    BY <1>1 DEF CreateRequest
  <2>2. key'[s][1] = next_tid /\ round'[s] = rounds
    BY <2>1
  <2>3. \A t \in Own \ {s} :
          /\ UNCHANGED <<key[t], pc[t], round[t]>>
          /\ pc[t] # "new" => /\ round[t] <= rounds
                             /\ (round[t] = rounds => key[t][1] < next_tid)
          /\ round[t] \in Nat /\ key[t][1] \in Nat
    BY <2>1
  <2>4. ASSUME NEW t \in Own, pc'[t] # "new"
        PROVE  /\ round'[t] <= rounds'
               /\ round'[t] = rounds' => key'[t][1] < next_tid'
    <3>1. CASE t = s
      BY <2>1, <2>2, <3>1
    <3>2. CASE t # s
      BY <2>1, <2>3, <2>4, <3>2
    <3> QED
      BY <3>1, <3>2
  <2>5. \A t \in Own \ {s} : pc[t] # "new" =>
          ~(round'[t] = round'[s] /\ key'[t][1] = key'[s][1])
    BY <2>1, <2>2, <2>3
  <2>6. ASSUME NEW t \in Own, NEW u \in Own, pc'[t] # "new", pc'[u] # "new",
               round'[t] = round'[u], key'[t][1] = key'[u][1]
        PROVE  t = u
    <3>1. CASE t = s \/ u = s
      BY <2>3, <2>5, <2>6, <3>1
    <3>2. CASE t # s /\ u # s
      BY <2>3, <2>6, <3>2
    <3> QED
      BY <3>1, <3>2
  <2> QED
    BY <2>4, <2>6
<1>2. ASSUME NEW c \in Calls, Register(c)
      PROVE  TidsDistinct'
  BY <1>2 DEF Register, SenderDropped, Resolved
<1>3. ASSUME NEW c \in Calls, Enqueue(c)
      PROVE  TidsDistinct'
  BY <1>3 DEF Enqueue
<1>4. ASSUME NEW c \in Calls, EnqueueFails(c)
      PROVE  TidsDistinct'
  BY <1>4 DEF EnqueueFails
<1>5. ASSUME NEW c \in Calls, Returns(c)
      PROVE  TidsDistinct'
  BY <1>5 DEF Returns
<1>6. ASSUME NEW c \in Calls, FindsDropped(c)
      PROVE  TidsDistinct'
  BY <1>6 DEF FindsDropped
<1>7. ASSUME NEW c \in Calls, TimesOut(c)
      PROVE  TidsDistinct'
  BY <1>7 DEF TimesOut
<1>8. ASSUME NEW c \in Calls, Remove(c)
      PROVE  TidsDistinct'
  BY <1>8 DEF Remove, SenderDropped, Resolved
<1>9. ASSUME NEW c \in Calls, Cancel(c)
      PROVE  TidsDistinct'
  BY <1>9 DEF Cancel
<1>10. ASSUME NEW s \in Announces, Announce(s)
       PROVE  TidsDistinct'
  BY <1>10 DEF Announce
<1>11. CASE SendOk
  BY <1>11 DEF SendOk
<1>12. CASE SendFails
  BY <1>12 DEF SendFails, ResolveEntry, Resolved
<1>13. ASSUME NEW s \in Senders, Deliver(s)
       PROVE  TidsDistinct'
  BY <1>13 DEF Deliver, ResolveEntry, Resolved
<1>14. CASE WorkerStops
  BY <1>14 DEF WorkerStops
<1>15. CASE UNCHANGED vars
  BY <1>15 DEF vars
<1> QED
  BY <1>1, <1>2, <1>3, <1>4, <1>5, <1>6, <1>7, <1>8, <1>9, <1>10, <1>11,
     <1>12, <1>13, <1>14, <1>15 DEF Next, Step

\* A sender that was created keeps its key.
LEMMA CreatedStay ==
    TypeOK /\ [Next]_vars => \A t \in Senders :
               pc[t] # "new" => pc'[t] # "new" /\ key'[t] = key[t]
<1> SUFFICES ASSUME TypeOK, [Next]_vars
             PROVE  \A t \in Senders :
               pc[t] # "new" => pc'[t] # "new" /\ key'[t] = key[t]
  OBVIOUS
<1> USE RequestsAssumption DEF TypeOK, Senders, Own, Keys
<1>1. ASSUME NEW s \in Senders, NEW addr \in Addrs, CreateRequest(s, addr)
      PROVE  \A t \in Senders :
               pc[t] # "new" => pc'[t] # "new" /\ key'[t] = key[t]
  BY <1>1 DEF CreateRequest
<1>2. ASSUME NEW c \in Calls, Register(c)
      PROVE  \A t \in Senders :
               pc[t] # "new" => pc'[t] # "new" /\ key'[t] = key[t]
  BY <1>2 DEF Register
<1>3. ASSUME NEW c \in Calls, Enqueue(c)
      PROVE  \A t \in Senders :
               pc[t] # "new" => pc'[t] # "new" /\ key'[t] = key[t]
  BY <1>3 DEF Enqueue
<1>4. ASSUME NEW c \in Calls, EnqueueFails(c)
      PROVE  \A t \in Senders :
               pc[t] # "new" => pc'[t] # "new" /\ key'[t] = key[t]
  BY <1>4 DEF EnqueueFails
<1>5. ASSUME NEW c \in Calls, Returns(c)
      PROVE  \A t \in Senders :
               pc[t] # "new" => pc'[t] # "new" /\ key'[t] = key[t]
  BY <1>5 DEF Returns
<1>6. ASSUME NEW c \in Calls, FindsDropped(c)
      PROVE  \A t \in Senders :
               pc[t] # "new" => pc'[t] # "new" /\ key'[t] = key[t]
  BY <1>6 DEF FindsDropped
<1>7. ASSUME NEW c \in Calls, TimesOut(c)
      PROVE  \A t \in Senders :
               pc[t] # "new" => pc'[t] # "new" /\ key'[t] = key[t]
  BY <1>7 DEF TimesOut
<1>8. ASSUME NEW c \in Calls, Remove(c)
      PROVE  \A t \in Senders :
               pc[t] # "new" => pc'[t] # "new" /\ key'[t] = key[t]
  BY <1>8 DEF Remove
<1>9. ASSUME NEW c \in Calls, Cancel(c)
      PROVE  \A t \in Senders :
               pc[t] # "new" => pc'[t] # "new" /\ key'[t] = key[t]
  BY <1>9 DEF Cancel
<1>10. ASSUME NEW s \in Announces, Announce(s)
       PROVE  \A t \in Senders :
               pc[t] # "new" => pc'[t] # "new" /\ key'[t] = key[t]
  BY <1>10 DEF Announce
<1>11. CASE SendOk
  BY <1>11 DEF SendOk
<1>12. CASE SendFails
  BY <1>12 DEF SendFails
<1>13. ASSUME NEW s \in Senders, Deliver(s)
       PROVE  \A t \in Senders :
               pc[t] # "new" => pc'[t] # "new" /\ key'[t] = key[t]
  BY <1>13 DEF Deliver
<1>14. CASE WorkerStops
  BY <1>14 DEF WorkerStops
<1>15. CASE UNCHANGED vars
  BY <1>15 DEF vars
<1> QED
  BY <1>1, <1>2, <1>3, <1>4, <1>5, <1>6, <1>7, <1>8, <1>9, <1>10, <1>11,
     <1>12, <1>13, <1>14, <1>15 DEF Next, Step

\* A twin stays a twin.
LEMMA TwinStable ==
    ASSUME TypeOK, [Next]_vars, NEW d \in Calls, Twin(d), pc[d] # "new"
    PROVE  Twin(d)'
BY CreatedStay DEF Twin, IsTwin, Senders, Own

\* Whoever waits at the key of a sender that was created, and is not that
\* sender, has a twin.
LEMMA OwnerHasTwin ==
    ASSUME TypeOK, EntriesOwned, NEW s \in Senders, pc[s] # "new",
           inflight[key[s]] \notin {Nobody, s}
    PROVE  IsTwin(s, inflight[key[s]])
BY DEF TypeOK, EntriesOwned, IsTwin

OriginIsTwin(d) == origin[d] \notin {Nobody, d} => IsTwin(origin[d], d)

\* Interference with a call needs a twin.
LEMMA TwinStep ==
    /\ TypeOK /\ Untouched /\ EntriesOwned /\ QueuedWereCreated /\ TwinInv
    /\ [Next]_vars
    => TwinInv'
<1> SUFFICES ASSUME TypeOK, Untouched, EntriesOwned, QueuedWereCreated,
                    TwinInv, [Next]_vars, NEW d \in Calls
             PROVE  /\ OriginIsTwin(d)'
                    /\ oneshot'[d] = "dropped" => Twin(d)' \/ pc'[d] = "done"
                    /\ result'[d] = "dead" /\ alive' => Twin(d)'
  BY DEF TwinInv, OriginIsTwin
<1> DEFINE Hit == \/ origin[d] \notin {Nobody, d}
                  \/ oneshot[d] = "dropped"
                  \/ result[d] = "dead"
           Old == UNCHANGED <<origin, oneshot, result>>
<1>a. d \in Senders /\ Nobody \notin Senders
  BY RequestsAssumption DEF Senders, Own
<1>b. Hit => pc[d] # "new"
  BY DEF Untouched
<1>c. /\ origin'[d] = origin[d] => OriginIsTwin(d)'
      /\ oneshot[d] = "dropped" => Twin(d)' \/ pc[d] = "done"
      /\ result[d] = "dead" /\ alive => Twin(d)'
  <2>1. origin'[d] = origin[d] => OriginIsTwin(d)'
    <3> SUFFICES ASSUME origin'[d] = origin[d], origin[d] \notin {Nobody, d}
                 PROVE  pc'[origin[d]] # "new" /\ key'[origin[d]] = key'[d]
      BY DEF OriginIsTwin, IsTwin
    <3>1. origin[d] \in Senders /\ IsTwin(origin[d], d) /\ pc[d] # "new"
      BY <1>b DEF TwinInv, TypeOK
    <3> QED
      BY <1>a, <3>1, CreatedStay DEF IsTwin
  <2> QED
    BY <1>b, <2>1, TwinStable DEF TwinInv
<1>d. pc[d] = "done" => pc'[d] = "done"
  BY <1>a DEF Next, Step, vars, CreateRequest, Register, Enqueue, EnqueueFails,
     Announce, Returns, FindsDropped, TimesOut, Remove, Cancel, SendOk,
     SendFails, Deliver, WorkerStops, TypeOK, Senders
<1>e. ASSUME NEW s \in Senders, pc[s] # "new", d = inflight[key[s]], d # s
      PROVE  pc'[s] # "new" /\ key'[s] = key'[d] /\ Twin(d)'
  <2>1. IsTwin(s, d)
    BY <1>a, <1>e, OwnerHasTwin
  <2>2. pc[d] # "new"
    BY <1>a, <1>e DEF EntriesOwned, TypeOK
  <2>3. pc'[s] # "new" /\ key'[s] = key'[d]
    BY <1>a, <2>1, <2>2, CreatedStay DEF IsTwin
  <2> QED
    BY <1>e, <2>3 DEF Twin, IsTwin
<1>1. ASSUME NEW s \in Senders, NEW addr \in Addrs, CreateRequest(s, addr)
      PROVE  Old /\ alive' = alive
  BY <1>1 DEF CreateRequest
<1>2. ASSUME NEW c \in Calls, Register(c)
      PROVE  /\ OriginIsTwin(d)'
             /\ oneshot'[d] = "dropped" => Twin(d)' \/ pc'[d] = "done"
             /\ result'[d] = "dead" /\ alive' => Twin(d)'
  <2>1. c \in Senders /\ pc[c] = "created" /\ key[c] \in Keys
    BY <1>2 DEF Register, Senders, Own, TypeOK
  <2>2. UNCHANGED <<origin, result, alive>>
    BY <1>2 DEF Register
  <2>3. oneshot'[d] = oneshot[d] \/ d = inflight[key[c]]
    BY <1>2, <2>1, SenderDroppedChannels DEF Register
  <2>4. d = inflight[key[c]] => d # c
    BY <1>a, <2>1 DEF EntriesOwned
  <2> QED
    BY <1>c, <1>d, <1>e, <2>1, <2>2, <2>3, <2>4
<1>3. ASSUME NEW c \in Calls, Enqueue(c)
      PROVE  Old /\ alive' = alive
  BY <1>3 DEF Enqueue
<1>4. ASSUME NEW c \in Calls, EnqueueFails(c)
      PROVE  UNCHANGED <<origin, oneshot>> /\ ~alive'
  BY <1>4 DEF EnqueueFails
<1>5. ASSUME NEW c \in Calls, Returns(c)
      PROVE  /\ UNCHANGED <<origin, oneshot, alive>>
             /\ result'[d] = "dead" => result[d] = "dead"
  BY <1>5 DEF Returns, TypeOK
<1>6. ASSUME NEW c \in Calls, FindsDropped(c)
      PROVE  /\ UNCHANGED <<origin, oneshot, alive>>
             /\ result'[d] = "dead" => result[d] = "dead" \/ Twin(d)'
  <2>1. oneshot[c] = "dropped" /\ pc[c] = "waiting"
    BY <1>6 DEF FindsDropped
  <2>2. Twin(c)'
    BY <2>1, TwinStable DEF TwinInv
  <2>3. c # d => result'[d] = result[d]
    BY <1>6 DEF FindsDropped, TypeOK
  <2> QED
    BY <1>6, <2>2, <2>3 DEF FindsDropped
<1>7. ASSUME NEW c \in Calls, TimesOut(c)
      PROVE  /\ UNCHANGED <<origin, alive>>
             /\ oneshot'[d] = "dropped" => oneshot[d] = "dropped"
             /\ result'[d] = "dead" => result[d] = "dead"
  BY <1>7 DEF TimesOut, TypeOK
<1>8. ASSUME NEW c \in Calls, Remove(c)
      PROVE  /\ UNCHANGED <<origin, result, alive>>
             /\ \/ oneshot'[d] = oneshot[d]
                \/ d = c /\ pc'[d] = "done"
                \/ Twin(d)'
  <2>1. c \in Senders /\ pc[c] = "removing" /\ key[c] \in Keys
    BY <1>8 DEF Remove, Senders, Own, TypeOK
  <2>2. oneshot'[d] = oneshot[d] \/ d = inflight[key[c]]
    BY <1>8, <2>1, SenderDroppedChannels DEF Remove
  <2>3. pc'[c] = "done"
    BY <1>8, <2>1 DEF Remove, TypeOK
  <2>4. UNCHANGED <<origin, result, alive>>
    BY <1>8 DEF Remove
  <2> QED
    BY <1>e, <2>1, <2>2, <2>3, <2>4
<1>9. ASSUME NEW c \in Calls, Cancel(c)
      PROVE  /\ UNCHANGED <<origin, result, alive>>
             /\ oneshot'[d] = "dropped" => oneshot[d] = "dropped"
  BY <1>9 DEF Cancel, TypeOK
<1>10. ASSUME NEW s \in Announces, Announce(s)
       PROVE  Old /\ alive' = alive
  BY <1>10 DEF Announce
<1>11. CASE SendOk
  <2>1. Old /\ alive' = alive
    BY <1>11 DEF SendOk
  <2> QED
    BY <1>c, <1>d, <2>1
<1>f. ASSUME NEW s \in Senders, NEW how \in {"answered", "failed"},
             pc[s] # "new", Resolution(s, how)
      PROVE  /\ OriginIsTwin(d)'
             /\ oneshot'[d] = "dropped" => Twin(d)' \/ pc'[d] = "done"
             /\ result'[d] = "dead" /\ alive' => Twin(d)'
  <2>1. UNCHANGED <<pc, result, alive>>
    BY <1>f DEF Resolution
  <2>2. CASE d = inflight[key[s]] /\ oneshot[d] = "open"
    <3>1. oneshot'[d] = how /\ origin'[d] = s
      BY <1>f, <2>2 DEF Resolution
    <3>2. d # s => OriginIsTwin(d)'
      BY <1>e, <1>f, <2>2, <3>1 DEF OriginIsTwin, IsTwin
    <3>3. d = s => OriginIsTwin(d)'
      BY <3>1 DEF OriginIsTwin
    <3> QED
      BY <1>c, <1>f, <2>1, <2>2, <3>1, <3>2, <3>3
  <2>3. CASE ~(d = inflight[key[s]] /\ oneshot[d] = "open")
    <3>1. oneshot'[d] = oneshot[d] /\ origin'[d] = origin[d]
      BY <1>f, <2>3 DEF Resolution
    <3> QED
      BY <1>c, <2>1, <3>1
  <2> QED
    BY <2>2, <2>3
<1>12. CASE SendFails
  <2>1. Head(outbox) \in Senders /\ pc[Head(outbox)] # "new"
    BY <1>12 DEF SendFails, QueuedWereCreated, TypeOK
  <2>2. CASE UNCHANGED <<inflight, oneshot, origin, pc, key, result, alive>>
    BY <1>c, <2>2
  <2>3. CASE Resolution(Head(outbox), "failed")
    BY <1>f, <2>1, <2>3
  <2> QED
    BY <1>12, <2>2, <2>3, SendFailsResolves
<1>13. ASSUME NEW s \in Senders, Deliver(s)
       PROVE  Resolution(s, "answered") /\ pc[s] # "new"
  BY <1>13, DeliverResolves DEF Deliver, QueuedWereCreated
<1>14. CASE WorkerStops
  <2>1. Old /\ ~alive'
    BY <1>14 DEF WorkerStops
  <2> QED
    BY <1>c, <1>d, <2>1
<1>15. CASE UNCHANGED vars
  <2>1. Old /\ alive' = alive
    BY <1>15 DEF vars
  <2> QED
    BY <1>c, <1>d, <2>1
<1> QED
  BY <1>c, <1>d, <1>1, <1>2, <1>3, <1>4, <1>5, <1>6, <1>7, <1>8, <1>9, <1>10,
     <1>11, <1>f, <1>12, <1>13, <1>14, <1>15 DEF Next, Step

-----------------------------------------------------------------------------
\* The inductive invariant holds initially.
LEMMA InitIInv == Init => IInv
<1> SUFFICES ASSUME Init
             PROVE  IInv
  OBVIOUS
<1>1. (CHOOSE k \in Keys : TRUE) \in Keys
  <2>1. PICK addr \in Addrs : TRUE
    BY RequestsAssumption
  <2>2. <<0, addr>> \in Keys
    BY RequestsAssumption DEF Keys, Tids
  <2> QED
    BY <2>2
<1>2. TypeOK
  <2>1. next_tid \in Tids
    BY RequestsAssumption DEF Init, Tids
  <2>2. key \in [Senders -> Keys] /\ inflight \in [Keys -> Calls \cup {Nobody}]
    BY <1>1 DEF Init, Senders
  <2>3. outbox \in Seq(Senders)
    BY DEF Init
  <2> QED
    BY <2>1, <2>2, <2>3 DEF Init, TypeOK, Senders, Own
<1>3. \A s \in Senders : pc[s] = IF s \in Own THEN "new" ELSE "done"
  BY DEF Init
<1>4. Untouched /\ EntriesOwned /\ NoLostWakeup /\ TwinInv
  BY <1>3 DEF Init, Untouched, EntriesOwned, NoLostWakeup, TwinInv, Senders, Own
<1>5. QueuedWereCreated
  <2>1. \A s \in asked : s \in Senders \ Own
    BY RequestsAssumption DEF Init, Senders
  <2> QED
    BY <1>3, <2>1 DEF Init, QueuedWereCreated
<1>6. TidsDistinct
  BY <1>3 DEF TidsDistinct, Senders
<1> QED
  BY <1>2, <1>4, <1>5, <1>6 DEF IInv

\* Every step keeps the inductive invariant.
LEMMA NextIInv == IInv /\ [Next]_vars => IInv'
BY TypeStep, UntouchedStep, EntriesStep, WakeupStep, QueuedStep, TidsStep,
   TwinStep DEF IInv

\* The inductive invariant: who is untouched, who owns the entries, who is
\* queued, which ids are taken, holds in every state of inflight requests.
THEOREM Invariance == Spec => []IInv
<1> QED
  BY InitIInv, NextIInv, PTL DEF Spec

\* The type invariant, for any number of senders and transaction ids.
THEOREM TypeCorrect == Spec => []TypeOK
<1>1. IInv => TypeOK
  BY DEF IInv
<1> QED
  BY <1>1, Invariance, PTL

\* No caller of request is left waiting without an entry: registration,
\* answers, send errors, timeouts and removals in any order, with the counter
\* wrapping or not.
THEOREM NoCallerForgotten == Spec => []NoLostWakeup
<1>1. IInv => NoLostWakeup
  BY DEF IInv
<1> QED
  BY <1>1, Invariance, PTL

\* A call that returned leaves nothing in inflight_by_transaction_id.
THEOREM NoStrayEntries == Spec => []LeaksOnlyByCancel
<1>1. IInv => LeaksOnlyByCancel
  BY DEF IInv, EntriesOwned, LeaksOnlyByCancel
<1> QED
  BY <1>1, Invariance, PTL

\* Only a sender with the same transaction id for the same address can answer
\* for a call or end it with DhtDead.
THEOREM InterferenceNeedsTwin == Spec => []OnlyTwinsInterfere
<1>1. IInv => OnlyTwinsInterfere
  BY DEF IInv, TwinInv, OnlyTwinsInterfere
<1> QED
  BY <1>1, Invariance, PTL

\* Who is told of another one's message has the same id, and the counter came
\* round between the two, or the other belongs to the process before.
THEOREM AnswersAreOwn == Spec => []AnswersMatch
<1>1. IInv => AnswersMatch
  <2> SUFFICES ASSUME IInv, NEW c \in Calls, origin[c] \notin {Nobody, c}
               PROVE  /\ key[origin[c]] = key[c]
                      /\ origin[c] \in Own => round[origin[c]] # round[c]
    BY DEF AnswersMatch
  <2>1. pc[c] # "new"
    BY DEF IInv, Untouched
  <2>2. origin[c] \in Senders /\ IsTwin(origin[c], c)
    BY DEF IInv, TwinInv, TypeOK
  <2>3. origin[c] \in Own => round[origin[c]] # round[c]
    BY <2>1, <2>2 DEF IInv, TidsDistinct, IsTwin, Own
  <2> QED
    BY <2>2, <2>3 DEF IsTwin
<1> QED
  BY <1>1, Invariance, PTL

-----------------------------------------------------------------------------
(***************************************************************************)
(* Requests implements Rpc.                                                *)
(***************************************************************************)

HasBeenSent(c) == \E s \in asked : key[s] = key[c]

\* An answer presupposes that something left under the key of its call.
SentIfAnswered ==
    \A c \in Calls :
        oneshot[c] = "answered" \/ result[c] = "response" => HasBeenSent(c)

\* The paths that remove the entry return an error.
LeavingIsUnanswered ==
    \A c \in Calls : pc[c] = "removing" => result[c] \in {"timeout", "dead"}

PInv == IInv /\ SentIfAnswered /\ LeavingIsUnanswered

\* What was sent stays sent, under the key it had.
LEMMA SentStable ==
    ASSUME TypeOK, QueuedWereCreated, [Next]_vars,
           NEW d \in Calls, pc[d] # "new", HasBeenSent(d)
    PROVE  HasBeenSent(d)'
<1>1. asked \subseteq asked'
  BY DEF Next, Step, vars, CreateRequest, Register, Enqueue, EnqueueFails,
     Announce, Returns, FindsDropped, TimesOut, Remove, Cancel, SendOk,
     SendFails, Deliver, WorkerStops
<1>2. PICK s \in asked : key[s] = key[d]
  BY DEF HasBeenSent
<1>3. s \in Senders /\ pc[s] # "new" /\ d \in Senders
  BY DEF TypeOK, QueuedWereCreated, Senders, Own
<1>4. key'[s] = key[s] /\ key'[d] = key[d]
  BY <1>3, CreatedStay
<1> QED
  BY <1>1, <1>2, <1>4 DEF HasBeenSent

\* A call that is answered was answered before, or something sent under its
\* key is answered in this step.
LEMMA AnswerHasCause ==
    ASSUME IInv, [Next]_vars, NEW d \in Calls,
           oneshot'[d] = "answered" \/ result'[d] = "response"
    PROVE  oneshot[d] = "answered" \/ result[d] = "response" \/ HasBeenSent(d)
<1> DEFINE Before == \/ oneshot[d] = "answered"
                     \/ result[d] = "response"
                     \/ HasBeenSent(d)
<1> USE DEF IInv, TypeOK
<1>1. ASSUME NEW s \in Senders, NEW addr \in Addrs, CreateRequest(s, addr)
      PROVE  Before
  BY <1>1 DEF CreateRequest
<1>2. ASSUME NEW c \in Calls, Register(c)
      PROVE  Before
  <2>1. key[c] \in Keys /\ UNCHANGED result
    BY <1>2 DEF Register, Senders, Own
  <2> QED
    BY <1>2, <2>1, SenderDroppedChannels DEF Register
<1>3. ASSUME NEW c \in Calls, Enqueue(c)
      PROVE  Before
  BY <1>3 DEF Enqueue
<1>4. ASSUME NEW c \in Calls, EnqueueFails(c)
      PROVE  Before
  BY <1>4 DEF EnqueueFails
<1>5. ASSUME NEW c \in Calls, Returns(c)
      PROVE  Before
  BY <1>5 DEF Returns
<1>6. ASSUME NEW c \in Calls, FindsDropped(c)
      PROVE  Before
  BY <1>6 DEF FindsDropped
<1>7. ASSUME NEW c \in Calls, TimesOut(c)
      PROVE  Before
  BY <1>7 DEF TimesOut
<1>8. ASSUME NEW c \in Calls, Remove(c)
      PROVE  Before
  <2>1. key[c] \in Keys /\ UNCHANGED result
    BY <1>8 DEF Remove, Senders, Own
  <2> QED
    BY <1>8, <2>1, SenderDroppedChannels DEF Remove
<1>9. ASSUME NEW c \in Calls, Cancel(c)
      PROVE  Before
  BY <1>9 DEF Cancel
<1>10. ASSUME NEW s \in Announces, Announce(s)
       PROVE  Before
  BY <1>10 DEF Announce
<1>11. CASE SendOk
  BY <1>11 DEF SendOk
<1>12. CASE SendFails
  <2>1. CASE UNCHANGED <<inflight, oneshot, origin, pc, key, result, alive>>
    BY <2>1
  <2>2. CASE Resolution(Head(outbox), "failed")
    BY <2>2 DEF Resolution
  <2> QED
    BY <1>12, <2>1, <2>2, SendFailsResolves
<1>13. ASSUME NEW s \in Senders, Deliver(s)
       PROVE  Before
  <2>1. Resolution(s, "answered") /\ s \in asked
    BY <1>13, DeliverResolves DEF Deliver
  <2>2. CASE d = inflight[key[s]]
    <3>1. key[d] = key[s]
      BY <2>1, <2>2, RequestsAssumption
         DEF Resolution, EntriesOwned, Senders, Own
    <3> QED
      BY <2>1, <3>1 DEF HasBeenSent
  <2>3. CASE d # inflight[key[s]]
    BY <2>1, <2>3 DEF Resolution
  <2> QED
    BY <2>2, <2>3
<1>14. CASE WorkerStops
  BY <1>14 DEF WorkerStops
<1>15. CASE UNCHANGED vars
  BY <1>15 DEF vars
<1> QED
  BY <1>1, <1>2, <1>3, <1>4, <1>5, <1>6, <1>7, <1>8, <1>9, <1>10, <1>11,
     <1>12, <1>13, <1>14, <1>15 DEF Next, Step

\* A call on its way to remove its entry has no answer to return.
LEMMA LeavingStep ==
    TypeOK /\ LeavingIsUnanswered /\ [Next]_vars => LeavingIsUnanswered'
<1> SUFFICES ASSUME TypeOK, LeavingIsUnanswered, [Next]_vars, NEW d \in Calls,
                    pc'[d] = "removing"
             PROVE  result'[d] \in {"timeout", "dead"}
  BY DEF LeavingIsUnanswered
<1>1. CASE UNCHANGED <<pc, result>>
  BY <1>1 DEF LeavingIsUnanswered
<1>2. ASSUME NEW s \in Senders, UNCHANGED result, s # d \/ pc'[s] # "removing",
             NEW to, pc' = [pc EXCEPT ![s] = to]
      PROVE  result'[d] \in {"timeout", "dead"}
  BY <1>2 DEF LeavingIsUnanswered, TypeOK
<1>3. ASSUME NEW c \in Calls, NEW to, NEW how,
             pc' = [pc EXCEPT ![c] = to], result' = [result EXCEPT ![c] = how],
             to = "removing" => how \in {"timeout", "dead"}
      PROVE  result'[d] \in {"timeout", "dead"}
  BY <1>3 DEF LeavingIsUnanswered, TypeOK, Senders, Own
<1>4. Calls \subseteq Senders /\ Announces \subseteq Senders
  BY DEF Senders, Own
<1>5. \A c \in Calls : Register(c) \/ Enqueue(c) \/ Remove(c) \/ Cancel(c) =>
        result'[d] \in {"timeout", "dead"}
  BY <1>4 DEF Register, Enqueue, Remove, Cancel, TypeOK, LeavingIsUnanswered
<1>6. \A c \in Calls : EnqueueFails(c) \/ FindsDropped(c) \/ TimesOut(c) =>
        result'[d] \in {"timeout", "dead"}
  BY <1>3 DEF EnqueueFails, FindsDropped, TimesOut
<1>7. \A c \in Calls : Returns(c) => result'[d] \in {"timeout", "dead"}
  BY <1>4 DEF Returns, TypeOK, LeavingIsUnanswered
<1>8. ASSUME NEW s \in Senders, NEW addr \in Addrs, CreateRequest(s, addr)
      PROVE  result'[d] \in {"timeout", "dead"}
  <2>1. /\ UNCHANGED result /\ pc' = [pc EXCEPT ![s] = "created"]
        /\ s \in DOMAIN pc
    BY <1>8 DEF CreateRequest, TypeOK
  <2>2. pc'[s] # "removing"
    BY <2>1
  <2> QED
    BY <1>2, <2>1, <2>2
<1>9. \A s \in Announces : Announce(s) => result'[d] \in {"timeout", "dead"}
  BY <1>2, <1>4 DEF Announce, TypeOK
<1> QED
  BY <1>1, <1>5, <1>6, <1>7, <1>8, <1>9
     DEF Next, Step, vars, SendOk, SendFails, Deliver, WorkerStops

\* The two parts that the promise needs are kept with the rest.
LEMMA NextPInv == PInv /\ [Next]_vars => PInv'
<1> SUFFICES ASSUME PInv, [Next]_vars
             PROVE  PInv'
  OBVIOUS
<1>1. IInv' /\ LeavingIsUnanswered'
  BY NextIInv, LeavingStep DEF PInv, IInv
<1>2. ASSUME NEW d \in Calls,
             oneshot'[d] = "answered" \/ result'[d] = "response"
      PROVE  HasBeenSent(d)'
  <2>1. HasBeenSent(d)
    BY <1>2, AnswerHasCause DEF PInv, SentIfAnswered
  <2>2. pc'[d] # "new"
    BY <1>1, <1>2 DEF IInv, Untouched
  <2>3. pc[d] # "new"
    <3> SUFFICES ASSUME pc[d] = "new"
                 PROVE  FALSE
      OBVIOUS
    <3>1. oneshot[d] = "open" /\ result[d] = "none"
      BY DEF PInv, IInv, Untouched
    <3>2. pc'[d] \in {"new", "created"}
      BY DEF PInv, IInv, TypeOK, Next, Step, vars, CreateRequest, Register,
         Enqueue, EnqueueFails, Announce, Returns, FindsDropped, TimesOut,
         Remove, Cancel, SendOk, SendFails, Deliver, WorkerStops, Senders, Own
    <3> QED
      BY <1>1, <1>2, <3>2 DEF IInv, Untouched
  <2> QED
    BY <2>1, <2>3, SentStable DEF PInv, IInv
<1> QED
  BY <1>1, <1>2 DEF PInv, SentIfAnswered

\* A step that changes neither what callers can see of a call nor what was
\* sent is no step of the promise.
LEMMA PromiseStutters ==
    ASSUME UNCHANGED <<key, asked>>,
           \A c \in Calls :
              /\ CallState(c)' = CallState(c)
              /\ pc[c] = "done" => result'[c] = result[c]
    PROVE  UNCHANGED Promise!vars
<1>1. \A c \in Calls : pc'[c] = "done" <=> pc[c] = "done"
  BY DEF CallState
<1> QED
  BY <1>1 DEF Promise!vars, CallState

\* A call whose place in request changes, and nothing else that callers see.
LEMMA PromiseMoves ==
    ASSUME TypeOK, NEW c \in Calls, NEW to, UNCHANGED <<key, asked>>,
           pc' = [pc EXCEPT ![c] = to],
           pc[c] \notin {"new", "done", "cancelled"},
           to \notin {"new", "done", "cancelled"},
           \A d \in Calls \ {c} : result'[d] = result[d]
    PROVE  UNCHANGED Promise!vars
<1>1. c \in Senders /\ Calls \subseteq Senders
  BY DEF Senders, Own
<1>2. \A d \in Calls : CallState(d)' = CallState(d)
  BY <1>1 DEF CallState, TypeOK
<1> QED
  BY <1>2, PromiseStutters

\* A call that returns what it has found.
LEMMA PromiseReturn ==
    ASSUME TypeOK, NEW c \in Calls, UNCHANGED <<key, asked>>,
           pc' = [pc EXCEPT ![c] = "done"],
           pc[c] \notin {"new", "done", "cancelled"},
           \A d \in Calls \ {c} : result'[d] = result[d],
           result'[c] \in {"response", "send_error", "timeout", "dead"},
           result'[c] = "response" => HasBeenSent(c)
    PROVE  Promise!Next
<1>1. c \in Senders /\ Calls \subseteq Senders
  BY DEF Senders, Own
<1>2. \A d \in Calls \ {c} : CallState(d)' = CallState(d) /\ pc'[d] = pc[d]
  BY <1>1 DEF CallState, TypeOK
<1>3. CallState(c) = "running" /\ CallState(c)' = "ended" /\ pc'[c] = "done"
  BY <1>1 DEF CallState, TypeOK
<1>4. result'[c] = "response" => key[c] \in {key[s] : s \in asked}
  BY DEF HasBeenSent
<1>a. PICK how \in Promise!Outcomes : how = result'[c]
  BY DEF Promise!Outcomes
<1>5. Promise!Return(c, how)
  <2> DEFINE st == [d \in Calls |-> CallState(d)]
             out == [d \in Calls |-> IF pc[d] = "done" THEN result[d] ELSE "none"]
  <2>1. st' = [st EXCEPT ![c] = "ended"] /\ st[c] = "running"
    BY <1>2, <1>3
  <2>2. out' = [out EXCEPT ![c] = how]
    BY <1>2, <1>3, <1>a
  <2>3. UNCHANGED <<[d \in Calls |-> key[d]], {key[s] : s \in asked}>>
    OBVIOUS
  <2>4. [d \in Calls |-> key[d]][c] = key[c]
    OBVIOUS
  <2> QED
    BY <1>4, <1>a, <2>1, <2>2, <2>3, <2>4 DEF Promise!Return
<1> QED
  BY <1>a, <1>5 DEF Promise!Next

\* The initial states of Requests are initial states of Rpc.
LEMMA PromiseInit == Init => Promise!Init
<1> SUFFICES ASSUME Init
             PROVE  Promise!Init
  OBVIOUS
<1>1. TypeOK
  BY InitIInv DEF IInv
<1>2. \A c \in Calls : pc[c] = "new" /\ c \in Senders
  BY DEF Init, Senders, Own
<1> QED
  BY <1>1, <1>2 DEF Promise!Init, CallState, TypeOK, Senders, Own

\* Every step of Requests is a step of Rpc, or none.
LEMMA PromiseStep ==
    PInv /\ [Next]_vars => [Promise!Next]_Promise!vars
<1> SUFFICES ASSUME PInv, [Next]_vars
             PROVE  Promise!Next \/ UNCHANGED Promise!vars
  OBVIOUS
<1> USE DEF PInv, IInv
<1>a. TypeOK /\ Calls \subseteq Senders /\ Announces \subseteq Senders
  BY DEF Senders, Own
<1>b. CASE UNCHANGED <<pc, key, asked, result>>
  BY <1>b, PromiseStutters DEF CallState
<1>1. ASSUME NEW s \in Senders, NEW addr \in Addrs, CreateRequest(s, addr)
      PROVE  Promise!Next \/ UNCHANGED Promise!vars
  <2>1. /\ key' = [key EXCEPT ![s] = <<next_tid, addr>>]
        /\ pc' = [pc EXCEPT ![s] = "created"]
        /\ UNCHANGED <<result, asked>> /\ pc[s] = "new"
    BY <1>1 DEF CreateRequest
  <2>2. \A t \in asked : key'[t] = key[t]
    BY <1>a, <2>1 DEF QueuedWereCreated, TypeOK
  <2>3. \A d \in Calls \ {s} : /\ CallState(d)' = CallState(d)
                               /\ key'[d] = key[d] /\ pc'[d] = pc[d]
    BY <1>a, <2>1 DEF CallState, TypeOK
  <2>4. CASE s \in Calls
    <3>1. /\ CallState(s) = "idle" /\ CallState(s)' = "running"
          /\ key'[s] = <<next_tid, addr>> /\ pc'[s] # "done"
          /\ <<next_tid, addr>> \in Keys
      BY <1>a, <2>1 DEF CallState, TypeOK, Keys
    <3>2. Promise!Begin(s)
      <4> DEFINE st == [d \in Calls |-> CallState(d)]
                 out == [d \in Calls |->
                           IF pc[d] = "done" THEN result[d] ELSE "none"]
                 ky == [d \in Calls |-> key[d]]
      <4>1. st' = [st EXCEPT ![s] = "running"] /\ st[s] = "idle"
        BY <2>3, <2>4, <3>1
      <4>2. out' = out
        BY <2>1, <2>3, <3>1
      <4>3. ky' = [ky EXCEPT ![s] = <<next_tid, addr>>]
        BY <2>3, <2>4, <3>1
      <4>4. {key[t] : t \in asked}' = {key[t] : t \in asked}
        BY <2>1, <2>2
      <4> QED
        BY <3>1, <4>1, <4>2, <4>3, <4>4 DEF Promise!Begin
    <3> QED
      BY <2>4, <3>2 DEF Promise!Next
  <2>5. CASE s \notin Calls
    BY <2>1, <2>2, <2>3, <2>5 DEF Promise!vars
  <2> QED
    BY <2>4, <2>5
<1>2. ASSUME NEW c \in Calls, Register(c)
      PROVE  UNCHANGED Promise!vars
  BY <1>2, <1>a, PromiseMoves DEF Register
<1>3. ASSUME NEW c \in Calls, Enqueue(c)
      PROVE  UNCHANGED Promise!vars
  BY <1>3, <1>a, PromiseMoves DEF Enqueue
<1>4. ASSUME NEW c \in Calls, EnqueueFails(c)
      PROVE  UNCHANGED Promise!vars
  BY <1>4, <1>a, PromiseMoves DEF EnqueueFails, TypeOK
<1>5. ASSUME NEW c \in Calls, Returns(c)
      PROVE  Promise!Next
  <2>1. /\ result'[c] \in {"response", "send_error"}
        /\ result'[c] = "response" => oneshot[c] = "answered"
        /\ \A d \in Calls \ {c} : result'[d] = result[d]
        /\ UNCHANGED <<key, asked>> /\ pc[c] = "waiting"
        /\ pc' = [pc EXCEPT ![c] = "done"]
    BY <1>5, <1>a DEF Returns, TypeOK
  <2> QED
    BY <1>a, <2>1, PromiseReturn DEF SentIfAnswered
<1>6. ASSUME NEW c \in Calls, FindsDropped(c)
      PROVE  UNCHANGED Promise!vars
  BY <1>6, <1>a, PromiseMoves DEF FindsDropped, TypeOK
<1>7. ASSUME NEW c \in Calls, TimesOut(c)
      PROVE  UNCHANGED Promise!vars
  BY <1>7, <1>a, PromiseMoves DEF TimesOut, TypeOK
<1>8. ASSUME NEW c \in Calls, Remove(c)
      PROVE  Promise!Next
  <2>1. /\ UNCHANGED <<key, asked, result>> /\ pc[c] = "removing"
        /\ pc' = [pc EXCEPT ![c] = "done"]
    BY <1>8 DEF Remove
  <2>2. result[c] \in {"timeout", "dead"}
    BY <2>1 DEF LeavingIsUnanswered
  <2> QED
    BY <1>a, <2>1, <2>2, PromiseReturn
<1>9. ASSUME NEW c \in Calls, Cancel(c)
      PROVE  Promise!Next
  <2>1. /\ UNCHANGED <<key, asked, result>> /\ pc[c] = "waiting"
        /\ pc' = [pc EXCEPT ![c] = "cancelled"]
    BY <1>9 DEF Cancel
  <2>2. \A d \in Calls \ {c} : CallState(d)' = CallState(d) /\ pc'[d] = pc[d]
    BY <1>a, <2>1 DEF CallState, TypeOK
  <2>3. CallState(c) = "running" /\ CallState(c)' = "abandoned"
        /\ pc'[c] # "done"
    BY <1>a, <2>1 DEF CallState, TypeOK
  <2>4. Promise!Abandon(c)
    BY <2>1, <2>2, <2>3 DEF Promise!Abandon
  <2> QED
    BY <2>4 DEF Promise!Next
<1>10. ASSUME NEW s \in Announces, Announce(s)
       PROVE  UNCHANGED Promise!vars
  <2>1. s \notin Calls
    BY RequestsAssumption
  <2>2. \A d \in Calls : CallState(d)' = CallState(d)
    BY <1>10, <1>a, <2>1 DEF Announce, CallState, TypeOK
  <2> QED
    BY <1>10, <2>2, PromiseStutters DEF Announce
<1>11. CASE SendOk
  <2>1. asked' = asked \cup {Head(outbox)} /\ UNCHANGED <<pc, key, result>>
    BY <1>11 DEF SendOk
  <2>2. Head(outbox) \in Senders
    BY <1>11, <1>a DEF SendOk, TypeOK
  <2>3. key[Head(outbox)] \in Keys
    BY <1>a, <2>2 DEF TypeOK
  <2>4. {key[s] : s \in asked}' = {key[s] : s \in asked} \cup {key[Head(outbox)]}
    BY <2>1
  <2>5. Promise!Send
    BY <2>1, <2>3, <2>4 DEF Promise!Send, CallState
  <2> QED
    BY <2>5 DEF Promise!Next
<1> QED
  BY <1>b, <1>1, <1>2, <1>3, <1>4, <1>5, <1>6, <1>7, <1>8, <1>9, <1>10, <1>11
     DEF Next, Step, vars, SendFails, Deliver, WorkerStops

\* request keeps what it promises its callers, for any number of calls,
\* announcements, ids and addresses: one return, a response only to what was
\* sent.
THEOREM ImplementsRpc == Spec => KeepsPromise
<1>1. Init => PInv
  BY InitIInv DEF PInv, Init, IInv, SentIfAnswered, LeavingIsUnanswered, Senders,
     Own
<1>2. PInv /\ [Next]_vars => PInv'
  BY NextPInv
<1> QED
  BY <1>1, <1>2, PromiseInit, PromiseStep, PTL DEF Spec, KeepsPromise, Promise!Spec
=============================================================================
