------------------------------ MODULE Requests ------------------------------
(***************************************************************************)
(* Outgoing requests of DhtState: transaction ids, the table of requests   *)
(* waiting for an answer, the queue to the worker, the socket, answers,    *)
(* timeouts, cancellation and the end of the worker.                       *)
(*                                                                         *)
(* A member of Calls is one call of DhtState::request, run by a lookup, a  *)
(* pinger, a refresher, the bootstrap or a user of ping; a member of       *)
(* Announces is one announce_peer sent by on_request_end of a get_peers    *)
(* lookup, which takes a transaction id and is queued but is not waited    *)
(* for.  Calls run in parallel with each other and with the worker.        *)
(*                                                                         *)
(* The transaction ids of a process start at 0, and its file has the       *)
(* address it listened on: a member of Ghosts is a request that the        *)
(* process before this one sent from there, and that may be answered now.  *)
(***************************************************************************)
EXTENDS Naturals, Sequences

CONSTANTS
    Calls,       \* calls of request
    Announces,   \* announcements
    Ghosts,      \* requests of the process before
    Addrs,       \* addresses of remote nodes
    TidSpace,    \* number of transaction ids (65536)
    Nobody       \* no sender

Own == Calls \cup Announces

Senders == Own \cup Ghosts

Tids == 0 .. (TidSpace - 1)

Keys == Tids \X Addrs

ASSUME RequestsAssumption ==
    /\ Calls \cap Announces = {}
    /\ Own \cap Ghosts = {}
    /\ Nobody \notin Senders
    /\ TidSpace \in Nat \ {0}
    /\ Addrs # {}

VARIABLES
    next_tid,    \* next_transaction_id
    rounds,      \* history: how often next_tid has come back to 0
    inflight,    \* inflight_by_transaction_id: who waits at a key
    pc,          \* where a call or an announcement is
    key,         \* the (transaction id, address) it was given
    round,       \* history: the round of the counter that gave its id
    oneshot,     \* the channel a call waits on
    origin,      \* history: whose message caused what the channel carries
    result,      \* what a call returned, or is about to return
    outbox,      \* the unbounded channel to the worker
    asked,       \* requests that left the socket: answers to them may arrive
    alive        \* the worker runs

vars == <<next_tid, rounds, inflight, pc, key, round, oneshot, origin, result,
          outbox, asked, alive>>

numbering == <<next_tid, rounds, round>>

-----------------------------------------------------------------------------
\* The receiver of an open channel is still there.  Of the other states
\* "answered" and "failed" are values sent, "dropped" is a sender dropped
\* without sending, "closed" a receiver that is gone.
Resolved(channels, c, how) ==
    IF channels[c] = "open" THEN [channels EXCEPT ![c] = how] ELSE channels

\* Fault: whoever holds the key is not told that its entry goes.
SenderForgotten(k) == oneshot

\* The entry at k goes away, and its sender with it.
SenderDropped(k) ==
    IF inflight[k] = Nobody THEN oneshot
    ELSE Resolved(oneshot, inflight[k], "dropped")

\* Removing the entry at k and sending its caller what s's message caused.
ResolveEntry(k, how, s) ==
    LET c == inflight[k]
    IN  /\ inflight' = [inflight EXCEPT ![k] = Nobody]
        /\ oneshot' = Resolved(oneshot, c, how)
        /\ origin' = IF oneshot[c] = "open" THEN [origin EXCEPT ![c] = s]
                     ELSE origin

Init ==
    /\ next_tid = 0
    /\ rounds = 0
    /\ inflight = [k \in Keys |-> Nobody]
    /\ pc = [s \in Senders |-> IF s \in Own THEN "new" ELSE "done"]
    /\ \E k \in [Ghosts -> Keys] :
         key = [s \in Senders |-> IF s \in Own THEN CHOOSE any \in Keys : TRUE
                                  ELSE k[s]]
    /\ round = [s \in Senders |-> 0]
    /\ oneshot = [c \in Calls |-> "open"]
    /\ origin = [c \in Calls |-> Nobody]
    /\ result = [c \in Calls |-> "none"]
    /\ outbox = <<>>
    /\ asked = Ghosts
    /\ alive = TRUE

-----------------------------------------------------------------------------
\* Fault: an announcement does not use up the id it takes.
CreateRequestShared(s, addr) ==
    /\ pc[s] = "new"
    /\ key' = [key EXCEPT ![s] = <<next_tid, addr>>]
    /\ next_tid' = IF s \in Announces THEN next_tid
                   ELSE (next_tid + 1) % TidSpace
    /\ rounds' = IF s \notin Announces /\ next_tid + 1 = TidSpace
                 THEN rounds + 1 ELSE rounds
    /\ round' = [round EXCEPT ![s] = rounds]
    /\ pc' = [pc EXCEPT ![s] = "created"]
    /\ UNCHANGED <<inflight, oneshot, origin, result, outbox, asked, alive>>

\* create_request: fetch_add on an AtomicU16 wraps to 0.
CreateRequest(s, addr) ==
    /\ pc[s] = "new"
    /\ key' = [key EXCEPT ![s] = <<next_tid, addr>>]
    /\ next_tid' = IF next_tid + 1 = TidSpace THEN 0 ELSE next_tid + 1
    /\ rounds' = IF next_tid + 1 = TidSpace THEN rounds + 1 ELSE rounds
    /\ round' = [round EXCEPT ![s] = rounds]
    /\ pc' = [pc EXCEPT ![s] = "created"]
    /\ UNCHANGED <<inflight, oneshot, origin, result, outbox, asked, alive>>

\* Inserting at an occupied key drops the sender that was there.
Register(c) ==
    /\ pc[c] = "created"
    /\ inflight' = [inflight EXCEPT ![key[c]] = c]
    /\ oneshot' = SenderDropped(key[c])
    /\ pc' = [pc EXCEPT ![c] = "registered"]
    /\ UNCHANGED <<numbering, key, origin, result, outbox, asked, alive>>

Enqueue(c) ==
    /\ pc[c] = "registered"
    /\ alive
    /\ outbox' = Append(outbox, c)
    /\ pc' = [pc EXCEPT ![c] = "waiting"]
    /\ UNCHANGED <<numbering, inflight, key, oneshot, origin, result,
                   asked, alive>>

\* The worker is gone: remove the entry and return DhtDead.
EnqueueFails(c) ==
    /\ pc[c] = "registered"
    /\ ~alive
    /\ result' = [result EXCEPT ![c] = "dead"]
    /\ pc' = [pc EXCEPT ![c] = "removing"]
    /\ UNCHANGED <<numbering, inflight, key, oneshot, origin, outbox,
                   asked, alive>>

\* The announcement is queued under its transaction id, without an entry; a
\* send to a worker that is gone is ignored.
Announce(s) ==
    /\ pc[s] = "created"
    /\ outbox' = IF alive THEN Append(outbox, s) ELSE outbox
    /\ pc' = [pc EXCEPT ![s] = "done"]
    /\ UNCHANGED <<numbering, inflight, key, oneshot, origin, result,
                   asked, alive>>

\* What the caller finds on its channel.
Returns(c) ==
    /\ pc[c] = "waiting"
    /\ oneshot[c] \in {"answered", "failed"}
    /\ result' = [result EXCEPT ![c] =
                    IF oneshot[c] = "answered" THEN "response" ELSE "send_error"]
    /\ pc' = [pc EXCEPT ![c] = "done"]
    /\ UNCHANGED <<numbering, inflight, key, oneshot, origin, outbox,
                   asked, alive>>

\* Fault: a channel that was dropped passes for an empty answer.
FindsDroppedAsAnswered(c) ==
    /\ pc[c] = "waiting"
    /\ oneshot[c] = "dropped"
    /\ result' = [result EXCEPT ![c] = "response"]
    /\ pc' = [pc EXCEPT ![c] = "removing"]
    /\ UNCHANGED <<numbering, inflight, key, oneshot, origin, outbox,
                   asked, alive>>

FindsDropped(c) ==
    /\ pc[c] = "waiting"
    /\ oneshot[c] = "dropped"
    /\ result' = [result EXCEPT ![c] = "dead"]
    /\ pc' = [pc EXCEPT ![c] = "removing"]
    /\ UNCHANGED <<numbering, inflight, key, oneshot, origin, outbox,
                   asked, alive>>

\* Fault: the wait has no deadline.
WaitsForever(c) == FALSE

\* The deadline passed.  timeout() looks at the channel before it looks at
\* the clock, so whatever arrives between the two looks is lost with it.
TimesOut(c) ==
    /\ pc[c] = "waiting"
    /\ oneshot' = [oneshot EXCEPT ![c] = "closed"]
    /\ result' = [result EXCEPT ![c] = "timeout"]
    /\ pc' = [pc EXCEPT ![c] = "removing"]
    /\ UNCHANGED <<numbering, inflight, key, origin, outbox, asked,
                   alive>>

\* Fault: the error paths return without removing the entry.
ReturnWithoutRemoving(c) ==
    /\ pc[c] = "removing"
    /\ pc' = [pc EXCEPT ![c] = "done"]
    /\ UNCHANGED <<numbering, inflight, key, oneshot, origin, result,
                   outbox, asked, alive>>

\* The error paths remove whatever is at the key by then.
Remove(c) ==
    /\ pc[c] = "removing"
    /\ inflight' = [inflight EXCEPT ![key[c]] = Nobody]
    /\ oneshot' = SenderDropped(key[c])
    /\ pc' = [pc EXCEPT ![c] = "done"]
    /\ UNCHANGED <<numbering, key, origin, result, outbox, asked, alive>>

\* The future is dropped where it waits (RequestPeersStream dropped, worker
\* cancelled): the entry stays.
Cancel(c) ==
    /\ pc[c] = "waiting"
    /\ oneshot' = [oneshot EXCEPT ![c] = "closed"]
    /\ pc' = [pc EXCEPT ![c] = "cancelled"]
    /\ UNCHANGED <<numbering, inflight, key, origin, result, outbox,
                   asked, alive>>

-----------------------------------------------------------------------------
\* The writer half of the framer.
SendOk ==
    /\ alive
    /\ outbox # <<>>
    /\ asked' = asked \cup {Head(outbox)}
    /\ outbox' = Tail(outbox)
    /\ UNCHANGED <<numbering, inflight, pc, key, oneshot, origin,
                   result, alive>>

\* send_to failed: on_send_error.
SendFails ==
    /\ alive
    /\ outbox # <<>>
    /\ outbox' = Tail(outbox)
    /\ LET s == Head(outbox)
       IN  IF inflight[key[s]] = Nobody
           THEN UNCHANGED <<inflight, oneshot, origin>>
           ELSE ResolveEntry(key[s], "failed", s)
    /\ UNCHANGED <<numbering, pc, key, result, asked, alive>>

\* Fault: the waiting request is found by the address alone.
DeliverByAddress(s) ==
    /\ alive
    /\ s \in asked
    /\ \E k \in Keys :
         /\ k[2] = key[s][2] /\ inflight[k] # Nobody
         /\ ResolveEntry(k, "answered", s)
    /\ UNCHANGED <<numbering, pc, key, result, outbox, asked, alive>>

\* A response or an error answering request s arrives, possibly late, for the
\* second time, or never.  Without an entry it is dropped (RequestNotFound).
\* An address answers no id but those of the requests it was sent.
Deliver(s) ==
    /\ alive
    /\ s \in asked
    /\ inflight[key[s]] # Nobody
    /\ ResolveEntry(key[s], "answered", s)
    /\ UNCHANGED <<numbering, pc, key, result, outbox, asked, alive>>

\* The worker returns or is cancelled; the channel to it closes.
WorkerStops ==
    /\ alive
    /\ alive' = FALSE
    /\ outbox' = <<>>
    /\ UNCHANGED <<numbering, inflight, pc, key, oneshot, origin,
                   result, asked>>

Step(c) ==
    \/ Register(c)
    \/ Enqueue(c)
    \/ EnqueueFails(c)
    \/ Returns(c)
    \/ FindsDropped(c)
    \/ TimesOut(c)
    \/ Remove(c)

Next ==
    \/ \E s \in Senders, addr \in Addrs : CreateRequest(s, addr)
    \/ \E c \in Calls : Step(c) \/ Cancel(c)
    \/ \E s \in Announces : Announce(s)
    \/ SendOk \/ SendFails
    \/ \E s \in Senders : Deliver(s)
    \/ WorkerStops

\* A call that has begun is polled until it returns, and its deadline passes.
Fairness == \A c \in Calls : WF_vars(Step(c))

Spec == Init /\ [][Next]_vars /\ Fairness
-----------------------------------------------------------------------------
(***************************************************************************)
(* Properties                                                              *)
(***************************************************************************)

\* The type invariant.
TypeOK ==
    /\ next_tid \in Tids
    /\ rounds \in Nat
    /\ inflight \in [Keys -> Calls \cup {Nobody}]
    /\ pc \in [Senders -> {"new", "created", "registered", "waiting",
                           "removing", "done", "cancelled"}]
    /\ key \in [Senders -> Keys]
    /\ round \in [Senders -> Nat]
    /\ oneshot \in [Calls -> {"open", "answered", "failed", "dropped",
                              "closed"}]
    /\ origin \in [Calls -> Senders \cup {Nobody}]
    /\ result \in [Calls -> {"none", "response", "send_error", "timeout",
                             "dead"}]
    /\ outbox \in Seq(Senders)
    /\ asked \in SUBSET Senders
    /\ alive \in BOOLEAN

\* A call that waits with nothing on its channel can still be answered: its
\* entry is in the table under its own key.  No removal by a timeout, an
\* answer, a send error or another call leaves a caller waiting for nothing,
\* even when transaction ids come round.
NoLostWakeup ==
    \A c \in Calls :
        pc[c] \in {"registered", "waiting"} /\ oneshot[c] = "open" =>
            inflight[key[c]] = c

\* The table only holds entries of calls that still run, or that were
\* cancelled where they waited; a call that returned has left none.
LeaksOnlyByCancel ==
    \A k \in Keys : inflight[k] # Nobody =>
        /\ key[inflight[k]] = k
        /\ pc[inflight[k]] \in {"registered", "waiting", "removing",
                                "cancelled"}

\* A call gets the answer to its own request, or the error of sending it, and
\* not those of another call or of an announcement, late and repeated answers
\* included, unless the counter came round between the two: requests are mixed
\* up only if they are a whole number of rounds of 65536 apart.  An answer to
\* the process before may be taken for its own, if that used the same id for
\* the same address.
AnswersMatch ==
    \A c \in Calls : origin[c] \notin {Nobody, c} =>
        /\ key[origin[c]] = key[c]
        /\ origin[c] \in Own => round[origin[c]] # round[c]

IsTwin(s, c) == s # c /\ pc[s] # "new" /\ key[s] = key[c]

Twin(c) == \E s \in Senders : IsTwin(s, c)

\* The table never confuses two addresses or two ids: what a call is told was
\* caused by its own message or by that of a sender with the same transaction
\* id and the same address; and only where there is such a sender a call ends
\* with DhtDead while the worker runs.
OnlyTwinsInterfere ==
    \A c \in Calls :
        /\ origin[c] \notin {Nobody, c} => IsTwin(origin[c], c)
        /\ result[c] = "dead" /\ alive => Twin(c)

\* A call of request always ends, whatever happens to the messages, to the
\* worker and to the other calls.
EveryCallReturns ==
    \A c \in Calls :
        (pc[c] = "created") ~> (pc[c] \in {"done", "cancelled"})

CallState(c) ==
    IF pc[c] = "new" THEN "idle"
    ELSE IF pc[c] = "done" THEN "ended"
    ELSE IF pc[c] = "cancelled" THEN "abandoned"
    ELSE "running"

Promise == INSTANCE Rpc
    WITH state <- [c \in Calls |-> CallState(c)],
         outcome <- [c \in Calls |->
                       IF pc[c] = "done" THEN result[c] ELSE "none"],
         key <- [c \in Calls |-> key[c]],
         reached <- {key[s] : s \in asked}

\* For its callers all this is a call that returns once: with a response only
\* if a message with its transaction id has left for its address, and with a
\* result that nothing changes later.
KeepsPromise == Promise!Spec

\* The comment on WorkerSendRequest.our_tid (dht.rs:64): "If this is set, we
\* are tracking the response in inflight_by_transaction_id".
TrackedWhenQueued ==
    [][\A s \in Senders :
         outbox' = Append(outbox, s) => inflight[key[s]] # Nobody]_vars
=============================================================================
