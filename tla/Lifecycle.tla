------------------------------ MODULE Lifecycle ------------------------------
(***************************************************************************)
(* The worker of a DHT node: its bootstrap, and how it ends.               *)
(*                                                                         *)
(* The bootstrap resolves every host of the list, looks for our own id     *)
(* from the addresses of each, both families at once, and tries a host     *)
(* again after a growing pause until it succeeds or a day has gone by.     *)
(* The hosts are polled side by side; the worker hears of the bootstrap    *)
(* when the last of them is through.  Lookups are module Lookup; here one  *)
(* is over in a step.  Of the worker's other tasks only the reader of the  *)
(* socket can end.                                                         *)
(***************************************************************************)
EXTENDS Naturals, FiniteSets

CONSTANTS
    Hosts,       \* names of bootstrap hosts
    Families,    \* address families
    Reachable,   \* <<host, family>> pairs that resolve and whose nodes answer
    MaxAttempts  \* bound on the attempts, total_delay (a day) in the code

ASSUME LifecycleAssumption ==
    /\ Reachable \subseteq Hosts \X Families
    /\ MaxAttempts \in Nat \ {0}

VARIABLES
    list,        \* bootstrap_addrs
    host,        \* host -> how far bootstrap_hostname_with_backoff has come
    lookup,      \* host, family -> outcome of find_node_for_routing_table
    attempts,    \* host -> attempts begun
    bootstrap_done,
    worker       \* what the worker's task is doing or has returned

vars == <<list, host, lookup, attempts, bootstrap_done, worker>>

-----------------------------------------------------------------------------
Running == worker = "running"

NoLookup == [f \in Families |-> "none"]

Init ==
    /\ list \in SUBSET Hosts
    /\ host = [h \in Hosts |-> "resolving"]
    /\ lookup = [h \in Hosts |-> NoLookup]
    /\ attempts = [h \in Hosts |-> 1]
    /\ bootstrap_done = FALSE
    /\ worker = "running"

\* A step of h's future, which is polled while the worker runs.
Polled(h, state) == Running /\ h \in list /\ host[h] = state

\* An attempt failed: pause and try again, or give up.
AfterFailure(h) == IF attempts[h] < MaxAttempts THEN "pausing" ELSE "failed"

ResolveFails(h) ==
    /\ Polled(h, "resolving")
    /\ \A f \in Families : <<h, f>> \notin Reachable
    /\ host' = [host EXCEPT ![h] = AfterFailure(h)]
    /\ UNCHANGED <<list, lookup, attempts, bootstrap_done, worker>>

\* The addresses are split by family; both lookups start, and the one of a
\* family without addresses fails at once.
Resolve(h, families) ==
    /\ Polled(h, "resolving")
    /\ \A f \in Families : <<h, f>> \in Reachable => f \in families
    /\ host' = [host EXCEPT ![h] = "asking"]
    /\ lookup' = [lookup EXCEPT ![h] =
                    [f \in Families |->
                       IF f \in families THEN "running" ELSE "failed"]]
    /\ UNCHANGED <<list, attempts, bootstrap_done, worker>>

\* find_node_for_routing_table returns, with or without a success.
LookupEnds(h, f) ==
    /\ Polled(h, "asking")
    /\ lookup[h][f] = "running"
    /\ \E outcome \in {"ok", "failed"} :
         /\ <<h, f>> \in Reachable => outcome = "ok"
         /\ lookup' = [lookup EXCEPT ![h][f] = outcome]
    /\ UNCHANGED <<list, host, attempts, bootstrap_done, worker>>

\* Fault: both families have to succeed.
EitherOkBoth(h) == \A f \in Families : lookup[h][f] = "ok"

EitherOk(h) == \E f \in Families : lookup[h][f] = "ok"

\* Both lookups have returned: v4.or(v6).
Join(h) ==
    /\ Polled(h, "asking")
    /\ \A f \in Families : lookup[h][f] # "running"
    /\ host' = [host EXCEPT ![h] = IF EitherOk(h) THEN "ok" ELSE AfterFailure(h)]
    /\ UNCHANGED <<list, lookup, attempts, bootstrap_done, worker>>

\* The pause is over.
Retry(h) ==
    /\ Polled(h, "pausing")
    /\ host' = [host EXCEPT ![h] = "resolving"]
    /\ lookup' = [lookup EXCEPT ![h] = NoLookup]
    /\ attempts' = [attempts EXCEPT ![h] = @ + 1]
    /\ UNCHANGED <<list, bootstrap_done, worker>>

\* Fault: a host that gave up is waited for.
ThroughWhenOk == \A h \in list : host[h] = "ok"

Through == \A h \in list : host[h] \in {"ok", "failed"}

Successes == \E h \in list : host[h] = "ok"

\* The last host is through.  One success is enough; without any, as with an
\* empty list, the worker ends.
BootstrapReturns ==
    /\ Running
    /\ ~bootstrap_done
    /\ Through
    /\ bootstrap_done' = TRUE
    /\ worker' = IF Successes THEN worker ELSE "bootstrap_failed"
    /\ UNCHANGED <<list, host, lookup, attempts>>

\* recv_from fails; the framer ends, and the worker with it.
FramerEnds ==
    /\ Running
    /\ worker' = "framer_failed"
    /\ UNCHANGED <<list, host, lookup, attempts, bootstrap_done>>

\* The cancellation token is triggered: the task is dropped where it is.
Cancelled ==
    /\ Running
    /\ worker' = "cancelled"
    /\ UNCHANGED <<list, host, lookup, attempts, bootstrap_done>>

HostStep(h) ==
    \/ ResolveFails(h)
    \/ \E families \in SUBSET Families : Resolve(h, families)
    \/ \E f \in Families : LookupEnds(h, f)
    \/ Join(h)
    \/ Retry(h)

Next ==
    \/ \E h \in Hosts : HostStep(h)
    \/ BootstrapReturns
    \/ FramerEnds
    \/ Cancelled

\* Resolving, lookups (Lookup!LookupEnds) and pauses end.
Fairness == (\A h \in Hosts : WF_vars(HostStep(h))) /\ WF_vars(BootstrapReturns)

Spec == Init /\ [][Next]_vars /\ Fairness
-----------------------------------------------------------------------------
(***************************************************************************)
(* Properties                                                              *)
(***************************************************************************)

\* The worker gives up for want of a bootstrap only if every host of the list
\* was tried to the end, and not one lookup in one family had a success in
\* its last attempt.
GivesUpOnlyWithoutAnyone ==
    worker = "bootstrap_failed" =>
        \A h \in list :
            /\ attempts[h] = MaxAttempts
            /\ \A f \in Families :
                 lookup[h][f] # "ok" /\ <<h, f>> \notin Reachable

\* The bootstrap is over some day, well or badly, however many hosts fail and
\* however often; unless the worker ended first.
BootstrapSettles == <>(bootstrap_done \/ ~Running)
=============================================================================
