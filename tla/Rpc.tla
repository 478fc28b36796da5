---------------------------------- MODULE Rpc ----------------------------------
(***************************************************************************)
(* What DhtState::request promises a caller, without transaction table,    *)
(* channels, queue or worker: a call that begins is given a key, returns   *)
(* once or is abandoned by its caller, and returns a response only if      *)
(* something has been sent to the outside under that key.  Requests        *)
(* implements this specification.                                          *)
(***************************************************************************)
CONSTANTS
    Calls,
    Keys

VARIABLES
    state,       \* call -> "idle", "running", "ended" or "abandoned"
    outcome,     \* call -> what it returned
    key,         \* call -> the key it was given
    reached      \* keys something was sent under

vars == <<state, outcome, key, reached>>

Outcomes == {"response", "send_error", "timeout", "dead"}

Init ==
    /\ state = [c \in Calls |-> "idle"]
    /\ outcome = [c \in Calls |-> "none"]
    /\ key \in [Calls -> Keys]
    /\ reached \in SUBSET Keys

Begin(c) ==
    /\ state[c] = "idle"
    /\ state' = [state EXCEPT ![c] = "running"]
    /\ \E k \in Keys : key' = [key EXCEPT ![c] = k]
    /\ UNCHANGED <<outcome, reached>>

Send ==
    /\ \E k \in Keys : reached' = reached \cup {k}
    /\ UNCHANGED <<state, outcome, key>>

Return(c, how) ==
    /\ state[c] = "running"
    /\ how = "response" => key[c] \in reached
    /\ state' = [state EXCEPT ![c] = "ended"]
    /\ outcome' = [outcome EXCEPT ![c] = how]
    /\ UNCHANGED <<key, reached>>

Abandon(c) ==
    /\ state[c] = "running"
    /\ state' = [state EXCEPT ![c] = "abandoned"]
    /\ UNCHANGED <<outcome, key, reached>>

Next ==
    \/ \E c \in Calls : Begin(c) \/ Abandon(c)
    \/ \E c \in Calls, how \in Outcomes : Return(c, how)
    \/ Send

Spec == Init /\ [][Next]_vars
=============================================================================
