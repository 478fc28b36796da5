--------------------------- MODULE LifecycleProofs ---------------------------
(***************************************************************************)
(* Proofs about Lifecycle, for any hosts, families and number of attempts. *)
(***************************************************************************)
EXTENDS Lifecycle, TLAPS

States == {"resolving", "asking", "pausing", "ok", "failed"}

Outcomes == {"none", "running", "ok", "failed"}

Typed ==
    /\ list \subseteq Hosts
    /\ host \in [Hosts -> States]
    /\ lookup \in [Hosts -> [Families -> Outcomes]]
    /\ attempts \in [Hosts -> 1 .. MaxAttempts]

\* What a host has to show for the state it is in.  A family that answers is
\* not given up while it is asked.
Earned(h) ==
    /\ host[h] = "resolving" => \A f \in Families : lookup[h][f] = "none"
    /\ host[h] = "asking" =>
         \A f \in Families :
            <<h, f>> \in Reachable => lookup[h][f] \in {"running", "ok"}
    /\ host[h] = "pausing" => attempts[h] < MaxAttempts
    /\ host[h] = "failed" =>
         /\ attempts[h] = MaxAttempts
         /\ \A f \in Families : lookup[h][f] # "ok" /\ <<h, f>> \notin Reachable

IInv ==
    /\ Typed
    /\ \A h \in list : Earned(h)
    /\ worker = "bootstrap_failed" => \A h \in list : host[h] = "failed"

LEMMA InitIInv == Init => IInv
BY LifecycleAssumption
DEF Init, IInv, Typed, Earned, States, Outcomes, NoLookup

\* A step of one host, the worker running, leaves the others as they are.
LEMMA OneHost ==
    ASSUME IInv, NEW h \in Hosts, NEW state \in States,
           NEW outcomes \in [Families -> Outcomes], NEW count \in 1 .. MaxAttempts,
           Running,
           host' = [host EXCEPT ![h] = state],
           lookup' = [lookup EXCEPT ![h] = outcomes],
           attempts' = [attempts EXCEPT ![h] = count],
           UNCHANGED <<list, worker>>,
           Earned(h)'
    PROVE  IInv'
<1>1. Typed'
  BY DEF IInv, Typed
<1>2. ASSUME NEW g \in list', g # h
      PROVE  Earned(g)'
  <2>1. g \in Hosts /\ Earned(g)
    BY <1>2 DEF IInv, Typed
  <2>2. host'[g] = host[g] /\ lookup'[g] = lookup[g] /\ attempts'[g] = attempts[g]
    BY <1>2, <2>1 DEF IInv, Typed
  <2> QED
    BY <2>1, <2>2 DEF Earned
<1> QED
  BY <1>1, <1>2 DEF IInv, Running

LEMMA HostStepKeeps ==
    ASSUME IInv, NEW h \in Hosts, HostStep(h)
    PROVE  IInv'
<1>1. /\ Running /\ h \in list /\ Earned(h)
      /\ UNCHANGED <<list, worker>>
      /\ host[h] \in States /\ lookup[h] \in [Families -> Outcomes]
      /\ attempts[h] \in 1 .. MaxAttempts
      /\ host = [host EXCEPT ![h] = host[h]]
      /\ lookup = [lookup EXCEPT ![h] = lookup[h]]
      /\ attempts = [attempts EXCEPT ![h] = attempts[h]]
  BY DEF IInv, Typed, HostStep, ResolveFails, Resolve, LookupEnds, Join, Retry, Polled
<1>2. \A state \in States : [host EXCEPT ![h] = state][h] = state
  BY DEF IInv, Typed
<1>3. AfterFailure(h) \in States
  BY DEF AfterFailure, States
<1>4. /\ AfterFailure(h) = "pausing" => attempts[h] < MaxAttempts
      /\ AfterFailure(h) = "failed" => attempts[h] = MaxAttempts
      /\ AfterFailure(h) \in {"pausing", "failed"}
  BY <1>1, LifecycleAssumption DEF AfterFailure
<1>5. CASE ResolveFails(h)
  <2>1. /\ host' = [host EXCEPT ![h] = AfterFailure(h)]
        /\ UNCHANGED <<lookup, attempts>>
        /\ host[h] = "resolving"
        /\ \A f \in Families : <<h, f>> \notin Reachable
    BY <1>5 DEF ResolveFails, Polled
  <2>2. host'[h] = AfterFailure(h)
    BY <1>2, <1>3, <2>1
  <2>3. Earned(h)'
    BY <1>1, <1>4, <2>1, <2>2 DEF Earned
  <2> QED
    BY <1>1, <1>3, <2>1, <2>3, OneHost
<1>6. CASE \E families \in SUBSET Families : Resolve(h, families)
  <2>1. PICK families \in SUBSET Families : Resolve(h, families)
    BY <1>6
  <2> DEFINE outcomes == [f \in Families |->
                            IF f \in families THEN "running" ELSE "failed"]
  <2>2. outcomes \in [Families -> Outcomes] /\ "asking" \in States
    BY DEF Outcomes, States
  <2>3. /\ host' = [host EXCEPT ![h] = "asking"]
        /\ lookup' = [lookup EXCEPT ![h] = outcomes]
        /\ UNCHANGED attempts
        /\ \A f \in Families : <<h, f>> \in Reachable => f \in families
    BY <2>1 DEF Resolve
  <2>4. host'[h] = "asking" /\ lookup'[h] = outcomes
    BY <1>2, <2>2, <2>3 DEF IInv, Typed
  <2>5. Earned(h)'
    BY <2>3, <2>4 DEF Earned
  <2> HIDE DEF outcomes
  <2> QED
    BY <1>1, <2>2, <2>3, <2>5, OneHost
<1>7. CASE \E f \in Families : LookupEnds(h, f)
  <2>1. PICK f \in Families : LookupEnds(h, f)
    BY <1>7
  <2>2. PICK outcome \in {"ok", "failed"} :
          /\ <<h, f>> \in Reachable => outcome = "ok"
          /\ lookup' = [lookup EXCEPT ![h][f] = outcome]
    BY <2>1 DEF LookupEnds
  <2>3. UNCHANGED <<host, attempts>> /\ host[h] = "asking"
    BY <2>1 DEF LookupEnds, Polled
  <2> DEFINE outcomes == [lookup[h] EXCEPT ![f] = outcome]
  <2>4. outcomes \in [Families -> Outcomes]
    BY <1>1, <2>2 DEF Outcomes
  <2>5. lookup' = [lookup EXCEPT ![h] = outcomes] /\ lookup'[h] = outcomes
    BY <2>2 DEF IInv, Typed
  <2>6. \A g \in Families :
          outcomes[g] = IF g = f THEN outcome ELSE lookup[h][g]
    BY <1>1
  <2>7. Earned(h)'
    BY <1>1, <2>2, <2>3, <2>5, <2>6 DEF Earned
  <2> HIDE DEF outcomes
  <2> QED
    BY <1>1, <2>3, <2>4, <2>5, <2>7, OneHost
<1>8. CASE Join(h)
  <2> DEFINE state == IF EitherOk(h) THEN "ok" ELSE AfterFailure(h)
  <2>1. /\ host' = [host EXCEPT ![h] = state]
        /\ UNCHANGED <<lookup, attempts>>
        /\ host[h] = "asking"
        /\ \A f \in Families : lookup[h][f] # "running"
    BY <1>8 DEF Join, Polled
  <2>2. state \in States /\ host'[h] = state
    BY <1>2, <1>3, <2>1 DEF States
  <2>3. CASE EitherOk(h)
    <3>1. Earned(h)'
      BY <2>2, <2>3 DEF Earned
    <3> HIDE DEF state
    <3> QED
      BY <1>1, <2>1, <2>2, <3>1, OneHost
  <2>4. CASE ~EitherOk(h)
    <3>1. \A f \in Families : lookup[h][f] # "ok" /\ <<h, f>> \notin Reachable
      BY <1>1, <2>1, <2>4 DEF Earned, EitherOk
    <3>2. Earned(h)'
      BY <1>4, <2>1, <2>2, <2>4, <3>1 DEF Earned
    <3> HIDE DEF state
    <3> QED
      BY <1>1, <2>1, <2>2, <3>2, OneHost
  <2> QED
    BY <2>3, <2>4
<1>9. CASE Retry(h)
  <2>1. /\ host' = [host EXCEPT ![h] = "resolving"]
        /\ lookup' = [lookup EXCEPT ![h] = NoLookup]
        /\ attempts' = [attempts EXCEPT ![h] = attempts[h] + 1]
        /\ host[h] = "pausing"
    BY <1>9 DEF Retry, Polled
  <2>2. /\ NoLookup \in [Families -> Outcomes] /\ "resolving" \in States
        /\ attempts[h] + 1 \in 1 .. MaxAttempts
    BY <1>1, <2>1, LifecycleAssumption DEF NoLookup, Outcomes, States, Earned
  <2>3. host'[h] = "resolving" /\ lookup'[h] = NoLookup
    BY <1>2, <2>1, <2>2 DEF IInv, Typed
  <2>4. Earned(h)'
    BY <2>3 DEF Earned, NoLookup
  <2> QED
    BY <1>1, <2>1, <2>2, <2>4, OneHost
<1> QED
  BY <1>5, <1>6, <1>7, <1>8, <1>9 DEF HostStep

LEMMA NextKeeps == IInv /\ [Next]_vars => IInv'
<1> SUFFICES ASSUME IInv, [Next]_vars
             PROVE  IInv'
  OBVIOUS
<1>1. ASSUME NEW h \in Hosts, HostStep(h)
      PROVE  IInv'
  BY <1>1, HostStepKeeps
<1>2. CASE BootstrapReturns
  <2>1. /\ UNCHANGED <<list, host, lookup, attempts>>
        /\ worker' = "bootstrap_failed" => \A h \in list : host[h] = "failed"
    BY <1>2 DEF BootstrapReturns, Running, Through, Successes
  <2> QED
    BY <2>1 DEF IInv, Typed, Earned
<1>3. CASE FramerEnds \/ Cancelled \/ UNCHANGED vars
  BY <1>3 DEF FramerEnds, Cancelled, Running, vars, IInv, Typed, Earned
<1> QED
  BY <1>1, <1>2, <1>3 DEF Next

-----------------------------------------------------------------------------
\* bootstrapping() lets the worker go only when no host of the list, tried to
\* the end, had a success in either family.
THEOREM NoneWasLeft == Spec => []GivesUpOnlyWithoutAnyone
<1>1. IInv => GivesUpOnlyWithoutAnyone
  BY DEF IInv, Earned, GivesUpOnlyWithoutAnyone
<1> QED
  BY <1>1, InitIInv, NextKeeps, PTL DEF Spec

-----------------------------------------------------------------------------
(***************************************************************************)
(* A host only ever goes on, never back.                                   *)
(***************************************************************************)

\* How far an attempt has come.
Rank(state) ==
    IF state = "resolving" THEN 0
    ELSE IF state = "asking" THEN 1
    ELSE IF state = "pausing" THEN 2
    ELSE 3

Asked(h) == {f \in Families : lookup[h][f] = "running"}

GoesOn(h) ==
    \/ attempts'[h] = attempts[h] + 1
    \/ attempts'[h] = attempts[h] /\ Rank(host'[h]) > Rank(host[h])
    \/ /\ attempts'[h] = attempts[h] /\ host'[h] = host[h]
       /\ \E f \in Asked(h) : Asked(h)' = Asked(h) \ {f}

Rests(h) ==
    host'[h] = host[h] /\ lookup'[h] = lookup[h] /\ attempts'[h] = attempts[h]

\* The step of one host; the others rest.
LEMMA HostStepGoesOn ==
    ASSUME IInv, NEW h \in Hosts, HostStep(h)
    PROVE  GoesOn(h) /\ (\A g \in Hosts \ {h} : Rests(g)) /\ Running
<1>1. /\ host \in [Hosts -> States] /\ attempts \in [Hosts -> 1 .. MaxAttempts]
      /\ lookup \in [Hosts -> [Families -> Outcomes]]
  BY DEF IInv, Typed
<1>2. Running
  BY DEF HostStep, ResolveFails, Resolve, LookupEnds, Join, Retry, Polled
<1>3. \A g \in Hosts \ {h} : Rests(g)
  BY <1>1 DEF HostStep, ResolveFails, Resolve, LookupEnds, Join, Retry, Rests
<1>4. Rank(AfterFailure(h)) \in {2, 3}
  BY DEF AfterFailure, Rank
<1>5. CASE ResolveFails(h)
  <2>1. host[h] = "resolving" /\ host'[h] = AfterFailure(h)
        /\ attempts'[h] = attempts[h]
    BY <1>1, <1>5 DEF ResolveFails, Polled
  <2>2. Rank(host[h]) = 0 /\ Rank(host'[h]) \in {2, 3}
    BY <1>4, <2>1 DEF Rank
  <2> QED
    BY <1>2, <1>3, <2>1, <2>2 DEF GoesOn
<1>6. CASE \E families \in SUBSET Families : Resolve(h, families)
  <2>1. host[h] = "resolving" /\ host'[h] = "asking"
        /\ attempts'[h] = attempts[h]
    BY <1>1, <1>6 DEF Resolve, Polled
  <2>2. Rank(host[h]) = 0 /\ Rank(host'[h]) = 1
    BY <2>1 DEF Rank
  <2> QED
    BY <1>2, <1>3, <2>1, <2>2 DEF GoesOn
<1>7. CASE \E f \in Families : LookupEnds(h, f)
  <2>1. PICK f \in Families, outcome \in {"ok", "failed"} :
          /\ lookup[h][f] = "running"
          /\ lookup' = [lookup EXCEPT ![h][f] = outcome]
          /\ UNCHANGED <<host, attempts>>
    BY <1>7 DEF LookupEnds
  <2>2. \A g \in Families :
          lookup'[h][g] = IF g = f THEN outcome ELSE lookup[h][g]
    BY <1>1, <2>1
  <2>3. f \in Asked(h) /\ Asked(h)' = Asked(h) \ {f}
    BY <2>1, <2>2 DEF Asked
  <2> QED
    BY <1>2, <1>3, <2>1, <2>3 DEF GoesOn
<1>8. CASE Join(h)
  <2>1. host[h] = "asking" /\ attempts'[h] = attempts[h]
        /\ host'[h] = IF EitherOk(h) THEN "ok" ELSE AfterFailure(h)
    BY <1>1, <1>8 DEF Join, Polled
  <2>2. Rank(host[h]) = 1 /\ Rank(host'[h]) \in {2, 3}
    BY <1>4, <2>1 DEF Rank
  <2> QED
    BY <1>2, <1>3, <2>1, <2>2 DEF GoesOn
<1>9. CASE Retry(h)
  BY <1>1, <1>2, <1>3, <1>9 DEF Retry, GoesOn
<1> QED
  BY <1>5, <1>6, <1>7, <1>8, <1>9 DEF HostStep

\* However hosts fail, each step of one begins its next attempt, of which
\* there are at most MaxAttempts, goes on in the one under way, or ends one of
\* its lookups: no bootstrap goes round for ever, and after the end of the
\* worker nothing moves.
THEOREM HostsOnlyGoOn ==
    Spec => [][/\ Running
               /\ \A h \in Hosts :
                    Rests(h) \/ (GoesOn(h) /\ attempts'[h] <= MaxAttempts)]_vars
<1>1. ASSUME IInv, IInv', [Next]_vars
      PROVE  [/\ Running
              /\ \A h \in Hosts :
                   Rests(h) \/ (GoesOn(h) /\ attempts'[h] <= MaxAttempts)]_vars
  <2>1. \A h \in Hosts : attempts'[h] <= MaxAttempts
    BY <1>1, LifecycleAssumption DEF IInv, Typed
  <2>2. ASSUME NEW h \in Hosts, HostStep(h)
        PROVE  /\ Running
               /\ \A g \in Hosts :
                    Rests(g) \/ (GoesOn(g) /\ attempts'[g] <= MaxAttempts)
    BY <1>1, <2>1, <2>2, HostStepGoesOn
  <2>3. CASE BootstrapReturns \/ FramerEnds \/ Cancelled
    BY <2>3 DEF BootstrapReturns, FramerEnds, Cancelled, Rests
  <2> QED
    BY <1>1, <2>2, <2>3 DEF Next
<1> QED
  BY <1>1, InitIInv, NextKeeps, PTL DEF Spec
=============================================================================
