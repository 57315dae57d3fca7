------------------------- MODULE EndpointRegistry -------------------------
(***************************************************************************)
(* The client's endpoint registry (src/providers/endpoint-registry.ts):    *)
(* which endpoints may serve a model, in which order they are tried, how   *)
(* failures take one out of rotation, and how many requests each of them   *)
(* is serving.  Every method of the class is synchronous, so each is an    *)
(* operator here and part of one step of a caller; module Failover is the  *)
(* caller.                                                                 *)
(*                                                                         *)
(* The registry sorts arrays.  Here a candidate list is a set together     *)
(* with the strict order the sort imposes on it (Precedes): Orderings(S)   *)
(* holds the one sequence of S that respects that order.                   *)
(***************************************************************************)
EXTENDS Integers, Sequences, FiniteSets

CONSTANTS
    Endpoints,         \* the configured endpoints
    Position,          \* their registration order, the tie-break of every sort
    Priority,          \* OllamaEndpoint.priority
    Models,            \* the models requests ask for
    Serves,            \* OllamaEndpoint.models; every model when it is unset
    FailureThreshold,  \* options.failureThreshold
    Cooldown,          \* options.cooldownMs, in ticks of the clock
    Strategy,          \* options.strategy
    RoundRobinModulus, \* where the call counter wraps
    Cap,               \* options.maxConcurrentPerEndpoint, or NoCap
    NoCap,
    NoModel,           \* stands for no model in a request
    Requests           \* the requests that may wait for capacity

ASSUME EndpointsAssumption == IsFiniteSet(Endpoints) /\ Endpoints # {}
ASSUME PositionAssumption ==
    /\ Position \in [Endpoints -> Nat]
    /\ \A d, e \in Endpoints : Position[d] = Position[e] => d = e
ASSUME PriorityAssumption == Priority \in [Endpoints -> Int]
ASSUME ModelsAssumption ==
    /\ Serves \in [Endpoints -> SUBSET Models]
    /\ NoModel \notin Models
ASSUME HealthAssumption ==
    /\ FailureThreshold \in Nat \ {0}
    /\ Cooldown \in Nat \ {0}
ASSUME StrategyAssumption ==
    Strategy \in {"priority", "round-robin", "least-connections"}
ASSUME ModulusAssumption ==
    /\ RoundRobinModulus \in Nat \ {0}
    /\ \A n \in 1 .. Cardinality(Endpoints) : RoundRobinModulus % n = 0
ASSUME CapAssumption == Cap = NoCap \/ Cap \in Nat \ {0}
ASSUME RequestsAssumption == IsFiniteSet(Requests)

VARIABLES
    failureCounts,     \* failures since the last success, at most FailureThreshold
    failureAge,        \* ticks since the last failure, at most Cooldown
    activeCounts,      \* requests in flight per endpoint
    roundRobinCounter, \* calls of candidates() under 'round-robin'
    waiters            \* the FIFO queue of requests waiting for capacity

registryVars ==
    <<failureCounts, failureAge, activeCounts, roundRobinCounter, waiters>>

-----------------------------------------------------------------------------
(* Definitions named X_... after a definition X are mutants of it: X as a  *)
(* plausible bug would have it.  Nothing refers to them; each shows that a *)
(* property checked of X can fail.                                         *)
(*                                                                         *)
(* The code counts failures and calls without a bound, and keeps the time  *)
(* of the last failure.  Only whether the count has reached the threshold, *)
(* the counter modulo the size of a group of equal endpoints, and the time *)
(* since the failure while it is below the cooldown are ever looked at, so *)
(* the counts saturate and the counter wraps at a common multiple of the   *)
(* group sizes without changing any decision.                              *)

AtMost(n, bound) == IF n <= bound THEN n ELSE bound

RegistryInit ==
    /\ failureCounts = [e \in Endpoints |-> 0]
    /\ failureAge = [e \in Endpoints |-> Cooldown]
    /\ activeCounts = [e \in Endpoints |-> 0]
    /\ roundRobinCounter = 0
    /\ waiters = <<>>

Waiter == [request : Requests, names : SUBSET Endpoints]

RegistryTypeOK ==
    /\ failureCounts \in [Endpoints -> 0 .. FailureThreshold]
    /\ failureAge \in [Endpoints -> 0 .. Cooldown]
    /\ activeCounts \in [Endpoints -> Nat]
    /\ roundRobinCounter \in Nat
    /\ waiters \in Seq(Waiter)

-----------------------------------------------------------------------------
(* Candidates and their order.                                             *)

IsCooling(e) ==
    /\ failureCounts[e] >= FailureThreshold
    /\ failureAge[e] < Cooldown

Scoped(model) ==
    IF model = NoModel THEN Endpoints
    ELSE {e \in Endpoints : model \in Serves[e]}

Healthy(model) == {e \in Scoped(model) : ~IsCooling(e)}

\* Mutant: the cooldown is ignored.
Candidates_IgnoringHealth(model) == Scoped(model)

\* Mutant: failing open forgets the allow-lists.
Candidates_FailingOpenToAll(model) ==
    IF Healthy(model) # {} THEN Healthy(model) ELSE Endpoints

Candidates(model) ==
    IF Healthy(model) # {} THEN Healthy(model) ELSE Scoped(model)

Tier(e, S) == {d \in S : Priority[d] = Priority[e]}

\* The place of e in its group of equal priority once the group is rotated.
RotatedPlace(e, S) ==
    LET place == Cardinality({d \in Tier(e, S) : Position[d] < Position[e]})
        size  == Cardinality(Tier(e, S))
    IN  (place + size - (roundRobinCounter % size)) % size

\* What the strategy compares inside a group; equal weights keep their order.
Weight(e, S) ==
    CASE Strategy = "priority"          -> 0
      [] Strategy = "round-robin"       -> RotatedPlace(e, S)
      [] Strategy = "least-connections" -> activeCounts[e]

ByStrategy(d, e, S) ==
    \/ Priority[d] > Priority[e]
    \/ /\ Priority[d] = Priority[e]
       /\ \/ Weight(d, S) < Weight(e, S)
          \/ Weight(d, S) = Weight(e, S) /\ Position[d] < Position[e]

BySoonestRecovery(d, e) ==
    \/ failureAge[d] > failureAge[e]
    \/ failureAge[d] = failureAge[e] /\ Position[d] < Position[e]

Precedes(d, e, model) ==
    IF Healthy(model) # {} THEN ByStrategy(d, e, Healthy(model))
    ELSE BySoonestRecovery(d, e)

Orderings(S, model) ==
    {s \in [1 .. Cardinality(S) -> S] :
        \A i, j \in DOMAIN s : i < j => Precedes(s[i], s[j], model)}

\* candidates() moves the rotation on, whenever some endpoint is healthy.
NextRotation(model) ==
    IF Strategy = "round-robin" /\ Healthy(model) # {}
    THEN (roundRobinCounter + 1) % RoundRobinModulus
    ELSE roundRobinCounter

-----------------------------------------------------------------------------
(* Capacity.                                                               *)

\* Mutant: one request too many.
HasCapacity_OffByOne(e) == Cap = NoCap \/ activeCounts[e] <= Cap

HasCapacity(e) == Cap = NoCap \/ activeCounts[e] < Cap

Acquired(counts, e) == [counts EXCEPT ![e] = @ + 1]

Released(counts, e) == [counts EXCEPT ![e] = IF @ > 1 THEN @ - 1 ELSE 0]

\* The waiter release(e) takes out of the queue: the first that names e.
FirstWaiterFor(e) ==
    {i \in DOMAIN waiters :
        /\ e \in waiters[i].names
        /\ \A j \in DOMAIN waiters : e \in waiters[j].names => i <= j}

Woken(e) == {waiters[i].request : i \in FirstWaiterFor(e)}

\* Mutant: a waiter that leaves stays in the queue.
LeaveQueue_Staying(leaving) == waiters' = waiters

\* The listing of a set of indices in ascending order.
InOrder(K) ==
    {f \in [1 .. Cardinality(K) -> K] :
        /\ \A i, j \in DOMAIN f : i < j => f[i] < f[j]
        /\ \A k \in K : \E i \in DOMAIN f : f[i] = k}

\* The requests in leaving are spliced out of the queue.
LeaveQueue(leaving) ==
    \E f \in InOrder({i \in DOMAIN waiters : waiters[i].request \notin leaving}) :
        waiters' = [i \in DOMAIN f |-> waiters[f[i]]]

-----------------------------------------------------------------------------
(* Health.                                                                 *)

ReportSuccess(e) ==
    /\ failureCounts' = [failureCounts EXCEPT ![e] = 0]
    /\ failureAge' = [failureAge EXCEPT ![e] = Cooldown]

ReportFailure(e) ==
    /\ failureCounts' = [failureCounts EXCEPT ![e] = AtMost(@ + 1, FailureThreshold)]
    /\ failureAge' = [failureAge EXCEPT ![e] = 0]

\* The clock the options inject; a tick is the unit Cooldown is given in.
Tick ==
    /\ \E e \in Endpoints : failureAge[e] < Cooldown
    /\ failureAge' = [e \in Endpoints |-> AtMost(failureAge[e] + 1, Cooldown)]
    /\ UNCHANGED <<failureCounts, activeCounts, roundRobinCounter, waiters>>
=============================================================================
