--------------------------- MODULE FailoverProofs ---------------------------
(***************************************************************************)
(* Proofs about Failover for every set of endpoints and requests, every    *)
(* cap, strategy, allow-list and failover configuration.                   *)
(*                                                                         *)
(* Slot accounting is not inductive alone: a step that wakes a waiter sets *)
(* that request's pc, so the waiters must be known to hold no slot.  The   *)
(* inductive invariant is therefore TypeOK, SlotsAreHeld and               *)
(* QueueHoldsTheWaiting together.                                          *)
(*                                                                         *)
(* What executeWithFailover promises the callers (what destroy() can       *)
(* reach, where an operation may end up, when the circuit breaker fails    *)
(* open, and that every step is one SlotPool allows) rests on it, and on   *)
(* one lemma, StepShapes, that says what a step does to the requests: it   *)
(* dispatches one, hands a stream over, fails one over, lets one leave, or *)
(* moves no slot at all.                                                   *)
(***************************************************************************)
EXTENDS Failover, FiniteSetTheorems, TLAPS

USE EndpointsAssumption, HealthAssumption, RequestsAssumption, ModulusAssumption,
    KindsAssumption, NoEndpointAssumption

Queued == {waiters[i].request : i \in DOMAIN waiters}

-----------------------------------------------------------------------------
(* The queue.                                                              *)

LEMMA AppendQueues ==
    ASSUME TypeOK, QueueHoldsTheWaiting,
           NEW r \in Requests, pc[r] # "waiting", NEW N \in SUBSET Endpoints,
           waiters' = Append(waiters, [request |-> r, names |-> N])
    PROVE  /\ waiters' \in Seq(Waiter)
           /\ Queued' = Queued \cup {r}
           /\ \A i, j \in DOMAIN waiters' :
                waiters'[i].request = waiters'[j].request => i = j
<1> DEFINE w == [request |-> r, names |-> N]
<1>1. w \in Waiter
  BY DEF Waiter
<1>2. waiters \in Seq(Waiter)
  BY DEF TypeOK, RegistryTypeOK
<1>3. /\ waiters' \in Seq(Waiter)
      /\ Len(waiters') = Len(waiters) + 1
      /\ \A i \in 1 .. Len(waiters) : waiters'[i] = waiters[i]
      /\ waiters'[Len(waiters) + 1] = w
  BY <1>1, <1>2
<1>4. DOMAIN waiters = 1 .. Len(waiters) /\ DOMAIN waiters' = 1 .. Len(waiters')
  BY <1>2, <1>3
<1>5. Len(waiters) \in Nat
  BY <1>2
<1>6. Queued' = Queued \cup {r}
  BY <1>3, <1>4, <1>5 DEF Queued
<1>7. \A i \in DOMAIN waiters : waiters[i].request # r
  BY DEF QueueHoldsTheWaiting
<1>8. \A i, j \in DOMAIN waiters' :
        waiters'[i].request = waiters'[j].request => i = j
  BY <1>3, <1>4, <1>5, <1>7 DEF QueueHoldsTheWaiting
<1> QED
  BY <1>3, <1>6, <1>8

LEMMA LeaveQueueQueues ==
    ASSUME TypeOK, QueueHoldsTheWaiting, NEW L \in SUBSET Requests, LeaveQueue(L)
    PROVE  /\ waiters' \in Seq(Waiter)
           /\ Queued' = Queued \ L
           /\ \A i, j \in DOMAIN waiters' :
                waiters'[i].request = waiters'[j].request => i = j
<1> DEFINE K == {i \in DOMAIN waiters : waiters[i].request \notin L}
           n == Cardinality(K)
<1>1. waiters \in Seq(Waiter) /\ DOMAIN waiters = 1 .. Len(waiters) /\ Len(waiters) \in Nat
  BY DEF TypeOK, RegistryTypeOK
<1>2. IsFiniteSet(K) /\ n \in Nat
  <2>1. K \subseteq 1 .. Len(waiters)
    BY <1>1
  <2>2. IsFiniteSet(1 .. Len(waiters))
    BY <1>1, FS_Interval
  <2>3. IsFiniteSet(K)
    <3> HIDE DEF K, n
    <3> QED BY <2>1, <2>2, FS_Subset
  <2>4. Cardinality(K) \in Nat
    <3> HIDE DEF K, n
    <3> QED BY <2>3, FS_CardinalityType
  <2> QED
    BY <2>3, <2>4
<1>3. PICK f \in InOrder(K) : waiters' = [i \in DOMAIN f |-> waiters[f[i]]]
  BY DEF LeaveQueue
<1> HIDE DEF K, n
<1>4. /\ f \in [1 .. n -> K]
      /\ \A i, j \in 1 .. n : i < j => f[i] < f[j]
      /\ \A k \in K : \E i \in 1 .. n : f[i] = k
  BY <1>3 DEF InOrder, n
<1>5. \A i \in 1 .. n : f[i] \in 1 .. Len(waiters)
  BY <1>1, <1>4 DEF K
<1>6. waiters' = [i \in 1 .. n |-> waiters[f[i]]]
  BY <1>3, <1>4
<1>7. \A i \in 1 .. n : waiters[f[i]] \in Waiter
  BY <1>1, <1>4, <1>5
<1>8. waiters' \in Seq(Waiter) /\ DOMAIN waiters' = 1 .. n
  BY <1>2, <1>6, <1>7
<1>9. Queued' = Queued \ L
  <2>1. Queued' = {waiters[f[i]].request : i \in 1 .. n}
    BY <1>6, <1>8 DEF Queued
  <2>2. @ = {waiters[k].request : k \in K}
    BY <1>4
  <2>3. @ = Queued \ L
    BY DEF K, Queued
  <2> QED
    BY <2>1, <2>2, <2>3
<1>10. ASSUME NEW i \in 1 .. n, NEW j \in 1 .. n,
              waiters'[i].request = waiters'[j].request
       PROVE  i = j
  <2>1. waiters[f[i]].request = waiters[f[j]].request
    BY <1>6, <1>10
  <2>2. f[i] = f[j]
    BY <2>1, <1>1, <1>4, <1>5 DEF QueueHoldsTheWaiting
  <2>3. f[i] \in Int /\ f[j] \in Int /\ n \in Nat
    BY <1>2, <1>4, <1>5
  <2> QED
    BY <2>2, <2>3, <1>4
<1> QED
  BY <1>8, <1>9, <1>10

-----------------------------------------------------------------------------
(* The slots.                                                              *)

\* Only a request in flight holds a slot, and it is a slot of an endpoint.
HoldsAnEndpoint ==
    \A r \in Requests : pc[r] \in Holding => endpoint[r] \in Endpoints

IInv ==
    /\ TypeOK
    /\ HoldsAnEndpoint
    /\ SlotsAreHeld
    /\ QueueHoldsTheWaiting

LEMMA CountTypes ==
    ASSUME NEW counts \in [Endpoints -> Nat], NEW e \in Endpoints
    PROVE  /\ Acquired(counts, e) \in [Endpoints -> Nat]
           /\ Released(counts, e) \in [Endpoints -> Nat]
<1>1. counts[e] + 1 \in Nat
  OBVIOUS
<1>2. (IF counts[e] > 1 THEN counts[e] - 1 ELSE 0) \in Nat
  OBVIOUS
<1> QED
  BY <1>1, <1>2 DEF Acquired, Released

LEMMA HoldersAreFinite ==
    ASSUME NEW e
    PROVE  IsFiniteSet(Holders(e)) /\ Cardinality(Holders(e)) \in Nat
<1>1. Holders(e) \subseteq Requests
  BY DEF Holders
<1>2. IsFiniteSet(Holders(e))
  BY <1>1, FS_Subset
<1> QED
  BY <1>2, FS_CardinalityType

\* A request takes a slot of e.
LEMMA TakingASlot ==
    ASSUME TypeOK, SlotsAreHeld, NEW r \in Requests, NEW e \in Endpoints,
           r \notin Holders(e),
           activeCounts' = Acquired(activeCounts, e),
           \A x \in Endpoints :
               Holders(x)' = IF x = e THEN Holders(x) \cup {r} ELSE Holders(x)
    PROVE  SlotsAreHeld'
<1> SUFFICES ASSUME NEW x \in Endpoints
             PROVE  activeCounts'[x] = Cardinality(Holders(x)')
  BY DEF SlotsAreHeld
<1>1. /\ activeCounts[x] = Cardinality(Holders(x))
      /\ activeCounts'[x] = IF x = e THEN activeCounts[x] + 1 ELSE activeCounts[x]
  BY DEF SlotsAreHeld, Acquired, TypeOK, RegistryTypeOK
<1>2. CASE x = e
  <2>1. Cardinality(Holders(e) \cup {r}) = Cardinality(Holders(e)) + 1
    BY HoldersAreFinite, FS_AddElement
  <2> QED
    BY <1>1, <1>2, <2>1
<1>3. CASE x # e
  BY <1>1, <1>3
<1> QED
  BY <1>2, <1>3

\* The holder of a slot of e gives it back.
LEMMA GivingASlotBack ==
    ASSUME TypeOK, SlotsAreHeld, NEW e \in Endpoints, NEW r \in Holders(e),
           activeCounts' = Released(activeCounts, e),
           \A x \in Endpoints :
               Holders(x)' = IF x = e THEN Holders(x) \ {r} ELSE Holders(x)
    PROVE  SlotsAreHeld'
<1> SUFFICES ASSUME NEW x \in Endpoints
             PROVE  activeCounts'[x] = Cardinality(Holders(x)')
  BY DEF SlotsAreHeld
<1>1. /\ activeCounts[x] = Cardinality(Holders(x))
      /\ activeCounts'[x] = IF x = e
                            THEN IF activeCounts[e] > 1 THEN activeCounts[e] - 1 ELSE 0
                            ELSE activeCounts[x]
  BY DEF SlotsAreHeld, Released, TypeOK, RegistryTypeOK
<1>2. CASE x = e
  <2>1. Cardinality(Holders(e) \ {r}) = Cardinality(Holders(e)) - 1
    BY HoldersAreFinite, FS_RemoveElement
  <2>2. Cardinality(Holders(e)) \in Nat /\ Cardinality(Holders(e) \ {r}) \in Nat
    <3>1. IsFiniteSet(Holders(e) \ {r})
      BY HoldersAreFinite, FS_RemoveElement
    <3> QED
      BY <3>1, HoldersAreFinite, FS_CardinalityType
  <2>3. Holders(x)' = Holders(e) \ {r}
    BY <1>2
  <2>4. activeCounts'[x] = Cardinality(Holders(e)) - 1
    BY <1>1, <1>2, <2>1, <2>2
  <2> QED
    BY <2>1, <2>3, <2>4
<1>3. CASE x # e
  BY <1>1, <1>3
<1> QED
  BY <1>2, <1>3

\* The holder of a slot of e exchanges it for one of n.
LEMMA MovingToTheNext ==
    ASSUME TypeOK, SlotsAreHeld, NEW e \in Endpoints, NEW n \in Endpoints,
           NEW r \in Holders(e),
           \A x \in Endpoints : x # e => r \notin Holders(x),
           activeCounts' = Acquired(Released(activeCounts, e), n),
           \A x \in Endpoints :
               Holders(x)' = IF x = n THEN Holders(x) \cup {r} ELSE Holders(x) \ {r}
    PROVE  SlotsAreHeld'
<1> SUFFICES ASSUME NEW x \in Endpoints
             PROVE  activeCounts'[x] = Cardinality(Holders(x)')
  BY DEF SlotsAreHeld
<1> DEFINE c == Cardinality(Holders(x))
<1>1. c \in Nat /\ activeCounts[x] = c /\ activeCounts \in [Endpoints -> Nat]
  BY HoldersAreFinite DEF SlotsAreHeld, TypeOK, RegistryTypeOK
<1>2. activeCounts'[x] =
        (IF x = e THEN IF c > 1 THEN c - 1 ELSE 0 ELSE c) + (IF x = n THEN 1 ELSE 0)
  BY <1>1 DEF Acquired, Released
<1>3. CASE x = e /\ x = n
  <2>1. Holders(x)' = Holders(x)
    BY <1>3
  <2>2. c # 0
    BY <1>3, HoldersAreFinite, FS_EmptySet
  <2>3. activeCounts'[x] = c
    BY <1>1, <1>2, <1>3, <2>2
  <2> QED
    BY <2>1, <2>3
<1>4. CASE x = e /\ x # n
  <2>1. Cardinality(Holders(x) \ {r}) = c - 1
    BY <1>4, HoldersAreFinite, FS_RemoveElement
  <2>2. c # 0
    BY <1>4, HoldersAreFinite, FS_EmptySet
  <2>3. activeCounts'[x] = c - 1
    BY <1>1, <1>2, <1>4, <2>2
  <2>4. Holders(x)' = Holders(x) \ {r}
    BY <1>4
  <2> QED
    BY <2>1, <2>3, <2>4
<1>5. CASE x # e /\ x = n
  <2>1. Cardinality(Holders(x) \cup {r}) = c + 1
    BY <1>5, HoldersAreFinite, FS_AddElement
  <2> QED
    BY <1>1, <1>2, <1>5, <2>1
<1>6. CASE x # e /\ x # n
  <2>1. Holders(x)' = Holders(x)
    BY <1>6
  <2>2. activeCounts'[x] = c
    BY <1>1, <1>2, <1>6
  <2> QED
    BY <2>1, <2>2
<1> QED
  BY <1>3, <1>4, <1>5, <1>6

LEMMA OrderingsAreSequences ==
    ASSUME NEW S \in SUBSET Endpoints, NEW m, NEW s \in Orderings(S, m)
    PROVE  /\ s \in Seq(S)
           /\ S # {} => s # <<>> /\ s[1] \in S /\ Tail(s) \in Seq(S)
           /\ \A i \in DOMAIN s : s[i] \in S
<1>1. IsFiniteSet(S) /\ Cardinality(S) \in Nat
  BY FS_Subset, FS_CardinalityType
<1>2. s \in [1 .. Cardinality(S) -> S]
  BY DEF Orderings
<1>3. s \in Seq(S) /\ Len(s) = Cardinality(S)
  BY <1>1, <1>2
<1>4. S # {} => Cardinality(S) # 0
  BY <1>1, FS_EmptySet
<1> QED
  BY <1>1, <1>2, <1>3, <1>4

-----------------------------------------------------------------------------
(* One lemma per step of a request.                                        *)

LEMMA WokenWait ==
    ASSUME IInv, NEW e
    PROVE  /\ Woken(e) \in SUBSET Requests
           /\ \A w \in Woken(e) : pc[w] = "waiting"
<1>1. \A w \in Woken(e) : w \in Queued
  BY DEF Woken, FirstWaiterFor, Queued
<1> QED
  BY <1>1 DEF IInv, QueueHoldsTheWaiting, Queued

\* An iteration of the loop keeps the invariant, whatever else the step that
\* contains it does to signals and scopes.
LEMMA IterateKeepsIInv ==
    ASSUME IInv, NEW r \in Requests, pc[r] \in {"idle", "choosing"},
           NEW sig \in {"live", "timeout", "aborted"}, Iterate(r, sig),
           signal' \in [Requests -> {"live", "timeout", "aborted"}],
           activeRequests' \subseteq Requests
    PROVE  IInv'
<1> DEFINE model == options[r].model
<1>1. PICK ordered \in Orderings(Candidates(model), model),
           considered \in SUBSET Candidates(model) :
        \/ FindsNoEndpoint(r, considered)
        \/ Queues(r, considered, sig)
        \/ Dispatches(r, considered, sig)
  <2>1. Candidates(model) \in SUBSET Endpoints
    BY DEF Candidates, Healthy, Scoped
  <2> QED
    BY <2>1, OrderingsAreSequences DEF Iterate
<1>2. considered \in SUBSET Endpoints
  BY <1>1 DEF Candidates, Healthy, Scoped
<1>3. /\ roundRobinCounter' = NextRotation(model)
      /\ UNCHANGED <<options, failureCounts, failureAge>>
  BY DEF Iterate
<1>4. roundRobinCounter' \in Nat
  BY <1>3 DEF NextRotation, IInv, TypeOK, RegistryTypeOK
<1>5. /\ failureCounts' \in [Endpoints -> 0 .. FailureThreshold]
      /\ failureAge' \in [Endpoints -> 0 .. Cooldown]
      /\ options' \in [Requests -> Kinds]
  BY <1>3 DEF IInv, TypeOK, RegistryTypeOK
<1>6. ASSUME NEW how \in Results, Settle(r, how)
      PROVE  IInv'
  <2>1. TypeOK'
    BY <1>4, <1>5, <1>6 DEF Settle, IInv, TypeOK, RegistryTypeOK
  <2>2. \A x \in Endpoints : Holders(x)' = Holders(x)
    BY <1>6 DEF Settle, Holders, Holding, IInv, TypeOK
  <2>3. HoldsAnEndpoint'
    BY <1>6 DEF Settle, HoldsAnEndpoint, Holding, IInv, TypeOK
  <2>4. SlotsAreHeld'
    BY <1>6, <2>2 DEF Settle, IInv, SlotsAreHeld
  <2>5. QueueHoldsTheWaiting'
    <3>1. {q \in Requests : pc'[q] = "waiting"} = {q \in Requests : pc[q] = "waiting"}
      BY <1>6 DEF Settle, IInv, TypeOK
    <3> QED
      BY <1>6, <3>1 DEF Settle, IInv, QueueHoldsTheWaiting
  <2> QED
    BY <2>1, <2>3, <2>4, <2>5 DEF IInv
<1>7. CASE Queues(r, considered, sig) /\ sig = "live"
  <2>1. /\ pc' = [pc EXCEPT ![r] = "waiting"]
        /\ waiters' = Append(waiters, [request |-> r, names |-> considered])
        /\ UNCHANGED <<endpoint, untried, attempt, sent, result, activeCounts>>
    BY <1>7 DEF Queues
  <2>2. /\ waiters' \in Seq(Waiter)
        /\ Queued' = Queued \cup {r}
        /\ \A i, j \in DOMAIN waiters' :
             waiters'[i].request = waiters'[j].request => i = j
    BY <1>2, <2>1, AppendQueues DEF IInv
  <2>3. TypeOK'
    BY <1>4, <1>5, <2>1, <2>2 DEF IInv, TypeOK, RegistryTypeOK, InFlight
  <2>4. \A x \in Endpoints : Holders(x)' = Holders(x)
    BY <2>1 DEF Holders, Holding, IInv, TypeOK
  <2>5. HoldsAnEndpoint'
    BY <2>1 DEF HoldsAnEndpoint, Holding, IInv, TypeOK
  <2>6. SlotsAreHeld'
    BY <2>1, <2>4 DEF IInv, SlotsAreHeld
  <2>7. QueueHoldsTheWaiting'
    <3>1. {q \in Requests : pc'[q] = "waiting"}
            = {q \in Requests : pc[q] = "waiting"} \cup {r}
      BY <2>1 DEF IInv, TypeOK
    <3> QED
      BY <2>2, <3>1 DEF IInv, QueueHoldsTheWaiting, Queued
  <2> QED
    BY <2>3, <2>5, <2>6, <2>7 DEF IInv
<1>8. CASE Dispatches(r, considered, sig)
  <2> DEFINE runnable == {e \in considered : HasCapacity(e)}
  <2>1. PICK chosen \in Orderings(runnable, model) :
          /\ endpoint' = [endpoint EXCEPT ![r] = chosen[1]]
          /\ untried' = [untried EXCEPT ![r] = Tail(chosen)]
          /\ activeCounts' = Acquired(activeCounts, chosen[1])
    BY <1>8 DEF Dispatches
  <2>2. /\ runnable # {}
        /\ attempt' = [attempt EXCEPT ![r] = 0]
        /\ sent' = [sent EXCEPT ![r] = (sig = "live")]
        /\ pc' = [pc EXCEPT ![r] = "running"]
        /\ UNCHANGED <<result, waiters>>
    BY <1>8 DEF Dispatches
  <2>3. runnable \in SUBSET Endpoints
    BY <1>2
  <2>4. chosen[1] \in Endpoints /\ Tail(chosen) \in Seq(Endpoints)
    <3> HIDE DEF runnable
    <3> QED
      BY <2>1, <2>2, <2>3, OrderingsAreSequences
  <2>5. activeCounts' \in [Endpoints -> Nat]
    <3>1. \A e \in Endpoints : Acquired(activeCounts, e) \in [Endpoints -> Nat]
      BY DEF Acquired, IInv, TypeOK, RegistryTypeOK
    <3> QED
      BY <2>1, <2>4, <3>1
  <2>6. TypeOK'
    BY <1>4, <1>5, <2>1, <2>2, <2>4, <2>5 DEF IInv, TypeOK, RegistryTypeOK, InFlight
  <2>7. \A x \in Endpoints :
          Holders(x)' = IF x = chosen[1] THEN Holders(x) \cup {r} ELSE Holders(x)
    BY <2>1, <2>2, <2>4 DEF Holders, Holding, IInv, TypeOK
  <2>8. r \notin Holders(chosen[1])
    BY DEF Holders, Holding
  <2>9. SlotsAreHeld'
    BY <2>1, <2>4, <2>7, <2>8, TakingASlot DEF IInv
  <2>10. HoldsAnEndpoint'
    BY <2>1, <2>2, <2>4 DEF HoldsAnEndpoint, IInv, TypeOK
  <2>11. QueueHoldsTheWaiting'
    <3>1. {q \in Requests : pc'[q] = "waiting"} = {q \in Requests : pc[q] = "waiting"}
      BY <2>2 DEF IInv, TypeOK
    <3> QED
      BY <2>2, <3>1 DEF IInv, QueueHoldsTheWaiting
  <2> QED
    BY <2>6, <2>9, <2>10, <2>11 DEF IInv
<1>9. CASE FindsNoEndpoint(r, considered)
  BY <1>6, <1>9 DEF FindsNoEndpoint, Results
<1>10. CASE Queues(r, considered, sig) /\ sig # "live"
  BY <1>6, <1>10 DEF Queues, Results, Codes
<1> QED
  BY <1>1, <1>7, <1>8, <1>9, <1>10

\* A request that holds a slot gives it back and settles.
LEMMA ReleaseKeepsIInv ==
    ASSUME IInv, NEW r \in Requests, pc[r] \in Holding, NEW how \in Results,
           ReleasesAndSettles(r, how),
           failureCounts' \in [Endpoints -> 0 .. FailureThreshold],
           failureAge' \in [Endpoints -> 0 .. Cooldown],
           UNCHANGED <<options, signal, roundRobinCounter>>
    PROVE  IInv'
<1> DEFINE e == endpoint[r]
           W == Woken(e)
<1>1. e \in Endpoints
  BY DEF IInv, HoldsAnEndpoint
<1>2. W \in SUBSET Requests /\ \A w \in W : pc[w] = "waiting"
  BY WokenWait
<1>3. /\ pc' = [q \in Requests |-> IF q \in W THEN "choosing"
                                   ELSE IF q = r THEN "settled" ELSE pc[q]]
      /\ result' = [result EXCEPT ![r] = how]
      /\ endpoint' = [endpoint EXCEPT ![r] = NoEndpoint]
      /\ untried' = [untried EXCEPT ![r] = <<>>]
      /\ attempt' = [attempt EXCEPT ![r] = 0]
      /\ sent' = [sent EXCEPT ![r] = FALSE]
      /\ activeCounts' = Released(activeCounts, e)
      /\ LeaveQueue(W)
      /\ activeRequests' = activeRequests \ {r}
  BY DEF ReleasesAndSettles, Wakes, IInv, TypeOK
<1> HIDE DEF W
<1>4. /\ waiters' \in Seq(Waiter)
      /\ Queued' = Queued \ W
      /\ \A i, j \in DOMAIN waiters' :
           waiters'[i].request = waiters'[j].request => i = j
  BY <1>2, <1>3, LeaveQueueQueues DEF IInv
<1>5. r \notin W
  BY <1>2 DEF Holding
<1>6. activeCounts' \in [Endpoints -> Nat]
  BY <1>1, <1>3, CountTypes DEF IInv, TypeOK, RegistryTypeOK
<1>7. TypeOK'
  <2>1. /\ pc' \in [Requests -> {"idle", "settled"} \cup InFlight]
        /\ result' \in [Requests -> Results]
    BY <1>3 DEF IInv, TypeOK, InFlight
  <2>2. /\ endpoint' \in [Requests -> Endpoints \cup {NoEndpoint}]
        /\ untried' \in [Requests -> Seq(Endpoints)]
        /\ attempt' \in [Requests -> Nat]
        /\ sent' \in [Requests -> BOOLEAN]
    BY <1>3 DEF IInv, TypeOK
  <2>3. RegistryTypeOK'
    BY <1>4, <1>6 DEF IInv, TypeOK, RegistryTypeOK
  <2> QED
    BY <1>3, <2>1, <2>2, <2>3 DEF IInv, TypeOK
<1>8. \A x \in Endpoints : Holders(x)' = IF x = e THEN Holders(x) \ {r} ELSE Holders(x)
  BY <1>1, <1>2, <1>3, <1>5 DEF Holders, Holding, IInv, TypeOK
<1>9. r \in Holders(e)
  BY DEF Holders
<1>10. SlotsAreHeld'
  BY <1>1, <1>3, <1>8, <1>9, GivingASlotBack DEF IInv
<1>11. HoldsAnEndpoint'
  BY <1>2, <1>3 DEF HoldsAnEndpoint, Holding, IInv, TypeOK
<1>12. QueueHoldsTheWaiting'
  <2>1. {q \in Requests : pc'[q] = "waiting"} = {q \in Requests : pc[q] = "waiting"} \ W
    BY <1>3, <1>5 DEF Holding
  <2> QED
    BY <1>4, <2>1 DEF IInv, QueueHoldsTheWaiting, Queued
<1> QED
  BY <1>7, <1>10, <1>11, <1>12 DEF IInv

LEMMA HealthTypes ==
    ASSUME IInv, NEW e \in Endpoints
    PROVE  /\ ReportSuccess(e) =>
                /\ failureCounts' \in [Endpoints -> 0 .. FailureThreshold]
                /\ failureAge' \in [Endpoints -> 0 .. Cooldown]
           /\ ReportFailure(e) =>
                /\ failureCounts' \in [Endpoints -> 0 .. FailureThreshold]
                /\ failureAge' \in [Endpoints -> 0 .. Cooldown]
<1>1. /\ failureCounts \in [Endpoints -> 0 .. FailureThreshold]
      /\ failureAge \in [Endpoints -> 0 .. Cooldown]
  BY DEF IInv, TypeOK, RegistryTypeOK
<1>2. 0 \in 0 .. FailureThreshold /\ 0 \in 0 .. Cooldown /\ Cooldown \in 0 .. Cooldown
  OBVIOUS
<1>3. AtMost(failureCounts[e] + 1, FailureThreshold) \in 0 .. FailureThreshold
  BY <1>1 DEF AtMost
<1> QED
  BY <1>1, <1>2, <1>3 DEF ReportSuccess, ReportFailure

LEMMA SuccessKeepsIInv ==
    ASSUME IInv, NEW r \in Requests, AttemptSucceeds(r)
    PROVE  IInv'
<1>1. endpoint[r] \in Endpoints /\ pc[r] = "running"
  BY DEF AttemptSucceeds, IInv, HoldsAnEndpoint, Holding
<1>2. /\ failureCounts' \in [Endpoints -> 0 .. FailureThreshold]
      /\ failureAge' \in [Endpoints -> 0 .. Cooldown]
      /\ UNCHANGED <<options, signal, roundRobinCounter>>
  BY <1>1, HealthTypes DEF AttemptSucceeds
<1>3. CASE ReleasesAndSettles(r, "ok")
  BY <1>1, <1>2, <1>3, ReleaseKeepsIInv DEF Holding, Results
<1>4. CASE /\ pc' = [pc EXCEPT ![r] = "held"]
           /\ result' = [result EXCEPT ![r] = "ok"]
           /\ UNCHANGED <<endpoint, untried, attempt, sent, activeCounts, waiters,
                          activeRequests>>
  <2>1. TypeOK'
    BY <1>2, <1>4 DEF IInv, TypeOK, RegistryTypeOK, InFlight, Results
  <2>2. \A x \in Endpoints : Holders(x)' = Holders(x)
    BY <1>1, <1>4 DEF Holders, Holding, IInv, TypeOK
  <2>3. SlotsAreHeld'
    BY <1>4, <2>2 DEF IInv, SlotsAreHeld
  <2>4. HoldsAnEndpoint'
    BY <1>1, <1>4 DEF HoldsAnEndpoint, IInv, TypeOK
  <2>5. QueueHoldsTheWaiting'
    <3>1. {q \in Requests : pc'[q] = "waiting"} = {q \in Requests : pc[q] = "waiting"}
      BY <1>1, <1>4 DEF IInv, TypeOK
    <3> QED
      BY <1>4, <3>1 DEF IInv, QueueHoldsTheWaiting
  <2> QED
    BY <2>1, <2>3, <2>4, <2>5 DEF IInv
<1> QED
  BY <1>3, <1>4 DEF AttemptSucceeds

LEMMA FailsOverKeepsIInv ==
    ASSUME IInv, NEW r \in Requests, NEW code \in Codes, FailsOver(r, code)
    PROVE  IInv'
<1> DEFINE e == endpoint[r]
           n == Head(untried[r])
           W == Woken(e)
<1>1. e \in Endpoints /\ pc[r] = "running"
  BY DEF FailsOver, FailsWith, IInv, HoldsAnEndpoint, Holding
<1>2. n \in Endpoints /\ Tail(untried[r]) \in Seq(Endpoints)
  <2>1. untried[r] \in Seq(Endpoints) /\ untried[r] # <<>>
    BY DEF FailsOver, IInv, TypeOK
  <2> QED
    BY <2>1
<1>3. W \in SUBSET Requests /\ \A w \in W : pc[w] = "waiting"
  BY WokenWait
<1>4. /\ pc' = [q \in Requests |-> IF q \in W THEN "choosing" ELSE pc[q]]
      /\ LeaveQueue(W)
      /\ activeCounts' = Acquired(Released(activeCounts, e), n)
      /\ endpoint' = [endpoint EXCEPT ![r] = n]
      /\ untried' = [untried EXCEPT ![r] = Tail(@)]
      /\ attempt' = [attempt EXCEPT ![r] = @ + 1]
      /\ sent' = [sent EXCEPT ![r] = (signal[r] = "live")]
      /\ UNCHANGED <<options, signal, result, activeRequests, roundRobinCounter>>
      /\ ReportFailure(e)
  BY DEF FailsOver, Wakes
<1> HIDE DEF W, n
<1>5. /\ waiters' \in Seq(Waiter)
      /\ Queued' = Queued \ W
      /\ \A i, j \in DOMAIN waiters' :
           waiters'[i].request = waiters'[j].request => i = j
  BY <1>3, <1>4, LeaveQueueQueues DEF IInv
<1>6. /\ failureCounts' \in [Endpoints -> 0 .. FailureThreshold]
      /\ failureAge' \in [Endpoints -> 0 .. Cooldown]
  BY <1>1, <1>4, HealthTypes
<1>7. activeCounts' \in [Endpoints -> Nat]
  <2>1. Released(activeCounts, e) \in [Endpoints -> Nat]
    BY <1>1, CountTypes DEF IInv, TypeOK, RegistryTypeOK
  <2> QED
    BY <1>2, <1>4, <2>1, CountTypes
<1>8. /\ untried' \in [Requests -> Seq(Endpoints)]
      /\ sent' \in [Requests -> BOOLEAN]
      /\ attempt' \in [Requests -> Nat]
  <2>1. untried' \in [Requests -> Seq(Endpoints)]
    BY <1>2, <1>4 DEF IInv, TypeOK
  <2>2. sent' \in [Requests -> BOOLEAN]
    BY <1>4 DEF IInv, TypeOK
  <2>3. attempt' \in [Requests -> Nat]
    BY <1>4 DEF IInv, TypeOK
  <2> QED
    BY <2>1, <2>2, <2>3
<1>9. TypeOK'
  BY <1>2, <1>4, <1>5, <1>6, <1>7, <1>8 DEF IInv, TypeOK, RegistryTypeOK, InFlight
<1>10. r \notin W
  BY <1>1, <1>3
<1>11. \A x \in Endpoints :
         Holders(x)' = IF x = n THEN Holders(x) \cup {r} ELSE Holders(x) \ {r}
  BY <1>1, <1>2, <1>3, <1>4, <1>10 DEF Holders, Holding, IInv, TypeOK
<1>12. r \in Holders(e) /\ \A x \in Endpoints : x # e => r \notin Holders(x)
  BY <1>1 DEF Holders, Holding
<1>13. SlotsAreHeld'
  BY <1>1, <1>2, <1>4, <1>11, <1>12, MovingToTheNext DEF IInv
<1>14. HoldsAnEndpoint'
  BY <1>2, <1>3, <1>4 DEF HoldsAnEndpoint, Holding, IInv, TypeOK
<1>15. QueueHoldsTheWaiting'
  <2>1. {q \in Requests : pc'[q] = "waiting"} = {q \in Requests : pc[q] = "waiting"} \ W
    BY <1>4
  <2> QED
    BY <1>5, <2>1 DEF IInv, QueueHoldsTheWaiting, Queued
<1> QED
  BY <1>9, <1>13, <1>14, <1>15 DEF IInv

LEMMA FireKeepsIInv ==
    ASSUME IInv, NEW S \in SUBSET Requests, NEW why \in {"timeout", "aborted"},
           Fire(S, why), activeRequests' \subseteq Requests
    PROVE  IInv'
<1> DEFINE hit == {r \in S : pc[r] \in InFlight /\ signal[r] = "live"}
           queued == {r \in hit : pc[r] = "waiting"}
<1>1. queued \in SUBSET Requests /\ \A q \in queued : pc[q] = "waiting"
  OBVIOUS
<1>2. /\ signal' = [r \in Requests |-> IF r \in hit THEN why ELSE signal[r]]
      /\ pc' = [r \in Requests |-> IF r \in queued THEN "settled" ELSE pc[r]]
      /\ result' = [r \in Requests |-> IF r \in queued THEN why ELSE result[r]]
      /\ LeaveQueue(queued)
      /\ UNCHANGED <<options, endpoint, untried, attempt, sent, failureCounts,
                     failureAge, activeCounts, roundRobinCounter>>
  BY DEF Fire
<1> HIDE DEF hit, queued
<1>3. /\ waiters' \in Seq(Waiter)
      /\ Queued' = Queued \ queued
      /\ \A i, j \in DOMAIN waiters' :
           waiters'[i].request = waiters'[j].request => i = j
  BY <1>1, <1>2, LeaveQueueQueues DEF IInv
<1>4. TypeOK'
  BY <1>2, <1>3 DEF IInv, TypeOK, RegistryTypeOK, InFlight, Results, Codes
<1>5. \A x \in Endpoints : Holders(x)' = Holders(x)
  BY <1>1, <1>2 DEF Holders, Holding
<1>6. SlotsAreHeld'
  BY <1>2, <1>5 DEF IInv, SlotsAreHeld
<1>7. HoldsAnEndpoint'
  BY <1>1, <1>2 DEF IInv, HoldsAnEndpoint, Holding
<1>8. QueueHoldsTheWaiting'
  <2>1. {q \in Requests : pc'[q] = "waiting"}
          = {q \in Requests : pc[q] = "waiting"} \ queued
    BY <1>2
  <2> QED
    BY <1>3, <2>1 DEF IInv, QueueHoldsTheWaiting, Queued
<1> QED
  BY <1>4, <1>6, <1>7, <1>8 DEF IInv

-----------------------------------------------------------------------------
(* The invariant of the specification.                                     *)

LEMMA InitIInv == Init => IInv
<1> SUFFICES ASSUME Init
             PROVE  IInv
  OBVIOUS
<1>1. TypeOK
  BY DEF Init, RegistryInit, TypeOK, RegistryTypeOK, Results
<1>2. HoldsAnEndpoint
  BY DEF Init, HoldsAnEndpoint, Holding
<1>3. SlotsAreHeld
  <2>1. \A e \in Endpoints : Holders(e) = {}
    BY DEF Init, Holders, Holding
  <2> QED
    BY <2>1, FS_EmptySet DEF Init, RegistryInit, SlotsAreHeld
<1>4. QueueHoldsTheWaiting
  BY DEF Init, RegistryInit, QueueHoldsTheWaiting
<1> QED
  BY <1>1, <1>2, <1>3, <1>4 DEF IInv

LEMMA StutterKeepsIInv ==
    ASSUME IInv, UNCHANGED <<pc, endpoint, activeCounts, waiters>>, TypeOK'
    PROVE  IInv'
<1>1. \A e \in Endpoints : Holders(e)' = Holders(e)
  BY DEF Holders
<1>2. HoldsAnEndpoint' /\ SlotsAreHeld' /\ QueueHoldsTheWaiting'
  BY <1>1 DEF IInv, HoldsAnEndpoint, SlotsAreHeld, QueueHoldsTheWaiting
<1> QED
  BY <1>2 DEF IInv

LEMMA NextIInv == IInv /\ [Next]_vars => IInv'
<1> SUFFICES ASSUME IInv, [Next]_vars
             PROVE  IInv'
  OBVIOUS
<1>1. ASSUME NEW r \in Requests, Call(r)
      PROVE  IInv'
  <2>1. PICK sig \in {"live", "aborted"} :
          signal' = [signal EXCEPT ![r] = sig] /\ Iterate(r, sig)
    BY <1>1 DEF Call
  <2>2. /\ signal' \in [Requests -> {"live", "timeout", "aborted"}]
        /\ activeRequests' \subseteq Requests
        /\ pc[r] \in {"idle", "choosing"}
    BY <1>1, <2>1 DEF Call, IInv, TypeOK
  <2> QED
    BY <2>1, <2>2, IterateKeepsIInv
<1>2. ASSUME NEW r \in Requests, Resume(r)
      PROVE  IInv'
  <2>1. /\ signal' \in [Requests -> {"live", "timeout", "aborted"}]
        /\ signal[r] \in {"live", "timeout", "aborted"}
        /\ activeRequests' \subseteq Requests
        /\ pc[r] \in {"idle", "choosing"}
        /\ Iterate(r, signal[r])
    BY <1>2 DEF Resume, IInv, TypeOK
  <2> QED
    BY <2>1, IterateKeepsIInv
<1>3. ASSUME NEW r \in Requests, AttemptSucceeds(r)
      PROVE  IInv'
  BY <1>3, SuccessKeepsIInv
<1>4. ASSUME NEW r \in Requests, AttemptFails(r)
      PROVE  IInv'
  <2>1. PICK code \in Codes : GivesUp(r, code) \/ FailsOver(r, code)
    BY <1>4 DEF AttemptFails
  <2>2. CASE GivesUp(r, code)
    <3>1. endpoint[r] \in Endpoints /\ pc[r] \in Holding
      BY <2>2 DEF GivesUp, FailsWith, IInv, HoldsAnEndpoint, Holding
    <3>2. /\ failureCounts' \in [Endpoints -> 0 .. FailureThreshold]
          /\ failureAge' \in [Endpoints -> 0 .. Cooldown]
      BY <2>2, <3>1, HealthTypes DEF GivesUp
    <3> QED
      BY <2>2, <3>1, <3>2, ReleaseKeepsIInv DEF GivesUp, Results
  <2>3. CASE FailsOver(r, code)
    BY <2>3, FailsOverKeepsIInv
  <2> QED
    BY <2>1, <2>2, <2>3
<1>5. ASSUME NEW r \in Requests, HoldEnds(r)
      PROVE  IInv'
  <2>1. /\ pc[r] \in Holding /\ result[r] \in Results
        /\ failureCounts' \in [Endpoints -> 0 .. FailureThreshold]
        /\ failureAge' \in [Endpoints -> 0 .. Cooldown]
    BY <1>5 DEF HoldEnds, Holding, IInv, TypeOK, RegistryTypeOK
  <2> QED
    BY <1>5, <2>1, ReleaseKeepsIInv DEF HoldEnds
<1>6. ASSUME NEW r \in Requests, TimesOut(r) \/ CallerAborts(r)
      PROVE  IInv'
  <2>1. activeRequests' \subseteq Requests
    BY <1>6 DEF TimesOut, CallerAborts, Unsettled, IInv, TypeOK
  <2> QED
    BY <1>6, <2>1, FireKeepsIInv DEF TimesOut, CallerAborts
<1>7. CASE Destroy
  BY <1>7, FireKeepsIInv DEF Destroy, IInv, TypeOK
<1>8. CASE AdapterReadsCandidates
  <2>1. roundRobinCounter' \in Nat
    BY <1>8 DEF AdapterReadsCandidates, NextRotation, IInv, TypeOK, RegistryTypeOK
  <2>2. TypeOK'
    BY <1>8, <2>1 DEF AdapterReadsCandidates, requestVars, IInv, TypeOK, RegistryTypeOK
  <2> QED
    BY <1>8, <2>2, StutterKeepsIInv DEF AdapterReadsCandidates, requestVars
<1>9. CASE ClockTicks
  <2>1. failureAge' \in [Endpoints -> 0 .. Cooldown]
    BY <1>9 DEF ClockTicks, Tick, AtMost, IInv, TypeOK, RegistryTypeOK
  <2>2. TypeOK'
    BY <1>9, <2>1 DEF ClockTicks, Tick, requestVars, IInv, TypeOK, RegistryTypeOK
  <2> QED
    BY <1>9, <2>2, StutterKeepsIInv DEF ClockTicks, Tick, requestVars
<1>10. CASE UNCHANGED vars
  <2>1. TypeOK'
    BY <1>10 DEF vars, registryVars, requestVars, IInv, TypeOK, RegistryTypeOK
  <2> QED
    BY <1>10, <2>1, StutterKeepsIInv DEF vars, registryVars, requestVars
<1> QED
  BY <1>1, <1>2, <1>3, <1>4, <1>5, <1>6, <1>7, <1>8, <1>9, <1>10 DEF Next

THEOREM Invariance == Spec => []IInv
<1>1. Init => IInv
  BY InitIInv
<1>2. IInv /\ [Next]_vars => IInv'
  BY NextIInv
<1> QED
  BY <1>1, <1>2, PTL DEF Spec

\* Type correctness: every variable keeps its type in every reachable state.
THEOREM TypeCorrectness == Spec => []TypeOK
<1>1. IInv => TypeOK
  BY DEF IInv
<1> QED
  BY <1>1, Invariance, PTL

\* acquire() and release() are paired on every path out of the failover loop:
\* an endpoint's count is the number of requests that hold a slot of it.
THEOREM SlotAccounting == Spec => []SlotsAreHeld
<1>1. IInv => SlotsAreHeld
  BY DEF IInv
<1> QED
  BY <1>1, Invariance, PTL

\* The capacity queue holds the waiting requests, each of them once.
THEOREM QueueAccounting == Spec => []QueueHoldsTheWaiting
<1>1. IInv => QueueHoldsTheWaiting
  BY DEF IInv
<1> QED
  BY <1>1, Invariance, PTL

-----------------------------------------------------------------------------
(* What the cap guarantees.                                                *)

\* The first choosers of an endpoint after a step that dispatches nobody are
\* among those before it.
LEMMA FewerFirstChoosers ==
    ASSUME IInv, FirstAttemptsWithinCap,
           \A e \in Endpoints : FirstChoosers(e)' \subseteq FirstChoosers(e)
    PROVE  FirstAttemptsWithinCap'
<1> SUFFICES ASSUME Cap # NoCap, NEW e \in Endpoints
             PROVE  Cardinality(FirstChoosers(e)') <= Cap
  BY DEF FirstAttemptsWithinCap
<1>1. FirstChoosers(e) \subseteq Holders(e)
  BY DEF FirstChoosers
<1>2. IsFiniteSet(FirstChoosers(e))
  BY <1>1, HoldersAreFinite, FS_Subset
<1>3. /\ Cardinality(FirstChoosers(e)') <= Cardinality(FirstChoosers(e))
      /\ IsFiniteSet(FirstChoosers(e)')
  BY <1>2, FS_Subset
<1>4. Cardinality(FirstChoosers(e)') \in Nat /\ Cardinality(FirstChoosers(e)) \in Nat
  BY <1>2, <1>3, FS_CardinalityType
<1>5. Cardinality(FirstChoosers(e)) <= Cap
  BY DEF FirstAttemptsWithinCap
<1> QED
  BY <1>3, <1>4, <1>5, CapAssumption

LEMMA DispatchStaysWithinCap ==
    ASSUME IInv, FirstAttemptsWithinCap, NEW r \in Requests,
           pc[r] \in {"idle", "choosing"},
           NEW sig, NEW considered \in SUBSET Endpoints,
           Dispatches(r, considered, sig)
    PROVE  FirstAttemptsWithinCap'
<1> DEFINE runnable == {e \in considered : HasCapacity(e)}
<1>1. PICK chosen \in Orderings(runnable, options[r].model) :
        endpoint' = [endpoint EXCEPT ![r] = chosen[1]]
  BY DEF Dispatches
<1>2. /\ runnable # {}
      /\ attempt' = [attempt EXCEPT ![r] = 0]
      /\ pc' = [pc EXCEPT ![r] = "running"]
  BY DEF Dispatches
<1>3. chosen[1] \in runnable
  <2>1. runnable \in SUBSET Endpoints
    OBVIOUS
  <2> HIDE DEF runnable
  <2> QED
    BY <1>1, <1>2, <2>1, OrderingsAreSequences
<1> SUFFICES ASSUME Cap # NoCap, NEW x \in Endpoints
             PROVE  Cardinality(FirstChoosers(x)') <= Cap
  BY DEF FirstAttemptsWithinCap
<1>4. /\ FirstChoosers(x) \subseteq Holders(x)
      /\ IsFiniteSet(FirstChoosers(x))
      /\ Cardinality(FirstChoosers(x)) <= Cardinality(Holders(x))
      /\ Cardinality(FirstChoosers(x)) \in Nat
      /\ Cardinality(Holders(x)) \in Nat
      /\ Cap \in Nat
  <2>1. FirstChoosers(x) \subseteq Holders(x)
    BY DEF FirstChoosers
  <2> QED
    BY <2>1, HoldersAreFinite, FS_Subset, FS_CardinalityType, CapAssumption
<1>5. CASE x = chosen[1]
  <2>1. Cardinality(Holders(x)) < Cap
    BY <1>3, <1>5 DEF HasCapacity, IInv, SlotsAreHeld
  <2>2. FirstChoosers(x)' = FirstChoosers(x) \cup {r}
    BY <1>1, <1>2, <1>5 DEF FirstChoosers, Holders, Holding, IInv, TypeOK
  <2>3. r \notin FirstChoosers(x)
    BY DEF FirstChoosers, Holders, Holding
  <2>4. Cardinality(FirstChoosers(x) \cup {r}) = Cardinality(FirstChoosers(x)) + 1
    BY <1>4, <2>3, FS_AddElement
  <2> QED
    BY <1>4, <2>1, <2>2, <2>4
<1>6. CASE x # chosen[1]
  <2>1. FirstChoosers(x)' = FirstChoosers(x)
    BY <1>1, <1>2, <1>6 DEF FirstChoosers, Holders, Holding, IInv, TypeOK
  <2> QED
    BY <2>1 DEF FirstAttemptsWithinCap
<1> QED
  BY <1>5, <1>6

LEMMA IterateStaysWithinCap ==
    ASSUME IInv, FirstAttemptsWithinCap, NEW r \in Requests,
           pc[r] \in {"idle", "choosing"}, NEW sig, Iterate(r, sig)
    PROVE  FirstAttemptsWithinCap'
<1> DEFINE model == options[r].model
<1>1. Candidates(model) \in SUBSET Endpoints
  BY DEF Candidates, Healthy, Scoped
<1>2. PICK considered \in SUBSET Candidates(model) :
        \/ FindsNoEndpoint(r, considered)
        \/ Queues(r, considered, sig)
        \/ Dispatches(r, considered, sig)
  BY <1>1, OrderingsAreSequences DEF Iterate
<1>3. CASE FindsNoEndpoint(r, considered) \/ Queues(r, considered, sig)
  <2>1. /\ pc' = [pc EXCEPT ![r] = "settled"] \/ pc' = [pc EXCEPT ![r] = "waiting"]
        /\ UNCHANGED <<endpoint, attempt>>
    BY <1>3 DEF FindsNoEndpoint, Queues, Settle
  <2>2. \A e \in Endpoints : FirstChoosers(e)' \subseteq FirstChoosers(e)
    BY <2>1 DEF FirstChoosers, Holders, Holding, IInv, TypeOK
  <2> QED
    BY <2>2, FewerFirstChoosers
<1>4. CASE Dispatches(r, considered, sig)
  BY <1>1, <1>4, DispatchStaysWithinCap
<1> QED
  BY <1>2, <1>3, <1>4

LEMMA NextStaysWithinCap ==
    IInv /\ FirstAttemptsWithinCap /\ [Next]_vars => FirstAttemptsWithinCap'
<1> SUFFICES ASSUME IInv, FirstAttemptsWithinCap, [Next]_vars
             PROVE  FirstAttemptsWithinCap'
  OBVIOUS
<1>1. ASSUME NEW r \in Requests, Call(r) \/ Resume(r)
      PROVE  FirstAttemptsWithinCap'
  <2>1. pc[r] \in {"idle", "choosing"} /\ \E sig : Iterate(r, sig)
    BY <1>1 DEF Call, Resume
  <2> QED
    BY <2>1, IterateStaysWithinCap
<1>2. ASSUME NEW r \in Requests, pc[r] \in Holding, NEW how, ReleasesAndSettles(r, how)
      PROVE  FirstAttemptsWithinCap'
  <2>1. \A q \in Woken(endpoint[r]) : pc[q] = "waiting"
    BY WokenWait
  <2>2. \A e \in Endpoints : FirstChoosers(e)' \subseteq FirstChoosers(e)
    BY <1>2, <2>1 DEF ReleasesAndSettles, Wakes, FirstChoosers, Holders, Holding,
                      IInv, TypeOK
  <2> QED
    BY <2>2, FewerFirstChoosers
<1>3. ASSUME NEW r \in Requests, AttemptSucceeds(r)
      PROVE  FirstAttemptsWithinCap'
  <2>1. CASE ReleasesAndSettles(r, "ok")
    BY <1>2, <1>3, <2>1 DEF AttemptSucceeds, Holding
  <2>2. CASE pc' = [pc EXCEPT ![r] = "held"] /\ UNCHANGED <<endpoint, attempt>>
    <3>1. pc[r] = "running"
      BY <1>3 DEF AttemptSucceeds
    <3>2. \A e \in Endpoints : FirstChoosers(e)' \subseteq FirstChoosers(e)
      BY <2>2, <3>1 DEF FirstChoosers, Holders, Holding, IInv, TypeOK
    <3> QED
      BY <3>2, FewerFirstChoosers
  <2> QED
    BY <1>3, <2>1, <2>2 DEF AttemptSucceeds
<1>4. ASSUME NEW r \in Requests, NEW code \in Codes, FailsOver(r, code)
      PROVE  FirstAttemptsWithinCap'
  <2>1. \A q \in Woken(endpoint[r]) : pc[q] = "waiting"
    BY WokenWait
  <2>2. /\ pc' = [q \in Requests |-> IF q \in Woken(endpoint[r]) THEN "choosing" ELSE pc[q]]
        /\ attempt' = [attempt EXCEPT ![r] = @ + 1]
        /\ endpoint' = [endpoint EXCEPT ![r] = Head(untried[r])]
    BY <1>4 DEF FailsOver, Wakes
  <2>3. attempt[r] + 1 # 0
    BY DEF IInv, TypeOK
  <2>4. \A e \in Endpoints : FirstChoosers(e)' \subseteq FirstChoosers(e)
    BY <2>1, <2>2, <2>3 DEF FirstChoosers, Holders, Holding, IInv, TypeOK
  <2> QED
    BY <2>4, FewerFirstChoosers
<1>5. ASSUME NEW r \in Requests, AttemptFails(r)
      PROVE  FirstAttemptsWithinCap'
  BY <1>2, <1>4, <1>5 DEF AttemptFails, GivesUp, FailsWith, Holding
<1>6. ASSUME NEW r \in Requests, HoldEnds(r)
      PROVE  FirstAttemptsWithinCap'
  BY <1>2, <1>6 DEF HoldEnds, Holding
<1>7. ASSUME NEW S \in SUBSET Requests, NEW why, Fire(S, why)
      PROVE  FirstAttemptsWithinCap'
  <2>1. /\ UNCHANGED <<endpoint, attempt>>
        /\ \A r \in Requests : pc'[r] \in {pc[r], "settled"}
    BY <1>7 DEF Fire
  <2>2. \A e \in Endpoints : FirstChoosers(e)' \subseteq FirstChoosers(e)
    BY <2>1 DEF FirstChoosers, Holders, Holding
  <2> QED
    BY <2>2, FewerFirstChoosers
<1>8. ASSUME UNCHANGED <<pc, endpoint, attempt>>
      PROVE  FirstAttemptsWithinCap'
  <2>1. \A e \in Endpoints : FirstChoosers(e)' \subseteq FirstChoosers(e)
    BY <1>8 DEF FirstChoosers, Holders
  <2> QED
    BY <2>1, FewerFirstChoosers
<1>9. CASE AdapterReadsCandidates \/ ClockTicks \/ UNCHANGED vars
  BY <1>8, <1>9 DEF AdapterReadsCandidates, ClockTicks, vars, requestVars
<1>10. CASE Destroy \/ \E r \in Requests : TimesOut(r) \/ CallerAborts(r)
  BY <1>7, <1>10 DEF Destroy, TimesOut, CallerAborts, IInv, TypeOK
<1> QED
  BY <1>1, <1>3, <1>5, <1>6, <1>9, <1>10 DEF Next

\* The requests that reached an endpoint as their first choice never exceed
\* maxConcurrentPerEndpoint, whatever failover adds to them.
THEOREM FirstChoicesRespectTheCap == Spec => []FirstAttemptsWithinCap
<1>1. Init => FirstAttemptsWithinCap
  <2> SUFFICES ASSUME Init, Cap # NoCap, NEW e \in Endpoints
               PROVE  Cardinality(FirstChoosers(e)) <= Cap
    BY DEF FirstAttemptsWithinCap
  <2>1. FirstChoosers(e) = {}
    BY DEF Init, FirstChoosers, Holders, Holding
  <2> QED
    BY <2>1, FS_EmptySet, CapAssumption
<1>2. IInv /\ FirstAttemptsWithinCap /\ [Next]_vars => FirstAttemptsWithinCap'
  BY NextStaysWithinCap
<1> QED
  BY <1>1, <1>2, Invariance, PTL DEF Spec

-----------------------------------------------------------------------------
(* What executeWithFailover promises.                                      *)

USE EndpointsAssumption, PositionAssumption, PriorityAssumption, ModelsAssumption,
    HealthAssumption, StrategyAssumption, CapAssumption, RequestsAssumption,
    KindsAssumption, NoEndpointAssumption

-----------------------------------------------------------------------------
(* The order candidates are tried in is strict, so nothing is tried twice. *)

LEMMA WeightsAreIntegers ==
    ASSUME TypeOK, NEW S \in SUBSET Endpoints, NEW d \in S
    PROVE  Weight(d, S) \in Int
<1> DEFINE place == Cardinality({c \in Tier(d, S) : Position[c] < Position[d]})
           size  == Cardinality(Tier(d, S))
<1>1. IsFiniteSet(Tier(d, S)) /\ Tier(d, S) # {}
  <2>1. Tier(d, S) \subseteq Endpoints /\ d \in Tier(d, S)
    BY DEF Tier
  <2> QED
    BY <2>1, FS_Subset
<1>2. size \in Nat /\ size # 0
  BY <1>1, FS_EmptySet, FS_CardinalityType
<1>3. place \in Nat
  <2>1. IsFiniteSet({c \in Tier(d, S) : Position[c] < Position[d]})
    BY <1>1, FS_Subset
  <2> QED
    BY <2>1, FS_CardinalityType
<1>4. roundRobinCounter \in Nat /\ activeCounts[d] \in Nat
  BY DEF TypeOK, RegistryTypeOK
<1> HIDE DEF place, size
<1>5. (place + size - (roundRobinCounter % size)) % size \in Int
  BY <1>2, <1>3, <1>4
<1>6. RotatedPlace(d, S) \in Int
  BY <1>5 DEF RotatedPlace, place, size
<1> QED
  BY <1>4, <1>6 DEF Weight

LEMMA PrecedesIsStrict ==
    ASSUME TypeOK, NEW model, NEW d \in Candidates(model)
    PROVE  ~Precedes(d, d, model)
<1>1. d \in Endpoints /\ Healthy(model) \in SUBSET Endpoints
  BY DEF Candidates, Healthy, Scoped
<1>2. CASE Healthy(model) # {}
  <2>1. d \in Healthy(model)
    BY <1>2 DEF Candidates
  <2>2. Weight(d, Healthy(model)) \in Int /\ Position[d] \in Int /\ Priority[d] \in Int
    BY <1>1, <2>1, WeightsAreIntegers
  <2> QED
    BY <1>2, <2>2 DEF Precedes, ByStrategy
<1>3. CASE Healthy(model) = {}
  <2>1. failureAge[d] \in Int /\ Position[d] \in Int
    BY <1>1 DEF TypeOK, RegistryTypeOK
  <2> QED
    BY <1>3, <2>1 DEF Precedes, BySoonestRecovery
<1> QED
  BY <1>2, <1>3

LEMMA FunctionsAreSequences ==
    ASSUME NEW n \in Nat, NEW S, NEW s \in [1 .. n -> S]
    PROVE  s \in Seq(S) /\ Len(s) = n /\ DOMAIN s = 1 .. n
OBVIOUS

\* The rest of a list that tries nothing twice.
Distinct(s) == \A i, j \in DOMAIN s : s[i] = s[j] => i = j

LEMMA OrderingsAreDistinct ==
    ASSUME TypeOK, NEW model, NEW S \in SUBSET Candidates(model), S # {},
           NEW s \in Orderings(S, model)
    PROVE  /\ s[1] \in S
           /\ Tail(s) \in Seq(S)
           /\ Distinct(Tail(s))
           /\ \A i \in DOMAIN Tail(s) : Tail(s)[i] \in S \ {s[1]}
           /\ Cardinality(S) = 1 => Tail(s) = <<>>
<1>1. S \in SUBSET Endpoints
  BY DEF Candidates, Healthy, Scoped
<1>2. IsFiniteSet(S) /\ Cardinality(S) \in Nat /\ Cardinality(S) # 0
  BY <1>1, FS_Subset, FS_CardinalityType, FS_EmptySet
<1>3. s \in [1 .. Cardinality(S) -> S]
  BY DEF Orderings
<1>4. \A i, j \in 1 .. Cardinality(S) : i < j => s[i] # s[j]
  <2>1. \A i, j \in 1 .. Cardinality(S) : i < j => Precedes(s[i], s[j], model)
    BY <1>3 DEF Orderings
  <2>2. \A i \in 1 .. Cardinality(S) : ~Precedes(s[i], s[i], model)
    BY <1>3, PrecedesIsStrict
  <2> QED
    BY <2>1, <2>2
<1>5. s \in Seq(S) /\ Len(s) = Cardinality(S)
  BY <1>2, <1>3, FunctionsAreSequences
<1>6. /\ Tail(s) \in Seq(S)
      /\ Len(Tail(s)) = Cardinality(S) - 1
      /\ \A i \in 1 .. Cardinality(S) - 1 : Tail(s)[i] = s[i + 1]
      /\ DOMAIN Tail(s) = 1 .. Cardinality(S) - 1
  BY <1>2, <1>5
<1>7. Distinct(Tail(s))
  BY <1>2, <1>4, <1>6 DEF Distinct
<1>8. \A i \in DOMAIN Tail(s) : Tail(s)[i] \in S \ {s[1]}
  <2>1. \A i \in 1 .. Cardinality(S) - 1 : Tail(s)[i] \in S \ {s[1]}
    BY <1>2, <1>3, <1>4, <1>6
  <2> QED
    BY <1>6, <2>1
<1>9. Cardinality(S) = 1 => Tail(s) = <<>>
  BY <1>6
<1>10. s[1] \in S
  BY <1>1, OrderingsAreSequences
<1>11. Tail(s) \in Seq(S)
  BY <1>6
<1> QED
  BY <1>7, <1>8, <1>9, <1>10, <1>11

-----------------------------------------------------------------------------
(* What a step does to the requests.                                       *)

KeepsPlan(q) ==
    endpoint'[q] = endpoint[q] /\ untried'[q] = untried[q] /\ attempt'[q] = attempt[q]

Rests(q) == pc'[q] = pc[q] /\ KeepsPlan(q) /\ result'[q] = result[q]

StartsWaiting(q) ==
    /\ pc[q] \in {"idle", "choosing"} /\ pc'[q] = "waiting"
    /\ KeepsPlan(q) /\ result'[q] = result[q]

IsWoken(q) ==
    /\ pc[q] = "waiting" /\ pc'[q] = "choosing"
    /\ KeepsPlan(q) /\ result'[q] = result[q]

IsRefused(q, how) ==
    /\ pc[q] \in {"idle", "choosing", "waiting"} /\ pc'[q] = "settled"
    /\ KeepsPlan(q) /\ result'[q] = how

Outcomes == Results \ {"none"}

NoSlotMoves ==
    /\ activeCounts' = activeCounts
    /\ \E S \in SUBSET Requests, how \in Outcomes :
        /\ \A q \in S : IsRefused(q, how)
        /\ \A q \in Requests \ S : Rests(q) \/ StartsWaiting(q)

\* r begins its first attempt, at e.
BeginsAt(r, e) ==
    LET model == options[r].model IN
    /\ pc[r] \in {"idle", "choosing"} /\ pc'[r] = "running"
    /\ e \in Candidates(model) /\ HasCapacity(e)
    /\ endpoint'[r] = e /\ attempt'[r] = 0 /\ result'[r] = result[r]
    /\ untried'[r] \in Seq(Candidates(model)) /\ Distinct(untried'[r])
    /\ \A i \in DOMAIN untried'[r] : untried'[r][i] \in Candidates(model) \ {e}
    /\ options[r].single => untried'[r] = <<>>
    /\ activeCounts' = Acquired(activeCounts, e)
    /\ \A q \in Requests \ {r} : Rests(q)

IsHandedOver(r) ==
    /\ pc[r] = "running" /\ pc'[r] = "held"
    /\ KeepsPlan(r) /\ result'[r] = "ok"
    /\ activeCounts' = activeCounts
    /\ \A q \in Requests \ {r} : Rests(q)

MovesOn(r) ==
    /\ pc[r] = "running" /\ pc'[r] = "running"
    /\ untried[r] # <<>>
    /\ endpoint'[r] = Head(untried[r]) /\ untried'[r] = Tail(untried[r])
    /\ attempt'[r] = attempt[r] + 1 /\ result'[r] = result[r]
    /\ activeCounts' = Acquired(Released(activeCounts, endpoint[r]), Head(untried[r]))
    /\ \A q \in Requests \ {r} : Rests(q) \/ IsWoken(q)

GivesBack(r) ==
    /\ pc[r] \in Holding /\ pc'[r] = "settled"
    /\ endpoint'[r] = NoEndpoint /\ untried'[r] = <<>> /\ attempt'[r] = 0
    /\ pc[r] = "running" => result'[r] \in Outcomes
    /\ pc[r] = "held" => result'[r] = result[r]
    /\ activeCounts' = Released(activeCounts, endpoint[r])
    /\ \A q \in Requests \ {r} : Rests(q) \/ IsWoken(q)

Shapes ==
    \/ NoSlotMoves
    \/ \E r \in Requests :
        \/ \E e \in Endpoints : BeginsAt(r, e)
        \/ IsHandedOver(r)
        \/ MovesOn(r)
        \/ GivesBack(r)

LEMMA IterateShapes ==
    ASSUME IInv, NEW r \in Requests, pc[r] \in {"idle", "choosing"},
           NEW sig \in {"live", "timeout", "aborted"}, Iterate(r, sig)
    PROVE  NoSlotMoves \/ \E e \in Endpoints : BeginsAt(r, e)
<1> DEFINE model == options[r].model
<1>1. TypeOK /\ Candidates(model) \in SUBSET Endpoints
  BY DEF IInv, Candidates, Healthy, Scoped
<1>2. PICK considered \in SUBSET Candidates(model) :
        /\ \/ FindsNoEndpoint(r, considered)
           \/ Queues(r, considered, sig)
           \/ Dispatches(r, considered, sig)
        /\ options[r].single => \E x : considered \subseteq {x}
  <2>1. PICK ordered \in Orderings(Candidates(model), model) :
          LET considered == IF options[r].single
                            THEN {ordered[i] : i \in DOMAIN ordered \cap {1}}
                            ELSE Candidates(model)
          IN  \/ FindsNoEndpoint(r, considered)
              \/ Queues(r, considered, sig)
              \/ Dispatches(r, considered, sig)
    BY DEF Iterate
  <2>2. \A i \in DOMAIN ordered : ordered[i] \in Candidates(model)
    BY <1>1, OrderingsAreSequences
  <2>3. CASE options[r].single
    <3> DEFINE one == {ordered[i] : i \in DOMAIN ordered \cap {1}}
    <3>1. one \subseteq {ordered[1]} /\ one \in SUBSET Candidates(model)
      BY <2>2
    <3> QED
      BY <2>1, <2>3, <3>1
  <2>4. CASE ~options[r].single
    BY <2>1, <2>4
  <2> QED
    BY <2>3, <2>4
<1>3. ASSUME NEW how \in Outcomes, Settle(r, how)
      PROVE  NoSlotMoves
  <2>1. IsRefused(r, how) /\ \A q \in Requests \ {r} : Rests(q)
    BY <1>1, <1>3 DEF Settle, IsRefused, Rests, KeepsPlan, TypeOK
  <2>2. /\ {r} \in SUBSET Requests
        /\ \A q \in {r} : IsRefused(q, how)
        /\ \A q \in Requests \ {r} : Rests(q) \/ StartsWaiting(q)
    BY <2>1
  <2>3. activeCounts' = activeCounts
    BY <1>3 DEF Settle
  <2> QED
    BY <2>2, <2>3 DEF NoSlotMoves
<1>4. CASE FindsNoEndpoint(r, considered)
  BY <1>3, <1>4 DEF FindsNoEndpoint, Outcomes, Results
<1>5. CASE Queues(r, considered, sig) /\ sig # "live"
  BY <1>3, <1>5 DEF Queues, Outcomes, Results, Codes
<1>6. CASE Queues(r, considered, sig) /\ sig = "live"
  <2>1. StartsWaiting(r) /\ \A q \in Requests \ {r} : Rests(q)
    BY <1>1, <1>6 DEF Queues, StartsWaiting, Rests, KeepsPlan, TypeOK
  <2>2. activeCounts' = activeCounts /\ "ok" \in Outcomes
    BY <1>6 DEF Queues, Outcomes, Results
  <2>3. /\ {} \in SUBSET Requests
        /\ \A q \in {} : IsRefused(q, "ok")
        /\ \A q \in Requests \ {} : Rests(q) \/ StartsWaiting(q)
    BY <2>1
  <2> QED
    BY <2>2, <2>3 DEF NoSlotMoves
<1>7. CASE Dispatches(r, considered, sig)
  <2> DEFINE runnable == {e \in considered : HasCapacity(e)}
  <2>1. PICK chosen \in Orderings(runnable, model) :
          /\ endpoint' = [endpoint EXCEPT ![r] = chosen[1]]
          /\ untried' = [untried EXCEPT ![r] = Tail(chosen)]
          /\ activeCounts' = Acquired(activeCounts, chosen[1])
    BY <1>7 DEF Dispatches
  <2>2. /\ runnable # {}
        /\ attempt' = [attempt EXCEPT ![r] = 0]
        /\ pc' = [pc EXCEPT ![r] = "running"]
        /\ result' = result
    BY <1>7 DEF Dispatches
  <2>3. runnable \in SUBSET Candidates(model)
    OBVIOUS
  <2>4. /\ chosen[1] \in runnable
        /\ Tail(chosen) \in Seq(runnable)
        /\ Distinct(Tail(chosen))
        /\ \A i \in DOMAIN Tail(chosen) : Tail(chosen)[i] \in runnable \ {chosen[1]}
        /\ Cardinality(runnable) = 1 => Tail(chosen) = <<>>
    <3> HIDE DEF runnable, model
    <3> QED
      BY <1>1, <2>1, <2>2, <2>3, OrderingsAreDistinct
  <2>5. options[r].single => Tail(chosen) = <<>>
    <3> SUFFICES ASSUME options[r].single
                 PROVE  Cardinality(runnable) = 1
      BY <2>4
    <3>1. PICK x : considered \subseteq {x}
      BY <1>2
    <3>2. runnable = {x}
      BY <2>2, <3>1
    <3> QED
      BY <3>2, FS_Singleton
  <2>6. Tail(chosen) \in Seq(Candidates(model))
    BY <2>3, <2>4
  <2>7. /\ endpoint'[r] = chosen[1] /\ untried'[r] = Tail(chosen)
        /\ attempt'[r] = 0 /\ pc'[r] = "running" /\ result'[r] = result[r]
        /\ \A q \in Requests \ {r} : Rests(q)
    BY <1>1, <2>1, <2>2 DEF Rests, KeepsPlan, TypeOK
  <2>8. BeginsAt(r, chosen[1])
    <3>1. chosen[1] \in Candidates(model) /\ HasCapacity(chosen[1])
      BY <2>4
    <3>2. \A i \in DOMAIN Tail(chosen) : Tail(chosen)[i] \in Candidates(model) \ {chosen[1]}
      BY <2>3, <2>4
    <3> QED
      BY <2>1, <2>4, <2>5, <2>6, <2>7, <3>1, <3>2 DEF BeginsAt
  <2> QED
    BY <1>1, <2>3, <2>4, <2>8
<1> QED
  BY <1>2, <1>4, <1>5, <1>6, <1>7

LEMMA ReleaseShapes ==
    ASSUME IInv, NEW r \in Requests, pc[r] \in Holding, NEW how,
           ReleasesAndSettles(r, how),
           pc[r] = "running" => how \in Outcomes,
           pc[r] = "held" => how = result[r]
    PROVE  GivesBack(r)
<1>1. \A w \in Woken(endpoint[r]) : pc[w] = "waiting"
  BY WokenWait
<1>2. pc[r] \in {"running", "held"}
  BY DEF Holding
<1>3. /\ pc'[r] = "settled" /\ endpoint'[r] = NoEndpoint /\ untried'[r] = <<>>
      /\ attempt'[r] = 0 /\ result'[r] = how
      /\ activeCounts' = Released(activeCounts, endpoint[r])
  BY <1>1, <1>2 DEF ReleasesAndSettles, Wakes, IInv, TypeOK
<1>4. ASSUME NEW q \in Requests \ {r}
      PROVE  Rests(q) \/ IsWoken(q)
  BY <1>1, <1>4 DEF ReleasesAndSettles, Wakes, Rests, IsWoken, KeepsPlan, IInv, TypeOK
<1> QED
  BY <1>2, <1>3, <1>4 DEF GivesBack

LEMMA FireShapes ==
    ASSUME IInv, NEW S \in SUBSET Requests, NEW why \in {"timeout", "aborted"},
           Fire(S, why)
    PROVE  NoSlotMoves
<1> DEFINE queued == {r \in S : /\ pc[r] \in InFlight /\ signal[r] = "live"
                                /\ pc[r] = "waiting"}
<1>1. /\ pc' = [r \in Requests |-> IF r \in queued THEN "settled" ELSE pc[r]]
      /\ result' = [r \in Requests |-> IF r \in queued THEN why ELSE result[r]]
      /\ UNCHANGED <<endpoint, untried, attempt, activeCounts>>
  BY DEF Fire
<1>2. \A q \in queued : IsRefused(q, why)
  BY <1>1 DEF IsRefused, KeepsPlan
<1>3. \A q \in Requests \ queued : Rests(q) \/ StartsWaiting(q)
  BY <1>1 DEF Rests, KeepsPlan
<1>4. queued \in SUBSET Requests /\ why \in Outcomes
  BY DEF Outcomes, Results, Codes
<1> QED
  BY <1>1, <1>2, <1>3, <1>4 DEF NoSlotMoves

LEMMA StillShapes ==
    ASSUME UNCHANGED <<pc, endpoint, untried, attempt, result, activeCounts>>
    PROVE  NoSlotMoves
<1>1. /\ {} \in SUBSET Requests /\ "ok" \in Outcomes
      /\ \A q \in {} : IsRefused(q, "ok")
      /\ \A q \in Requests \ {} : Rests(q) \/ StartsWaiting(q)
  BY DEF Rests, KeepsPlan, Outcomes, Results
<1> QED
  BY <1>1 DEF NoSlotMoves

LEMMA StepShapes ==
    ASSUME IInv, [Next]_vars
    PROVE  options' = options /\ Shapes
<1>1. ASSUME NEW r \in Requests, Call(r) \/ Resume(r)
      PROVE  options' = options /\ Shapes
  <2>1. PICK sig \in {"live", "timeout", "aborted"} : Iterate(r, sig)
    BY <1>1 DEF Call, Resume, IInv, TypeOK
  <2>2. pc[r] \in {"idle", "choosing"}
    BY <1>1 DEF Call, Resume
  <2>3. options' = options
    BY <2>1 DEF Iterate
  <2> QED
    BY <2>1, <2>2, <2>3, IterateShapes DEF Shapes
<1>2. ASSUME NEW r \in Requests, AttemptSucceeds(r)
      PROVE  options' = options /\ Shapes
  <2>1. pc[r] = "running" /\ options' = options
    BY <1>2 DEF AttemptSucceeds
  <2>2. CASE ReleasesAndSettles(r, "ok")
    <3>1. GivesBack(r)
      BY <2>1, <2>2, ReleaseShapes DEF Holding, Outcomes, Results
    <3> QED
      BY <2>1, <3>1 DEF Shapes
  <2>3. CASE /\ pc' = [pc EXCEPT ![r] = "held"]
             /\ result' = [result EXCEPT ![r] = "ok"]
             /\ UNCHANGED <<endpoint, untried, attempt, activeCounts>>
    <3>1. IsHandedOver(r)
      BY <2>1, <2>3 DEF IsHandedOver, Rests, KeepsPlan, IInv, TypeOK
    <3> QED
      BY <2>1, <3>1 DEF Shapes
  <2> QED
    BY <1>2, <2>2, <2>3 DEF AttemptSucceeds
<1>3. ASSUME NEW r \in Requests, NEW code \in Codes, GivesUp(r, code)
      PROVE  options' = options /\ Shapes
  <2>1. pc[r] = "running" /\ options' = options /\ code \in Outcomes
    BY <1>3 DEF GivesUp, FailsWith, Outcomes, Results, Codes
  <2>2. GivesBack(r)
    BY <1>3, <2>1, ReleaseShapes DEF GivesUp, Holding
  <2> QED
    BY <2>1, <2>2 DEF Shapes
<1>4. ASSUME NEW r \in Requests, NEW code \in Codes, FailsOver(r, code)
      PROVE  options' = options /\ Shapes
  <2>1. \A w \in Woken(endpoint[r]) : pc[w] = "waiting"
    BY WokenWait
  <2>2. /\ pc[r] = "running" /\ untried[r] # <<>> /\ options' = options
        /\ pc' = [q \in Requests |->
                    IF q \in Woken(endpoint[r]) THEN "choosing" ELSE pc[q]]
        /\ activeCounts' =
             Acquired(Released(activeCounts, endpoint[r]), Head(untried[r]))
        /\ endpoint' = [endpoint EXCEPT ![r] = Head(untried[r])]
        /\ untried' = [untried EXCEPT ![r] = Tail(@)]
        /\ attempt' = [attempt EXCEPT ![r] = @ + 1]
        /\ result' = result
    BY <1>4 DEF FailsOver, FailsWith, Wakes
  <2>3. MovesOn(r)
    BY <2>1, <2>2 DEF MovesOn, Rests, IsWoken, KeepsPlan, IInv, TypeOK
  <2> QED
    BY <2>2, <2>3 DEF Shapes
<1>5. ASSUME NEW r \in Requests, HoldEnds(r)
      PROVE  options' = options /\ Shapes
  <2>1. pc[r] = "held" /\ options' = options
    BY <1>5 DEF HoldEnds
  <2>2. GivesBack(r)
    BY <1>5, <2>1, ReleaseShapes DEF HoldEnds, Holding
  <2> QED
    BY <2>1, <2>2 DEF Shapes
<1>6. CASE Destroy \/ \E r \in Requests : TimesOut(r) \/ CallerAborts(r)
  <2>1. PICK S \in SUBSET Requests, why \in {"timeout", "aborted"} : Fire(S, why)
    BY <1>6 DEF Destroy, TimesOut, CallerAborts, IInv, TypeOK
  <2>2. options' = options
    BY <2>1 DEF Fire
  <2> QED
    BY <2>1, <2>2, FireShapes DEF Shapes
<1>7. CASE AdapterReadsCandidates \/ ClockTicks \/ UNCHANGED vars
  <2>1. UNCHANGED <<options, pc, endpoint, untried, attempt, result, activeCounts>>
    BY <1>7 DEF AdapterReadsCandidates, ClockTicks, Tick, vars, registryVars, requestVars
  <2> QED
    BY <2>1, StillShapes DEF Shapes
<1> QED
  BY <1>1, <1>2, <1>3, <1>4, <1>5, <1>6, <1>7 DEF Next, AttemptFails

-----------------------------------------------------------------------------
(* Where an operation may end up.                                          *)

\* The endpoints a request that holds a slot may still go to: all of them may
\* serve its model, none is tried twice, and an operation bound to one server
\* has no other.
PlanOK(r) ==
    LET allowed == Scoped(options[r].model) IN
    /\ endpoint[r] \in allowed
    /\ untried[r] \in Seq(allowed)
    /\ Distinct(untried[r])
    /\ \A i \in DOMAIN untried[r] : untried[r][i] # endpoint[r]
    /\ options[r].single => attempt[r] = 0 /\ untried[r] = <<>>

\* A request has no answer before it settles or hands its stream over.
AnswerOK(r) ==
    /\ pc[r] \in {"idle", "choosing", "waiting", "running"} => result[r] = "none"
    /\ pc[r] = "held" => result[r] = "ok"

RequestInv ==
    \A r \in Requests : (pc[r] \in Holding => PlanOK(r)) /\ AnswerOK(r)

LEMMA InitRequestInv == Init => RequestInv
BY DEF Init, RequestInv, AnswerOK, Holding

LEMMA RestingKeepsTheInv ==
    ASSUME RequestInv, options' = options, NEW q \in Requests,
           Rests(q) \/ StartsWaiting(q) \/ IsWoken(q) \/ \E how : IsRefused(q, how)
    PROVE  (pc'[q] \in Holding => PlanOK(q)') /\ AnswerOK(q)'
<1>1. KeepsPlan(q)
  BY DEF Rests, StartsWaiting, IsWoken, IsRefused
<1>2. pc'[q] \in Holding => pc[q] = pc'[q]
  BY DEF Rests, StartsWaiting, IsWoken, IsRefused, Holding
<1>3. (pc[q] \in Holding => PlanOK(q)) /\ AnswerOK(q)
  BY DEF RequestInv
<1>4. pc'[q] \in Holding => PlanOK(q)'
  BY <1>1, <1>2, <1>3 DEF PlanOK, KeepsPlan, Scoped
<1>5. AnswerOK(q)'
  BY <1>3 DEF AnswerOK, Rests, StartsWaiting, IsWoken, IsRefused
<1> QED
  BY <1>4, <1>5

LEMMA TailKeepsAPlan ==
    ASSUME NEW S, NEW s \in Seq(S), s # <<>>, Distinct(s)
    PROVE  /\ Head(s) \in S /\ Tail(s) \in Seq(S) /\ Distinct(Tail(s))
           /\ \A i \in DOMAIN Tail(s) : Tail(s)[i] # Head(s)
<1>1. /\ Len(s) \in Nat /\ Len(s) # 0 /\ DOMAIN s = 1 .. Len(s)
      /\ Tail(s) \in Seq(S) /\ Head(s) = s[1] /\ Head(s) \in S
      /\ DOMAIN Tail(s) = 1 .. Len(s) - 1
      /\ \A i \in 1 .. Len(s) - 1 : Tail(s)[i] = s[i + 1]
  OBVIOUS
<1>2. \A i, j \in 1 .. Len(s) : s[i] = s[j] => i = j
  BY <1>1 DEF Distinct
<1>3. Distinct(Tail(s))
  BY <1>1, <1>2 DEF Distinct
<1>4. \A i \in 1 .. Len(s) - 1 : s[i + 1] # s[1]
  BY <1>1, <1>2
<1> QED
  BY <1>1, <1>3, <1>4

LEMMA NextRequestInv == IInv /\ RequestInv /\ [Next]_vars => RequestInv'
<1> SUFFICES ASSUME IInv, RequestInv, [Next]_vars,
                    NEW q \in Requests
             PROVE  (pc'[q] \in Holding => PlanOK(q)') /\ AnswerOK(q)'
  BY DEF RequestInv
<1>1. options' = options /\ Shapes
  BY StepShapes
<1>2. (pc[q] \in Holding => PlanOK(q)) /\ AnswerOK(q)
  BY DEF RequestInv
<1>3. CASE NoSlotMoves
  BY <1>1, <1>3, RestingKeepsTheInv DEF NoSlotMoves
<1>4. ASSUME NEW r \in Requests, NEW e \in Endpoints, BeginsAt(r, e)
      PROVE  (pc'[q] \in Holding => PlanOK(q)') /\ AnswerOK(q)'
  <2>1. CASE q # r
    BY <1>1, <1>4, <2>1, RestingKeepsTheInv DEF BeginsAt
  <2>2. CASE q = r
    <3> DEFINE model == options[r].model
    <3>1. Candidates(model) \subseteq Scoped(model)
      BY DEF Candidates, Healthy
    <3>2. /\ pc'[r] = "running" /\ endpoint'[r] = e /\ e \in Candidates(model)
          /\ attempt'[r] = 0 /\ result'[r] = result[r]
          /\ pc[r] \in {"idle", "choosing"}
          /\ untried'[r] \in Seq(Candidates(model)) /\ Distinct(untried'[r])
          /\ \A i \in DOMAIN untried'[r] : untried'[r][i] # e
          /\ options[r].single => untried'[r] = <<>>
      BY <1>4 DEF BeginsAt
    <3>3. untried'[r] \in Seq(Scoped(model))
      BY <3>1, <3>2
    <3>4. Scoped(options[r].model)' = Scoped(model)
      BY <1>1 DEF Scoped
    <3>5. PlanOK(r)'
      BY <1>1, <3>1, <3>2, <3>3, <3>4 DEF PlanOK, Distinct
    <3>6. AnswerOK(r)'
      BY <1>2, <2>2, <3>2 DEF AnswerOK
    <3> QED
      BY <2>2, <3>5, <3>6
  <2> QED
    BY <2>1, <2>2
<1>5. ASSUME NEW r \in Requests, IsHandedOver(r)
      PROVE  (pc'[q] \in Holding => PlanOK(q)') /\ AnswerOK(q)'
  <2>1. CASE q # r
    BY <1>1, <1>5, <2>1, RestingKeepsTheInv DEF IsHandedOver
  <2>2. CASE q = r
    <3>1. PlanOK(r) /\ KeepsPlan(r) /\ pc'[r] = "held" /\ result'[r] = "ok"
      BY <1>2, <1>5, <2>2 DEF IsHandedOver, Holding
    <3>2. PlanOK(r)' /\ AnswerOK(r)'
      BY <1>1, <3>1 DEF PlanOK, AnswerOK, KeepsPlan, Scoped
    <3> QED
      BY <2>2, <3>2
  <2> QED
    BY <2>1, <2>2
<1>6. ASSUME NEW r \in Requests, MovesOn(r)
      PROVE  (pc'[q] \in Holding => PlanOK(q)') /\ AnswerOK(q)'
  <2>1. CASE q # r
    BY <1>1, <1>6, <2>1, RestingKeepsTheInv DEF MovesOn
  <2>2. CASE q = r
    <3> DEFINE allowed == Scoped(options[r].model)
    <3>1. /\ pc[r] = "running" /\ pc'[r] = "running" /\ untried[r] # <<>>
          /\ endpoint'[r] = Head(untried[r]) /\ untried'[r] = Tail(untried[r])
          /\ result'[r] = result[r]
      BY <1>6 DEF MovesOn
    <3>2. /\ untried[r] \in Seq(allowed) /\ Distinct(untried[r])
          /\ ~options[r].single
      BY <1>2, <2>2, <3>1 DEF PlanOK, Holding
    <3>3. /\ Head(untried[r]) \in allowed /\ Tail(untried[r]) \in Seq(allowed)
          /\ Distinct(Tail(untried[r]))
          /\ \A i \in DOMAIN Tail(untried[r]) : Tail(untried[r])[i] # Head(untried[r])
      BY <3>1, <3>2, TailKeepsAPlan
    <3>4. Scoped(options[r].model)' = allowed
      BY <1>1 DEF Scoped
    <3>5. PlanOK(r)'
      BY <1>1, <3>1, <3>2, <3>3, <3>4 DEF PlanOK, Distinct
    <3>6. AnswerOK(r)'
      BY <1>2, <2>2, <3>1 DEF AnswerOK
    <3> QED
      BY <2>2, <3>5, <3>6
  <2> QED
    BY <2>1, <2>2
<1>7. ASSUME NEW r \in Requests, GivesBack(r)
      PROVE  (pc'[q] \in Holding => PlanOK(q)') /\ AnswerOK(q)'
  <2>1. CASE q # r
    BY <1>1, <1>7, <2>1, RestingKeepsTheInv DEF GivesBack
  <2>2. CASE q = r
    BY <1>7, <2>2 DEF GivesBack, AnswerOK, Holding
  <2> QED
    BY <2>1, <2>2
<1> QED
  BY <1>1, <1>3, <1>4, <1>5, <1>6, <1>7 DEF Shapes

LEMMA RequestInvariance == Spec => []RequestInv
<1>1. IInv /\ RequestInv /\ [Next]_vars => RequestInv'
  BY NextRequestInv
<1> QED
  BY <1>1, InitRequestInv, Invariance, PTL DEF Spec

\* ADR 0008: an operation bound to the endpoints that may serve its model, and
\* one bound to a single server, never ends up on another endpoint, not after a
\* wait for capacity and not by failing over.
THEOREM OperationsStayInScope == Spec => []StaysOnItsEndpoints
<1>1. RequestInv => StaysOnItsEndpoints
  BY DEF RequestInv, PlanOK, StaysOnItsEndpoints, Scoped
<1> QED
  BY <1>1, RequestInvariance, PTL

-----------------------------------------------------------------------------
(* What destroy() reaches.                                                 *)

LEMMA NextReaches ==
    IInv /\ DestroyReachesEveryRequest /\ [Next]_vars => DestroyReachesEveryRequest'
<1> SUFFICES ASSUME IInv, DestroyReachesEveryRequest, [Next]_vars
             PROVE  DestroyReachesEveryRequest'
  OBVIOUS
<1> USE DEF DestroyReachesEveryRequest
<1>1. ASSUME NEW r \in Requests, NEW sig, Iterate(r, sig)
      PROVE  \/ pc' = [pc EXCEPT ![r] = "settled"]
             \/ pc' = [pc EXCEPT ![r] = "waiting"]
             \/ pc' = [pc EXCEPT ![r] = "running"]
  BY <1>1 DEF Iterate, FindsNoEndpoint, Queues, Dispatches, Settle
<1>2. ASSUME NEW r \in Requests, Call(r)
      PROVE  DestroyReachesEveryRequest'
  <2>1. PICK sig \in {"live", "aborted"} :
          signal' = [signal EXCEPT ![r] = sig] /\ Iterate(r, sig)
    BY <1>2 DEF Call
  <2>2. activeRequests' =
          IF pc'[r] = "settled" THEN activeRequests ELSE activeRequests \cup {r}
    BY <1>2 DEF Call
  <2>3. pc[r] = "idle"
    BY <1>2 DEF Call
  <2>4. pc'[r] \in {"settled", "waiting", "running"}
    BY <1>1, <2>1 DEF IInv, TypeOK
  <2>5. \A q \in Requests \ {r} : pc'[q] = pc[q] /\ signal'[q] = signal[q]
    BY <1>1, <2>1 DEF IInv, TypeOK
  <2>6. activeRequests \subseteq Requests
    BY DEF IInv, TypeOK
  <2> QED
    BY <2>2, <2>3, <2>4, <2>5, <2>6 DEF InFlight
<1>3. ASSUME NEW r \in Requests, Resume(r)
      PROVE  DestroyReachesEveryRequest'
  <2>1. /\ Iterate(r, signal[r]) /\ signal' = signal /\ pc[r] = "choosing"
        /\ activeRequests' =
             IF pc'[r] = "settled" THEN activeRequests \ {r} ELSE activeRequests
    BY <1>3 DEF Resume
  <2> QED
    BY <1>1, <2>1 DEF InFlight, IInv, TypeOK
<1>4. ASSUME NEW r \in Requests, NEW how, ReleasesAndSettles(r, how),
             pc[r] \in Holding, signal' = signal
      PROVE  DestroyReachesEveryRequest'
  <2>1. \A w \in Woken(endpoint[r]) : pc[w] = "waiting"
    BY WokenWait
  <2>2. pc' = [q \in Requests |-> IF q \in Woken(endpoint[r]) THEN "choosing"
                                   ELSE IF q = r THEN "settled" ELSE pc[q]]
    BY <1>4 DEF ReleasesAndSettles, Wakes, IInv, TypeOK
  <2>3. activeRequests' = activeRequests \ {r} /\ r \notin Woken(endpoint[r])
    BY <1>4, <2>1 DEF ReleasesAndSettles, Holding
  <2>4. \A q \in Requests \ {r} : pc'[q] \in InFlight <=> pc[q] \in InFlight
    BY <2>1, <2>2 DEF InFlight
  <2> QED
    BY <1>4, <2>2, <2>3, <2>4 DEF InFlight, IInv, TypeOK
<1>5. ASSUME NEW r \in Requests, AttemptSucceeds(r)
      PROVE  DestroyReachesEveryRequest'
  <2>1. pc[r] = "running" /\ signal' = signal
    BY <1>5 DEF AttemptSucceeds
  <2>2. CASE ReleasesAndSettles(r, "ok")
    BY <1>4, <2>1, <2>2 DEF Holding
  <2>3. CASE pc' = [pc EXCEPT ![r] = "held"] /\ activeRequests' = activeRequests
    BY <2>1, <2>3 DEF InFlight, IInv, TypeOK
  <2> QED
    BY <1>5, <2>2, <2>3 DEF AttemptSucceeds
<1>6. ASSUME NEW r \in Requests, NEW code \in Codes, GivesUp(r, code)
      PROVE  DestroyReachesEveryRequest'
  BY <1>4, <1>6 DEF GivesUp, FailsWith, Holding
<1>7. ASSUME NEW r \in Requests, NEW code \in Codes, FailsOver(r, code)
      PROVE  DestroyReachesEveryRequest'
  <2>1. \A w \in Woken(endpoint[r]) : pc[w] = "waiting"
    BY WokenWait
  <2>2. /\ pc' = [q \in Requests |->
                   IF q \in Woken(endpoint[r]) THEN "choosing" ELSE pc[q]]
        /\ UNCHANGED <<signal, activeRequests>>
    BY <1>7 DEF FailsOver, Wakes
  <2>3. \A q \in Requests : pc'[q] \in InFlight <=> pc[q] \in InFlight
    BY <2>1, <2>2 DEF InFlight
  <2> QED
    BY <2>2, <2>3 DEF IInv, TypeOK
<1>8. ASSUME NEW r \in Requests, HoldEnds(r)
      PROVE  DestroyReachesEveryRequest'
  BY <1>4, <1>8 DEF HoldEnds, Holding
<1>9. ASSUME NEW r \in Requests, TimesOut(r) \/ CallerAborts(r)
      PROVE  DestroyReachesEveryRequest'
  <2>1. PICK why \in {"timeout", "aborted"} : Fire({r}, why)
    BY <1>9 DEF TimesOut, CallerAborts
  <2>2. /\ \A q \in Requests : pc'[q] \in {pc[q], "settled"}
        /\ \A q \in Requests : signal'[q] = "live" => signal[q] = "live"
    BY <2>1 DEF Fire
  <2>3. activeRequests' = {q \in activeRequests : pc'[q] # "settled"}
    BY <1>9 DEF TimesOut, CallerAborts, Unsettled
  <2> QED
    BY <2>2, <2>3 DEF InFlight, IInv, TypeOK
<1>10. CASE Destroy
  <2>1. Fire(activeRequests, "aborted") /\ activeRequests' = {}
    BY <1>10 DEF Destroy
  <2>2. ASSUME NEW q \in Requests, pc'[q] \in InFlight, signal'[q] = "live"
        PROVE  FALSE
    <3>1. pc[q] \in InFlight /\ signal[q] = "live"
      BY <2>1, <2>2 DEF Fire, InFlight
    <3>2. q \in activeRequests
      BY <3>1
    <3>3. signal'[q] = "aborted"
      BY <2>1, <3>1, <3>2 DEF Fire
    <3> QED
      BY <2>2, <3>3
  <2> QED
    BY <2>1, <2>2
<1>11. CASE AdapterReadsCandidates \/ ClockTicks \/ UNCHANGED vars
  BY <1>11 DEF AdapterReadsCandidates, ClockTicks, vars, requestVars
<1> QED
  BY <1>2, <1>3, <1>5, <1>6, <1>7, <1>8, <1>9, <1>10, <1>11 DEF Next, AttemptFails

\* Whatever interleaving of waits, failovers, timers and aborts came before,
\* destroy() finds every request whose signal can still be fired, the streams
\* being consumed included, and none that has settled.
THEOREM DestroyFindsThemAll == Spec => []DestroyReachesEveryRequest
<1>1. Init => DestroyReachesEveryRequest
  BY DEF Init, DestroyReachesEveryRequest, InFlight
<1>2. IInv /\ DestroyReachesEveryRequest /\ [Next]_vars => DestroyReachesEveryRequest'
  BY NextReaches
<1> QED
  BY <1>1, <1>2, Invariance, PTL DEF Spec

-----------------------------------------------------------------------------
(* The circuit breaker.                                                    *)

\* A first attempt goes to an endpoint of Candidates, and the failure record
\* does not change in the step that dispatches it.
LEMMA DispatchIsHealthy ==
    ASSUME IInv, [Next]_vars, NEW r \in Requests,
           pc[r] \in {"idle", "choosing"}, pc'[r] = "running"
    PROVE  ~IsCooling(endpoint'[r]) \/ Healthy(options[r].model) = {}
<1>1. Shapes
  BY StepShapes
<1>2. ~NoSlotMoves
  BY DEF NoSlotMoves, Rests, StartsWaiting, IsRefused
<1>3. PICK q \in Requests :
        \/ \E e \in Endpoints : BeginsAt(q, e)
        \/ IsHandedOver(q)
        \/ MovesOn(q)
        \/ GivesBack(q)
  BY <1>1, <1>2 DEF Shapes
<1>4. q = r
  BY <1>3 DEF BeginsAt, IsHandedOver, MovesOn, GivesBack, Rests, IsWoken
<1>5. PICK e \in Endpoints : BeginsAt(r, e)
  BY <1>3, <1>4 DEF IsHandedOver, MovesOn, GivesBack, Holding
<1>6. endpoint'[r] = e /\ e \in Candidates(options[r].model)
  BY <1>5 DEF BeginsAt
<1> QED
  BY <1>6 DEF Candidates, Healthy

\* A call whose first attempt goes to a cooling endpoint found every endpoint
\* it may use cooling: the circuit fails open, and only then.
THEOREM CircuitFailsOpenOnly == Spec => FailsOpenOnly
<1>1. IInv /\ [Next]_vars =>
        [\A r \in Requests :
            pc[r] \in {"idle", "choosing"} /\ pc'[r] = "running" =>
                \/ ~IsCooling(endpoint'[r])
                \/ Healthy(options[r].model) = {}]_vars
  BY DispatchIsHealthy
<1> QED
  BY <1>1, Invariance, PTL DEF Spec, FailsOpenOnly

-----------------------------------------------------------------------------
(* The slot pool.                                                          *)

Place == [r \in Requests |-> IF pc[r] \in Holding THEN endpoint[r] ELSE NoEndpoint]

\* A request that holds a slot is counted where it holds it.
LEMMA HoldersAreCounted ==
    ASSUME IInv, NEW r \in Requests, pc[r] \in Holding
    PROVE  /\ endpoint[r] \in Endpoints /\ Place[r] = endpoint[r]
           /\ activeCounts[endpoint[r]] \in Nat /\ activeCounts[endpoint[r]] # 0
           /\ Released(activeCounts, endpoint[r]) =
                [activeCounts EXCEPT ![endpoint[r]] = @ - 1]
<1>1. endpoint[r] \in Endpoints /\ Place[r] = endpoint[r]
  BY DEF IInv, HoldsAnEndpoint, Place
<1>2. r \in Holders(endpoint[r])
  BY DEF Holders
<1>3. activeCounts[endpoint[r]] \in Nat /\ activeCounts[endpoint[r]] # 0
  BY <1>1, <1>2, HoldersAreFinite, FS_EmptySet DEF IInv, SlotsAreHeld
<1>4. Released(activeCounts, endpoint[r]) =
        [activeCounts EXCEPT ![endpoint[r]] = @ - 1]
  <2> DEFINE c == activeCounts[endpoint[r]]
  <2>1. (IF c > 1 THEN c - 1 ELSE 0) = c - 1
    BY <1>3
  <2> QED
    BY <2>1 DEF Released
<1> QED
  BY <1>1, <1>3, <1>4

LEMMA OthersStay ==
    ASSUME IInv, IInv', NEW r \in Requests,
           \A q \in Requests \ {r} : Rests(q) \/ IsWoken(q)
    PROVE  /\ \A q \in Requests \ {r} : Place'[q] = Place[q]
           /\ Place' = [Place EXCEPT ![r] = Place'[r]]
           /\ result' = [result EXCEPT ![r] = result'[r]]
<1>1. \A q \in Requests \ {r} : Place'[q] = Place[q] /\ result'[q] = result[q]
  BY DEF Place, Rests, IsWoken, KeepsPlan, Holding
<1>2. result \in [Requests -> Results] /\ result' \in [Requests -> Results]
  BY DEF IInv, TypeOK
<1>3. Place = [q \in Requests |-> Place[q]] /\ Place' = [q \in Requests |-> Place'[q]]
  BY DEF Place
<1>4. result' = [result EXCEPT ![r] = result'[r]]
  BY <1>1, <1>2
<1>5. Place' = [Place EXCEPT ![r] = Place'[r]]
  <2> HIDE DEF Place
  <2> QED
    BY <1>1, <1>3
<1> QED
  BY <1>1, <1>4, <1>5

LEMMA InitImplementsPool == Init => Pool!PoolInit
BY DEF Init, RegistryInit, Pool!PoolInit, Holding

LEMMA StepImplementsPool ==
    IInv /\ RequestInv /\ IInv' /\ RequestInv' /\ [Next]_vars
        => [Pool!PoolNext]_(Pool!poolVars)
<1> SUFFICES ASSUME IInv, RequestInv, IInv', RequestInv', [Next]_vars
             PROVE  Pool!PoolNext
  OBVIOUS
<1>1. Shapes
  BY StepShapes
<1>2. \A r \in Requests : AnswerOK(r) /\ (pc[r] \in Holding => PlanOK(r))
  BY DEF RequestInv
<1>3. result \in [Requests -> Results] /\ result' \in [Requests -> Results]
  BY DEF IInv, TypeOK
<1>4. Outcomes = Pool!Answers
  BY DEF Outcomes, Results, Codes, Pool!Answers
<1>5. CASE NoSlotMoves
  <2>1. PICK S \in SUBSET Requests, how \in Outcomes :
          /\ \A q \in S : IsRefused(q, how)
          /\ \A q \in Requests \ S : Rests(q) \/ StartsWaiting(q)
    BY <1>5 DEF NoSlotMoves
  <2>2. \A q \in S : Place[q] = NoEndpoint /\ result[q] = "none"
    BY <1>2, <2>1 DEF Place, IsRefused, AnswerOK, Holding
  <2>3. \A q \in Requests : Place'[q] = Place[q]
    BY <2>1 DEF Place, IsRefused, Rests, StartsWaiting, KeepsPlan, Holding
  <2>4. Place' = Place
    BY <2>3 DEF Place
  <2>5. result' = [q \in Requests |-> IF q \in S THEN how ELSE result[q]]
    <3>1. \A q \in Requests : result'[q] = IF q \in S THEN how ELSE result[q]
      BY <2>1 DEF IsRefused, Rests, StartsWaiting
    <3> QED
      BY <1>3, <3>1
  <2>6. Pool!Refuse(S, how)
    BY <1>5, <2>2, <2>4, <2>5 DEF Pool!Refuse, Place, NoSlotMoves
  <2> QED
    BY <1>4, <2>6 DEF Pool!PoolNext
<1>6. ASSUME NEW r \in Requests, NEW e \in Endpoints, BeginsAt(r, e)
      PROVE  Pool!PoolNext
  <2>1. \A q \in Requests \ {r} : Rests(q) \/ IsWoken(q)
    BY <1>6 DEF BeginsAt
  <2>2. Place[r] = NoEndpoint /\ Place'[r] = e
    BY <1>6 DEF BeginsAt, Place, Holding
  <2>3. result[r] = "none" /\ result' = result
    <3>1. result[r] = "none" /\ result'[r] = result[r]
      BY <1>2, <1>6 DEF BeginsAt, AnswerOK
    <3> QED
      BY <1>3, <2>1, <3>1 DEF Rests, IsWoken
  <2>4. Place' = [Place EXCEPT ![r] = e]
    BY <2>1, <2>2, OthersStay
  <2>5. activeCounts' = [activeCounts EXCEPT ![e] = @ + 1]
    BY <1>6 DEF BeginsAt, Acquired
  <2>6. Cap = NoCap \/ activeCounts[e] < Cap
    BY <1>6 DEF BeginsAt, HasCapacity
  <2>7. Pool!Enter(r, e)
    BY <2>2, <2>3, <2>4, <2>5, <2>6 DEF Pool!Enter, Place
  <2> QED
    BY <2>7 DEF Pool!PoolNext
<1>7. ASSUME NEW r \in Requests, IsHandedOver(r)
      PROVE  Pool!PoolNext
  <2>1. \A q \in Requests \ {r} : Rests(q) \/ IsWoken(q)
    BY <1>7 DEF IsHandedOver
  <2>2. /\ pc[r] \in Holding /\ result[r] = "none"
        /\ Place'[r] = Place[r] /\ result'[r] = "ok"
        /\ activeCounts' = activeCounts
    BY <1>2, <1>7 DEF IsHandedOver, KeepsPlan, Place, Holding, AnswerOK
  <2>3. Place[r] # NoEndpoint
    <3>1. Place[r] \in Endpoints
      BY <2>2, HoldersAreCounted
    <3> QED
      BY <3>1
  <2>4. Place' = Place /\ result' = [result EXCEPT ![r] = "ok"]
    <3>1. Place' = [Place EXCEPT ![r] = Place[r]]
      BY <2>1, <2>2, OthersStay
    <3>2. Place' = Place
      BY <3>1 DEF Place
    <3> QED
      BY <2>1, <2>2, <3>2, OthersStay
  <2>5. Pool!HandOver(r)
    BY <2>2, <2>3, <2>4 DEF Pool!HandOver, Place
  <2> QED
    BY <2>5 DEF Pool!PoolNext
<1>8. ASSUME NEW r \in Requests, MovesOn(r)
      PROVE  Pool!PoolNext
  <2> DEFINE e == endpoint[r]
  <2> PICK n : n = Head(untried[r])
    OBVIOUS
  <2>1. \A q \in Requests \ {r} : Rests(q) \/ IsWoken(q)
    BY <1>8 DEF MovesOn
  <2>2. /\ pc[r] \in Holding /\ pc'[r] \in Holding /\ endpoint'[r] = n
        /\ result[r] = "none" /\ result'[r] = result[r]
        /\ untried[r] # <<>>
        /\ activeCounts' = Acquired(Released(activeCounts, e), n)
    BY <1>2, <1>8 DEF MovesOn, Holding, AnswerOK
  <2>3. untried[r] \in Seq(Scoped(options[r].model)) /\ n # e
    <3>1. /\ untried[r] \in Seq(Scoped(options[r].model))
          /\ \A i \in DOMAIN untried[r] : untried[r][i] # e
      BY <1>2, <2>2 DEF PlanOK
    <3> QED
      BY <2>2, <3>1
  <2>4. n \in Endpoints
    BY <2>2, <2>3 DEF Scoped
  <2>5. Place[r] = e /\ Place'[r] = n /\ e \in Endpoints
    BY <2>2, HoldersAreCounted DEF Place
  <2>6. Place' = [Place EXCEPT ![r] = n] /\ result' = result
    BY <1>3, <2>1, <2>2, <2>5, OthersStay
  <2>7. activeCounts' = [activeCounts EXCEPT ![e] = @ - 1, ![n] = @ + 1]
    <3>1. activeCounts' = Acquired([activeCounts EXCEPT ![e] = @ - 1], n)
      BY <2>2, HoldersAreCounted
    <3>2. [activeCounts EXCEPT ![e] = @ - 1][n] = activeCounts[n]
      BY <2>3, <2>5
    <3> QED
      BY <3>1, <3>2 DEF Acquired
  <2>8. Place[r] \notin {NoEndpoint, n}
    BY <2>3, <2>5
  <2>9. Pool!Move(r, n)
    BY <2>2, <2>5, <2>6, <2>7, <2>8 DEF Pool!Move, Place
  <2> QED
    BY <2>4, <2>9 DEF Pool!PoolNext
<1>9. ASSUME NEW r \in Requests, GivesBack(r)
      PROVE  Pool!PoolNext
  <2> DEFINE e == endpoint[r]
  <2>1. \A q \in Requests \ {r} : Rests(q) \/ IsWoken(q)
    BY <1>9 DEF GivesBack
  <2>2. /\ pc[r] \in {"running", "held"} /\ pc'[r] = "settled"
        /\ pc[r] = "running" => result[r] = "none" /\ result'[r] \in Outcomes
        /\ pc[r] = "held" => result[r] = "ok" /\ result'[r] = "ok"
        /\ activeCounts' = Released(activeCounts, e)
    BY <1>2, <1>9 DEF GivesBack, Holding, AnswerOK
  <2>3. /\ Place[r] = e /\ e \in Endpoints /\ Place'[r] = NoEndpoint
        /\ activeCounts' = [activeCounts EXCEPT ![e] = @ - 1]
    BY <2>2, HoldersAreCounted DEF Place, Holding
  <2>4. PICK how \in Outcomes : how = result'[r]
    BY <2>2 DEF Outcomes, Results
  <2>5. result'[r] = IF result[r] = "none" THEN how ELSE result[r]
    BY <2>2, <2>4
  <2>6. Place' = [Place EXCEPT ![r] = NoEndpoint]
    BY <2>1, <2>3, OthersStay
  <2>7. result' = [result EXCEPT ![r] = IF @ = "none" THEN how ELSE @]
    BY <2>1, <2>5, OthersStay
  <2>8. Pool!Leave(r, how)
    BY <2>3, <2>6, <2>7 DEF Pool!Leave, Place
  <2> QED
    BY <1>4, <2>4, <2>8 DEF Pool!PoolNext
<1> QED
  BY <1>1, <1>5, <1>6, <1>7, <1>8, <1>9 DEF Shapes

\* executeWithFailover implements the slot pool: whatever the queue, the
\* circuit breaker, the timers and destroy() do in between, every slot is taken
\* while it is free, moved or given back exactly once, and every call is
\* answered exactly once.
THEOREM ImplementsPool == Spec => ImplementsSlotPool
<1>1. Init => Pool!PoolInit
  BY InitImplementsPool
<1>2. IInv /\ RequestInv /\ IInv' /\ RequestInv' /\ [Next]_vars
        => [Pool!PoolNext]_(Pool!poolVars)
  BY StepImplementsPool
<1> QED
  BY <1>1, <1>2, Invariance, RequestInvariance, PTL
  DEF Spec, ImplementsSlotPool, Pool!PoolSpec
=============================================================================
