---------------------- MODULE ModelAffinityScheduler ----------------------
(***************************************************************************)
(* ModelAffinityScheduler (src/affinity.ts): tasks are queued per model,   *)
(* at most ConcurrentModels models have tasks in flight, and a run() with  *)
(* several candidate models asks GET /api/ps which of them is loaded.      *)
(* The await on that probe is the only point where a run() can be          *)
(* overtaken; enqueueing, pumping and completing are single steps.         *)
(***************************************************************************)
EXTENDS Integers, Sequences, FiniteSets, SequencesExt

CONSTANTS
    Models,
    Runs,                \* calls of run()
    CandidateLists,      \* the lists of models they may name
    ConcurrentModels,    \* options.concurrentModels
    PerModelConcurrency, \* options.perModelConcurrency
    PsCacheTtl,          \* options.psCacheTtlMs, in ticks
    Disposals            \* calls of dispose()

ASSUME ModelsAssumption == IsFiniteSet(Models)
ASSUME RunsAssumption == IsFiniteSet(Runs)
ASSUME CandidatesAssumption == CandidateLists \subseteq Seq(Models) \ {<<>>}
ASSUME BoundsAssumption ==
    /\ ConcurrentModels \in Nat \ {0}
    /\ PerModelConcurrency \in Nat \ {0}
    /\ PsCacheTtl \in Nat

VARIABLES
    pc,         \* where each run is
    candidates, \* the models it named
    known,      \* the models it was told are loaded
    asked,      \* ticks since its probe was sent
    queueOrder, \* the keys of the queues Map, in insertion order
    items,      \* ModelQueue.items, by model
    active,     \* ModelQueue.active, by model
    executing,  \* the tasks in flight, by model
    psCache,    \* the names last cached, and how long ago they were asked for
    disposal    \* where each dispose() is

vars == <<pc, candidates, known, asked, queueOrder, items, active, executing,
          psCache, disposal>>

\* Ages count up to the first tick at which nothing is fresh any more.
Ages == 0 .. PsCacheTtl + 1

TypeOK ==
    /\ pc \in [Runs -> {"idle", "probing", "choosing", "queued", "running", "settled"}]
    /\ candidates \in [Runs -> CandidateLists \cup {<<>>}]
    /\ known \in [Runs -> SUBSET Models]
    /\ asked \in [Runs -> Ages]
    /\ queueOrder \in Seq(Models)
    /\ items \in [Models -> Seq(Runs)]
    /\ active \in [Models -> Nat]
    /\ executing \in [Models -> SUBSET Runs]
    /\ psCache \in [age : Ages, names : SUBSET Models]
    /\ disposal \in [Disposals -> {"idle", "waiting", "resolved"}]

\* What was asked for age ticks ago; too long ago is as good as nothing.
Cached(age, names) ==
    [age |-> age, names |-> IF age <= PsCacheTtl THEN names ELSE {}]

Fresh == psCache.age <= PsCacheTtl

Init ==
    /\ pc = [r \in Runs |-> "idle"]
    /\ candidates = [r \in Runs |-> <<>>]
    /\ known = [r \in Runs |-> {}]
    /\ asked = [r \in Runs |-> 0]
    /\ queueOrder = <<>>
    /\ items = [m \in Models |-> <<>>]
    /\ active = [m \in Models |-> 0]
    /\ executing = [m \in Models |-> {}]
    /\ psCache = Cached(PsCacheTtl + 1, {})
    /\ disposal = [d \in Disposals |-> "idle"]

-----------------------------------------------------------------------------
(* pump(): the queues are visited in order.  An active model takes tasks   *)
(* up to its own limit; an idle one is opened while fewer than             *)
(* ConcurrentModels are active, those opened before it included.  Nothing  *)
(* becomes idle during a pass, so what a pass starts is known before it.   *)

Hot(act) == {m \in Models : act[m] > 0}

\* Positions of the queues that wait for their model to be opened.
Closed(order, its, act) ==
    {i \in DOMAIN order : act[order[i]] = 0 /\ its[order[i]] # <<>>}

\* Mutant: the models opened earlier in the same pass are not counted.
Opened_Uncounted(order, its, act) ==
    {order[i] : i \in {k \in Closed(order, its, act) :
        Cardinality(Hot(act)) < ConcurrentModels}}

\* Mutant: the queue created last is opened first.
Opened_LastFirst(order, its, act) ==
    {order[i] : i \in {k \in Closed(order, its, act) :
        Cardinality({j \in Closed(order, its, act) : j > k})
            < ConcurrentModels - Cardinality(Hot(act))}}

Opened(order, its, act) ==
    {order[i] : i \in {k \in Closed(order, its, act) :
        Cardinality({j \in Closed(order, its, act) : j < k})
            < ConcurrentModels - Cardinality(Hot(act))}}

Fewer(m, n) == IF m < n THEN m ELSE n

\* How many tasks of model m the pass starts.
Starts(m, order, its, act) ==
    IF m \in Hot(act) \cup Opened(order, its, act)
    THEN Fewer(Len(its[m]), PerModelConcurrency - act[m])
    ELSE 0

\* Mutant: the pass does not take place.
Pump_Skipped(order, its, act, exec, states) ==
    /\ queueOrder' = order
    /\ items' = its
    /\ active' = act
    /\ executing' = exec
    /\ pc' = states

\* Mutant: the started task is not taken out of its queue.
Pump_NotShifting(order, its, act, exec, states) ==
    LET n == [m \in Models |-> Starts(m, order, its, act)]
        started == [m \in Models |-> {its[m][i] : i \in 1 .. n[m]}]
    IN
    /\ queueOrder' = order
    /\ items' = its
    /\ active' = [m \in Models |-> act[m] + n[m]]
    /\ executing' = [m \in Models |-> exec[m] \cup started[m]]
    /\ pc' = [r \in Runs |->
                IF \E m \in Models : r \in started[m] THEN "running" ELSE states[r]]

Pump(order, its, act, exec, states) ==
    LET n == [m \in Models |-> Starts(m, order, its, act)]
        started == [m \in Models |-> {its[m][i] : i \in 1 .. n[m]}]
    IN
    /\ queueOrder' = order
    /\ items' = [m \in Models |-> SubSeq(its[m], n[m] + 1, Len(its[m]))]
    /\ active' = [m \in Models |-> act[m] + n[m]]
    /\ executing' = [m \in Models |-> exec[m] \cup started[m]]
    /\ pc' = [r \in Runs |->
                IF \E m \in Models : r \in started[m] THEN "running" ELSE states[r]]

-----------------------------------------------------------------------------
(* run().                                                                  *)

HasQueue(m) == m \in ToSet(queueOrder)

Enqueue(r, m) ==
    Pump(IF HasQueue(m) THEN queueOrder ELSE Append(queueOrder, m),
         [items EXCEPT ![m] = Append(@, r)],
         active, executing, [pc EXCEPT ![r] = "queued"])

\* chooseCandidate(): the first candidate that is loaded, or the first.
Chosen(list, loaded) ==
    LET hits == {i \in DOMAIN list : list[i] \in loaded} IN
    IF hits = {} THEN list[1]
    ELSE list[CHOOSE i \in hits : \A j \in hits : i <= j]

\* The call.  A single model is enqueued at once; several are chosen from
\* what the cache holds while it is fresh, else from a probe.
Run(r, list) ==
    /\ pc[r] = "idle"
    /\ \/ /\ Len(list) = 1
          /\ Enqueue(r, list[1])
          /\ UNCHANGED <<candidates, known>>
       \/ /\ Len(list) > 1
          /\ candidates' = [candidates EXCEPT ![r] = list]
          /\ known' = [known EXCEPT ![r] = psCache.names]
          /\ pc' = [pc EXCEPT ![r] = IF Fresh THEN "choosing" ELSE "probing"]
          /\ UNCHANGED <<queueOrder, items, active, executing>>
    /\ UNCHANGED <<asked, psCache, disposal>>

\* The probe answers.  It is cached as of the time it was sent, over whatever
\* another probe has cached meanwhile.
ProbeAnswers(r) ==
    /\ pc[r] = "probing"
    /\ \E names \in SUBSET Models :
        /\ psCache' = Cached(asked[r], names)
        /\ known' = [known EXCEPT ![r] = names]
    /\ pc' = [pc EXCEPT ![r] = "choosing"]
    /\ UNCHANGED <<candidates, asked, queueOrder, items, active, executing, disposal>>

\* The probe fails: nothing counts as loaded, and nothing is cached.
ProbeFails(r) ==
    /\ pc[r] = "probing"
    /\ known' = [known EXCEPT ![r] = {}]
    /\ pc' = [pc EXCEPT ![r] = "choosing"]
    /\ UNCHANGED <<candidates, asked, queueOrder, items, active, executing,
                   psCache, disposal>>

Enqueues(r) ==
    /\ pc[r] = "choosing"
    /\ Enqueue(r, Chosen(candidates[r], known[r]))
    /\ candidates' = [candidates EXCEPT ![r] = <<>>]
    /\ known' = [known EXCEPT ![r] = {}]
    /\ asked' = [asked EXCEPT ![r] = 0]
    /\ UNCHANGED <<psCache, disposal>>

-----------------------------------------------------------------------------
(* execute() and dispose().                                                *)

Idle(its, act) == \A m \in Models : its[m] = <<>> /\ act[m] = 0

\* The queue of m is deleted when its last task is over.
Kept(m, act) ==
    IF items[m] = <<>> /\ act[m] = 0
    THEN RemoveAt(queueOrder, CHOOSE i \in DOMAIN queueOrder : queueOrder[i] = m)
    ELSE queueOrder

\* Mutant: a task that rejects skips the bookkeeping.
Completes_Throwing(m, r) ==
    /\ r \in executing[m]
    /\ executing' = [executing EXCEPT ![m] = @ \ {r}]
    /\ pc' = [pc EXCEPT ![r] = "settled"]
    /\ UNCHANGED <<candidates, known, asked, queueOrder, items, active, psCache, disposal>>

\* The task resolves or rejects, which changes nothing for the others.
Completes(m, r) ==
    LET act == [active EXCEPT ![m] = @ - 1] IN
    /\ r \in executing[m]
    /\ disposal' =
        IF Idle(items, act)
        THEN [d \in Disposals |->
                IF disposal[d] = "waiting" THEN "resolved" ELSE disposal[d]]
        ELSE disposal
    /\ Pump(Kept(m, act), items, act,
            [executing EXCEPT ![m] = @ \ {r}], [pc EXCEPT ![r] = "settled"])
    /\ UNCHANGED <<candidates, known, asked, psCache>>

Dispose(d) ==
    /\ disposal[d] = "idle"
    /\ disposal' = [disposal EXCEPT
            ![d] = IF Idle(items, active) THEN "resolved" ELSE "waiting"]
    /\ UNCHANGED <<pc, candidates, known, asked, queueOrder, items, active,
                   executing, psCache>>

\* Date.now(): the cache and the probes on their way grow older.
Older(age) == Fewer(age + 1, PsCacheTtl + 1)

Tick ==
    /\ psCache' = Cached(Older(psCache.age), psCache.names)
    /\ asked' = [r \in Runs |-> IF pc[r] = "probing" THEN Older(asked[r]) ELSE asked[r]]
    /\ UNCHANGED <<pc, candidates, known, queueOrder, items, active, executing, disposal>>

-----------------------------------------------------------------------------

Next ==
    \/ \E r \in Runs :
        \/ \E list \in CandidateLists : Run(r, list)
        \/ ProbeAnswers(r)
        \/ ProbeFails(r)
        \/ Enqueues(r)
    \/ \E m \in Models, r \in Runs : Completes(m, r)
    \/ \E d \in Disposals : Dispose(d)
    \/ Tick

\* A probe is answered or rejects (the client bounds it by its timeout), a
\* promise job runs, and the tasks the caller hands over settle.
Settling ==
    \E r \in Runs :
        \/ ProbeAnswers(r)
        \/ ProbeFails(r)
        \/ Enqueues(r)
        \/ \E m \in Models : Completes(m, r)

Spec == Init /\ [][Next]_vars
FairSpec == Spec /\ WF_vars(Settling)

-----------------------------------------------------------------------------
(* Properties.                                                             *)

\* concurrentModels and perModelConcurrency are never exceeded, whatever
\* completes and arrives while a pass is under way.
BoundsHold ==
    /\ Cardinality(Hot(active)) <= ConcurrentModels
    /\ \A m \in Models : active[m] <= PerModelConcurrency

\* No wakeup is lost: a task waits only if its model is at its own limit, or
\* is not active while as many others are as may be.
NothingStartableWaits ==
    \A m \in Models : items[m] # <<>> =>
        \/ active[m] = PerModelConcurrency
        \/ active[m] = 0 /\ Cardinality(Hot(active)) = ConcurrentModels

\* Every task is queued once or in flight once, and active counts the latter.
EveryTaskInOnePlace ==
    /\ \A m \in Models : active[m] = Cardinality(executing[m])
    /\ \A r \in Runs :
        /\ pc[r] = "running" <=> \E m \in Models : r \in executing[m]
        /\ pc[r] = "queued" <=> \E m \in Models : \E i \in DOMAIN items[m] : items[m][i] = r
    /\ \A m, k \in Models : \A i \in DOMAIN items[m], j \in DOMAIN items[k] :
        items[m][i] = items[k][j] => m = k /\ i = j

\* The Map holds the models with work, each once: a long-lived scheduler does
\* not collect the queues of models it has finished with.
QueuesAreInUse ==
    /\ ToSet(queueOrder)
        = {m \in Models : active[m] > 0 \/ items[m] # <<>>}
    /\ IsInjective(queueOrder)

\* "One model stays hot until its queue drains": a model is left only when
\* none of its tasks waits, however old the tasks of the others are.
HotUntilDrained ==
    [][\A m \in Models : active[m] > 0 /\ active'[m] = 0 => items[m] = <<>>]_vars

\* A dispose() that waits has a task to wait for.
WaitersHaveWork ==
    (\E d \in Disposals : disposal[d] = "waiting") => ~Idle(items, active)

\* Once no more work arrives, every run() has settled and every dispose()
\* has resolved: no task is forgotten in a queue, no waiter in its list.
WorkRunsOut ==
    []<>(/\ \A r \in Runs : pc[r] \in {"idle", "settled"}
         /\ \A d \in Disposals : disposal[d] # "waiting")
=============================================================================
