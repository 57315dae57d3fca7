------------------- MODULE ModelAffinitySchedulerProofs -------------------
(***************************************************************************)
(* Proofs about the scheduler, for any number of models, runs and bounds.  *)
(* The argument is about one pass of pump(): given queues in which every   *)
(* task is placed once, it starts what may be started and nothing else.    *)
(* What has to be added to the properties is an order: the models that are *)
(* active come before the waiting ones in the Map, and a model that has    *)
(* just become idle with tasks left is the first the pass finds closed.    *)
(***************************************************************************)
EXTENDS ModelAffinityScheduler, TLAPS, FiniteSetTheorems, FunctionTheorems,
        SequenceTheorems, NaturalsInduction, WellFoundedInduction

-----------------------------------------------------------------------------
(* Counting: among the positions of a set, the first B.                    *)

\* A set of naturals that is not empty has a smallest element.
LEMMA Smallest ==
  ASSUME NEW S \in SUBSET Nat, S # {}
  PROVE \E x \in S : \A y \in S : x <= y
<1> DEFINE R == {ss \in Nat \X Nat : ss[1] < ss[2]}
<1>1. IsWellFoundedOn(R, Nat)
  BY NatLessThanWellFounded DEF OpToRel
<1>3. \A x, y \in Nat : x < y => <<x, y>> \in R
  OBVIOUS
<1> HIDE DEF R
<1>2. \E x \in S : \A y \in S : <<y,x>> \notin R
  BY <1>1, WFMin
<1>4. \A x \in S : x \in Nat
  OBVIOUS
<1>5. \A x, y \in S : <<y, x>> \notin R => x <= y
  BY <1>3, <1>4
<1> QED BY <1>2, <1>5

\* Those that have fewer than B before them are B, or all there are.
LEMMA FirstOnes ==
  ASSUME NEW C \in SUBSET Nat, IsFiniteSet(C), NEW B \in Nat
  PROVE  LET F == {k \in C : Cardinality({j \in C : j < k}) < B}
         IN  /\ IsFiniteSet(F)
             /\ Cardinality(F) <= B
             /\ F # C => Cardinality(F) = B
<1> DEFINE Before(k) == {j \in C : j < k}
           F == {k \in C : Cardinality(Before(k)) < B}
           f == [k \in F |-> Cardinality(Before(k))]
<1>0. \A k \in C : k \in Nat
  OBVIOUS
<1>1. \A k \in C : IsFiniteSet(Before(k)) /\ Cardinality(Before(k)) \in Nat
  BY FS_Subset, FS_CardinalityType
<1>2. IsFiniteSet(F) /\ Cardinality(F) \in Nat
  BY FS_Subset, FS_CardinalityType
<1>3. Cardinality(F) <= B
  <2>1. ASSUME NEW k \in C, NEW l \in C, k < l
        PROVE  Cardinality(Before(k)) < Cardinality(Before(l))
    <3>1. ASSUME NEW j \in Before(k) PROVE j \in Before(l)
      <4>1. j \in C /\ j < k
        OBVIOUS
      <4>2. j \in Nat /\ k \in Nat /\ l \in Nat
        BY <1>0, <4>1
      <4> QED BY <2>1, <4>1, <4>2
    <3>2. k \in Before(l) /\ k \notin Before(k)
      BY <1>0, <2>1
    <3>3. Before(k) \in SUBSET Before(l) /\ Before(l) # Before(k)
      BY <3>1, <3>2
    <3> HIDE DEF Before
    <3>4. /\ Cardinality(Before(k)) <= Cardinality(Before(l))
          /\ Cardinality(Before(l)) # Cardinality(Before(k))
      BY <1>1, <3>3, FS_Subset
    <3> QED BY <1>1, <3>4
  <2>2. f \in [F -> 0 .. B - 1]
    <3>1. \A k \in F : Cardinality(Before(k)) \in 0 .. B - 1
      <4> HIDE DEF Before
      <4> QED BY <1>1
    <3> HIDE DEF Before, F
    <3> QED BY <3>1
  <2>3. \A k, l \in F : f[k] = f[l] => k = l
    <3> SUFFICES ASSUME NEW k \in F, NEW l \in F, k # l PROVE f[k] # f[l]
      OBVIOUS
    <3>1. k < l \/ l < k
      OBVIOUS
    <3> HIDE DEF Before
    <3> QED BY <1>1, <2>1, <3>1
  <2>4. IsFiniteSet(0 .. B - 1) /\ Cardinality(0 .. B - 1) = B
    BY FS_Interval
  <2> HIDE DEF f, F
  <2>5. f \in Injection(F, 0 .. B - 1)
    BY <2>2, <2>3 DEF Injection, IsInjective
  <2> QED BY <2>4, <2>5, FS_Injection
<1>4. ASSUME F # C PROVE Cardinality(F) = B
  <2>1. PICK k \in C \ F : \A l \in C \ F : k <= l
    <3>1. C \ F \in SUBSET Nat /\ C \ F # {}
      BY <1>4
    <3> QED BY <3>1, Smallest
  <2>2. ASSUME NEW l \in Before(k) PROVE l \in F
    <3>1. l \in C /\ l < k
      OBVIOUS
    <3> HIDE DEF F
    <3> QED BY <1>0, <2>1, <3>1
  <2>3. Cardinality(Before(k)) <= Cardinality(F)
    BY <1>2, <2>2, FS_Subset
  <2>4. Cardinality(Before(k)) >= B
    BY <2>1, <1>1
  <2> HIDE DEF F, Before
  <2> QED BY <1>1, <1>2, <1>3, <2>1, <2>3, <2>4
<1> QED BY <1>2, <1>3, <1>4

-----------------------------------------------------------------------------
(* What a pass needs of the state it starts from.                          *)

States == {"idle", "probing", "choosing", "queued", "running", "settled"}

Typed(order, its, act, exec, states) ==
    /\ order \in Seq(Models)
    /\ its \in [Models -> Seq(Runs)]
    /\ act \in [Models -> Nat]
    /\ exec \in [Models -> SUBSET Runs]
    /\ states \in [Runs -> States]

Placed(its, act, exec, states) ==
    /\ \A m \in Models : act[m] = Cardinality(exec[m])
    /\ \A r \in Runs : states[r] = "running" <=> \E m \in Models : r \in exec[m]
    /\ \A r \in Runs : states[r] = "queued" <=>
            \E m \in Models : \E i \in DOMAIN its[m] : its[m][i] = r
    /\ \A m, k \in Models : \A i \in DOMAIN its[m], j \in DOMAIN its[k] :
        its[m][i] = its[k][j] => m = k /\ i = j
    /\ \A m, k \in Models : \A r \in exec[m] : r \in exec[k] => m = k

Mapped(order, its, act) ==
    /\ ToSet(order) = {m \in Models : act[m] > 0 \/ its[m] # <<>>}
    /\ IsInjective(order)

Bounded(act) ==
    /\ Cardinality(Hot(act)) <= ConcurrentModels
    /\ \A m \in Models : act[m] <= PerModelConcurrency

\* The active models come first in the Map.
HotFirst(order, act) ==
    \A i, j \in DOMAIN order : i < j /\ act[order[j]] > 0 => act[order[i]] > 0

\* As much of it as is left when a model has just become idle.
HotFirstButOne(order, act) ==
    \A i, j \in DOMAIN order :
        i < j /\ act[order[j]] > 0 /\ act[order[i]] = 0 =>
            /\ Cardinality(Hot(act)) < ConcurrentModels
            /\ \A k \in DOMAIN order : k < i => act[order[k]] > 0

Served(its, act) ==
    \A m \in Models : its[m] # <<>> =>
        \/ act[m] = PerModelConcurrency
        \/ act[m] = 0 /\ Cardinality(Hot(act)) = ConcurrentModels

Passable(order, its, act, exec, states) ==
    /\ Typed(order, its, act, exec, states)
    /\ Placed(its, act, exec, states)
    /\ Mapped(order, its, act)
    /\ Bounded(act)
    /\ HotFirstButOne(order, act)

-----------------------------------------------------------------------------
(* One pass.                                                               *)

\* What a pass starts of one model: its oldest tasks, as many as fit.
LEMMA StartsFit ==
  ASSUME NEW order, NEW its, NEW act, NEW exec, NEW states,
         Typed(order, its, act, exec, states), Bounded(act), NEW m \in Models
  PROVE  /\ Starts(m, order, its, act) \in 0 .. Len(its[m])
         /\ act[m] + Starts(m, order, its, act) <= PerModelConcurrency
         /\ m \in Hot(act) \cup Opened(order, its, act) =>
                \/ Starts(m, order, its, act) = Len(its[m])
                \/ act[m] + Starts(m, order, its, act) = PerModelConcurrency
<1>1. Len(its[m]) \in Nat /\ act[m] \in Nat /\ act[m] <= PerModelConcurrency
  BY LenProperties DEF Typed, Bounded
<1>2. PerModelConcurrency \in Nat
  BY BoundsAssumption
<1> QED BY <1>1, <1>2 DEF Starts, Fewer

\* What is left in the queue, and what was taken out of it.
LEMMA QueueSplits ==
  ASSUME NEW s \in Seq(Runs), NEW n \in 0 .. Len(s)
  PROVE  /\ SubSeq(s, n + 1, Len(s)) \in Seq(Runs)
         /\ Len(SubSeq(s, n + 1, Len(s))) = Len(s) - n
         /\ DOMAIN SubSeq(s, n + 1, Len(s)) = 1 .. Len(s) - n
         /\ \A i \in 1 .. Len(s) - n : SubSeq(s, n + 1, Len(s))[i] = s[n + i]
         /\ \A i \in 1 .. n : s[i] \in Runs
         /\ DOMAIN s = 1 .. Len(s)
<1>1. Len(s) \in Nat /\ DOMAIN s = 1 .. Len(s) /\ \A i \in 1 .. Len(s) : s[i] \in Runs
  BY LenProperties, ElementOfSeq
<1>2. /\ SubSeq(s, n + 1, Len(s)) \in Seq(Runs)
      /\ Len(SubSeq(s, n + 1, Len(s))) = IF n + 1 <= Len(s) THEN Len(s) - (n + 1) + 1 ELSE 0
      /\ \A i \in 1 .. Len(s) - (n + 1) + 1 : SubSeq(s, n + 1, Len(s))[i] = s[n + 1 + i - 1]
  <2>1. \A i \in n + 1 .. Len(s) : s[i] \in Runs
    BY <1>1
  <2>2. n + 1 \in Int /\ Len(s) \in Int
    BY <1>1
  <2> QED BY <2>1, <2>2, SubSeqProperties
<1>3. DOMAIN SubSeq(s, n + 1, Len(s)) = 1 .. Len(SubSeq(s, n + 1, Len(s)))
  BY <1>2, LenProperties
<1>4. /\ Len(SubSeq(s, n + 1, Len(s))) = Len(s) - n
      /\ \A i \in 1 .. Len(s) - n : SubSeq(s, n + 1, Len(s))[i] = s[n + i]
  <2> DEFINE rest == SubSeq(s, n + 1, Len(s))
  <2>0. n \in Int /\ 0 <= n /\ n <= Len(s) /\ Len(s) \in Int
    BY <1>1
  <2>1. Len(s) - (n + 1) + 1 = Len(s) - n /\ (n + 1 <= Len(s) \/ Len(s) - n = 0)
    BY <2>0
  <2>2. Len(rest) = Len(s) - n
    BY <1>1, <1>2, <2>1
  <2>3. ASSUME NEW i \in 1 .. Len(s) - n PROVE rest[i] = s[n + i]
    <3>1. rest[i] = s[n + 1 + i - 1]
      BY <1>2, <2>1
    <3>2. i \in Int /\ n + 1 + i - 1 = n + i
      BY <2>0
    <3> QED BY <3>1, <3>2
  <2> QED BY <2>2, <2>3
<1> QED BY <1>1, <1>2, <1>3, <1>4

\* The pass keeps the limits: what it opens is within what was free.
LEMMA OpenedFits ==
  ASSUME NEW order, NEW its, NEW act, NEW exec, NEW states,
         Passable(order, its, act, exec, states)
  PROVE  LET Both == Hot(act) \cup Opened(order, its, act) IN
         /\ IsFiniteSet(Both)
         /\ Cardinality(Both) <= ConcurrentModels
         /\ \A m \in Models \ Both : its[m] # <<>> => Cardinality(Both) = ConcurrentModels
<1> DEFINE C == Closed(order, its, act)
           B == ConcurrentModels - Cardinality(Hot(act))
           F == {k \in C : Cardinality({j \in C : j < k}) < B}
           O == Opened(order, its, act)
<1>1. IsFiniteSet(Hot(act)) /\ Cardinality(Hot(act)) \in Nat /\ B \in Nat
  BY ModelsAssumption, BoundsAssumption, FS_Subset, FS_CardinalityType
     DEF Hot, Passable, Bounded
<1>2. DOMAIN order = 1 .. Len(order) /\ Len(order) \in Nat /\ \A i \in DOMAIN order : order[i] \in Models
  BY LenProperties, ElementOfSeq DEF Passable, Typed
<1>3. C \in SUBSET Nat /\ IsFiniteSet(C) /\ C \subseteq DOMAIN order
  <2>1. C \in SUBSET (1 .. Len(order))
    BY <1>2 DEF Closed
  <2>2. IsFiniteSet(1 .. Len(order))
    BY <1>2, FS_Interval
  <2> QED BY <1>2, <2>1, <2>2, FS_Subset
<1>4. /\ IsFiniteSet(F) /\ Cardinality(F) <= B
      /\ F # C => Cardinality(F) = B
  <2> HIDE DEF C, B
  <2> QED BY <1>1, <1>3, FirstOnes
<1>5. O = {order[i] : i \in F}
  BY DEF Opened
<1>6. IsFiniteSet(O) /\ Cardinality(O) = Cardinality(F)
  <2> DEFINE f == [i \in F |-> order[i]]
  <2>1. f \in [F -> O]
    BY <1>5
  <2>2. \A i, j \in F : f[i] = f[j] => i = j
    <3>1. \A i, j \in DOMAIN order : order[i] = order[j] => i = j
      BY DEF Passable, Mapped, IsInjective
    <3>2. F \subseteq DOMAIN order
      BY <1>3
    <3> HIDE DEF F
    <3> QED BY <3>1, <3>2
  <2>3. \A m \in O : \E i \in F : f[i] = m
    BY <1>5
  <2> HIDE DEF f, F, O
  <2>4. f \in Bijection(F, O)
    BY <2>1, <2>2, <2>3 DEF Bijection, Injection, Surjection, IsInjective
  <2>5. ExistsBijection(F, O)
    BY <2>4 DEF ExistsBijection
  <2> QED BY <1>4, <2>5, FS_Bijection
<1>7. Hot(act) \cap O = {}
  <2>1. \A m \in O : act[m] = 0
    <3>1. \A i \in F : act[order[i]] = 0
      BY DEF Closed
    <3> HIDE DEF F, O
    <3> QED BY <1>5, <3>1
  <2> HIDE DEF O
  <2> QED BY <2>1 DEF Hot
<1>8. IsFiniteSet(Hot(act) \cup O)
      /\ Cardinality(Hot(act) \cup O) = Cardinality(Hot(act)) + Cardinality(F)
  <2> HIDE DEF F, O
  <2>1. Cardinality(Hot(act) \cap O) = 0
    BY <1>7, FS_EmptySet
  <2>2. Cardinality(F) \in Nat
    BY <1>4, FS_CardinalityType
  <2> QED BY <1>1, <1>6, <2>1, <2>2, FS_Union
<1>9. Cardinality(F) \in Nat /\ ConcurrentModels \in Nat
  BY <1>4, FS_CardinalityType, BoundsAssumption
<1>10. Cardinality(Hot(act) \cup O) <= ConcurrentModels
  <2> HIDE DEF F, O
  <2> QED BY <1>1, <1>4, <1>8, <1>9
<1>11. ASSUME NEW m \in Models \ (Hot(act) \cup O), its[m] # <<>>
       PROVE  Cardinality(Hot(act) \cup O) = ConcurrentModels
  <2>1. act[m] = 0
    BY <1>11 DEF Hot, Passable, Typed
  <2>2. PICK i \in DOMAIN order : order[i] = m
    BY <1>11 DEF Passable, Mapped, ToSet
  <2>3. i \in C
    BY <1>11, <2>1, <2>2 DEF Closed
  <2>4. i \notin F
    <3> HIDE DEF F, O
    <3> QED BY <1>5, <1>11, <2>2
  <2>5. Cardinality(F) = B
    <3> HIDE DEF F, C, B
    <3> QED BY <1>4, <2>3, <2>4
  <2> HIDE DEF F, O
  <2> QED BY <1>1, <1>8, <1>9, <2>5
<1> QED BY <1>8, <1>10, <1>11

\* Each task the pass starts comes from one place, so counting them is adding.
LEMMA StartedCount ==
  ASSUME NEW its, NEW act, NEW exec, NEW states, NEW order,
         Typed(order, its, act, exec, states), Placed(its, act, exec, states),
         NEW m \in Models, NEW n \in 0 .. Len(its[m])
  PROVE  LET started == {its[m][i] : i \in 1 .. n} IN
         /\ started \subseteq Runs
         /\ Cardinality(exec[m] \cup started) = act[m] + n
<1> DEFINE started == {its[m][i] : i \in 1 .. n}
           f == [i \in 1 .. n |-> its[m][i]]
<1>1. /\ its[m] \in Seq(Runs) /\ Len(its[m]) \in Nat /\ DOMAIN its[m] = 1 .. Len(its[m])
      /\ \A i \in 1 .. n : its[m][i] \in Runs /\ i \in DOMAIN its[m]
  BY QueueSplits, LenProperties DEF Typed
<1>2. started \subseteq Runs
  BY <1>1
<1>3. Cardinality(started) = n
  <2>1. f \in [1 .. n -> started]
    OBVIOUS
  <2>2. \A i, j \in 1 .. n : f[i] = f[j] => i = j
    BY <1>1 DEF Placed
  <2>3. \A r \in started : \E i \in 1 .. n : f[i] = r
    OBVIOUS
  <2> HIDE DEF f, started
  <2>4. f \in Bijection(1 .. n, started)
    BY <2>1, <2>2, <2>3 DEF Bijection, Injection, Surjection, IsInjective
  <2>5. ExistsBijection(1 .. n, started)
    BY <2>4 DEF ExistsBijection
  <2> QED BY <1>1, <2>5, FS_CountingElements
<1>4. exec[m] \cap started = {}
  <2>1. ASSUME NEW i \in 1 .. n, its[m][i] \in exec[m] PROVE FALSE
    <3>1. its[m][i] \in Runs /\ i \in DOMAIN its[m]
      BY <1>1
    <3>2. states[its[m][i]] = "queued" /\ states[its[m][i]] = "running"
      BY <2>1, <3>1 DEF Placed
    <3> QED BY <3>2
  <2> QED BY <2>1
<1>5. IsFiniteSet(exec[m]) /\ IsFiniteSet(started)
  BY <1>2, RunsAssumption, FS_Subset DEF Typed
<1>6. Cardinality(exec[m]) = act[m] /\ act[m] \in Nat
  BY DEF Placed, Typed
<1> HIDE DEF started
<1>7. Cardinality(exec[m] \cap started) = 0
  BY <1>4, FS_EmptySet
<1>8. Cardinality(exec[m] \cup started) = act[m] + n
  <2>1. Cardinality(exec[m] \cup started) = act[m] + n - 0
    BY <1>3, <1>5, <1>6, <1>7, FS_Union
  <2>2. n \in Int
    BY <1>1
  <2> QED BY <1>6, <2>1, <2>2
<1> QED BY <1>2, <1>8 DEF started

\* A pass leaves every task in one place, keeps the limits, and leaves nothing
\* waiting that it could have started.
LEMMA PumpKeeps ==
  ASSUME NEW order, NEW its, NEW act, NEW exec, NEW states,
         Passable(order, its, act, exec, states),
         Pump(order, its, act, exec, states)
  PROVE  /\ Typed(queueOrder', items', active', executing', pc')
         /\ Placed(items', active', executing', pc')
         /\ Mapped(queueOrder', items', active')
         /\ Bounded(active')
         /\ HotFirst(queueOrder', active')
         /\ Served(items', active')
         /\ \A m \in Models : active'[m] >= act[m]
         /\ \A m \in Models : act[m] = 0 /\ its[m] = <<>> => active'[m] = 0
         /\ ~Idle(its, act) => ~Idle(items', active')
         /\ \A i \in DOMAIN order :
                /\ its[order[i]] # <<>>
                /\ Cardinality(Hot(act)) < ConcurrentModels
                /\ \A k \in DOMAIN order : k < i => act[order[k]] > 0
                => active'[order[i]] > 0
<1> DEFINE n == [m \in Models |-> Starts(m, order, its, act)]
           started == [m \in Models |-> {its[m][i] : i \in 1 .. n[m]}]
           Both == Hot(act) \cup Opened(order, its, act)
<1>0. Typed(order, its, act, exec, states) /\ Placed(its, act, exec, states)
      /\ Mapped(order, its, act) /\ Bounded(act) /\ HotFirstButOne(order, act)
  BY DEF Passable
<1>1. /\ queueOrder' = order
      /\ items' = [m \in Models |-> SubSeq(its[m], n[m] + 1, Len(its[m]))]
      /\ active' = [m \in Models |-> act[m] + n[m]]
      /\ executing' = [m \in Models |-> exec[m] \cup started[m]]
      /\ pc' = [r \in Runs |->
            IF \E m \in Models : r \in started[m] THEN "running" ELSE states[r]]
  BY Zenon DEF Pump
<1>2. ASSUME NEW m \in Models
      PROVE  /\ its[m] \in Seq(Runs) /\ Len(its[m]) \in Nat
             /\ act[m] \in Nat
             /\ n[m] \in 0 .. Len(its[m])
             /\ act[m] + n[m] <= PerModelConcurrency
             /\ m \in Both => n[m] = Len(its[m]) \/ act[m] + n[m] = PerModelConcurrency
             /\ m \notin Both => n[m] = 0
  <2>1. n[m] = Starts(m, order, its, act)
    OBVIOUS
  <2>2. m \notin Both => Starts(m, order, its, act) = 0
    BY DEF Starts
  <2>3. /\ n[m] \in 0 .. Len(its[m])
        /\ act[m] + n[m] <= PerModelConcurrency
        /\ m \in Both => n[m] = Len(its[m]) \/ act[m] + n[m] = PerModelConcurrency
    <3> HIDE DEF n
    <3> QED BY <1>0, <2>1, StartsFit
  <2>4. its[m] \in Seq(Runs) /\ Len(its[m]) \in Nat /\ act[m] \in Nat
    BY <1>0, LenProperties DEF Typed
  <2> QED BY <2>1, <2>2, <2>3, <2>4
<1>3. ASSUME NEW m \in Models
      PROVE  /\ active'[m] = act[m] + n[m]
             /\ executing'[m] = exec[m] \cup started[m]
             /\ started[m] = {its[m][i] : i \in 1 .. n[m]}
             /\ started[m] \subseteq Runs
             /\ Cardinality(executing'[m]) = act[m] + n[m]
  <2>1. started[m] = {its[m][i] : i \in 1 .. n[m]}
    OBVIOUS
  <2>2. active'[m] = act[m] + n[m] /\ executing'[m] = exec[m] \cup started[m]
    BY <1>1
  <2>3. /\ started[m] \subseteq Runs
        /\ Cardinality(exec[m] \cup started[m]) = act[m] + n[m]
    <3>1. n[m] \in 0 .. Len(its[m])
      BY <1>2
    <3> HIDE DEF n, started
    <3> QED BY <1>0, <2>1, <3>1, StartedCount
  <2> QED BY <2>1, <2>2, <2>3
<1>4. ASSUME NEW m \in Models
      PROVE  /\ items'[m] \in Seq(Runs)
             /\ Len(items'[m]) = Len(its[m]) - n[m]
             /\ DOMAIN items'[m] = 1 .. Len(its[m]) - n[m]
             /\ \A i \in 1 .. Len(its[m]) - n[m] : items'[m][i] = its[m][n[m] + i]
             /\ DOMAIN its[m] = 1 .. Len(its[m])
  <2>1. items'[m] = SubSeq(its[m], n[m] + 1, Len(its[m]))
    BY <1>1
  <2> HIDE DEF n
  <2> QED BY <1>2, <2>1, QueueSplits
<1> HIDE DEF n, started, Both
<1>5. Typed(queueOrder', items', active', executing', pc')
  <2>1. items' \in [Models -> Seq(Runs)]
    BY <1>1, <1>4
  <2>2. active' \in [Models -> Nat]
    <3>1. \A m \in Models : act[m] + n[m] \in Nat
      BY <1>2
    <3> QED BY <1>1, <3>1
  <2>3. executing' \in [Models -> SUBSET Runs]
    <3>1. \A m \in Models : exec[m] \cup started[m] \in SUBSET Runs
      BY <1>0, <1>3 DEF Typed
    <3> QED BY <1>1, <3>1
  <2>4. pc' \in [Runs -> States]
    BY <1>0, <1>1 DEF Typed, States
  <2> QED BY <1>0, <1>1, <2>1, <2>2, <2>3, <2>4 DEF Typed
<1>6. Placed(items', active', executing', pc')
  <2>1. \A m \in Models : active'[m] = Cardinality(executing'[m])
    BY <1>3
  <2>2. ASSUME NEW r \in Runs
        PROVE  pc'[r] = IF \E m \in Models : r \in started[m] THEN "running" ELSE states[r]
    BY <1>1
  <2>3. ASSUME NEW m \in Models, NEW r \in started[m]
        PROVE  \E i \in DOMAIN its[m] : its[m][i] = r /\ i <= n[m]
    <3>1. PICK i \in 1 .. n[m] : its[m][i] = r
      BY <1>3
    <3> QED BY <1>2, <1>4, <3>1
  <2>4. ASSUME NEW r \in Runs
        PROVE  pc'[r] = "running" <=> \E m \in Models : r \in executing'[m]
    BY <1>0, <1>3, <2>2 DEF Placed
  <2>5. ASSUME NEW m \in Models, NEW i \in DOMAIN items'[m]
        PROVE  n[m] + i \in DOMAIN its[m] /\ items'[m][i] = its[m][n[m] + i] /\ i \in Nat
    <3>1. i \in 1 .. Len(its[m]) - n[m] /\ n[m] \in Nat /\ Len(its[m]) \in Nat
      BY <1>2, <1>4
    <3>2. n[m] + i \in 1 .. Len(its[m]) /\ i \in Nat
      BY <3>1
    <3> QED BY <1>4, <3>1, <3>2
  <2>6. ASSUME NEW r \in Runs
        PROVE  pc'[r] = "queued" <=>
                    \E m \in Models : \E i \in DOMAIN items'[m] : items'[m][i] = r
    <3>1. ASSUME pc'[r] = "queued"
          PROVE  \E m \in Models : \E i \in DOMAIN items'[m] : items'[m][i] = r
      <4>1. states[r] = "queued" /\ \A m \in Models : r \notin started[m]
        BY <2>2, <3>1
      <4>2. PICK m \in Models : \E i \in DOMAIN its[m] : its[m][i] = r
        BY <1>0, <4>1 DEF Placed
      <4>5. PICK i \in DOMAIN its[m] : its[m][i] = r
        BY <4>2
      <4>3. i \in 1 .. Len(its[m]) /\ i \notin 1 .. n[m]
        BY <1>3, <1>4, <4>1, <4>5
      <4>4. i - n[m] \in 1 .. Len(its[m]) - n[m] /\ n[m] + (i - n[m]) = i
        BY <1>2, <4>3
      <4> QED BY <1>4, <4>5, <4>4
    <3>2. ASSUME NEW m \in Models, NEW i \in DOMAIN items'[m], items'[m][i] = r
          PROVE  pc'[r] = "queued"
      <4>1. n[m] + i \in DOMAIN its[m] /\ its[m][n[m] + i] = r /\ i \in Nat
        BY <2>5, <3>2
      <4>2. states[r] = "queued"
        BY <1>0, <4>1 DEF Placed
      <4>3. ASSUME NEW k \in Models, r \in started[k] PROVE FALSE
        <5>1. PICK j \in DOMAIN its[k] : its[k][j] = r /\ j <= n[k]
          BY <2>3, <4>3
        <5>2. k = m /\ j = n[m] + i
          BY <1>0, <4>1, <5>1 DEF Placed
        <5>3. i \in 1 .. Len(its[m]) - n[m] /\ n[m] \in Nat
          BY <1>2, <1>4
        <5> QED BY <5>1, <5>2, <5>3
      <4> QED BY <2>2, <4>2, <4>3
    <3> QED BY <3>1, <3>2
  <2>7. ASSUME NEW m \in Models, NEW k \in Models, NEW i \in DOMAIN items'[m],
               NEW j \in DOMAIN items'[k], items'[m][i] = items'[k][j]
        PROVE  m = k /\ i = j
    <3>1. /\ n[m] + i \in DOMAIN its[m] /\ n[k] + j \in DOMAIN its[k]
          /\ its[m][n[m] + i] = its[k][n[k] + j] /\ i \in Nat /\ j \in Nat
      BY <2>5, <2>7
    <3>2. m = k /\ n[m] + i = n[k] + j
      BY <1>0, <3>1 DEF Placed
    <3> QED BY <1>2, <3>1, <3>2
  <2>8. ASSUME NEW m \in Models, NEW k \in Models, NEW r \in executing'[m],
               r \in executing'[k]
        PROVE  m = k
    <3>1. r \in exec[m] \cup started[m] /\ r \in exec[k] \cup started[k] /\ r \in Runs
      BY <1>0, <1>3, <2>8 DEF Typed
    <3>2. \A l \in Models : r \in started[l] => states[r] = "queued"
      BY <1>0, <2>3, <3>1 DEF Placed
    <3>3. \A l \in Models : r \in exec[l] => states[r] = "running"
      BY <1>0, <3>1 DEF Placed
    <3>4. r \in exec[m] /\ r \in exec[k] => m = k
      BY <1>0 DEF Placed
    <3>5. r \in started[m] /\ r \in started[k] => m = k
      BY <1>0, <2>3 DEF Placed
    <3> QED BY <3>1, <3>2, <3>3, <3>4, <3>5
  <2> QED BY <2>1, <2>4, <2>6, <2>7, <2>8 DEF Placed
<1>7. ASSUME NEW m \in Models
      PROVE  /\ m \in Both => active'[m] > 0
             /\ m \notin Both => act[m] = 0 /\ active'[m] = 0
             /\ m \in Opened(order, its, act) => act[m] = 0 /\ its[m] # <<>>
  <2>1. m \in Opened(order, its, act) => act[m] = 0 /\ its[m] # <<>>
    BY DEF Opened, Closed
  <2>2. m \in Hot(act) <=> act[m] > 0
    BY DEF Hot
  <2>3. its[m] # <<>> => Len(its[m]) > 0
    BY <1>2, EmptySeq
  <2>4. PerModelConcurrency > 0
    BY BoundsAssumption
  <2> QED BY <1>2, <1>3, <2>1, <2>2, <2>3, <2>4 DEF Both
<1>8. Hot(active') = Both
  <2>1. Both \subseteq Models
    <3>1. \A i \in DOMAIN order : order[i] \in Models
      BY <1>0, LenProperties, ElementOfSeq DEF Typed
    <3> QED BY <3>1 DEF Both, Hot, Opened, Closed
  <2> QED BY <1>7, <2>1 DEF Hot
<1>9. /\ Cardinality(Both) <= ConcurrentModels
      /\ \A m \in Models \ Both : its[m] # <<>> => Cardinality(Both) = ConcurrentModels
  BY OpenedFits DEF Both
<1>10. Bounded(active')
  BY <1>2, <1>3, <1>8, <1>9 DEF Bounded
<1>11. ASSUME NEW m \in Models, items'[m] # <<>>
       PROVE  its[m] # <<>> /\ n[m] # Len(its[m])
  <2>1. Len(items'[m]) # 0
    BY <1>4, <1>11, EmptySeq
  <2>2. its[m] = <<>> => Len(its[m]) = 0
    BY EmptySeq
  <2> QED BY <1>2, <1>4, <2>1, <2>2
<1>12. Served(items', active')
  <2> SUFFICES ASSUME NEW m \in Models, items'[m] # <<>>
               PROVE  \/ active'[m] = PerModelConcurrency
                      \/ active'[m] = 0 /\ Cardinality(Hot(active')) = ConcurrentModels
    BY DEF Served
  <2>1. CASE m \in Both
    BY <1>2, <1>3, <1>11, <2>1
  <2>2. CASE m \notin Both
    BY <1>7, <1>8, <1>9, <1>11, <2>2
  <2> QED BY <2>1, <2>2
<1>13. ASSUME NEW m \in Models
       PROVE  (active'[m] > 0 \/ items'[m] # <<>>) <=> (act[m] > 0 \/ its[m] # <<>>)
  <2>1. active'[m] > 0 => act[m] > 0 \/ its[m] # <<>>
    BY <1>7 DEF Both, Hot
  <2>2. act[m] > 0 => active'[m] > 0
    BY <1>2, <1>3
  <2>3. CASE its[m] # <<>> /\ n[m] = 0
    <3>1. items'[m] = its[m]
      <4>1. items'[m] = SubSeq(its[m], 1, Len(its[m]))
        BY <1>1, <2>3
      <4> QED BY <1>2, <4>1, SubSeqFull
    <3> QED BY <2>3, <3>1
  <2>4. n[m] # 0 => active'[m] > 0
    BY <1>2, <1>3
  <2> QED BY <1>11, <2>1, <2>2, <2>3, <2>4
<1>14. Mapped(queueOrder', items', active')
  BY <1>0, <1>1, <1>13 DEF Mapped
<1>15. ASSUME NEW i \in DOMAIN order, its[order[i]] # <<>>,
              Cardinality(Hot(act)) < ConcurrentModels,
              \A k \in DOMAIN order : k < i => act[order[k]] > 0
       PROVE  active'[order[i]] > 0
  <2>1. order[i] \in Models
    BY <1>0, LenProperties, ElementOfSeq DEF Typed
  <2>2. CASE act[order[i]] > 0
    BY <1>2, <1>3, <2>1, <2>2
  <2>3. CASE act[order[i]] = 0
    <3> DEFINE Before == {l \in Closed(order, its, act) : l < i}
    <3>1. i \in Closed(order, its, act)
      BY <1>15, <2>3 DEF Closed
    <3>2. Before = {}
      BY <1>15 DEF Closed
    <3>3. Cardinality(Before) = 0
      BY <3>2, FS_EmptySet
    <3>4. Cardinality(Hot(act)) \in Nat /\ ConcurrentModels \in Nat
      BY ModelsAssumption, BoundsAssumption, FS_Subset, FS_CardinalityType DEF Hot
    <3>5. Cardinality(Before) < ConcurrentModels - Cardinality(Hot(act))
      BY <1>15, <3>3, <3>4
    <3>6. order[i] \in Opened(order, its, act)
      BY <3>1, <3>5 DEF Opened
    <3> QED BY <1>7, <2>1, <3>6 DEF Both
  <2> QED BY <1>0, <2>1, <2>2, <2>3 DEF Typed
<1>18. HotFirst(queueOrder', active')
  <2> SUFFICES ASSUME NEW i \in DOMAIN order, NEW j \in DOMAIN order, i < j,
                      active'[order[j]] > 0, active'[order[i]] = 0
               PROVE  FALSE
    <3>1. \A k \in DOMAIN order : order[k] \in Models
      BY <1>0, LenProperties, ElementOfSeq DEF Typed
    <3>2. \A m \in Models : active'[m] > 0 \/ active'[m] = 0
      BY <1>7
    <3> QED BY <1>1, <3>1, <3>2 DEF HotFirst
  <2>1. /\ order[i] \in Models /\ order[j] \in Models
        /\ i \in Nat /\ j \in Nat /\ DOMAIN order = 1 .. Len(order)
    BY <1>0, LenProperties, ElementOfSeq DEF Typed
  <2>2. order[j] \in Both /\ order[i] \notin Both /\ act[order[i]] = 0
    BY <1>7, <2>1
  <2>3. its[order[i]] # <<>>
    <3>1. order[i] \in ToSet(order)
      BY DEF ToSet
    <3> QED BY <1>0, <2>1, <2>2, <3>1 DEF Mapped
  <2> DEFINE C == Closed(order, its, act)
             B == ConcurrentModels - Cardinality(Hot(act))
             Before(k) == {l \in C : l < k}
  <2>4. i \in C
    BY <2>2, <2>3 DEF Closed
  <2>5. ~ (Cardinality(Before(i)) < B)
    BY <2>2, <2>4 DEF Both, Opened
  <2>6. IsFiniteSet(C) /\ B \in Int
    <3>1. IsFiniteSet(DOMAIN order)
      BY <1>0, LenProperties, FS_Interval DEF Typed
    <3>2. IsFiniteSet(C)
      BY <3>1, FS_Subset DEF Closed
    <3>3. IsFiniteSet(Hot(act))
      BY ModelsAssumption, FS_Subset DEF Hot
    <3> QED BY <3>2, <3>3, FS_CardinalityType, BoundsAssumption
  <2>7. CASE act[order[j]] > 0
    <3>1. /\ Cardinality(Hot(act)) < ConcurrentModels
          /\ \A k \in DOMAIN order : k < i => act[order[k]] > 0
      BY <1>0, <2>2, <2>7 DEF HotFirstButOne
    <3>2. active'[order[i]] > 0
      BY <1>15, <2>3, <3>1
    <3> QED BY <3>2
  <2>8. CASE ~ (act[order[j]] > 0)
    <3>1. PICK k \in DOMAIN order : /\ order[k] = order[j]
                                   /\ k \in C
                                   /\ Cardinality(Before(k)) < B
      BY <2>2, <2>8 DEF Both, Hot, Opened, Closed
    <3>2. k = j
      BY <1>0, <3>1 DEF Mapped, IsInjective
    <3>3. Before(i) \in SUBSET Before(j)
      <4>1. ASSUME NEW l \in Before(i) PROVE l \in Before(j)
        <5>1. l \in DOMAIN order /\ l \in C /\ l < i
          BY DEF Closed
        <5>2. l \in Nat
          BY <2>1, <5>1
        <5>3. l < j
          BY <2>1, <5>1, <5>2
        <5> QED BY <5>1, <5>3
      <4> QED BY <4>1
    <3>4. IsFiniteSet(Before(j)) /\ Before(j) \in SUBSET C
      BY <2>6, FS_Subset
    <3> HIDE DEF Before, C, B
    <3>5. /\ IsFiniteSet(Before(i))
          /\ Cardinality(Before(i)) <= Cardinality(Before(j))
      BY <3>3, <3>4, FS_Subset
    <3>6. Cardinality(Before(i)) \in Nat /\ Cardinality(Before(j)) \in Nat
      BY <3>4, <3>5, FS_CardinalityType
    <3> QED BY <2>5, <2>6, <3>1, <3>2, <3>5, <3>6
  <2> QED BY <2>7, <2>8
<1>16. \A m \in Models : /\ active'[m] >= act[m]
                         /\ act[m] = 0 /\ its[m] = <<>> => active'[m] = 0
  <2> TAKE m \in Models
  <2>1. active'[m] >= act[m]
    BY <1>2, <1>3
  <2>2. act[m] = 0 /\ its[m] = <<>> => active'[m] = 0
    BY <1>7 DEF Both, Hot
  <2> QED BY <2>1, <2>2
<1>17. ASSUME ~ Idle(its, act) PROVE ~ Idle(items', active')
  <2>1. PICK m \in Models : its[m] # <<>> \/ act[m] # 0
    BY <1>17 DEF Idle
  <2>2. active'[m] > 0 \/ items'[m] # <<>>
    BY <1>2, <1>13, <2>1
  <2> QED BY <1>3, <2>2 DEF Idle
<1> QED BY <1>5, <1>6, <1>10, <1>12, <1>14, <1>15, <1>16, <1>17, <1>18

-----------------------------------------------------------------------------
(* The Map with one key less.                                              *)

\* Deleting a key keeps the order of the others.
LEMMA RemovalKeepsOrder ==
  ASSUME NEW s \in Seq(Models), NEW p \in DOMAIN s
  PROVE  /\ RemoveAt(s, p) \in Seq(Models)
         /\ DOMAIN RemoveAt(s, p) = 1 .. Len(s) - 1
         /\ \A i \in 1 .. Len(s) - 1 :
                RemoveAt(s, p)[i] = IF i < p THEN s[i] ELSE s[i + 1]
<1> DEFINE front == SubSeq(s, 1, p - 1)
           back == SubSeq(s, p + 1, Len(s))
           L == Len(s)
<1>1. /\ L \in Nat /\ DOMAIN s = 1 .. L /\ p \in 1 .. L
      /\ \A i \in 1 .. L : s[i] \in Models
  BY LenProperties, ElementOfSeq
<1> HIDE DEF L
<1>2. /\ front \in Seq(Models) /\ Len(front) = p - 1
      /\ \A i \in 1 .. p - 1 : front[i] = s[i]
  <2>1. \A i \in 1 .. p - 1 : s[i] \in Models
    BY <1>1
  <2>2. 1 \in Int /\ p - 1 \in Int
    BY <1>1
  <2>3. /\ front \in Seq(Models)
        /\ Len(front) = IF 1 <= p - 1 THEN p - 1 - 1 + 1 ELSE 0
        /\ \A i \in 1 .. p - 1 - 1 + 1 : front[i] = s[1 + i - 1]
    BY <2>1, <2>2, SubSeqProperties
  <2> QED BY <1>1, <2>3
<1>3. /\ back \in Seq(Models) /\ Len(back) = L - p
      /\ \A i \in 1 .. L - p : back[i] = s[p + i]
  <2>1. \A i \in p + 1 .. L : s[i] \in Models
    BY <1>1
  <2>2. p + 1 \in Int /\ L \in Int
    BY <1>1
  <2>3. /\ back \in Seq(Models)
        /\ Len(back) = IF p + 1 <= L THEN L - (p + 1) + 1 ELSE 0
        /\ \A i \in 1 .. L - (p + 1) + 1 : back[i] = s[p + 1 + i - 1]
    BY <2>1, <2>2, SubSeqProperties DEF L
  <2>4. L - (p + 1) + 1 = L - p /\ (p + 1 <= L \/ L - p = 0)
    BY <1>1
  <2>5. ASSUME NEW i \in 1 .. L - p PROVE back[i] = s[p + i]
    <3>1. back[i] = s[p + 1 + i - 1]
      BY <2>3, <2>4
    <3>2. p + 1 + i - 1 = p + i
      BY <1>1
    <3> QED BY <3>1, <3>2
  <2> QED BY <1>1, <2>3, <2>4, <2>5
<1>4. RemoveAt(s, p) = front \o back
  BY DEF RemoveAt
<1> HIDE DEF front, back
<1>5. /\ front \o back \in Seq(Models)
      /\ Len(front \o back) = Len(front) + Len(back)
      /\ \A i \in 1 .. Len(front) + Len(back) :
            (front \o back)[i] = IF i <= Len(front) THEN front[i] ELSE back[i - Len(front)]
  BY <1>2, <1>3, ConcatProperties
<1>6. Len(front) + Len(back) = L - 1
  BY <1>1, <1>2, <1>3
<1>7. DOMAIN (front \o back) = 1 .. L - 1
  BY <1>5, <1>6, LenProperties
<1>8. ASSUME NEW i \in 1 .. L - 1
      PROVE  (front \o back)[i] = IF i < p THEN s[i] ELSE s[i + 1]
  <2>1. CASE i < p
    <3>1. i \in 1 .. p - 1 /\ i <= Len(front)
      BY <1>1, <1>2, <2>1
    <3> QED BY <1>2, <1>5, <1>6, <2>1, <3>1
  <2>2. CASE ~ (i < p)
    <3>1. ~ (i <= Len(front)) /\ i - Len(front) = i - p + 1 /\ i - p + 1 \in 1 .. L - p
          /\ p + (i - p + 1) = i + 1
      BY <1>1, <1>2, <2>2
    <3>2. (front \o back)[i] = back[i - p + 1]
      BY <1>5, <1>6, <3>1
    <3>3. back[i - p + 1] = s[i + 1]
      BY <1>3, <3>1
    <3> QED BY <2>2, <3>2, <3>3
  <2> QED BY <2>1, <2>2
<1> QED BY <1>4, <1>5, <1>7, <1>8 DEF L

-----------------------------------------------------------------------------
(* The invariant and the two operations that end in a pass.                *)

Named ==
    \A r \in Runs : pc[r] \in {"probing", "choosing"} => candidates[r] \in CandidateLists

Scheduled ==
    /\ Typed(queueOrder, items, active, executing, pc)
    /\ Placed(items, active, executing, pc)
    /\ Mapped(queueOrder, items, active)
    /\ Bounded(active)
    /\ HotFirst(queueOrder, active)

IInv ==
    /\ TypeOK
    /\ Named
    /\ Scheduled
    /\ Served(items, active)
    /\ WaitersHaveWork

\* A new task goes to the end of its model's queue, a new model to the end of
\* the Map: the pass finds the state it needs.
LEMMA EnqueuePassable ==
  ASSUME Scheduled, NEW r \in Runs, NEW m \in Models,
         pc[r] \notin {"queued", "running"}
  PROVE  Passable(IF HasQueue(m) THEN queueOrder ELSE Append(queueOrder, m),
                  [items EXCEPT ![m] = Append(@, r)],
                  active, executing, [pc EXCEPT ![r] = "queued"])
<1> DEFINE order == IF HasQueue(m) THEN queueOrder ELSE Append(queueOrder, m)
           its == [items EXCEPT ![m] = Append(@, r)]
           states == [pc EXCEPT ![r] = "queued"]
<1>0. /\ Typed(queueOrder, items, active, executing, pc)
      /\ Placed(items, active, executing, pc)
      /\ Mapped(queueOrder, items, active)
      /\ Bounded(active)
      /\ HotFirst(queueOrder, active)
  BY DEF Scheduled
<1>1. ASSUME NEW k \in Models
      PROVE  /\ items[k] \in Seq(Runs) /\ Len(items[k]) \in Nat
             /\ DOMAIN items[k] = 1 .. Len(items[k])
             /\ its[k] = IF k = m THEN Append(items[m], r) ELSE items[k]
  BY <1>0, LenProperties DEF Typed
<1>2. /\ its[m] \in Seq(Runs) /\ its[m] # <<>>
      /\ DOMAIN its[m] = 1 .. Len(items[m]) + 1
      /\ \A i \in 1 .. Len(items[m]) : its[m][i] = items[m][i]
      /\ its[m][Len(items[m]) + 1] = r
  <2>1. its[m] = Append(items[m], r)
    BY <1>1
  <2>2. /\ its[m] \in Seq(Runs) /\ its[m] # <<>> /\ Len(its[m]) = Len(items[m]) + 1
        /\ \A i \in 1 .. Len(items[m]) : its[m][i] = items[m][i]
        /\ its[m][Len(items[m]) + 1] = r
    <3> HIDE DEF its
    <3> QED BY <1>1, <2>1, AppendProperties
  <2> QED BY <2>2, LenProperties
<1>3. /\ queueOrder \in Seq(Models) /\ Len(queueOrder) \in Nat
      /\ DOMAIN queueOrder = 1 .. Len(queueOrder)
  BY <1>0, LenProperties DEF Typed
<1>4. \/ HasQueue(m) /\ order = queueOrder
      \/ /\ ~ HasQueue(m)
         /\ order \in Seq(Models)
         /\ DOMAIN order = 1 .. Len(queueOrder) + 1
         /\ \A i \in 1 .. Len(queueOrder) : order[i] = queueOrder[i]
         /\ order[Len(queueOrder) + 1] = m
  <2>1. CASE ~ HasQueue(m)
    <3>1. order = Append(queueOrder, m)
      BY <2>1
    <3>2. /\ order \in Seq(Models) /\ Len(order) = Len(queueOrder) + 1
          /\ \A i \in 1 .. Len(queueOrder) : order[i] = queueOrder[i]
          /\ order[Len(queueOrder) + 1] = m
      <4> HIDE DEF order
      <4> QED BY <1>3, <3>1, AppendProperties
    <3> QED BY <2>1, <3>2, LenProperties
  <2> QED BY <2>1
<1>5. \A k \in Models \ {m} : its[k] = items[k]
  BY <1>1
<1>6. states \in [Runs -> States] /\ states[r] = "queued"
      /\ \A q \in Runs \ {r} : states[q] = pc[q]
  BY <1>0 DEF Typed, States
<1>7. its \in [Models -> Seq(Runs)]
  <2>1. Append(items[m], r) \in Seq(Runs)
    BY <1>1, AppendProperties
  <2> QED BY <1>0, <2>1 DEF Typed
<1> HIDE DEF order, its, states
<1>8. Typed(order, its, active, executing, states)
  BY <1>0, <1>4, <1>6, <1>7 DEF Typed
<1>9. r \in Runs /\ \A k \in Models : r \notin executing[k] /\ \A i \in DOMAIN items[k] : items[k][i] # r
  BY <1>0 DEF Placed
<1>10. Placed(its, active, executing, states)
  <2>1. \A q \in Runs : states[q] = "running" <=> \E k \in Models : q \in executing[k]
    BY <1>0, <1>6, <1>9 DEF Placed
  <2>2. ASSUME NEW k \in Models, NEW i \in DOMAIN its[k]
        PROVE  \/ i \in DOMAIN items[k] /\ its[k][i] = items[k][i]
               \/ k = m /\ i = Len(items[m]) + 1 /\ its[k][i] = r
    BY <1>1, <1>2, <1>5
  <2>3. ASSUME NEW k \in Models, NEW i \in DOMAIN items[k]
        PROVE  i \in DOMAIN its[k] /\ its[k][i] = items[k][i]
    BY <1>1, <1>2, <1>5
  <2>4. ASSUME NEW q \in Runs
        PROVE  states[q] = "queued" <=> \E k \in Models : \E i \in DOMAIN its[k] : its[k][i] = q
    <3>1. CASE q = r
      <4>1. Len(items[m]) + 1 \in DOMAIN its[m]
        BY <1>1, <1>2
      <4> QED BY <1>2, <1>6, <3>1, <4>1
    <3>2. CASE q # r
      <4>1. pc[q] = "queued" <=> \E k \in Models : \E i \in DOMAIN items[k] : items[k][i] = q
        BY <1>0 DEF Placed
      <4> QED BY <1>6, <2>2, <2>3, <3>2, <4>1
    <3> QED BY <3>1, <3>2
  <2>5. ASSUME NEW j \in Models, NEW k \in Models, NEW i \in DOMAIN its[j],
               NEW l \in DOMAIN its[k], its[j][i] = its[k][l]
        PROVE  j = k /\ i = l
    <3>1. CASE its[j][i] = r
      BY <1>9, <2>2, <2>5, <3>1
    <3>2. CASE its[j][i] # r
      <4>1. i \in DOMAIN items[j] /\ l \in DOMAIN items[k] /\ items[j][i] = items[k][l]
        BY <2>2, <2>5, <3>2
      <4> QED BY <1>0, <4>1 DEF Placed
    <3> QED BY <3>1, <3>2
  <2> QED BY <1>0, <2>1, <2>4, <2>5 DEF Placed
<1>11. Mapped(order, its, active)
  <2>1. ASSUME NEW k \in Models
        PROVE  (active[k] > 0 \/ its[k] # <<>>) <=> (k = m \/ active[k] > 0 \/ items[k] # <<>>)
    BY <1>2, <1>5
  <2>2. ToSet(queueOrder) = {k \in Models : active[k] > 0 \/ items[k] # <<>>}
        /\ IsInjective(queueOrder)
    BY <1>0 DEF Mapped
  <2>3. ToSet(order) = ToSet(queueOrder) \cup {m}
    <3>1. CASE HasQueue(m)
      BY <1>4, <3>1 DEF HasQueue
    <3>2. CASE ~ HasQueue(m)
      <4>0. \A n \in Nat : 1 .. n + 1 = (1 .. n) \cup {n + 1}
        OBVIOUS
      <4>1. DOMAIN order = DOMAIN queueOrder \cup {Len(queueOrder) + 1}
        BY <1>3, <1>4, <3>2, <4>0
      <4> QED BY <1>3, <1>4, <3>2, <4>1 DEF ToSet
    <3> QED BY <3>1, <3>2
  <2>4. IsInjective(order)
    <3>1. CASE HasQueue(m)
      BY <1>4, <2>2, <3>1
    <3>2. CASE ~ HasQueue(m)
      <4>1. \A i \in DOMAIN queueOrder : queueOrder[i] # m
        BY <3>2 DEF HasQueue, ToSet
      <4>2. \A i \in DOMAIN order : \/ i \in DOMAIN queueOrder /\ order[i] = queueOrder[i]
                                    \/ i = Len(queueOrder) + 1 /\ order[i] = m
        BY <1>3, <1>4, <3>2
      <4>3. \A i, j \in DOMAIN queueOrder : queueOrder[i] = queueOrder[j] => i = j
        BY <2>2 DEF IsInjective
      <4>4. \A i, j \in DOMAIN order : order[i] = order[j] => i = j
        BY <4>1, <4>2, <4>3
      <4> QED BY <4>4 DEF IsInjective
    <3> QED BY <3>1, <3>2
  <2> QED BY <2>1, <2>2, <2>3, <2>4 DEF Mapped
<1>12. HotFirstButOne(order, active)
  <2> SUFFICES ASSUME NEW i \in DOMAIN order, NEW j \in DOMAIN order, i < j,
                      active[order[j]] > 0, active[order[i]] = 0
               PROVE  FALSE
    BY DEF HotFirstButOne
  <2>1. CASE HasQueue(m)
    BY <1>0, <1>3, <1>4, <2>1 DEF HotFirst
  <2>2. CASE ~ HasQueue(m)
    <3>1. active[m] = 0
      <4>1. m \notin ToSet(queueOrder)
        BY <2>2 DEF HasQueue
      <4> QED BY <1>0, <4>1 DEF Mapped, Typed
    <3>2. j # Len(queueOrder) + 1
      BY <1>4, <2>2, <3>1
    <3>3. j \in DOMAIN queueOrder /\ i \in DOMAIN queueOrder
      BY <1>3, <1>4, <2>2, <3>2
    <3>4. order[i] = queueOrder[i] /\ order[j] = queueOrder[j]
      BY <1>3, <1>4, <2>2, <3>3
    <3> QED BY <1>0, <3>3, <3>4 DEF HotFirst
  <2> QED BY <2>1, <2>2
<1>13. Passable(order, its, active, executing, states)
  BY <1>0, <1>8, <1>10, <1>11, <1>12 DEF Passable
<1> QED BY <1>13 DEF order, its, states
\* The task that is over leaves the flight; its queue leaves the Map if it was
\* the last, and may else be the one queue that is closed before an open one.
LEMMA CompletePassable ==
  ASSUME Scheduled, NEW m \in Models, NEW r \in executing[m], NEW act,
         act = [active EXCEPT ![m] = @ - 1]
  PROVE  /\ Passable(Kept(m, act), items, act,
                     [executing EXCEPT ![m] = @ \ {r}], [pc EXCEPT ![r] = "settled"])
         /\ \A k \in Models \ {m} : act[k] = active[k]
         /\ act[m] = active[m] - 1 /\ active[m] > 0
         /\ act[m] = 0 /\ items[m] # <<>> =>
                /\ Cardinality(Hot(act)) < ConcurrentModels
                /\ \E i \in DOMAIN Kept(m, act) :
                    /\ Kept(m, act)[i] = m
                    /\ \A k \in DOMAIN Kept(m, act) : k < i => act[Kept(m, act)[k]] > 0
<1> DEFINE order == Kept(m, act)
           exec == [executing EXCEPT ![m] = @ \ {r}]
           states == [pc EXCEPT ![r] = "settled"]
           p == CHOOSE i \in DOMAIN queueOrder : queueOrder[i] = m
<1>0. /\ Typed(queueOrder, items, active, executing, pc)
      /\ Placed(items, active, executing, pc)
      /\ Mapped(queueOrder, items, active)
      /\ Bounded(active)
      /\ HotFirst(queueOrder, active)
  BY DEF Scheduled
<1>1. r \in Runs /\ pc[r] = "running"
  BY <1>0 DEF Typed, Placed
<1>2. /\ IsFiniteSet(executing[m]) /\ Cardinality(executing[m]) = active[m]
      /\ Cardinality(executing[m] \ {r}) = active[m] - 1
      /\ active[m] \in Nat /\ active[m] > 0
  <2>1. IsFiniteSet(executing[m])
    BY <1>0, RunsAssumption, FS_Subset DEF Typed
  <2>2. Cardinality(executing[m]) = active[m] /\ active[m] \in Nat
    BY <1>0 DEF Placed, Typed
  <2>3. Cardinality(executing[m] \ {r}) = active[m] - 1
    BY <2>1, <2>2, FS_RemoveElement
  <2>4. Cardinality(executing[m]) # 0
    BY <2>1, FS_EmptySet
  <2> QED BY <2>1, <2>2, <2>3, <2>4
<1>3. /\ act \in [Models -> Nat] /\ act[m] = active[m] - 1
      /\ \A k \in Models \ {m} : act[k] = active[k]
  BY <1>0, <1>2 DEF Typed
<1>4. /\ exec \in [Models -> SUBSET Runs] /\ exec[m] = executing[m] \ {r}
      /\ \A k \in Models \ {m} : exec[k] = executing[k]
  BY <1>0 DEF Typed
<1>5. /\ states \in [Runs -> States] /\ states[r] = "settled"
      /\ \A q \in Runs \ {r} : states[q] = pc[q]
  BY <1>0, <1>1 DEF Typed, States
<1>6. p \in DOMAIN queueOrder /\ queueOrder[p] = m
  <2>1. \E i \in DOMAIN queueOrder : queueOrder[i] = m
    BY <1>0, <1>2 DEF Mapped, ToSet
  <2> QED BY <2>1
<1>7. /\ queueOrder \in Seq(Models) /\ Len(queueOrder) \in Nat
      /\ DOMAIN queueOrder = 1 .. Len(queueOrder)
      /\ \A i, j \in DOMAIN queueOrder : queueOrder[i] = queueOrder[j] => i = j
      /\ \A i \in DOMAIN queueOrder : queueOrder[i] \in Models
  BY <1>0, LenProperties, ElementOfSeq DEF Typed, Mapped, IsInjective
<1>8. ASSUME items[m] = <<>>, act[m] = 0
      PROVE  /\ Typed(order, items, act, exec, states)
             /\ Mapped(order, items, act)
             /\ HotFirstButOne(order, act)
  <2>1. order = RemoveAt(queueOrder, p)
    BY <1>8 DEF Kept
  <2> HIDE DEF order, p
  <2>2. /\ order \in Seq(Models) /\ DOMAIN order = 1 .. Len(queueOrder) - 1
        /\ \A i \in 1 .. Len(queueOrder) - 1 :
              order[i] = IF i < p THEN queueOrder[i] ELSE queueOrder[i + 1]
    BY <1>6, <1>7, <2>1, RemovalKeepsOrder
  <2> DEFINE old(i) == IF i < p THEN i ELSE i + 1
  <2>3. ASSUME NEW i \in DOMAIN order
        PROVE  /\ old(i) \in DOMAIN queueOrder /\ old(i) # p
               /\ order[i] = queueOrder[old(i)]
               /\ i \in Nat
    BY <1>6, <1>7, <2>2
  <2>4. ASSUME NEW i \in DOMAIN order, NEW j \in DOMAIN order
        PROVE  /\ old(i) = old(j) => i = j
               /\ i < j => old(i) < old(j)
    BY <1>6, <1>7, <2>2
  <2>5. ASSUME NEW i \in DOMAIN queueOrder, i # p
        PROVE  \E j \in DOMAIN order : old(j) = i
    <3>1. CASE i < p
      <4>1. i \in DOMAIN order /\ old(i) = i
        BY <1>6, <1>7, <2>2, <3>1
      <4> QED BY <4>1
    <3>2. CASE ~ (i < p)
      <4>1. i - 1 \in DOMAIN order /\ old(i - 1) = i
        BY <1>6, <1>7, <2>2, <2>5, <3>2
      <4> QED BY <4>1
    <3> QED BY <3>1, <3>2
  <2> HIDE DEF old
  <2>6. Typed(order, items, act, exec, states)
    BY <1>0, <1>3, <1>4, <1>5, <2>2 DEF Typed
  <2>7. Mapped(order, items, act)
    <3>1. IsInjective(order)
      BY <1>7, <2>3, <2>4 DEF IsInjective
    <3>2. ToSet(order) = ToSet(queueOrder) \ {m}
      <4>1. \A i \in DOMAIN order : order[i] \in ToSet(queueOrder) /\ order[i] # m
        BY <1>6, <1>7, <2>3 DEF ToSet
      <4>2. ASSUME NEW i \in DOMAIN queueOrder, queueOrder[i] # m
            PROVE  \E j \in DOMAIN order : order[j] = queueOrder[i]
        BY <1>6, <2>3, <2>5, <4>2
      <4> QED BY <4>1, <4>2 DEF ToSet
    <3>3. \A k \in Models : (act[k] > 0 \/ items[k] # <<>>)
                <=> (k # m /\ (active[k] > 0 \/ items[k] # <<>>))
      BY <1>3, <1>8
    <3> QED BY <1>0, <3>1, <3>2, <3>3 DEF Mapped
  <2>8. HotFirstButOne(order, act)
    <3> SUFFICES ASSUME NEW i \in DOMAIN order, NEW j \in DOMAIN order, i < j,
                        act[order[j]] > 0, act[order[i]] = 0
                 PROVE  FALSE
      BY DEF HotFirstButOne
    <3>1. order[i] # m /\ order[j] # m /\ order[i] \in Models /\ order[j] \in Models
      BY <1>6, <1>7, <2>3
    <3>2. active[order[j]] > 0 /\ active[order[i]] = 0
      BY <1>3, <3>1
    <3> QED BY <1>0, <2>3, <2>4, <3>2 DEF HotFirst
  <2> QED BY <2>6, <2>7, <2>8
<1>9. /\ IsFiniteSet(Hot(active)) /\ Cardinality(Hot(active)) \in Nat
      /\ Hot(act) \subseteq Hot(active)
      /\ act[m] = 0 => Hot(act) = Hot(active) \ {m} /\ m \in Hot(active)
  <2>1. IsFiniteSet(Hot(active))
    BY ModelsAssumption, FS_Subset DEF Hot
  <2>2. Cardinality(Hot(active)) \in Nat
    BY <2>1, FS_CardinalityType
  <2>3. \A k \in Models : act[k] > 0 => active[k] > 0
    BY <1>2, <1>3
  <2>4. ASSUME act[m] = 0 PROVE Hot(act) = Hot(active) \ {m} /\ m \in Hot(active)
    <3>1. \A k \in Models : act[k] > 0 <=> active[k] > 0 /\ k # m
      BY <1>3, <2>4
    <3> QED BY <1>2, <3>1 DEF Hot
  <2> QED BY <2>1, <2>2, <2>3, <2>4 DEF Hot
<1>10. /\ Cardinality(Hot(act)) <= ConcurrentModels
       /\ act[m] = 0 => Cardinality(Hot(act)) < ConcurrentModels
  <2>1. Cardinality(Hot(active)) <= ConcurrentModels /\ ConcurrentModels \in Nat
    BY <1>0, BoundsAssumption DEF Bounded
  <2>2. Cardinality(Hot(act)) <= Cardinality(Hot(active)) /\ Cardinality(Hot(act)) \in Nat
    BY <1>9, FS_Subset, FS_CardinalityType
  <2>3. act[m] = 0 => Cardinality(Hot(act)) = Cardinality(Hot(active)) - 1
    BY <1>9, FS_RemoveElement
  <2> QED BY <1>9, <2>1, <2>2, <2>3
<1>11. Bounded(act)
  <2>1. \A k \in Models : act[k] <= PerModelConcurrency
    BY <1>0, <1>2, <1>3, BoundsAssumption DEF Bounded
  <2> QED BY <1>10, <2>1 DEF Bounded
<1> HIDE DEF exec, states
<1>12. Placed(items, act, exec, states)
  <2>1. \A k \in Models : act[k] = Cardinality(exec[k])
    BY <1>0, <1>2, <1>3, <1>4 DEF Placed
  <2>2. \A k \in Models : r \in executing[k] => k = m
    BY <1>0 DEF Placed
  <2>3. ASSUME NEW q \in Runs
        PROVE  states[q] = "running" <=> \E k \in Models : q \in exec[k]
    <3>1. CASE q = r
      BY <1>4, <1>5, <2>2, <3>1
    <3>2. CASE q # r
      <4>1. \A k \in Models : q \in exec[k] <=> q \in executing[k]
        BY <1>4, <3>2
      <4>2. pc[q] = "running" <=> \E k \in Models : q \in executing[k]
        BY <1>0 DEF Placed
      <4> QED BY <1>5, <3>2, <4>1, <4>2
    <3> QED BY <3>1, <3>2
  <2>4. ASSUME NEW q \in Runs
        PROVE  states[q] = "queued" <=> \E k \in Models : \E i \in DOMAIN items[k] : items[k][i] = q
    <3>1. pc[q] = "queued" <=> \E k \in Models : \E i \in DOMAIN items[k] : items[k][i] = q
      BY <1>0 DEF Placed
    <3> QED BY <1>1, <1>5, <3>1
  <2>5. \A k \in Models : exec[k] \subseteq executing[k]
    BY <1>4
  <2> QED BY <1>0, <2>1, <2>3, <2>4, <2>5 DEF Placed
<1>13. ASSUME items[m] # <<>> \/ act[m] # 0
       PROVE  /\ order = queueOrder
              /\ Typed(order, items, act, exec, states)
              /\ Mapped(order, items, act)
              /\ HotFirstButOne(order, act)
              /\ act[m] = 0 => \A k \in DOMAIN order : k < p => act[order[k]] > 0
  <2>1. order = queueOrder
    BY <1>13 DEF Kept
  <2> HIDE DEF order, p
  <2>2. Typed(order, items, act, exec, states)
    BY <1>0, <1>3, <1>4, <1>5, <2>1 DEF Typed
  <2>3. Mapped(order, items, act)
    <3>1. \A k \in Models : (act[k] > 0 \/ items[k] # <<>>)
                <=> (active[k] > 0 \/ items[k] # <<>>)
      BY <1>2, <1>3, <1>13
    <3> QED BY <1>0, <2>1, <3>1 DEF Mapped
  <2>4. ASSUME NEW i \in DOMAIN order, NEW k \in DOMAIN order, k < i, active[order[i]] > 0,
               order[i] = m
        PROVE  act[order[k]] > 0
    <3>1. active[order[k]] > 0
      BY <1>0, <2>1, <2>4 DEF HotFirst
    <3>2. order[k] # m /\ order[k] \in Models
      BY <1>7, <2>1, <2>4
    <3> QED BY <1>3, <3>1, <3>2
  <2>5. HotFirstButOne(order, act)
    <3> SUFFICES ASSUME NEW i \in DOMAIN order, NEW j \in DOMAIN order, i < j,
                        act[order[j]] > 0, act[order[i]] = 0
                 PROVE  /\ Cardinality(Hot(act)) < ConcurrentModels
                        /\ \A k \in DOMAIN order : k < i => act[order[k]] > 0
      BY DEF HotFirstButOne
    <3>1. order[i] \in Models /\ order[j] \in Models
      BY <1>7, <2>1
    <3>2. active[order[j]] > 0
      BY <1>2, <1>3, <3>1
    <3>3. active[order[i]] > 0
      BY <1>0, <2>1, <3>2 DEF HotFirst
    <3>4. order[i] = m
      BY <1>3, <3>1, <3>3
    <3> QED BY <1>10, <2>4, <3>3, <3>4
  <2>6. ASSUME NEW k \in DOMAIN order, k < p PROVE act[order[k]] > 0
    BY <1>2, <1>6, <2>1, <2>4, <2>6
  <2> QED BY <2>1, <2>2, <2>3, <2>5, <2>6
<1> HIDE DEF order, p
<1>14. Passable(order, items, act, exec, states)
  BY <1>3, <1>8, <1>11, <1>12, <1>13 DEF Passable
<1>15. ASSUME act[m] = 0, items[m] # <<>>
       PROVE  /\ Cardinality(Hot(act)) < ConcurrentModels
              /\ \E i \in DOMAIN order :
                    /\ order[i] = m
                    /\ \A k \in DOMAIN order : k < i => act[order[k]] > 0
  BY <1>6, <1>10, <1>13, <1>15
<1> QED BY <1>2, <1>3, <1>14, <1>15 DEF order, exec, states

-----------------------------------------------------------------------------
(* Every step preserves the invariant.                                     *)

\* A pass turns runs into running ones and leaves the others where they are.
LEMMA PumpRuns ==
  ASSUME NEW order, NEW its, NEW act, NEW exec, NEW states,
         Pump(order, its, act, exec, states), NEW r \in Runs
  PROVE  pc'[r] = "running" \/ pc'[r] = states[r]
BY DEF Pump

\* What an operation leaves when it ends in a pass.
LEMMA PassKeepsScheduled ==
  ASSUME NEW order, NEW its, NEW act, NEW exec, NEW states,
         Passable(order, its, act, exec, states),
         Pump(order, its, act, exec, states)
  PROVE  /\ Scheduled'
         /\ Served(items, active)'
         /\ ~ Idle(its, act) => ~ Idle(items, active)'
<1>1. /\ Typed(queueOrder', items', active', executing', pc')
      /\ Placed(items', active', executing', pc')
      /\ Mapped(queueOrder', items', active')
      /\ Bounded(active')
      /\ HotFirst(queueOrder', active')
      /\ Served(items', active')
      /\ ~ Idle(its, act) => ~ Idle(items', active')
  BY PumpKeeps
<1>2. Typed(queueOrder, items, active, executing, pc)'
  BY <1>1 DEF Typed
<1>3. Placed(items, active, executing, pc)'
  BY <1>1 DEF Placed
<1>4. Mapped(queueOrder, items, active)'
  BY <1>1 DEF Mapped
<1>5. Bounded(active)' /\ Served(items, active)'
  BY <1>1 DEF Bounded, Served, Hot
<1>6. HotFirst(queueOrder, active)'
  BY <1>1 DEF HotFirst
<1>7. ~ Idle(its, act) => ~ Idle(items, active)'
  BY <1>1 DEF Idle
<1> QED BY <1>2, <1>3, <1>4, <1>5, <1>6, <1>7 DEF Scheduled

LEMMA EnqueueKeepsScheduled ==
  ASSUME IInv, NEW r \in Runs, NEW m \in Models,
         pc[r] \in {"idle", "choosing"}, Enqueue(r, m)
  PROVE  /\ Scheduled'
         /\ Served(items, active)'
         /\ ~ Idle(items, active)'
         /\ \A q \in Runs : pc'[q] \in {"probing", "choosing"} => q # r /\ pc'[q] = pc[q]
         /\ \A k \in Models : active'[k] >= active[k]
<1> DEFINE order == IF HasQueue(m) THEN queueOrder ELSE Append(queueOrder, m)
           its == [items EXCEPT ![m] = Append(@, r)]
           states == [pc EXCEPT ![r] = "queued"]
<1>1. Passable(order, its, active, executing, states)
  BY EnqueuePassable DEF IInv
<1>2. Pump(order, its, active, executing, states)
  BY DEF Enqueue
<1>3. its[m] # <<>> /\ states[r] = "queued" /\ \A q \in Runs : q # r => states[q] = pc[q]
  <2>1. items \in [Models -> Seq(Runs)] /\ pc \in [Runs -> States]
    BY DEF IInv, Scheduled, Typed
  <2>2. its[m] = Append(items[m], r) /\ items[m] \in Seq(Runs)
    BY <2>1
  <2>3. its[m] # <<>>
    BY <2>2, AppendProperties
  <2> QED BY <2>1, <2>3
<1> HIDE DEF order, its, states
<1>4. ~ Idle(its, active)
  BY <1>3 DEF Idle
<1>5. \A q \in Runs : pc'[q] = "running" \/ pc'[q] = states[q]
  BY <1>2, PumpRuns
<1>6. \A k \in Models : active'[k] >= active[k]
  BY <1>1, <1>2, PumpKeeps
<1>7. Scheduled' /\ Served(items, active)' /\ ~ Idle(items, active)'
  BY <1>1, <1>2, <1>4, PassKeepsScheduled
<1> QED BY <1>3, <1>5, <1>6, <1>7

\* The first candidate that is loaded is one of the candidates.
LEMMA ChosenIsNamed ==
  ASSUME NEW list \in CandidateLists, NEW loaded
  PROVE  Chosen(list, loaded) \in Models /\ list[1] \in Models
<1>1. list \in Seq(Models) /\ list # <<>>
  BY CandidatesAssumption
<1>2. Len(list) \in Nat \ {0} /\ DOMAIN list = 1 .. Len(list)
      /\ \A i \in DOMAIN list : list[i] \in Models
  BY <1>1, EmptySeq, LenProperties, ElementOfSeq
<1>3. ASSUME NEW hits, hits \subseteq DOMAIN list, hits # {}
      PROVE  (CHOOSE i \in hits : \A j \in hits : i <= j) \in hits
  <2>1. hits \in SUBSET Nat
    BY <1>2, <1>3
  <2>2. \E i \in hits : \A j \in hits : i <= j
    BY <1>3, <2>1, Smallest
  <2> QED BY <2>2
<1> DEFINE hits == {i \in DOMAIN list : list[i] \in loaded}
<1>4. hits # {} => (CHOOSE i \in hits : \A j \in hits : i <= j) \in DOMAIN list
  <2>1. hits \subseteq DOMAIN list
    OBVIOUS
  <2> HIDE DEF hits
  <2> QED BY <1>3, <2>1
<1> QED BY <1>2, <1>4 DEF Chosen

LEMMA InitIInv == Init => IInv
<1> SUFFICES ASSUME Init PROVE IInv
  OBVIOUS
<1>1. PsCacheTtl \in Nat /\ ConcurrentModels \in Nat /\ PerModelConcurrency \in Nat
  BY BoundsAssumption
<1>2. queueOrder = <<>> /\ DOMAIN queueOrder = {} /\ queueOrder \in Seq(Models)
  BY EmptySeq, LenProperties DEF Init
<1>3. \A m \in Models : /\ items[m] = <<>> /\ active[m] = 0 /\ executing[m] = {}
                         /\ DOMAIN items[m] = {} /\ items[m] \in Seq(Runs)
  BY EmptySeq DEF Init
<1>4. Cardinality({}) = 0
  BY FS_EmptySet
<1>5. TypeOK
  <2>1. items \in [Models -> Seq(Runs)] /\ active \in [Models -> Nat]
        /\ executing \in [Models -> SUBSET Runs]
    BY <1>3 DEF Init
  <2>2. psCache \in [age : Ages, names : SUBSET Models]
    BY <1>1 DEF Init, Cached, Ages
  <2>3. asked \in [Runs -> Ages]
    BY <1>1 DEF Init, Ages
  <2> QED BY <1>2, <2>1, <2>2, <2>3 DEF Init, TypeOK
<1>6. Typed(queueOrder, items, active, executing, pc)
  BY <1>5 DEF TypeOK, Typed, States
<1>7. Placed(items, active, executing, pc)
  BY <1>3, <1>4 DEF Placed, Init
<1>8. Mapped(queueOrder, items, active)
  BY <1>2, <1>3 DEF Mapped, ToSet, IsInjective
<1>9. Bounded(active) /\ HotFirst(queueOrder, active)
  <2>1. Hot(active) = {}
    BY <1>3 DEF Hot
  <2> QED BY <1>1, <1>2, <1>3, <1>4, <2>1 DEF Bounded, HotFirst
<1>10. Served(items, active) /\ WaitersHaveWork /\ Named
  BY <1>3 DEF Served, WaitersHaveWork, Named, Init
<1> QED BY <1>5, <1>6, <1>7, <1>8, <1>9, <1>10 DEF IInv, Scheduled

\* Steps that neither enqueue nor complete leave the queues alone.
LEMMA QueuesUntouched ==
  ASSUME Scheduled, Served(items, active), WaitersHaveWork,
         UNCHANGED <<queueOrder, items, active, executing>>,
         pc' \in [Runs -> States],
         \A r \in Runs :
            \/ pc'[r] = pc[r]
            \/ {pc[r], pc'[r]} \cap {"queued", "running"} = {}
  PROVE  Scheduled' /\ Served(items, active)' /\ (Idle(items, active)' <=> Idle(items, active))
<1>1. Typed(queueOrder, items, active, executing, pc)'
  BY DEF Scheduled, Typed
<1>2. Placed(items, active, executing, pc)'
  <2>1. Placed(items, active, executing, pc)
    BY DEF Scheduled
  <2>2. ASSUME NEW r \in Runs
        PROVE  /\ pc'[r] = "running" <=> pc[r] = "running"
               /\ pc'[r] = "queued" <=> pc[r] = "queued"
    OBVIOUS
  <2> QED BY <2>1, <2>2 DEF Placed
<1>3. (Mapped(queueOrder, items, active) /\ Bounded(active) /\ HotFirst(queueOrder, active))'
  BY DEF Scheduled, Mapped, Bounded, HotFirst, Hot
<1> QED BY <1>1, <1>2, <1>3 DEF Scheduled, Served, Hot, Idle

LEMMA RunKeepsIInv ==
  ASSUME IInv, NEW r \in Runs, NEW list \in CandidateLists, Run(r, list)
  PROVE  IInv' /\ \A k \in Models : active'[k] >= active[k]
<1> USE DEF IInv
<1>1. CASE Len(list) = 1 /\ Enqueue(r, list[1]) /\ UNCHANGED <<candidates, known>>
  <2>1. pc[r] \in {"idle", "choosing"} /\ UNCHANGED <<asked, psCache, disposal>>
    BY DEF Run
  <2>2. /\ Scheduled'
        /\ Served(items, active)'
        /\ ~ Idle(items, active)'
        /\ \A q \in Runs : pc'[q] \in {"probing", "choosing"} => q # r /\ pc'[q] = pc[q]
        /\ \A k \in Models : active'[k] >= active[k]
    BY <1>1, <2>1, ChosenIsNamed, EnqueueKeepsScheduled
  <2>3. TypeOK'
    BY <1>1, <2>1, <2>2 DEF TypeOK, Scheduled, Typed, States, Ages
  <2>4. Named' /\ WaitersHaveWork'
    BY <1>1, <2>1, <2>2 DEF Named, WaitersHaveWork
  <2> QED BY <2>2, <2>3, <2>4
<1>2. CASE /\ Len(list) > 1
           /\ candidates' = [candidates EXCEPT ![r] = list]
           /\ known' = [known EXCEPT ![r] = psCache.names]
           /\ pc' = [pc EXCEPT ![r] = IF Fresh THEN "choosing" ELSE "probing"]
           /\ UNCHANGED <<queueOrder, items, active, executing>>
  <2>1. pc[r] = "idle" /\ UNCHANGED <<asked, psCache, disposal>>
    BY DEF Run
  <2>2. pc' \in [Runs -> States]
    BY <1>2 DEF TypeOK, States
  <2>3. \A q \in Runs :
          \/ pc'[q] = pc[q]
          \/ {pc[q], pc'[q]} \cap {"queued", "running"} = {}
    BY <1>2, <2>1 DEF TypeOK
  <2>4. Scheduled' /\ Served(items, active)' /\ (Idle(items, active)' <=> Idle(items, active))
    BY <1>2, <2>2, <2>3, QueuesUntouched
  <2>5. TypeOK'
    BY <1>2, <2>1, <2>2 DEF TypeOK, States, Ages
  <2>6. Named' /\ WaitersHaveWork'
    BY <1>2, <2>1, <2>4 DEF Named, WaitersHaveWork, TypeOK
  <2>7. \A k \in Models : active'[k] >= active[k]
    BY <1>2 DEF TypeOK
  <2> QED BY <2>4, <2>5, <2>6, <2>7
<1> QED BY <1>1, <1>2 DEF Run

LEMMA ProbeKeepsIInv ==
  ASSUME IInv, NEW r \in Runs, ProbeAnswers(r) \/ ProbeFails(r)
  PROVE  IInv' /\ \A k \in Models : active'[k] >= active[k]
<1> USE DEF IInv, ProbeAnswers, ProbeFails
<1>1. /\ pc[r] = "probing" /\ pc' = [pc EXCEPT ![r] = "choosing"]
      /\ UNCHANGED <<candidates, asked, queueOrder, items, active, executing, disposal>>
  OBVIOUS
<1>2. pc' \in [Runs -> States]
  BY <1>1 DEF TypeOK, States
<1>3. \A q \in Runs :
        \/ pc'[q] = pc[q]
        \/ {pc[q], pc'[q]} \cap {"queued", "running"} = {}
  BY <1>1 DEF TypeOK
<1>4. Scheduled' /\ Served(items, active)' /\ (Idle(items, active)' <=> Idle(items, active))
  BY <1>1, <1>2, <1>3, QueuesUntouched
<1>5. psCache' \in [age : Ages, names : SUBSET Models] /\ known' \in [Runs -> SUBSET Models]
  <2>1. CASE ProbeAnswers(r)
    <3>1. PICK names \in SUBSET Models : /\ psCache' = Cached(asked[r], names)
                                        /\ known' = [known EXCEPT ![r] = names]
      BY <2>1
    <3>2. asked[r] \in Ages /\ known \in [Runs -> SUBSET Models]
      BY DEF TypeOK
    <3> QED BY <3>1, <3>2 DEF Cached
  <2>2. CASE ProbeFails(r)
    BY <2>2 DEF TypeOK
  <2> QED BY <2>1, <2>2
<1>6. TypeOK'
  BY <1>1, <1>2, <1>5 DEF TypeOK, States, Ages
<1>7. Named' /\ WaitersHaveWork'
  BY <1>1, <1>4 DEF Named, WaitersHaveWork, TypeOK
<1>8. \A k \in Models : active'[k] >= active[k]
  BY <1>1 DEF TypeOK
<1> QED BY <1>4, <1>6, <1>7, <1>8

LEMMA EnqueuesKeepsIInv ==
  ASSUME IInv, NEW r \in Runs, Enqueues(r)
  PROVE  IInv' /\ \A k \in Models : active'[k] >= active[k]
<1> USE DEF IInv
<1> DEFINE m == Chosen(candidates[r], known[r])
<1>1. /\ pc[r] = "choosing" /\ Enqueue(r, m)
      /\ candidates' = [candidates EXCEPT ![r] = <<>>]
      /\ known' = [known EXCEPT ![r] = {}]
      /\ asked' = [asked EXCEPT ![r] = 0]
      /\ UNCHANGED <<psCache, disposal>>
  BY DEF Enqueues
<1>2. m \in Models
  BY <1>1, ChosenIsNamed DEF Named
<1> HIDE DEF m
<1>3. /\ Scheduled'
      /\ Served(items, active)'
      /\ ~ Idle(items, active)'
      /\ \A q \in Runs : pc'[q] \in {"probing", "choosing"} => q # r /\ pc'[q] = pc[q]
      /\ \A k \in Models : active'[k] >= active[k]
  BY <1>1, <1>2, EnqueueKeepsScheduled
<1>4. TypeOK'
  <2>1. 0 \in Ages
    BY BoundsAssumption DEF Ages
  <2>2. /\ candidates' \in [Runs -> CandidateLists \cup {<<>>}]
        /\ known' \in [Runs -> SUBSET Models]
        /\ asked' \in [Runs -> Ages]
    BY <1>1, <2>1 DEF TypeOK
  <2>3. psCache' = psCache /\ disposal' = disposal /\ Ages' = Ages
    BY <1>1 DEF Ages
  <2> QED BY <1>3, <2>2, <2>3 DEF TypeOK, Scheduled, Typed, States
<1>5. Named' /\ WaitersHaveWork'
  BY <1>1, <1>3 DEF Named, WaitersHaveWork, TypeOK
<1> QED BY <1>3, <1>4, <1>5

LEMMA CompletesKeepsIInv ==
  ASSUME IInv, NEW m \in Models, NEW r \in Runs, Completes(m, r)
  PROVE  /\ IInv'
         /\ \A k \in Models : active[k] > 0 /\ active'[k] = 0 => items[k] = <<>>
<1> USE DEF IInv
<1> DEFINE act == [active EXCEPT ![m] = @ - 1]
           order == Kept(m, act)
           exec == [executing EXCEPT ![m] = @ \ {r}]
           states == [pc EXCEPT ![r] = "settled"]
<1>1. /\ r \in executing[m]
      /\ disposal' =
            IF Idle(items, act)
            THEN [d \in Disposals |->
                    IF disposal[d] = "waiting" THEN "resolved" ELSE disposal[d]]
            ELSE disposal
      /\ Pump(order, items, act, exec, states)
      /\ UNCHANGED <<candidates, known, asked, psCache>>
  BY DEF Completes
<1>2. /\ Passable(order, items, act, exec, states)
      /\ \A k \in Models \ {m} : act[k] = active[k]
      /\ act[m] = active[m] - 1 /\ active[m] > 0
      /\ act[m] = 0 /\ items[m] # <<>> =>
            /\ Cardinality(Hot(act)) < ConcurrentModels
            /\ \E i \in DOMAIN order :
                /\ order[i] = m
                /\ \A k \in DOMAIN order : k < i => act[order[k]] > 0
  BY <1>1, CompletePassable
<1>3. \A q \in Runs : states[q] \in {"probing", "choosing"} => states[q] = pc[q]
  BY DEF TypeOK
<1> HIDE DEF act, order, exec, states
<1>4. Scheduled' /\ Served(items, active)' /\ (~ Idle(items, act) => ~ Idle(items, active)')
  BY <1>1, <1>2, PassKeepsScheduled
<1>5. /\ \A k \in Models : active'[k] >= act[k]
      /\ \A i \in DOMAIN order :
            /\ items[order[i]] # <<>>
            /\ Cardinality(Hot(act)) < ConcurrentModels
            /\ \A k \in DOMAIN order : k < i => act[order[k]] > 0
            => active'[order[i]] > 0
  BY <1>1, <1>2, PumpKeeps
<1>6. \A q \in Runs : pc'[q] = "running" \/ pc'[q] = states[q]
  BY <1>1, PumpRuns
<1>7. disposal' \in [Disposals -> {"idle", "waiting", "resolved"}]
      /\ (Idle(items, act) => \A d \in Disposals : disposal'[d] # "waiting")
  BY <1>1 DEF TypeOK
<1>8. TypeOK'
  BY <1>1, <1>4, <1>7 DEF TypeOK, Scheduled, Typed, States, Ages
<1>9. Named' /\ WaitersHaveWork'
  BY <1>1, <1>3, <1>4, <1>6, <1>7 DEF Named, WaitersHaveWork
<1>10. ASSUME NEW k \in Models, active[k] > 0, active'[k] = 0, items[k] # <<>>
       PROVE  FALSE
  <2>1. active \in [Models -> Nat] /\ active' \in [Models -> Nat]
    BY <1>8 DEF TypeOK
  <2>2. k = m /\ act[m] = 0
    <3>1. act[k] <= 0
      BY <1>5, <1>10
    <3>2. k = m
      BY <1>2, <1>10, <2>1, <3>1
    <3> QED BY <1>2, <2>1, <3>1, <3>2
  <2> QED BY <1>2, <1>5, <1>10, <2>1, <2>2
<1> QED BY <1>4, <1>8, <1>9, <1>10

LEMMA OthersKeepIInv ==
  ASSUME IInv, (\E d \in Disposals : Dispose(d)) \/ Tick \/ UNCHANGED vars
  PROVE  IInv' /\ \A k \in Models : active'[k] >= active[k]
<1> USE DEF IInv
<1>1. UNCHANGED <<pc, candidates, known, queueOrder, items, active, executing>>
  BY DEF Dispose, Tick, vars
<1>2. Scheduled' /\ Served(items, active)' /\ (Idle(items, active)' <=> Idle(items, active))
  <2>1. pc' \in [Runs -> States]
    BY <1>1 DEF TypeOK, States
  <2>2. \A q \in Runs : pc'[q] = pc[q]
    BY <1>1
  <2> QED BY <1>1, <2>1, <2>2, QueuesUntouched
<1>3. disposal' \in [Disposals -> {"idle", "waiting", "resolved"}]
      /\ \A d \in Disposals : disposal'[d] = "waiting" =>
            disposal[d] = "waiting" \/ ~ Idle(items, active)
  BY DEF TypeOK, Dispose, Tick, vars
<1>4. asked' \in [Runs -> Ages] /\ psCache' \in [age : Ages, names : SUBSET Models]
  <2>1. \A a \in Ages : Older(a) \in Ages
    BY BoundsAssumption DEF Ages, Older, Fewer
  <2>2. CASE Tick
    BY <2>1, <2>2 DEF TypeOK, Tick, Cached
  <2>3. CASE UNCHANGED <<asked, psCache>>
    BY <2>3 DEF TypeOK
  <2> QED BY <2>2, <2>3 DEF Dispose, vars
<1>5. TypeOK'
  BY <1>1, <1>3, <1>4 DEF TypeOK, Ages
<1>6. Named' /\ WaitersHaveWork'
  BY <1>1, <1>2, <1>3 DEF Named, WaitersHaveWork
<1>7. \A k \in Models : active'[k] >= active[k]
  BY <1>1 DEF TypeOK
<1> QED BY <1>2, <1>5, <1>6, <1>7

LEMMA NextIInv ==
  ASSUME IInv, [Next]_vars
  PROVE  /\ IInv'
         /\ \A k \in Models : active[k] > 0 /\ active'[k] = 0 => items[k] = <<>>
<1>1. ASSUME \A k \in Models : active'[k] >= active[k]
      PROVE  \A k \in Models : ~ (active[k] > 0 /\ active'[k] = 0)
  BY <1>1 DEF IInv, TypeOK
<1>2. ASSUME NEW r \in Runs, NEW list \in CandidateLists, Run(r, list)
      PROVE  IInv' /\ \A k \in Models : active'[k] >= active[k]
  BY <1>2, RunKeepsIInv
<1>3. ASSUME NEW r \in Runs, ProbeAnswers(r) \/ ProbeFails(r)
      PROVE  IInv' /\ \A k \in Models : active'[k] >= active[k]
  BY <1>3, ProbeKeepsIInv
<1>4. ASSUME NEW r \in Runs, Enqueues(r)
      PROVE  IInv' /\ \A k \in Models : active'[k] >= active[k]
  BY <1>4, EnqueuesKeepsIInv
<1>5. ASSUME NEW m \in Models, NEW r \in Runs, Completes(m, r)
      PROVE  /\ IInv'
             /\ \A k \in Models : active[k] > 0 /\ active'[k] = 0 => items[k] = <<>>
  BY <1>5, CompletesKeepsIInv
<1>6. ASSUME (\E d \in Disposals : Dispose(d)) \/ Tick \/ UNCHANGED vars
      PROVE  IInv' /\ \A k \in Models : active'[k] >= active[k]
  BY <1>6, OthersKeepIInv
<1> QED BY <1>1, <1>2, <1>3, <1>4, <1>5, <1>6 DEF Next

-----------------------------------------------------------------------------
(* The theorems.                                                           *)

\* The invariant holds in every reachable state.
THEOREM SchedulerInvariance == Spec => []IInv
<1>1. IInv /\ [Next]_vars => IInv'
  BY NextIInv
<1> QED BY InitIInv, <1>1, PTL DEF Spec

\* Whatever is run, probed, completed and disposed, the fields keep their shapes.
THEOREM SchedulerTypes == Spec => []TypeOK
<1>1. IInv => TypeOK
  BY DEF IInv
<1> QED BY <1>1, SchedulerInvariance, PTL

\* Neither concurrentModels nor perModelConcurrency is ever exceeded.
THEOREM LimitsHold == Spec => []BoundsHold
<1>1. IInv => BoundsHold
  BY DEF IInv, Scheduled, Bounded, BoundsHold
<1> QED BY <1>1, SchedulerInvariance, PTL

\* A pass after every enqueue and every completion is enough: no task waits
\* that the limits would let start.
THEOREM NoLostWakeup == Spec => []NothingStartableWaits
<1>1. IInv => NothingStartableWaits
  BY DEF IInv, Served, NothingStartableWaits
<1> QED BY <1>1, SchedulerInvariance, PTL

\* A task is never lost, started twice or counted twice.
THEOREM OnePlace == Spec => []EveryTaskInOnePlace
<1>1. IInv => EveryTaskInOnePlace
  BY DEF IInv, Scheduled, Placed, EveryTaskInOnePlace
<1> QED BY <1>1, SchedulerInvariance, PTL

\* The Map never holds a queue without work, nor a model twice.
THEOREM MapHoldsWork == Spec => []QueuesAreInUse
<1>1. IInv => QueuesAreInUse
  BY DEF IInv, Scheduled, Mapped, QueuesAreInUse
<1> QED BY <1>1, SchedulerInvariance, PTL

\* A dispose() waits only while there is a task to end its wait.
THEOREM DisposalsHaveWork == Spec => []WaitersHaveWork
<1>1. IInv => WaitersHaveWork
  BY DEF IInv
<1> QED BY <1>1, SchedulerInvariance, PTL

\* No model is left while one of its tasks waits, whatever the limits are.
THEOREM StaysHot == Spec => HotUntilDrained
<1>1. IInv /\ [Next]_vars =>
        [\A m \in Models : active[m] > 0 /\ active'[m] = 0 => items[m] = <<>>]_vars
  BY NextIInv
<1> QED BY <1>1, SchedulerInvariance, PTL DEF Spec, HotUntilDrained
=============================================================================
