------------------------- MODULE ModelAffinityRouter -------------------------
(***************************************************************************)
(* ModelAffinityRouter (src/providers/model-affinity-router.ts): /api/ps   *)
(* snapshots of the endpoints, refreshed in the background, by which       *)
(* reorder() moves the endpoints that hold the model to the front of their *)
(* priority tier.  Times are kept as ages, up to where they matter.        *)
(***************************************************************************)
EXTENDS Integers, Sequences, FiniteSets, SequencesExt, Functions

CONSTANTS
    Hosts,          \* endpoint names
    HostTier,           \* priority of each
    Loadable,       \* models
    TtlMs,          \* in clock ticks
    FailureRetryMs

ASSUME RouterAssumption ==
    HostTier \in [Hosts -> Int] /\ TtlMs \in Nat /\ FailureRetryMs \in Nat

VARIABLES
    cache,      \* last successful probe of each endpoint
    failedAge,  \* time since the failure that suppresses probes, or Never
    inflight,   \* the endpoints with an entry in the inflight map
    probes      \* how many fetchPs() calls of each endpoint are out

routerVars == <<cache, failedAge, inflight, probes>>

Never == -1
NoEntry == [models |-> {}, age |-> Never]

RouterTypeOK ==
    /\ cache \in [Hosts -> [models : SUBSET Loadable, age : Never .. TtlMs + 1]]
    /\ failedAge \in [Hosts -> Never .. FailureRetryMs]
    /\ inflight \subseteq Hosts
    /\ probes \in [Hosts -> Nat]

RouterInit ==
    /\ cache = [h \in Hosts |-> NoEntry]
    /\ failedAge = [h \in Hosts |-> Never]
    /\ inflight = {}
    /\ probes = [h \in Hosts |-> 0]

-----------------------------------------------------------------------------

IsFresh(h) == cache[h].age \in 0 .. TtlMs
IsResident(h, model) == model \in cache[h].models

CandidateLists == {list \in SeqOf(Hosts, Cardinality(Hosts)) : IsInjective(list)}

\* The end of the run of equal priorities that starts at i.
TierEnd(list, i) ==
    CHOOSE j \in i .. Len(list) :
        /\ \A k \in i .. j : HostTier[list[k]] = HostTier[list[i]]
        /\ j < Len(list) => HostTier[list[j + 1]] # HostTier[list[i]]

TierStarts(list) ==
    {i \in DOMAIN list : i = 1 \/ HostTier[list[i - 1]] # HostTier[list[i]]}

\* The members of S, in the order of the list.
Those(list, S) ==
    FlattenSeq([i \in DOMAIN list |-> IF list[i] \in S THEN <<list[i]>> ELSE <<>>])

Partitioned(list, model) ==
    LET residents == {h \in Hosts : IsResident(h, model)}
    IN  Those(list, residents) \o Those(list, Hosts \ residents)

\* Mutant: residents come first whatever their priority.
Reordered_AcrossTiers(list, model) ==
    IF Len(list) >= 2 /\ \A i \in DOMAIN list : IsFresh(list[i])
    THEN Partitioned(list, model)
    ELSE list

Reordered(list, model) ==
    IF Len(list) >= 2 /\ \A i \in DOMAIN list : IsFresh(list[i])
    THEN FlattenSeq([n \in 1 .. Len(list) |->
            IF n \in TierStarts(list)
            THEN Partitioned(SubSeq(list, n, TierEnd(list, n)), model)
            ELSE <<>>])
    ELSE list

\* refresh(), which joins a probe that is under way.
Refresh(S) ==
    /\ inflight' = inflight \cup S
    /\ probes' = [h \in Hosts |-> IF h \in S \ inflight THEN probes[h] + 1 ELSE probes[h]]

Suppressed(h) == failedAge[h] # Never /\ failedAge[h] < FailureRetryMs

\* A request asks for an order: snapshots that are not fresh are refreshed.
Reorder(list) ==
    /\ Len(list) >= 2
    /\ Refresh({h \in ToSet(list) : ~IsFresh(h) /\ ~Suppressed(h)})
    /\ UNCHANGED <<cache, failedAge>>

Warm(S) == Refresh(S) /\ UNCHANGED <<cache, failedAge>>

ProbeEnds(h) ==
    /\ probes[h] > 0
    /\ probes' = [probes EXCEPT ![h] = @ - 1]
    /\ inflight' = inflight \ {h}

ProbeAnswers(h, models) ==
    /\ ProbeEnds(h)
    /\ cache' = [cache EXCEPT ![h] = [models |-> models, age |-> 0]]
    /\ failedAge' = [failedAge EXCEPT ![h] = Never]

ProbeFails(h) ==
    /\ ProbeEnds(h)
    /\ failedAge' = [failedAge EXCEPT ![h] = 0]
    /\ UNCHANGED cache

RouterTick ==
    /\ cache' = [h \in Hosts |->
        IF cache[h].age \in 0 .. TtlMs THEN [cache[h] EXCEPT !.age = @ + 1] ELSE cache[h]]
    /\ failedAge' = [h \in Hosts |->
        IF failedAge[h] \in 0 .. FailureRetryMs - 1 THEN failedAge[h] + 1 ELSE failedAge[h]]
    /\ UNCHANGED <<inflight, probes>>

RouterNext ==
    \/ \E list \in CandidateLists : Reorder(list)
    \/ \E S \in SUBSET Hosts : Warm(S)
    \/ \E h \in Hosts : ProbeFails(h) \/ \E models \in SUBSET Loadable : ProbeAnswers(h, models)
    \/ RouterTick

RouterSpec == RouterInit /\ [][RouterNext]_routerVars

-----------------------------------------------------------------------------
(* Properties.                                                             *)

PlaceIn(list, h) == CHOOSE i \in DOMAIN list : list[i] = h

\* No endpoint of another priority is between them.
InOneTier(list, g, h) ==
    \A k \in DOMAIN list :
        \/ PlaceIn(list, g) <= k /\ k <= PlaceIn(list, h)
        \/ PlaceIn(list, h) <= k /\ k <= PlaceIn(list, g)
        => HostTier[list[k]] = HostTier[g]

GoesFirst(list, model, g, h) ==
    IF /\ \A i \in DOMAIN list : IsFresh(list[i])
       /\ InOneTier(list, g, h)
       /\ IsResident(g, model) # IsResident(h, model)
    THEN IsResident(g, model)
    ELSE PlaceIn(list, g) < PlaceIn(list, h)

\* Affinity only breaks ties: reorder() never moves an endpoint past one of
\* another priority, puts those that hold the model before those that do not
\* and otherwise keeps the registry's order, and does nothing while one
\* candidate's snapshot is missing or stale.
AffinityBreaksTies ==
    \A list \in CandidateLists, model \in Loadable :
        LET ordered == Reordered(list, model)
        IN  /\ ToSet(ordered) = ToSet(list) /\ Len(ordered) = Len(list)
            /\ \A i, j \in DOMAIN ordered :
                 i < j => GoesFirst(list, model, ordered[i], ordered[j])
===============================================================================
