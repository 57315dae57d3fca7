------------------------------ MODULE VersionGate ------------------------------
(***************************************************************************)
(* System One calls: systemOne() and its cloud-model gate (src/client.ts), *)
(* the version gate of OllamaRuntime.invoke()                              *)
(* (src/generated/runtime/runtime.ts), and the decision helpers that call  *)
(* it, rank() for many candidates at once (src/decision.ts).  Each gate    *)
(* caches the promise of a GET /api/version, which any server may answer.  *)
(*                                                                         *)
(* The servers are external.                                               *)
(***************************************************************************)
EXTENDS Integers, Sequences, FiniteSets

CONSTANTS
    Deciders,       \* calls of systemOne()
    Servers,
    Release,        \* what each server runs: 0, 1 has System One, 2 cloud models
    Policies,       \* enforceVersion: "auto", "strict"
    MaxProbes,      \* bound on the version requests
    NoProbe, NoServer

ASSUME GateAssumption ==
    /\ Release \in [Servers -> 0 .. 2] /\ Policies \subseteq {"auto", "strict"}
    /\ MaxProbes \in Nat /\ NoProbe \notin Nat /\ NoServer \notin Servers

VARIABLES
    policy,
    serving,        \* the servers that answer
    call,           \* each call: what it asks for, where it is, the probe it awaits
    versionProbes,  \* the version requests so far: whose, and how each ended
    clientCache,    \* serverVersionCache of the client: a probe, or NoProbe
    runtimeCache    \* that of the runtime

gateVars == <<policy, serving, call, versionProbes, clientCache, runtimeCache>>

Idle == [cloud |-> FALSE, at |-> "idle", awaits |-> NoProbe]

GateTypeOK ==
    /\ policy \in Policies /\ serving \subseteq Servers
    /\ call \in [Deciders -> [cloud : BOOLEAN,
                              at : {"idle", "cloud gate", "runtime gate", "sent", "answered",
                                    "refused", "failed", "aborted"},
                              awaits : {NoProbe} \cup 1 .. MaxProbes]]
    /\ versionProbes \in Seq([by : {"client", "runtime"}, is : {"pending", "ok", "failed"},
                       from : Servers \cup {NoServer}])
    /\ clientCache \in {NoProbe} \cup DOMAIN versionProbes
    /\ runtimeCache \in {NoProbe} \cup DOMAIN versionProbes

GateInit ==
    /\ policy \in Policies
    /\ serving \in SUBSET Servers
    /\ call = [d \in Deciders |-> Idle]
    /\ versionProbes = <<>>
    /\ clientCache = NoProbe /\ runtimeCache = NoProbe

-----------------------------------------------------------------------------
(* The two caches.  A probe is made when there is none.                    *)

Probe(who) == [by |-> who, is |-> "pending", from |-> NoServer]

\* assertOperationAllowed() of the calls in S, in one go.
AtRuntimeGate(S) ==
    /\ IF S # {} /\ runtimeCache = NoProbe
       THEN /\ Len(versionProbes) < MaxProbes
            /\ versionProbes' = Append(versionProbes, Probe("runtime"))
            /\ runtimeCache' = Len(versionProbes) + 1
       ELSE UNCHANGED <<versionProbes, runtimeCache>>
    /\ call' = [d \in Deciders |->
            IF d \in S THEN [call[d] EXCEPT !.at = "runtime gate", !.awaits = runtimeCache']
                       ELSE call[d]]

\* assertCloudModelSupported() of the calls in S, through a local server.
AtCloudGate(S) ==
    /\ IF clientCache = NoProbe
       THEN /\ Len(versionProbes) < MaxProbes
            /\ versionProbes' = Append(versionProbes, Probe("client"))
            /\ clientCache' = Len(versionProbes) + 1
       ELSE UNCHANGED <<versionProbes, clientCache>>
    /\ call' = [d \in Deciders |->
            IF d \in S THEN [cloud |-> TRUE, at |-> "cloud gate", awaits |-> clientCache']
                       ELSE call[d]]
    /\ UNCHANGED runtimeCache

\* A probe is a request like others: one of the servers answers, or none does.
VersionProbeEnds(p, outcome, s) ==
    /\ versionProbes[p].is = "pending"
    /\ outcome = "ok" => s \in serving
    /\ outcome = "failed" => s = NoServer
    /\ versionProbes' = [versionProbes EXCEPT ![p].is = outcome, ![p].from = s]
    /\ UNCHANGED <<policy, serving, call, clientCache, runtimeCache>>

-----------------------------------------------------------------------------
(* The calls.                                                              *)

\* choice(), noul(), score(), route(), verify() make one, rank() one for every
\* candidate; all of them for the same model.
Begins(S, cloud) ==
    /\ S # {} /\ \A d \in S : call[d].at = "idle"
    /\ IF cloud THEN AtCloudGate(S) ELSE AtRuntimeGate(S) /\ UNCHANGED clientCache
    /\ UNCHANGED <<policy, serving>>

\* Mutant: whatever is cached is dropped, also a newer probe.
Forgotten_Always(p) == clientCache' = NoProbe

\* The rejected probe makes room for another; a newer one stays.
Forgotten(p) == clientCache' = IF clientCache = p THEN NoProbe ELSE clientCache

\* The probe a call awaits at the cloud gate has settled.
LeavesCloudGate(d) ==
    LET p == call[d].awaits IN
    /\ call[d].at = "cloud gate" /\ versionProbes[p].is # "pending"
    /\ IF versionProbes[p].is = "ok" /\ Release[versionProbes[p].from] < 2
       THEN /\ call' = [call EXCEPT ![d].at = "refused"]
            /\ UNCHANGED <<versionProbes, clientCache, runtimeCache>>
       ELSE /\ AtRuntimeGate({d})
            /\ IF versionProbes[p].is = "failed" THEN Forgotten(p) ELSE UNCHANGED clientCache
    /\ UNCHANGED <<policy, serving>>

\* A failed probe lets the call through, or with "strict" rejects it; it stays
\* in the cache.
LeavesRuntimeGate(d) ==
    LET p == call[d].awaits IN
    /\ call[d].at = "runtime gate" /\ versionProbes[p].is # "pending"
    /\ call' = [call EXCEPT ![d].at =
            CASE versionProbes[p].is = "failed" -> IF policy = "strict" THEN "failed" ELSE "sent"
              [] versionProbes[p].is = "ok" -> IF Release[versionProbes[p].from] < 1 THEN "refused" ELSE "sent"]
    /\ UNCHANGED <<policy, serving, versionProbes, clientCache, runtimeCache>>

\* A server answers the request, or rejects what it does not have.
RequestEnds(d) ==
    /\ call[d].at = "sent"
    /\ \E outcome \in {"answered", "failed"} :
        /\ outcome = "answered" =>
            \E s \in serving : Release[s] >= IF call[d].cloud THEN 2 ELSE 1
        /\ call' = [call EXCEPT ![d].at = outcome]
    /\ UNCHANGED <<policy, serving, versionProbes, clientCache, runtimeCache>>

\* The signal: nothing listens to it at the runtime's gate.
GivesUp(d) ==
    /\ call[d].at \in {"cloud gate", "sent"}
    /\ call' = [call EXCEPT ![d].at = "aborted"]
    /\ UNCHANGED <<policy, serving, versionProbes, clientCache, runtimeCache>>

ServersChange(S) ==
    /\ serving' = S
    /\ UNCHANGED <<policy, call, versionProbes, clientCache, runtimeCache>>

GateNext ==
    \/ \E S \in SUBSET Deciders, cloud \in BOOLEAN : Begins(S, cloud)
    \/ \E p \in DOMAIN versionProbes, s \in Servers \cup {NoServer} :
        VersionProbeEnds(p, "ok", s) \/ VersionProbeEnds(p, "failed", s)
    \/ \E d \in Deciders :
        LeavesCloudGate(d) \/ LeavesRuntimeGate(d) \/ RequestEnds(d) \/ GivesUp(d)
    \/ \E S \in SUBSET Servers : ServersChange(S)

GateSpec == GateInit /\ [][GateNext]_gateVars

-----------------------------------------------------------------------------
(* Properties.                                                             *)

\* "At most one extra round-trip across all gated calls": a version request
\* that is out is the one in the cache, so that all calls await the same, also
\* after one of them gave up; and once a server has answered the client's, its
\* answer is never asked for again.
ProbesAreShared ==
    /\ \A p \in DOMAIN versionProbes : versionProbes[p].is = "pending" => p \in {clientCache, runtimeCache}
    /\ \A p \in DOMAIN versionProbes :
        versionProbes[p].by = "client" /\ versionProbes[p].is = "ok" => clientCache = p

\* src/failover-http-client.ts: "if the cached endpoint goes down, the next
\* call fails over to a healthy endpoint and the version cache is refreshed": a
\* call that comes to the gate while that endpoint is down and another is not
\* does not go by its version.
\* It does not hold (README.md, Divergences found).
VersionCacheIsRefreshed ==
    [][\A d \in Deciders :
        LET p == call'[d].awaits IN
        call[d].at # "runtime gate" /\ call'[d].at = "runtime gate" =>
            \/ versionProbes'[p].is # "ok"
            \/ versionProbes'[p].from \in serving
            \/ serving = {}]_gateVars
===============================================================================
