--------------------------- MODULE GeneratedRuntime ---------------------------
(***************************************************************************)
(* OllamaRuntime.invoke() (src/generated/runtime/runtime.ts) over its two  *)
(* backends: FailoverHttpClient (src/failover-http-client.ts), whose       *)
(* request() is one executeWithFailover without holdUntil, and the plain   *)
(* HttpClient of operations that name a cloud host.  A streaming operation *)
(* gets the raw Response once the headers are in, and its body is read by  *)
(* a generator that the consumer may or may not iterate.                   *)
(*                                                                         *)
(* The version gate is VersionGate's; retries and failover before the      *)
(* headers are Transport's and Failover's.                                 *)
(***************************************************************************)
EXTENDS Integers, FiniteSets

CONSTANT Invocations

ASSUME InvocationsAssumption == IsFiniteSet(Invocations)

VARIABLES
    invocation,   \* each invoke(): its operation, where it is, its connection
    scopes,       \* the requests destroy() can reach, each with timer and listener
    slotsHeld     \* registry slots of generated requests

runtimeVars == <<invocation, scopes, slotsHeld>>

\* JSON operations and streaming ones of the endpoints, JSON ones of the cloud.
Operations == {"json", "stream", "cloud"}

RuntimeTypeOK ==
    /\ invocation \in [Invocations ->
            [operation : Operations, connection : {"none", "open", "closed"},
             at : {"idle", "sent", "handed over", "reading", "dropped", "over", "failed"}]]
    /\ scopes \subseteq Invocations
    /\ slotsHeld \in Nat

RuntimeInit ==
    /\ invocation = [i \in Invocations |->
            [operation |-> "json", connection |-> "none", at |-> "idle"]]
    /\ scopes = {} /\ slotsHeld = 0

At(i, places) == invocation[i].at \in places

Becomes(S, place, connection) ==
    invocation' = [i \in Invocations |->
        IF i \in S THEN [invocation[i] EXCEPT !.at = place, !.connection = connection]
                   ELSE invocation[i]]

\* The finally blocks of executeWithFailover for the requests S.
Unscoped(S) ==
    /\ scopes' = scopes \ S
    /\ slotsHeld' = slotsHeld - Cardinality(S \cap scopes)

-----------------------------------------------------------------------------

\* Schema, sizes and path parameters are checked before anything is sent.
IsRejected(i) ==
    /\ At(i, {"idle"})
    /\ Becomes({i}, "failed", "none")
    /\ UNCHANGED <<scopes, slotsHeld>>

Invoke(i, operation) ==
    /\ At(i, {"idle"})
    /\ invocation' = [invocation EXCEPT ![i] =
            [operation |-> operation, connection |-> "open", at |-> "sent"]]
    /\ IF operation = "cloud" THEN UNCHANGED <<scopes, slotsHeld>>
       ELSE scopes' = scopes \cup {i} /\ slotsHeld' = slotsHeld + 1

\* The answer was read in full; parsing or validateResponses may reject it.
JsonArrives(i) ==
    /\ At(i, {"sent"}) /\ invocation[i].operation # "stream"
    /\ \E place \in {"over", "failed"} : Becomes({i}, place, "closed")
    /\ Unscoped({i})

\* The headers of a streaming answer; the request is over for the executor.
HeadersArrive(i) ==
    /\ At(i, {"sent"}) /\ invocation[i].operation = "stream"
    /\ \/ Becomes({i}, "handed over", "open")
       \/ Becomes({i}, "failed", "closed")      \* a response without a body
    /\ Unscoped({i})

\* An error status or a failing fetch on the last endpoint; the caller's signal;
\* the timer, which only the failover backend has.
SendingFails(i) ==
    /\ At(i, {"sent"})
    /\ Becomes({i}, "failed", "closed")
    /\ Unscoped({i})

\* Mutant: controllers are cleared by their own clean-up only, which runs later.
DestroyGenerated_SlotsStay ==
    /\ scopes # {}
    /\ Becomes(scopes, "failed", "closed")
    /\ scopes' = {} /\ UNCHANGED slotsHeld

\* destroy(), and the rejections it causes.
DestroyGenerated ==
    /\ scopes # {}
    /\ Becomes(scopes, "failed", "closed")
    /\ Unscoped(scopes)

-----------------------------------------------------------------------------
(* The generator.                                                          *)

\* The first next() takes the reader.
BeginsToRead(i) ==
    /\ At(i, {"handed over"})
    /\ Becomes({i}, "reading", "open")
    /\ UNCHANGED <<scopes, slotsHeld>>

\* The server ends it, "[DONE]" comes, or the consumer leaves its loop; or a line
\* is no JSON or an error, or the connection drops.  The reader is cancelled.
StopsReading(i) ==
    /\ At(i, {"reading"})
    /\ \E place \in {"over", "failed"} : Becomes({i}, place, "closed")
    /\ UNCHANGED <<scopes, slotsHeld>>

\* The consumer never iterates: no finally block runs.
IsDropped(i) ==
    /\ At(i, {"handed over"})
    /\ Becomes({i}, "dropped", "open")
    /\ UNCHANGED <<scopes, slotsHeld>>

RuntimeNext ==
    \/ \E i \in Invocations :
        \/ IsRejected(i) \/ \E operation \in Operations : Invoke(i, operation)
        \/ JsonArrives(i) \/ HeadersArrive(i) \/ SendingFails(i)
        \/ BeginsToRead(i) \/ StopsReading(i) \/ IsDropped(i)
    \/ DestroyGenerated

RuntimeSpec == RuntimeInit /\ [][RuntimeNext]_runtimeVars

-----------------------------------------------------------------------------
(* Properties.                                                             *)

\* The executor's hold on a generated request ends with the headers at the
\* latest: a slot is taken while it is on its way and given back once, whether
\* an answer, an error or destroy() ends it; after that nothing is left open but
\* a stream nobody has read to its end.
GeneratedCallsGiveBack ==
    /\ slotsHeld = Cardinality({i \in Invocations :
            At(i, {"sent"}) /\ invocation[i].operation # "cloud"})
    /\ \A i \in Invocations :
        invocation[i].connection = "open" /\ ~At(i, {"sent"}) =>
            At(i, {"handed over", "reading", "dropped"})

\* README: "One call aborts every in-flight request, active stream, and queued
\* capacity waiter": a stream that is being read is one destroy() can reach.
ActiveStreamsAreReachable ==
    \A i \in Invocations : At(i, {"reading"}) => i \in scopes
===============================================================================
