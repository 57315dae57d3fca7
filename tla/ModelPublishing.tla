---------------------------- MODULE ModelPublishing ----------------------------
(***************************************************************************)
(* createModelFromGguf() and the blob uploads it is made of                *)
(* (src/models-client.ts).  Every shard is looked for (HEAD), uploaded     *)
(* when the server answers 404, and the model is created from the digests. *)
(* Each of these is a call of its own to executeWithFailover with          *)
(* singleEndpoint: it goes to the best candidate of the moment (module     *)
(* EndpointRegistry) and is retried there only.                            *)
(*                                                                         *)
(* The servers' blob stores are external, and not this client's alone:     *)
(* between two requests another client stores a shard there, or the server *)
(* prunes it.                                                              *)
(***************************************************************************)
EXTENDS EndpointRegistry

CONSTANTS
    ShardCount,     \* paths given, primary and draft ones
    MaxCallRetries, \* retry.maxRetries
    NoEndpoint

Shards == 1 .. ShardCount

ASSUME PublishingAssumption ==
    ShardCount \in Nat \ {0} /\ MaxCallRetries \in Nat /\ NoEndpoint \notin Endpoints

VARIABLES
    blobs,      \* what is in the store of each server
    oneShot,    \* bodies are streams, which can be sent only once
    step,       \* check, upload, create; or published, failed
    shard,      \* the one the step is about
    target,     \* the endpoint the call under way was sent to, if there is one
    attempt,    \* of that call
    servedBy,   \* the endpoint that answered for each shard
    lost,       \* shards that have since gone from the store of that endpoint (ghost)
    createdFrom \* what the server that created the model had then (ghost)

publishingVars ==
    <<registryVars, blobs, oneShot, step, shard, target, attempt, servedBy, lost, createdFrom>>

PublishingTypeOK ==
    /\ RegistryTypeOK
    /\ blobs \in [Endpoints -> SUBSET Shards] /\ oneShot \in BOOLEAN
    /\ step \in {"check", "upload", "create", "published", "failed"}
    /\ shard \in Shards /\ attempt \in 0 .. MaxCallRetries + 1
    /\ target \in Endpoints \cup {NoEndpoint}
    /\ servedBy \in [Shards -> Endpoints \cup {NoEndpoint}]
    /\ lost \subseteq Shards /\ createdFrom \subseteq Shards

PublishingInit ==
    /\ RegistryInit
    /\ blobs \in [Endpoints -> SUBSET Shards] /\ oneShot \in BOOLEAN
    /\ step = "check" /\ shard = 1
    /\ target = NoEndpoint /\ attempt = 0
    /\ servedBy = [s \in Shards |-> NoEndpoint]
    /\ lost = {} /\ createdFrom = {}

-----------------------------------------------------------------------------

\* candidates()[0].
Best(e) ==
    /\ e \in Candidates(NoModel)
    /\ \A d \in Candidates(NoModel) \ {e} : Precedes(e, d, NoModel)

\* A call of the runner.  While the best endpoint is full it waits there, which
\* is module Failover's concern.
CallStarts(e) ==
    /\ step \in {"check", "upload", "create"} /\ target = NoEndpoint
    /\ Best(e) /\ HasCapacity(e)
    /\ target' = e /\ attempt' = 1
    /\ activeCounts' = Acquired(activeCounts, e)
    /\ roundRobinCounter' = NextRotation(NoModel)
    /\ UNCHANGED <<failureCounts, failureAge, waiters, blobs, oneShot, step, shard, servedBy,
                   lost, createdFrom>>

CallEnds == target' = NoEndpoint /\ attempt' = 0 /\ activeCounts' = Released(activeCounts, target)

\* The next shard, or create().
NextShard ==
    IF shard < ShardCount THEN step' = "check" /\ shard' = shard + 1
                          ELSE step' = "create" /\ UNCHANGED shard

\* Mutant: checkBlob() takes a blob for there unless the answer is a 404.
Accepted_UnlessAbsent(answer) == answer = "ok" \/ (step = "check" /\ answer # "absent")

Accepted(answer) == answer = "ok"

\* What the server answers: what it does with an upload whose connection breaks
\* is not known.
ServerAnswers(answer) ==
    CASE step = "check" -> answer \in {IF shard \in blobs[target] THEN "ok" ELSE "absent",
                                       "refused", "transient"}
      [] step = "upload" -> answer \in {"ok", "refused", "transient"}
      [] step = "create" -> answer \in {IF blobs[target] = Shards THEN "ok" ELSE "refused",
                                        "transient"}

\* A stream that was sent once is used up: fetch() throws before it sends.
BodyIsUsed == step = "upload" /\ oneShot /\ attempt > 1

Stores(answer) ==
    /\ step = "upload" /\ ~BodyIsUsed
    /\ answer \in {"ok", "transient"}
    /\ blobs' = [blobs EXCEPT ![target] = @ \cup {shard}]

\* withRetry asks the same endpoint again.
Retries ==
    /\ attempt <= MaxCallRetries
    /\ attempt' = attempt + 1
    /\ UNCHANGED <<step, shard, target, servedBy, createdFrom, failureCounts, failureAge,
                   activeCounts>>

Succeeds ==
    /\ ReportSuccess(target) /\ CallEnds
    /\ IF step = "create"
       THEN step' = "published" /\ createdFrom' = blobs[target] /\ UNCHANGED <<shard, servedBy>>
       ELSE NextShard /\ servedBy' = [servedBy EXCEPT ![shard] = target] /\ UNCHANGED createdFrom

\* Every error is a failure of the endpoint; the 404 of checkBlob() too.
Errs(answer) ==
    /\ ReportFailure(target) /\ CallEnds
    /\ step' = IF step = "check" /\ answer = "absent" THEN "upload" ELSE "failed"
    /\ UNCHANGED <<shard, servedBy, createdFrom>>

CallAnswered(answer) ==
    /\ target # NoEndpoint
    /\ IF BodyIsUsed THEN answer = "transient" ELSE ServerAnswers(answer)
    /\ \/ Stores(answer)
       \/ (answer # "ok" \/ step # "upload") /\ UNCHANGED blobs
    /\ \/ Accepted(answer) /\ Succeeds
       \/ ~Accepted(answer) /\ answer = "transient" /\ Retries
       \/ ~Accepted(answer) /\ (answer = "transient" => attempt > MaxCallRetries) /\ Errs(answer)
    /\ UNCHANGED <<roundRobinCounter, waiters, oneShot, lost>>

\* The signal, or the timer of the call: it fails wherever it is.
CallCancelled ==
    /\ target # NoEndpoint
    /\ ReportFailure(target) /\ CallEnds
    /\ step' = "failed"
    /\ UNCHANGED <<roundRobinCounter, waiters, blobs, oneShot, shard, servedBy, lost, createdFrom>>

\* The outcome of another request of the client, on any endpoint.
OtherTraffic ==
    /\ \E e \in Endpoints : ReportSuccess(e) \/ ReportFailure(e)
    /\ UNCHANGED <<activeCounts, roundRobinCounter, waiters, blobs, oneShot, step, shard,
                   target, attempt, servedBy, lost, createdFrom>>

\* Somebody else's upload, or the loss of a blob.
StoreChanges(e, s) ==
    /\ \/ /\ s \notin blobs[e]
          /\ blobs' = [blobs EXCEPT ![e] = @ \cup {s}]
          /\ UNCHANGED lost
       \/ /\ s \in blobs[e]
          /\ blobs' = [blobs EXCEPT ![e] = @ \ {s}]
          /\ lost' = IF servedBy[s] = e THEN lost \cup {s} ELSE lost
    /\ UNCHANGED <<registryVars, oneShot, step, shard, target, attempt, servedBy, createdFrom>>

PublishingTick ==
    /\ Tick
    /\ UNCHANGED <<blobs, oneShot, step, shard, target, attempt, servedBy, lost, createdFrom>>

PublishingNext ==
    \/ \E e \in Endpoints : CallStarts(e)
    \/ \E answer \in {"ok", "absent", "refused", "transient"} : CallAnswered(answer)
    \/ CallCancelled
    \/ OtherTraffic
    \/ \E e \in Endpoints, s \in Shards : StoreChanges(e, s)
    \/ PublishingTick

PublishingSpec == PublishingInit /\ [][PublishingNext]_publishingVars

-----------------------------------------------------------------------------
(* Properties.                                                             *)

\* When the model is created, every shard is in the store of a server that said
\* so, or took it, during this call, unless it has gone from there since; and the
\* call reports a model only when the server that created it had all the shards
\* then, wherever they were uploaded and whatever has become of them: the refusal
\* of a server without them is never taken for an answer.
ShardsAreSomewhere ==
    /\ step \in {"create", "published"} =>
        \A s \in Shards : servedBy[s] # NoEndpoint /\ (s \in blobs[servedBy[s]] \/ s \in lost)
    /\ step = "published" => createdFrom = Shards

\* "A multi-endpoint setup never silently lists/mutates the wrong server": the
\* shards are uploaded to the server the model is created on.
\* It does not hold (README.md, Divergences found).
CreateFindsItsBlobs ==
    step = "create" /\ target # NoEndpoint => blobs[target] = Shards
=============================================================================
