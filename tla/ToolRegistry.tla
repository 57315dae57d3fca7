----------------------------- MODULE ToolRegistry -----------------------------
(***************************************************************************)
(* ToolRegistry.executeToolCalls (src/tools/registry.ts): one batch of     *)
(* calls on a pool of workers that share nextIndex.  A call ends with its  *)
(* tool's own answer, its timer, the caller's abort or a refusal before    *)
(* the tool is reached; onError turns each of the last into a result, and  *)
(* when onError itself throws the batch is rejected while the other        *)
(* workers go on.                                                          *)
(***************************************************************************)
EXTENDS Integers, Sequences, FiniteSets

CONSTANTS
    Calls,          \* signatures: a tool with its arguments
    Known,          \* the calls of registered tools with valid arguments
    Timed,          \* the calls of tools with a timeout
    MaxConcurrency  \* 0: no limit

ASSUME CallsAssumption ==
    /\ Known \subseteq Calls /\ Timed \subseteq Calls
    /\ Calls \cap {"queued", "running"} = {}
ASSUME MaxConcurrencyAssumption == MaxConcurrency \in Nat

VARIABLES
    toolCalls,  \* the batch
    results,    \* what is known of each of its calls, by index
    nextIndex,  \* the first call no worker has claimed
    pool,       \* the promise executeToolCalls returned
    started,    \* the calls handed to executeToolCall so far
    aborted     \* ctx.signal

toolVars == <<toolCalls, results, nextIndex, pool, started, aborted>>

Queued  == [call |-> "queued", success |-> FALSE]
Running == [call |-> "running", success |-> FALSE]
Result(c, success) == [call |-> c, success |-> success]

InCall == {i \in DOMAIN results : results[i] = Running}
Settled == {i \in DOMAIN results : results[i] \notin {Queued, Running}}

ToolsInit ==
    /\ toolCalls = <<>> /\ results = <<>> /\ nextIndex = 1
    /\ pool = "idle"
    /\ started = <<>>
    /\ aborted = FALSE

\* How many calls start at once: one per worker, or all without a limit.
FirstClaims(n) ==
    IF MaxConcurrency = 0 \/ MaxConcurrency >= n THEN n ELSE MaxConcurrency

ExecuteToolCalls(batch) ==
    LET first == FirstClaims(Len(batch)) IN
    /\ toolCalls' = batch
    /\ results' = [i \in DOMAIN batch |-> IF i <= first THEN Running ELSE Queued]
    /\ nextIndex' = first + 1
    /\ pool' = "pending"
    /\ started' = started \o SubSeq(batch, 1, first)

\* Mutant: a worker stops at the first call that fails.
Claims_StopsOnFailure(known, failed) ==
    IF nextIndex <= Len(toolCalls) /\ ~failed
    THEN /\ results' = [known EXCEPT ![nextIndex] = Running]
         /\ started' = Append(started, toolCalls[nextIndex])
         /\ nextIndex' = nextIndex + 1
    ELSE results' = known /\ UNCHANGED <<nextIndex, started>>

\* A worker whose call has ended takes the next one.
Claims(known, failed) ==
    IF nextIndex <= Len(toolCalls)
    THEN /\ results' = [known EXCEPT ![nextIndex] = Running]
         /\ started' = Append(started, toolCalls[nextIndex])
         /\ nextIndex' = nextIndex + 1
    ELSE results' = known /\ UNCHANGED <<nextIndex, started>>

\* How a call can end: an unknown tool or invalid arguments at once, a tool's
\* answer, the timer, or the abort that only a tool with a timeout listens to.
MaySucceed(c) == c \in Known
TimerMayFire(c) == c \in Known /\ c \in Timed

\* Mutant: results are kept in the order they arrive.
Stores_AsTheyArrive(i, success) ==
    LET n == Cardinality(Settled) + 1
    IN  [[results EXCEPT ![i] = results[n]] EXCEPT ![n] = Result(toolCalls[i], success)]

Stores(i, success) == [results EXCEPT ![i] = Result(toolCalls[i], success)]

\* executeToolCall resolves: with the tool's output, or a failure that
\* onError has turned into one.
CallEnds(i, success) ==
    /\ i \in InCall
    /\ success => MaySucceed(toolCalls[i])
    /\ Claims(Stores(i, success), ~success)
    /\ pool' = IF pool = "pending" /\ \A j \in DOMAIN results : results'[j] \notin {Queued, Running}
               THEN "resolved" ELSE pool
    /\ UNCHANGED <<toolCalls, aborted>>

\* onError throws: Promise.all rejects, this worker is gone, the others are not.
OnErrorThrows(i) ==
    /\ i \in InCall
    /\ results' = Stores(i, FALSE)
    /\ pool' = "rejected"
    /\ UNCHANGED <<toolCalls, nextIndex, started, aborted>>

CallerAborts ==
    /\ ~aborted
    /\ aborted' = TRUE
    /\ UNCHANGED <<toolCalls, results, nextIndex, pool, started>>
===============================================================================
