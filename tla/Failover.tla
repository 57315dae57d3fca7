------------------------------ MODULE Failover ------------------------------
(***************************************************************************)
(* OllamaClient.executeWithFailover (src/client.ts) over the endpoint      *)
(* registry: concurrent requests that choose an endpoint, queue when every *)
(* candidate is at its cap, try the candidates one after the other, and    *)
(* hold their slot while a stream is being consumed.  JavaScript runs one  *)
(* piece of code at a time, so a step of this module is what one request   *)
(* does between two awaits; what may happen at an await (another request's *)
(* step, a timer, an abort, destroy()) is another action.                  *)
(***************************************************************************)
EXTENDS EndpointRegistry

CONSTANTS
    Kinds,            \* the options requests are made with
    FailoverCodes,    \* config.failoverOn
    NoEndpoint

ASSUME KindsAssumption ==
    Kinds \subseteq [model : Models \cup {NoModel}, single : BOOLEAN, stream : BOOLEAN]
ASSUME NoEndpointAssumption == NoEndpoint \notin Endpoints

VARIABLES
    options,     \* the options each request is made with
    pc,          \* where each request is
    endpoint,    \* the endpoint of the attempt under way, or whose slot is held
    untried,     \* the rest of the list of endpoints chosen before the first attempt
    attempt,     \* attemptIndex: the place of endpoint in that list
    sent,        \* the attempt began with a live signal, so fetch() sent it
    signal,      \* the request's abort signal, and why it fired
    result,      \* what the caller got
    activeRequests  \* the requests destroy() can reach

requestVars ==
    <<options, pc, endpoint, untried, attempt, sent, signal, result, activeRequests>>
vars == <<registryVars, requestVars>>

Codes == {"server_error", "client_error", "timeout", "aborted"}
Results == {"none", "ok", "unroutable"} \cup Codes

InFlight == {"choosing", "waiting", "running", "held"}
Holding  == {"running", "held"}

Holders(e) == {r \in Requests : pc[r] \in Holding /\ endpoint[r] = e}

TypeOK ==
    /\ RegistryTypeOK
    /\ options \in [Requests -> Kinds]
    /\ pc \in [Requests -> {"idle", "settled"} \cup InFlight]
    /\ endpoint \in [Requests -> Endpoints \cup {NoEndpoint}]
    /\ untried \in [Requests -> Seq(Endpoints)]
    /\ attempt \in [Requests -> Nat]
    /\ sent \in [Requests -> BOOLEAN]
    /\ signal \in [Requests -> {"live", "timeout", "aborted"}]
    /\ result \in [Requests -> Results]
    /\ activeRequests \subseteq Requests

Init ==
    /\ RegistryInit
    /\ options \in [Requests -> Kinds]
    /\ pc = [r \in Requests |-> "idle"]
    /\ endpoint = [r \in Requests |-> NoEndpoint]
    /\ untried = [r \in Requests |-> <<>>]
    /\ attempt = [r \in Requests |-> 0]
    /\ sent = [r \in Requests |-> FALSE]
    /\ signal = [r \in Requests |-> "live"]
    /\ result = [r \in Requests |-> "none"]
    /\ activeRequests = {}

-----------------------------------------------------------------------------
(* One iteration of the for(;;) loop, up to its first await.               *)

\* The request ends before it holds a slot.
Settle(r, how) ==
    /\ pc' = [pc EXCEPT ![r] = "settled"]
    /\ result' = [result EXCEPT ![r] = how]
    /\ UNCHANGED <<endpoint, untried, attempt, sent, activeCounts, waiters>>

\* No endpoint's allow-list names the model: OllamaModelRoutingError.
FindsNoEndpoint(r, considered) ==
    /\ considered = {}
    /\ Settle(r, "unroutable")

\* Every candidate is at its cap: waitForCapacity, which rejects at once when
\* the signal has fired.
Queues(r, considered, sig) ==
    /\ considered # {}
    /\ \A e \in considered : ~HasCapacity(e)
    /\ \/ /\ sig = "live"
          /\ pc' = [pc EXCEPT ![r] = "waiting"]
          /\ waiters' = Append(waiters, [request |-> r, names |-> considered])
          /\ UNCHANGED <<endpoint, untried, attempt, sent, result, activeCounts>>
       \/ /\ sig # "live"
          /\ Settle(r, sig)

\* The first attempt: the list of runnable endpoints is fixed here, and the
\* slot of the first is taken in the step that found it free.
Dispatches(r, considered, sig) ==
    LET runnable == {e \in considered : HasCapacity(e)} IN
    /\ runnable # {}
    /\ \E ordered \in Orderings(runnable, options[r].model) :
        /\ endpoint' = [endpoint EXCEPT ![r] = ordered[1]]
        /\ untried' = [untried EXCEPT ![r] = Tail(ordered)]
        /\ activeCounts' = Acquired(activeCounts, ordered[1])
    /\ attempt' = [attempt EXCEPT ![r] = 0]
    /\ sent' = [sent EXCEPT ![r] = (sig = "live")]
    /\ pc' = [pc EXCEPT ![r] = "running"]
    /\ UNCHANGED <<result, waiters>>

Iterate(r, sig) ==
    LET model == options[r].model IN
    /\ \E ordered \in Orderings(Candidates(model), model) :
        LET considered == IF options[r].single
                          THEN {ordered[i] : i \in DOMAIN ordered \cap {1}}
                          ELSE Candidates(model)
        IN  \/ FindsNoEndpoint(r, considered)
            \/ Queues(r, considered, sig)
            \/ Dispatches(r, considered, sig)
    /\ roundRobinCounter' = NextRotation(model)
    /\ UNCHANGED <<options, failureCounts, failureAge>>

\* The call, with a caller's signal that may already have fired.
Call(r) ==
    /\ pc[r] = "idle"
    /\ \E sig \in {"live", "aborted"} :
        /\ signal' = [signal EXCEPT ![r] = sig]
        /\ Iterate(r, sig)
    /\ activeRequests' =
        IF pc'[r] = "settled" THEN activeRequests ELSE activeRequests \cup {r}

\* The continuation of the await on waitForCapacity.
Resume(r) ==
    /\ pc[r] = "choosing"
    /\ Iterate(r, signal[r])
    /\ activeRequests' =
        IF pc'[r] = "settled" THEN activeRequests \ {r} ELSE activeRequests
    /\ UNCHANGED signal

-----------------------------------------------------------------------------
(* The end of an attempt.                                                  *)

\* release(e): the waiter it wakes goes on when its promise job runs.
Wakes(e, states) ==
    [w \in Requests |-> IF w \in Woken(e) THEN "choosing" ELSE states[w]]

ReleasesAndSettles(r, how) ==
    LET e == endpoint[r] IN
    /\ pc' = Wakes(e, [pc EXCEPT ![r] = "settled"])
    /\ result' = [result EXCEPT ![r] = how]
    /\ endpoint' = [endpoint EXCEPT ![r] = NoEndpoint]
    /\ untried' = [untried EXCEPT ![r] = <<>>]
    /\ attempt' = [attempt EXCEPT ![r] = 0]
    /\ sent' = [sent EXCEPT ![r] = FALSE]
    /\ activeCounts' = Released(activeCounts, e)
    /\ LeaveQueue(Woken(e))
    /\ activeRequests' = activeRequests \ {r}

\* Mutant: a stream's scope is disposed as soon as the stream exists.
AttemptSucceeds_DisposingScope(r) ==
    /\ pc[r] = "running"
    /\ sent[r]
    /\ ReportSuccess(endpoint[r])
    /\ \/ /\ ~options[r].stream
          /\ ReleasesAndSettles(r, "ok")
       \/ /\ options[r].stream
          /\ pc' = [pc EXCEPT ![r] = "held"]
          /\ result' = [result EXCEPT ![r] = "ok"]
          /\ activeRequests' = activeRequests \ {r}
          /\ UNCHANGED <<endpoint, untried, attempt, sent, activeCounts, waiters>>
    /\ UNCHANGED <<options, signal, roundRobinCounter>>

\* The operation resolves.  A plain request gives its slot back; a stream
\* keeps the slot, the timer and its place in activeRequests.
AttemptSucceeds(r) ==
    /\ pc[r] = "running"
    /\ sent[r]
    /\ ReportSuccess(endpoint[r])
    /\ \/ /\ ~options[r].stream
          /\ ReleasesAndSettles(r, "ok")
       \/ /\ options[r].stream
          /\ pc' = [pc EXCEPT ![r] = "held"]
          /\ result' = [result EXCEPT ![r] = "ok"]
          /\ UNCHANGED <<endpoint, untried, attempt, sent, activeCounts, waiters,
                         activeRequests>>
    /\ UNCHANGED <<options, signal, roundRobinCounter>>

\* How an attempt can fail: fetch() rejects with the reason of a signal that
\* has fired, and at once when it had fired before the attempt began.
FailsWith(r, code) ==
    /\ pc[r] = "running"
    /\ \/ code = signal[r]
       \/ sent[r] /\ code \in {"server_error", "client_error"}

\* The error is thrown to the caller: it is not one to fail over on, or no
\* endpoint is left.
GivesUp(r, code) ==
    /\ FailsWith(r, code)
    /\ code \notin FailoverCodes \/ untried[r] = <<>>
    /\ ReportFailure(endpoint[r])
    /\ ReleasesAndSettles(r, code)
    /\ UNCHANGED <<options, signal, roundRobinCounter>>

\* Mutant: the failed endpoint is not released before the next is tried.
FailsOver_Unreleased(r, code) ==
    LET next == Head(untried[r]) IN
    /\ FailsWith(r, code)
    /\ code \in FailoverCodes /\ untried[r] # <<>>
    /\ ReportFailure(endpoint[r])
    /\ activeCounts' = Acquired(activeCounts, next)
    /\ endpoint' = [endpoint EXCEPT ![r] = next]
    /\ untried' = [untried EXCEPT ![r] = Tail(@)]
    /\ attempt' = [attempt EXCEPT ![r] = @ + 1]
    /\ sent' = [sent EXCEPT ![r] = (signal[r] = "live")]
    /\ UNCHANGED <<options, pc, waiters, signal, result, activeRequests,
                   roundRobinCounter>>

\* The next endpoint of the list is acquired as soon as the failed one is
\* released; whether it has capacity now is not asked again.
FailsOver(r, code) ==
    LET e == endpoint[r]
        next == Head(untried[r])
    IN
    /\ FailsWith(r, code)
    /\ code \in FailoverCodes /\ untried[r] # <<>>
    /\ ReportFailure(e)
    /\ pc' = Wakes(e, pc)
    /\ LeaveQueue(Woken(e))
    /\ activeCounts' = Acquired(Released(activeCounts, e), next)
    /\ endpoint' = [endpoint EXCEPT ![r] = next]
    /\ untried' = [untried EXCEPT ![r] = Tail(@)]
    /\ attempt' = [attempt EXCEPT ![r] = @ + 1]
    /\ sent' = [sent EXCEPT ![r] = (signal[r] = "live")]
    /\ UNCHANGED <<options, signal, result, activeRequests, roundRobinCounter>>

AttemptFails(r) == \E code \in Codes : GivesUp(r, code) \/ FailsOver(r, code)

\* holdUntil's promise settles: the stream ended, failed or was aborted.
HoldEnds(r) ==
    /\ pc[r] = "held"
    /\ ReleasesAndSettles(r, result[r])
    /\ UNCHANGED <<options, signal, failureCounts, failureAge, roundRobinCounter>>

-----------------------------------------------------------------------------
(* What happens at the awaits.                                             *)

\* Mutant: a queued request does not listen to its signal.
Fire_UnheardInQueue(S, why) ==
    LET hit == {r \in S : pc[r] \in InFlight /\ signal[r] = "live"} IN
    /\ hit # {}
    /\ signal' = [r \in Requests |-> IF r \in hit THEN why ELSE signal[r]]
    /\ UNCHANGED <<registryVars, options, pc, endpoint, untried, attempt, sent, result>>

\* Mutant: the timer of a call that was answered overwrites its answer.
Fire_OverwritingAnswers(S, why) ==
    LET hit == {r \in S : pc[r] \in {"waiting", "held"} /\ signal[r] = "live"} IN
    /\ hit # {}
    /\ signal' = [r \in Requests |-> IF r \in hit THEN why ELSE signal[r]]
    /\ pc' = [r \in Requests |-> IF r \in hit THEN "settled" ELSE pc[r]]
    /\ result' = [r \in Requests |-> IF r \in hit THEN why ELSE result[r]]
    /\ LeaveQueue(hit)
    /\ UNCHANGED <<options, endpoint, untried, attempt, sent, failureCounts,
                   failureAge, activeCounts, roundRobinCounter>>

\* The signals of S fire.  A queued request rejects with the reason; any
\* other finds it at its next await.
Fire(S, why) ==
    LET hit == {r \in S : pc[r] \in InFlight /\ signal[r] = "live"}
        queued == {r \in hit : pc[r] = "waiting"}
    IN
    /\ hit # {}
    /\ signal' = [r \in Requests |-> IF r \in hit THEN why ELSE signal[r]]
    /\ pc' = [r \in Requests |-> IF r \in queued THEN "settled" ELSE pc[r]]
    /\ result' = [r \in Requests |-> IF r \in queued THEN why ELSE result[r]]
    /\ LeaveQueue(queued)
    /\ UNCHANGED <<options, endpoint, untried, attempt, sent, failureCounts,
                   failureAge, activeCounts, roundRobinCounter>>

Unsettled == {r \in activeRequests : pc'[r] # "settled"}

TimesOut(r) ==
    /\ Fire({r}, "timeout")
    /\ activeRequests' = Unsettled

CallerAborts(r) ==
    /\ Fire({r}, "aborted")
    /\ activeRequests' = Unsettled

Destroy ==
    /\ Fire(activeRequests, "aborted")
    /\ activeRequests' = {}

\* The openai and anthropic getters ask for the best candidate too, which
\* moves the rotation on.
AdapterReadsCandidates ==
    /\ Strategy = "round-robin"
    /\ roundRobinCounter' = NextRotation(NoModel)
    /\ UNCHANGED <<failureCounts, failureAge, activeCounts, waiters, requestVars>>

ClockTicks == Tick /\ UNCHANGED requestVars

-----------------------------------------------------------------------------

Next ==
    \/ \E r \in Requests :
        \/ Call(r)
        \/ Resume(r)
        \/ AttemptSucceeds(r)
        \/ AttemptFails(r)
        \/ HoldEnds(r)
        \/ TimesOut(r)
        \/ CallerAborts(r)
    \/ Destroy
    \/ AdapterReadsCandidates
    \/ ClockTicks

\* Promise jobs run, an armed timer fires, and fetch() rejects once its signal
\* has fired.  Nothing is assumed of servers, of callers, or of the streams
\* that hold slots.
Fairness ==
    \A r \in Requests :
        /\ WF_vars(Resume(r))
        /\ WF_vars(TimesOut(r))
        /\ WF_vars(signal[r] # "live" /\ AttemptFails(r))

Spec == Init /\ [][Next]_vars
FairSpec == Spec /\ Fairness

-----------------------------------------------------------------------------
(* Properties.                                                             *)

\* Every acquire() is paired with one release(): the count of an endpoint is
\* the number of requests that hold a slot of it, on every path out of
\* executeWithFailover (success, error, failover, stream, abort).
SlotsAreHeld ==
    \A e \in Endpoints : activeCounts[e] = Cardinality(Holders(e))

\* What the synchronous filterWithCapacity/acquire pair does guarantee of
\* maxConcurrentPerEndpoint: the requests that reached an endpoint as their
\* first choice never exceed the cap, whatever failovers have added to it.
FirstChoosers(e) == {r \in Holders(e) : attempt[r] = 0}

FirstAttemptsWithinCap ==
    Cap # NoCap => \A e \in Endpoints : Cardinality(FirstChoosers(e)) <= Cap

\* A request queues once and only while it waits; a settled or woken request
\* leaves nothing behind in the queue.
QueueHoldsTheWaiting ==
    /\ {waiters[i].request : i \in DOMAIN waiters}
        = {r \in Requests : pc[r] = "waiting"}
    /\ \A i, j \in DOMAIN waiters :
        waiters[i].request = waiters[j].request => i = j

\* destroy() reaches every request whose signal can still be fired, streams
\* under consumption included, and never a request that has settled.
DestroyReachesEveryRequest ==
    /\ \A r \in Requests :
        pc[r] \in InFlight /\ signal[r] = "live" => r \in activeRequests
    /\ \A r \in activeRequests : pc[r] \in InFlight

\* ADR 0008: an operation bound to one server, and one bound to the endpoints
\* that may serve its model, never ends up on another endpoint.
StaysOnItsEndpoints ==
    \A r \in Requests : pc[r] \in Holding =>
        /\ options[r].model = NoModel \/ options[r].model \in Serves[endpoint[r]]
        /\ options[r].single => attempt[r] = 0 /\ untried[r] = <<>>

\* Every step is one SlotPool allows or leaves slots and answers alone: each
\* slot is taken while it is free, moved or given back exactly once, and a late
\* answer, timer or abort changes neither the result of a settled call nor the
\* slots.
Pool == INSTANCE SlotPool WITH
    Nowhere <- NoEndpoint,
    place <- [r \in Requests |-> IF pc[r] \in Holding THEN endpoint[r] ELSE NoEndpoint],
    load <- activeCounts,
    answer <- result

ImplementsSlotPool == Pool!PoolSpec

\* The circuit breaker: a call whose first attempt goes to a cooling endpoint
\* finds every endpoint it may use cooling.
FailsOpenOnly ==
    [][\A r \in Requests :
        pc[r] \in {"idle", "choosing"} /\ pc'[r] = "running" =>
            \/ ~IsCooling(endpoint'[r])
            \/ Healthy(options[r].model) = {}]_vars

\* "Waiting is bounded by the request's own timeout/AbortSignal": the promise
\* every call returned settles, even if no server answers and no stream ever
\* gives its slot back.
EveryCallIsAnswered ==
    \A r \in Requests :
        pc[r] \in {"choosing", "waiting", "running"} ~> pc[r] \in {"held", "settled"}

\* failover.md: "the exact cap, not fairness, is the guarantee".
CapIsExact == Cap # NoCap => \A e \in Endpoints : activeCounts[e] <= Cap

\* waitForCapacity: "queues until a matching release() frees a slot": nobody
\* waits for an endpoint with a free slot unless a woken request is on its way.
NobodyWaitsForAFreeSlot ==
    \A i \in DOMAIN waiters :
        (\E e \in waiters[i].names : HasCapacity(e))
            => \E r \in Requests : pc[r] = "choosing"
=============================================================================
