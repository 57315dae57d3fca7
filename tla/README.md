# TLA+ models of the Ollama SDK

Models of the parts of this SDK in which concurrent requests, timers, aborts
and failures meet, checked with TLC on small instances and, where a property
matters most, proved with TLAPS for every instance. Sources are cited relative
to the repository root (`src/client.ts`, `docs/adr/...`).

## The system

`OllamaClient` sends requests to one of several Ollama endpoints. JavaScript
runs one piece of code at a time, so what can go wrong lies at the awaits: what
was read before one and is used after it, and who else ran meanwhile.

| Component | State | Operations | What is hard | What makes it correct |
|---|---|---|---|---|
| Endpoint registry (`src/providers/endpoint-registry.ts`) | failure counts, last failures, active counts, rotation counter, capacity queue | `candidates`, `filterWithCapacity`, `acquire`, `release`, `waitForCapacity`, `reportSuccess`, `reportFailure` | queue against aborts; order of candidates | counts match holders, queue matches waiters |
| Failover executor (`executeWithFailover`, `createRequestScope`, `destroy` in `src/client.ts`; `src/transport/timeout.ts`) | one request scope, timer and list of endpoints per call; the set of active requests | call, wait, attempt, fail over, hold for a stream, time out, abort, destroy | each await may end in an answer, an error, a timer, an abort | slots paired, calls settle once and in the end, teardown reaches everything |
| `OllamaStream` and its transport (`src/streaming/stream.ts`, `requestStream` in `src/transport/http.ts`) | mode, `finalResult`, abort listeners, response body | `for await`, `on`, `abort`, the signal | done, abort, end and consumer in any order; throwing listeners | `finalResult` settles, connection closes, slot comes back |
| Model-affinity scheduler (`src/affinity.ts`) | queues per model, active counts, `/api/ps` cache, drain waiters | `run`, pump, task completion, `dispose` | probes overtaken by other calls; cascades of starts | bounds, no lost wakeup, a hot model drains first |
| Model-affinity router (`src/providers/model-affinity-router.ts`) | snapshot cache, failure times, probes in flight | `reorder`, `warm`, `status` | stale snapshots, concurrent refreshes | one probe per endpoint, no reorder on stale data |
| Quota manager (`src/quota.ts`) | usage and start of each window | `canProceed`, `recordUsage`, `reset` | check and record around an await | bounded overrun |
| Conversation session (`src/conversation.ts`) | history, tallies | `sendTurn`, `compact`, `reset` | concurrent and failing turns | prompts stay a prefix of the history, compaction keeps what fits |
| Tool registry and agent (`src/tools/registry.ts`, `src/agent/agent.ts`) | worker index, timers, budgets, signature counts | `executeToolCalls`, `run` | pool, timeouts, budgets | results in order, budgets never exceeded |
| Embed batching (`src/embed-batch.ts`) | next batch, first failure | `batchEmbed` | fail-fast among workers | first failure surfaces, nothing starts after it |
| Transport and retry (`src/transport/http.ts`, `retry.ts`, `fetch-with-backoff.ts`, `src/errors.ts`, `src/responses.ts`) | attempt | `request`, `requestStream`, `withRetry`, `mapError`, the fallback of `responses` | error bodies, aborts between attempts, retry under failover under fallback | asks again only when that can help and nothing was shown |
| Parsers (`src/streaming/ndjson.ts`, `sse.ts`) | buffer | one generator each | splits across reads | same items for every split |
| Tool-call reassembly (`src/tools/tool-call-accumulator.ts`, `tool-call-id.ts`, `src/streaming/normalize.ts`) | calls by index and id | merge a chunk | pieces without ids, repeated or interleaved | one call per announced id |
| Stream observers (`src/streaming/observe.ts`) | chain of hooks | `observeStream` | slow, failing hooks beside a consumer that leaves | hooks see the stream the consumer saw |
| Compatibility streams (`src/integrations/openai.ts`, `anthropic.ts`) | partial answer, `finalResult` | `for await`, `on`, `abort` | consumer leaves, source fails, errors in band | `finalResult` is what was shown |
| Model publishing (`src/models-client.ts`) | the servers' blobs | `createModelFromGguf`, `createBlob` | several requests, each with its own candidate | shards are where the server said |
| Version gates (`src/client.ts`, `src/generated/runtime/runtime.ts`, `src/decision.ts`) | a cached probe each | `systemOne`, `invoke`, `rank` | shared probes, impatient callers | one probe at a time, answers kept |
| Generated runtime (`src/generated/runtime/runtime.ts`, `src/failover-http-client.ts`) | slot and scope of each call, open bodies | `invoke` | streams that outlive their request | slots come back |
| Request preparation (`src/vision.ts`, `src/utils.ts`, `src/context-safety.ts`) | images under way, the window | `resolveImages`, the context check | redirects, timers and aborts; rounding | an abort stops every fetch, advice is accepted |
| MCP bridge (`src/mcp/mcp-tools.ts`, `bridge.ts`) | registered tools | `listAllMcpTools`, `register`, `refresh` | a catalogue that changes between pages | what is registered was a catalogue |
| Types and request builders, capabilities, schemas, telemetry, draft benchmark, generated operations | little or none | conversions | | not modelled |

Interaction: every API method goes through the executor, which asks the
registry for candidates, holds a slot of it during the attempt, and for a
stream until the stream's `finalResult` settles (`holdUntil`). The request's
scope signal (timer, caller, `destroy()`) reaches the capacity queue, `fetch`,
and the stream. The scheduler sits above the client and calls only
`models.ps()`.

## Modules

* `EndpointRegistry` - the registry. Its methods are synchronous, so they are
  operators that steps of `Failover` use. A candidate list is a set with the
  strict order the sort imposes (`Precedes`); `Orderings` holds the one sequence
  of the set in that order. `failureCounts` stops at the threshold and the
  clock is an age that stops at the cooldown, which no decision can tell from
  the unbounded values; `roundRobinCounter` wraps at a common multiple of the
  sizes of all groups, for the same reason.
* `Failover` - `executeWithFailover`, one action per stretch between two
  awaits: `Call` and `Resume` (an iteration of the loop up to `acquire`, the
  queue or an error), `AttemptSucceeds`, `AttemptFails` (`GivesUp`,
  `FailsOver`), `HoldEnds`, and at the awaits `TimesOut`, `CallerAborts`,
  `Destroy`, `AdapterReadsCandidates`, `ClockTicks`. `sent` records whether
  the attempt began with a live signal. `pc` = "choosing" is a waiter that was
  woken and whose continuation has not run.
* `OllamaStream` - one streamed answer, from the response on: the constructor,
  the generator of `for await` (a `pc` per yield), the pump of `on()` (a chunk
  and its listeners are one step), `abort()`, the reads of the transport, the
  signal, and `ReleaseSlot`, the continuation of `holdUntil`. It is what a
  request of `Failover` does in "held".
* `ModelAffinityScheduler` - `run` (enqueued at once for one model; for several
  after a fresh cache or a probe), `ProbeAnswers`, `ProbeFails`, `Enqueues`,
  `Completes` (with the deletion of the queue, the drain waiters and the
  pump), `Dispose`, `Tick`. A pass of `pump()` never makes a model idle, so the
  number of tasks it starts per model is a function of the state before it
  (`Starts`).
* `EmbedBatch` - `batchEmbed`. A worker's only await is `client.embed()`:
  `Answers` is its settling inside the client, `Completes` and `Fails` the
  worker's continuation up to its next call, return or rejection (`TakesNext`,
  `Catches`); `Start`, `Settles` (`Promise.all` and what follows it) and
  `CallerAborts` are the rest. A worker in "answered" is out of the controller's
  reach.
* `SlotPool` - the abstract specification of what the executor promises of its
  slots and answers: a first endpoint is entered while it has a free slot, a
  request moves or leaves and takes its count along, and is answered once.
  `Failover` implements it (`Pool`, `ImplementsSlotPool`); queue, circuit
  breaker, timers and teardown are stutters or combinations of its steps.
* `ToolRegistry` - `executeToolCalls`: workers that share `nextIndex`, calls that
  end by their tool, their timer, the abort or a refusal, `onError` that may
  throw. `Agent` extends it with the loop of `run()`: what is done between two
  awaits is a step (`ModelChecked`, `ChatAnswers`, `ChatFails`, `ToolsReturn`,
  `ToolsReject`).
* `QuotaManager` - windows that roll over when somebody looks at them, and
  callers with an awaited request between `assertCanProceed` and `recordUsage`.
* `ConversationSession` - turns that append to one history around an awaited
  chat, `compact()` and `reset()`. A message is its role and its turn.
* `ModelAffinityRouter` - snapshots, refreshes in the background, their
  failures, `warm()`; `Reordered` is the stable tiered sort.
* `Transport` - one call on the wire: statuses with the kind of body they have,
  `mapError`, `withRetry` in each attempt of a list of endpoints, and the
  fallback from `/v1/responses` to `/api/chat` on top.
* `StreamParsers` - both parsers, given a text in chunks of any length (`Chunk`)
  and taking a line from the buffer when there is one (`TakeLine`); `Meaning` is
  the reference, defined on the whole text.
* `CompatStreams` - the four streams of the OpenAI and Anthropic clients; a
  piece of text is its position in the stream, an answer the sequence of pieces
  per slot and channel.
* `ToolCallAccumulator`, `StreamObserver`, `McpTools` - the code their first
  comments name.
* `RequestPreparation` - the images of a request and the check of its window. The
  client's `contextWarningThreshold` is a variable, in percent of the window:
  any of `Thresholds`, below or above the whole, or not configured (0.9).
* `ModelPublishing` extends `EndpointRegistry`: each request of a publication
  goes to the best candidate of the moment, and its failures move the others'
  health. The stores are not this client's alone: at any moment a shard appears
  in one or goes from it (`StoreChanges`). `lost` and `createdFrom` are ghosts: the
  shards that have gone from the server that answered for them, and what the
  server that created the model had.
* `VersionGate` - the two gates with a cached probe each, System One calls and
  `rank()` before them.
* `GeneratedRuntime` - `invoke()` over the executor without `holdUntil`, and over
  the plain transport of cloud operations.
* `MCServices` puts these thirteen components, from `QuotaManager` on, into one
  run. They share no state, so each is explored on its own: `part` picks one and
  the others stay in an initial state. The state space is the disjoint union of
  theirs, and every property speaks of one of them.
* `MCFailover`, `MCOllamaStream`, `MCModelAffinityScheduler` give constants
  their values (`EmbedBatch` and `Agent` need no module for that);
  `FailoverProofs`, `OllamaStreamProofs`, `ModelAffinitySchedulerProofs`,
  `EmbedBatchProofs`, `AgentProofs`, `RequestPathProofs` (before and around a
  request) and `AnswerPathProofs` (from the response to the caller) hold the
  proofs, `ListLemmas` what they need of lists.

Definitions named `X_...` after a definition `X` are mutants: `X` with a
plausible bug. Nothing refers to them; with `X` replaced by one, TLC finds the
property it is listed with violated.

## Runs

| Run | Instance | Shows |
|---|---|---|
| `failover` | 2 endpoints, cap 1, 3 requests of mixed scope (a routed stream, a model only one endpoint serves, a single-endpoint call), threshold 2 | slots, queue, scope, routing and teardown; `Failover` implements `SlotPool` |
| `failover_live` | 2 requests, round-robin, an unroutable model too | every call is answered |
| `failover_cap` (violation) | as `failover` | failing over exceeds the cap |
| `failover_wake` (violation) | as `failover`, threshold 1 | a waiter left behind while an endpoint it named is free |
| `stream` | 3 reads of up to 2 lines, every listener may throw, the signal may have fired before | settling, reachability, closing, and the slot's return |
| `stream_settled` (violation) | no throwing listener | an `on()` stream without a done chunk never settles |
| `scheduler` | 2 models, 3 runs with alternatives, 1 model at a time, one dispose | bounds, no lost wakeup, hot until drained, all work ends |
| `embed` | 4 batches, 3 workers | batches taken once, no gaps, the first error surfaces, an abort ends the workers |
| `agent` | 2 known tools, one with a timeout, and an unknown one; batches of up to 3 calls, 2 workers, 3 iterations, 4 calls, 2 repetitions | results in order, budgets, no tool after the end, every run settles |
| `services` | thirteen small instances, below | one property or two per component |
| `transport_fallback` (violation) | 2 endpoints, 1 retry each | a plain-text 404 never reaches the fallback |
| `generated_stream` (violation) | 2 generated calls | `destroy()` does not reach a stream being read |

Bounds. Two endpoints and three requests are the least in which one request
fails over, a second holds the slot it fails over to, and a third waits; one
slot per endpoint makes every second request wait. Requests are interchangeable
and `failover` uses that symmetry; the liveness run does not. Three reads of
two lines let a chunk, the done chunk and an error frame be buffered while an
abort or a timer strikes. Three runs over two models let one run while one
queues behind it and one behind another model. Four batches for three workers
let one worker fail while another completes, a third has its answer on the way,
and a batch is still to be taken.

`agent`: three calls in a batch for two workers is the least in which a call
waits for a worker while another answers late; four calls in total make a batch
of three go over the budget in the second iteration, and three iterations let a
call be repeated across batches.

`services`, per component: two quota windows of different length and two callers
(both pass the check before either records); three turns, budgets that keep all,
some or nothing of the history; three hosts in two tiers; texts of four tokens,
enough for a line that ends in CRLF with a character on each side; two endpoints
with one retry and six kinds of answer; streams of three events; two shards
over two servers; three chunks with two calls each; three observed chunks; three
System One calls over two servers of which one is too old (they are
interchangeable, which the run uses); two generated calls; two images with a
redirect; a window, prompts below it, within its margin and above it, and
thresholds below 1/1.3, just above it, above the whole window and the default
(configured ones with inline images, which end in the step the check is in); three
tools in pages of one over two listings, with one change of the catalogue.
Retries, failures and cached ages are bounded by the constants of those names.

Deadlock is not checked: a client whose calls have all settled stops.

### Fairness

`failover_live`: promise jobs run, an armed timer fires (`timeoutMs` is set by
default and positive), and `fetch` rejects once its signal has fired. Servers,
callers and streams may do nothing for ever. `stream`: the timer and the promise
jobs only, so the slot comes back from a consumer that never reads. `scheduler`:
probes end (they are client requests with a timer), promise jobs run, and the
caller's tasks settle; the fairness is on the union of these steps, which is
enough since calls are finitely many. `embed`: promise jobs run, and an
`embed()` whose signal has fired ends; one whose signal is live may hang.
`agent`: `chat()` and the capabilities check settle (the client's timer), promise
jobs run, a tool's timer fires; a tool without a timeout may never answer, which
is what `RunSettles` excuses.

### Divergences found

Each of these is a run, and a finding of `PROJECT.json`:

1. **The cap is not exact** (`client.ts:594`). The list of endpoints with
   capacity is made once; after an awaited failure the next one is acquired
   unasked. `docs-site/guide/failover.md:205` promises "the exact cap". What does
   hold is `FirstAttemptsWithinCap`, which is proved.
2. **A waiter left behind** (`endpoint-registry.ts:139`). One waiter is woken
   per release; if it goes elsewhere or settles, the free slot wakes nobody.
   `EveryCallIsAnswered` still holds, through the timer.
3. **A stream without a done chunk** (`stream.ts:139`). The pump of `on()` ends
   without settling `finalResult`: slot and scope stay for good. ADR 0025:97 says
   `destroy()` "never leaks an entry for finished work".
4. **A plain-text 404** (`transport/http.ts:374`). After `response.json()` has
   failed, `response.text()` rejects because the body is used up; the 404 becomes
   a network error, is retried and failed over, and the fallback of
   `README.md:314` ("transparently re-issues the request through `/api/chat`")
   does not happen.
5. **Generated streams and `destroy()`** (`failover-http-client.ts:86`). Slot,
   scope and timer are given back with the headers; `README.md:42` says
   `destroy()` aborts every "active stream".

These were established while modelling and have no run of their own. The first
six are stated in the modules, marked as not holding; named as the INVARIANT or
PROPERTY of the corresponding configuration they are violated.

* `OllamaStream.SameErrorEverywhere` (`stream.ts:91`): on a timeout the error
  event carries the timeout, `finalResult` an abort;
  `docs-site/guide/streaming.md:371` says they are the same.
* `EmbedBatch.NoProgressAfterRejection` (`embed-batch.ts:257`): a worker that
  gets its answer after a sibling has failed still calls `onBatchComplete`, "never
  called after the operation rejects" (`embed-batch.ts:86`).
* `ModelPublishing.CreateFindsItsBlobs`: the shards of one publication and its
  create may go to different servers, as health moves between the requests;
  `models-client.ts:51` says a setup "never silently lists/mutates the wrong
  server". The create then fails on the server, and so does the call
  (`ShardsAreSomewhere`).
* `RequestPreparation.AdviceIsAlwaysAccepted`: with a `contextWarningThreshold` below
  1/1.3 the client may refuse the window it has advised. At 0.75 a prompt of 3150
  tokens is told that 4096 "would fit this prompt with ~30% headroom"
  (`context-safety.ts:289`); taken, it is refused, 3150 being more than 3072, with
  the same advice, which depends on the estimate alone. Above 1, `onContextOverflow:
  'throw'` sends prompts larger than the window; nothing validates the value
  (`config.ts:245`).
* `VersionGate.VersionCacheIsRefreshed`: the version of a server that went down is
  used for good, `failover-http-client.ts:23` says it is refreshed.
* `StreamParsers.SupportsCr`: a lone CR does not end a line of SSE; `sse.ts:47`
  says it is supported.
* After its timer has fired a call still walks its remaining endpoints and counts
  a failure for each (`client.ts:632`), with nothing sent; ADR 0001:46 says
  transitions are "driven entirely by real traffic".
* A stream that fails midway is not retried (`client.ts:628` has returned);
  `docs-site/guide/streaming.md:376` says it is.
* The version gate of the runtime does not look at the caller's signal, although
  `client.ts:1021` says the gate never extends a caller's deadline; its cached
  probe is kept when it was rejected ("strict") or unanswered ("auto"). The
  client's own probe is dropped when it fails, but not when its only waiter has
  aborted.
* `isSameToolCall` merges by index when one of the two calls has an id; its
  comment (`tool-call-accumulator.ts:8`) says neither may have one.
  `CallsAreThoseAnnounced` is about normalized streams, where every call has one.
* The router's comment at line 236 calls an old snapshot "too stale to reorder"
  when a `warm()` has failed; it is used until its age reaches the TTL.
* Overlapping MCP refreshes: the listing that ends last wins, even if it began
  first, and tools the server has removed stay registered.
* An image fetch is outside the client's timer and out of `destroy()`'s reach; the
  same holds for generated calls to a cloud host, and the progress stream of
  `create` is made without the signal (`models-client.ts:170`).
* When `onError` throws, the batch is rejected while its other workers go on;
  a tool that timed out keeps running beside `maxConcurrency` others. Both are
  in `ToolRegistry`, and `SettledRunStartsNoTool` excuses the first.

## Proofs

Every invariant and every action property of a passing run, and the refinement of
`SlotPool`, is stated by a theorem; `PROJECT.json` names it there. Some properties
are stated by theorems only (the type invariants; `QueuesAreInUse` and
`WaitersHaveWork` of the scheduler; `RejectedMeansCancelled` and
`NothingStartsAfterAbort` of `EmbedBatch`): they hold in the instances of the
runs as well, being consequences of what is proved for all.

`FailoverProofs`, for every finite set of endpoints and requests, every cap,
strategy, allow-list and set of failover codes: `TypeOK`, `SlotsAreHeld`,
`QueueHoldsTheWaiting`, `FirstAttemptsWithinCap`. The slot count alone is not
inductive: a step that releases a slot also moves a waiter, so one must know
that waiters hold none. The invariant is the conjunction of the first three;
the lemmas say what `Append` and `LeaveQueue` do to the queue and what moving one
request between endpoints does to the cardinalities of their holders.
`FirstAttemptsWithinCap` follows with it, since `filterWithCapacity` and
`acquire` happen in one step and `SlotsAreHeld` turns the count it looked at
into a number of requests.

`OllamaStreamProofs`, for every script of the server and every behaviour of the
consumer: `IterationSettles`, `PendingStreamsListen`, `OverMeansClosed`. What has
to be added is `SettledBeforeYield`: a completed generator, and one that has
yielded an error event, can no longer leave `finalResult` pending.

`ModelAffinitySchedulerProofs`, for any number of models and runs, any candidate
lists and limits: every safety property of the run, `HotUntilDrained` included.
The argument is about one pass of `pump()` (`PumpKeeps`): from a state in which
every task is placed once and the Map holds the models in use, the pass opens the
first so many closed queues, and counting them (`FirstOnes`, `OpenedFits`) gives
both that the limit holds and that it is reached when a queue stays closed.
`HotUntilDrained` needs an order: active models precede waiting ones in the Map
(`HotFirst`), so the model that has just become idle with tasks left is the first
closed queue the pass meets (`HotFirstButOne`) and is opened again.

`EmbedBatchProofs`, for every number of batches and workers: every safety
property of the run. The properties speak of the end; the invariant accounts for
the batches on the way (`Accounted`: as long as no worker has rejected, each batch
handed out is embedded or held), and for the causes of an abort (`Causes`: if it is
not the caller's there is a first failure, and that failure is genuine).

The second half of `FailoverProofs` adds what the executor promises its callers. Its one
large lemma, `StepShapes`, says what any step does to the requests: it dispatches
one, hands a stream over, fails one over, lets one leave, or moves no slot.
Everything else is read off that. `StaysOnItsEndpoints` needs to know what a
request may still try (`PlanOK`: the untried endpoints are distinct, serve its
model, and are none for a single-endpoint call); `DestroyReachesEveryRequest` is
inductive relative to the invariant of the first; `FailsOpenOnly` is about how
candidates are ordered (`Precedes` is a strict order, healthy ones come first). `ImplementsSlotPool` is the refinement:
each shape is a step of `SlotPool` or a stutter, where `SlotsAreHeld` turns the
counter the code looks at into the number of holders the specification counts,
and `AnswerOK` shows that a request is answered once.

`AgentProofs`, for every set of tools and calls, number of workers and budgets:
`TypeOK`, `BudgetsHold`, `HistoryAnswersInOrder`, `SettledRunStartsNoTool`. A
budget is checked when a batch is accepted, spent call by call while it runs and
booked when it is over, so the invariant accounts for what is still to come
(`Accounts`): started calls and unclaimed ones together are what the budgets were
asked for, per signature too. `PoolOK` ties `results` to `nextIndex`, and
`HistoryOK` says that a batch under way is asked for by the last message.

`RequestPathProofs`, eight components that share no state, each with an invariant
of its own: `OverrunBounded` (what a window owes counts the callers in flight as
if they had recorded already), `ProbesAreShared` (the cache a gate clears is the
one its own probe is in), `GeneratedCallsGiveBack` (the slot count is the
cardinality of the calls on their way), `AbortStopsEveryFetch` (inductive with
its types), `AdviceIsAccepted` (the adopted window is at least 1.3 times the
estimate, so a threshold of at least 1/1.3 of it is not exceeded, which is a
hypothesis of the property, like the threshold of at most 1 of its second half;
exact arithmetic throughout),
`RequestsAreJustified` (the reason of the next request is known
while a call backs off or changes endpoints: `AsksForAReason`) with
`TransportTypeOK`, whose bound on `tries` is that of `withRetry`;
`ShardsAreSomewhere` (the shards walked past so far are where somebody said, or
have gone from there since; the create that is accepted was answered by a server
with all of them, which servers see to: `ServerAnswers`), and
`CatalogueArrivesWhole` (the pages read are the catalogue up to the cursor, for
as long as it does not change).

`AffinityBreaksTies` is about an algorithm: `Reordered` finds the tiers of a
list, sorts each by residency and joins them. The property is stated by pairs
(`GoesFirst`), and so is the proof: a sequence is sorted when each of its
elements goes before each later one, a concatenation is when its parts are and
everything in one goes before everything in the next (`SortedConcat`,
`FlattenSorts`), every candidate is in exactly one tier (`EachIsInATier`,
`TiersAreApart`), and a partitioned tier is sorted (`PartitionedTier`). A
sequence sorted by a strict order repeats nothing, so it is as long as the list.
The candidates are any injective list of hosts, the snapshots are arbitrary.
`RouterInv` is the other half of the router: the `inflight` map is the probes that
are out.

`AnswerPathProofs`: what happens to an answer on its way to the caller.

* `ChunksDoNotMatter`, for every text and every split of it. The invariant
  (`ParserInv`, `ReadsFrom`) says that there is a line start `p` of the text at
  which the parser stands: the buffer is what has arrived from `p` on, the frames
  and the pending fields are those of the lines before `p`, and no bad line is
  before `p`. A chunk only makes the buffer longer. Taking a line moves `p` to
  the next line start, since the first break in the buffer is the first of the
  text after `p`: here it matters that a CR at the end of the buffer, which may
  be half a break, is not taken for one. At the end of the text `p` is past all
  lines, or the rest is the last line. A text that ends in a lone CR is
  excepted, as in the property.
* `CallsAreThoseAnnounced`, for every number of chunks and calls in one. A chunk
  with several calls is a recursion over them, so the proof shows by induction
  over the calls taken that the entries are one for each id announced, in the
  order of the first announcements, with the pieces in theirs. It is inductive
  with the types of the variables.
* `FinalResultIsWhatWasShown`, for all four protocols and any events. The
  reference it compares with is computed from the whole of `shown`; the
  invariant (`SlotsHoldWhatWasShown`) is that each slot holds, after every event, the
  positions of the events shown that were meant for it, ascending, per channel.
  One lemma per kind of event says what it adds to that. `failure` is then
  exactly that an event shown was a failure, and the step that settles
  `finalResult` reads the property off.
* `PromptStaysCached` (an undisturbed turn in
  flight sent the history as it is now, and two in flight have disturbed each
  other), `CompactionIsOptimal`, and `ObserverSeesTheStream` (the chain is the last
  `k` chunks in order, and all chunks before them have been told and have settled).

`CompactionIsOptimal` is about the folds the walk of `compact()` is made of. They
are recursive functions over the subsets of the indices, and the proof first
shows that such a function exists and is typed (`FoldExists`, `FoldHasType`, for
a step that is given as a function), then that a cost is the same in
whatever order and under whatever indices it is added up (`CostAddsUp`,
`CostIsMoved`), and then, by induction over the messages the walk has passed,
that it has kept the last `k` of them and has kept all or met one that does not
fit (`KeptSoFar`). Costs grow with `k`, so the tail it stops at is the longest.

Assumptions are the named `ASSUME`s of the modules: finite sets, distinct
endpoint positions, a positive threshold and cooldown, a rotation modulus that
is a multiple of every group size. Six are there for proofs alone: a
call of a tool is not one of the two markers `results` uses for calls that have
none yet (`CallsAssumption`); the names of MCP tools are finitely many
(`McpAssumption`); and prompts are at most `LargestPrompt` tokens, for which the
largest window `Recommended` tries, 4096 doubled ten times, is large enough
(`PreparationAssumption`; the loop of the code has no such end); the ids a server
gives are not among the numbers that stand for generated ids, nor is the mark
for no id (`AccumulatorAssumption`: a generated id is `call_` and a random
UUID); the mark for no channel is no channel
(`CompatAssumption`); and the tiers of hosts and the two ages of the router are
numbers (`RouterAssumption`).

`ListLemmas` has what the provers do not know of lists. There is no induction
over data with the installed provers, but there is a least element of every set
of naturals (`LeastExists`), hence induction over a set given as such
(`InductiveSet`). With it, functions that are defined by recursion along a list
exist and are typed (`RecursionExists`, `RecursionHasType`), and `FlattenSeq`, a
recursive function of the community modules, gathers one part after the other
(`FlattenIsGathered`, `FlattenAppends`). The models filter and sort with `FlattenSeq` where a
proof depends on the outcome; `SelectSeq` is to the prover a name only, which
suffices for `Trimmed`, whose result no proof needs to know.

Only model-checked are the liveness properties, which are out of the prover's
reach: `EveryCallIsAnswered`, `SlotComesBack`, `WorkRunsOut`,
`AbortEndsEveryWorker`, `RunSettles`.

## Left out

* The reorder inside the executor: the router is modelled on its own, and
  `Failover` runs with it off, as it is unless configured.
* Retries on the same endpoint are inside one "running" phase of `Failover`; they
  change no shared state. `Transport` has them.
* `fetch` is assumed to reject at once when given a signal that has fired, and
  to reject with that signal's reason.
* Endpoint names are distinct. Names repeated in the configuration share counts
  in the code.
* A second `for await` over the same stream, and a task of the scheduler that
  throws before returning a promise, are contract violations of the caller and
  not modelled. Empty candidate lists throw before any state changes.
* Bytes: a read of `OllamaStream` brings whole lines. `StreamParsers` has the
  lines, with characters as classes; UTF-8 decoding is the platform's.
* Hooks of the agent do not throw, except `onError`; a tool of the agent has one
  outcome.
* Random jitter, and how long a wait is: a wait ends or is aborted.

### Not modelled

More than half of the repository's code is not behaviour of the client: types
and barrels (`types.ts`, `index.ts`), error classes' wording, generated
operations, the code generator and its scripts, `lab/`, `bench/`, `examples/`, and
request builders that rename fields. They keep no state and nothing interleaves
in them, so a model would restate them. Also left out, for the same reason:
`progress.ts` (arithmetic of rates; without a digest the first frame is measured
from the origin of the clock, so its rate is meaningless),
`adapters.ts` (`toTextStream` closes normally after an error event, since it looks
at tokens only), `capabilities.ts`, `schema/`, `usage.ts`, `telemetry/`, `logger.ts`,
`draft-benchmark.ts`, `skills/`, and the mock server. Components of which only the
stateful part is modelled are "partly" in `PROJECT.json`.

## Plan

What was planned is modelled, checked and proved. Two additions would say more:

1. Compose `ModelAffinityRouter` with `Failover`, so that the reorder happens in
   the step that chooses the first endpoint, and extend `StaysOnItsEndpoints`
   to it (`AffinityStaysInTiers` is the lemma it needs).
2. Prove the type invariants of the components of `services` on their own, where
   they are now conjuncts of a larger invariant (`AccumulatorInv`, `CompatInv`).
