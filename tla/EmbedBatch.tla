---------------------------- MODULE EmbedBatch ----------------------------
(***************************************************************************)
(* batchEmbed (src/embed-batch.ts): a corpus cut into batches is embedded  *)
(* by a pool of workers, each of which takes the next batch when it is     *)
(* done with one.  The first failure cancels the siblings through a        *)
(* controller that the caller's signal fires too.                          *)
(*                                                                         *)
(* The only await of a worker is client.embed().  An answer that is on its *)
(* way through the client's promises ("answered") is out of the            *)
(* controller's reach: others may run before the worker sees it.           *)
(***************************************************************************)
EXTENDS Integers, FiniteSets

CONSTANTS
    Batches,    \* number of batches, numbered from 1
    Concurrency \* options.concurrency

ASSUME BatchesAssumption == Batches \in Nat \ {0}
ASSUME ConcurrencyAssumption == Concurrency \in Nat \ {0}

Corpus == 1 .. Batches
Workers == 1 .. (IF Concurrency < Batches THEN Concurrency ELSE Batches)

\* An error: whose batch it is about, and whether it is due to the abort.
Errors ==
    [kind : {"genuine", "derived"}, batch : Corpus]
        \cup [kind : {"none", "aborted"}, batch : {0}]

NoError == [kind |-> "none", batch |-> 0]
Aborted == [kind |-> "aborted", batch |-> 0]

VARIABLES
    pc,         \* where each worker is
    batch,      \* the batch it has taken last
    answer,     \* what became of its embed()
    reason,     \* what it has thrown
    nextBatch,
    embedded,   \* the batches written to the result
    completedBatches,
    failure,    \* the first failure
    controller, \* the internal signal
    caller,     \* options.signal
    outcome     \* of the promise batchEmbed returned

vars == <<pc, batch, answer, reason, nextBatch, embedded, completedBatches,
          failure, controller, caller, outcome>>

TypeOK ==
    /\ pc \in [Workers -> {"idle", "calling", "answered", "returned", "rejected"}]
    /\ batch \in [Workers -> Corpus \cup {0}]
    /\ answer \in [Workers -> {"none", "good", "short", "failed", "aborted"}]
    /\ reason \in [Workers -> Errors]
    /\ nextBatch \in Nat
    /\ embedded \in SUBSET Corpus
    /\ completedBatches \in Nat
    /\ failure \in Errors
    /\ controller \in {"live", "aborted"}
    /\ caller \in {"live", "aborted"}
    /\ outcome \in {"unstarted", "pending", "resolved", "rejected", "incomplete"}

Init ==
    /\ pc = [w \in Workers |-> "idle"]
    /\ batch = [w \in Workers |-> 0]
    /\ answer = [w \in Workers |-> "none"]
    /\ reason = [w \in Workers |-> NoError]
    /\ nextBatch = 1
    /\ embedded = {}
    /\ completedBatches = 0
    /\ failure = NoError
    /\ controller = "live"
    /\ caller = "live"
    /\ outcome = "unstarted"

-----------------------------------------------------------------------------

\* The call, up to the first await of every worker.
Start ==
    /\ outcome = "unstarted"
    /\ outcome' = "pending"
    /\ controller' = caller
    /\ \/ /\ caller = "live"
          /\ pc' = [w \in Workers |-> "calling"]
          /\ batch' = [w \in Workers |-> w]
          /\ nextBatch' = Cardinality(Workers) + 1
          /\ UNCHANGED reason
       \/ /\ caller = "aborted"
          /\ pc' = [w \in Workers |-> "rejected"]
          /\ reason' = [w \in Workers |-> Aborted]
          /\ UNCHANGED <<batch, nextBatch>>
    /\ UNCHANGED <<answer, embedded, completedBatches, failure, caller>>

\* client.embed() settles: with as many embeddings as asked for, with others,
\* with an error, or because the controller was aborted.
Answers(w) ==
    /\ pc[w] = "calling"
    /\ \E a \in IF controller = "live" THEN {"good", "short", "failed"} ELSE {"aborted"} :
        answer' = [answer EXCEPT ![w] = a]
    /\ pc' = [pc EXCEPT ![w] = "answered"]
    /\ UNCHANGED <<batch, reason, nextBatch, embedded, completedBatches, failure,
                   controller, caller, outcome>>

Throws(w, error) ==
    /\ pc' = [pc EXCEPT ![w] = "rejected"]
    /\ reason' = [reason EXCEPT ![w] = error]
    /\ answer' = [answer EXCEPT ![w] = "none"]
    /\ UNCHANGED <<batch, nextBatch>>

\* Mutant: the controller is left alone.
Catches_Uncancelled(w, error) ==
    /\ failure' = IF failure = NoError THEN error ELSE failure
    /\ Throws(w, failure')
    /\ UNCHANGED controller

\* Mutant: a sibling rethrows what it caught.
Catches_Derived(w, error) ==
    /\ failure' = IF failure = NoError THEN error ELSE failure
    /\ controller' = "aborted"
    /\ Throws(w, error)

\* The catch block: the first failure is kept and cancels the siblings, later
\* ones are replaced by it.
Catches(w, error) ==
    /\ failure' = IF failure = NoError THEN error ELSE failure
    /\ controller' = "aborted"
    /\ Throws(w, failure')

\* Mutant: an await between reading the counter and moving it on lets another
\* worker that has its answer read it too.
TakesNext_Late(w, signal) ==
    \/ /\ signal = "aborted"
       /\ Throws(w, IF failure = NoError THEN Aborted ELSE failure)
    \/ /\ signal = "live"
       /\ nextBatch' = IF \E v \in Workers \ {w} : pc[v] = "answered"
                       THEN nextBatch ELSE nextBatch + 1
       /\ answer' = [answer EXCEPT ![w] = "none"]
       /\ \/ /\ nextBatch > Batches
             /\ pc' = [pc EXCEPT ![w] = "returned"]
             /\ UNCHANGED batch
          \/ /\ nextBatch <= Batches
             /\ pc' = [pc EXCEPT ![w] = "calling"]
             /\ batch' = [batch EXCEPT ![w] = nextBatch]
       /\ UNCHANGED reason

\* The top of the loop, with the signal as the iteration before left it.
TakesNext(w, signal) ==
    \/ /\ signal = "aborted"
       /\ Throws(w, IF failure = NoError THEN Aborted ELSE failure)
    \/ /\ signal = "live"
       /\ nextBatch' = nextBatch + 1
       /\ answer' = [answer EXCEPT ![w] = "none"]
       /\ \/ /\ nextBatch > Batches
             /\ pc' = [pc EXCEPT ![w] = "returned"]
             /\ UNCHANGED batch
          \/ /\ nextBatch <= Batches
             /\ pc' = [pc EXCEPT ![w] = "calling"]
             /\ batch' = [batch EXCEPT ![w] = nextBatch]
       /\ UNCHANGED reason

\* The worker sees a good answer, and onBatchComplete returns, throws, or
\* aborts the caller's signal.
Completes(w) ==
    /\ pc[w] = "answered" /\ answer[w] = "good"
    /\ embedded' = embedded \cup {batch[w]}
    /\ completedBatches' = completedBatches + 1
    /\ \/ /\ TakesNext(w, controller)
          /\ UNCHANGED <<failure, controller, caller>>
       \/ /\ Catches(w, [kind |-> "genuine", batch |-> batch[w]])
          /\ UNCHANGED caller
       \/ /\ caller = "live" /\ outcome = "pending"
          /\ caller' = "aborted" /\ controller' = "aborted"
          /\ TakesNext(w, "aborted")
          /\ UNCHANGED failure
    /\ UNCHANGED outcome

\* Mutant: the number of embeddings is not compared.
Fails_Uncounted(w) ==
    /\ pc[w] = "answered" /\ answer[w] # "good"
    /\ IF answer[w] = "short"
       THEN TakesNext(w, controller) /\ UNCHANGED <<failure, controller>>
       ELSE Catches(w, [kind |-> IF answer[w] = "aborted" THEN "derived" ELSE "genuine",
                  batch |-> batch[w]])
    /\ UNCHANGED <<embedded, completedBatches, caller, outcome>>

\* It sees an error, or another number of embeddings.
Fails(w) ==
    /\ pc[w] = "answered" /\ answer[w] # "good"
    /\ Catches(w, [kind |-> IF answer[w] = "aborted" THEN "derived" ELSE "genuine",
                  batch |-> batch[w]])
    /\ UNCHANGED <<embedded, completedBatches, caller, outcome>>

\* Promise.all: the first worker that rejects settles it, else the last that
\* returns; then the listener goes, and the result is looked through.
Settles ==
    /\ outcome = "pending"
    /\ \/ /\ \E w \in Workers : pc[w] = "rejected"
          /\ outcome' = "rejected"
       \/ /\ \A w \in Workers : pc[w] = "returned"
          /\ outcome' = IF embedded = Corpus THEN "resolved" ELSE "incomplete"
    /\ UNCHANGED <<pc, batch, answer, reason, nextBatch, embedded, completedBatches,
                   failure, controller, caller>>

\* The caller aborts; the listener is there while the operation is pending.
CallerAborts ==
    /\ caller = "live"
    /\ caller' = "aborted"
    /\ controller' = IF outcome = "pending" THEN "aborted" ELSE controller
    /\ UNCHANGED <<pc, batch, answer, reason, nextBatch, embedded, completedBatches,
                   failure, outcome>>

Next ==
    \/ Start
    \/ \E w \in Workers : Answers(w) \/ Completes(w) \/ Fails(w)
    \/ Settles
    \/ CallerAborts

\* Promise jobs run, and an embed() whose signal has fired ends; one whose
\* signal is live need never be answered.
Fairness ==
    /\ \A w \in Workers :
        /\ WF_vars(controller = "aborted" /\ Answers(w))
        /\ WF_vars(Completes(w) \/ Fails(w))
    /\ WF_vars(Settles)

Spec == Init /\ [][Next]_vars
FairSpec == Spec /\ Fairness

-----------------------------------------------------------------------------
(* Properties.                                                             *)

\* "Half-indexed corpora must never look like success": if every worker has
\* returned, every batch is embedded, so the final check of the result, which
\* calls a gap an internal error, never finds one.
NoGaps ==
    /\ outcome # "incomplete"
    /\ outcome = "resolved" => embedded = Corpus /\ failure = NoError

\* No batch is lost or asked for twice: those handed out are the embedded ones,
\* those at the workers, and those whose worker has rejected.
EachBatchOnce ==
    LET held == {w \in Workers : pc[w] \in {"calling", "answered"}} IN
    /\ \A w \in held : batch[w] \notin embedded /\ batch[w] < nextBatch
    /\ \A w, v \in held : batch[w] = batch[v] => w = v
    /\ completedBatches = Cardinality(embedded)

\* "Surfaces the original error, not the derived aborts": unless the caller
\* aborted, every worker that rejects does so with the failure that was first.
OriginalErrorSurfaces ==
    caller = "live" =>
        \A w \in Workers : pc[w] = "rejected" => reason[w] = failure /\ failure.kind = "genuine"

\* The operation never rejects and lets its siblings embed on.
RejectedMeansCancelled ==
    outcome = "rejected" => controller = "aborted"

\* After the first failure or an abort nothing is sent any more.
NothingStartsAfterAbort ==
    [][controller = "aborted" => nextBatch' = nextBatch]_vars

\* A failure or an abort ends every worker, whatever the server does.
AbortEndsEveryWorker ==
    controller = "aborted" \/ failure # NoError
        ~> \A w \in Workers : pc[w] \in {"returned", "rejected"}

\* "Never called after the operation rejects" (onBatchComplete).
\* It does not hold (README.md, Divergences found).
NoProgressAfterRejection ==
    [][outcome = "rejected" => completedBatches' = completedBatches]_vars
=============================================================================
