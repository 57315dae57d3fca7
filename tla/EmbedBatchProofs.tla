------------------------- MODULE EmbedBatchProofs -------------------------
(***************************************************************************)
(* Proofs about batchEmbed, for every number of batches and workers.  The  *)
(* properties speak of the end; what makes them inductive is an account of *)
(* the batches on the way there: as long as no worker has rejected, every  *)
(* batch handed out is embedded or at a worker.                            *)
(***************************************************************************)
EXTENDS EmbedBatch, TLAPS, FiniteSetTheorems

Held == {w \in Workers : pc[w] \in {"calling", "answered"}}

\* Before the call nothing has happened, after it no worker is idle.
Phases ==
    /\ outcome = "unstarted" =>
        /\ \A w \in Workers : pc[w] = "idle"
        /\ embedded = {} /\ nextBatch = 1 /\ controller = "live" /\ failure = NoError
    /\ outcome # "unstarted" => \A w \in Workers : pc[w] # "idle"

HandedOut ==
    /\ nextBatch >= 1
    /\ \A w \in Held : batch[w] \in Corpus /\ batch[w] \notin embedded /\ batch[w] < nextBatch
    /\ \A w, v \in Held : batch[w] = batch[v] => w = v
    /\ \A b \in embedded : b < nextBatch
    /\ completedBatches = Cardinality(embedded)

\* No batch is missing while no worker has rejected.
Accounted ==
    (\A w \in Workers : pc[w] # "rejected") =>
        \A b \in Corpus : b < nextBatch => b \in embedded \/ \E w \in Held : batch[w] = b

Cancelled ==
    /\ \A w \in Workers : pc[w] = "rejected" => controller = "aborted"
    /\ failure # NoError => \E w \in Workers : pc[w] = "rejected"
    /\ \A w \in Workers : pc[w] = "returned" => nextBatch > Batches

Ended ==
    /\ outcome = "rejected" => \E w \in Workers : pc[w] = "rejected"
    /\ outcome \in {"resolved", "incomplete"} => \A w \in Workers : pc[w] = "returned"
    /\ outcome = "resolved" => embedded = Corpus
    /\ outcome # "incomplete"

\* An abort that is not the caller's comes from a failure with an error of its own.
Causes ==
    /\ \A w \in Workers : answer[w] = "aborted" => controller = "aborted"
    /\ caller = "live" /\ controller = "aborted" => failure.kind = "genuine"
    /\ OriginalErrorSurfaces

EInv ==
    /\ TypeOK
    /\ Phases
    /\ HandedOut
    /\ Accounted
    /\ Cancelled
    /\ Ended
    /\ Causes

-----------------------------------------------------------------------------

\* There is at least one worker, and no more than batches.
LEMMA WorkersAreBatches ==
  /\ Workers \subseteq Corpus
  /\ 1 \in Workers
  /\ IsFiniteSet(Workers) /\ Cardinality(Workers) \in Nat
  /\ \A b \in Corpus : b < Cardinality(Workers) + 1 <=> b \in Workers
<1> DEFINE n == IF Concurrency < Batches THEN Concurrency ELSE Batches
<1>1. n \in Nat /\ n >= 1 /\ n <= Batches /\ Batches \in Nat
  BY BatchesAssumption, ConcurrencyAssumption
<1> HIDE DEF n
<1>2. IsFiniteSet(1 .. n) /\ Cardinality(1 .. n) = n
  BY <1>1, FS_Interval
<1>3. Workers = 1 .. n
  BY DEF Workers, n
<1> QED BY <1>1, <1>2, <1>3 DEF Corpus

LEMMA EmbeddedIsFinite ==
  ASSUME TypeOK
  PROVE  IsFiniteSet(embedded)
<1>1. IsFiniteSet(Corpus)
  BY BatchesAssumption, FS_Interval DEF Corpus
<1> QED BY <1>1, FS_Subset DEF TypeOK

LEMMA InitEInv == Init => EInv
<1> SUFFICES ASSUME Init PROVE EInv
  OBVIOUS
<1>1. TypeOK
  BY DEF Init, TypeOK, Errors, NoError
<1>2. Phases /\ Accounted /\ Cancelled /\ Ended /\ Causes
  BY BatchesAssumption
     DEF Init, Phases, Accounted, Cancelled, Ended, Causes, Held, Corpus, OriginalErrorSurfaces
<1>3. HandedOut
  BY FS_EmptySet DEF Init, HandedOut, Held
<1> QED BY <1>1, <1>2, <1>3 DEF EInv

LEMMA StartKeepsEInv ==
  ASSUME EInv, Start
  PROVE  EInv'
<1> USE DEF EInv, Start
<1>1. CASE caller = "live"
  <2>1. /\ outcome = "unstarted" /\ outcome' = "pending" /\ controller' = "live"
        /\ caller' = "live"
        /\ pc' = [w \in Workers |-> "calling"] /\ batch' = [w \in Workers |-> w]
        /\ nextBatch' = Cardinality(Workers) + 1
        /\ UNCHANGED <<reason, answer, embedded, completedBatches, failure>>
        /\ embedded = {} /\ failure = NoError
    BY <1>1 DEF Phases
  <2>2. TypeOK'
    BY <2>1, WorkersAreBatches DEF TypeOK
  <2>3. Phases' /\ Cancelled' /\ Ended'
    BY <2>1, WorkersAreBatches DEF Phases, Cancelled, Ended
  <2>4. Held' = Workers /\ \A w \in Workers : batch'[w] = w
    BY <2>1 DEF Held
  <2>5. HandedOut'
    BY <2>1, <2>4, WorkersAreBatches DEF HandedOut, Phases
  <2>6. Accounted'
    BY <2>1, <2>4, WorkersAreBatches DEF Accounted
  <2>7. Causes'
    BY <2>1 DEF Causes, OriginalErrorSurfaces, Phases
  <2> QED BY <2>2, <2>3, <2>5, <2>6, <2>7
<1>2. CASE caller = "aborted"
  <2>1. /\ outcome = "unstarted" /\ outcome' = "pending" /\ controller' = "aborted"
        /\ caller' = "aborted"
        /\ pc' = [w \in Workers |-> "rejected"] /\ reason' = [w \in Workers |-> Aborted]
        /\ UNCHANGED <<batch, nextBatch, answer, embedded, completedBatches, failure>>
        /\ failure = NoError
    BY <1>2 DEF Phases
  <2>2. TypeOK'
    BY <2>1 DEF TypeOK, Errors, Aborted
  <2>3. Held' = {}
    BY <2>1 DEF Held
  <2>4. HandedOut'
    BY <2>1, <2>3 DEF HandedOut
  <2> QED BY <2>1, <2>2, <2>4, WorkersAreBatches
      DEF Phases, Accounted, Cancelled, Ended, Causes, OriginalErrorSurfaces
<1> QED BY <1>1, <1>2 DEF TypeOK

LEMMA AnswersKeepsEInv ==
  ASSUME EInv, NEW w \in Workers, Answers(w)
  PROVE  EInv'
<1> USE DEF EInv
<1>1. PICK a \in {"good", "short", "failed", "aborted"} :
        /\ answer' = [answer EXCEPT ![w] = a]
        /\ a = "aborted" => controller = "aborted"
  <2>1. CASE controller = "live"
    BY <2>1 DEF Answers
  <2>2. CASE controller = "aborted"
    BY <2>2 DEF Answers
  <2> QED BY <2>1, <2>2 DEF TypeOK
<1>2. /\ pc[w] = "calling" /\ pc' = [pc EXCEPT ![w] = "answered"]
      /\ UNCHANGED <<batch, reason, nextBatch, embedded, completedBatches, failure,
                     controller, caller, outcome>>
  BY DEF Answers
<1>3. TypeOK'
  BY <1>1, <1>2 DEF TypeOK
<1>4. Held' = Held /\ \A v \in Workers : v # w => pc'[v] = pc[v]
  BY <1>2 DEF Held, TypeOK
<1>5. Phases' /\ Cancelled' /\ Ended'
  BY <1>2, <1>4 DEF Phases, Cancelled, Ended, TypeOK
<1>6. HandedOut' /\ Accounted'
  BY <1>2, <1>4 DEF HandedOut, Accounted, TypeOK
<1>7. Causes'
  BY <1>1, <1>2, <1>4 DEF Causes, OriginalErrorSurfaces, TypeOK
<1> QED BY <1>3, <1>5, <1>6, <1>7

\* What a worker writes to the result is its own batch.
LEMMA ProgressCounts ==
  ASSUME EInv, NEW w \in Workers, pc[w] = "answered",
         \/ UNCHANGED <<embedded, completedBatches>>
         \/ /\ embedded' = embedded \cup {batch[w]}
            /\ completedBatches' = completedBatches + 1
  PROVE  /\ embedded' \in SUBSET Corpus /\ embedded \subseteq embedded'
         /\ completedBatches' \in Nat /\ completedBatches' = Cardinality(embedded')
         /\ \A b \in embedded' : b < nextBatch
         /\ \A v \in Held : v # w => batch[v] \notin embedded'
<1>1. w \in Held
  BY DEF Held
<1>2. batch[w] \in Corpus /\ batch[w] \notin embedded /\ batch[w] < nextBatch
  BY <1>1 DEF EInv, HandedOut
<1>3. IsFiniteSet(embedded) /\ completedBatches = Cardinality(embedded)
  BY EmbeddedIsFinite DEF EInv, HandedOut
<1>4. Cardinality(embedded \cup {batch[w]}) = Cardinality(embedded) + 1
  BY <1>2, <1>3, FS_AddElement
<1>5. embedded \in SUBSET Corpus /\ completedBatches \in Nat
  BY DEF EInv, TypeOK
<1>6. embedded' = embedded \/ embedded' = embedded \cup {batch[w]}
  OBVIOUS
<1>7. embedded' \in SUBSET Corpus /\ embedded \subseteq embedded'
  BY <1>2, <1>5, <1>6
<1>8. \A b \in embedded' : b < nextBatch
  BY <1>2, <1>6 DEF EInv, HandedOut
<1>9. \A v \in Held : v # w => batch[v] \notin embedded'
  BY <1>1, <1>6 DEF EInv, HandedOut
<1>10. completedBatches' \in Nat /\ completedBatches' = Cardinality(embedded')
  <2>1. CASE UNCHANGED <<embedded, completedBatches>>
    BY <1>3, <1>5, <2>1
  <2>2. CASE /\ embedded' = embedded \cup {batch[w]}
             /\ completedBatches' = completedBatches + 1
    <3>1. completedBatches + 1 \in Nat
      BY <1>5
    <3> QED BY <1>3, <1>4, <2>2, <3>1
  <2> QED BY <2>1, <2>2
<1> QED BY <1>7, <1>8, <1>9, <1>10

\* A worker that rejects keeps the account: it is the one whose batch may be
\* missing from now on.
LEMMA RejectingKeepsEInv ==
  ASSUME EInv, NEW w \in Workers, pc[w] = "answered", NEW error \in Errors,
         Throws(w, error),
         failure' \in Errors, controller' = "aborted", caller' \in {"live", "aborted"},
         caller' = "live" =>
            /\ caller = "live"
            /\ error = failure' /\ failure'.kind = "genuine"
            /\ failure # NoError => failure' = failure,
         outcome' = outcome,
         \/ UNCHANGED <<embedded, completedBatches>>
         \/ /\ embedded' = embedded \cup {batch[w]}
            /\ completedBatches' = completedBatches + 1
  PROVE  EInv'
<1> USE DEF EInv
<1>1. /\ pc' = [pc EXCEPT ![w] = "rejected"]
      /\ reason' = [reason EXCEPT ![w] = error]
      /\ answer' = [answer EXCEPT ![w] = "none"]
      /\ UNCHANGED <<batch, nextBatch>>
  BY DEF Throws
<1>2. /\ embedded' \in SUBSET Corpus /\ embedded \subseteq embedded'
      /\ completedBatches' \in Nat /\ completedBatches' = Cardinality(embedded')
      /\ \A b \in embedded' : b < nextBatch
      /\ \A v \in Held : v # w => batch[v] \notin embedded'
  BY ProgressCounts
<1>3. pc'[w] = "rejected" /\ \A v \in Workers : v # w => pc'[v] = pc[v]
  BY <1>1 DEF TypeOK
<1>4. TypeOK'
  BY <1>1, <1>2 DEF TypeOK
<1>5. Held' = Held \ {w}
  BY <1>3 DEF Held
<1>6. outcome # "unstarted"
  BY DEF Phases
<1>7. HandedOut'
  BY <1>1, <1>2, <1>5 DEF HandedOut
<1>8. Phases' /\ Accounted' /\ Cancelled'
  BY <1>1, <1>3, <1>6 DEF Phases, Accounted, Cancelled
<1>9. Ended'
  BY <1>3 DEF Ended
<1>10. Causes'
  <2>1. reason'[w] = error /\ \A v \in Workers : v # w => reason'[v] = reason[v]
    BY <1>1 DEF TypeOK
  <2>2. ASSUME caller' = "live", NEW v \in Workers, pc'[v] = "rejected"
        PROVE  reason'[v] = failure' /\ failure'.kind = "genuine"
    <3>1. CASE v = w
      BY <2>1, <2>2, <3>1
    <3>2. CASE v # w
      <4>1. pc[v] = "rejected" /\ caller = "live"
        BY <1>3, <2>2, <3>2
      <4>2. reason[v] = failure /\ failure.kind = "genuine"
        BY <4>1 DEF Causes, OriginalErrorSurfaces
      <4>3. failure # NoError
        BY <4>2 DEF NoError
      <4> QED BY <2>1, <2>2, <3>2, <4>2, <4>3
    <3> QED BY <3>1, <3>2
  <2> QED BY <2>2 DEF Causes, OriginalErrorSurfaces
<1> QED BY <1>4, <1>7, <1>8, <1>9, <1>10

\* The catch block never lets a derived error be the first while the caller is
\* silent: what aborted the worker was a failure.
LEMMA CatchesKeepsEInv ==
  ASSUME EInv, NEW w \in Workers, pc[w] = "answered",
         NEW kind \in {"genuine", "derived"},
         kind = "derived" => answer[w] = "aborted",
         Catches(w, [kind |-> kind, batch |-> batch[w]]),
         UNCHANGED <<caller, outcome>>,
         \/ UNCHANGED <<embedded, completedBatches>>
         \/ /\ embedded' = embedded \cup {batch[w]}
            /\ completedBatches' = completedBatches + 1
  PROVE  EInv'
<1> DEFINE error == [kind |-> kind, batch |-> batch[w]]
<1>1. batch[w] \in Corpus
  BY DEF EInv, HandedOut, Held
<1>2. error \in Errors /\ error.kind = kind
  BY <1>1 DEF Errors
<1> HIDE DEF error
<1>3. /\ failure' = IF failure = NoError THEN error ELSE failure
      /\ controller' = "aborted"
      /\ Throws(w, failure')
  BY DEF Catches, error
<1>4. failure' \in Errors /\ caller' \in {"live", "aborted"}
  BY <1>2, <1>3 DEF EInv, TypeOK
<1>5. ASSUME caller' = "live"
      PROVE  /\ caller = "live" /\ failure'.kind = "genuine"
             /\ failure # NoError => failure' = failure
  <2>1. CASE failure = NoError
    <3>1. failure.kind # "genuine"
      BY <2>1 DEF NoError
    <3>2. controller # "aborted"
      BY <1>5, <3>1 DEF EInv, Causes
    <3>3. kind = "genuine"
      BY <3>2 DEF EInv, Causes
    <3> QED BY <1>2, <1>3, <1>5, <2>1, <3>3
  <2>2. CASE failure # NoError
    <3>1. controller = "aborted"
      BY <2>2 DEF EInv, Cancelled
    <3>2. failure.kind = "genuine"
      BY <1>5, <3>1 DEF EInv, Causes
    <3> QED BY <1>3, <1>5, <2>2, <3>2
  <2> QED BY <2>1, <2>2
<1> QED BY <1>3, <1>4, <1>5, RejectingKeepsEInv

\* A worker that goes on leaves its batch in the result and takes one nobody has.
LEMMA TakingKeepsEInv ==
  ASSUME EInv, NEW w \in Workers, pc[w] = "answered",
         TakesNext(w, controller), UNCHANGED <<failure, controller, caller, outcome>>,
         embedded' = embedded \cup {batch[w]}, completedBatches' = completedBatches + 1
  PROVE  EInv'
<1> USE DEF EInv
<1>1. CASE controller = "aborted"
  <2> DEFINE error == IF failure = NoError THEN Aborted ELSE failure
  <2>1. Throws(w, error)
    BY <1>1 DEF TakesNext
  <2>2. error \in Errors
    BY DEF TypeOK, Errors, Aborted
  <2>3. caller' = "live" =>
            /\ caller = "live"
            /\ error = failure' /\ failure'.kind = "genuine"
            /\ failure # NoError => failure' = failure
    BY <1>1 DEF Causes, NoError
  <2> HIDE DEF error
  <2> QED BY <1>1, <2>1, <2>2, <2>3, RejectingKeepsEInv DEF TypeOK
<1>2. CASE controller = "live"
  <2>1. /\ nextBatch' = nextBatch + 1 /\ answer' = [answer EXCEPT ![w] = "none"]
        /\ UNCHANGED reason
        /\ \/ /\ nextBatch > Batches
              /\ pc' = [pc EXCEPT ![w] = "returned"]
              /\ UNCHANGED batch
           \/ /\ nextBatch <= Batches
              /\ pc' = [pc EXCEPT ![w] = "calling"]
              /\ batch' = [batch EXCEPT ![w] = nextBatch]
    BY <1>2 DEF TakesNext
  <2>2. /\ embedded' \in SUBSET Corpus /\ embedded \subseteq embedded'
        /\ completedBatches' \in Nat /\ completedBatches' = Cardinality(embedded')
        /\ \A b \in embedded' : b < nextBatch
        /\ \A v \in Held : v # w => batch[v] \notin embedded'
    BY ProgressCounts
  <2>3. nextBatch \in Nat /\ nextBatch >= 1 /\ Batches \in Nat /\ w \in Held
    BY BatchesAssumption DEF TypeOK, HandedOut, Held
  <2>4. nextBatch <= Batches => nextBatch \in Corpus
    BY <2>3 DEF Corpus
  <2>5. TypeOK'
    BY <2>1, <2>2, <2>3, <2>4 DEF TypeOK
  <2>6. \A v \in Workers : v # w => pc'[v] = pc[v] /\ batch'[v] = batch[v]
    BY <2>1 DEF TypeOK
  <2>7. /\ nextBatch > Batches => pc'[w] = "returned" /\ Held' = Held \ {w}
        /\ nextBatch <= Batches =>
                pc'[w] = "calling" /\ Held' = Held /\ batch'[w] = nextBatch
    BY <2>1, <2>3, <2>6 DEF TypeOK, Held
  <2>8. HandedOut'
    <3>1. \A v \in Held : v # w => batch'[v] \in Corpus /\ batch'[v] \notin embedded'
                                  /\ batch'[v] < nextBatch /\ batch'[v] \in Nat
      BY <2>2, <2>6 DEF HandedOut, Held, Corpus
    <3>2. \A b \in embedded' : b < nextBatch /\ b \in Nat
      BY <2>2 DEF Corpus
    <3>3. \A v \in Held' : v = w \/ v \in Held
      BY <2>6 DEF Held
    <3>4. w \in Held' => batch'[w] = nextBatch /\ nextBatch \in Corpus
      BY <2>3, <2>4, <2>7
    <3>5. nextBatch' = nextBatch + 1
      BY <2>1
    <3>6. \A v \in Held' : batch'[v] \in Corpus /\ batch'[v] \notin embedded' /\ batch'[v] < nextBatch'
      BY <2>3, <3>1, <3>2, <3>3, <3>4, <3>5
    <3>7. \A v, u \in Held' : batch'[v] = batch'[u] => v = u
      <4> SUFFICES ASSUME NEW v \in Held', NEW u \in Held', batch'[v] = batch'[u], v # u
                   PROVE  FALSE
        OBVIOUS
      <4>1. CASE v # w /\ u # w
        BY <2>6, <3>3, <4>1 DEF HandedOut, Held
      <4>2. CASE v = w \/ u = w
        BY <2>3, <3>1, <3>3, <3>4, <4>2
      <4> QED BY <4>1, <4>2
    <3>8. \A b \in embedded' : b < nextBatch'
      BY <2>3, <3>2, <3>5
    <3> QED BY <2>2, <2>3, <3>5, <3>6, <3>7, <3>8 DEF HandedOut
  <2>9. Accounted'
    <3> SUFFICES ASSUME \A v \in Workers : pc'[v] # "rejected",
                        NEW b \in Corpus, b < nextBatch', b \notin embedded'
                 PROVE  \E v \in Held' : batch'[v] = b
      BY DEF Accounted
    <3>1. \A v \in Workers : pc[v] # "rejected"
      BY <2>6
    <3>2. b \in Nat /\ (b < nextBatch \/ b = nextBatch)
      BY <2>1, <2>3 DEF Corpus
    <3>3. CASE b < nextBatch
      <4>1. PICK v \in Held : batch[v] = b
        BY <2>2, <3>1, <3>3 DEF Accounted
      <4>2. v # w
        BY <4>1
      <4> QED BY <2>6, <4>1, <4>2 DEF Held
    <3>4. CASE b = nextBatch
      <4>1. nextBatch <= Batches
        BY <2>3, <3>4 DEF Corpus
      <4> QED BY <2>3, <2>7, <3>4, <4>1
    <3> QED BY <3>2, <3>3, <3>4
  <2>10. Phases' /\ Cancelled' /\ Ended'
    <3>1. outcome # "unstarted" /\ outcome # "resolved"
      BY DEF Phases, Ended
    <3>2. \A v \in Workers : pc'[v] = "rejected" <=> pc[v] = "rejected"
      BY <2>3, <2>6, <2>7
    <3>3. nextBatch' > nextBatch /\ (nextBatch > Batches => nextBatch' > Batches)
      BY <2>1, <2>3
    <3>4. \A v \in Workers : pc'[v] = "returned" => nextBatch' > Batches
      BY <2>3, <2>6, <2>7, <3>3 DEF Cancelled
    <3>5. Phases'
      BY <2>3, <2>6, <2>7, <3>1 DEF Phases
    <3>6. Cancelled'
      BY <3>2, <3>4 DEF Cancelled
    <3>7. Ended'
      BY <3>1, <3>2 DEF Ended
    <3> QED BY <3>5, <3>6, <3>7
  <2>11. Causes'
    <3>1. \A v \in Workers : pc'[v] = "rejected" => pc[v] = "rejected"
      BY <2>3, <2>6, <2>7
    <3>2. \A v \in Workers : answer'[v] = "aborted" => answer[v] = "aborted"
      BY <2>1 DEF TypeOK
    <3> QED BY <2>1, <3>1, <3>2 DEF Causes, OriginalErrorSurfaces
  <2> QED BY <2>5, <2>8, <2>9, <2>10, <2>11
<1> QED BY <1>1, <1>2 DEF TypeOK

LEMMA CompletesKeepsEInv ==
  ASSUME EInv, NEW w \in Workers, Completes(w)
  PROVE  EInv'
<1>1. /\ pc[w] = "answered" /\ outcome' = outcome
      /\ embedded' = embedded \cup {batch[w]}
      /\ completedBatches' = completedBatches + 1
  BY DEF Completes
<1>2. CASE TakesNext(w, controller) /\ UNCHANGED <<failure, controller, caller>>
  BY <1>1, <1>2, TakingKeepsEInv
<1>3. CASE Catches(w, [kind |-> "genuine", batch |-> batch[w]]) /\ UNCHANGED caller
  BY <1>1, <1>3, CatchesKeepsEInv
<1>4. CASE /\ caller' = "aborted" /\ controller' = "aborted"
           /\ TakesNext(w, "aborted") /\ UNCHANGED failure
  <2> DEFINE error == IF failure = NoError THEN Aborted ELSE failure
  <2>1. Throws(w, error)
    BY <1>4 DEF TakesNext
  <2>2. failure' \in Errors /\ error \in Errors
    BY <1>4 DEF EInv, TypeOK, Errors, Aborted
  <2> HIDE DEF error
  <2> QED BY <1>1, <1>4, <2>1, <2>2, RejectingKeepsEInv
<1> QED BY <1>2, <1>3, <1>4 DEF Completes

LEMMA FailsKeepsEInv ==
  ASSUME EInv, NEW w \in Workers, Fails(w)
  PROVE  EInv'
<1> DEFINE kind == IF answer[w] = "aborted" THEN "derived" ELSE "genuine"
<1>1. /\ pc[w] = "answered"
      /\ Catches(w, [kind |-> kind, batch |-> batch[w]])
      /\ UNCHANGED <<embedded, completedBatches, caller, outcome>>
  BY DEF Fails
<1>2. kind \in {"genuine", "derived"} /\ (kind = "derived" => answer[w] = "aborted")
  OBVIOUS
<1> HIDE DEF kind
<1> QED BY <1>1, <1>2, CatchesKeepsEInv

\* When every worker has returned none has rejected, every batch was handed out
\* and no worker holds one: all are embedded.
LEMMA AllReturnedIsComplete ==
  ASSUME EInv, \A w \in Workers : pc[w] = "returned"
  PROVE  embedded = Corpus /\ failure = NoError
<1>1. nextBatch > Batches
  BY WorkersAreBatches DEF EInv, Cancelled
<1>2. Held = {} /\ \A w \in Workers : pc[w] # "rejected"
  BY DEF Held
<1>3. \A b \in Corpus : b < nextBatch
  BY <1>1, BatchesAssumption DEF Corpus, EInv, TypeOK
<1>4. Corpus \subseteq embedded
  BY <1>2, <1>3 DEF EInv, Accounted
<1>5. embedded \subseteq Corpus
  BY DEF EInv, TypeOK
<1> QED BY <1>2, <1>4, <1>5 DEF EInv, Cancelled

LEMMA NextKeepsEInv ==
  ASSUME EInv, [Next]_vars
  PROVE  EInv'
<1>1. CASE Start
  BY <1>1, StartKeepsEInv
<1>2. ASSUME NEW w \in Workers, Answers(w)
      PROVE  EInv'
  BY <1>2, AnswersKeepsEInv
<1>3. ASSUME NEW w \in Workers, Completes(w)
      PROVE  EInv'
  BY <1>3, CompletesKeepsEInv
<1>4. ASSUME NEW w \in Workers, Fails(w)
      PROVE  EInv'
  BY <1>4, FailsKeepsEInv
<1>5. CASE Settles
  <2>1. /\ outcome = "pending"
        /\ UNCHANGED <<pc, batch, answer, reason, nextBatch, embedded, completedBatches,
                       failure, controller, caller>>
    BY <1>5 DEF Settles
  <2>2. /\ outcome' \in {"resolved", "rejected"}
        /\ outcome' = "rejected" => \E w \in Workers : pc[w] = "rejected"
        /\ outcome' = "resolved" =>
                embedded = Corpus /\ \A w \in Workers : pc[w] = "returned"
    BY <1>5, AllReturnedIsComplete DEF Settles
  <2>3. TypeOK' /\ Phases'
    BY <2>1, <2>2 DEF EInv, TypeOK, Phases
  <2>4. HandedOut' /\ Accounted' /\ Cancelled'
    BY <2>1 DEF EInv, HandedOut, Accounted, Cancelled, Held
  <2>5. Ended' /\ Causes'
    BY <2>1, <2>2 DEF EInv, Ended, Causes, OriginalErrorSurfaces
  <2> QED BY <2>3, <2>4, <2>5 DEF EInv
<1>6. CASE CallerAborts
  <2>1. /\ caller = "live" /\ caller' = "aborted"
        /\ controller' \in {controller, "aborted"}
        /\ outcome = "unstarted" => controller' = controller
        /\ UNCHANGED <<pc, batch, answer, reason, nextBatch, embedded, completedBatches,
                       failure, outcome>>
    BY <1>6 DEF CallerAborts
  <2>2. TypeOK' /\ Phases'
    BY <2>1 DEF EInv, TypeOK, Phases
  <2>3. HandedOut' /\ Accounted' /\ Cancelled'
    BY <2>1 DEF EInv, HandedOut, Accounted, Cancelled, Held
  <2>4. Ended' /\ Causes'
    BY <2>1 DEF EInv, Ended, Causes, OriginalErrorSurfaces
  <2> QED BY <2>2, <2>3, <2>4 DEF EInv
<1>7. CASE UNCHANGED vars
  BY <1>7 DEF vars, EInv, TypeOK, Phases, HandedOut, Accounted, Cancelled, Ended,
              Causes, OriginalErrorSurfaces, Held
<1> QED BY <1>1, <1>2, <1>3, <1>4, <1>5, <1>6, <1>7 DEF Next

-----------------------------------------------------------------------------

\* The account of the batches is kept by every step.
THEOREM EmbedInvariance == Spec => []EInv
<1>1. Init => EInv
  BY InitEInv
<1>2. EInv /\ [Next]_vars => EInv'
  BY NextKeepsEInv
<1> QED BY <1>1, <1>2, PTL DEF Spec

\* The variables of batchEmbed keep their types; in particular no worker takes a
\* batch beyond the last.
THEOREM EmbedTypes == Spec => []TypeOK
<1>1. EInv => TypeOK
  BY DEF EInv
<1> QED BY <1>1, EmbedInvariance, PTL

\* The check of the result after Promise.all never finds a gap, and a resolved
\* batchEmbed has embedded everything and met no failure.
THEOREM ResultsAreComplete == Spec => []NoGaps
<1>1. EInv => NoGaps
  BY AllReturnedIsComplete DEF EInv, Ended, NoGaps
<1> QED BY <1>1, EmbedInvariance, PTL

\* No batch is embedded twice or held by two workers, and the progress reported
\* to onBatchComplete is the number of batches embedded.
THEOREM BatchesAreTakenOnce == Spec => []EachBatchOnce
<1>1. EInv => EachBatchOnce
  BY DEF EInv, HandedOut, Held, EachBatchOnce
<1> QED BY <1>1, EmbedInvariance, PTL

\* While the caller has not aborted, each worker that rejects does so with the
\* first failure, never with the abort it caused.
THEOREM FirstErrorSurfaces == Spec => []OriginalErrorSurfaces
<1>1. EInv => OriginalErrorSurfaces
  BY DEF EInv, Causes
<1> QED BY <1>1, EmbedInvariance, PTL

\* A rejected batchEmbed has cancelled its requests.
THEOREM RejectionCancels == Spec => []RejectedMeansCancelled
<1>1. EInv => RejectedMeansCancelled
  BY DEF EInv, Ended, Cancelled, RejectedMeansCancelled
<1> QED BY <1>1, EmbedInvariance, PTL

\* Once the controller has fired no step hands out a batch.
THEOREM AbortsStopTheQueue == Spec => NothingStartsAfterAbort
<1>1. ASSUME EInv, [Next]_vars, controller = "aborted"
      PROVE  nextBatch' = nextBatch
  <2>1. CASE Start
    BY <1>1, <2>1 DEF EInv, Phases, Start
  <2>2. ASSUME NEW w \in Workers, Completes(w)
        PROVE  nextBatch' = nextBatch
    BY <1>1, <2>2 DEF Completes, TakesNext, Catches, Throws
  <2>3. ASSUME NEW w \in Workers, Answers(w) \/ Fails(w)
        PROVE  nextBatch' = nextBatch
    BY <2>3 DEF Answers, Fails, Catches, Throws
  <2>4. CASE Settles \/ CallerAborts \/ UNCHANGED vars
    BY <2>4 DEF Settles, CallerAborts, vars
  <2> QED BY <1>1, <2>1, <2>2, <2>3, <2>4 DEF Next
<1>2. EInv /\ [Next]_vars => [controller = "aborted" => nextBatch' = nextBatch]_vars
  BY <1>1
<1>3. Spec => []EInv
  BY EmbedInvariance
<1> QED BY <1>2, <1>3, PTL DEF Spec, NothingStartsAfterAbort
=============================================================================
