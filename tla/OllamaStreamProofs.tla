------------------------- MODULE OllamaStreamProofs -------------------------
(***************************************************************************)
(* Proofs about one stream, for every server script, whatever the consumer *)
(* and its listeners do.  What has to be added to the properties is where  *)
(* the promise is settled before a yield: a completed generator, and one   *)
(* that has yielded an error event, can no longer leave it pending.        *)
(***************************************************************************)
EXTENDS OllamaStream, TLAPS

SettledBeforeYield ==
    /\ completed => final # "pending"
    /\ pc = "error" => final # "pending"
    /\ pc \in {"event", "lastMessage", "error"} => mode = "iterator"
    /\ pc = "idle" <=> mode = "unconsumed"

StreamInv ==
    /\ TypeOK
    /\ SettledBeforeYield
    /\ IterationSettles
    /\ PendingStreamsListen
    /\ OverMeansClosed

LEMMA LinesStayLines ==
    /\ <<>> \in Seq(Items)
    /\ \A s \in Seq(Items) : s # <<>> => Tail(s) \in Seq(Items)
OBVIOUS

\* Every step of a stream preserves the invariant.
THEOREM StreamInvariance == Spec => []StreamInv
<1> USE DEF StreamInv, SettledBeforeYield, IterationSettles,
            PendingStreamsListen, OverMeansClosed
<1>1. Init => StreamInv
  <2> SUFFICES ASSUME Init PROVE StreamInv
    OBVIOUS
  <2>1. signal \in {"live"} \cup Reasons /\ lines \in Seq(Items) /\ reads \in 0 .. MaxReads
    BY FiredBeforeAssumption, MaxReadsAssumption DEF Init
  <2>2. CASE signal = "live"
    BY <2>1, <2>2, FiredBeforeAssumption DEF Init, TypeOK, Reasons, Codes
  <2>3. CASE signal \in Reasons
    BY <2>1, <2>3 DEF Init, TypeOK, Reasons, Codes
  <2> QED
    BY <2>1, <2>2, <2>3
<1>2. StreamInv /\ [Next]_vars => StreamInv'
  <2> SUFFICES ASSUME StreamInv, [Next]_vars PROVE StreamInv'
    OBVIOUS
  <2> USE MaxReadsAssumption DEF TypeOK
  <2>1. ASSUME NEW how \in {"iterator", "events"}, Consume(how) PROVE StreamInv'
    BY <2>1 DEF Consume
  <2>2. CASE ResumesGenerator
    <3>1. CASE pc = "error"
      BY <2>2, <3>1, LinesStayLines DEF ResumesGenerator, Finish, Settled, Codes, Reasons
    <3>2. CASE pc = "event"
      <4>1. /\ pc' = "reading"
            /\ UNCHANGED <<mode, completed, final, errorEvent, connection, lines,
                           reads, signal, hooks, slot>>
        BY <2>2, <3>2 DEF ResumesGenerator
      <4> QED
        BY <3>2, <4>1
    <3>3. CASE pc = "lastMessage"
      BY <2>2, <3>3 DEF ResumesGenerator, Settled, Codes
    <3> QED
      BY <2>2, <3>1, <3>2, <3>3 DEF ResumesGenerator
  <2>3. CASE Breaks
    BY <2>3 DEF Breaks, Finish, Settled, Codes, Reasons
  <2>4. CASE Abort
    BY <2>4 DEF Abort, AbortEffect, Cut, Settled, Codes, Reasons
  <2>5. CASE ReadsLines
    BY <2>5, BatchesAssumption DEF ReadsLines
  <2>6. CASE SourceFails
    <3>1. PICK code \in Codes : Catches(code) /\ connection' \in {"closed"} \cup Reasons
      BY <2>6 DEF SourceFails, Codes
    <3>2. pc = "reading" /\ UNCHANGED <<mode, completed, reads, signal, slot>>
      BY <2>6 DEF SourceFails
    <3>3. CASE mode = "iterator"
      BY <3>1, <3>2, <3>3, LinesStayLines DEF Catches, Settled, Codes, Reasons
    <3>4. CASE mode = "events"
      BY <3>1, <3>2, <3>4, LinesStayLines DEF Catches, Settled, Codes, Reasons
    <3> QED
      BY <3>1, <3>3, <3>4, LinesStayLines DEF Catches
  <2>7. CASE SourceEnds
    BY <2>7, ZenonT(30) DEF SourceEnds, Finish, Settled, Codes, Reasons
  <2>8. CASE Yields
    BY <2>8 DEF Yields
  <2>9. CASE Emits
    <3>1. mode = "events" /\ pc = "reading" /\ UNCHANGED <<mode, completed, reads, signal, slot>>
      BY <2>9 DEF Emits
    <3>2. lines' \in Seq(Items)
      BY <2>9, LinesStayLines DEF Emits, Catches
    <3>3. final' \in {final, Settled("resolved"), Settled("aborted"), Settled("listener_error")}
      BY <2>9 DEF Emits, Catches, AbortEffect
    <3>4. CASE UNCHANGED <<pc, errorEvent, connection, hooks>>
      BY <3>1, <3>2, <3>3, <3>4 DEF Settled, Codes, Reasons
    <3>5. CASE AbortEffect("aborted") /\ UNCHANGED <<pc, errorEvent>>
      BY <3>1, <3>2, <3>3, <3>5 DEF AbortEffect, Cut, Settled, Codes, Reasons
    <3>6. CASE Catches("listener_error") /\ connection' = Cut("closed")
      BY <3>1, <3>2, <3>3, <3>6, LinesStayLines DEF Catches, Cut, Settled, Codes, Reasons
    <3> QED
      BY <2>9, <3>4, <3>5, <3>6 DEF Emits
  <2>10. ASSUME NEW why \in Reasons, Fires(why) PROVE StreamInv'
    BY <2>10 DEF Fires, AbortEffect, Cut, Settled, Codes, Reasons
  <2>11. CASE ReleaseSlot
    BY <2>11 DEF ReleaseSlot
  <2>12. CASE UNCHANGED vars
    BY <2>12 DEF vars
  <2> QED
    BY <2>1, <2>2, <2>3, <2>4, <2>5, <2>6, <2>7, <2>8, <2>9, <2>10, <2>11, <2>12
       DEF Next, SourceSteps
<1> QED
  BY <1>1, <1>2, PTL DEF Spec

\* A for-await loop that is over has settled finalResult, for every server.
THEOREM LoopsSettleTheirResult == Spec => []IterationSettles
BY StreamInvariance, PTL DEF StreamInv

\* A stream that can still be read and has not settled is within reach of its
\* signal: nothing the consumer does in between takes that away.
THEOREM PendingStreamsCanBeStopped == Spec => []PendingStreamsListen
BY StreamInvariance, PTL DEF StreamInv

\* A consumer that is done leaves no connection open.
THEOREM FinishedStreamsAreClosed == Spec => []OverMeansClosed
BY StreamInvariance, PTL DEF StreamInv
=============================================================================
