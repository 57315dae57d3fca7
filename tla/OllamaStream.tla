---------------------------- MODULE OllamaStream ----------------------------
(***************************************************************************)
(* One streamed answer: the connection HttpClient.requestStream opened     *)
(* (src/transport/http.ts), the OllamaStream wrapped around it             *)
(* (src/streaming/stream.ts), its consumer, and what executeWithFailover   *)
(* keeps until finalResult settles: the endpoint's slot and the request    *)
(* scope (src/client.ts).  In module Failover this whole module is the     *)
(* time a request spends in "held"; ReleaseSlot is its HoldEnds.           *)
(*                                                                         *)
(* A stream is read by "for await" or through on(), never both.  The       *)
(* server, the consumer, the signal and abort() interleave at every await  *)
(* and every yield; listeners of on() run inside the step of the pump.     *)
(***************************************************************************)
EXTENDS Naturals, Sequences

CONSTANTS
    Batches,           \* the sequences of lines one read() may bring
    MaxReads,          \* bound: how many reads bring lines
    FiredBefore,       \* why the signal may have fired before the stream exists
    ListenersMayThrow  \* whether a listener of the consumer may throw

Items == {"chunk", "done", "bad"}  \* bad: an in-band error, or no JSON

ASSUME BatchesAssumption == Batches \subseteq Seq(Items) \ {<<>>}
ASSUME MaxReadsAssumption == MaxReads \in Nat
ASSUME ConsumerAssumption == ListenersMayThrow \in BOOLEAN

VARIABLES
    mode,       \* OllamaStream.mode
    pc,         \* where the pump or the generator is
    completed,  \* the generator's local: the done event was reached
    final,      \* finalResult
    errorEvent, \* the code of the error event the consumer got
    connection, \* the response body: open, closed, or why it was aborted
    lines,      \* the lines of the last read() not yet handed on
    reads,      \* reads that brought lines
    signal,     \* the request's signal, and why it fired
    hooks,      \* who listens to it: the transport, the stream
    slot        \* the endpoint's slot and the request scope

vars == <<mode, pc, completed, final, errorEvent, connection, lines, reads,
          signal, hooks, slot>>

Reasons == {"timeout", "aborted"}
ASSUME FiredBeforeAssumption == FiredBefore \subseteq Reasons

Codes == Reasons \cup {"network_error", "stream_error", "listener_error"}

(* pc: "reading" awaits the source; "event", "lastMessage" and "error" are *)
(* the generator's yields, "lastMessage" the one before the done event.    *)
TypeOK ==
    /\ mode \in {"unconsumed", "iterator", "events"}
    /\ pc \in {"idle", "reading", "event", "lastMessage", "error", "over"}
    /\ completed \in BOOLEAN
    /\ final \in {"pending", "resolved"} \cup Codes
    /\ errorEvent \in {"none"} \cup Codes
    /\ connection \in {"open", "closed"} \cup Reasons
    /\ lines \in Seq(Items)
    /\ reads \in 0 .. MaxReads
    /\ signal \in {"live"} \cup Reasons
    /\ hooks \subseteq {"transport", "stream"}
    /\ slot \in {"held", "released"}

\* The constructor: a signal that has fired aborts the stream at once.
Init ==
    /\ mode = "unconsumed" /\ pc = "idle"
    /\ completed = FALSE
    /\ errorEvent = "none"
    /\ lines = <<>> /\ reads = 0
    /\ slot = "held"
    /\ \/ /\ signal = "live"
          /\ final = "pending"
          /\ connection = "open"
          /\ hooks = {"transport", "stream"}
       \/ /\ signal \in FiredBefore
          /\ final = "aborted"
          /\ connection = signal
          /\ hooks = {}

-----------------------------------------------------------------------------
(* Pieces of steps.  Definitions named X_... are mutants of X.             *)

\* A promise settles once.
Settled(outcome) == IF final = "pending" THEN outcome ELSE final

Cut(why) == IF connection = "open" THEN why ELSE connection

\* Mutant: the source is told, finalResult is not.
AbortEffect_Unsettled(why) ==
    /\ hooks' = {}
    /\ connection' = Cut(why)
    /\ final' = final

\* abort(): no one listens any more, the body errors, finalResult rejects.
AbortEffect(why) ==
    /\ hooks' = {}
    /\ connection' = Cut(why)
    /\ final' = Settled("aborted")

\* Mutant: leaving the loop before the done event rejects nothing.
Finish_Unsettled ==
    /\ pc' = "over"
    /\ hooks' = {}
    /\ connection' = "closed"
    /\ final' = final
    /\ lines' = <<>>

\* Mutant: leaving the loop early does not stop the transport.
Finish_Connected ==
    /\ pc' = "over"
    /\ hooks' = hooks \ {"stream"}
    /\ connection' = connection
    /\ final' = IF completed THEN final ELSE Settled("aborted")
    /\ lines' = <<>>

\* The finally block of the generator.  "for await" has closed the source by
\* then; a generator that did not complete aborts it and rejects.
Finish ==
    /\ pc' = "over"
    /\ hooks' = {}
    /\ connection' = "closed"
    /\ final' = IF completed THEN final ELSE Settled("aborted")
    /\ lines' = <<>>

-----------------------------------------------------------------------------
(* The consumer.                                                           *)

\* The generator's first next(), or the first on(), which starts the pump.
Consume(how) ==
    /\ mode = "unconsumed"
    /\ mode' = how
    /\ pc' = "reading"
    /\ UNCHANGED <<completed, final, errorEvent, connection, lines, reads,
                   signal, hooks, slot>>

\* next(), from a yield: the message of the last chunk is followed by done.
ResumesGenerator ==
    /\ \/ /\ pc = "lastMessage"
          /\ pc' = "event"
          /\ completed' = TRUE
          /\ final' = Settled("resolved")
          /\ UNCHANGED <<connection, lines, hooks>>
       \/ /\ pc = "event"
          /\ pc' = "reading"
          /\ UNCHANGED <<completed, final, connection, lines, hooks>>
       \/ /\ pc = "error"
          /\ Finish
          /\ UNCHANGED completed
    /\ UNCHANGED <<mode, errorEvent, reads, signal, slot>>

\* return(), from a yield: the consumer broke out of its loop.
Breaks ==
    /\ pc \in {"event", "lastMessage", "error"}
    /\ Finish
    /\ UNCHANGED <<mode, completed, errorEvent, reads, signal, slot>>

Abort ==
    /\ AbortEffect("aborted")
    /\ UNCHANGED <<mode, pc, completed, errorEvent, lines, reads, signal, slot>>

-----------------------------------------------------------------------------
(* The source.                                                             *)

\* read() brings lines.
ReadsLines ==
    /\ pc = "reading" /\ lines = <<>> /\ connection = "open"
    /\ reads < MaxReads
    /\ reads' = reads + 1
    /\ lines' \in Batches
    /\ UNCHANGED <<mode, pc, completed, final, errorEvent, connection, signal,
                   hooks, slot>>

\* The catch blocks.  A generator yields the error event and goes on to its
\* finally block when asked; the pump emits it, and rejects finalResult only
\* if no listener of the error event throws.
Catches(code) ==
    /\ errorEvent' = code
    /\ lines' = <<>>
    /\ \/ /\ mode = "iterator"
          /\ pc' = "error"
          /\ final' = Settled(code)
          /\ hooks' = hooks \ {"transport"}
       \/ /\ mode = "events"
          /\ pc' = "over"
          /\ final' \in {Settled(code)} \cup (IF ListenersMayThrow THEN {final} ELSE {})
          /\ hooks' = {}

\* The for-await loop ends because the source throws: read() rejects, or a
\* line holds an error frame or no JSON.
SourceFails ==
    /\ pc = "reading"
    /\ \/ /\ lines = <<>> /\ connection = "open"
          /\ Catches("network_error")
          /\ connection' = "closed"
       \/ /\ lines = <<>> /\ connection \in Reasons
          /\ Catches(connection)
          /\ UNCHANGED connection
       \/ /\ lines # <<>> /\ Head(lines) = "bad"
          /\ Catches("stream_error")
          /\ connection' = "closed"
    /\ UNCHANGED <<mode, completed, reads, signal, slot>>

\* The server closes the stream, with or without a done chunk before.
SourceEnds ==
    /\ pc = "reading" /\ lines = <<>> /\ connection = "open"
    /\ \/ /\ mode = "iterator"
          /\ Finish
       \/ /\ mode = "events"
          /\ pc' = "over"
          /\ hooks' = {}
          /\ connection' = "closed"
          /\ UNCHANGED <<final, lines>>
    /\ UNCHANGED <<mode, completed, errorEvent, reads, signal, slot>>

\* A chunk reaches the generator, which yields its message event.
Yields ==
    /\ mode = "iterator" /\ pc = "reading"
    /\ lines # <<>> /\ Head(lines) # "bad"
    /\ lines' = Tail(lines)
    /\ pc' = IF Head(lines) = "done" THEN "lastMessage" ELSE "event"
    /\ UNCHANGED <<mode, completed, final, errorEvent, connection, reads,
                   signal, hooks, slot>>

\* A chunk reaches the pump, which runs the listeners of its events.  They
\* return, one of them throws, or one of them calls abort().
Emits ==
    /\ mode = "events" /\ pc = "reading"
    /\ lines # <<>> /\ Head(lines) # "bad"
    /\ \/ /\ lines' = Tail(lines)
          /\ final' = IF Head(lines) = "done" THEN Settled("resolved") ELSE final
          /\ UNCHANGED <<pc, errorEvent, connection, hooks>>
       \/ /\ lines' = Tail(lines)
          /\ AbortEffect("aborted")
          /\ UNCHANGED <<pc, errorEvent>>
       \/ /\ ListenersMayThrow
          /\ Catches("listener_error")
          /\ connection' = Cut("closed")
    /\ UNCHANGED <<mode, completed, reads, signal, slot>>

-----------------------------------------------------------------------------
(* The request scope.                                                      *)

\* Mutant: the stream was built without the request's signal.
Fires_Unheard(why) ==
    /\ signal = "live" /\ slot = "held"
    /\ signal' = why
    /\ hooks' = hooks \ {"transport"}
    /\ connection' = IF "transport" \in hooks THEN Cut(why) ELSE connection
    /\ UNCHANGED <<mode, pc, completed, final, errorEvent, lines, reads, slot>>

\* The timer, the caller's signal or destroy(): the transport listens first,
\* so the body errors with the reason; then the stream aborts itself.
Fires(why) ==
    /\ signal = "live" /\ slot = "held"
    /\ signal' = why
    /\ IF "stream" \in hooks
       THEN AbortEffect(why)
       ELSE /\ hooks' = {}
            /\ connection' = IF "transport" \in hooks THEN Cut(why) ELSE connection
            /\ UNCHANGED final
    /\ UNCHANGED <<mode, pc, completed, errorEvent, lines, reads, slot>>

\* holdUntil's continuation: the timer is cancelled, the scope disposed of and
\* the slot released.
ReleaseSlot ==
    /\ final # "pending" /\ slot = "held"
    /\ slot' = "released"
    /\ UNCHANGED <<mode, pc, completed, final, errorEvent, connection, lines,
                   reads, signal, hooks>>

-----------------------------------------------------------------------------

SourceSteps == ReadsLines \/ SourceFails \/ SourceEnds \/ Yields \/ Emits

Next ==
    \/ \E how \in {"iterator", "events"} : Consume(how)
    \/ ResumesGenerator
    \/ Breaks
    \/ Abort
    \/ SourceSteps
    \/ \E why \in Reasons : Fires(why)
    \/ ReleaseSlot

\* The request's timer is armed, and promise jobs run.  Neither the consumer
\* nor the server has to do anything.
Fairness == WF_vars(Fires("timeout")) /\ WF_vars(ReleaseSlot)

Spec == Init /\ [][Next]_vars
FairSpec == Spec /\ Fairness

-----------------------------------------------------------------------------
(* Properties.                                                             *)

\* A loop that is over, by whatever way out (end of stream, break, error,
\* abort), has settled finalResult: callers may await it afterwards.
IterationSettles == mode = "iterator" /\ pc = "over" => final # "pending"

\* While finalResult is pending and the stream can still be read, the signal
\* still ends it: a timeout, the caller's abort and destroy() find it.
PendingStreamsListen ==
    final = "pending" /\ pc # "over" => signal = "live" /\ "stream" \in hooks

\* A consumer that is done leaves no open connection and no listener behind,
\* having read the stream to its end or not.
OverMeansClosed == pc = "over" => connection # "open" /\ hooks = {}

\* Whoever asked for the stream, the slot of its endpoint comes back once the
\* timer has fired at the latest: unread, half read or stalled streams.  (Not
\* when on() is used: see FinishedWorkIsSettled.)
SlotComesBack == <>[](slot = "released" \/ mode = "events")

\* ADR 0025: destroy() "never leaks an entry for finished work": a stream
\* whose reading is over has settled finalResult, which disposes of its scope.
FinishedWorkIsSettled == pc = "over" => final # "pending"

\* streaming.md, on a network error, a timeout or an abort: "finalResult
\* rejects with the same error" as the error event.
\* It does not hold (README.md, Divergences found).
SameErrorEverywhere ==
    errorEvent \in Codes /\ final \in Codes => errorEvent = final
=============================================================================
