---------------------------- MODULE StreamObserver ----------------------------
(***************************************************************************)
(* observeStream (src/streaming/observe.ts): chunks go from the source to  *)
(* the consumer, and the observer's hooks are told of them on a chain of   *)
(* promises that nobody on the way to the consumer awaits.                 *)
(***************************************************************************)
EXTENDS Integers, Sequences, SequencesExt

CONSTANT MaxObserved    \* bound on the chunks of the source

ASSUME ObserverAssumption == MaxObserved \in Nat

Terminals == {"done", "error", "abandoned"}

\* A call of a hook; chunks are numbered.
Call(hook, n) == [hook |-> hook, chunk |-> n]
Calls == [hook : {"chunk"} \cup Terminals, chunk : 0 .. MaxObserved]

VARIABLES
    hooks,      \* the callbacks that were given
    wrapper,    \* the generator: idle, awaiting the source, suspended at its
                \* yield, then how it ended; "unused" when it never began
    yielded,    \* chunks handed to the consumer
    chain,      \* calls dispatched and not settled, the first may be running
    hookRuns,   \* the first call of the chain has started
    log,        \* the calls made, in order
    settled,    \* the calls of the chain that have settled
    reported    \* the phases whose hooks failed

observerVars == <<hooks, wrapper, yielded, chain, hookRuns, log, settled, reported>>

ObserverTypeOK ==
    /\ hooks \subseteq {"chunk"} \cup Terminals
    /\ wrapper \in {"idle", "awaiting", "suspended", "unused"} \cup Terminals
    /\ yielded \in 0 .. MaxObserved
    /\ chain \in Seq(Calls) /\ hookRuns \in BOOLEAN /\ log \in Seq(Calls)
    /\ settled \subseteq Calls
    /\ reported \subseteq {"chunk"} \cup Terminals

ObserverInit ==
    /\ hooks \in {{"chunk"} \cup Terminals, {"done", "abandoned"}, {"chunk", "error"}}
    /\ wrapper = "idle" /\ yielded = 0
    /\ chain = <<>> /\ hookRuns = FALSE
    /\ log = <<>> /\ settled = {} /\ reported = {}

-----------------------------------------------------------------------------
(* The chain.                                                              *)

\* Mutant: onDone() is called without waiting for the chain.
Dispatch_DoneAtOnce(hook, n) ==
    CASE hook \notin hooks -> UNCHANGED <<chain, log>>
      [] hook = "done" -> log' = Append(log, Call(hook, n)) /\ UNCHANGED chain
      [] OTHER -> chain' = Append(chain, Call(hook, n)) /\ UNCHANGED log

\* dispatch(), of a hook that was given: it will run after those before it.
Dispatch(hook, n) ==
    /\ chain' = IF hook \in hooks THEN Append(chain, Call(hook, n)) ELSE chain
    /\ UNCHANGED log

HookStarts ==
    /\ chain # <<>> /\ ~hookRuns
    /\ hookRuns' = TRUE
    /\ log' = Append(log, Head(chain))
    /\ UNCHANGED <<hooks, wrapper, yielded, chain, settled, reported>>

\* The hook returned or its promise settled; a failure is reported and dropped.
HookSettles(fails) ==
    /\ hookRuns
    /\ hookRuns' = FALSE
    /\ chain' = Tail(chain)
    /\ settled' = settled \cup {Head(chain)}
    /\ reported' = IF fails THEN reported \cup {Head(chain).hook} ELSE reported
    /\ UNCHANGED <<hooks, wrapper, yielded, log>>

-----------------------------------------------------------------------------
(* The generator.                                                          *)

Pulls ==
    /\ wrapper \in {"idle", "suspended"}
    /\ wrapper' = "awaiting"
    /\ UNCHANGED <<hooks, yielded, chain, hookRuns, log, settled, reported>>

\* onChunk() is dispatched before the chunk is yielded.
SourceYields ==
    /\ wrapper = "awaiting" /\ yielded < MaxObserved
    /\ wrapper' = "suspended"
    /\ yielded' = yielded + 1
    /\ Dispatch("chunk", yielded + 1)
    /\ UNCHANGED <<hooks, hookRuns, settled, reported>>

SourceCompletes ==
    /\ wrapper = "awaiting"
    /\ wrapper' = "done"
    /\ Dispatch("done", 0)
    /\ UNCHANGED <<hooks, yielded, hookRuns, settled, reported>>

\* onError() or onAbandon(), at once; when it throws, that is reported.
EndsWith(outcome, throws) ==
    /\ wrapper' = outcome
    /\ log' = IF outcome \in hooks THEN Append(log, Call(outcome, 0)) ELSE log
    /\ reported' = IF outcome \in hooks /\ throws THEN reported \cup {outcome} ELSE reported
    /\ UNCHANGED <<hooks, yielded, chain, hookRuns, settled>>

SourceThrows(throws) == wrapper = "awaiting" /\ EndsWith("error", throws)

\* The consumer turns away: the source is closed first, and when that fails, or
\* when the consumer threw into the generator, it is an error.
ConsumerStops(throws) ==
    /\ wrapper = "suspended"
    /\ \E outcome \in {"abandoned", "error"} : EndsWith(outcome, throws)

\* return() before the first next(): the body never runs.
ReturnsUnused ==
    /\ wrapper = "idle"
    /\ wrapper' = "unused"
    /\ UNCHANGED <<hooks, yielded, chain, hookRuns, log, settled, reported>>

ObserverNext ==
    \/ HookStarts
    \/ Pulls
    \/ SourceYields
    \/ SourceCompletes
    \/ \E fails \in BOOLEAN : HookSettles(fails) \/ SourceThrows(fails) \/ ConsumerStops(fails)
    \/ ReturnsUnused

ObserverSpec == ObserverInit /\ [][ObserverNext]_observerVars

-----------------------------------------------------------------------------
(* Properties.                                                             *)

\* However slow or broken the hooks are: they are told of the chunks the
\* consumer was given, from the first on, in order and once each; of one end,
\* the one the stream had; and onDone() comes when the hook of every chunk has
\* settled.
ObserverSeesTheStream ==
    LET told == {i \in DOMAIN log : log[i].hook = "chunk"}
        ends == {i \in DOMAIN log : log[i].hook \in Terminals}
    IN
    /\ \A i \in told :
        /\ log[i].chunk \in 1 .. yielded
        /\ \A j \in told : j < i => log[j].chunk < log[i].chunk
        /\ \A n \in 1 .. log[i].chunk - 1 : \E j \in told : j < i /\ log[j].chunk = n
    /\ chain = <<>> /\ "chunk" \in hooks =>
        \A n \in 1 .. yielded : \E i \in told : log[i].chunk = n
    /\ \A i, j \in ends : i = j /\ log[i] = Call(wrapper, 0)
    /\ Contains(log, Call("done", 0)) /\ "chunk" \in hooks =>
        \A n \in 1 .. yielded : Call("chunk", n) \in settled
===============================================================================
