------------------------- MODULE ToolCallAccumulator -------------------------
(***************************************************************************)
(* The tool calls of a chat stream: withStableToolCallIds, mapChatChunk    *)
(* and aggregateChat (src/streaming/normalize.ts) over the ids of          *)
(* src/tools/tool-call-id.ts and the merging of                            *)
(* src/tools/tool-call-accumulator.ts.  The accumulator is also used on    *)
(* its own, by callers that buffer raw chunks.                             *)
(*                                                                         *)
(* What a chunk says of a call is a piece, known by a number.              *)
(***************************************************************************)
EXTENDS Integers, Sequences, SequencesExt, FiniteSetsExt

CONSTANTS
    Ids,        \* the ids servers give
    NoId,
    MaxChunks,  \* bound on the stream
    MaxCalls    \* bound on the tool_calls array of a chunk

ASSUME AccumulatorAssumption ==
    /\ NoId \notin Ids \cup Nat /\ Ids \cap Nat = {}
    /\ MaxChunks \in Nat /\ MaxCalls \in Nat

VARIABLES
    normalized, \* the chunks go through normalizeChatStream, or are raw
    toolCalls,  \* what was accumulated
    announced,  \* the tool_call events, or the raw calls
    chunks,
    nextId      \* the ids generateToolCallId() gives are numbers

accumulatorVars == <<normalized, toolCalls, announced, chunks, nextId>>

AccumulatorInit ==
    /\ normalized \in BOOLEAN
    /\ toolCalls = <<>> /\ announced = <<>> /\ chunks = 0 /\ nextId = 1

-----------------------------------------------------------------------------

\* Mutant: the place in the array decides.
IsSameToolCall_ByPlace(a, b, i, j) == i = j

IsSameToolCall(a, b, i, j) ==
    IF a.id # NoId /\ b.id # NoId THEN a.id = b.id ELSE i = j

\* mergeToolCall(), and mergeToolCallArgumentsString() of string deltas.
MergeToolCall(earlier, later) ==
    [id |-> IF later.id # NoId THEN later.id ELSE earlier.id,
     pieces |-> earlier.pieces \o later.pieces]

\* One round of the loop of process(): the first entry that is the same call.
Take(entries, call, place) ==
    LET same == {i \in DOMAIN entries : IsSameToolCall(entries[i], call, i, place)}
    IN  IF same = {} THEN Append(entries, call)
        ELSE [entries EXCEPT ![Min(same)] = MergeToolCall(@, call)]

Process(entries, calls) ==
    LET taken[i \in 0 .. Len(calls)] ==
            IF i = 0 THEN entries ELSE Take(taken[i - 1], calls[i], i)
    IN  taken[Len(calls)]

MergeToolCallArrays(earlier, later) == Process(Process(<<>>, earlier), later)

\* ensureToolCallIds().
EnsureIds(calls) ==
    [i \in DOMAIN calls |-> IF calls[i].id # NoId THEN calls[i]
                            ELSE [calls[i] EXCEPT !.id = nextId + i]]

\* A chunk; the same calls, with the same ids, are announced and aggregated.
ChunkArrives(ids) ==
    LET calls == [i \in DOMAIN ids |-> [id |-> ids[i], pieces |-> <<<<chunks, i>>>>]]
        named == IF normalized THEN EnsureIds(calls) ELSE calls
    IN
    /\ chunks < MaxChunks
    /\ chunks' = chunks + 1
    /\ announced' = announced \o named
    /\ toolCalls' = IF normalized THEN MergeToolCallArrays(toolCalls, named)
                                  ELSE Process(toolCalls, named)
    /\ nextId' = nextId + Len(ids)
    /\ UNCHANGED normalized

AccumulatorNext == \E ids \in SeqOf(Ids \cup {NoId}, MaxCalls) : ChunkArrives(ids)

AccumulatorSpec == AccumulatorInit /\ [][AccumulatorNext]_accumulatorVars

-----------------------------------------------------------------------------
(* Properties.                                                             *)

IdsOf(calls) == {calls[i].id : i \in DOMAIN calls}

\* The pieces announced under an id, in their order.
PiecesOf(calls, id) ==
    FlattenSeq([i \in DOMAIN calls |-> IF calls[i].id = id THEN calls[i].pieces ELSE <<>>])

\* One of these for each id that was announced, with all its pieces, in the
\* order the ids were announced in.
AreOneForEach(entries, calls) ==
    /\ IdsOf(entries) = IdsOf(calls)
    /\ \A i \in DOMAIN entries : entries[i].pieces = PiecesOf(calls, entries[i].id)
    /\ \A i, j \in DOMAIN entries : i < j =>
        \E k \in DOMAIN calls :
            /\ calls[k].id = entries[i].id
            /\ \A l \in 1 .. k : calls[l].id # entries[j].id

\* As long as every call has an id, which a normalized stream sees to, there is
\* one accumulated call for every id that was announced, in the order they were
\* announced in, with all that was said of it: none is lost, none is there
\* twice, and two calls are never taken for one.
CallsAreThoseAnnounced ==
    /\ normalized => NoId \notin IdsOf(announced)
    /\ NoId \notin IdsOf(announced) => AreOneForEach(toolCalls, announced)
=============================================================================
