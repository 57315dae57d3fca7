---------------------------- MODULE CompatStreams ----------------------------
(***************************************************************************)
(* The streams of the OpenAI and Anthropic compatibility clients:          *)
(* OpenAIChatCompletionStream ("chat"), OpenAICompletionStream             *)
(* ("completion") and OpenAIResponsesStream ("responses") of               *)
(* src/integrations/openai.ts, AnthropicMessagesStream ("messages") of     *)
(* src/integrations/anthropic.ts.  Each is pulled by its consumer, who is  *)
(* given every event, and puts the events together for finalResult.        *)
(*                                                                         *)
(* The pieces of text an event carries are known by its position in the    *)
(* stream.  An answer has slots (choices, blocks, output items) with, in   *)
(* each, channels (text, one tool call or another; the kinds of a block).  *)
(***************************************************************************)
EXTENDS Integers, Sequences, SequencesExt, FiniteSetsExt

CONSTANTS
    Protocols,  \* the streams above
    Slots,      \* indices the server uses
    Channels,   \* "text" and "call"
    MaxEvents   \* bound on what is shown

ASSUME CompatAssumption ==
    /\ Protocols \subseteq {"chat", "completion", "responses", "messages"}
    /\ "text" \in Channels /\ "none" \notin Channels /\ MaxEvents \in Nat

Absent == [type |-> "absent"]
None == "none"

VARIABLES
    protocol,
    generator,  \* the iterator: idle, awaiting the source, suspended at its
                \* yield, returned, threw, or left by its consumer
    shown,      \* the events the consumer was given
    slots,      \* what each slot holds per channel, and the kind it is of
    inputJson,  \* messages: the input_json_delta pieces of each block
    canonical,  \* responses: the item each slot was sent whole, if any
    head,       \* message_start; the last response.created or like it
    terminal,   \* responses: the last response.completed or like it
    failure,    \* responses: response.failed or response.incomplete came
    listening,  \* the abort listener is on the caller's signal
    cut,        \* source.abort() was called
    final       \* the finalResult promise

compatVars == <<protocol, generator, shown, slots, inputJson, canonical, head, terminal,
                failure, listening, cut, final>>

EmptySlot == [kind |-> None, of |-> [c \in Channels |-> <<>>]]
Pending == [is |-> "pending"]
Rejected == [is |-> "rejected"]

\* The constructor; the signal may have fired before.
CompatInit ==
    /\ protocol \in Protocols
    /\ generator = "idle" /\ shown = <<>>
    /\ slots = [s \in Slots |-> EmptySlot]
    /\ inputJson = [s \in Slots |-> <<>>]
    /\ canonical = [s \in Slots |-> 0]
    /\ head = Absent /\ terminal = Absent /\ failure = FALSE
    /\ \/ listening = TRUE /\ cut = FALSE /\ final = Pending
       \/ listening = FALSE /\ cut = FALSE /\ final = Pending
       \/ listening = FALSE /\ cut = TRUE /\ final = Rejected

-----------------------------------------------------------------------------
(* Events.                                                                 *)

Deltas == [type : {"delta"}, slot : Slots, channel : Channels]

\* content_block_start.
Starts == [type : {"start"}, slot : Slots, channel : Channels]

\* content_block_stop, with input that parses or does not.
Stops == [type : {"stop"}, slot : Slots, parses : BOOLEAN]

\* response.output_item.added, response.output_text.done and the like;
\* response.output_item.done.
Wholes == [type : {"whole", "item"}, slot : Slots, channel : Channels]

\* response.created and the like; response.completed or done; failed; incomplete.
Responses ==
    [type : {"created", "completed"}, status : {"completed", "failed"}, output : {"none"}]
        \cup [type : {"completed", "failed"}, status : {"completed"}, output : {"given"}]

EventsOf(p) ==
    CASE p = "completion" -> {e \in Deltas : e.channel = "text"}
      [] p = "chat" -> Deltas
      [] p = "messages" -> Deltas \cup Starts \cup Stops \cup {[type |-> "message_start"]}
      [] p = "responses" -> Deltas \cup Wholes \cup Responses

Number == Len(shown) + 1

-----------------------------------------------------------------------------
(* What an event does to what was put together.                            *)

Added(s, c) == [slots EXCEPT ![s].of[c] = Append(@, Number)]

\* ensureState() makes the slot of the kind of the last event about it.
Replaced(s, c) == [slots EXCEPT ![s].of[c] = <<Number>>, ![s].kind = c]

\* A delta that opens a choice places its tool calls by their position in the
\* array, a later one by their index: the same for a server that counts them.
AppliesDelta(e) ==
    /\ e.type = "delta"
    /\ CASE protocol \in {"chat", "completion"} ->
                slots' = Added(e.slot, e.channel) /\ UNCHANGED inputJson
         [] protocol = "responses" ->
                /\ slots' = [Added(e.slot, e.channel) EXCEPT ![e.slot].kind = e.channel]
                /\ UNCHANGED inputJson
         [] protocol = "messages" /\ e.channel = "call" ->
                /\ inputJson' = [inputJson EXCEPT ![e.slot] = Append(@, Number)]
                /\ UNCHANGED slots
         [] OTHER ->    \* mergeContentBlock()
                /\ slots' = IF slots[e.slot].kind = e.channel
                            THEN Added(e.slot, e.channel) ELSE slots
                /\ UNCHANGED inputJson
    /\ UNCHANGED canonical

\* A new block takes the place of what the slot held, but for its input.
AppliesStart(e) ==
    /\ e.type = "start"
    /\ slots' = [slots EXCEPT ![e.slot] =
            [kind |-> e.channel, of |-> [EmptySlot.of EXCEPT ![e.channel] = <<Number>>]]]
    /\ UNCHANGED <<inputJson, canonical>>

AppliesStop(e) ==
    /\ e.type = "stop"
    /\ slots' = IF slots[e.slot].kind = "call" /\ inputJson[e.slot] # <<>> /\ e.parses
                THEN [slots EXCEPT ![e.slot].of["call"] = inputJson[e.slot]] ELSE slots
    /\ UNCHANGED <<inputJson, canonical>>

AppliesWhole(e) ==
    /\ e.type \in {"whole", "item"}
    /\ slots' = Replaced(e.slot, e.channel)
    /\ canonical' = IF e.type = "item" THEN [canonical EXCEPT ![e.slot] = Number] ELSE canonical
    /\ UNCHANGED inputJson

AppliesResponse(e) ==
    /\ e.type \in {"created", "completed", "failed", "message_start"}
    /\ head' = IF e.type \in {"created", "message_start"} THEN e ELSE head
    /\ terminal' = IF e.type \in {"completed", "failed"} THEN e ELSE terminal
    /\ failure' = (failure \/ e.type = "failed")
    /\ UNCHANGED <<slots, inputJson, canonical>>

Applies(e) ==
    \/ /\ AppliesDelta(e) \/ AppliesStart(e) \/ AppliesStop(e) \/ AppliesWhole(e)
       /\ UNCHANGED <<head, terminal, failure>>
    \/ AppliesResponse(e)

-----------------------------------------------------------------------------
(* How the promise settles; it does so once.                               *)

Settles(outcome) == final' = IF final = Pending THEN outcome ELSE final

\* reconstructedOutput() of one output index.
Reconstructed(s) ==
    CASE canonical[s] # 0 -> <<canonical[s]>>
      [] canonical[s] = 0 /\ slots[s].kind = None -> <<>>
      [] OTHER -> slots[s].of[slots[s].kind]

\* The response was sent with its output, which is taken as it is.
OutputGiven == terminal # Absent /\ terminal.output = "given"

\* What the slots hold in the end.
Assembled ==
    CASE protocol \in {"chat", "completion"} -> [s \in Slots |-> slots[s].of]
      [] protocol = "messages" ->
            [s \in Slots |-> IF slots[s].kind = None THEN <<>> ELSE slots[s].of[slots[s].kind]]
      [] protocol = "responses" ->
            [s \in Slots |-> IF OutputGiven THEN <<>> ELSE Reconstructed(s)]

\* Mutant: a failure that is followed by a completion is forgotten.
Fails_LastWins ==
    CASE protocol = "messages" -> head = Absent
      [] protocol = "responses" ->
            \/ terminal = Absent /\ (head = Absent \/ head.status = "failed")
            \/ terminal # Absent /\ terminal.status = "failed"
      [] OTHER -> FALSE

\* The source is over, and the stream throws instead of resolving.  Neither a
\* missing [DONE] nor a missing message_stop is an error.
Fails ==
    CASE protocol = "messages" -> head = Absent
      [] protocol = "responses" ->
            \/ failure
            \/ terminal = Absent /\ (head = Absent \/ head.status = "failed")
            \/ terminal # Absent /\ terminal.status = "failed"
      [] OTHER -> FALSE

-----------------------------------------------------------------------------
(* The iterator, its consumer and the caller.                              *)

Iterates ==
    /\ generator = "idle"
    /\ generator' = "awaiting"
    /\ UNCHANGED <<protocol, shown, slots, inputJson, canonical, head, terminal, failure,
                   listening, cut, final>>

\* An event of the source, which may still have some after it was aborted: what
\* was read before is not lost.
Yields(e) ==
    /\ generator = "awaiting" /\ Len(shown) < MaxEvents
    /\ Applies(e)
    /\ shown' = Append(shown, e)
    /\ generator' = "suspended"
    /\ UNCHANGED <<protocol, listening, cut, final>>

Resumes ==
    /\ generator = "suspended"
    /\ generator' = "awaiting"
    /\ UNCHANGED <<protocol, shown, slots, inputJson, canonical, head, terminal, failure,
                   listening, cut, final>>

Throws ==
    /\ generator' = "threw" /\ listening' = FALSE /\ cut' = TRUE
    /\ Settles(Rejected)

\* [DONE], or the end of the source.
SourceEnds ==
    /\ generator = "awaiting"
    /\ IF Fails
       THEN Throws
       ELSE /\ generator' = "returned" /\ listening' = FALSE
            /\ Settles([is |-> "resolved", asSent |-> OutputGiven, answer |-> Assembled])
            /\ UNCHANGED cut
    /\ UNCHANGED <<protocol, shown, slots, inputJson, canonical, head, terminal, failure>>

\* The connection broke or was aborted, an event does not parse, an error event.
SourceFails ==
    /\ generator = "awaiting"
    /\ Throws
    /\ UNCHANGED <<protocol, shown, slots, inputJson, canonical, head, terminal, failure>>

\* Mutant: finally leaves the promise alone.
ConsumerLeaves_Silently ==
    /\ generator = "suspended"
    /\ generator' = "left" /\ cut' = TRUE
    /\ UNCHANGED <<protocol, shown, slots, inputJson, canonical, head, terminal, failure,
                   listening, final>>

\* The consumer breaks out of its loop: only the finally block runs, and the
\* listener stays where it is.
ConsumerLeaves ==
    /\ generator = "suspended"
    /\ generator' = "left" /\ cut' = TRUE
    /\ Settles(Rejected)
    /\ UNCHANGED <<protocol, shown, slots, inputJson, canonical, head, terminal, failure,
                   listening>>

\* abort(), by the caller or by the listener.
Aborts ==
    /\ ~cut \/ listening
    /\ listening' = FALSE /\ cut' = TRUE
    /\ Settles(Rejected)
    /\ UNCHANGED <<protocol, generator, shown, slots, inputJson, canonical, head, terminal,
                   failure>>

CompatNext ==
    \/ Iterates
    \/ \E e \in EventsOf(protocol) : Yields(e)
    \/ Resumes
    \/ SourceEnds
    \/ SourceFails
    \/ ConsumerLeaves
    \/ Aborts

CompatSpec == CompatInit /\ [][CompatNext]_compatVars

-----------------------------------------------------------------------------
(* Properties.                                                             *)

\* The events about a slot, by their position.
About(s, types) == {k \in DOMAIN shown : shown[k].type \in types /\ shown[k].slot = s}

\* The pieces are those at the positions S, in their order.
Lists(pieces, S) ==
    /\ ToSet(pieces) = S
    /\ \A i, j \in DOMAIN pieces : i < j => pieces[i] < pieces[j]

\* The deltas of a channel from the k-th event on.
Pieces(s, c, k) == {n \in About(s, {"delta"}) : n > k /\ shown[n].channel = c}

\* A slot is of the kind of the last event that names one; it holds what the
\* last event that sent it whole has, and the deltas after that.
ExpectedOutput(s) ==
    LET items == About(s, {"item"})
        events == About(s, {"delta", "whole", "item"})
        kind == shown[Max(events)].channel
        wholes == {k \in events \ About(s, {"delta"}) : shown[k].channel = kind}
        base == Max(wholes \cup {0})
    IN  CASE items # {} -> {Max(items)}
          [] items = {} /\ events = {} -> {}
          [] OTHER -> (Pieces(s, kind, base) \cup {base}) \ {0}

\* A block of text holds what it began with and its deltas; a tool call the
\* input of the last stop, with all the pieces sent for the slot, if any parsed.
ExpectedBlock(s) ==
    LET begun == Max(About(s, {"start"}) \cup {0})
        parsed == {k \in About(s, {"stop"}) : k > begun /\ shown[k].parses
                                              /\ \E n \in Pieces(s, "call", 0) : n < k}
    IN  CASE begun = 0 -> {}
          [] begun # 0 /\ shown[begun].channel # "call" ->
                {begun} \cup Pieces(s, shown[begun].channel, begun)
          [] OTHER -> IF parsed = {} THEN {begun}
                      ELSE {n \in Pieces(s, "call", 0) : n < Max(parsed)}

\* The answer is what the events shown amount to.
IsAsShown(answer) ==
    \A s \in Slots :
        CASE protocol \in {"chat", "completion"} ->
                \A c \in Channels : Lists(answer[s][c], Pieces(s, c, 0))
          [] protocol = "messages" -> Lists(answer[s], ExpectedBlock(s))
          [] protocol = "responses" -> Lists(answer[s], ExpectedOutput(s))

\* The server said that it failed.
Failed == \E k \in DOMAIN shown : shown[k].type = "failed"

\* finalResult settles as soon as the iteration is over, by whatever way, which
\* is when the endpoint is given back.  When it resolves, the consumer has been
\* given the whole stream, no failure was in it, and the answer is what the
\* events shown amount to.
FinalResultIsWhatWasShown ==
    /\ generator \in {"returned", "threw", "left"} => final # Pending
    /\ final.is = "resolved" =>
        /\ generator = "returned" /\ ~Failed
        /\ final.asSent \/ IsAsShown(final.answer)
=============================================================================
