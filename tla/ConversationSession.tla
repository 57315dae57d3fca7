------------------------- MODULE ConversationSession -------------------------
(***************************************************************************)
(* ConversationSession (src/conversation.ts): turns that append to one     *)
(* history around an awaited chat(), while other turns, compact() and      *)
(* reset() may run.  A message is its role and the turn it belongs to; its *)
(* estimated tokens are given by MessageTokens.                            *)
(***************************************************************************)
EXTENDS Integers, Sequences, SequencesExt

CONSTANTS
    Turns,          \* calls of sendTurn()
    MessageTokens,         \* estimateMessageTokens of each message
    HasSystem,      \* config.systemPrompt is set
    Budgets,        \* maxEstimatedTokens - reserveForReply, clamped to 0
    MinTails        \* minTailMessages

NoTurn == "system prompt"
Roles == {"system", "user", "assistant"}
Message(role, t) == [role |-> role, turn |-> t]
Messages == [role : Roles, turn : Turns \cup {NoTurn}]

ASSUME ConversationAssumption ==
    /\ MessageTokens \in [Messages -> Nat \ {0}] /\ HasSystem \in BOOLEAN
    /\ Budgets \subseteq Nat /\ MinTails \subseteq Nat /\ NoTurn \notin Turns

VARIABLES
    history,
    turnAt,     \* where each sendTurn() is
    prompt,     \* the copy of the history it sent
    turnCount,
    disturbed   \* turns another turn overlapped, or compact()/reset() cut off

sessionVars == <<history, turnAt, prompt, turnCount, disturbed>>

InitialHistory == IF HasSystem THEN <<Message("system", NoTurn)>> ELSE <<>>
Sending == {t \in Turns : turnAt[t] = "sending"}

SessionTypeOK ==
    /\ history \in Seq(Messages) /\ prompt \in [Turns -> Seq(Messages)]
    /\ turnAt \in [Turns -> {"idle", "sending", "answered", "failed"}]
    /\ turnCount \in Nat /\ disturbed \subseteq Turns

SessionInit ==
    /\ history = InitialHistory
    /\ turnAt = [t \in Turns |-> "idle"]
    /\ prompt = [t \in Turns |-> <<>>]
    /\ turnCount = 0
    /\ disturbed = {}

-----------------------------------------------------------------------------
(* compactConversationHistory.                                             *)

Cost(messages) == FoldSeq(LAMBDA m, sum : sum + MessageTokens[m], 0, messages)

Pinned(messages) ==
    SelectInSeq(Append(messages, Message("user", NoTurn)), LAMBDA m : m.role # "system") - 1

\* Mutant: a message that does not fit is skipped instead of ending the walk.
Keeps_Skipping(kept, m, budget, minTail) ==
    IF kept.used + MessageTokens[m] <= budget \/ Len(kept.retained) < minTail
    THEN [kept EXCEPT !.used = @ + MessageTokens[m], !.retained = <<m>> \o @]
    ELSE kept

\* One message of the walk from the newest back; the first that is not kept ends it.
Keeps(kept, m, budget, minTail) ==
    IF kept.open /\ (kept.used + MessageTokens[m] <= budget \/ Len(kept.retained) < minTail)
    THEN [kept EXCEPT !.used = @ + MessageTokens[m], !.retained = <<m>> \o @]
    ELSE [kept EXCEPT !.open = FALSE]

Compacted(messages, budget, minTail) ==
    LET split == Pinned(messages)
        pinned == SubSeq(messages, 1, split)
        tail == SubSeq(messages, split + 1, Len(messages))
        walk == FoldRight(LAMBDA m, kept : Keeps(kept, m, budget, minTail), tail,
                          [used |-> Cost(pinned), retained |-> <<>>, open |-> TRUE])
    IN  pinned \o walk.retained

-----------------------------------------------------------------------------

\* sendTurn() up to the await: every turn in flight is now overlapped.
SendTurn(t) ==
    /\ turnAt[t] = "idle"
    /\ turnAt' = [turnAt EXCEPT ![t] = "sending"]
    /\ history' = Append(history, Message("user", t))
    /\ prompt' = [prompt EXCEPT ![t] = history']
    /\ disturbed' = IF Sending = {} THEN disturbed ELSE disturbed \cup Sending \cup {t}
    /\ UNCHANGED turnCount

TurnAnswered(t) ==
    /\ turnAt[t] = "sending"
    /\ turnAt' = [turnAt EXCEPT ![t] = "answered"]
    /\ history' = Append(history, Message("assistant", t))
    /\ turnCount' = turnCount + 1
    /\ UNCHANGED <<prompt, disturbed>>

\* Mutant: a failed turn takes the last message back.
TurnFails_TakesBack(t) ==
    /\ turnAt[t] = "sending"
    /\ turnAt' = [turnAt EXCEPT ![t] = "failed"]
    /\ history' = Front(history)
    /\ UNCHANGED <<prompt, turnCount, disturbed>>

\* chat() rejects: the user's message stays.
TurnFails(t) ==
    /\ turnAt[t] = "sending"
    /\ turnAt' = [turnAt EXCEPT ![t] = "failed"]
    /\ UNCHANGED <<history, prompt, turnCount, disturbed>>

\* The turns sent so far no longer have their prompt at the head of the history.
CutsOff == disturbed' = disturbed \cup {t \in Turns : turnAt[t] # "idle"}

Compact(budget, minTail) ==
    /\ history' = Compacted(history, budget, minTail)
    /\ IF history' = history THEN UNCHANGED disturbed ELSE CutsOff
    /\ UNCHANGED <<turnAt, prompt, turnCount>>

Reset ==
    /\ history' = InitialHistory
    /\ turnCount' = 0
    /\ CutsOff
    /\ UNCHANGED <<turnAt, prompt>>

SessionNext ==
    \/ \E t \in Turns : SendTurn(t) \/ TurnAnswered(t) \/ TurnFails(t)
    \/ \E budget \in Budgets, minTail \in MinTails : Compact(budget, minTail)
    \/ Reset

SessionSpec == SessionInit /\ [][SessionNext]_sessionVars

-----------------------------------------------------------------------------
(* Properties.                                                             *)

\* The point of the session: a turn's prompt, and then its answer, stay at the
\* head of the history, so that the server can reuse its cache of them; only
\* compact(), reset() or a turn sent while it was in flight takes that away,
\* not a turn that fails.
PromptStaysCached ==
    \A t \in Turns \ disturbed :
        /\ turnAt[t] \in {"sending", "failed"} => IsPrefix(prompt[t], history)
        /\ turnAt[t] = "answered" =>
            IsPrefix(Append(prompt[t], Message("assistant", t)), history)

\* compact() keeps the leading system block and the longest tail that fits, or
\* the shortest it must keep, and leaves a history alone that fits.
CompactionIsOptimal ==
    \A budget \in Budgets, minTail \in MinTails :
        LET split == Pinned(history)
            rest == Len(history) - split
            keeping(n) == SubSeq(history, 1, split) \o SubSeq(history, Len(history) - n + 1, Len(history))
            allowed == {n \in 0 .. rest : Cost(keeping(n)) <= budget \/ n <= minTail}
        IN  \E n \in allowed :
                /\ \A larger \in allowed : larger <= n
                /\ Compacted(history, budget, minTail) = keeping(n)
===============================================================================
