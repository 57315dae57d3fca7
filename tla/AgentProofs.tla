----------------------------- MODULE AgentProofs -----------------------------
(***************************************************************************)
(* Proofs about Agent for every set of tools and calls, every concurrency  *)
(* limit and all budgets.                                                  *)
(*                                                                         *)
(* The budgets are checked when a batch is accepted, the calls start one   *)
(* by one while the batch runs, and they are added to the total when it is *)
(* over; so the invariant says what is still to come: a call of the open   *)
(* batch has started or is behind nextIndex, and the two together are what *)
(* the budgets were asked for.                                             *)
(***************************************************************************)
EXTENDS Agent, FiniteSetTheorems, FunctionTheorems, TLAPS

USE CallsAssumption, MaxConcurrencyAssumption, BudgetsAssumption

-----------------------------------------------------------------------------
(* Counting the occurrences of a call.                                     *)

Among(s, K, c) == {i \in K : s[i] = c}

LEMMA SomeIndices ==
    ASSUME NEW s, NEW c, NEW lo \in Int, NEW hi \in Int
    PROVE  /\ IsFiniteSet(Among(s, lo .. hi, c))
           /\ Cardinality(Among(s, lo .. hi, c)) \in Nat
<1>1. Among(s, lo .. hi, c) \subseteq lo .. hi
  BY DEF Among
<1>2. IsFiniteSet(Among(s, lo .. hi, c))
  BY <1>1, FS_Interval, FS_Subset
<1> QED
  BY <1>2, FS_CardinalityType

\* The occurrences up to an index and those behind it.
LEMMA SplitCount ==
    ASSUME NEW s, NEW c, NEW m \in Nat, NEW n \in Nat, m <= n
    PROVE  Cardinality(Among(s, 1 .. n, c)) =
             Cardinality(Among(s, 1 .. m, c)) + Cardinality(Among(s, m + 1 .. n, c))
<1> DEFINE A == Among(s, 1 .. m, c)
           B == Among(s, m + 1 .. n, c)
<1>1. IsFiniteSet(A) /\ IsFiniteSet(B)
  BY SomeIndices
<1>2. Among(s, 1 .. n, c) = A \cup B /\ A \cap B = {}
  BY DEF Among
<1>3. Cardinality(A \cap B) = 0
  BY <1>2, FS_EmptySet
<1>4. Cardinality(A) \in Nat /\ Cardinality(B) \in Nat
  BY <1>1, FS_CardinalityType
<1>5. Cardinality(A \cup B) = Cardinality(A) + Cardinality(B) - Cardinality(A \cap B)
  <2> HIDE DEF A, B
  <2> QED
    BY <1>1, FS_Union
<1> HIDE DEF A, B
<1>6. Cardinality(A \cup B) = Cardinality(A) + Cardinality(B)
  BY <1>3, <1>4, <1>5
<1> QED
  BY <1>2, <1>6 DEF A, B

\* The first index of an interval counts when it holds c.
LEMMA FirstCount ==
    ASSUME NEW s, NEW c, NEW m \in Nat, NEW n \in Nat, m <= n
    PROVE  Cardinality(Among(s, m .. n, c)) =
             Cardinality(Among(s, m + 1 .. n, c)) + (IF s[m] = c THEN 1 ELSE 0)
<1> DEFINE B == Among(s, m + 1 .. n, c)
<1>1. IsFiniteSet(B) /\ Cardinality(B) \in Nat
  BY SomeIndices
<1>2. CASE s[m] = c
  <2>1. Among(s, m .. n, c) = B \cup {m} /\ m \notin B
    BY <1>2 DEF Among
  <2> QED
    BY <1>1, <1>2, <2>1, FS_AddElement
<1>3. CASE s[m] # c
  <2>1. Among(s, m .. n, c) = B
    BY <1>3 DEF Among
  <2> QED
    BY <1>1, <1>3, <2>1
<1> QED
  BY <1>2, <1>3

LEMMA RepeatsCount ==
    ASSUME NEW s \in Seq(Calls), NEW c
    PROVE  Repeats(s, c) = Cardinality(Among(s, 1 .. Len(s), c)) /\ Repeats(s, c) \in Nat
<1>1. DOMAIN s = 1 .. Len(s) /\ Len(s) \in Nat
  OBVIOUS
<1>2. Repeats(s, c) = Cardinality(Among(s, 1 .. Len(s), c))
  BY <1>1 DEF Repeats, Among
<1> QED
  BY <1>1, <1>2, SomeIndices

LEMMA AppendRepeats ==
    ASSUME NEW s \in Seq(Calls), NEW x \in Calls, NEW c
    PROVE  Repeats(Append(s, x), c) = Repeats(s, c) + (IF x = c THEN 1 ELSE 0)
<1> DEFINE n == Len(s)
           A == Among(s, 1 .. n, c)
           t == Append(s, x)
<1>1. n \in Nat /\ t \in Seq(Calls) /\ Len(t) = n + 1
  OBVIOUS
<1>2. /\ \A i \in 1 .. n : t[i] = s[i]
      /\ t[n + 1] = x
  OBVIOUS
<1> HIDE DEF n, t
<1>3. IsFiniteSet(A) /\ Cardinality(A) \in Nat
  BY <1>1, SomeIndices
<1>4. Repeats(s, c) = Cardinality(A) /\ Repeats(t, c) = Cardinality(Among(t, 1 .. n + 1, c))
  BY <1>1, RepeatsCount DEF n
<1>5. CASE x = c
  <2>1. Among(t, 1 .. n + 1, c) = A \cup {n + 1} /\ n + 1 \notin A
    BY <1>1, <1>2, <1>5 DEF Among
  <2> QED
    BY <1>3, <1>4, <1>5, <2>1, FS_AddElement DEF t
<1>6. CASE x # c
  <2>1. Among(t, 1 .. n + 1, c) = A
    BY <1>1, <1>2, <1>6 DEF Among
  <2> QED
    BY <1>4, <1>6, <2>1, <1>3 DEF t
<1> QED
  BY <1>5, <1>6

\* Appending the first m of a batch.
LEMMA PrefixRepeats ==
    ASSUME NEW s \in Seq(Calls), NEW b \in Seq(Calls), NEW m \in 0 .. Len(b), NEW c
    PROVE  /\ s \o SubSeq(b, 1, m) \in Seq(Calls)
           /\ Len(s \o SubSeq(b, 1, m)) = Len(s) + m
           /\ Repeats(s \o SubSeq(b, 1, m), c) =
                Repeats(s, c) + Cardinality(Among(b, 1 .. m, c))
<1> DEFINE n == Len(s)
           p == SubSeq(b, 1, m)
           t == s \o p
           A == Among(s, 1 .. n, c)
           B == Among(b, 1 .. m, c)
           C == Among(t, n + 1 .. n + m, c)
<1>1. n \in Nat /\ m \in Nat /\ p \in Seq(Calls) /\ Len(p) = m
      /\ \A i \in 1 .. m : p[i] = b[i]
  OBVIOUS
<1>2. t \in Seq(Calls) /\ Len(t) = n + m
  BY <1>1
<1>3. /\ \A i \in 1 .. n : t[i] = s[i]
      /\ \A i \in 1 .. m : t[n + i] = b[i]
  BY <1>1
<1> HIDE DEF n, p, t
<1>4. Cardinality(Among(t, 1 .. n + m, c)) =
        Cardinality(Among(t, 1 .. n, c)) + Cardinality(C)
  BY <1>1, SplitCount
<1>5. Among(t, 1 .. n, c) = A
  BY <1>3 DEF Among
<1>6. Cardinality(C) = Cardinality(B)
  <2> DEFINE f == [i \in B |-> n + i]
  <2>1. f \in Bijection(B, C)
    <3>1. f \in [B -> C]
      BY <1>1, <1>3 DEF Among
    <3>2. \A i, j \in B : f[i] = f[j] => i = j
      BY <1>1 DEF Among
    <3>3. \A k \in C : \E i \in B : f[i] = k
      <4> SUFFICES ASSUME NEW k \in C
                   PROVE  \E i \in B : f[i] = k
        OBVIOUS
      <4>1. k \in n + 1 .. n + m /\ t[k] = c
        BY DEF Among
      <4>2. k - n \in 1 .. m /\ n + (k - n) = k
        BY <1>1, <4>1
      <4>3. k - n \in B
        BY <1>3, <4>1, <4>2 DEF Among
      <4> QED
        BY <4>2, <4>3
    <3> HIDE DEF f, B, C
    <3> QED
      BY <3>1, <3>2, <3>3, Fun_IsBij
  <2>2. ExistsBijection(B, C)
    BY <2>1 DEF ExistsBijection
  <2>3. IsFiniteSet(B)
    BY <1>1, SomeIndices
  <2> HIDE DEF B, C, f
  <2> QED
    BY <2>2, <2>3, FS_Bijection
<1>7. Repeats(t, c) = Cardinality(Among(t, 1 .. n + m, c)) /\ Repeats(s, c) = Cardinality(A)
  BY <1>2, RepeatsCount DEF n
<1> QED
  BY <1>2, <1>4, <1>5, <1>6, <1>7 DEF t, p, n

-----------------------------------------------------------------------------
(* The invariant.                                                          *)

\* The batch handed over last still counts on its own: it is running, or its
\* workers were left behind by a throwing onError.
BatchOpen == at = "tools" \/ outcome = "onErrorThrew"

Unclaimed(c) == Cardinality(Among(toolCalls, nextIndex .. Len(toolCalls), c))

PoolOK ==
    /\ outcome = "pending" <=> at # "end"
    /\ nextIndex \in 1 .. Len(toolCalls) + 1
    /\ \A i \in DOMAIN results : results[i] = Queued <=> i >= nextIndex
    /\ \A i \in Settled : results[i].call = toolCalls[i]
    /\ pool = "resolved" => InCall = {} /\ nextIndex = Len(toolCalls) + 1
    /\ ~BatchOpen => InCall = {}

Accounts ==
    /\ toolCallsExecuted + (IF BatchOpen THEN Len(toolCalls) ELSE 0) <= MaxToolCalls
    /\ Len(started) = toolCallsExecuted + (IF BatchOpen THEN nextIndex - 1 ELSE 0)
    /\ \A c \in Calls :
        /\ signatureCounts[c] <= MaxRepeatedToolCalls
        /\ Repeats(started, c) + (IF BatchOpen THEN Unclaimed(c) ELSE 0) = signatureCounts[c]

HistoryOK ==
    /\ HistoryAnswersInOrder
    /\ at = "tools" => /\ history # <<>> /\ toolCalls # <<>>
                       /\ history[Len(history)] = Assistant(toolCalls)
    /\ at \in {"capabilities", "chat"} /\ history # <<>> =>
        history[Len(history)].role = "tool"

AgentInv == TypeOK /\ PoolOK /\ Accounts /\ HistoryOK

LEMMA BatchTypes ==
    ASSUME NEW b \in Batches
    PROVE  /\ b \in Seq(Calls) /\ DOMAIN b = 1 .. Len(b)
           /\ Len(b) \in 0 .. MaxBatch
<1>1. PICK n \in 0 .. MaxBatch : b \in [1 .. n -> Calls]
  BY DEF Batches
<1> QED
  BY <1>1

\* What the variables are, in the terms the proofs use.
LEMMA TypeFacts ==
    ASSUME TypeOK
    PROVE  /\ toolCalls \in Seq(Calls) /\ Len(toolCalls) \in Nat
           /\ DOMAIN toolCalls = 1 .. Len(toolCalls)
           /\ DOMAIN results = 1 .. Len(toolCalls)
           /\ nextIndex \in Nat /\ started \in Seq(Calls) /\ Len(started) \in Nat
<1>1. toolCalls \in Batches /\ DOMAIN results = DOMAIN toolCalls
      /\ nextIndex \in 1 .. MaxBatch + 1 /\ started \in Seq(Calls)
  BY DEF TypeOK
<1>2. toolCalls \in Seq(Calls) /\ DOMAIN toolCalls = 1 .. Len(toolCalls)
      /\ Len(toolCalls) \in Nat
  BY <1>1, BatchTypes
<1> QED
  BY <1>1, <1>2

LEMMA MarkersAreNoResults ==
    ASSUME NEW c \in Calls, NEW success
    PROVE  Result(c, success) \notin {Queued, Running} /\ Queued # Running
BY DEF Result, Queued, Running

LEMMA InitAgentInv == Init => AgentInv
<1> SUFFICES ASSUME Init
             PROVE  AgentInv
  OBVIOUS
<1> USE DEF Init, ToolsInit
<1>1. <<>> \in Batches
  <2>1. <<>> \in [1 .. 0 -> Calls] /\ 0 \in 0 .. MaxBatch
    OBVIOUS
  <2> QED
    BY <2>1 DEF Batches
<1>2. TypeOK
  <2>1. toolCalls \in Batches /\ DOMAIN results = DOMAIN toolCalls /\ DOMAIN results = {}
    BY <1>1
  <2>2. history \in Seq([role : {"assistant", "tool"}, calls : Batches \cup [{1} -> Calls]])
    OBVIOUS
  <2>3. signatureCounts \in [Calls -> Nat] /\ started \in Seq(Calls)
    OBVIOUS
  <2>4. \A i \in DOMAIN results :
          results[i] \in {Queued, Running} \cup [call : Calls, success : BOOLEAN]
    BY <2>1
  <2>5. nextIndex \in 1 .. MaxBatch + 1 /\ iteration \in 0 .. MaxIterations
    OBVIOUS
  <2>6. /\ pool = "idle" /\ aborted = FALSE /\ at = "capabilities"
        /\ toolCallsExecuted \in Nat /\ sendable = FALSE /\ outcome = "pending"
    OBVIOUS
  <2> HIDE DEF Init, ToolsInit
  <2> QED
    BY <2>1, <2>2, <2>3, <2>4, <2>5, <2>6 DEF TypeOK, Outcomes
<1>3. PoolOK
  BY DEF PoolOK, BatchOpen, InCall, Settled
<1>4. Accounts
  <2>1. \A c \in Calls : Repeats(<<>>, c) = 0
    <3> SUFFICES ASSUME NEW c \in Calls
                 PROVE  Repeats(<<>>, c) = 0
      OBVIOUS
    <3>1. {i \in DOMAIN <<>> : <<>>[i] = c} = {}
      OBVIOUS
    <3> QED
      BY <3>1, FS_EmptySet DEF Repeats
  <2> QED
    BY <2>1 DEF Accounts, BatchOpen
<1>5. HistoryOK
  BY DEF HistoryOK, HistoryAnswersInOrder
<1> QED
  BY <1>2, <1>3, <1>4, <1>5 DEF AgentInv

-----------------------------------------------------------------------------
(* The history.                                                            *)

Messages == [role : {"assistant", "tool"}, calls : Batches \cup [{1} -> Calls]]

Asks(m) == m.role = "assistant" /\ m.calls # <<>>

\* The request at p has its answers, and the next answer of the model behind.
AnsweredAt(h, p) ==
    LET k == Len(h[p].calls) IN
    /\ p + k <= Len(h)
    /\ \A i \in 1 .. k : h[p + i] = Tool(Result(h[p].calls[i], TRUE))
    /\ p + k < Len(h) => h[p + k + 1].role = "assistant"

LEMMA MessageTypes ==
    ASSUME NEW m \in Messages
    PROVE  /\ m.calls \in Seq(Calls) /\ Len(m.calls) \in Nat
           /\ DOMAIN m.calls = 1 .. Len(m.calls)
<1>1. CASE m.calls \in Batches
  BY <1>1, BatchTypes
<1>2. CASE m.calls \in [{1} -> Calls]
  <2>1. \A n \in Nat : \A f \in [1 .. n -> Calls] :
          f \in Seq(Calls) /\ Len(f) = n /\ DOMAIN f = 1 .. n
    OBVIOUS
  <2>2. 1 .. 1 = {1}
    OBVIOUS
  <2>3. m.calls \in [1 .. 1 -> Calls]
    BY <1>2, <2>2
  <2>4. \A f \in [1 .. 1 -> Calls] : f \in Seq(Calls) /\ Len(f) = 1 /\ DOMAIN f = 1 .. 1
    BY <2>1
  <2> QED
    BY <2>3, <2>4
<1> QED
  BY <1>1, <1>2 DEF Messages

LEMMA MessagesOfTheLoop ==
    /\ \A b \in Batches : Assistant(b) \in Messages
    /\ \A r : r.call \in Calls => Tool(r) \in Messages /\ ~Asks(Tool(r))
<1>1. \A b \in Batches : Assistant(b) \in Messages
  BY DEF Assistant, Messages
<1>2. ASSUME NEW r, r.call \in Calls
      PROVE  Tool(r) \in Messages /\ ~Asks(Tool(r))
  <2>1. <<r.call>> \in [{1} -> Calls]
    BY <1>2
  <2> QED
    BY <2>1 DEF Tool, Messages, Asks
<1> QED
  BY <1>1, <1>2

\* HistoryAnswersInOrder in the terms the proofs use.
AnswersInOrder(h) ==
    \A p \in 1 .. Len(h) : Asks(h[p]) => p = Len(h) \/ AnsweredAt(h, p)

LEMMA HistoryForm ==
    history \in Seq(Messages) => (HistoryAnswersInOrder <=> AnswersInOrder(history))
<1> SUFFICES ASSUME history \in Seq(Messages)
             PROVE  HistoryAnswersInOrder <=> AnswersInOrder(history)
  OBVIOUS
<1>1. DOMAIN history = 1 .. Len(history)
  OBVIOUS
<1>2. ASSUME NEW p \in 1 .. Len(history)
      PROVE  (LET asked == IF history[p].role = "assistant" THEN history[p].calls ELSE <<>>
                  end == p + Len(asked)
              IN  asked # <<>> =>
                    \/ p = Len(history)
                    \/ /\ end <= Len(history)
                       /\ \A i \in DOMAIN asked : history[p + i] = Tool(Result(asked[i], TRUE))
                       /\ end < Len(history) => history[end + 1].role = "assistant")
             <=> (Asks(history[p]) => p = Len(history) \/ AnsweredAt(history, p))
  <2>1. history[p] \in Messages
    OBVIOUS
  <2>2. DOMAIN history[p].calls = 1 .. Len(history[p].calls)
    BY <2>1, MessageTypes
  <2>3. CASE history[p].role = "assistant"
    BY <2>2, <2>3 DEF Asks, AnsweredAt
  <2>4. CASE history[p].role # "assistant"
    BY <2>4 DEF Asks
  <2> QED
    BY <2>3, <2>4
<1> QED
  BY <1>1, <1>2 DEF HistoryAnswersInOrder, AnswersInOrder

\* What follows a request and its answers may grow.
LEMMA StaysAnswered ==
    ASSUME NEW h \in Seq(Messages), NEW g \in Seq(Messages), Len(h) <= Len(g),
           \A i \in 1 .. Len(h) : g[i] = h[i],
           NEW p \in 1 .. Len(h), AnsweredAt(h, p),
           p + Len(h[p].calls) = Len(h) /\ Len(h) < Len(g) =>
               g[Len(h) + 1].role = "assistant"
    PROVE  AnsweredAt(g, p)
<1> DEFINE k == Len(h[p].calls)
           n == Len(h)
<1>1. /\ h[p] \in Messages /\ n \in Nat /\ Len(g) \in Nat /\ g[p] = h[p]
      /\ p \in Nat /\ p >= 1 /\ n <= Len(g)
  OBVIOUS
<1>2. k \in Nat
  BY <1>1, MessageTypes
<1>3. /\ p + k <= n
      /\ \A i \in 1 .. k : h[p + i] = Tool(Result(h[p].calls[i], TRUE))
      /\ p + k < n => h[p + k + 1].role = "assistant"
  BY DEF AnsweredAt
<1> HIDE DEF k, n
<1>4. \A i \in 1 .. k : g[p + i] = Tool(Result(h[p].calls[i], TRUE))
  <2> SUFFICES ASSUME NEW i \in 1 .. k
               PROVE  g[p + i] = h[p + i]
    BY <1>3
  <2>1. p + k <= n
    BY <1>3
  <2>2. p + i \in 1 .. n
    BY <1>1, <1>2, <2>1
  <2> QED
    BY <2>2 DEF n
<1>5. p + k < Len(g) => g[p + k + 1].role = "assistant"
  <2>1. CASE p + k < n
    <3>1. p + k + 1 \in 1 .. n
      BY <1>1, <1>2, <2>1 DEF n
    <3>2. g[p + k + 1] = h[p + k + 1]
      BY <3>1 DEF n
    <3> QED
      BY <1>3, <2>1, <3>2
  <2>2. CASE p + k = n
    BY <2>2 DEF n, k
  <2> QED
    BY <1>1, <1>2, <1>3, <2>1, <2>2 DEF n
<1>6. p + k <= Len(g)
  BY <1>1, <1>2, <1>3 DEF n
<1> QED
  BY <1>1, <1>4, <1>5, <1>6 DEF AnsweredAt, k

-----------------------------------------------------------------------------
(* What the steps that hand over no tool leave alone.                      *)

LEMMA HistoryKept ==
    ASSUME HistoryOK, UNCHANGED <<history, toolCalls>>, at' = at \/ at' = "end"
    PROVE  HistoryOK'
BY DEF HistoryOK, HistoryAnswersInOrder

LEMMA AccountsKept ==
    ASSUME Accounts, UNCHANGED <<toolVars, toolCallsExecuted, signatureCounts>>,
           BatchOpen' <=> BatchOpen
    PROVE  Accounts'
BY DEF Accounts, Unclaimed, toolVars, Repeats, Among

LEMMA PoolKept ==
    ASSUME PoolOK, UNCHANGED toolVars, BatchOpen' <=> BatchOpen,
           outcome' = "pending" <=> at' # "end"
    PROVE  PoolOK'
BY DEF PoolOK, toolVars, InCall, Settled

LEMMA NextIterationFacts ==
    ASSUME TypeOK, outcome = "pending", NextIteration
    PROVE  /\ iteration' \in 0 .. MaxIterations /\ sendable' \in BOOLEAN
           /\ outcome' \in Outcomes /\ outcome' # "onErrorThrew"
           /\ at' = "chat" \/ at' = "end"
           /\ outcome' = "pending" <=> at' # "end"
<1>1. iteration \in 0 .. MaxIterations /\ aborted \in BOOLEAN /\ sendable \in BOOLEAN
  BY DEF TypeOK
<1>2. CASE iteration < MaxIterations
  BY <1>1, <1>2 DEF NextIteration, Outcomes
<1>3. CASE ~(iteration < MaxIterations)
  BY <1>1, <1>3 DEF NextIteration, Ends, Outcomes
<1> QED
  BY <1>2, <1>3

LEMMA ModelCheckedInv == AgentInv /\ ModelChecked => AgentInv'
<1> SUFFICES ASSUME AgentInv, ModelChecked
             PROVE  AgentInv'
  OBVIOUS
<1>1. /\ TypeOK /\ PoolOK /\ Accounts /\ HistoryOK
      /\ at = "capabilities"
      /\ UNCHANGED <<toolVars, history, toolCallsExecuted, signatureCounts>>
  BY DEF AgentInv, ModelChecked
<1>2. outcome = "pending"
  BY <1>1 DEF PoolOK
<1>3. /\ iteration' \in 0 .. MaxIterations /\ sendable' \in BOOLEAN
      /\ outcome' \in Outcomes /\ outcome' # "onErrorThrew"
      /\ at' = "chat" \/ at' = "end"
      /\ outcome' = "pending" <=> at' # "end"
  <2>1. CASE NextIteration
    BY <1>1, <1>2, <2>1, NextIterationFacts
  <2>2. CASE \E how \in {"incompatible", "failed"} :
               Ends(how) /\ UNCHANGED <<iteration, sendable>>
    BY <1>1, <2>2 DEF Ends, TypeOK, Outcomes
  <2> QED
    BY <2>1, <2>2 DEF ModelChecked
<1>4. BatchOpen' <=> BatchOpen
  BY <1>1, <1>2, <1>3 DEF BatchOpen
<1>5. TypeOK'
  BY <1>1, <1>3 DEF TypeOK, toolVars
<1>6. PoolOK' /\ Accounts'
  BY <1>1, <1>3, <1>4, PoolKept, AccountsKept
<1>7. HistoryOK'
  BY <1>1, <1>3 DEF HistoryOK, HistoryAnswersInOrder, toolVars
<1> QED
  BY <1>5, <1>6, <1>7 DEF AgentInv

\* chat() fails, or onError has thrown.
LEMMA RejectionInv == AgentInv /\ (ChatFails \/ ToolsReject) => AgentInv'
<1> SUFFICES ASSUME AgentInv, ChatFails \/ ToolsReject
             PROVE  AgentInv'
  OBVIOUS
<1>1. /\ TypeOK /\ PoolOK /\ Accounts /\ HistoryOK
      /\ at \in {"chat", "tools"} /\ at' = "end"
      /\ outcome' = IF at = "chat" THEN "failed" ELSE "onErrorThrew"
      /\ UNCHANGED <<toolVars, iteration, history, toolCallsExecuted, signatureCounts, sendable>>
  BY DEF AgentInv, ChatFails, ToolsReject, Ends
<1>2. outcome = "pending"
  BY <1>1 DEF PoolOK
<1>3. BatchOpen' <=> BatchOpen
  BY <1>1, <1>2 DEF BatchOpen
<1>4. TypeOK'
  BY <1>1 DEF TypeOK, toolVars, Outcomes
<1>5. PoolOK' /\ Accounts' /\ HistoryOK'
  BY <1>1, <1>3, PoolKept, AccountsKept, HistoryKept DEF toolVars
<1> QED
  BY <1>4, <1>5 DEF AgentInv

LEMMA AbortInv == AgentInv /\ CallerAborts /\ UNCHANGED loopVars => AgentInv'
<1> SUFFICES ASSUME AgentInv, CallerAborts, UNCHANGED loopVars
             PROVE  AgentInv'
  OBVIOUS
<1>1. aborted' = TRUE /\ UNCHANGED <<toolCalls, results, nextIndex, pool, started>>
  BY DEF CallerAborts
<1>2. TypeOK'
  BY <1>1 DEF AgentInv, TypeOK, loopVars
<1>3. PoolOK'
  BY <1>1 DEF AgentInv, PoolOK, loopVars, BatchOpen, InCall, Settled
<1>4. Accounts'
  BY <1>1 DEF AgentInv, Accounts, loopVars, BatchOpen, Unclaimed, Repeats, Among
<1>5. HistoryOK'
  BY <1>1, HistoryKept DEF AgentInv, loopVars
<1> QED
  BY <1>2, <1>3, <1>4, <1>5 DEF AgentInv

-----------------------------------------------------------------------------
(* A call ends and its worker claims the next one.                         *)

LEMMA CallInFlight ==
    ASSUME AgentInv, NEW i \in InCall
    PROVE  /\ i \in DOMAIN results /\ i < nextIndex /\ toolCalls[i] \in Calls
           /\ pool # "resolved" /\ BatchOpen
<1>1. i \in DOMAIN results /\ results[i] = Running
  BY DEF InCall
<1>2. results[i] # Queued
  BY <1>1, MarkersAreNoResults, CallsAssumption DEF Queued, Running
<1>3. i \in 1 .. Len(toolCalls) /\ toolCalls \in Seq(Calls) /\ nextIndex \in Nat
  BY <1>1, TypeFacts DEF AgentInv
<1> QED
  BY <1>1, <1>2, <1>3 DEF AgentInv, PoolOK

\* The worker of call i is done with it and takes no other.
LEMMA LastCallInv ==
    ASSUME AgentInv, NEW i \in InCall, NEW success \in BOOLEAN,
           results' = Stores(i, success), UNCHANGED loopVars,
           UNCHANGED <<toolCalls, nextIndex, started, aborted>>,
           \/ pool' = "rejected"
           \/ /\ nextIndex > Len(toolCalls)
              /\ pool' = IF pool = "pending" /\ \A j \in DOMAIN results : results'[j] \notin {Queued, Running}
                         THEN "resolved" ELSE pool
    PROVE  AgentInv'
<1> USE DEF loopVars
<1>1. TypeOK /\ PoolOK /\ Accounts /\ HistoryOK
  BY DEF AgentInv
<1>2. /\ i \in DOMAIN results /\ i < nextIndex /\ toolCalls[i] \in Calls
      /\ pool # "resolved" /\ BatchOpen
  BY CallInFlight
<1>3. DOMAIN results = 1 .. Len(toolCalls) /\ nextIndex \in Nat /\ Len(toolCalls) \in Nat
  BY <1>1, TypeFacts
<1>4. results' = [results EXCEPT ![i] = Result(toolCalls[i], success)]
  BY DEF Stores
<1>5. /\ DOMAIN results' = DOMAIN results
      /\ results'[i] = Result(toolCalls[i], success)
      /\ \A j \in DOMAIN results : j # i => results'[j] = results[j]
  BY <1>2, <1>4
<1>6. Result(toolCalls[i], success) \in [call : Calls, success : BOOLEAN]
  BY <1>2 DEF Result
<1>7. Result(toolCalls[i], success) \notin {Queued, Running}
  BY <1>2, MarkersAreNoResults
<1>8. TypeOK'
  <2>1. \A j \in DOMAIN results' :
          results'[j] \in {Queued, Running} \cup [call : Calls, success : BOOLEAN]
    <3> SUFFICES ASSUME NEW j \in DOMAIN results'
                 PROVE  results'[j] \in {Queued, Running} \cup [call : Calls, success : BOOLEAN]
      OBVIOUS
    <3>1. results[j] \in {Queued, Running} \cup [call : Calls, success : BOOLEAN]
      BY <1>1, <1>5 DEF TypeOK
    <3> QED
      BY <1>5, <1>6, <3>1
  <2>2. pool' \in {"idle", "pending", "resolved", "rejected"}
    BY <1>1 DEF TypeOK
  <2> QED
    BY <1>1, <1>5, <2>1, <2>2 DEF TypeOK
<1>9. PoolOK'
  <2>1. \A j \in DOMAIN results' : results'[j] = Queued <=> j >= nextIndex'
    BY <1>1, <1>2, <1>3, <1>5, <1>7 DEF PoolOK
  <2>2. \A j \in Settled' : results'[j].call = toolCalls'[j]
    <3> SUFFICES ASSUME NEW j \in Settled'
                 PROVE  results'[j].call = toolCalls[j]
      OBVIOUS
    <3>1. j \in DOMAIN results /\ results'[j] \notin {Queued, Running}
      BY <1>5 DEF Settled
    <3>2. CASE j = i
      BY <1>5, <3>2 DEF Result
    <3>3. CASE j # i
      <4>1. results'[j] = results[j]
        BY <1>5, <3>1, <3>3
      <4>2. j \in Settled
        BY <3>1, <4>1 DEF Settled
      <4> QED
        BY <1>1, <4>1, <4>2 DEF PoolOK
    <3> QED
      BY <3>2, <3>3
  <2>3. pool' = "resolved" => InCall' = {} /\ nextIndex' = Len(toolCalls') + 1
    <3> SUFFICES ASSUME pool' = "resolved"
                 PROVE  InCall' = {} /\ nextIndex = Len(toolCalls) + 1
      OBVIOUS
    <3>1. nextIndex > Len(toolCalls)
          /\ \A j \in DOMAIN results : results'[j] \notin {Queued, Running}
      BY <1>2
    <3>2. nextIndex \in 1 .. Len(toolCalls) + 1
      BY <1>1 DEF PoolOK
    <3> QED
      BY <1>3, <1>5, <3>1, <3>2 DEF InCall
  <2>4. nextIndex' \in 1 .. Len(toolCalls') + 1 /\ (outcome' = "pending" <=> at' # "end")
    BY <1>1 DEF PoolOK
  <2>5. BatchOpen'
    BY <1>2 DEF BatchOpen
  <2> QED
    BY <2>1, <2>2, <2>3, <2>4, <2>5 DEF PoolOK
<1>10. Accounts'
  BY <1>1 DEF Accounts, BatchOpen, Unclaimed, Repeats, Among
<1>11. HistoryOK'
  BY <1>1, HistoryKept
<1> QED
  BY <1>8, <1>9, <1>10, <1>11 DEF AgentInv
\* The worker of call i hands over the call at nextIndex.
LEMMA NextCallInv ==
    ASSUME AgentInv, NEW i \in InCall, NEW success \in BOOLEAN,
           nextIndex <= Len(toolCalls),
           results' = [Stores(i, success) EXCEPT ![nextIndex] = Running],
           started' = Append(started, toolCalls[nextIndex]),
           nextIndex' = nextIndex + 1,
           pool' = IF pool = "pending" /\ \A j \in DOMAIN results : results'[j] \notin {Queued, Running}
                   THEN "resolved" ELSE pool,
           UNCHANGED loopVars, UNCHANGED <<toolCalls, aborted>>
    PROVE  AgentInv'
<1> USE DEF loopVars
<1>1. TypeOK /\ PoolOK /\ Accounts /\ HistoryOK
  BY DEF AgentInv
<1>2. /\ i \in DOMAIN results /\ i < nextIndex /\ toolCalls[i] \in Calls
      /\ pool # "resolved" /\ BatchOpen
  BY CallInFlight
<1>3. /\ DOMAIN results = 1 .. Len(toolCalls) /\ nextIndex \in Nat /\ Len(toolCalls) \in Nat
      /\ started \in Seq(Calls) /\ toolCalls \in Seq(Calls)
  BY <1>1, TypeFacts
<1>4. nextIndex \in 1 .. Len(toolCalls) /\ nextIndex # i
  BY <1>1, <1>2, <1>3 DEF PoolOK
<1>5. toolCalls[nextIndex] \in Calls
  BY <1>3, <1>4
<1>6. /\ DOMAIN results' = DOMAIN results
      /\ results'[i] = Result(toolCalls[i], success)
      /\ results'[nextIndex] = Running
      /\ \A j \in DOMAIN results : j \notin {i, nextIndex} => results'[j] = results[j]
  BY <1>2, <1>3, <1>4 DEF Stores
<1>7. Result(toolCalls[i], success) \in [call : Calls, success : BOOLEAN]
  BY <1>2 DEF Result
<1>8. Result(toolCalls[i], success) \notin {Queued, Running} /\ Queued # Running
  BY <1>2, MarkersAreNoResults
<1>9. pool' = pool
  BY <1>3, <1>4, <1>6
<1>10. TypeOK'
  <2>1. \A j \in DOMAIN results' :
          results'[j] \in {Queued, Running} \cup [call : Calls, success : BOOLEAN]
    <3> SUFFICES ASSUME NEW j \in DOMAIN results'
                 PROVE  results'[j] \in {Queued, Running} \cup [call : Calls, success : BOOLEAN]
      OBVIOUS
    <3>1. results[j] \in {Queued, Running} \cup [call : Calls, success : BOOLEAN]
      BY <1>1, <1>6 DEF TypeOK
    <3> QED
      BY <1>6, <1>7, <3>1
  <2>2. started' \in Seq(Calls)
    BY <1>3, <1>5
  <2>3. nextIndex' \in 1 .. MaxBatch + 1
    <3>1. Len(toolCalls) \in 0 .. MaxBatch
      BY <1>1, BatchTypes DEF TypeOK
    <3> QED
      BY <1>3, <1>4, <3>1
  <2> QED
    BY <1>1, <1>6, <1>9, <2>1, <2>2, <2>3 DEF TypeOK
<1>11. PoolOK'
  <2>1. \A j \in DOMAIN results' : results'[j] = Queued <=> j >= nextIndex'
    <3> SUFFICES ASSUME NEW j \in DOMAIN results
                 PROVE  results'[j] = Queued <=> j >= nextIndex + 1
      BY <1>6
    <3>1. j \in 1 .. Len(toolCalls)
      BY <1>3
    <3>2. CASE j = i
      BY <1>2, <1>3, <1>6, <1>8, <3>1, <3>2
    <3>3. CASE j = nextIndex
      BY <1>3, <1>6, <1>8, <3>3
    <3>4. CASE j \notin {i, nextIndex}
      <4>1. results[j] = Queued <=> j >= nextIndex
        BY <1>1 DEF PoolOK
      <4> QED
        BY <1>3, <1>6, <3>1, <3>4, <4>1
    <3> QED
      BY <3>2, <3>3, <3>4
  <2>2. \A j \in Settled' : results'[j].call = toolCalls'[j]
    <3> SUFFICES ASSUME NEW j \in Settled'
                 PROVE  results'[j].call = toolCalls[j]
      OBVIOUS
    <3>1. j \in DOMAIN results /\ results'[j] \notin {Queued, Running}
      BY <1>6 DEF Settled
    <3>2. CASE j = i
      BY <1>6, <3>2 DEF Result
    <3>3. CASE j # i
      <4>1. results'[j] = results[j]
        BY <1>6, <3>1, <3>3
      <4>2. j \in Settled
        BY <3>1, <4>1 DEF Settled
      <4> QED
        BY <1>1, <4>1, <4>2 DEF PoolOK
    <3> QED
      BY <3>2, <3>3
  <2>3. nextIndex' \in 1 .. Len(toolCalls') + 1 /\ (outcome' = "pending" <=> at' # "end")
    BY <1>1, <1>3, <1>4 DEF PoolOK
  <2>4. BatchOpen' /\ pool' # "resolved"
    BY <1>2, <1>9 DEF BatchOpen
  <2> QED
    BY <2>1, <2>2, <2>3, <2>4 DEF PoolOK
<1>12. Accounts'
  <2>1. BatchOpen'
    BY <1>2 DEF BatchOpen
  <2>2. Len(started') = Len(started) + 1
    BY <1>3, <1>5
  <2>3. ASSUME NEW c \in Calls
        PROVE  Repeats(started', c) + Unclaimed(c)' = Repeats(started, c) + Unclaimed(c)
    <3>1. Repeats(started', c) = Repeats(started, c) + (IF toolCalls[nextIndex] = c THEN 1 ELSE 0)
      BY <1>3, <1>5, AppendRepeats
    <3>2. Unclaimed(c) =
            Cardinality(Among(toolCalls, nextIndex + 1 .. Len(toolCalls), c))
              + (IF toolCalls[nextIndex] = c THEN 1 ELSE 0)
      BY <1>3, <1>4, FirstCount DEF Unclaimed
    <3>3. Unclaimed(c)' = Cardinality(Among(toolCalls, nextIndex + 1 .. Len(toolCalls), c))
      BY DEF Unclaimed
    <3>4. Cardinality(Among(toolCalls, nextIndex + 1 .. Len(toolCalls), c)) \in Nat
      BY <1>3, SomeIndices
    <3>5. Repeats(started, c) \in Nat
      BY <1>3, RepeatsCount
    <3> QED
      BY <3>1, <3>2, <3>3, <3>4, <3>5
  <2>4. Len(started') = toolCallsExecuted' + (nextIndex' - 1)
    <3>1. Len(started) = toolCallsExecuted + (nextIndex - 1) /\ toolCallsExecuted \in Nat
      BY <1>1, <1>2 DEF Accounts, TypeOK
    <3> QED
      BY <1>3, <2>2, <3>1
  <2>5. toolCallsExecuted' + Len(toolCalls') <= MaxToolCalls
    BY <1>1, <1>2 DEF Accounts
  <2>6. ASSUME NEW c \in Calls
        PROVE  /\ signatureCounts'[c] <= MaxRepeatedToolCalls
               /\ Repeats(started', c) + Unclaimed(c)' = signatureCounts'[c]
    BY <1>1, <1>2, <2>3 DEF Accounts
  <2> QED
    BY <2>1, <2>4, <2>5, <2>6 DEF Accounts
<1>13. HistoryOK'
  BY <1>1, HistoryKept
<1> QED
  BY <1>10, <1>11, <1>12, <1>13 DEF AgentInv

LEMMA ToolStepInv ==
    AgentInv /\ (\E i \in 1 .. MaxBatch : ToolStep(i) /\ UNCHANGED loopVars) => AgentInv'
<1> SUFFICES ASSUME AgentInv, NEW i \in 1 .. MaxBatch, ToolStep(i), UNCHANGED loopVars
             PROVE  AgentInv'
  OBVIOUS
<1>1. CASE OnErrorThrows(i)
  BY <1>1, LastCallInv DEF OnErrorThrows
<1>2. ASSUME NEW success \in BOOLEAN, CallEnds(i, success)
      PROVE  AgentInv'
  <2>1. CASE nextIndex <= Len(toolCalls)
    BY <1>2, <2>1, NextCallInv DEF CallEnds, Claims
  <2>2. CASE ~(nextIndex <= Len(toolCalls))
    <3>1. nextIndex > Len(toolCalls)
      BY <2>2, TypeFacts DEF AgentInv
    <3> QED
      BY <1>2, <2>2, <3>1, LastCallInv DEF CallEnds, Claims
  <2> QED
    BY <2>1, <2>2
<1> QED
  BY <1>1, <1>2 DEF ToolStep

-----------------------------------------------------------------------------
(* The model answers.                                                      *)

LEMMA AnswerHistory ==
    ASSUME AgentInv, NEW batch \in Batches, ChatAnswers(batch)
    PROVE  /\ history' \in Seq(Messages) /\ HistoryAnswersInOrder'
           /\ history' # <<>> /\ history'[Len(history')] = Assistant(batch)
<1> DEFINE h == history
           g == Append(history, Assistant(batch))
<1>1. at = "chat" /\ history' = g
  BY DEF ChatAnswers
<1>2. h \in Seq(Messages) /\ HistoryOK
  BY DEF AgentInv, TypeOK, Messages
<1>3. AnswersInOrder(h)
  BY <1>2, HistoryForm DEF HistoryOK
<1>4. /\ g \in Seq(Messages) /\ Len(g) = Len(h) + 1 /\ Len(h) \in Nat
      /\ g[Len(h) + 1] = Assistant(batch)
      /\ \A i \in 1 .. Len(h) : g[i] = h[i]
  BY <1>2, MessagesOfTheLoop
<1>5. Len(h) > 0 => h[Len(h)].role = "tool"
  BY <1>1, <1>2 DEF HistoryOK
<1> HIDE DEF h, g
<1>6. AnswersInOrder(g)
  <2> SUFFICES ASSUME NEW p \in 1 .. Len(g), Asks(g[p]), p # Len(g)
               PROVE  AnsweredAt(g, p)
    BY DEF AnswersInOrder
  <2>1. p \in 1 .. Len(h) /\ g[p] = h[p]
    BY <1>4
  <2>2. p # Len(h)
    BY <1>5, <2>1 DEF Asks
  <2>3. AnsweredAt(h, p)
    BY <1>3, <2>1, <2>2 DEF AnswersInOrder
  <2>4. g[Len(h) + 1].role = "assistant"
    BY <1>4 DEF Assistant
  <2>5. Len(h) <= Len(g)
    BY <1>4
  <2> QED
    BY <1>2, <1>4, <2>1, <2>3, <2>4, <2>5, StaysAnswered
<1>7. (history \in Seq(Messages) => (HistoryAnswersInOrder <=> AnswersInOrder(history)))'
  BY HistoryForm, PTL
<1> QED
  BY <1>1, <1>4, <1>6, <1>7 DEF g

\* The batch passes the budgets and its first calls are handed over.
LEMMA AcceptedBatchInv ==
    ASSUME AgentInv, NEW batch \in Batches, ChatAnswers(batch),
           batch # <<>>, ~OverBudget(batch), ~Loops(batch),
           signatureCounts' = [c \in Calls |-> signatureCounts[c] + Repeats(batch, c)],
           ExecuteToolCalls(batch), at' = "tools", UNCHANGED <<aborted, outcome>>
    PROVE  AgentInv'
<1> DEFINE n == Len(batch)
           m == FirstClaims(n)
<1>1. /\ TypeOK /\ PoolOK /\ Accounts /\ at = "chat"
      /\ UNCHANGED <<iteration, toolCallsExecuted, sendable>>
  BY DEF AgentInv, ChatAnswers
<1>2. outcome = "pending" /\ ~BatchOpen
  BY <1>1 DEF PoolOK, BatchOpen
<1>3. batch \in Seq(Calls) /\ DOMAIN batch = 1 .. n /\ n \in 0 .. MaxBatch /\ n > 0
  BY BatchTypes
<1>4. m \in 1 .. n
  BY <1>3, MaxConcurrencyAssumption DEF FirstClaims
<1>5. /\ toolCalls' = batch
      /\ results' = [i \in 1 .. n |-> IF i <= m THEN Running ELSE Queued]
      /\ nextIndex' = m + 1 /\ pool' = "pending"
      /\ started' = started \o SubSeq(batch, 1, m)
  BY <1>3 DEF ExecuteToolCalls
<1> HIDE DEF n, m
<1>6. Queued # Running
  BY DEF Queued, Running
<1>7. started \in Seq(Calls) /\ toolCallsExecuted \in Nat /\ signatureCounts \in [Calls -> Nat]
  BY <1>1 DEF TypeOK
<1>8. started' \in Seq(Calls) /\ Len(started') = Len(started) + m
  BY <1>3, <1>4, <1>5, <1>7, PrefixRepeats DEF n
<1>9. \A c \in Calls : Repeats(batch, c) \in Nat
  BY <1>3, RepeatsCount
<1>10. TypeOK'
  <2>1. \A i \in DOMAIN results' :
          results'[i] \in {Queued, Running} \cup [call : Calls, success : BOOLEAN]
    BY <1>5
  <2>2. nextIndex' \in 1 .. MaxBatch + 1
    BY <1>3, <1>4, <1>5
  <2>3. signatureCounts' \in [Calls -> Nat]
    BY <1>7, <1>9
  <2>4. DOMAIN results' = DOMAIN toolCalls' /\ toolCalls' \in Batches
    BY <1>3, <1>5
  <2>5. history' \in Seq([role : {"assistant", "tool"}, calls : Batches \cup [{1} -> Calls]])
    BY AnswerHistory DEF Messages
  <2>6. pool' \in {"idle", "pending", "resolved", "rejected"}
    BY <1>5
  <2> QED
    BY <1>1, <1>8, <2>1, <2>2, <2>3, <2>4, <2>5, <2>6 DEF TypeOK
<1>11. PoolOK'
  <2>1. \A i \in DOMAIN results' : results'[i] = Queued <=> i >= nextIndex'
    BY <1>3, <1>4, <1>5, <1>6
  <2>2. Settled' = {}
    BY <1>5 DEF Settled
  <2>3. nextIndex' \in 1 .. Len(toolCalls') + 1
    BY <1>3, <1>4, <1>5 DEF n
  <2>4. BatchOpen' /\ pool' # "resolved" /\ (outcome' = "pending" <=> at' # "end")
    BY <1>2, <1>5 DEF BatchOpen
  <2> QED
    BY <2>1, <2>2, <2>3, <2>4 DEF PoolOK
<1>12. Accounts'
  <2>1. BatchOpen'
    BY DEF BatchOpen
  <2>2. toolCallsExecuted' + Len(toolCalls') <= MaxToolCalls
    BY <1>1, <1>3, <1>5, <1>7 DEF OverBudget, n
  <2>3. Len(started') = toolCallsExecuted' + (nextIndex' - 1)
    <3>1. Len(started) = toolCallsExecuted
      BY <1>1, <1>2, <1>7 DEF Accounts
    <3> QED
      BY <1>1, <1>3, <1>4, <1>5, <1>7, <1>8, <3>1
  <2>4. ASSUME NEW c \in Calls
        PROVE  /\ signatureCounts'[c] <= MaxRepeatedToolCalls
               /\ Repeats(started', c) + Unclaimed(c)' = signatureCounts'[c]
    <3>1. /\ signatureCounts[c] <= MaxRepeatedToolCalls
          /\ Repeats(started, c) + 0 = signatureCounts[c]
      BY <1>1, <1>2 DEF Accounts
    <3>2. signatureCounts'[c] = signatureCounts[c] + Repeats(batch, c)
      OBVIOUS
    <3>3. Repeats(started', c) = Repeats(started, c) + Cardinality(Among(batch, 1 .. m, c))
      BY <1>3, <1>4, <1>5, <1>7, PrefixRepeats DEF n
    <3>4. Unclaimed(c)' = Cardinality(Among(batch, m + 1 .. n, c))
      BY <1>5 DEF Unclaimed, n
    <3>5. Repeats(batch, c) =
            Cardinality(Among(batch, 1 .. m, c)) + Cardinality(Among(batch, m + 1 .. n, c))
      <4>1. Repeats(batch, c) = Cardinality(Among(batch, 1 .. n, c))
        BY <1>3, RepeatsCount DEF n
      <4>2. m \in Nat /\ n \in Nat /\ m <= n
        BY <1>3, <1>4
      <4> QED
        BY <4>1, <4>2, SplitCount
    <3>6. /\ Cardinality(Among(batch, 1 .. m, c)) \in Nat
          /\ Cardinality(Among(batch, m + 1 .. n, c)) \in Nat
      BY <1>3, <1>4, SomeIndices
    <3>7. Repeats(started, c) \in Nat /\ Repeats(batch, c) \in Nat /\ signatureCounts[c] \in Nat
      BY <1>7, <1>9, RepeatsCount
    <3>8. Repeats(batch, c) > 0 => signatureCounts[c] + Repeats(batch, c) <= MaxRepeatedToolCalls
      BY <3>7, BudgetsAssumption DEF Loops
    <3>9. signatureCounts'[c] <= MaxRepeatedToolCalls
      BY <3>1, <3>2, <3>7, <3>8, BudgetsAssumption
    <3>10. Repeats(started', c) + Unclaimed(c)' = signatureCounts'[c]
      BY <3>1, <3>2, <3>3, <3>4, <3>5, <3>6, <3>7
    <3> QED
      BY <3>9, <3>10
  <2> QED
    BY <2>1, <2>2, <2>3, <2>4 DEF Accounts
<1>13. HistoryOK'
  BY <1>5, AnswerHistory DEF HistoryOK
<1> QED
  BY <1>10, <1>11, <1>12, <1>13 DEF AgentInv

LEMMA ChatAnswersInv ==
    AgentInv /\ (\E batch \in Batches : ChatAnswers(batch)) => AgentInv'
<1> SUFFICES ASSUME AgentInv, NEW batch \in Batches, ChatAnswers(batch)
             PROVE  AgentInv'
  OBVIOUS
<1>1. ASSUME NEW how \in {"answered", "maxToolCalls", "toolLoop"},
             Ends(how), UNCHANGED <<toolVars, signatureCounts>>
      PROVE  AgentInv'
  <2>1. /\ TypeOK /\ PoolOK /\ Accounts /\ at = "chat"
        /\ UNCHANGED <<iteration, toolCallsExecuted, sendable>>
        /\ at' = "end" /\ outcome' = how
    BY <1>1 DEF AgentInv, ChatAnswers, Ends
  <2>2. outcome = "pending"
    BY <2>1 DEF PoolOK
  <2>3. BatchOpen' <=> BatchOpen
    BY <2>1, <2>2 DEF BatchOpen
  <2>4. TypeOK'
    BY <1>1, <2>1, AnswerHistory DEF TypeOK, toolVars, Outcomes, Messages
  <2>5. PoolOK' /\ Accounts'
    BY <1>1, <2>1, <2>3, PoolKept, AccountsKept
  <2>6. HistoryOK'
    BY <2>1, AnswerHistory DEF HistoryOK
  <2> QED
    BY <2>4, <2>5, <2>6 DEF AgentInv
<1> QED
  BY <1>1, AcceptedBatchInv DEF ChatAnswers

-----------------------------------------------------------------------------
(* The batch is over.                                                      *)

LEMMA ResolvedPool ==
    ASSUME AgentInv, at = "tools", pool = "resolved"
    PROVE  /\ InCall = {} /\ nextIndex = Len(toolCalls) + 1 /\ outcome = "pending"
           /\ \A i \in 1 .. Len(toolCalls) :
                /\ results[i].call = toolCalls[i] /\ results[i].call \in Calls
                /\ Tool(results[i]) = Tool(Result(toolCalls[i], TRUE))
<1>1. TypeOK /\ PoolOK
  BY DEF AgentInv
<1>2. InCall = {} /\ nextIndex = Len(toolCalls) + 1 /\ outcome = "pending"
  BY <1>1 DEF PoolOK
<1>3. /\ DOMAIN results = 1 .. Len(toolCalls) /\ toolCalls \in Seq(Calls)
      /\ Len(toolCalls) \in Nat
  BY <1>1, TypeFacts
<1>4. ASSUME NEW i \in 1 .. Len(toolCalls)
      PROVE  results[i].call = toolCalls[i]
  <2>1. results[i] # Running
    BY <1>2, <1>3 DEF InCall
  <2>2. results[i] # Queued
    BY <1>1, <1>2, <1>3 DEF PoolOK
  <2>3. i \in Settled
    BY <1>3, <2>1, <2>2 DEF Settled
  <2> QED
    BY <1>1, <2>3 DEF PoolOK
<1>5. \A i \in 1 .. Len(toolCalls) : toolCalls[i] \in Calls
  BY <1>3
<1> QED
  BY <1>2, <1>4, <1>5 DEF Tool, Result

LEMMA ReturnHistory ==
    ASSUME AgentInv, ToolsReturn
    PROVE  /\ history' \in Seq(Messages) /\ HistoryAnswersInOrder'
           /\ history' # <<>> /\ history'[Len(history')].role = "tool"
<1> DEFINE h == history
           k == Len(toolCalls)
           r == [i \in 1 .. k |-> Tool(results[i])]
           g == h \o r
           n == Len(h)
<1>1. /\ TypeOK /\ HistoryOK /\ at = "tools" /\ pool = "resolved"
  BY DEF AgentInv, ToolsReturn, PoolDone
<1>2. /\ DOMAIN results = 1 .. k /\ toolCalls \in Seq(Calls) /\ k \in Nat
  BY <1>1, TypeFacts
<1>3. history' = g
  BY <1>2 DEF ToolsReturn
<1>4. \A i \in 1 .. k : /\ Tool(results[i]) \in Messages /\ ~Asks(Tool(results[i]))
                        /\ Tool(results[i]).role = "tool"
                        /\ Tool(results[i]) = Tool(Result(toolCalls[i], TRUE))
  BY <1>1, ResolvedPool, MessagesOfTheLoop DEF Tool
<1>5. h \in Seq(Messages) /\ n \in Nat
  BY <1>1 DEF TypeOK, Messages
<1>6. h # <<>> /\ toolCalls # <<>> /\ h[n] = Assistant(toolCalls)
  BY <1>1 DEF HistoryOK
<1>7. n > 0 /\ k > 0
  BY <1>2, <1>5, <1>6
<1>8. r \in Seq(Messages) /\ Len(r) = k /\ \A i \in 1 .. k : r[i] = Tool(results[i])
  <2>1. r \in [1 .. k -> Messages]
    BY <1>4
  <2>2. r \in Seq(Messages)
    BY <1>2, <2>1
  <2> QED
    BY <1>2, <2>2
<1> HIDE DEF r
<1>9. /\ g \in Seq(Messages) /\ Len(g) = n + k
      /\ \A i \in 1 .. n : g[i] = h[i]
      /\ \A i \in 1 .. k : g[n + i] = Tool(results[i])
  BY <1>5, <1>8
<1> HIDE DEF h, g, n, k
<1>10. AnswersInOrder(h)
  BY <1>1, <1>5, HistoryForm DEF HistoryOK, h
<1>11. AnswersInOrder(g)
  <2> SUFFICES ASSUME NEW p \in 1 .. Len(g), Asks(g[p])
               PROVE  p = Len(g) \/ AnsweredAt(g, p)
    BY DEF AnswersInOrder
  <2>1. p \in Nat /\ p >= 1 /\ p <= n + k
    BY <1>2, <1>5, <1>9
  <2>2. p <= n
    <3> SUFFICES ASSUME p > n
                 PROVE  FALSE
      BY <1>5, <2>1
    <3>1. p - n \in 1 .. k /\ n + (p - n) = p
      BY <1>2, <1>5, <2>1
    <3>2. g[p] = Tool(results[p - n])
      BY <1>9, <3>1
    <3> QED
      BY <1>4, <3>1, <3>2
  <2>3. p \in 1 .. n /\ g[p] = h[p]
    BY <1>5, <1>9, <2>1, <2>2
  <2>4. CASE p = n
    <3>1. g[p].calls = toolCalls
      BY <1>6, <2>3, <2>4 DEF Assistant
    <3>2. \A i \in 1 .. k : g[p + i] = Tool(Result(toolCalls[i], TRUE))
      BY <1>4, <1>9, <2>4
    <3>3. p + k <= Len(g) /\ ~(p + k < Len(g))
      BY <1>2, <1>5, <1>9, <2>4
    <3> QED
      BY <3>1, <3>2, <3>3 DEF AnsweredAt, k
  <2>5. CASE p # n
    <3>1. AnsweredAt(h, p) /\ Asks(h[p])
      BY <1>10, <2>3, <2>5 DEF AnswersInOrder, n
    <3>2. h[p] \in Messages
      BY <1>5, <2>3 DEF n
    <3>3. Len(h[p].calls) \in Nat /\ Len(h[p].calls) > 0
      BY <3>1, <3>2, MessageTypes DEF Asks
    <3>4. p + Len(h[p].calls) # n
      <4> SUFFICES ASSUME p + Len(h[p].calls) = n
                   PROVE  FALSE
        OBVIOUS
      <4>1. PICK j \in 1 .. Len(h[p].calls) : j = Len(h[p].calls)
        BY <3>3
      <4>2. h[p + j] = Tool(Result(h[p].calls[j], TRUE))
        BY <3>1 DEF AnsweredAt
      <4>3. h[n].role = "tool"
        BY <4>1, <4>2 DEF Tool
      <4> QED
        BY <1>6, <4>3 DEF Assistant
    <3>5. Len(h) <= Len(g)
      BY <1>2, <1>5, <1>9 DEF n
    <3> QED
      BY <1>5, <1>9, <2>3, <3>1, <3>4, <3>5, StaysAnswered DEF n
  <2> QED
    BY <2>4, <2>5
<1>12. g # <<>> /\ g[Len(g)].role = "tool"
  <2>1. k \in 1 .. k
    BY <1>2, <1>7
  <2>2. g[n + k] = Tool(results[k])
    BY <1>9, <2>1
  <2>3. g[Len(g)].role = "tool"
    BY <1>4, <1>9, <2>1, <2>2
  <2>4. Len(g) # 0
    BY <1>2, <1>5, <1>7, <1>9
  <2> QED
    BY <1>9, <2>3, <2>4
<1>13. (history \in Seq(Messages) => (HistoryAnswersInOrder <=> AnswersInOrder(history)))'
  BY HistoryForm, PTL
<1> QED
  BY <1>3, <1>9, <1>11, <1>12, <1>13

LEMMA ToolsReturnInv == AgentInv /\ ToolsReturn => AgentInv'
<1> SUFFICES ASSUME AgentInv, ToolsReturn
             PROVE  AgentInv'
  OBVIOUS
<1>1. /\ TypeOK /\ PoolOK /\ Accounts /\ HistoryOK
      /\ at = "tools" /\ pool = "resolved"
      /\ toolCallsExecuted' = toolCallsExecuted + Len(toolCalls)
      /\ NextIteration
      /\ UNCHANGED <<toolVars, signatureCounts>>
  BY DEF AgentInv, ToolsReturn, PoolDone
<1>2. InCall = {} /\ nextIndex = Len(toolCalls) + 1 /\ outcome = "pending"
  BY <1>1, ResolvedPool
<1>3. /\ iteration' \in 0 .. MaxIterations /\ sendable' \in BOOLEAN
      /\ outcome' \in Outcomes /\ outcome' # "onErrorThrew"
      /\ at' = "chat" \/ at' = "end"
      /\ outcome' = "pending" <=> at' # "end"
  BY <1>1, <1>2, NextIterationFacts
<1>4. BatchOpen /\ ~BatchOpen'
  BY <1>1, <1>3 DEF BatchOpen
<1>5. /\ Len(toolCalls) \in Nat /\ toolCallsExecuted \in Nat /\ Len(started) \in Nat
      /\ started \in Seq(Calls)
  BY <1>1, TypeFacts DEF TypeOK
<1>6. TypeOK'
  <2>1. history' \in Seq([role : {"assistant", "tool"}, calls : Batches \cup [{1} -> Calls]])
    BY ReturnHistory DEF Messages
  <2>2. toolCallsExecuted' \in Nat
    BY <1>1, <1>5
  <2> QED
    BY <1>1, <1>3, <2>1, <2>2 DEF TypeOK, toolVars
<1>7. PoolOK'
  BY <1>1, <1>2, <1>3, <1>4 DEF PoolOK, toolVars, InCall, Settled
<1>8. Accounts'
  <2>1. toolCallsExecuted' <= MaxToolCalls
    BY <1>1, <1>4 DEF Accounts
  <2>2. Len(started) = toolCallsExecuted'
    BY <1>1, <1>2, <1>4, <1>5 DEF Accounts
  <2>3. ASSUME NEW c \in Calls
        PROVE  /\ signatureCounts[c] <= MaxRepeatedToolCalls
               /\ Repeats(started, c) = signatureCounts[c]
    <3>1. Among(toolCalls, nextIndex .. Len(toolCalls), c) = {}
      BY <1>2, <1>5 DEF Among
    <3>2. Unclaimed(c) = 0
      BY <3>1, FS_EmptySet DEF Unclaimed
    <3>3. Repeats(started, c) \in Nat
      BY <1>5, RepeatsCount
    <3> QED
      BY <1>1, <1>4, <3>2, <3>3 DEF Accounts
  <2>4. started' = started /\ signatureCounts' = signatureCounts
    BY <1>1 DEF toolVars
  <2>5. \A c \in Calls : Repeats(started', c) = Repeats(started, c)
    BY <2>4
  <2>6. \A c \in Calls : Repeats(started, c) \in Nat
    BY <1>5, RepeatsCount
  <2> QED
    BY <1>1, <1>4, <1>5, <2>1, <2>2, <2>3, <2>4, <2>5, <2>6 DEF Accounts
<1>9. HistoryOK'
  BY <1>3, ReturnHistory DEF HistoryOK
<1> QED
  BY <1>6, <1>7, <1>8, <1>9 DEF AgentInv

-----------------------------------------------------------------------------
(* The theorems.                                                           *)

LEMMA NextAgentInv == AgentInv /\ [Next]_vars => AgentInv'
<1> SUFFICES ASSUME AgentInv, [Next]_vars
             PROVE  AgentInv'
  OBVIOUS
<1>1. CASE ModelChecked
  BY <1>1, ModelCheckedInv
<1>2. CASE ChatFails \/ ToolsReject
  BY <1>2, RejectionInv
<1>3. CASE \E batch \in Batches : ChatAnswers(batch)
  BY <1>3, ChatAnswersInv
<1>4. CASE ToolsReturn
  BY <1>4, ToolsReturnInv
<1>5. CASE \E i \in 1 .. MaxBatch : ToolStep(i) /\ UNCHANGED loopVars
  BY <1>5, ToolStepInv
<1>6. CASE CallerAborts /\ outcome = "pending" /\ UNCHANGED loopVars
  BY <1>6, AbortInv
<1>7. CASE UNCHANGED vars
  <2>1. UNCHANGED <<toolVars, toolCallsExecuted, signatureCounts, outcome, at>>
        /\ UNCHANGED <<history, toolCalls, iteration, sendable>>
    BY <1>7 DEF vars, toolVars, loopVars
  <2>2. BatchOpen' <=> BatchOpen
    BY <2>1 DEF BatchOpen
  <2>3. outcome' = "pending" <=> at' # "end"
    BY <2>1 DEF AgentInv, PoolOK
  <2>4. TypeOK'
    BY <2>1 DEF AgentInv, TypeOK, toolVars
  <2> QED
    BY <2>1, <2>2, <2>3, <2>4, PoolKept, AccountsKept, HistoryKept DEF AgentInv
<1> QED
  BY <1>1, <1>2, <1>3, <1>4, <1>5, <1>6, <1>7 DEF Next

\* The invariant holds in every run of the agent.
THEOREM AgentInvariance == Spec => []AgentInv
<1>1. Init => AgentInv
  BY InitAgentInv
<1>2. AgentInv /\ [Next]_vars => AgentInv'
  BY NextAgentInv
<1> QED
  BY <1>1, <1>2, PTL DEF Spec

\* Every variable of the loop and of the pool has its type.
THEOREM AgentTypes == Spec => []TypeOK
<1>1. AgentInv => TypeOK
  BY DEF AgentInv
<1> QED
  BY <1>1, AgentInvariance, PTL

\* Whatever the model asks for and however the calls end, no more than
\* maxToolCalls calls reach the tools, and none more than
\* maxRepeatedToolCalls times.
THEOREM ToolBudgets == Spec => []BudgetsHold
<1>1. AgentInv => BudgetsHold
  <2> SUFFICES ASSUME AgentInv
               PROVE  BudgetsHold
    OBVIOUS
  <2>1. TypeOK /\ PoolOK /\ Accounts
    BY DEF AgentInv
  <2>2. /\ nextIndex \in 1 .. Len(toolCalls) + 1 /\ Len(toolCalls) \in Nat
        /\ started \in Seq(Calls) /\ Len(started) \in Nat /\ toolCallsExecuted \in Nat
        /\ signatureCounts \in [Calls -> Nat]
    BY <2>1, TypeFacts DEF PoolOK, TypeOK
  <2>3. Len(started) <= MaxToolCalls
    <3>1. CASE BatchOpen
      <4>1. /\ toolCallsExecuted + Len(toolCalls) <= MaxToolCalls
            /\ Len(started) = toolCallsExecuted + (nextIndex - 1)
        BY <2>1, <3>1 DEF Accounts
      <4> QED
        BY <2>2, <4>1, BudgetsAssumption
    <3>2. CASE ~BatchOpen
      <4>1. /\ toolCallsExecuted + 0 <= MaxToolCalls
            /\ Len(started) = toolCallsExecuted + 0
        BY <2>1, <3>2 DEF Accounts
      <4> QED
        BY <2>2, <4>1, BudgetsAssumption
    <3> QED
      BY <3>1, <3>2
  <2>4. ASSUME NEW c \in Calls
        PROVE  Repeats(started, c) <= MaxRepeatedToolCalls
    <3>1. Unclaimed(c) \in Nat
      BY <2>2, SomeIndices DEF Unclaimed
    <3>2. Repeats(started, c) \in Nat /\ signatureCounts[c] \in Nat
      BY <2>2, RepeatsCount
    <3>3. /\ signatureCounts[c] <= MaxRepeatedToolCalls
          /\ Repeats(started, c) + (IF BatchOpen THEN Unclaimed(c) ELSE 0) = signatureCounts[c]
      BY <2>1 DEF Accounts
    <3> QED
      BY <3>1, <3>2, <3>3, BudgetsAssumption
  <2> QED
    BY <2>3, <2>4 DEF BudgetsHold
<1> QED
  BY <1>1, AgentInvariance, PTL

\* The results stand behind the message that asked for them, in the order of
\* its calls, whatever order the workers finished in.
THEOREM ResultsInOrder == Spec => []HistoryAnswersInOrder
<1>1. AgentInv => HistoryAnswersInOrder
  BY DEF AgentInv, HistoryOK
<1> QED
  BY <1>1, AgentInvariance, PTL

\* A run that has settled, other than by a throwing onError, has no worker
\* left that could hand over another call.
THEOREM SettledRunIsQuiet == Spec => SettledRunStartsNoTool
<1>1. AgentInv /\ [Next]_vars
        => [outcome \notin {"pending", "onErrorThrew"} => started' = started]_vars
  <2> SUFFICES ASSUME AgentInv, Next, outcome \notin {"pending", "onErrorThrew"}
               PROVE  started' = started
    BY DEF vars, toolVars
  <2>1. at = "end" /\ InCall = {}
    BY DEF AgentInv, PoolOK, BatchOpen
  <2> QED
    BY <2>1 DEF Next, ModelChecked, ChatFails, ChatAnswers, ToolsReturn, ToolsReject,
                ToolStep, CallEnds, OnErrorThrows, CallerAborts
<1> QED
  BY <1>1, AgentInvariance, PTL DEF Spec, SettledRunStartsNoTool
=============================================================================
