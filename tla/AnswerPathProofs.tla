-------------------------- MODULE AnswerPathProofs --------------------------
(***************************************************************************)
(* Proofs about the way of an answer to the caller: the parsers that cut   *)
(* a response into frames (StreamParsers), the merging of streamed tool    *)
(* calls (ToolCallAccumulator), the adapters that assemble the final       *)
(* result (CompatStreams), the hooks of an observed stream                 *)
(* (StreamObserver) and the turns of a conversation (ConversationSession), *)
(* each for every value of its constants.                                  *)
(***************************************************************************)
EXTENDS StreamParsers, ToolCallAccumulator, CompatStreams, StreamObserver,
        ConversationSession, ListLemmas

-----------------------------------------------------------------------------
(* StreamParsers.  Between two steps the buffer is what has arrived of the *)
(* text from the start of a line on, and the frames and fields are those   *)
(* of the lines before it.                                                 *)

-----------------------------------------------------------------------------
(* StreamParsers: what is gathered before and after a place.               *)

NoPartsBetween(parts, a, b) ==
    \A i \in 1 .. Len(parts) : a < i /\ i <= b => parts[i] = <<>>

LEMMA GatheringSkips ==
    ASSUME NEW S, NEW parts \in Seq(Seq(S)), NEW g, IsGathering(g, S, parts),
           NEW a \in 0 .. Len(parts), NEW b \in 0 .. Len(parts), a <= b,
           NoPartsBetween(parts, a, b)
    PROVE  g[b] = g[a]
<1> USE DEF NoPartsBetween
<1> DEFINE n == Len(parts)
           Good == {m \in Nat : a + m <= b => g[a + m] = g[a]}
<1>1. n \in Nat /\ a \in 0 .. n /\ b \in 0 .. n
  OBVIOUS
<1>2. g \in [0 .. n -> Seq(S)] /\ \A i \in 1 .. n : g[i] = g[i - 1] \o parts[i]
  BY DEF IsGathering
<1> HIDE DEF n
<1>3. 0 \in Good
  BY <1>1
<1>4. ASSUME NEW m \in Nat, m \in Good PROVE m + 1 \in Good
  <2>1. CASE a + (m + 1) <= b
    <3>1. a + m \in 0 .. n /\ a + (m + 1) \in 1 .. n /\ (a + (m + 1)) - 1 = a + m /\ a < a + (m + 1)
          /\ a + m <= b
      BY <1>1, <2>1
    <3>2. parts[a + (m + 1)] = <<>>
      BY <2>1, <3>1 DEF n
    <3>3. g[a + (m + 1)] = g[a + m] \o <<>>
      BY <1>2, <3>1, <3>2
    <3>4. g[a + m] \in Seq(S)
      BY <1>2, <3>1
    <3>5. g[a + m] \o <<>> = g[a + m]
      BY <3>4, ConcatEmptySeq
    <3>6. g[a + m] = g[a]
      BY <1>4, <3>1
    <3>7. g[a + (m + 1)] = g[a]
      BY <3>3, <3>5, <3>6
    <3> QED BY <3>7
  <2>2. CASE ~(a + (m + 1) <= b)
    BY <2>2
  <2> QED BY <2>1, <2>2
<1>5. b - a \in Nat /\ a + (b - a) = b
  BY <1>1
<1>6. b - a \in Good
  <2> HIDE DEF Good
  <2> QED BY <1>3, <1>4, <1>5, InductiveSet
<1> QED BY <1>1, <1>5, <1>6

AgreeUpTo(parts, others, n) ==
    /\ n <= Len(parts) /\ n <= Len(others)
    /\ \A i \in 1 .. n : parts[i] = others[i]

LEMMA GatheringsAgree ==
    ASSUME NEW S, NEW parts \in Seq(Seq(S)), NEW g, IsGathering(g, S, parts),
           NEW others \in Seq(Seq(S)), NEW h, IsGathering(h, S, others),
           NEW n \in Nat, AgreeUpTo(parts, others, n)
    PROVE  g[n] = h[n]
<1> USE DEF AgreeUpTo
<1> DEFINE Good == {m \in Nat : m <= n => g[m] = h[m]}
<1>1. /\ g[0] = h[0]
      /\ \A i \in 1 .. n : g[i] = g[i - 1] \o parts[i] /\ h[i] = h[i - 1] \o others[i]
  <2>1. g[0] = h[0]
    BY DEF IsGathering
  <2>2. \A i \in 1 .. n : i \in 1 .. Len(parts) /\ i \in 1 .. Len(others)
    OBVIOUS
  <2>3. \A i \in 1 .. Len(parts) : g[i] = g[i - 1] \o parts[i]
    BY DEF IsGathering
  <2>4. \A i \in 1 .. Len(others) : h[i] = h[i - 1] \o others[i]
    BY DEF IsGathering
  <2> QED BY <2>1, <2>2, <2>3, <2>4
<1>2. 0 \in Good
  BY <1>1
<1>3. ASSUME NEW m \in Nat, m \in Good PROVE m + 1 \in Good
  <2>1. CASE m + 1 <= n
    <3>1. m + 1 \in 1 .. n /\ (m + 1) - 1 = m /\ m <= n
      BY <2>1
    <3>2. g[m + 1] = g[m] \o parts[m + 1] /\ h[m + 1] = h[m] \o others[m + 1]
      BY <1>1, <3>1
    <3>3. g[m] = h[m] /\ parts[m + 1] = others[m + 1]
      BY <1>3, <3>1
    <3>4. g[m + 1] = h[m + 1]
      BY <3>2, <3>3, Zenon
    <3> QED BY <3>4
  <2>2. CASE ~(m + 1 <= n)
    BY <2>2
  <2> QED BY <2>1, <2>2
<1>4. n \in Good
  <2> HIDE DEF Good
  <2> QED BY <1>2, <1>3, InductiveSet
<1> QED BY <1>4

LEMMA ThreeParts ==
    ASSUME NEW S, NEW s \in Seq(S), NEW t \in Seq(S), NEW u \in Seq(S)
    PROVE  (s \o t) \o u = s \o (t \o u)
  OBVIOUS

Continues(s, t, S) == \E rest \in Seq(S) : s = t \o rest

LEMMA GatheringExtends ==
    ASSUME NEW S, NEW parts \in Seq(Seq(S)), NEW g, IsGathering(g, S, parts),
           NEW a \in 0 .. Len(parts)
    PROVE  Continues(g[Len(parts)], g[a], S)
<1> DEFINE n == Len(parts)
           Good == {m \in Nat : a + m <= n => \E rest \in Seq(S) : g[a + m] = g[a] \o rest}
<1>1. n \in Nat /\ a \in 0 .. n /\ \A i \in 1 .. n : parts[i] \in Seq(S)
  OBVIOUS
<1>2. g \in [0 .. n -> Seq(S)] /\ \A i \in 1 .. n : g[i] = g[i - 1] \o parts[i]
  BY DEF IsGathering
<1> HIDE DEF n
<1>3. g[a] \in Seq(S)
  BY <1>1, <1>2
<1>4. 0 \in Good
  <2>1. <<>> \in Seq(S) /\ a + 0 = a
    BY <1>1
  <2>2. g[a + 0] = g[a] \o <<>>
    BY <1>3, <2>1, ConcatEmptySeq
  <2> QED BY <2>1, <2>2
<1>5. ASSUME NEW m \in Nat, m \in Good PROVE m + 1 \in Good
  <2>1. CASE a + (m + 1) <= n
    <3>1. a + m <= n /\ a + (m + 1) \in 1 .. n /\ (a + (m + 1)) - 1 = a + m
      BY <1>1, <2>1
    <3>2. PICK rest \in Seq(S) : g[a + m] = g[a] \o rest
      BY <1>5, <3>1
    <3>3. parts[a + (m + 1)] \in Seq(S)
      BY <1>1, <3>1
    <3>4. g[a + (m + 1)] = (g[a] \o rest) \o parts[a + (m + 1)]
      BY <1>2, <3>1, <3>2
    <3>5. (g[a] \o rest) \o parts[a + (m + 1)] = g[a] \o (rest \o parts[a + (m + 1)])
      <4> DEFINE x == g[a]
                 y == parts[a + (m + 1)]
      <4>1. x \in Seq(S) /\ y \in Seq(S)
        BY <1>3, <3>3
      <4> HIDE DEF x, y
      <4>2. (x \o rest) \o y = x \o (rest \o y)
        BY <4>1, ThreeParts
      <4> QED BY <4>2 DEF x, y
    <3>6. rest \o parts[a + (m + 1)] \in Seq(S)
      BY <3>3, ConcatProperties
    <3>7. \E more \in Seq(S) : g[a + (m + 1)] = g[a] \o more
      BY <3>4, <3>5, <3>6, Zenon
    <3> HIDE DEF n
    <3>8. m + 1 \in Nat
      OBVIOUS
    <3> QED BY <3>7, <3>8, Zenon
  <2>2. CASE ~(a + (m + 1) <= n)
    BY <2>2
  <2> QED BY <2>1, <2>2
<1>6. n - a \in Nat /\ a + (n - a) = n
  BY <1>1
<1>7. n - a \in Good
  <2> HIDE DEF Good
  <2> QED BY <1>4, <1>5, <1>6, InductiveSet
<1>8. \E rest \in Seq(S) : g[n] = g[a] \o rest
  <2>1. a + (n - a) <= n
    BY <1>1
  <2>2. \E rest \in Seq(S) : g[a + (n - a)] = g[a] \o rest
    BY <1>7, <2>1, Zenon
  <2> HIDE DEF n, Good
  <2> QED BY <1>6, <2>2, Zenon
<1> QED BY <1>8 DEF n, Continues

-----------------------------------------------------------------------------
(* StreamParsers: items in the order of their places.                      *)

InParts(item, places) == [i \in DOMAIN item |-> IF i \in places THEN <<item[i]>> ELSE <<>>]

LEMMA InPartsAreSequences ==
    ASSUME NEW S, NEW item \in Seq(S), NEW places
    PROVE  /\ InParts(item, places) \in Seq(Seq(S)) /\ Len(InParts(item, places)) = Len(item)
           /\ \A i \in 1 .. Len(item) :
                /\ i \in places => InParts(item, places)[i] = <<item[i]>>
                /\ i \notin places => InParts(item, places)[i] = <<>>
           /\ ByPlace(item, places) = FlattenSeq(InParts(item, places))
<1> DEFINE part(i) == IF i \in places THEN <<item[i]>> ELSE <<>>
<1>1. \A i \in 1 .. Len(item) : /\ part(i) \in Seq(S)
                                /\ i \in places => part(i) = <<item[i]>>
                                /\ i \notin places => part(i) = <<>>
  OBVIOUS
<1>2. InParts(item, places) = [i \in 1 .. Len(item) |-> part(i)]
  BY DEF InParts
<1>3. ByPlace(item, places) = FlattenSeq(InParts(item, places))
  BY Zenon DEF ByPlace, InParts
<1>4. Len(item) \in Nat
  OBVIOUS
<1> HIDE DEF part
<1>5. InParts(item, places) \in Seq(Seq(S)) /\ Len(InParts(item, places)) = Len(item)
      /\ \A i \in 1 .. Len(item) : InParts(item, places)[i] = part(i)
  BY <1>1, <1>2, <1>4
<1> QED BY <1>1, <1>3, <1>5

LEMMA NothingInOrder ==
    ASSUME NEW S, NEW item \in Seq(S)
    PROVE  ByPlace(item, {}) = <<>>
<1> DEFINE parts == InParts(item, {})
<1>1. parts \in Seq(Seq(S)) /\ Len(parts) = Len(item) /\ ByPlace(item, {}) = FlattenSeq(parts)
      /\ \A i \in 1 .. Len(item) : parts[i] = <<>>
  BY InPartsAreSequences
<1> HIDE DEF parts
<1>2. PICK g : IsGathering(g, S, parts)
  BY <1>1, GatheringExists
<1>3. 0 \in 0 .. Len(parts) /\ Len(parts) \in 0 .. Len(parts) /\ 0 <= Len(parts)
  BY <1>1
<1>4. g[Len(parts)] = g[0]
  <2>1. NoPartsBetween(parts, 0, Len(parts))
    BY <1>1 DEF NoPartsBetween
  <2> QED BY <1>1, <1>2, <1>3, <2>1, GatheringSkips
<1>5. g[0] = <<>>
  BY <1>2 DEF IsGathering, Nothing
<1> QED BY <1>1, <1>2, <1>4, <1>5, FlattenIsGathered

LEMMA InOrderIsSequence ==
    ASSUME NEW S, NEW item \in Seq(S), NEW places
    PROVE  ByPlace(item, places) \in Seq(S)
<1> DEFINE parts == InParts(item, places)
<1>1. parts \in Seq(Seq(S)) /\ ByPlace(item, places) = FlattenSeq(parts)
  BY InPartsAreSequences
<1> HIDE DEF parts
<1>2. PICK g : IsGathering(g, S, parts)
  BY <1>1, GatheringExists
<1>3. Len(parts) \in 0 .. Len(parts)
  BY <1>1
<1>4. g[Len(parts)] \in Seq(S)
  BY <1>2, <1>3 DEF IsGathering
<1> QED BY <1>1, <1>2, <1>4, FlattenIsGathered

LEMMA OneMoreInOrder ==
    ASSUME NEW S, NEW item \in Seq(S), NEW places, NEW p \in DOMAIN item, \A i \in places : i < p
    PROVE  /\ ByPlace(item, places) \in Seq(S)
           /\ ByPlace(item, places \cup {p}) = Append(ByPlace(item, places), item[p])
<1> DEFINE parts == InParts(item, places)
           more == InParts(item, places \cup {p})
           n == Len(item)
<1>1. n \in Nat /\ p \in 1 .. n /\ item[p] \in S
  OBVIOUS
<1>2. /\ parts \in Seq(Seq(S)) /\ Len(parts) = n /\ ByPlace(item, places) = FlattenSeq(parts)
      /\ \A i \in 1 .. n : /\ i \in places => parts[i] = <<item[i]>>
                           /\ i \notin places => parts[i] = <<>>
  BY InPartsAreSequences
<1>3. /\ more \in Seq(Seq(S)) /\ Len(more) = n /\ ByPlace(item, places \cup {p}) = FlattenSeq(more)
      /\ \A i \in 1 .. n : /\ i \in places \cup {p} => more[i] = <<item[i]>>
                           /\ i \notin places \cup {p} => more[i] = <<>>
  BY InPartsAreSequences
<1> HIDE DEF parts, more, n
<1>4. PICK g : IsGathering(g, S, parts)
  BY <1>2, GatheringExists
<1>5. PICK h : IsGathering(h, S, more)
  BY <1>3, GatheringExists
<1>6. p - 1 \in 0 .. n /\ p - 1 \in Nat /\ p \in 0 .. n /\ n \in 0 .. n /\ p - 1 <= n /\ p <= n
  BY <1>1
<1>7. g[p - 1] = h[p - 1]
  <2>1. \A i \in 1 .. p - 1 : i \in 1 .. n /\ i # p
    BY <1>1
  <2>2. \A i \in 1 .. p - 1 : parts[i] = more[i]
    BY <1>2, <1>3, <2>1
  <2>3. AgreeUpTo(parts, more, p - 1)
    BY <1>2, <1>3, <1>6, <2>2 DEF AgreeUpTo
  <2> QED BY <1>2, <1>3, <1>4, <1>5, <1>6, <2>3, GatheringsAgree
<1>8. g[n] = g[p - 1]
  <2>1. \A i \in 1 .. n : p - 1 < i => ~(i < p)
    BY <1>1
  <2>2. \A i \in 1 .. n : p - 1 < i /\ i <= n => parts[i] = <<>>
    BY <1>2, <2>1
  <2>3. p - 1 \in 0 .. Len(parts) /\ n \in 0 .. Len(parts) /\ NoPartsBetween(parts, p - 1, n)
    BY <1>2, <1>6, <2>2 DEF NoPartsBetween
  <2> QED BY <1>2, <1>4, <1>6, <2>3, GatheringSkips
<1>9. h[n] = h[p]
  <2>1. \A i \in 1 .. n : p < i => ~(i < p) /\ i # p
    BY <1>1
  <2>2. \A i \in 1 .. n : p < i /\ i <= n => more[i] = <<>>
    BY <1>3, <2>1
  <2>3. p \in 0 .. Len(more) /\ n \in 0 .. Len(more) /\ NoPartsBetween(more, p, n)
    BY <1>3, <1>6, <2>2 DEF NoPartsBetween
  <2> QED BY <1>3, <1>5, <1>6, <2>3, GatheringSkips
<1>10. h[p] = h[p - 1] \o <<item[p]>>
  BY <1>1, <1>3, <1>5 DEF IsGathering
<1>11. FlattenSeq(parts) = g[n] /\ FlattenSeq(more) = h[n]
  BY <1>2, <1>3, <1>4, <1>5, FlattenIsGathered
<1>12. g[n] \in Seq(S)
  BY <1>2, <1>4, <1>6 DEF IsGathering
<1>13. g[n] \o <<item[p]>> = Append(g[n], item[p])
  BY <1>1, <1>12, AppendIsConcat
<1> QED BY <1>2, <1>3, <1>7, <1>8, <1>9, <1>10, <1>11, <1>12, <1>13

LEMMA FirstInOrderArePrefix ==
    ASSUME NEW S, NEW item \in Seq(S), NEW places, NEW m \in Nat
    PROVE  IsPrefix(ByPlace(item, {i \in places : i <= m}), ByPlace(item, places))
<1> DEFINE first == {i \in places : i <= m}
           parts == InParts(item, first)
           all == InParts(item, places)
           n == Len(item)
           end == IF m <= n THEN m ELSE n
<1>1. n \in Nat /\ end \in 0 .. n /\ n \in 0 .. n /\ end \in Nat /\ end <= n
      /\ \A i \in 1 .. n : i <= end <=> i <= m
  OBVIOUS
<1>2. /\ parts \in Seq(Seq(S)) /\ Len(parts) = n /\ ByPlace(item, first) = FlattenSeq(parts)
      /\ \A i \in 1 .. n : /\ i \in first => parts[i] = <<item[i]>>
                           /\ i \notin first => parts[i] = <<>>
  BY InPartsAreSequences
<1>3. /\ all \in Seq(Seq(S)) /\ Len(all) = n /\ ByPlace(item, places) = FlattenSeq(all)
      /\ \A i \in 1 .. n : /\ i \in places => all[i] = <<item[i]>>
                           /\ i \notin places => all[i] = <<>>
  BY InPartsAreSequences
<1>4. \A i : i \in first <=> i \in places /\ i <= m
  OBVIOUS
<1> HIDE DEF parts, all, n, end, first
<1>5. PICK g : IsGathering(g, S, parts)
  BY <1>2, GatheringExists
<1>6. PICK h : IsGathering(h, S, all)
  BY <1>3, GatheringExists
<1>7. g[end] = h[end]
  <2>1. \A i \in 1 .. end : i \in 1 .. n /\ i <= m
    BY <1>1
  <2>2. \A i \in 1 .. end : parts[i] = all[i]
    BY <1>2, <1>3, <1>4, <2>1
  <2>3. AgreeUpTo(parts, all, end)
    BY <1>1, <1>2, <1>3, <2>2 DEF AgreeUpTo
  <2> QED BY <1>1, <1>2, <1>3, <1>5, <1>6, <2>3, GatheringsAgree
<1>8. g[n] = g[end]
  <2>1. \A i \in 1 .. n : end < i => ~(i <= end)
    BY <1>1
  <2>2. \A i \in 1 .. n : end < i /\ i <= n => parts[i] = <<>>
    BY <1>1, <1>2, <1>4, <2>1
  <2>3. end \in 0 .. Len(parts) /\ n \in 0 .. Len(parts) /\ NoPartsBetween(parts, end, n)
    BY <1>1, <1>2, <2>2 DEF NoPartsBetween
  <2> QED BY <1>1, <1>2, <1>5, <2>3, GatheringSkips
<1>9. PICK rest \in Seq(S) : h[n] = h[end] \o rest
  <2>1. end \in 0 .. Len(all)
    BY <1>1, <1>3
  <2>2. Continues(h[Len(all)], h[end], S)
    BY <1>3, <1>6, <2>1, GatheringExtends
  <2> QED BY <1>3, <2>2 DEF Continues
<1>10. FlattenSeq(parts) = g[n] /\ FlattenSeq(all) = h[n]
  BY <1>2, <1>3, <1>5, <1>6, FlattenIsGathered
<1>11. h[end] \in Seq(S)
  BY <1>1, <1>3, <1>6 DEF IsGathering
<1>12. ASSUME NEW s \in Seq(S), NEW r \in Seq(S) PROVE IsPrefix(s, s \o r)
  <2>1. Len(s) <= Len(s \o r) /\ SubSeq(s, 1, Len(s)) = s /\ SubSeq(s \o r, 1, Len(s)) = s
    OBVIOUS
  <2> QED BY <2>1 DEF IsPrefix
<1>13. IsPrefix(h[end], h[n])
  BY <1>9, <1>11, <1>12
<1> QED BY <1>2, <1>3, <1>7, <1>8, <1>10, <1>13 DEF first

-----------------------------------------------------------------------------
(* StreamParsers: the lines of a text.                                     *)

IsText(f, t) == f \in {"sse", "ndjson"} /\ t \in Seq(Tokens(f))

\* The first break after the q-th token is at e.
IsFirstBreak(f, t, q, e) ==
    /\ e \in 1 .. Len(t) /\ q < e /\ IsBreak(f, t[e])
    /\ \A i \in 1 .. Len(t) : q < i /\ i < e => ~IsBreak(f, t[i])

\* The last token of a break.
BreakEnd(f, t, e) == IF f = "sse" /\ t[e] = "cr" /\ e < Len(t) /\ t[e + 1] = "lf" THEN e + 1 ELSE e

LEMMA StartsAreInText ==
    ASSUME NEW f, NEW t, IsText(f, t)
    PROVE  /\ Len(t) \in Nat /\ LineEnds(f, t) \subseteq 1 .. Len(t)
           /\ LineStarts(f, t) \subseteq 1 .. Len(t) + 1
<1>1. Len(t) \in Nat
  BY DEF IsText
<1>2. LineEnds(f, t) \subseteq 1 .. Len(t)
  BY DEF LineEnds
<1>3. \A i \in 1 .. Len(t) : i + 1 \in 1 .. Len(t) + 1
  BY <1>1
<1> QED BY <1>1, <1>2, <1>3 DEF LineStarts

LEMMA MinOf ==
    ASSUME NEW S, NEW x \in S, \A y \in S : x <= y, S \subseteq Nat
    PROVE  Min(S) = x
<1>1. Min(S) \in S /\ \A y \in S : Min(S) <= y
  BY MinIsLeast
<1>2. Min(S) \in Nat /\ x \in Nat /\ Min(S) <= x /\ x <= Min(S)
  BY <1>1
<1> QED BY <1>2

LEMMA LineAtBreak ==
    ASSUME NEW f, NEW t, IsText(f, t), NEW q \in Nat, NEW e, IsFirstBreak(f, t, q, e)
    PROVE  /\ BreakEnd(f, t, e) \in 1 .. Len(t) /\ e <= BreakEnd(f, t, e)
           /\ LineFrom(f, t, q + 1) = SubSeq(t, q + 1, e - 1)
           /\ BreakEnd(f, t, e) + 1 \in LineStarts(f, t)
           /\ \A l \in LineStarts(f, t) : q + 1 < l => BreakEnd(f, t, e) + 1 <= l
<1> DEFINE n == Len(t)
           r == BreakEnd(f, t, e)
           later == {j \in LineEnds(f, t) : j >= q + 1} \cup {n + 1}
<1>1. n \in Nat /\ f \in {"sse", "ndjson"} /\ LineEnds(f, t) \subseteq 1 .. n
  BY StartsAreInText DEF IsText
<1>2. e \in 1 .. n /\ q < e /\ IsBreak(f, t[e]) /\ \A i \in 1 .. n : q < i /\ i < e => ~IsBreak(f, t[i])
  BY DEF IsFirstBreak
<1>3. \A i \in LineEnds(f, t) : i \in 1 .. n /\ IsBreak(f, t[i])
  BY DEF LineEnds
<1>4. r \in LineEnds(f, t) /\ r \in 1 .. n /\ e <= r
      /\ \A i \in LineEnds(f, t) : q < i => r <= i
  <2>1. CASE f = "sse" /\ t[e] = "cr" /\ e < n /\ t[e + 1] = "lf"
    <3>1. r = e + 1 /\ e + 1 \in 1 .. n
      BY <1>1, <1>2, <2>1 DEF BreakEnd
    <3>2. e + 1 \in LineEnds(f, t)
      BY <2>1, <3>1 DEF LineEnds, IsBreak
    <3>3. e \notin LineEnds(f, t)
      BY <2>1 DEF LineEnds
    <3>4. \A i \in LineEnds(f, t) : q < i => e + 1 <= i
      BY <1>1, <1>2, <1>3, <3>3
    <3> QED BY <1>2, <3>1, <3>2, <3>4
  <2>2. CASE ~(f = "sse" /\ t[e] = "cr" /\ e < n /\ t[e + 1] = "lf")
    <3>1. r = e
      BY <2>2 DEF BreakEnd
    <3>2. e \in LineEnds(f, t)
      BY <1>2, <2>2 DEF LineEnds
    <3>3. \A i \in LineEnds(f, t) : q < i => e <= i
      BY <1>1, <1>2, <1>3
    <3> QED BY <1>2, <3>1, <3>2, <3>3
  <2> QED BY <2>1, <2>2
<1>5. Min(later) = r
  <2>1. r \in later
    BY <1>1, <1>2, <1>4
  <2>2. \A j \in later : r <= j
    BY <1>1, <1>4
  <2>3. later \subseteq Nat
    BY <1>1
  <2> HIDE DEF later, r
  <2> QED BY <2>1, <2>2, <2>3, MinOf
<1> DEFINE stop == IF r > q + 1 /\ r <= n /\ t[r] = "lf" /\ t[r - 1] = "cr" /\ f = "sse"
                   THEN r - 2 ELSE r - 1
<1>6. LineFrom(f, t, q + 1) = SubSeq(t, q + 1, stop)
  BY <1>5, Zenon DEF LineFrom
<1>7. stop = e - 1
  <2>1. CASE f = "sse" /\ t[e] = "cr" /\ e < n /\ t[e + 1] = "lf"
    <3>1. r = e + 1 /\ r - 1 = e /\ r - 2 = e - 1 /\ r > q + 1
      BY <1>1, <1>2, <2>1 DEF BreakEnd
    <3> HIDE DEF r
    <3> QED BY <1>4, <2>1, <3>1
  <2>2. CASE ~(f = "sse" /\ t[e] = "cr" /\ e < n /\ t[e + 1] = "lf")
    <3>1. r = e
      BY <2>2 DEF BreakEnd
    <3>2. ASSUME e > q + 1, t[e - 1] = "cr", f = "sse" PROVE FALSE
      <4>1. e - 1 \in 1 .. n /\ q < e - 1 /\ e - 1 < e
        BY <1>1, <1>2, <3>2
      <4> QED BY <1>2, <3>2, <4>1 DEF IsBreak
    <3> HIDE DEF r
    <3> QED BY <3>1, <3>2
  <2> QED BY <2>1, <2>2
<1>8. r + 1 \in LineStarts(f, t)
  BY <1>4 DEF LineStarts
<1>9. ASSUME NEW l \in LineStarts(f, t), q + 1 < l PROVE r + 1 <= l
  <2>1. l # 1
    BY <1>9
  <2>2. PICK i \in LineEnds(f, t) : l = i + 1
    BY <2>1 DEF LineStarts
  <2>3. q < i
    BY <1>1, <1>9, <2>2
  <2>4. r <= i
    BY <1>4, <2>3
  <2> QED BY <1>1, <1>4, <2>2, <2>4
<1> HIDE DEF stop
<1> QED BY <1>4, <1>6, <1>7, <1>8, <1>9

LEMMA LineAtEnd ==
    ASSUME NEW f, NEW t, IsText(f, t), NEW q \in Nat, q <= Len(t),
           \A i \in 1 .. Len(t) : q < i => ~IsBreak(f, t[i])
    PROVE  /\ LineFrom(f, t, q + 1) = SubSeq(t, q + 1, Len(t))
           /\ \A l \in LineStarts(f, t) : l <= q + 1
<1> DEFINE n == Len(t)
           after == n + 1
           later == {j \in LineEnds(f, t) : j >= q + 1} \cup {after}
<1>1. n \in Nat /\ LineEnds(f, t) \subseteq 1 .. n
  BY StartsAreInText
<1>2. \A i \in LineEnds(f, t) : i \in 1 .. n /\ IsBreak(f, t[i])
  BY DEF LineEnds
<1>3. \A i \in LineEnds(f, t) : ~(q < i)
  BY <1>2
<1>4. Min(later) = after
  <2>1. later = {after}
    BY <1>1, <1>3
  <2>2. after \in later /\ (\A j \in later : after <= j) /\ later \subseteq Nat
    BY <1>1, <2>1
  <2> HIDE DEF later, n, after
  <2> QED BY <2>2, MinOf
<1> HIDE DEF after
<1> DEFINE stop == IF after > q + 1 /\ after <= n /\ t[after] = "lf" /\ t[after - 1] = "cr" /\ f = "sse"
                   THEN after - 2 ELSE after - 1
<1>5. LineFrom(f, t, q + 1) = SubSeq(t, q + 1, stop)
  <2>1. Min({j \in LineEnds(f, t) : j >= q + 1} \cup {Len(t) + 1}) = after
    BY <1>4, Zenon DEF after
  <2> QED BY <2>1, Zenon DEF LineFrom
<1>6. stop = n
  BY <1>1 DEF after
<1>7. \A l \in LineStarts(f, t) : l <= q + 1
  BY <1>1, <1>3 DEF LineStarts
<1> HIDE DEF stop
<1> QED BY <1>5, <1>6, <1>7

-----------------------------------------------------------------------------
(* StreamParsers: the fields of an event.                                  *)

LinesAt(f, t) == [l \in 1 .. Len(t) + 1 |-> LineFrom(f, t, l)]
AllLines(f, t) == {LineFrom(f, t, l) : l \in 1 .. Len(t) + 1}

Sets(f, t, l, field) == LineFrom(f, t, l) # <<>> /\ LineFrom(f, t, l)[1] = field

LEMMA LinesAreSequence ==
    ASSUME NEW f, NEW t, IsText(f, t)
    PROVE  LinesAt(f, t) \in Seq(AllLines(f, t)) /\ DOMAIN LinesAt(f, t) = 1 .. Len(t) + 1
<1>1. Len(t) + 1 \in Nat
  BY StartsAreInText
<1> QED BY <1>1 DEF LinesAt, AllLines

LEMMA ValuesAreInOrder ==
    ASSUME NEW f, NEW t, NEW field, NEW lines
    PROVE  ValuesOf(f, t, field, lines) = ByPlace(LinesAt(f, t), {l \in lines : Sets(f, t, l, field)})
  BY Zenon DEF ValuesOf, LinesAt, Sets

LEMMA NoValues ==
    ASSUME NEW f, NEW t, IsText(f, t), NEW field
    PROVE  ValuesOf(f, t, field, {}) = <<>>
<1>1. {l \in {} : Sets(f, t, l, field)} = {}
  OBVIOUS
<1>2. ByPlace(LinesAt(f, t), {}) = <<>>
  BY LinesAreSequence, NothingInOrder
<1> QED BY <1>1, <1>2, ValuesAreInOrder

AreBefore(lines, p) == \A l \in lines : l < p

LEMMA OneMoreValue ==
    ASSUME NEW f, NEW t, IsText(f, t), NEW field, NEW lines, NEW p \in 1 .. Len(t) + 1,
           AreBefore(lines, p)
    PROVE  /\ ValuesOf(f, t, field, lines) \in Seq(AllLines(f, t))
           /\ LineFrom(f, t, p) \in AllLines(f, t)
           /\ Sets(f, t, p, field) =>
                ValuesOf(f, t, field, lines \cup {p})
                    = Append(ValuesOf(f, t, field, lines), LineFrom(f, t, p))
           /\ ~Sets(f, t, p, field) =>
                ValuesOf(f, t, field, lines \cup {p}) = ValuesOf(f, t, field, lines)
<1> DEFINE setting == {l \in lines : Sets(f, t, l, field)}
           now == {l \in lines \cup {p} : Sets(f, t, l, field)}
           item == LinesAt(f, t)
<1>1. item \in Seq(AllLines(f, t)) /\ DOMAIN item = 1 .. Len(t) + 1 /\ p \in DOMAIN item
  BY LinesAreSequence
<1>2. item[p] = LineFrom(f, t, p) /\ LineFrom(f, t, p) \in AllLines(f, t)
  BY DEF LinesAt, AllLines
<1>3. \A l \in setting : l < p
  BY DEF AreBefore
<1>4. ValuesOf(f, t, field, lines) = ByPlace(item, setting)
      /\ ValuesOf(f, t, field, lines \cup {p}) = ByPlace(item, now)
  BY ValuesAreInOrder
<1>5. /\ Sets(f, t, p, field) => now = setting \cup {p}
      /\ ~Sets(f, t, p, field) => now = setting
  OBVIOUS
<1> HIDE DEF setting, now, item
<1>6. ByPlace(item, setting) \in Seq(AllLines(f, t))
      /\ ByPlace(item, setting \cup {p}) = Append(ByPlace(item, setting), item[p])
  BY <1>1, <1>3, OneMoreInOrder
<1> QED BY <1>2, <1>4, <1>5, <1>6

\* The lines before p, and those of them that no blank line comes after.
LinesBefore(f, t, p) == {l \in LineStarts(f, t) : l < p}
OpenLines(f, t, p) == {l \in LinesBefore(f, t, p) : \A b \in BlankLines(f, t) : l <= b => p <= b}

FieldsBefore(f, t, p) ==
    [event |-> LastOr(ValuesOf(f, t, "event", OpenLines(f, t, p)), Unset),
     data  |-> ValuesOf(f, t, "data", OpenLines(f, t, p)),
     id    |-> LastOr(ValuesOf(f, t, "id", LinesBefore(f, t, p)), Unset)]

LEMMA LinesOneMore ==
    ASSUME NEW f, NEW t, IsText(f, t), NEW p \in LineStarts(f, t)
    PROVE  /\ LinesUpTo(f, t, p) = LinesBefore(f, t, p) \cup {p}
           /\ LinesOfEvent(f, t, p) = OpenLines(f, t, p) \cup {p}
           /\ AreBefore(LinesBefore(f, t, p), p) /\ AreBefore(OpenLines(f, t, p), p)
           /\ p \in 1 .. Len(t) + 1
<1>1. LineStarts(f, t) \subseteq Nat /\ p \in 1 .. Len(t) + 1
  BY StartsAreInText
<1>2. LinesUpTo(f, t, p) = LinesBefore(f, t, p) \cup {p}
  BY <1>1 DEF LinesUpTo, LinesBefore
<1>3. p \in LinesOfEvent(f, t, p)
  BY <1>1, <1>2 DEF LinesOfEvent
<1>4. LinesOfEvent(f, t, p) = OpenLines(f, t, p) \cup {p}
  BY <1>2, <1>3 DEF LinesOfEvent, OpenLines
<1> QED BY <1>1, <1>2, <1>4 DEF LinesBefore, OpenLines, AreBefore

\* The next line starts at n.
LEMMA LinesBeforeNext ==
    ASSUME NEW f, NEW t, IsText(f, t), NEW p \in LineStarts(f, t), NEW n \in LineStarts(f, t), p < n,
           \A l \in LineStarts(f, t) : p < l => n <= l
    PROVE  /\ LinesBefore(f, t, n) = LinesUpTo(f, t, p)
           /\ p \notin BlankLines(f, t) => OpenLines(f, t, n) = LinesOfEvent(f, t, p)
           /\ p \in BlankLines(f, t) => OpenLines(f, t, n) = {}
<1>1. LineStarts(f, t) \subseteq Nat /\ BlankLines(f, t) \subseteq LineStarts(f, t)
  BY StartsAreInText DEF BlankLines
<1>2. \A l \in LineStarts(f, t) : l < n <=> l <= p
  BY <1>1
<1>3. LinesBefore(f, t, n) = LinesUpTo(f, t, p)
  BY <1>2 DEF LinesBefore, LinesUpTo
<1>4. ASSUME p \notin BlankLines(f, t) PROVE OpenLines(f, t, n) = LinesOfEvent(f, t, p)
  <2>1. \A b \in BlankLines(f, t) : n <= b <=> p <= b
    BY <1>1, <1>4
  <2> QED BY <1>3, <2>1 DEF OpenLines, LinesOfEvent
<1>5. ASSUME p \in BlankLines(f, t) PROVE OpenLines(f, t, n) = {}
  <2>1. \A l \in LinesBefore(f, t, n) : l <= p /\ ~(n <= p)
    BY <1>1, <1>3 DEF LinesUpTo
  <2> QED BY <1>5, <2>1 DEF OpenLines
<1> QED BY <1>3, <1>4, <1>5

LEMMA LastOrFacts ==
    ASSUME NEW S, NEW s \in Seq(S), NEW x \in S, NEW d
    PROVE  LastOr(Append(s, x), d) = x /\ LastOr(<<>>, d) = d
<1>1. Append(s, x) # <<>> /\ Len(Append(s, x)) = Len(s) + 1 /\ Append(s, x)[Len(s) + 1] = x
  OBVIOUS
<1> QED BY <1>1 DEF LastOr, Last

\* The event at a line is what the lines before it have set, and the line.
LEMMA EventIsFields ==
    ASSUME NEW f, NEW t, IsText(f, t), NEW p \in LineStarts(f, t)
    PROVE  LET before == FieldsBefore(f, t, p)
               line == LineFrom(f, t, p)
           IN  /\ p \in BlankLines(f, t) => EventAt(f, t, p) = before
               /\ p \notin BlankLines(f, t) =>
                    EventAt(f, t, p) =
                        CASE line[1] = "data" -> [before EXCEPT !.data = Append(@, line)]
                          [] line[1] = "event" -> [before EXCEPT !.event = line]
                          [] line[1] = "id" -> [before EXCEPT !.id = line]
                          [] OTHER -> before
<1> DEFINE line == LineFrom(f, t, p)
           opens == OpenLines(f, t, p)
           earlier == LinesBefore(f, t, p)
           V(field, lines) == ValuesOf(f, t, field, lines)
           S == AllLines(f, t)
<1>1. /\ LinesUpTo(f, t, p) = earlier \cup {p} /\ LinesOfEvent(f, t, p) = opens \cup {p}
      /\ AreBefore(earlier, p) /\ AreBefore(opens, p) /\ p \in 1 .. Len(t) + 1
  BY LinesOneMore
<1>2. p \in BlankLines(f, t) <=> line = <<>>
  BY DEF BlankLines
<1>3. ASSUME NEW field
      PROVE  Sets(f, t, p, field) <=> line # <<>> /\ line[1] = field
  BY DEF Sets
<1> HIDE DEF line, opens, earlier, V, S
<1>4. ASSUME NEW field
      PROVE  /\ V(field, opens) \in Seq(S) /\ V(field, earlier) \in Seq(S) /\ line \in S
             /\ Sets(f, t, p, field) => /\ V(field, opens \cup {p}) = Append(V(field, opens), line)
                                        /\ V(field, earlier \cup {p}) = Append(V(field, earlier), line)
             /\ ~Sets(f, t, p, field) => /\ V(field, opens \cup {p}) = V(field, opens)
                                         /\ V(field, earlier \cup {p}) = V(field, earlier)
  <2>1. ASSUME NEW lines, AreBefore(lines, p)
        PROVE  /\ V(field, lines) \in Seq(S) /\ line \in S
               /\ Sets(f, t, p, field) => V(field, lines \cup {p}) = Append(V(field, lines), line)
               /\ ~Sets(f, t, p, field) => V(field, lines \cup {p}) = V(field, lines)
    <3>1. p \in 1 .. Len(t) + 1
      BY <1>1
    <3>2. /\ ValuesOf(f, t, field, lines) \in Seq(AllLines(f, t))
          /\ LineFrom(f, t, p) \in AllLines(f, t)
          /\ Sets(f, t, p, field) =>
                ValuesOf(f, t, field, lines \cup {p})
                    = Append(ValuesOf(f, t, field, lines), LineFrom(f, t, p))
          /\ ~Sets(f, t, p, field) =>
                ValuesOf(f, t, field, lines \cup {p}) = ValuesOf(f, t, field, lines)
      BY <2>1, <3>1, OneMoreValue
    <3> QED BY <3>2, Zenon DEF V, S, line
  <2> QED BY <1>1, <2>1
<1>5. ASSUME NEW field, Sets(f, t, p, field)
      PROVE  /\ LastOr(V(field, opens \cup {p}), Unset) = line
             /\ LastOr(V(field, earlier \cup {p}), Unset) = line
  <2>1. /\ V(field, opens \cup {p}) = Append(V(field, opens), line)
        /\ V(field, earlier \cup {p}) = Append(V(field, earlier), line)
        /\ V(field, opens) \in Seq(S) /\ V(field, earlier) \in Seq(S) /\ line \in S
    BY <1>4, <1>5
  <2>2. ASSUME NEW s \in Seq(S) PROVE LastOr(Append(s, line), Unset) = line
    BY <2>1, LastOrFacts
  <2> QED BY <2>1, <2>2
<1>6. EventAt(f, t, p) = [event |-> LastOr(V("event", opens \cup {p}), Unset),
                          data  |-> V("data", opens \cup {p}),
                          id    |-> LastOr(V("id", earlier \cup {p}), Unset)]
  BY <1>1, Zenon DEF EventAt, V
<1>7. FieldsBefore(f, t, p) = [event |-> LastOr(V("event", opens), Unset),
                               data  |-> V("data", opens),
                               id    |-> LastOr(V("id", earlier), Unset)]
  BY Zenon DEF FieldsBefore, V, opens, earlier
<1> DEFINE e == LastOr(V("event", opens), Unset)
           d == V("data", opens)
           i == LastOr(V("id", earlier), Unset)
<1>8. CASE p \in BlankLines(f, t)
  <2>1. ~Sets(f, t, p, "event") /\ ~Sets(f, t, p, "data") /\ ~Sets(f, t, p, "id")
    BY <1>2, <1>3, <1>8
  <2> QED BY <1>4, <1>6, <1>7, <1>8, <2>1
<1>9. CASE p \notin BlankLines(f, t)
  <2> HIDE DEF e, d, i
  <2>1. FieldsBefore(f, t, p) = [event |-> e, data |-> d, id |-> i]
    BY <1>7 DEF e, d, i
  <2>2. CASE line[1] = "data"
    <3>1. ~Sets(f, t, p, "event") /\ Sets(f, t, p, "data") /\ ~Sets(f, t, p, "id")
      BY <1>2, <1>3, <1>9, <2>2
    <3>2. EventAt(f, t, p) = [event |-> e, data |-> Append(d, line), id |-> i]
      BY <1>4, <1>6, <3>1 DEF e, d, i
    <3>3. ASSUME NEW x
          PROVE  [FieldsBefore(f, t, p) EXCEPT !.data = x] = [event |-> e, data |-> x, id |-> i]
      BY <2>1
    <3>4. FieldsBefore(f, t, p).data = d
      BY <2>1
    <3>5. EventAt(f, t, p) =
            [FieldsBefore(f, t, p) EXCEPT !.data = Append(FieldsBefore(f, t, p).data, line)]
      BY <3>2, <3>3, <3>4
    <3> QED BY <1>9, <2>2, <3>5, Zenon DEF line
  <2>3. CASE line[1] = "event"
    <3>1. Sets(f, t, p, "event") /\ ~Sets(f, t, p, "data") /\ ~Sets(f, t, p, "id")
      BY <1>2, <1>3, <1>9, <2>3
    <3>2. EventAt(f, t, p) = [event |-> line, data |-> d, id |-> i]
      BY <1>4, <1>5, <1>6, <3>1 DEF e, d, i
    <3> QED BY <1>9, <2>1, <2>3, <3>2 DEF line
  <2>4. CASE line[1] = "id"
    <3>1. ~Sets(f, t, p, "event") /\ ~Sets(f, t, p, "data") /\ Sets(f, t, p, "id")
      BY <1>2, <1>3, <1>9, <2>4
    <3>2. EventAt(f, t, p) = [event |-> e, data |-> d, id |-> line]
      BY <1>4, <1>5, <1>6, <3>1 DEF e, d, i
    <3> QED BY <1>9, <2>1, <2>4, <3>2 DEF line
  <2>5. CASE line[1] \notin {"data", "event", "id"}
    <3>1. ~Sets(f, t, p, "event") /\ ~Sets(f, t, p, "data") /\ ~Sets(f, t, p, "id")
      BY <1>3, <2>5
    <3>2. EventAt(f, t, p) = [event |-> e, data |-> d, id |-> i]
      BY <1>4, <1>6, <3>1 DEF e, d, i
    <3> QED BY <1>9, <2>1, <2>5, <3>2 DEF line
  <2> QED BY <2>2, <2>3, <2>4, <2>5
<1> QED BY <1>8, <1>9

\* What the lines before the next one leave the fields at.
LEMMA FieldsBeforeNext ==
    ASSUME NEW f, NEW t, IsText(f, t), NEW p \in LineStarts(f, t), NEW n \in LineStarts(f, t), p < n,
           \A l \in LineStarts(f, t) : p < l => n <= l
    PROVE  /\ p \notin BlankLines(f, t) => FieldsBefore(f, t, n) = EventAt(f, t, p)
           /\ p \in BlankLines(f, t) =>
                FieldsBefore(f, t, n) = [NoFields EXCEPT !.id = EventAt(f, t, p).id]
<1>1. /\ LinesBefore(f, t, n) = LinesUpTo(f, t, p)
      /\ p \notin BlankLines(f, t) => OpenLines(f, t, n) = LinesOfEvent(f, t, p)
      /\ p \in BlankLines(f, t) => OpenLines(f, t, n) = {}
  BY LinesBeforeNext
<1>2. ASSUME p \notin BlankLines(f, t) PROVE FieldsBefore(f, t, n) = EventAt(f, t, p)
  BY <1>1, <1>2, Zenon DEF FieldsBefore, EventAt
<1>3. ASSUME p \in BlankLines(f, t)
      PROVE  FieldsBefore(f, t, n) = [NoFields EXCEPT !.id = EventAt(f, t, p).id]
  <2> DEFINE id == LastOr(ValuesOf(f, t, "id", LinesUpTo(f, t, p)), Unset)
  <2>1. EventAt(f, t, p) = [event |-> LastOr(ValuesOf(f, t, "event", LinesOfEvent(f, t, p)), Unset),
                            data |-> ValuesOf(f, t, "data", LinesOfEvent(f, t, p)), id |-> id]
    BY Zenon DEF EventAt
  <2>2. FieldsBefore(f, t, n) = [event |-> LastOr(ValuesOf(f, t, "event", {}), Unset),
                                 data |-> ValuesOf(f, t, "data", {}), id |-> id]
    BY <1>1, <1>3, Zenon DEF FieldsBefore
  <2> HIDE DEF id
  <2>3. EventAt(f, t, p).id = id
    BY <2>1
  <2>4. ValuesOf(f, t, "event", {}) = <<>> /\ ValuesOf(f, t, "data", {}) = <<>>
    BY NoValues
  <2>5. LastOr(<<>>, Unset) = Unset
    BY DEF LastOr
  <2>6. FieldsBefore(f, t, n) = [event |-> Unset, data |-> <<>>, id |-> id]
    BY <2>2, <2>4, <2>5
  <2> QED BY <2>3, <2>6 DEF NoFields
<1> QED BY <1>2, <1>3

LEMMA NoFieldsAtFirst ==
    ASSUME NEW f, NEW t, IsText(f, t)
    PROVE  FieldsBefore(f, t, 1) = NoFields
<1>1. LinesBefore(f, t, 1) = {} /\ OpenLines(f, t, 1) = {}
  BY StartsAreInText DEF LinesBefore, OpenLines
<1>2. \A field : ValuesOf(f, t, field, {}) = <<>>
  BY NoValues
<1>3. LastOr(<<>>, Unset) = Unset
  BY DEF LastOr
<1> QED BY <1>1, <1>2, <1>3 DEF FieldsBefore, NoFields

-----------------------------------------------------------------------------
(* StreamParsers: the frames of the lines before p.                        *)

Frame(f, t, l) == IF f = "sse" THEN EventAt(f, t, l) ELSE DocumentAt(f, t, l)
FramesAt(f, t) == [l \in 1 .. Len(t) + 1 |-> Frame(f, t, l)]
AllFrames(f, t) == {Frame(f, t, l) : l \in 1 .. Len(t) + 1}
FrameEnds(f, t) == IF f = "sse" THEN EventEnds(f, t) ELSE GoodLines(f, t)

FramesBefore(f, t, p) == ByPlace(FramesAt(f, t), {l \in FrameEnds(f, t) : l < p})

LEMMA FramesAreSequence ==
    ASSUME NEW f, NEW t, IsText(f, t)
    PROVE  /\ FramesAt(f, t) \in Seq(AllFrames(f, t)) /\ DOMAIN FramesAt(f, t) = 1 .. Len(t) + 1
           /\ \A l \in 1 .. Len(t) + 1 : FramesAt(f, t)[l] = Frame(f, t, l)
           /\ FrameEnds(f, t) \subseteq LineStarts(f, t)
<1>1. Len(t) + 1 \in Nat
  BY StartsAreInText
<1> QED BY <1>1 DEF FramesAt, AllFrames, FrameEnds, EventEnds, GoodLines

LEMMA MeaningIsFrames ==
    ASSUME NEW f, NEW t
    PROVE  Meaning(f, t) = ByPlace(FramesAt(f, t), FrameEnds(f, t))
<1>1. CASE f = "sse"
  <2>1. FramesAt(f, t) = [p \in 1 .. Len(t) + 1 |-> EventAt(f, t, p)]
    BY <1>1, Zenon DEF FramesAt, Frame
  <2> QED BY <1>1, <2>1, Zenon DEF Meaning, EventsOfText, FrameEnds
<1>2. CASE f # "sse"
  <2>1. FramesAt(f, t) = [p \in 1 .. Len(t) + 1 |-> DocumentAt(f, t, p)]
    BY <1>2, Zenon DEF FramesAt, Frame
  <2> QED BY <1>2, <2>1, Zenon DEF Meaning, DocumentsOfText, FrameEnds
<1> QED BY <1>1, <1>2

LEMMA FramesOneMore ==
    ASSUME NEW f, NEW t, IsText(f, t), NEW p \in LineStarts(f, t), NEW ends,
           \A l : l \in ends <=> l \in FrameEnds(f, t) /\ l <= p
    PROVE  /\ p \in FrameEnds(f, t) =>
                ByPlace(FramesAt(f, t), ends) = Append(FramesBefore(f, t, p), Frame(f, t, p))
           /\ p \notin FrameEnds(f, t) =>
                ByPlace(FramesAt(f, t), ends) = FramesBefore(f, t, p)
<1> DEFINE before == {l \in FrameEnds(f, t) : l < p}
           item == FramesAt(f, t)
<1>1. LineStarts(f, t) \subseteq Nat /\ p \in 1 .. Len(t) + 1 /\ FrameEnds(f, t) \subseteq LineStarts(f, t)
  BY StartsAreInText, FramesAreSequence
<1>2. item \in Seq(AllFrames(f, t)) /\ p \in DOMAIN item /\ item[p] = Frame(f, t, p)
  BY <1>1, FramesAreSequence
<1>3. \A l \in before : l < p
  OBVIOUS
<1>4. FramesBefore(f, t, p) = ByPlace(item, before)
  BY Zenon DEF FramesBefore
<1>5. \A l \in FrameEnds(f, t) : l <= p <=> l < p \/ l = p
  BY <1>1
<1>6. /\ p \in FrameEnds(f, t) => ends = before \cup {p}
      /\ p \notin FrameEnds(f, t) => ends = before
  BY <1>5
<1> HIDE DEF before, item
<1>7. ByPlace(item, before \cup {p}) = Append(ByPlace(item, before), item[p])
  BY <1>2, <1>3, OneMoreInOrder
<1> QED BY <1>2, <1>4, <1>6, <1>7 DEF item

LEMMA FramesBeforeNext ==
    ASSUME NEW f, NEW t, IsText(f, t), NEW p \in LineStarts(f, t), NEW n \in LineStarts(f, t), p < n,
           \A l \in LineStarts(f, t) : p < l => n <= l
    PROVE  /\ p \in FrameEnds(f, t) => FramesBefore(f, t, n) = Append(FramesBefore(f, t, p), Frame(f, t, p))
           /\ p \notin FrameEnds(f, t) => FramesBefore(f, t, n) = FramesBefore(f, t, p)
<1> DEFINE ends == {l \in FrameEnds(f, t) : l < n}
<1>1. LineStarts(f, t) \subseteq Nat /\ FrameEnds(f, t) \subseteq LineStarts(f, t)
  BY StartsAreInText, FramesAreSequence
<1>2. \A l : l \in ends <=> l \in FrameEnds(f, t) /\ l <= p
  BY <1>1
<1>3. FramesBefore(f, t, n) = ByPlace(FramesAt(f, t), ends)
  BY Zenon DEF FramesBefore
<1> HIDE DEF ends
<1> QED BY <1>2, <1>3, FramesOneMore

\* The line at p is the last one.
LEMMA FramesAtEnd ==
    ASSUME NEW f, NEW t, IsText(f, t), NEW p \in LineStarts(f, t), \A l \in LineStarts(f, t) : l <= p
    PROVE  /\ p \in FrameEnds(f, t) => Meaning(f, t) = Append(FramesBefore(f, t, p), Frame(f, t, p))
           /\ p \notin FrameEnds(f, t) => Meaning(f, t) = FramesBefore(f, t, p)
<1>1. FrameEnds(f, t) \subseteq LineStarts(f, t)
  BY FramesAreSequence
<1>2. \A l : l \in FrameEnds(f, t) <=> l \in FrameEnds(f, t) /\ l <= p
  BY <1>1
<1> QED BY <1>2, FramesOneMore, MeaningIsFrames

LEMMA FramesArePrefix ==
    ASSUME NEW f, NEW t, IsText(f, t), NEW p \in LineStarts(f, t)
    PROVE  IsPrefix(FramesBefore(f, t, p), Meaning(f, t))
<1> DEFINE before == {l \in FrameEnds(f, t) : l < p}
           first == {l \in FrameEnds(f, t) : l <= p - 1}
<1>1. LineStarts(f, t) \subseteq Nat /\ p \in 1 .. Len(t) + 1 /\ FrameEnds(f, t) \subseteq LineStarts(f, t)
  BY StartsAreInText, FramesAreSequence
<1>2. p - 1 \in Nat /\ \A l \in FrameEnds(f, t) : l < p <=> l <= p - 1
  BY <1>1
<1>3. before = first
  BY <1>2
<1>4. IsPrefix(ByPlace(FramesAt(f, t), first), ByPlace(FramesAt(f, t), FrameEnds(f, t)))
  BY <1>2, FramesAreSequence, FirstInOrderArePrefix
<1>5. FramesBefore(f, t, p) = ByPlace(FramesAt(f, t), before)
  BY Zenon DEF FramesBefore
<1> HIDE DEF before, first
<1> QED BY <1>3, <1>4, <1>5, MeaningIsFrames

LEMMA NoFramesAtFirst ==
    ASSUME NEW f, NEW t, IsText(f, t)
    PROVE  FramesBefore(f, t, 1) = <<>>
<1>1. {l \in FrameEnds(f, t) : l < 1} = {}
  BY StartsAreInText, FramesAreSequence
<1>2. FramesBefore(f, t, 1) = ByPlace(FramesAt(f, t), {})
  BY <1>1, Zenon DEF FramesBefore
<1> QED BY <1>2, FramesAreSequence, NothingInOrder

LEMMA FramesBeforeAreSequence ==
    ASSUME NEW f, NEW t, IsText(f, t), NEW p
    PROVE  FramesBefore(f, t, p) \in Seq(AllFrames(f, t))
  BY FramesAreSequence, InOrderIsSequence DEF FramesBefore

LEMMA MeaningIsSequence ==
    ASSUME NEW f, NEW t, IsText(f, t)
    PROVE  Meaning(f, t) \in Seq(AllFrames(f, t))
  BY FramesAreSequence, InOrderIsSequence, MeaningIsFrames

\* A line of an SSE text ends an event if there is data and no more lines, or
\* if it is blank.
LEMMA EventEndsAt ==
    ASSUME NEW f, NEW t, f = "sse", NEW p \in LineStarts(f, t)
    PROVE  /\ Frame(f, t, p) = EventAt(f, t, p)
           /\ p \in FrameEnds(f, t) <=>
                /\ p \in BlankLines(f, t) \/ \A l \in LineStarts(f, t) : l <= p
                /\ EventAt(f, t, p).data # <<>>
  BY DEF Frame, FrameEnds, EventEnds

\* With no bad line before it, a line of an NDJSON text is a frame if it is a
\* document, and no line is one from the first bad line on.
LEMMA DocumentEndsAt ==
    ASSUME NEW f, NEW t, IsText(f, t), f = "ndjson", NEW p \in LineStarts(f, t),
           \A l \in BadLines(f, t) : p <= l
    PROVE  /\ Frame(f, t, p) = DocumentAt(f, t, p)
           /\ p \in FrameEnds(f, t) <=> IsDocument(DocumentAt(f, t, p))
           /\ p \in BadLines(f, t) <=>
                DocumentAt(f, t, p) # <<>> /\ ~IsDocument(DocumentAt(f, t, p))
           /\ p \in BadLines(f, t) => Meaning(f, t) = FramesBefore(f, t, p)
<1>1. f # "sse" /\ LineStarts(f, t) \subseteq Nat /\ BadLines(f, t) \subseteq LineStarts(f, t)
  BY StartsAreInText DEF BadLines
<1>2. Frame(f, t, p) = DocumentAt(f, t, p) /\ FrameEnds(f, t) = GoodLines(f, t)
  BY <1>1, Zenon DEF Frame, FrameEnds
<1>3. p \in BadLines(f, t) <=> DocumentAt(f, t, p) # <<>> /\ ~IsDocument(DocumentAt(f, t, p))
  BY DEF BadLines
<1>4. p \in GoodLines(f, t) <=> IsDocument(DocumentAt(f, t, p))
  <2>1. ASSUME IsDocument(DocumentAt(f, t, p)), NEW k \in BadLines(f, t) PROVE p < k
    <3>1. p # k
      BY <1>3, <2>1
    <3> QED BY <1>1, <3>1
  <2> QED BY <2>1 DEF GoodLines
<1>5. ASSUME p \in BadLines(f, t) PROVE Meaning(f, t) = FramesBefore(f, t, p)
  <2>1. FrameEnds(f, t) = {l \in FrameEnds(f, t) : l < p}
    BY <1>2, <1>5 DEF GoodLines
  <2> QED BY <2>1, MeaningIsFrames, Zenon DEF FramesBefore
<1> QED BY <1>2, <1>3, <1>4, <1>5

-----------------------------------------------------------------------------
(* StreamParsers: the buffer.                                              *)

LEMMA PartOfSequence ==
    ASSUME NEW C, NEW t \in Seq(C), NEW p \in Nat \ {0}, NEW a \in Nat, a <= Len(t), p <= a + 1
    PROVE  /\ SubSeq(t, p, a) \in Seq(C) /\ Len(SubSeq(t, p, a)) = a - p + 1
           /\ \A k \in 1 .. a - p + 1 : SubSeq(t, p, a)[k] = t[p + k - 1]
  OBVIOUS

LEMMA PartOfPart ==
    ASSUME NEW C, NEW t \in Seq(C), NEW p \in Nat \ {0}, NEW a \in Nat, a <= Len(t), p <= a + 1,
           NEW i \in Nat \ {0}, NEW j \in Nat, j <= a - p + 1
    PROVE  SubSeq(SubSeq(t, p, a), i, j) = SubSeq(t, p + i - 1, p + j - 1)
<1> DEFINE part == SubSeq(t, p, a)
           inner == SubSeq(part, i, j)
           direct == SubSeq(t, p + i - 1, p + j - 1)
<1>1. /\ part \in Seq(C) /\ Len(part) = a - p + 1
      /\ \A k \in 1 .. a - p + 1 : part[k] = t[p + k - 1]
  BY PartOfSequence
<1>2. CASE i > j
  <2>1. inner = <<>>
    BY <1>1, <1>2
  <2>2. direct = <<>>
    BY <1>2
  <2> QED BY <2>1, <2>2
<1>3. CASE i <= j
  <2> HIDE DEF part
  <2>1. inner \in Seq(C) /\ Len(inner) = j - i + 1 /\ \A k \in 1 .. j - i + 1 : inner[k] = part[i + k - 1]
    BY <1>1, <1>3
  <2>2. direct \in Seq(C) /\ Len(direct) = j - i + 1
        /\ \A k \in 1 .. j - i + 1 : direct[k] = t[(p + i - 1) + k - 1]
    <3> DEFINE x == p + i - 1
               y == p + j - 1
    <3>1. x \in Nat \ {0} /\ y \in Nat /\ y <= Len(t) /\ x <= y /\ y - x + 1 = j - i + 1
      BY <1>3
    <3> HIDE DEF x, y
    <3>2. SubSeq(t, x, y) \in Seq(C) /\ Len(SubSeq(t, x, y)) = y - x + 1
          /\ \A k \in 1 .. y - x + 1 : SubSeq(t, x, y)[k] = t[x + k - 1]
      BY <3>1
    <3>3. direct = SubSeq(t, x, y)
      BY DEF x, y
    <3> HIDE DEF direct
    <3> QED BY <3>1, <3>2, <3>3 DEF x
  <2> HIDE DEF inner, direct
  <2>3. \A k \in 1 .. j - i + 1 : inner[k] = direct[k]
    <3> TAKE k \in 1 .. j - i + 1
    <3>1. i + k - 1 \in 1 .. a - p + 1 /\ p + (i + k - 1) - 1 = (p + i - 1) + k - 1
      BY <1>3
    <3>2. inner[k] = part[i + k - 1] /\ part[i + k - 1] = t[p + (i + k - 1) - 1]
          /\ direct[k] = t[(p + i - 1) + k - 1]
      BY <1>1, <2>1, <2>2, <3>1
    <3> QED BY <3>1, <3>2
  <2>4. inner = direct
    BY <2>1, <2>2, <2>3, SeqEqual
  <2> QED BY <2>4 DEF inner, direct, part
<1> QED BY <1>2, <1>3

\* p is the start of the line the buffer begins with.
ReadsFrom(p) ==
    /\ p <= arrived + 1 /\ buffer = SubSeq(text, p, arrived)
    /\ frames = FramesBefore(format, text, p)
    /\ format = "sse" => fields = FieldsBefore(format, text, p)
    /\ format = "ndjson" => \A l \in BadLines(format, text) : p <= l

ParserTypes ==
    /\ IsText(format, text) /\ arrived \in 0 .. Len(text)
    /\ parser \in {"reading", "done", "failed", "broken", "abandoned"}

LEMMA BufferIsText ==
    ASSUME ParserTypes, NEW p \in LineStarts(format, text), ReadsFrom(p)
    PROVE  /\ p \in Nat \ {0} /\ arrived \in Nat /\ arrived <= Len(text) /\ text \in Seq(Tokens(format))
           /\ buffer \in Seq(Tokens(format)) /\ Len(buffer) = arrived - p + 1
           /\ \A i \in 1 .. Len(buffer) : buffer[i] = text[p + i - 1] /\ p + i - 1 \in 1 .. Len(text)
<1>1. p \in 1 .. Len(text) + 1 /\ Len(text) \in Nat
  BY StartsAreInText DEF ParserTypes
<1>2. text \in Seq(Tokens(format)) /\ arrived \in 0 .. Len(text)
  BY DEF ParserTypes, IsText
<1>3. p <= arrived + 1 /\ buffer = SubSeq(text, p, arrived)
  BY DEF ReadsFrom
<1>4. p \in Nat \ {0} /\ arrived \in Nat /\ arrived <= Len(text)
  BY <1>1, <1>2
<1>5. /\ buffer \in Seq(Tokens(format)) /\ Len(buffer) = arrived - p + 1
      /\ \A i \in 1 .. arrived - p + 1 : buffer[i] = text[p + i - 1]
  BY <1>2, <1>3, <1>4, PartOfSequence
<1>6. \A i \in 1 .. arrived - p + 1 : p + i - 1 \in 1 .. Len(text)
  BY <1>1, <1>4
<1> QED BY <1>2, <1>4, <1>5, <1>6

LEMMA LineInBuffer ==
    ASSUME ParserTypes, NEW p \in LineStarts(format, text), ReadsFrom(p), HasLine
    PROVE  \E e \in Nat :
             /\ IsFirstBreak(format, text, p - 1, e)
             /\ BreakEnd(format, text, e) <= arrived
             /\ SubSeq(buffer, 1, LineEnd - 1) = SubSeq(text, p, e - 1)
             /\ SubSeq(buffer, AfterBreak(buffer, LineEnd), Len(buffer))
                    = SubSeq(text, BreakEnd(format, text, e) + 1, arrived)
<1> DEFINE b == LineEnd
           e == p + b - 1
           n == Len(buffer)
<1>1. /\ p \in Nat \ {0} /\ arrived \in Nat /\ arrived <= Len(text) /\ text \in Seq(Tokens(format))
      /\ buffer \in Seq(Tokens(format)) /\ n = arrived - p + 1 /\ n \in Nat
      /\ \A i \in 1 .. n : buffer[i] = text[p + i - 1] /\ p + i - 1 \in 1 .. Len(text)
  BY BufferIsText
<1>2. Breaks(buffer) # {} /\ (Breaks(buffer) = {n} => buffer[n] = "lf")
  BY DEF HasLine
<1>3. \A i : i \in Breaks(buffer) <=> i \in 1 .. n /\ IsBreak(format, buffer[i])
  BY DEF Breaks
<1>4. Len(text) \in Nat /\ buffer = SubSeq(text, p, arrived) /\ p <= arrived + 1
  BY <1>1 DEF ReadsFrom
<1> HIDE DEF n
<1>5. b \in Breaks(buffer) /\ \A i \in Breaks(buffer) : b <= i
  <2>1. Breaks(buffer) \subseteq Nat
    BY <1>1, <1>3
  <2> QED BY <1>2, <2>1, MinIsLeast DEF LineEnd
<1> HIDE DEF b
<1>6. b \in 1 .. n /\ IsBreak(format, buffer[b]) /\ buffer[b] = text[e]
      /\ e \in 1 .. Len(text) /\ p - 1 < e /\ e <= arrived
  BY <1>1, <1>3, <1>5
<1>7. IsFirstBreak(format, text, p - 1, e)
  <2>1. ASSUME NEW i \in 1 .. Len(text), p - 1 < i, i < e PROVE ~IsBreak(format, text[i])
    <3>1. i - p + 1 \in 1 .. n /\ p + (i - p + 1) - 1 = i /\ ~(b <= i - p + 1)
      BY <1>1, <1>6, <2>1
    <3>2. buffer[i - p + 1] = text[i]
      BY <1>1, <3>1
    <3> QED BY <1>3, <1>5, <3>1, <3>2
  <2> QED BY <1>6, <2>1 DEF IsFirstBreak
<1>8. buffer[b] = "cr" => b < n
  <2>1. ASSUME buffer[b] = "cr", b = n PROVE FALSE
    <3>1. \A i \in Breaks(buffer) : i = n
      BY <1>1, <1>3, <1>5, <2>1
    <3>2. Breaks(buffer) = {n}
      BY <1>2, <3>1
    <3> QED BY <1>2, <2>1, <3>2
  <2> QED BY <1>1, <1>6, <2>1
<1>9. SubSeq(buffer, 1, b - 1) = SubSeq(text, p, e - 1)
  <2>1. SubSeq(SubSeq(text, p, arrived), 1, b - 1) = SubSeq(text, p + 1 - 1, p + (b - 1) - 1)
    <3>1. 1 \in Nat \ {0} /\ b - 1 \in Nat /\ b - 1 <= arrived - p + 1
      BY <1>1, <1>6
    <3> QED BY <1>1, <1>4, <3>1, PartOfPart
  <2>2. p + 1 - 1 = p /\ p + (b - 1) - 1 = e - 1
    BY <1>1, <1>6
  <2> QED BY <1>4, <2>1, <2>2
<1>10. ASSUME NEW i \in Nat \ {0}
       PROVE  SubSeq(buffer, i, n) = SubSeq(text, p + i - 1, arrived)
  <2>1. SubSeq(SubSeq(text, p, arrived), i, n) = SubSeq(text, p + i - 1, p + n - 1)
    <3>1. i \in Nat \ {0} /\ n \in Nat /\ n <= arrived - p + 1
      BY <1>1
    <3> QED BY <1>1, <1>4, <3>1, PartOfPart
  <2>2. p + n - 1 = arrived
    BY <1>1
  <2> QED BY <1>4, <2>1, <2>2
<1>11. CASE buffer[b] = "cr" /\ buffer[b + 1] = "lf"
  <2>1. b < n /\ b + 1 \in 1 .. n /\ b + 2 \in Nat \ {0} /\ e < Len(text) /\ e + 1 <= arrived
        /\ p + (b + 1) - 1 = e + 1 /\ p + (b + 2) - 1 = (e + 1) + 1
    BY <1>1, <1>6, <1>8, <1>11
  <2>2. text[e + 1] = "lf" /\ text[e] = "cr"
    BY <1>1, <1>6, <1>11, <2>1
  <2>3. format = "sse"
    BY <1>6, <1>11 DEF IsBreak
  <2>4. BreakEnd(format, text, e) = e + 1
    BY <2>1, <2>2, <2>3 DEF BreakEnd
  <2>5. AfterBreak(buffer, b) = b + 2
    BY <1>11, <2>1 DEF AfterBreak, n
  <2>6. SubSeq(buffer, b + 2, n) = SubSeq(text, (e + 1) + 1, arrived)
    BY <1>10, <2>1
  <2>7. e \in Nat
    BY <1>6
  <2> HIDE DEF e
  <2> QED BY <1>7, <1>9, <2>1, <2>4, <2>5, <2>6, <2>7 DEF b, n
<1>12. CASE ~(buffer[b] = "cr" /\ buffer[b + 1] = "lf")
  <2>1. BreakEnd(format, text, e) = e
    <3>1. ASSUME text[e] = "cr", e < Len(text), text[e + 1] = "lf" PROVE FALSE
      <4>1. b < n
        BY <1>6, <1>8, <3>1
      <4>2. b + 1 \in 1 .. n /\ p + (b + 1) - 1 = e + 1
        BY <1>1, <1>6, <4>1
      <4>3. buffer[b + 1] = text[e + 1]
        BY <1>1, <4>2
      <4> QED BY <1>6, <1>12, <3>1, <4>3
    <3> QED BY <3>1 DEF BreakEnd
  <2>2. AfterBreak(buffer, b) = b + 1
    BY <1>12 DEF AfterBreak
  <2>3. b + 1 \in Nat \ {0} /\ p + (b + 1) - 1 = e + 1 /\ e \in Nat
    BY <1>1, <1>6
  <2>4. SubSeq(buffer, b + 1, n) = SubSeq(text, e + 1, arrived)
    BY <1>10, <2>3
  <2> HIDE DEF e
  <2> QED BY <1>6, <1>7, <1>9, <2>1, <2>2, <2>3, <2>4 DEF b, n
<1> QED BY <1>11, <1>12

\* Without a line in it, and with the whole text arrived, it is the last line.
LEMMA LastLineInBuffer ==
    ASSUME ParserTypes, NEW p \in LineStarts(format, text), ReadsFrom(p), ~HasLine,
           arrived = Len(text), ~EndsInCr
    PROVE  buffer = LineFrom(format, text, p) /\ \A l \in LineStarts(format, text) : l <= p
<1> DEFINE n == Len(buffer)
<1>1. /\ p \in Nat \ {0} /\ arrived \in Nat /\ text \in Seq(Tokens(format))
      /\ buffer \in Seq(Tokens(format)) /\ n = arrived - p + 1 /\ n \in Nat
      /\ \A i \in 1 .. n : buffer[i] = text[p + i - 1] /\ p + i - 1 \in 1 .. Len(text)
  BY BufferIsText
<1>2. buffer = SubSeq(text, p, arrived) /\ p <= arrived + 1
  BY DEF ReadsFrom
<1>3. \A i : i \in Breaks(buffer) <=> i \in 1 .. n /\ IsBreak(format, buffer[i])
  BY DEF Breaks
<1>4. Breaks(buffer) = {} \/ (Breaks(buffer) = {n} /\ buffer[n] # "lf")
  BY DEF HasLine
<1> HIDE DEF n
<1>5. ASSUME Breaks(buffer) = {n}, buffer[n] # "lf" PROVE FALSE
  <2>1. n \in 1 .. n /\ IsBreak(format, buffer[n])
    BY <1>3, <1>5
  <2>2. format = "sse" /\ buffer[n] = "cr"
    BY <1>5, <2>1 DEF IsBreak
  <2>3. buffer[n] = text[p + n - 1] /\ p + n - 1 = Len(text)
    BY <1>1, <2>1
  <2>4. text # <<>>
    BY <1>1, <2>1
  <2> QED BY <2>2, <2>3, <2>4 DEF EndsInCr, Last
<1>6. ASSUME NEW i \in 1 .. Len(text), p - 1 < i PROVE ~IsBreak(format, text[i])
  <2>1. i - p + 1 \in 1 .. n /\ p + (i - p + 1) - 1 = i
    BY <1>1, <1>6
  <2>2. buffer[i - p + 1] = text[i]
    BY <1>1, <2>1
  <2> QED BY <1>3, <1>4, <1>5, <2>1, <2>2
<1>7. p - 1 \in Nat /\ p - 1 <= Len(text) /\ (p - 1) + 1 = p /\ IsText(format, text)
  BY <1>1, <1>2 DEF ParserTypes
<1>8. /\ LineFrom(format, text, (p - 1) + 1) = SubSeq(text, (p - 1) + 1, Len(text))
      /\ \A l \in LineStarts(format, text) : l <= (p - 1) + 1
  BY <1>6, <1>7, LineAtEnd
<1> QED BY <1>2, <1>7, <1>8

-----------------------------------------------------------------------------
(* StreamParsers: the invariant.                                           *)

AllIsRead ==
    /\ frames = Meaning(format, text)
    /\ (parser = "failed") = (format = "ndjson" /\ BadLines(format, text) # {})

ParserInv ==
    /\ ParserTypes
    /\ parser \in {"reading", "broken", "abandoned"} =>
         \E p \in LineStarts(format, text) : ReadsFrom(p)
    /\ parser \in {"done", "failed"} /\ ~EndsInCr => AllIsRead

LEMMA ParserStarts == ParserInit => ParserInv
<1> SUFFICES ASSUME ParserInit PROVE ParserInv
  OBVIOUS
<1> USE ParsersAssumption
<1>1. /\ format \in {"sse", "ndjson"} /\ arrived = 0 /\ buffer = <<>> /\ fields = NoFields
      /\ frames = <<>> /\ parser = "reading" /\ text \in SeqOf(Tokens(format), MaxLength)
  BY DEF ParserInit
<1>2. text \in Seq(Tokens(format))
  <2>1. PICK n \in 0 .. MaxLength : text \in [1 .. n -> Tokens(format)]
    BY <1>1, Zenon DEF SeqOf
  <2> QED BY <2>1
<1>3. IsText(format, text) /\ Len(text) \in Nat
  BY <1>1, <1>2 DEF IsText
<1>4. ParserTypes
  BY <1>1, <1>3 DEF ParserTypes
<1>5. 1 \in LineStarts(format, text)
  BY DEF LineStarts
<1>6. ReadsFrom(1)
  <2>1. SubSeq(text, 1, 0) = <<>>
    BY <1>2
  <2>2. FramesBefore(format, text, 1) = <<>> /\ FieldsBefore(format, text, 1) = NoFields
    BY <1>3, NoFramesAtFirst, NoFieldsAtFirst
  <2>3. \A l \in BadLines(format, text) : 1 <= l
    BY <1>3, StartsAreInText DEF BadLines
  <2> QED BY <1>1, <2>1, <2>2, <2>3 DEF ReadsFrom
<1> QED BY <1>1, <1>4, <1>5, <1>6 DEF ParserInv

IsJoined(c, a, b, m, n) ==
    \A i \in 1 .. m + n : c[i] = IF i <= m THEN a[i] ELSE b[i - m]

LEMMA JoinedSequence ==
    ASSUME NEW S, NEW a \in Seq(S), NEW b \in Seq(S)
    PROVE  /\ a \o b \in Seq(S) /\ Len(a \o b) = Len(a) + Len(b)
           /\ IsJoined(a \o b, a, b, Len(a), Len(b))
<1>1. a \o b \in Seq(S) /\ Len(a \o b) = Len(a) + Len(b)
  OBVIOUS
<1>2. ASSUME NEW i \in 1 .. Len(a) + Len(b)
      PROVE  (a \o b)[i] = IF i <= Len(a) THEN a[i] ELSE b[i - Len(a)]
  OBVIOUS
<1> QED BY <1>1, <1>2 DEF IsJoined

LEMMA ChunkKeepsInv ==
    ASSUME ParserInv, NEW n \in 1 .. MaxLength, Chunk(n)
    PROVE  ParserInv'
<1>1. /\ parser = "reading" /\ n \in 1 .. Len(text) - arrived /\ arrived' = arrived + n
      /\ buffer' = buffer \o SubSeq(text, arrived + 1, arrived + n)
      /\ format' = format /\ text' = text /\ fields' = fields /\ frames' = frames /\ parser' = parser
  BY DEF Chunk
<1>2. ParserTypes
  BY DEF ParserInv
<1>3. PICK p \in LineStarts(format, text) : ReadsFrom(p)
  BY <1>1 DEF ParserInv
<1>4. /\ p \in Nat \ {0} /\ arrived \in Nat /\ arrived <= Len(text) /\ text \in Seq(Tokens(format))
  BY <1>2, <1>3, BufferIsText
<1>5. p <= arrived + 1 /\ buffer = SubSeq(text, p, arrived)
  BY <1>3 DEF ReadsFrom
<1>6. n \in Nat /\ arrived + n \in 0 .. Len(text)
  BY <1>1, <1>4
<1>7. SubSeq(text, p, arrived) \o SubSeq(text, arrived + 1, arrived + n) = SubSeq(text, p, arrived + n)
  <2> DEFINE a == SubSeq(text, p, arrived)
             b == SubSeq(text, arrived + 1, arrived + n)
             c == SubSeq(text, p, arrived + n)
  <2>1. a \in Seq(Tokens(format)) /\ Len(a) = arrived - p + 1
        /\ \A i \in 1 .. arrived - p + 1 : a[i] = text[p + i - 1]
    BY <1>4, <1>5
  <2>2. b \in Seq(Tokens(format)) /\ Len(b) = n
        /\ \A i \in 1 .. n : b[i] = text[arrived + 1 + i - 1]
    BY <1>4, <1>6
  <2>3. c \in Seq(Tokens(format)) /\ Len(c) = arrived + n - p + 1
        /\ \A i \in 1 .. arrived + n - p + 1 : c[i] = text[p + i - 1]
    BY <1>4, <1>5, <1>6
  <2> HIDE DEF a, b, c
  <2>4. a \o b \in Seq(Tokens(format)) /\ Len(a \o b) = arrived + n - p + 1
        /\ \A i \in 1 .. arrived + n - p + 1 :
              (a \o b)[i] = IF i <= arrived - p + 1 THEN a[i] ELSE b[i - (arrived - p + 1)]
    <3> DEFINE m == arrived - p + 1
    <3>1. m \in Nat /\ m + n \in Nat /\ arrived + n - p + 1 = m + n
      BY <1>4, <1>5, <1>6
    <3>2. Len(a) = m /\ Len(b) = n /\ a \in Seq(Tokens(format)) /\ b \in Seq(Tokens(format))
      BY <2>1, <2>2
    <3> HIDE DEF m
    <3>3. /\ a \o b \in Seq(Tokens(format)) /\ Len(a \o b) = m + n
          /\ IsJoined(a \o b, a, b, m, n)
      BY <3>2, JoinedSequence
    <3>4. \A i \in 1 .. m + n : (a \o b)[i] = IF i <= m THEN a[i] ELSE b[i - m]
      BY <3>3, Zenon DEF IsJoined
    <3> QED BY <3>1, <3>3, <3>4 DEF m
  <2>5. \A i \in 1 .. arrived + n - p + 1 : (a \o b)[i] = c[i]
    <3> TAKE i \in 1 .. arrived + n - p + 1
    <3>1. CASE i <= arrived - p + 1
      BY <1>4, <1>5, <2>1, <2>3, <2>4, <3>1
    <3>2. CASE ~(i <= arrived - p + 1)
      <4> DEFINE j == i - (arrived - p + 1)
      <4>1. j \in 1 .. n /\ arrived + 1 + j - 1 = p + i - 1
        BY <1>4, <1>5, <1>6, <3>2
      <4>2. b[j] = text[p + i - 1]
        BY <2>2, <4>1
      <4> QED BY <2>3, <2>4, <3>2, <4>2
    <3> QED BY <3>1, <3>2
  <2>6. a \o b = c
    BY <2>3, <2>4, <2>5, SeqEqual
  <2> QED BY <2>6 DEF a, b, c
<1>8. ReadsFrom(p)'
  <2>1. p <= arrived' + 1
    BY <1>1, <1>4, <1>5, <1>6
  <2>2. buffer' = SubSeq(text', p, arrived')
    BY <1>1, <1>5, <1>7
  <2> QED BY <1>1, <1>3, <2>1, <2>2 DEF ReadsFrom
<1>9. ParserTypes'
  BY <1>1, <1>2, <1>6 DEF ParserTypes
<1>10. p \in LineStarts(format', text')
  BY <1>1
<1> QED BY <1>1, <1>8, <1>9, <1>10 DEF ParserInv

\* The line in the buffer, and the one after it.
LEMMA TakenLine ==
    ASSUME ParserInv, parser = "reading", HasLine
    PROVE  \E p, n \in LineStarts(format, text) :
             /\ ReadsFrom(p) /\ p < n /\ \A l \in LineStarts(format, text) : p < l => n <= l
             /\ SubSeq(buffer, 1, LineEnd - 1) = LineFrom(format, text, p)
             /\ n <= arrived + 1
             /\ SubSeq(buffer, AfterBreak(buffer, LineEnd), Len(buffer)) = SubSeq(text, n, arrived)
<1>1. ParserTypes /\ IsText(format, text)
  BY DEF ParserInv, ParserTypes
<1>2. PICK p \in LineStarts(format, text) : ReadsFrom(p)
  BY DEF ParserInv
<1>3. PICK e \in Nat :
             /\ IsFirstBreak(format, text, p - 1, e)
             /\ BreakEnd(format, text, e) <= arrived
             /\ SubSeq(buffer, 1, LineEnd - 1) = SubSeq(text, p, e - 1)
             /\ SubSeq(buffer, AfterBreak(buffer, LineEnd), Len(buffer))
                    = SubSeq(text, BreakEnd(format, text, e) + 1, arrived)
  BY <1>1, <1>2, LineInBuffer
<1>4. p \in Nat \ {0} /\ arrived \in Nat
  BY <1>1, <1>2, BufferIsText
<1>5. p - 1 \in Nat /\ (p - 1) + 1 = p
  BY <1>4
<1> DEFINE r == BreakEnd(format, text, e)
<1>6. /\ r \in 1 .. Len(text) /\ e <= r
      /\ LineFrom(format, text, (p - 1) + 1) = SubSeq(text, (p - 1) + 1, e - 1)
      /\ r + 1 \in LineStarts(format, text)
      /\ \A l \in LineStarts(format, text) : (p - 1) + 1 < l => r + 1 <= l
  BY <1>1, <1>3, <1>5, LineAtBreak
<1>7. p < r + 1 /\ r + 1 <= arrived + 1
  <2>1. p - 1 < e
    BY <1>3 DEF IsFirstBreak
  <2> QED BY <1>3, <1>4, <1>6, <2>1
<1> HIDE DEF r
<1>8. LineFrom(format, text, p) = SubSeq(text, p, e - 1)
      /\ \A l \in LineStarts(format, text) : p < l => r + 1 <= l
  BY <1>5, <1>6
<1>9. SubSeq(buffer, AfterBreak(buffer, LineEnd), Len(buffer)) = SubSeq(text, r + 1, arrived)
  BY <1>3 DEF r
<1> QED BY <1>2, <1>3, <1>6, <1>7, <1>8, <1>9

\* With the whole line at p taken, the buffer begins with the line at n.
LEMMA LineTaken ==
    ASSUME ParserInv, NEW p \in LineStarts(format, text), NEW n \in LineStarts(format, text),
           n <= arrived + 1, buffer' = SubSeq(text, n, arrived),
           UNCHANGED <<format, text, arrived, parser>>, parser = "reading",
           frames' = FramesBefore(format, text, n),
           format = "sse" => fields' = FieldsBefore(format, text, n),
           format = "ndjson" => \A l \in BadLines(format, text) : n <= l
    PROVE  ParserInv'
<1>1. format' = format /\ text' = text /\ arrived' = arrived /\ parser' = parser
  OBVIOUS
<1>2. ReadsFrom(n)'
  BY <1>1 DEF ReadsFrom
<1>3. ParserTypes'
  BY <1>1 DEF ParserInv, ParserTypes
<1>4. n \in LineStarts(format', text')
  BY <1>1
<1> QED BY <1>1, <1>2, <1>3, <1>4 DEF ParserInv

LEMMA SseLineKeepsInv ==
    ASSUME ParserInv, TakeLine, format = "sse"
    PROVE  ParserInv'
<1> DEFINE line == SubSeq(buffer, 1, LineEnd - 1)
<1>1. parser = "reading" /\ HasLine /\ UNCHANGED <<format, text, arrived, parser>>
      /\ ProcessLine(line)
      /\ buffer' = SubSeq(buffer, AfterBreak(buffer, LineEnd), Len(buffer))
  BY DEF TakeLine
<1>2. PICK p \in LineStarts(format, text), n \in LineStarts(format, text) :
             /\ ReadsFrom(p) /\ p < n /\ \A l \in LineStarts(format, text) : p < l => n <= l
             /\ line = LineFrom(format, text, p)
             /\ n <= arrived + 1
             /\ SubSeq(buffer, AfterBreak(buffer, LineEnd), Len(buffer)) = SubSeq(text, n, arrived)
  BY <1>1, TakenLine
<1> HIDE DEF line
<1> DEFINE now == EventAt(format, text, p)
           before == FramesBefore(format, text, p)
<1>3. IsText(format, text) /\ LineStarts(format, text) \subseteq Nat
  BY StartsAreInText DEF ParserInv, ParserTypes
<1>4. frames = before /\ fields = FieldsBefore(format, text, p)
  BY <1>2 DEF ReadsFrom
<1>5. /\ p \in BlankLines(format, text) => now = fields
      /\ p \notin BlankLines(format, text) => now = FieldsAfter(line)
  <2> DEFINE F(e, x) ==
                CASE x[1] = "data" -> [e EXCEPT !.data = Append(@, x)]
                  [] x[1] = "event" -> [e EXCEPT !.event = x]
                  [] x[1] = "id" -> [e EXCEPT !.id = x]
                  [] OTHER -> e
  <2>1. /\ p \in BlankLines(format, text) => now = FieldsBefore(format, text, p)
        /\ p \notin BlankLines(format, text) =>
             now = F(FieldsBefore(format, text, p), LineFrom(format, text, p))
    BY <1>3, EventIsFields
  <2>2. FieldsAfter(line) = F(fields, line)
    BY Zenon DEF FieldsAfter
  <2> HIDE DEF F, now
  <2> QED BY <1>2, <1>4, <2>1, <2>2
<1>6. p \in BlankLines(format, text) <=> line = <<>>
  BY <1>2 DEF BlankLines
<1>7. /\ p \notin BlankLines(format, text) => FieldsBefore(format, text, n) = now
      /\ p \in BlankLines(format, text) =>
            FieldsBefore(format, text, n) = [NoFields EXCEPT !.id = now.id]
  BY <1>2, <1>3, FieldsBeforeNext
<1>8. /\ Frame(format, text, p) = now
      /\ p \in FrameEnds(format, text) <=> p \in BlankLines(format, text) /\ now.data # <<>>
  <2>1. ~\A l \in LineStarts(format, text) : l <= p
    BY <1>2, <1>3
  <2> QED BY <2>1, EventEndsAt
<1>9. /\ p \in FrameEnds(format, text) => FramesBefore(format, text, n) = Append(before, now)
      /\ p \notin FrameEnds(format, text) => FramesBefore(format, text, n) = before
  BY <1>2, <1>3, <1>8, FramesBeforeNext
<1> HIDE DEF now, before
<1>10. fields' = FieldsBefore(format, text, n) /\ frames' = FramesBefore(format, text, n)
  <2>1. CASE line = <<>>
    <3>1. frames' = Dispatched(frames) /\ fields' = [NoFields EXCEPT !.id = fields.id]
      BY <1>1, <2>1 DEF ProcessLine
    <3>2. Dispatched(frames) = IF now.data = <<>> THEN frames ELSE Append(frames, now)
      BY <1>5, <1>6, <2>1 DEF Dispatched
    <3> QED BY <1>4, <1>5, <1>6, <1>7, <1>8, <1>9, <2>1, <3>1, <3>2
  <2>2. CASE line # <<>>
    <3>1. frames' = frames /\ fields' = FieldsAfter(line)
      BY <1>1, <2>2 DEF ProcessLine
    <3> QED BY <1>4, <1>5, <1>6, <1>7, <1>8, <1>9, <2>2, <3>1
  <2> QED BY <2>1, <2>2
<1> QED BY <1>1, <1>2, <1>10, LineTaken

\* The bad lines are at p or after it.
LEMMA BadFromNext ==
    ASSUME NEW f, NEW t, NEW p, NEW n, \A l \in BadLines(f, t) : p <= l, p \notin BadLines(f, t),
           \A l \in LineStarts(f, t) : p < l => n <= l, p \in Nat, LineStarts(f, t) \subseteq Nat
    PROVE  \A l \in BadLines(f, t) : n <= l
<1>1. BadLines(f, t) \subseteq LineStarts(f, t)
  BY DEF BadLines
<1> QED BY <1>1

LEMMA NdjsonLineKeepsInv ==
    ASSUME ParserInv, TakeLine, format = "ndjson"
    PROVE  ParserInv'
<1> DEFINE line == SubSeq(buffer, 1, LineEnd - 1)
<1>1. parser = "reading" /\ HasLine /\ UNCHANGED <<format, text, arrived>>
      /\ ProcessDocument(Trimmed(line))
      /\ buffer' = SubSeq(buffer, AfterBreak(buffer, LineEnd), Len(buffer))
  BY DEF TakeLine
<1>2. PICK p \in LineStarts(format, text), n \in LineStarts(format, text) :
             /\ ReadsFrom(p) /\ p < n /\ \A l \in LineStarts(format, text) : p < l => n <= l
             /\ line = LineFrom(format, text, p)
             /\ n <= arrived + 1
             /\ SubSeq(buffer, AfterBreak(buffer, LineEnd), Len(buffer)) = SubSeq(text, n, arrived)
  BY <1>1, TakenLine
<1> HIDE DEF line
<1> DEFINE now == DocumentAt(format, text, p)
           before == FramesBefore(format, text, p)
<1>3. IsText(format, text) /\ LineStarts(format, text) \subseteq Nat /\ p \in Nat
  BY StartsAreInText DEF ParserInv, ParserTypes
<1>4. frames = before /\ \A l \in BadLines(format, text) : p <= l
  BY <1>2 DEF ReadsFrom
<1>5. Trimmed(line) = now
  BY <1>2, Zenon DEF DocumentAt
<1>6. /\ Frame(format, text, p) = now
      /\ p \in FrameEnds(format, text) <=> IsDocument(now)
      /\ p \in BadLines(format, text) <=> now # <<>> /\ ~IsDocument(now)
      /\ p \in BadLines(format, text) => Meaning(format, text) = before
  BY <1>3, <1>4, DocumentEndsAt
<1>7. /\ p \in FrameEnds(format, text) => FramesBefore(format, text, n) = Append(before, now)
      /\ p \notin FrameEnds(format, text) => FramesBefore(format, text, n) = before
  BY <1>2, <1>3, <1>6, FramesBeforeNext
<1> HIDE DEF now, before
<1>8. ~IsDocument(<<>>)
  BY DEF IsDocument
<1>9. \/ now = <<>> /\ UNCHANGED <<frames, parser>>
      \/ IsDocument(now) /\ frames' = Append(frames, now) /\ UNCHANGED parser
      \/ now # <<>> /\ ~IsDocument(now) /\ parser' = "failed" /\ UNCHANGED frames
  BY <1>1, <1>5 DEF ProcessDocument
<1>10. CASE now = <<>> \/ IsDocument(now)
  <2>1. UNCHANGED parser /\ frames' = FramesBefore(format, text, n)
    BY <1>4, <1>6, <1>7, <1>8, <1>9, <1>10
  <2>2. p \notin BadLines(format, text)
    BY <1>6, <1>10
  <2>3. \A l \in BadLines(format, text) : n <= l
    BY <1>2, <1>3, <1>4, <2>2, BadFromNext
  <2>4. format # "sse"
    OBVIOUS
  <2>5. UNCHANGED <<format, text, arrived, parser>>
    BY <1>1, <2>1
  <2>6. buffer' = SubSeq(text, n, arrived)
    BY <1>1, <1>2
  <2> QED BY <1>1, <1>2, <2>1, <2>3, <2>4, <2>5, <2>6, LineTaken
<1>11. CASE now # <<>> /\ ~IsDocument(now)
  <2>1. parser' = "failed" /\ frames' = frames /\ format' = format /\ text' = text /\ arrived' = arrived
    BY <1>1, <1>9, <1>11
  <2>2. p \in BadLines(format, text)
    BY <1>6, <1>11
  <2>3. AllIsRead'
    BY <1>4, <1>6, <2>1, <2>2 DEF AllIsRead
  <2>4. ParserTypes'
    BY <2>1 DEF ParserInv, ParserTypes
  <2> QED BY <2>1, <2>3, <2>4 DEF ParserInv
<1> QED BY <1>10, <1>11

LEMMA EndOfTextKeepsInv ==
    ASSUME ParserInv, EndOfText
    PROVE  ParserInv'
<1>1. /\ parser = "reading" /\ ~HasLine /\ arrived = Len(text)
      /\ format' = format /\ text' = text /\ arrived' = arrived
  BY DEF EndOfText
<1>2. /\ format = "sse" => EndsSse
      /\ format # "sse" => EndsNdjson
  BY DEF EndOfText
<1>3. ParserTypes /\ IsText(format, text) /\ format \in {"sse", "ndjson"}
  BY DEF ParserInv, ParserTypes, IsText
<1>4. parser' \in {"done", "failed"}
  BY <1>2 DEF EndsSse, EndsNdjson
<1>5. ParserTypes'
  BY <1>1, <1>3, <1>4 DEF ParserTypes
<1>6. ASSUME ~EndsInCr PROVE AllIsRead'
  <2>1. PICK p \in LineStarts(format, text) : ReadsFrom(p)
    BY <1>1 DEF ParserInv
  <2>2. buffer = LineFrom(format, text, p) /\ \A l \in LineStarts(format, text) : l <= p
    BY <1>1, <1>3, <1>6, <2>1, LastLineInBuffer
  <2> DEFINE before == FramesBefore(format, text, p)
             frame == Frame(format, text, p)
  <2>3. frames = before
    BY <2>1 DEF ReadsFrom
  <2>4. /\ p \in FrameEnds(format, text) => Meaning(format, text) = Append(before, frame)
        /\ p \notin FrameEnds(format, text) => Meaning(format, text) = before
    BY <1>3, <2>2, FramesAtEnd
  <2>5. CASE format = "sse"
    <3> DEFINE now == EventAt(format, text, p)
               F(e, x) ==
                CASE x[1] = "data" -> [e EXCEPT !.data = Append(@, x)]
                  [] x[1] = "event" -> [e EXCEPT !.event = x]
                  [] x[1] = "id" -> [e EXCEPT !.id = x]
                  [] OTHER -> e
               last == IF buffer = <<>> THEN fields ELSE FieldsAfter(buffer)
    <3>1. /\ p \in BlankLines(format, text) => now = FieldsBefore(format, text, p)
          /\ p \notin BlankLines(format, text) =>
               now = F(FieldsBefore(format, text, p), LineFrom(format, text, p))
      BY <1>3, EventIsFields
    <3>2. FieldsAfter(buffer) = F(fields, buffer)
      BY Zenon DEF FieldsAfter
    <3>3. frame = now /\ (p \in FrameEnds(format, text) <=> now.data # <<>>)
      BY <2>2, <2>5, EventEndsAt
    <3>4. fields = FieldsBefore(format, text, p)
      BY <2>1, <2>5 DEF ReadsFrom
    <3>5. p \in BlankLines(format, text) <=> buffer = <<>>
      BY <2>2 DEF BlankLines
    <3>6. frames' = (IF last.data = <<>> THEN frames ELSE Append(frames, last)) /\ parser' = "done"
      BY <1>2, <2>5 DEF EndsSse
    <3> HIDE DEF F, now
    <3>7. last = now
      BY <2>2, <3>1, <3>2, <3>4, <3>5
    <3> HIDE DEF last, before, frame
    <3>8. frames' = Meaning(format, text)
      BY <2>3, <2>4, <3>3, <3>6, <3>7
    <3> QED BY <1>1, <2>5, <3>6, <3>8 DEF AllIsRead
  <2>6. CASE format = "ndjson"
    <3> DEFINE now == DocumentAt(format, text, p)
    <3>1. Trimmed(buffer) = now
      BY <2>2, Zenon DEF DocumentAt
    <3>2. \A l \in BadLines(format, text) : p <= l
      BY <2>1, <2>6 DEF ReadsFrom
    <3>3. /\ frame = now
          /\ p \in FrameEnds(format, text) <=> IsDocument(now)
          /\ p \in BadLines(format, text) <=> now # <<>> /\ ~IsDocument(now)
      BY <1>3, <2>6, <3>2, DocumentEndsAt
    <3>4. BadLines(format, text) # {} <=> p \in BadLines(format, text)
      <4>1. LineStarts(format, text) \subseteq Nat /\ BadLines(format, text) \subseteq LineStarts(format, text)
        BY <1>3, StartsAreInText DEF BadLines
      <4>2. \A l \in BadLines(format, text) : l = p
        BY <2>2, <3>2, <4>1
      <4> QED BY <4>2
    <3>5. EndsNdjson
      BY <1>2, <2>6
    <3>6. ~IsDocument(<<>>)
      BY DEF IsDocument
    <3> HIDE DEF now, before, frame
    <3>7. CASE now = <<>> \/ IsDocument(now)
      <4>1. parser' = "done" /\ frames' = frames \o IF now = <<>> THEN <<>> ELSE <<now>>
        BY <3>1, <3>5, <3>7, Zenon DEF EndsNdjson
      <4>2. frames \in Seq(AllFrames(format, text))
        BY <1>3, <2>3, FramesBeforeAreSequence DEF before
      <4>3. frames' = Meaning(format, text)
        <5>1. ASSUME now = <<>> PROVE frames' = before
          BY <2>3, <4>1, <4>2, <5>1
        <5>2. ASSUME IsDocument(now) PROVE frames' = Append(before, now)
          <6>1. now # <<>>
            BY <3>6, <5>2
          <6>2. frames' = frames \o <<now>>
            BY <4>1, <6>1
          <6> QED BY <2>3, <4>2, <6>2
        <5> QED BY <2>4, <3>3, <3>6, <3>7, <5>1, <5>2
      <4>4. BadLines(format, text) = {}
        BY <3>3, <3>4, <3>7
      <4> QED BY <1>1, <4>1, <4>3, <4>4 DEF AllIsRead
    <3>8. CASE now # <<>> /\ ~IsDocument(now)
      <4>1. parser' = "failed" /\ frames' = frames
        BY <3>1, <3>5, <3>8 DEF EndsNdjson
      <4>2. BadLines(format, text) # {} /\ frames' = Meaning(format, text)
        BY <2>3, <2>4, <3>3, <3>8, <4>1
      <4> QED BY <1>1, <2>6, <4>1, <4>2 DEF AllIsRead
    <3> QED BY <3>7, <3>8
  <2> QED BY <1>3, <2>5, <2>6
<1>7. EndsInCr' = EndsInCr
  BY <1>1 DEF EndsInCr
<1> QED BY <1>4, <1>5, <1>6, <1>7 DEF ParserInv

LEMMA StepKeepsInv ==
    ASSUME ParserInv, [ParserNext]_parserVars
    PROVE  ParserInv'
<1>1. ASSUME UNCHANGED <<format, text, arrived, buffer, fields, frames>>,
             parser \in {"reading", "broken", "abandoned"}, parser' \in {"reading", "broken", "abandoned"}
      PROVE  ParserInv'
  <2>1. PICK p \in LineStarts(format, text) : ReadsFrom(p)
    BY <1>1 DEF ParserInv
  <2>2. ReadsFrom(p)' /\ p \in LineStarts(format', text')
    BY <1>1, <2>1 DEF ReadsFrom
  <2>3. ParserTypes'
    BY <1>1 DEF ParserInv, ParserTypes
  <2> QED BY <1>1, <2>2, <2>3 DEF ParserInv
<1>2. ASSUME NEW n \in 1 .. MaxLength, Chunk(n) PROVE ParserInv'
  BY <1>2, ChunkKeepsInv
<1>3. CASE TakeLine
  <2>1. format \in {"sse", "ndjson"}
    BY DEF ParserInv, ParserTypes, IsText
  <2> QED BY <1>3, <2>1, SseLineKeepsInv, NdjsonLineKeepsInv
<1>4. CASE EndOfText
  BY <1>4, EndOfTextKeepsInv
<1>5. CASE ReadFails
  BY <1>1, <1>5 DEF ReadFails
<1>6. CASE Abandon
  BY <1>1, <1>6 DEF Abandon
<1>7. CASE UNCHANGED parserVars
  <2>1. /\ format' = format /\ text' = text /\ arrived' = arrived /\ buffer' = buffer
        /\ fields' = fields /\ frames' = frames /\ parser' = parser
    BY <1>7 DEF parserVars
  <2>2. CASE parser \in {"reading", "broken", "abandoned"}
    BY <1>1, <2>1, <2>2
  <2>3. CASE parser \in {"done", "failed"}
    <3>1. ParserTypes' /\ EndsInCr' = EndsInCr /\ AllIsRead' = AllIsRead
      BY <2>1 DEF ParserInv, ParserTypes, EndsInCr, AllIsRead
    <3> QED BY <2>1, <2>3, <3>1 DEF ParserInv
  <2>4. parser \in {"reading", "done", "failed", "broken", "abandoned"}
    BY DEF ParserInv, ParserTypes
  <2> QED BY <2>2, <2>3, <2>4
<1> QED BY <1>2, <1>3, <1>4, <1>5, <1>6, <1>7 DEF ParserNext

LEMMA InvIsEnough == ParserInv => ChunksDoNotMatter
<1> SUFFICES ASSUME ParserInv, ~EndsInCr
             PROVE  /\ IsPrefix(frames, Meaning(format, text))
                    /\ parser \in {"done", "failed"} => AllIsRead
  BY Zenon DEF ChunksDoNotMatter, AllIsRead
<1>1. IsText(format, text) /\ parser \in {"reading", "done", "failed", "broken", "abandoned"}
  BY DEF ParserInv, ParserTypes
<1>2. parser \in {"done", "failed"} => AllIsRead
  BY DEF ParserInv
<1>3. CASE parser \in {"done", "failed"}
  <2>1. frames = Meaning(format, text)
    BY <1>2, <1>3 DEF AllIsRead
  <2>2. IsPrefix(frames, frames)
    <3>1. Meaning(format, text) \in Seq(AllFrames(format, text))
      BY <1>1, MeaningIsSequence
    <3>2. Len(frames) \in Nat /\ SubSeq(frames, 1, Len(frames)) = frames
      BY <2>1, <3>1
    <3> QED BY <3>2 DEF IsPrefix
  <2> QED BY <1>2, <2>1, <2>2
<1>4. CASE parser \in {"reading", "broken", "abandoned"}
  <2>1. PICK p \in LineStarts(format, text) : ReadsFrom(p)
    BY <1>4 DEF ParserInv
  <2>2. frames = FramesBefore(format, text, p)
    BY <2>1 DEF ReadsFrom
  <2> QED BY <1>1, <1>2, <2>2, FramesArePrefix
<1> QED BY <1>1, <1>3, <1>4

\* parseSseStream and parseNdjsonStream yield what the text means, however the
\* connection cuts it into chunks, in the middle of a line, of a document or of
\* a CRLF: at any time a beginning of its frames, at the end all of them, and an
\* NDJSON stream fails at its first bad line and only there.  A text of any
\* length, of any tokens; an SSE text that ends in a lone CR is the exception.
THEOREM ChunkingDoesNotMatter == ParserSpec => []ChunksDoNotMatter
<1>1. ParserInit => ParserInv
  BY ParserStarts
<1>2. ParserInv /\ [ParserNext]_parserVars => ParserInv'
  BY StepKeepsInv
<1>3. ParserInv => ChunksDoNotMatter
  BY InvIsEnough
<1> QED BY <1>1, <1>2, <1>3, PTL DEF ParserSpec

-----------------------------------------------------------------------------
(* ToolCallAccumulator.  The pieces of a call go to the first entry that   *)
(* is the same call, and a call without one is a new entry.  As long as    *)
(* every call has an id there is one entry for each id.                    *)

Names == Ids \cup {NoId} \cup Nat
CallRecords == [id : Names, pieces : Seq(Nat \X Nat)]

\* The entries that are the same call.
Same(entries, call, place) == {i \in DOMAIN entries : IsSameToolCall(entries[i], call, i, place)}

LEMMA TakeIsTyped ==
    ASSUME NEW entries \in Seq(CallRecords), NEW call \in CallRecords, NEW place \in Nat
    PROVE  /\ Take(entries, call, place) \in Seq(CallRecords)
           /\ Same(entries, call, place) # {} =>
                /\ Min(Same(entries, call, place)) \in Same(entries, call, place)
                /\ \A i \in Same(entries, call, place) : Min(Same(entries, call, place)) <= i
<1>1. Same(entries, call, place) \subseteq Nat /\ Same(entries, call, place) \subseteq DOMAIN entries
  BY DEF Same
<1>2. Same(entries, call, place) # {} =>
                /\ Min(Same(entries, call, place)) \in Same(entries, call, place)
                /\ \A i \in Same(entries, call, place) : Min(Same(entries, call, place)) <= i
  BY <1>1, MinIsLeast
<1>3. ASSUME NEW m \in DOMAIN entries
      PROVE  [entries EXCEPT ![m] = MergeToolCall(@, call)] \in Seq(CallRecords)
  <2>1. entries[m] \in CallRecords
    OBVIOUS
  <2>2. entries[m].pieces \o call.pieces \in Seq(Nat \X Nat)
    BY <2>1, ConcatProperties DEF CallRecords
  <2>3. MergeToolCall(entries[m], call) \in CallRecords
    BY <2>1, <2>2 DEF MergeToolCall, CallRecords
  <2> QED BY <2>3
<1>4. Append(entries, call) \in Seq(CallRecords)
  OBVIOUS
<1> QED BY <1>1, <1>2, <1>3, <1>4 DEF Take, Same

\* The entries after each of the calls.
Taken(entries, calls) ==
    CHOOSE taken : taken = [i \in 0 .. Len(calls) |->
        IF i = 0 THEN entries ELSE Take(taken[i - 1], calls[i], i)]

LEMMA ProcessTakesAll ==
    ASSUME NEW entries \in Seq(CallRecords), NEW calls \in Seq(CallRecords)
    PROVE  /\ Process(entries, calls) = Taken(entries, calls)[Len(calls)]
           /\ Taken(entries, calls) \in [0 .. Len(calls) -> Seq(CallRecords)]
           /\ Taken(entries, calls)[0] = entries
           /\ \A i \in 1 .. Len(calls) : 
                Taken(entries, calls)[i] = Take(Taken(entries, calls)[i - 1], calls[i], i)
<1> DEFINE n == Len(calls)
           F == [i \in 1 .. n |-> [sofar \in Seq(CallRecords) |-> Take(sofar, calls[i], i)]]
           g == Taken(entries, calls)
<1>0. n \in Nat /\ \A i \in 1 .. n : calls[i] \in CallRecords
  OBVIOUS
<1>1. F \in [1 .. n -> [Seq(CallRecords) -> Seq(CallRecords)]]
  <2>1. \A i \in 1 .. n, sofar \in Seq(CallRecords) : Take(sofar, calls[i], i) \in Seq(CallRecords)
    <3> TAKE i \in 1 .. n, sofar \in Seq(CallRecords)
    <3>1. i \in Nat /\ calls[i] \in CallRecords
      BY <1>0
    <3> QED BY <3>1, TakeIsTyped
  <2> QED BY <2>1
<1>2. \A i \in 1 .. n, sofar \in Seq(CallRecords) : F[i][sofar] = Take(sofar, calls[i], i)
  OBVIOUS
<1>3. PICK f \in [0 .. n -> Seq(CallRecords)] : IsRecursion(f, n, entries, F)
  <2> HIDE DEF n, F
  <2> QED BY <1>0, <1>1, RecursionExists
<1> HIDE DEF F
<1>4. f = [i \in 0 .. n |-> IF i = 0 THEN entries ELSE Take(f[i - 1], calls[i], i)]
  <2>1. \A i \in 0 .. n : f[i] = IF i = 0 THEN entries ELSE F[i][f[i - 1]]
    BY <1>3 DEF IsRecursion
  <2>2. \A i \in 0 .. n : i # 0 => i \in 1 .. n /\ f[i - 1] \in Seq(CallRecords)
    BY <1>0
  <2>3. \A i \in 0 .. n : f[i] = IF i = 0 THEN entries ELSE Take(f[i - 1], calls[i], i)
    BY <1>2, <2>1, <2>2
  <2> QED BY <2>3
<1>5. g = [i \in 0 .. n |-> IF i = 0 THEN entries ELSE Take(g[i - 1], calls[i], i)]
  BY <1>4, Zenon DEF Taken
<1>6. Process(entries, calls) = g[n]
  BY Zenon DEF Process, Taken
<1> HIDE DEF g, n
<1>7. PICK G : G = [i \in 0 .. n |-> IF i = 0 THEN entries ELSE Take(g[i - 1], calls[i], i)]
  OBVIOUS
<1>8. g = G
  BY <1>5, <1>7, Zenon
<1>9. \A i \in 0 .. n : g[i] = IF i = 0 THEN entries ELSE Take(g[i - 1], calls[i], i)
  BY <1>7, <1>8
<1>10. g \in [0 .. n -> Seq(CallRecords)]
  <2>1. g = [i \in 0 .. n |-> g[i]]
    <3>1. G = [i \in 0 .. n |-> G[i]]
      BY <1>7
    <3> QED BY <1>8, <3>1
  <2>2. \A i \in 0 .. n : (i # 0 => g[i - 1] \in Seq(CallRecords)) =>
            g[i] = IF i = 0 THEN entries ELSE F[i][g[i - 1]]
    <3>1. \A i \in 0 .. n : i # 0 => i \in 1 .. n
      BY <1>0
    <3> QED BY <1>2, <1>9, <3>1
  <2>3. n \in Nat
    BY <1>0
  <2>4. IsRecursionWhereTyped(g, n, Seq(CallRecords), entries, F)
    BY <2>1, <2>2 DEF IsRecursionWhereTyped
  <2> QED BY <1>1, <2>3, <2>4, RecursionHasType
<1>11. g[0] = entries
  BY <1>0, <1>9
<1>12. \A i \in 1 .. n : g[i] = Take(g[i - 1], calls[i], i)
  BY <1>0, <1>9
<1> QED BY <1>6, <1>10, <1>11, <1>12 DEF g, n

-----------------------------------------------------------------------------
(* ToolCallAccumulator: the pieces of an id.                               *)

ArgumentPieces == Nat \X Nat
PartsOf(calls, id) == [i \in DOMAIN calls |-> IF calls[i].id = id THEN calls[i].pieces ELSE <<>>]

LEMMA PartsAreSequences ==
    ASSUME NEW calls \in Seq(CallRecords), NEW id
    PROVE  PartsOf(calls, id) \in Seq(Seq(ArgumentPieces)) /\ Len(PartsOf(calls, id)) = Len(calls)
<1> DEFINE part(i) == IF calls[i].id = id THEN calls[i].pieces ELSE <<>>
<1>1. \A i \in 1 .. Len(calls) : calls[i] \in CallRecords
  OBVIOUS
<1>2. \A call \in CallRecords : call.pieces \in Seq(ArgumentPieces)
  BY DEF CallRecords, ArgumentPieces
<1>3. <<>> \in Seq(ArgumentPieces)
  OBVIOUS
<1>4. \A i \in 1 .. Len(calls) : part(i) \in Seq(ArgumentPieces)
  BY <1>1, <1>2, <1>3
<1>5. PartsOf(calls, id) = [i \in 1 .. Len(calls) |-> part(i)]
  BY DEF PartsOf
<1> HIDE DEF part
<1>6. [i \in 1 .. Len(calls) |-> part(i)] \in Seq(Seq(ArgumentPieces))
  BY <1>4
<1>7. Len([i \in 1 .. Len(calls) |-> part(i)]) = Len(calls)
  OBVIOUS
<1> QED BY <1>5, <1>6, <1>7

LEMMA PiecesOfOneMore ==
    ASSUME NEW calls \in Seq(CallRecords), NEW call \in CallRecords, NEW id
    PROVE  /\ PiecesOf(calls, id) \in Seq(ArgumentPieces)
           /\ call.id = id => PiecesOf(Append(calls, call), id) = PiecesOf(calls, id) \o call.pieces
           /\ call.id # id => PiecesOf(Append(calls, call), id) = PiecesOf(calls, id)
<1> DEFINE part == IF call.id = id THEN call.pieces ELSE <<>>
           parts == PartsOf(calls, id)
<1>1. part \in Seq(ArgumentPieces)
  BY DEF CallRecords, ArgumentPieces
<1>2. parts \in Seq(Seq(ArgumentPieces)) /\ Len(parts) = Len(calls)
  BY PartsAreSequences
<1>3. PartsOf(Append(calls, call), id) = Append(parts, part)
  <2>1. Append(calls, call) \in Seq(CallRecords) /\ Len(Append(calls, call)) = Len(calls) + 1
    OBVIOUS
  <2> DEFINE more == PartsOf(Append(calls, call), id)
  <2>2. more \in Seq(Seq(ArgumentPieces)) /\ Len(more) = Len(calls) + 1
    BY <2>1, PartsAreSequences
  <2>3. Append(parts, part) \in Seq(Seq(ArgumentPieces)) /\ Len(Append(parts, part)) = Len(calls) + 1
    BY <1>1, <1>2
  <2>4. ASSUME NEW i \in 1 .. Len(calls) + 1 PROVE more[i] = Append(parts, part)[i]
    <3>1. more[i] = IF Append(calls, call)[i].id = id THEN Append(calls, call)[i].pieces ELSE <<>>
      BY <2>1 DEF PartsOf
    <3>2. CASE i = Len(calls) + 1
      <4>1. Append(calls, call)[i] = call /\ Append(parts, part)[i] = part
        BY <1>1, <1>2, <3>2
      <4> QED BY <3>1, <4>1
    <3>3. CASE i # Len(calls) + 1
      <4>1. i \in 1 .. Len(calls)
        BY <3>3
      <4>2. Append(calls, call)[i] = calls[i] /\ Append(parts, part)[i] = parts[i]
        BY <1>1, <1>2, <4>1
      <4>3. parts[i] = IF calls[i].id = id THEN calls[i].pieces ELSE <<>>
        BY <4>1 DEF PartsOf
      <4> QED BY <3>1, <4>2, <4>3
    <3> QED BY <3>2, <3>3
  <2> HIDE DEF more, parts, part
  <2>5. more = Append(parts, part)
    BY <2>2, <2>3, <2>4, SeqEqual
  <2> QED BY <2>5 DEF more
<1>4. PiecesOf(calls, id) = FlattenSeq(parts)
  BY Zenon DEF PiecesOf, PartsOf
<1>5. PiecesOf(Append(calls, call), id) = FlattenSeq(Append(parts, part))
  BY <1>3, Zenon DEF PiecesOf, PartsOf
<1> HIDE DEF parts, part
<1>6. FlattenSeq(parts) \in Seq(ArgumentPieces) /\ FlattenSeq(Append(parts, part)) = FlattenSeq(parts) \o part
  BY <1>1, <1>2, FlattenAppends
<1>7. CASE call.id = id
  <2>1. part = call.pieces
    BY <1>7 DEF part
  <2> QED BY <1>4, <1>5, <1>6, <1>7, <2>1
<1>8. CASE call.id # id
  <2>1. part = <<>>
    BY <1>8 DEF part
  <2>2. FlattenSeq(parts) \o <<>> = FlattenSeq(parts)
    BY <1>6, ConcatEmptySeq
  <2> QED BY <1>4, <1>5, <1>6, <1>8, <2>1, <2>2
<1> QED BY <1>7, <1>8

LEMMA NoPiecesOfOthers ==
    ASSUME NEW calls \in Seq(CallRecords), NEW id, id \notin IdsOf(calls)
    PROVE  PiecesOf(calls, id) = <<>>
<1> DEFINE parts == PartsOf(calls, id)
           g == [i \in 0 .. Len(parts) |-> Nothing]
<1>1. parts \in Seq(Seq(ArgumentPieces)) /\ Len(parts) = Len(calls)
  BY PartsAreSequences
<1>2. \A i \in 1 .. Len(calls) : parts[i] = Nothing
  BY DEF PartsOf, IdsOf, Nothing
<1>3. Nothing \in Seq(ArgumentPieces) /\ Nothing \o Nothing = Nothing
  BY ConcatEmptySeq DEF Nothing
<1>4. PiecesOf(calls, id) = FlattenSeq(parts)
  BY Zenon DEF PiecesOf, PartsOf
<1> HIDE DEF parts
<1>5. IsGathering(g, ArgumentPieces, parts)
  <2>1. g \in [0 .. Len(parts) -> Seq(ArgumentPieces)] /\ g[0] = Nothing
    BY <1>1, <1>3
  <2>2. ASSUME NEW i \in 1 .. Len(parts) PROVE g[i] = g[i - 1] \o parts[i]
    <3>1. parts[i] = Nothing
      BY <1>1, <1>2
    <3>2. g[i] = Nothing /\ g[i - 1] = Nothing
      BY <1>1
    <3> HIDE DEF g
    <3> QED BY <1>3, <3>1, <3>2, Zenon
  <2> HIDE DEF g
  <2> QED BY <2>1, <2>2 DEF IsGathering
<1>6. g[Len(parts)] = Nothing
  BY <1>1
<1> HIDE DEF g
<1> QED BY <1>1, <1>4, <1>5, <1>6, FlattenIsGathered DEF Nothing

-----------------------------------------------------------------------------
(* ToolCallAccumulator: one entry for each id.                             *)

LEMMA EntriesAreDistinct ==
    ASSUME NEW entries \in Seq(CallRecords), NEW calls \in Seq(CallRecords), AreOneForEach(entries, calls)
    PROVE  \A i, j \in DOMAIN entries : entries[i].id = entries[j].id => i = j
<1> SUFFICES ASSUME NEW i \in DOMAIN entries, NEW j \in DOMAIN entries, i < j,
                    entries[i].id = entries[j].id
             PROVE  FALSE
  OBVIOUS
<1>1. PICK k \in DOMAIN calls : /\ calls[k].id = entries[i].id
                                /\ \A l \in 1 .. k : calls[l].id # entries[j].id
  BY Zenon DEF AreOneForEach
<1>2. k \in 1 .. k
  BY <1>1
<1> QED BY <1>1, <1>2

\* A round of the loop with a call that has an id.
LEMMA TakeKeepsOneForEach ==
    ASSUME NEW calls \in Seq(CallRecords), NEW entries \in Seq(CallRecords), NEW call \in CallRecords,
           NEW place \in Nat, AreOneForEach(entries, calls),
           NoId \notin IdsOf(calls), call.id # NoId
    PROVE  AreOneForEach(Take(entries, call, place), Append(calls, call))
<1> DEFINE all == Append(calls, call)
           taken == Take(entries, call, place)
           same == Same(entries, call, place)
<1>1. /\ IdsOf(entries) = IdsOf(calls)
      /\ \A i \in DOMAIN entries : entries[i].pieces = PiecesOf(calls, entries[i].id)
      /\ \A i, j \in DOMAIN entries : i < j =>
            \E k \in DOMAIN calls : /\ calls[k].id = entries[i].id
                                    /\ \A l \in 1 .. k : calls[l].id # entries[j].id
  BY Zenon DEF AreOneForEach
<1>2. all \in Seq(CallRecords) /\ DOMAIN all = 1 .. Len(calls) + 1 /\ all[Len(calls) + 1] = call
      /\ \A k \in DOMAIN calls : k \in DOMAIN all /\ all[k] = calls[k]
  OBVIOUS
<1>3. IdsOf(all) = IdsOf(calls) \cup {call.id}
  BY <1>2 DEF IdsOf
<1>4. \A i \in DOMAIN entries : entries[i].id \in IdsOf(calls) /\ entries[i].id # NoId
  BY <1>1 DEF IdsOf
<1>5. same = {i \in DOMAIN entries : entries[i].id = call.id}
  BY <1>4 DEF Same, IsSameToolCall
<1>6. \A id : /\ PiecesOf(calls, id) \in Seq(ArgumentPieces)
              /\ call.id = id => PiecesOf(all, id) = PiecesOf(calls, id) \o call.pieces
              /\ call.id # id => PiecesOf(all, id) = PiecesOf(calls, id)
  BY PiecesOfOneMore
<1>7. taken = IF same = {} THEN Append(entries, call)
              ELSE [entries EXCEPT ![Min(same)] = MergeToolCall(@, call)]
  BY Zenon DEF Take, Same
<1>8. same # {} => Min(same) \in same
  BY TakeIsTyped
<1>9. call.pieces \in Seq(ArgumentPieces)
  BY DEF CallRecords, ArgumentPieces
<1> HIDE DEF all, taken, same
<1>10. CASE same = {}
  <2>1. taken = Append(entries, call)
    BY <1>7, <1>10
  <2>2. taken \in Seq(CallRecords) /\ DOMAIN taken = 1 .. Len(entries) + 1
        /\ taken[Len(entries) + 1] = call
        /\ \A i \in DOMAIN entries : i \in DOMAIN taken /\ taken[i] = entries[i]
    BY <2>1
  <2>3. \A i \in DOMAIN taken : i \in DOMAIN entries \/ i = Len(entries) + 1
    BY <2>2
  <2>4. IdsOf(taken) = IdsOf(entries) \cup {call.id}
    BY <2>2, <2>3 DEF IdsOf
  <2>5. call.id \notin IdsOf(calls)
    BY <1>1, <1>5, <1>10 DEF IdsOf
  <2>6. ASSUME NEW i \in DOMAIN taken
        PROVE  taken[i].pieces = PiecesOf(all, taken[i].id)
    <3>1. CASE i \in DOMAIN entries
      <4>1. taken[i] = entries[i] /\ entries[i].id # call.id
        BY <1>5, <1>10, <2>2, <3>1
      <4> QED BY <1>1, <1>6, <3>1, <4>1
    <3>2. CASE i = Len(entries) + 1
      <4>1. taken[i] = call
        BY <2>2, <3>2
      <4>2. PiecesOf(calls, call.id) = <<>>
        BY <2>5, NoPiecesOfOthers
      <4>3. PiecesOf(all, call.id) = <<>> \o call.pieces
        BY <1>6, <4>2
      <4>4. <<>> \o call.pieces = call.pieces
        BY <1>9, ConcatEmptySeq
      <4> QED BY <4>1, <4>3, <4>4
    <3> QED BY <2>3, <3>1, <3>2
  <2>7. ASSUME NEW i \in DOMAIN taken, NEW j \in DOMAIN taken, i < j
        PROVE  \E k \in DOMAIN all : /\ all[k].id = taken[i].id
                                     /\ \A l \in 1 .. k : all[l].id # taken[j].id
    <3>1. i \in DOMAIN entries /\ taken[i] = entries[i]
      BY <2>2, <2>7
    <3>2. CASE j \in DOMAIN entries
      <4>1. PICK k \in DOMAIN calls : /\ calls[k].id = entries[i].id
                                      /\ \A l \in 1 .. k : calls[l].id # entries[j].id
        BY <1>1, <2>7, <3>1, <3>2
      <4>2. \A l \in 1 .. k : l \in DOMAIN calls /\ all[l] = calls[l]
        BY <1>2
      <4>3. taken[j] = entries[j]
        BY <2>2, <3>2
      <4>4. k \in DOMAIN all /\ all[k] = calls[k]
        BY <1>2
      <4> QED BY <3>1, <4>1, <4>2, <4>3, <4>4
    <3>3. CASE j = Len(entries) + 1
      <4>1. entries[i].id \in IdsOf(calls)
        BY <1>4, <3>1
      <4>2. PICK k \in DOMAIN calls : calls[k].id = entries[i].id
        BY <4>1 DEF IdsOf
      <4>3. \A l \in 1 .. k : l \in DOMAIN calls /\ all[l] = calls[l]
        BY <1>2
      <4>4. \A l \in 1 .. k : calls[l].id # call.id
        BY <2>5, <4>3 DEF IdsOf
      <4>5. taken[j] = call
        BY <2>2, <3>3
      <4>6. k \in DOMAIN all /\ all[k] = calls[k]
        BY <1>2
      <4> QED BY <3>1, <4>2, <4>3, <4>4, <4>5, <4>6
    <3> QED BY <2>3, <3>2, <3>3
  <2> QED BY <1>1, <1>3, <2>4, <2>6, <2>7 DEF AreOneForEach, all, taken
<1>11. CASE same # {}
  <2> DEFINE m == Min(same)
  <2>1. m \in DOMAIN entries /\ entries[m].id = call.id
    BY <1>5, <1>8, <1>11
  <2> HIDE DEF m
  <2>2. taken = [entries EXCEPT ![m] = MergeToolCall(@, call)]
    BY <1>7, <1>11, Zenon DEF m
  <2>3. DOMAIN taken = DOMAIN entries /\ taken[m] = MergeToolCall(entries[m], call)
        /\ \A i \in DOMAIN entries : i # m => taken[i] = entries[i]
    BY <2>1, <2>2
  <2>4. taken[m].id = call.id /\ taken[m].pieces = entries[m].pieces \o call.pieces
    <3>1. MergeToolCall(entries[m], call) =
            [id |-> call.id, pieces |-> entries[m].pieces \o call.pieces]
      BY Zenon DEF MergeToolCall
    <3> DEFINE pieces == entries[m].pieces \o call.pieces
    <3> HIDE DEF pieces
    <3>2. taken[m] = [id |-> call.id, pieces |-> pieces]
      BY <2>3, <3>1, Zenon DEF pieces
    <3>3. taken[m].id = call.id /\ taken[m].pieces = pieces
      BY <3>2
    <3> QED BY <3>3 DEF pieces
  <2>5. \A i \in DOMAIN entries : taken[i].id = entries[i].id
    BY <2>1, <2>3, <2>4
  <2>6. IdsOf(taken) = IdsOf(entries) /\ call.id \in IdsOf(entries)
    BY <2>1, <2>3, <2>5 DEF IdsOf
  <2>7. ASSUME NEW i \in DOMAIN taken
        PROVE  taken[i].pieces = PiecesOf(all, taken[i].id)
    <3>1. CASE i = m
      <4>1. entries[m].pieces = PiecesOf(calls, call.id)
        BY <1>1, <2>1
      <4>2. PiecesOf(all, call.id) = PiecesOf(calls, call.id) \o call.pieces
        BY <1>6
      <4> QED BY <2>4, <3>1, <4>1, <4>2, Zenon
    <3>2. CASE i # m
      <4>1. taken[i] = entries[i] /\ i \in DOMAIN entries
        BY <2>3, <3>2
      <4>2. entries[i].id # call.id
        BY <2>1, <3>2, <4>1, EntriesAreDistinct
      <4> QED BY <1>1, <1>6, <4>1, <4>2
    <3> QED BY <3>1, <3>2
  <2>8. ASSUME NEW i \in DOMAIN taken, NEW j \in DOMAIN taken, i < j
        PROVE  \E k \in DOMAIN all : /\ all[k].id = taken[i].id
                                     /\ \A l \in 1 .. k : all[l].id # taken[j].id
    <3>1. PICK k \in DOMAIN calls : /\ calls[k].id = entries[i].id
                                    /\ \A l \in 1 .. k : calls[l].id # entries[j].id
      BY <1>1, <2>3, <2>8
    <3>2. \A l \in 1 .. k : l \in DOMAIN calls /\ all[l] = calls[l]
      BY <1>2
    <3>3. k \in DOMAIN all /\ all[k] = calls[k]
      BY <1>2
    <3> QED BY <2>3, <2>5, <3>1, <3>2, <3>3
  <2> QED BY <1>1, <1>3, <2>6, <2>7, <2>8 DEF AreOneForEach, all, taken
<1> QED BY <1>10, <1>11

\* An array of calls that have ids.
LEMMA ProcessKeepsOneForEach ==
    ASSUME NEW earlier \in Seq(CallRecords), NEW entries \in Seq(CallRecords), NEW calls \in Seq(CallRecords),
           AreOneForEach(entries, earlier), NoId \notin IdsOf(earlier), NoId \notin IdsOf(calls)
    PROVE  /\ Process(entries, calls) \in Seq(CallRecords)
           /\ AreOneForEach(Process(entries, calls), earlier \o calls)
<1> DEFINE n == Len(calls)
           taken == Taken(entries, calls)
           first(i) == earlier \o SubSeq(calls, 1, i)
           Good == {i \in Nat : i <= n => AreOneForEach(taken[i], first(i))
                                          /\ NoId \notin IdsOf(first(i))
                                          /\ first(i) \in Seq(CallRecords)}
<1>1. /\ Process(entries, calls) = taken[n]
      /\ taken \in [0 .. n -> Seq(CallRecords)]
      /\ taken[0] = entries
      /\ \A i \in 1 .. n : taken[i] = Take(taken[i - 1], calls[i], i)
  BY ProcessTakesAll
<1>2. n \in Nat /\ \A i \in 1 .. n : calls[i] \in CallRecords /\ calls[i].id # NoId
  BY DEF IdsOf
<1> HIDE DEF taken
<1>3. first(0) = earlier
  <2>1. SubSeq(calls, 1, 0) = <<>>
    OBVIOUS
  <2> QED BY <2>1, ConcatEmptySeq
<1>4. ASSUME NEW i \in Nat, i + 1 <= n
      PROVE  first(i) \in Seq(CallRecords) => first(i + 1) = Append(first(i), calls[i + 1])
  <2>1. SubSeq(calls, 1, i) \in Seq(CallRecords) /\ calls[i + 1] \in CallRecords
    BY <1>2, <1>4
  <2>2. SubSeq(calls, 1, i + 1) = Append(SubSeq(calls, 1, i), calls[i + 1])
    BY <1>4
  <2>3. earlier \o Append(SubSeq(calls, 1, i), calls[i + 1])
            = Append(earlier \o SubSeq(calls, 1, i), calls[i + 1])
    BY <2>1
  <2> QED BY <2>2, <2>3
<1>5. first(n) = earlier \o calls
  <2>1. SubSeq(calls, 1, n) = calls
    OBVIOUS
  <2> QED BY <2>1
<1> HIDE DEF n, first
<1>6. 0 \in Good
  BY <1>1, <1>3
<1>7. ASSUME NEW i \in Nat, i \in Good PROVE i + 1 \in Good
  <2>1. CASE i + 1 <= n
    <3>1. i <= n /\ i \in 0 .. n /\ i + 1 \in 1 .. n /\ (i + 1) - 1 = i
      BY <1>2, <2>1
    <3>2. AreOneForEach(taken[i], first(i)) /\ NoId \notin IdsOf(first(i)) /\ first(i) \in Seq(CallRecords)
      BY <1>7, <3>1
    <3>3. taken[i] \in Seq(CallRecords) /\ calls[i + 1] \in CallRecords /\ calls[i + 1].id # NoId
      BY <1>1, <1>2, <3>1
    <3>4. taken[i + 1] = Take(taken[i], calls[i + 1], i + 1)
      BY <1>1, <3>1
    <3>5. first(i + 1) = Append(first(i), calls[i + 1])
      BY <1>4, <2>1, <3>2
    <3>6. i + 1 \in Nat
      OBVIOUS
    <3>7. AreOneForEach(Take(taken[i], calls[i + 1], i + 1), Append(first(i), calls[i + 1]))
      BY <3>2, <3>3, <3>6, TakeKeepsOneForEach
    <3>8. ASSUME NEW s \in Seq(CallRecords), NEW call \in CallRecords, NoId \notin IdsOf(s), call.id # NoId
          PROVE  Append(s, call) \in Seq(CallRecords) /\ NoId \notin IdsOf(Append(s, call))
      BY <3>8 DEF IdsOf
    <3>9. AreOneForEach(taken[i + 1], first(i + 1)) /\ NoId \notin IdsOf(first(i + 1))
          /\ first(i + 1) \in Seq(CallRecords)
      BY <3>2, <3>3, <3>4, <3>5, <3>7, <3>8, Zenon
    <3> QED BY <3>6, <3>9
  <2>2. CASE ~(i + 1 <= n)
    BY <2>2
  <2> QED BY <2>1, <2>2
<1>8. n \in Good
  <2> HIDE DEF Good
  <2> QED BY <1>2, <1>6, <1>7, InductiveSet
<1>9. AreOneForEach(taken[n], first(n)) /\ taken[n] \in Seq(CallRecords)
  BY <1>1, <1>2, <1>8
<1> QED BY <1>1, <1>5, <1>9 DEF n

\* Merging into nothing changes nothing, once every id is there once.
LEMMA ProcessOfDistinctIds ==
    ASSUME NEW calls \in Seq(CallRecords), NoId \notin IdsOf(calls),
           \A i, j \in DOMAIN calls : calls[i].id = calls[j].id => i = j
    PROVE  Process(<<>>, calls) = calls
<1> DEFINE n == Len(calls)
           none == <<>>
           taken == Taken(none, calls)
           Good == {i \in Nat : i <= n => taken[i] = SubSeq(calls, 1, i)}
<1>1. /\ Process(none, calls) = taken[n]
      /\ taken \in [0 .. n -> Seq(CallRecords)]
      /\ taken[0] = none
      /\ \A i \in 1 .. n : taken[i] = Take(taken[i - 1], calls[i], i)
  <2>1. none \in Seq(CallRecords)
    OBVIOUS
  <2> HIDE DEF none
  <2> QED BY <2>1, ProcessTakesAll
<1>2. n \in Nat /\ \A i \in 1 .. n : calls[i] \in CallRecords /\ calls[i].id # NoId
  BY DEF IdsOf
<1>3. SubSeq(calls, 1, 0) = none
  OBVIOUS
<1> HIDE DEF taken, none
<1>4. 0 \in Good
  BY <1>1, <1>3
<1>5. ASSUME NEW i \in Nat, i \in Good PROVE i + 1 \in Good
  <2>1. CASE i + 1 <= n
    <3> DEFINE sofar == SubSeq(calls, 1, i)
    <3>1. i <= n /\ i + 1 \in 1 .. n /\ (i + 1) - 1 = i
      BY <1>2, <2>1
    <3>2. taken[i] = sofar
      BY <1>5, <3>1
    <3>3. taken[i + 1] = Take(sofar, calls[i + 1], i + 1)
      BY <1>1, <3>1, <3>2
    <3>4. sofar \in Seq(CallRecords) /\ DOMAIN sofar = 1 .. i /\ \A k \in 1 .. i : sofar[k] = calls[k]
      BY <3>1
    <3>5. \A k \in 1 .. i : k \in DOMAIN calls /\ k # i + 1
      BY <3>1
    <3>6. SubSeq(calls, 1, i + 1) = Append(sofar, calls[i + 1])
      BY <3>1
    <3> HIDE DEF sofar
    <3>7. Same(sofar, calls[i + 1], i + 1) = {}
      <4>1. ASSUME NEW k \in 1 .. i
            PROVE  ~IsSameToolCall(sofar[k], calls[i + 1], k, i + 1)
        <5>1. sofar[k] = calls[k] /\ k \in 1 .. n /\ k # i + 1
          BY <3>1, <3>4, <3>5
        <5>2. calls[k].id # NoId /\ calls[i + 1].id # NoId
          BY <1>2, <3>1, <5>1
        <5>3. calls[k].id # calls[i + 1].id
          BY <3>1, <5>1
        <5> QED BY <5>1, <5>2, <5>3 DEF IsSameToolCall
      <4> QED BY <3>4, <4>1 DEF Same
    <3>8. Take(sofar, calls[i + 1], i + 1) = Append(sofar, calls[i + 1])
      BY <3>7, Zenon DEF Take, Same
    <3>9. taken[i + 1] = SubSeq(calls, 1, i + 1)
      BY <3>3, <3>6, <3>8, Zenon
    <3> HIDE DEF n
    <3> QED BY <3>9
  <2>2. CASE ~(i + 1 <= n)
    BY <2>2
  <2> QED BY <2>1, <2>2
<1>6. n \in Good
  <2> HIDE DEF Good, n
  <2> QED BY <1>2, <1>4, <1>5, InductiveSet
<1>7. SubSeq(calls, 1, n) = calls
  OBVIOUS
<1>8. taken[n] = SubSeq(calls, 1, n)
  BY <1>2, <1>6
<1> QED BY <1>1, <1>7, <1>8 DEF none

-----------------------------------------------------------------------------
(* ToolCallAccumulator: the invariant.                                     *)

AccumulatorTypes ==
    /\ normalized \in BOOLEAN
    /\ toolCalls \in Seq(CallRecords) /\ announced \in Seq(CallRecords)
    /\ chunks \in Nat /\ nextId \in Nat

AccumulatorInv == AccumulatorTypes /\ CallsAreThoseAnnounced

LEMMA IdsOfBoth ==
    ASSUME NEW s \in Seq(CallRecords), NEW t \in Seq(CallRecords)
    PROVE  IdsOf(s \o t) = IdsOf(s) \cup IdsOf(t)
<1>1. ASSUME NEW i \in DOMAIN (s \o t) PROVE (s \o t)[i].id \in IdsOf(s) \cup IdsOf(t)
  <2>1. CASE i <= Len(s)
    <3>1. i \in DOMAIN s /\ (s \o t)[i] = s[i]
      BY <2>1
    <3> QED BY <3>1 DEF IdsOf
  <2>2. CASE i > Len(s)
    <3>1. i - Len(s) \in DOMAIN t /\ (s \o t)[i] = t[i - Len(s)]
      BY <2>2
    <3> QED BY <3>1 DEF IdsOf
  <2> QED BY <2>1, <2>2
<1>2. ASSUME NEW i \in DOMAIN s PROVE s[i].id \in IdsOf(s \o t)
  <2>1. i \in DOMAIN (s \o t) /\ (s \o t)[i] = s[i]
    OBVIOUS
  <2> QED BY <2>1 DEF IdsOf
<1>3. ASSUME NEW i \in DOMAIN t PROVE t[i].id \in IdsOf(s \o t)
  <2>1. i + Len(s) \in DOMAIN (s \o t) /\ (s \o t)[i + Len(s)] = t[i]
    OBVIOUS
  <2> QED BY <2>1 DEF IdsOf
<1> QED BY <1>1, <1>2, <1>3 DEF IdsOf

LEMMA AccumulatorStarts == AccumulatorInit => AccumulatorInv
<1> SUFFICES ASSUME AccumulatorInit PROVE AccumulatorInv
  OBVIOUS
<1>1. AccumulatorTypes
  BY DEF AccumulatorInit, AccumulatorTypes
<1>2. toolCalls = <<>> /\ announced = <<>> /\ IdsOf(<<>>) = {} /\ DOMAIN toolCalls = {}
  BY DEF AccumulatorInit, IdsOf
<1>3. AreOneForEach(toolCalls, announced)
  BY <1>2 DEF AreOneForEach
<1>4. NoId \notin IdsOf(announced)
  BY <1>2
<1> QED BY <1>1, <1>3, <1>4 DEF AccumulatorInv, CallsAreThoseAnnounced

LEMMA ChunkKeepsCalls ==
    ASSUME AccumulatorInv, NEW ids \in SeqOf(Ids \cup {NoId}, MaxCalls), ChunkArrives(ids)
    PROVE  AccumulatorInv'
<1> DEFINE calls == [i \in DOMAIN ids |-> [id |-> ids[i], pieces |-> <<<<chunks, i>>>>]]
           named == IF normalized THEN EnsureIds(calls) ELSE calls
<1> USE AccumulatorAssumption
<1>1. AccumulatorTypes /\ CallsAreThoseAnnounced
  BY DEF AccumulatorInv
<1>2. PICK n \in Nat : ids \in [1 .. n -> Ids \cup {NoId}]
  BY DEF SeqOf
<1>3. DOMAIN ids = 1 .. n /\ Len(ids) = n /\ ids \in Seq(Ids \cup {NoId})
  BY <1>2
<1>4. calls \in [1 .. n -> CallRecords]
  <2>1. \A i \in 1 .. n : <<<<chunks, i>>>> \in Seq(Nat \X Nat)
    BY <1>1 DEF AccumulatorTypes
  <2>2. \A i \in 1 .. n : ids[i] \in Names
    BY <1>2 DEF Names
  <2> QED BY <1>3, <2>1, <2>2 DEF CallRecords
<1>5. calls \in Seq(CallRecords)
  BY <1>4
<1> HIDE DEF calls
<1>6. /\ EnsureIds(calls) \in [1 .. n -> CallRecords]
      /\ \A i \in 1 .. n : EnsureIds(calls)[i].id # NoId
  <2>1. DOMAIN calls = 1 .. n
    BY <1>4
  <2>2. \A i \in 1 .. n : nextId + i \in Nat
    BY <1>1 DEF AccumulatorTypes
  <2>3. \A i \in 1 .. n : nextId + i \in Names /\ nextId + i # NoId
    BY <2>2 DEF Names
  <2>4. ASSUME NEW call \in CallRecords, NEW id \in Names
        PROVE  [call EXCEPT !.id = id] \in CallRecords /\ [call EXCEPT !.id = id].id = id
    BY DEF CallRecords
  <2>5. ASSUME NEW i \in 1 .. n
        PROVE  EnsureIds(calls)[i] \in CallRecords /\ EnsureIds(calls)[i].id # NoId
    <3>1. EnsureIds(calls)[i] = IF calls[i].id # NoId THEN calls[i]
                                ELSE [calls[i] EXCEPT !.id = nextId + i]
      BY <2>1, Zenon DEF EnsureIds
    <3>2. calls[i] \in CallRecords
      BY <1>4
    <3>3. CASE calls[i].id # NoId
      BY <3>1, <3>2, <3>3
    <3>4. CASE calls[i].id = NoId
      <4>1. EnsureIds(calls)[i] = [calls[i] EXCEPT !.id = nextId + i]
        BY <3>1, <3>4
      <4> QED BY <2>3, <2>4, <3>2, <4>1
    <3> QED BY <3>3, <3>4
  <2>6. EnsureIds(calls) = [i \in 1 .. n |-> EnsureIds(calls)[i]]
    BY <2>1 DEF EnsureIds
  <2> QED BY <2>5, <2>6
<1>7. EnsureIds(calls) \in Seq(CallRecords) /\ NoId \notin IdsOf(EnsureIds(calls))
  BY <1>6 DEF IdsOf
<1>8. named \in Seq(CallRecords) /\ (normalized => NoId \notin IdsOf(named))
  BY <1>5, <1>7
<1>9. /\ chunks' = chunks + 1 /\ normalized' = normalized
      /\ announced' = announced \o named
      /\ toolCalls' = IF normalized THEN MergeToolCallArrays(toolCalls, named)
                                    ELSE Process(toolCalls, named)
      /\ nextId' = nextId + Len(ids)
  BY Zenon DEF ChunkArrives, calls
<1> HIDE DEF named
<1>10. announced' \in Seq(CallRecords) /\ chunks' \in Nat /\ nextId' \in Nat /\ normalized' \in BOOLEAN
  BY <1>1, <1>3, <1>8, <1>9, ConcatProperties DEF AccumulatorTypes
<1>11. IdsOf(announced') = IdsOf(announced) \cup IdsOf(named)
  BY <1>1, <1>8, <1>9, IdsOfBoth DEF AccumulatorTypes
<1>12. ASSUME NEW entries \in Seq(CallRecords), NEW more \in Seq(CallRecords) PROVE Process(entries, more) \in Seq(CallRecords)
  <2>1. Len(more) \in 0 .. Len(more)
    OBVIOUS
  <2>2. Process(entries, more) = Taken(entries, more)[Len(more)]
        /\ Taken(entries, more) \in [0 .. Len(more) -> Seq(CallRecords)]
    BY ProcessTakesAll
  <2> QED BY <2>1, <2>2
<1>13. toolCalls' \in Seq(CallRecords)
  <2>1. <<>> \in Seq(CallRecords)
    OBVIOUS
  <2> QED BY <1>1, <1>8, <1>9, <1>12, <2>1 DEF MergeToolCallArrays, AccumulatorTypes
<1>14. normalized' => NoId \notin IdsOf(announced')
  BY <1>1, <1>8, <1>9, <1>11 DEF CallsAreThoseAnnounced
<1>15. ASSUME NoId \notin IdsOf(announced') PROVE AreOneForEach(toolCalls', announced')
  <2>1. AreOneForEach(toolCalls, announced) /\ NoId \notin IdsOf(announced) /\ NoId \notin IdsOf(named)
    BY <1>1, <1>11, <1>15 DEF CallsAreThoseAnnounced
  <2>2. toolCalls \in Seq(CallRecords) /\ announced \in Seq(CallRecords)
    BY <1>1 DEF AccumulatorTypes
  <2>3. AreOneForEach(Process(toolCalls, named), announced \o named)
    BY <1>8, <2>1, <2>2, ProcessKeepsOneForEach
  <2>4. Process(<<>>, toolCalls) = toolCalls
    <3>1. NoId \notin IdsOf(toolCalls)
      BY <2>1 DEF AreOneForEach
    <3> QED BY <2>1, <2>2, <3>1, EntriesAreDistinct, ProcessOfDistinctIds
  <2>5. toolCalls' = Process(toolCalls, named)
    BY <1>9, <2>4 DEF MergeToolCallArrays
  <2> QED BY <1>9, <2>3, <2>5
<1>16. AccumulatorTypes'
  BY <1>10, <1>13 DEF AccumulatorTypes
<1>17. CallsAreThoseAnnounced'
  BY <1>14, <1>15 DEF CallsAreThoseAnnounced
<1> QED BY <1>16, <1>17 DEF AccumulatorInv

LEMMA AccumulatorInvIsKept == AccumulatorInv /\ [AccumulatorNext]_accumulatorVars => AccumulatorInv'
<1> SUFFICES ASSUME AccumulatorInv, [AccumulatorNext]_accumulatorVars
             PROVE  AccumulatorInv'
  OBVIOUS
<1>1. CASE AccumulatorNext
  BY <1>1, ChunkKeepsCalls, Zenon DEF AccumulatorNext
<1>2. CASE UNCHANGED accumulatorVars
  BY <1>2 DEF AccumulatorInv, AccumulatorTypes, CallsAreThoseAnnounced, accumulatorVars
<1> QED BY <1>1, <1>2

\* As long as every call of a stream has an id, and in a normalized stream each
\* has, withStableToolCallIds, mapChatChunk and ToolCallAccumulator leave one
\* call for every id announced, in the order of the first announcements, with
\* all its pieces in their order.
THEOREM CallsAreAccumulated == AccumulatorSpec => []CallsAreThoseAnnounced
<1>1. AccumulatorInv => CallsAreThoseAnnounced
  BY DEF AccumulatorInv
<1> QED BY <1>1, AccumulatorStarts, AccumulatorInvIsKept, PTL DEF AccumulatorSpec

-----------------------------------------------------------------------------
(* CompatStreams.  A slot holds the pieces that the events shown so far    *)
(* amount to, by their numbers: what a step shows is what it adds to them. *)

SlotStates == [kind : Channels \cup {None}, of : [Channels -> Seq(Nat)]]

CompatTypes ==
    /\ protocol \in Protocols
    /\ generator \in {"idle", "awaiting", "suspended", "returned", "threw", "left"}
    /\ shown \in Seq(EventsOf(protocol))
    /\ slots \in [Slots -> SlotStates]
    /\ inputJson \in [Slots -> Seq(Nat)]
    /\ canonical \in [Slots -> Nat]
    /\ failure \in BOOLEAN

Latest(S) == Max(S \cup {0})

\* Each channel of a choice holds its deltas.
ChoiceHolds(s) == \A c \in Channels : Lists(slots[s].of[c], Pieces(s, c, 0))

\* A channel of an output item holds what the last event that sent it whole has,
\* and the deltas after that, also while the slot is of another kind.
WholeOf(s, c) == {k \in About(s, {"whole", "item"}) : shown[k].channel = c}

SentOf(s, c) ==
    (Pieces(s, c, Latest(WholeOf(s, c))) \cup {Latest(WholeOf(s, c))}) \ {0}

ItemHolds(s) ==
    LET events == About(s, {"delta", "whole", "item"}) IN
    /\ canonical[s] = Latest(About(s, {"item"}))
    /\ slots[s].kind = IF events = {} THEN None ELSE shown[Max(events)].channel
    /\ \A c \in Channels : Lists(slots[s].of[c], SentOf(s, c))

\* A block is of the kind it began with.
BlockHolds(s) ==
    LET begun == Latest(About(s, {"start"})) IN
    /\ Lists(inputJson[s], Pieces(s, "call", 0))
    /\ slots[s].kind = IF begun = 0 THEN None ELSE shown[begun].channel
    /\ begun # 0 => Lists(slots[s].of[slots[s].kind], ExpectedBlock(s))

SlotsHoldWhatWasShown ==
    \A s \in Slots :
        CASE protocol \in {"chat", "completion"} -> ChoiceHolds(s)
          [] protocol = "messages" -> BlockHolds(s)
          [] protocol = "responses" -> ItemHolds(s)

CompatInv ==
    /\ CompatTypes
    /\ SlotsHoldWhatWasShown
    /\ failure <=> Failed
    /\ FinalResultIsWhatWasShown

LEMMA ListsNothing == Lists(<<>>, {})
BY DEF Lists, ToSet

LEMMA ListsOne == ASSUME NEW n \in Nat PROVE Lists(<<n>>, {n})
BY DEF Lists, ToSet

\* A piece that comes after all others is listed last.
LEMMA ListsOneMore ==
    ASSUME NEW pieces \in Seq(Nat), NEW S, Lists(pieces, S),
           NEW n \in Nat, \A m \in S : m < n
    PROVE  Lists(Append(pieces, n), S \cup {n})
<1>1. /\ DOMAIN Append(pieces, n) = 1 .. Len(pieces) + 1
      /\ DOMAIN pieces = 1 .. Len(pieces)
      /\ \A i \in 1 .. Len(pieces) : Append(pieces, n)[i] = pieces[i]
      /\ Append(pieces, n)[Len(pieces) + 1] = n
  OBVIOUS
<1>2. \A i \in DOMAIN pieces : pieces[i] \in S
  BY DEF Lists, ToSet
<1>3. ToSet(Append(pieces, n)) = S \cup {n}
  BY <1>1 DEF Lists, ToSet
<1>4. \A i, j \in DOMAIN Append(pieces, n) : i < j => Append(pieces, n)[i] < Append(pieces, n)[j]
  BY <1>1, <1>2 DEF Lists
<1> QED BY <1>3, <1>4 DEF Lists

LEMMA MaxIsGreatest ==
    ASSUME NEW n \in Nat, NEW S \in SUBSET (0 .. n), S # {}
    PROVE  Max(S) \in S /\ \A k \in S : k <= Max(S)
<1> DEFINE Room == {n - k : k \in S}
<1>1. Room \subseteq Nat /\ Room # {}
  <2>1. \A k \in S : k \in Int /\ k <= n /\ n - k \in Nat
    OBVIOUS
  <2> QED BY <2>1
<1>2. PICK r \in Room : \A y \in Room : r <= y
  <2> HIDE DEF Room
  <2> QED BY <1>1, LeastExists
<1>3. PICK m \in S : r = n - m
  OBVIOUS
<1>4. \A k \in S : k <= m
  <2> TAKE k \in S
  <2>1. n - m <= n - k
    BY <1>2, <1>3
  <2> QED BY <2>1
<1>5. \A k \in S : m >= k
  BY <1>4
<1>6. Max(S) \in S /\ \A k \in S : Max(S) >= k
  BY <1>5 DEF Max
<1> QED BY <1>6

LEMMA MaxIs ==
    ASSUME NEW S \in SUBSET Nat, NEW m \in S, \A k \in S : k <= m
    PROVE  Max(S) = m
<1>1. \A k \in S : m >= k
  OBVIOUS
<1>2. Max(S) \in S /\ \A k \in S : Max(S) >= k
  BY <1>1 DEF Max
<1>3. Max(S) \in Nat /\ m \in Nat /\ Max(S) >= m /\ Max(S) <= m
  BY <1>2
<1> QED BY <1>3

\* What is known of the positions of the events.
LEMMA PositionsOfEvents ==
    ASSUME NEW s, NEW T, shown \in Seq(EventsOf(protocol))
    PROVE  /\ Len(shown) \in Nat /\ Number \in Nat /\ Number = Len(shown) + 1
           /\ DOMAIN shown = 1 .. Len(shown)
           /\ About(s, T) \subseteq 1 .. Len(shown)
BY DEF About, Number

\* One more event is shown.
LEMMA OneMoreShown ==
    ASSUME shown \in Seq(EventsOf(protocol)), NEW e, shown' = Append(shown, e)
    PROVE  /\ DOMAIN shown' = DOMAIN shown \cup {Number}
           /\ shown'[Number] = e
           /\ \A k \in DOMAIN shown : shown'[k] = shown[k]
BY DEF Number

LEMMA OneMoreAbout ==
    ASSUME shown \in Seq(EventsOf(protocol)), NEW e, shown' = Append(shown, e), NEW s, NEW T
    PROVE  /\ e.type \in T /\ e.slot = s => About(s, T)' = About(s, T) \cup {Number}
           /\ ~(e.type \in T /\ e.slot = s) => About(s, T)' = About(s, T)
<1>1. Number \notin DOMAIN shown
  BY PositionsOfEvents
<1> QED BY <1>1, OneMoreShown DEF About

LEMMA OneMoreOfType ==
    ASSUME shown \in Seq(EventsOf(protocol)), NEW e, shown' = Append(shown, e), NEW s, NEW t
    PROVE  About(s, {t})' = IF e.type = t /\ e.slot = s THEN About(s, {t}) \cup {Number}
                                                       ELSE About(s, {t})
<1> DEFINE T == {t}
<1>1. About(s, T)' = IF e.type \in T /\ e.slot = s THEN About(s, T) \cup {Number}
                                                  ELSE About(s, T)
  <2> HIDE DEF T
  <2> QED BY OneMoreAbout, Zenon
<1> QED BY <1>1

LEMMA OneMorePiece ==
    ASSUME shown \in Seq(EventsOf(protocol)), NEW e, shown' = Append(shown, e),
           NEW s, NEW c, NEW k \in 0 .. Len(shown)
    PROVE  /\ e.type = "delta" /\ e.slot = s /\ e.channel = c =>
                Pieces(s, c, k)' = Pieces(s, c, k) \cup {Number}
           /\ ~(e.type = "delta" /\ e.slot = s /\ e.channel = c) =>
                Pieces(s, c, k)' = Pieces(s, c, k)
<1>1. /\ Number \notin DOMAIN shown /\ Number > k
      /\ About(s, {"delta"}) \subseteq DOMAIN shown
  BY PositionsOfEvents
<1>2. About(s, {"delta"})' = IF e.type = "delta" /\ e.slot = s
                             THEN About(s, {"delta"}) \cup {Number} ELSE About(s, {"delta"})
  BY OneMoreOfType, Zenon
<1> QED BY <1>1, <1>2, OneMoreShown DEF Pieces

\* The latest of some events, and what one more does to it.
LEMMA LatestIs ==
    ASSUME NEW n \in Nat, NEW S \in SUBSET (1 .. n)
    PROVE  /\ Latest(S) \in 0 .. n
           /\ Latest(S) = 0 <=> S = {}
           /\ S # {} => Latest(S) \in S /\ Max(S) = Latest(S)
           /\ \A k \in S : k <= Latest(S)
<1>1. S \cup {0} \in SUBSET (0 .. n) /\ S \cup {0} # {}
  OBVIOUS
<1>2. Latest(S) \in S \cup {0} /\ \A k \in S \cup {0} : k <= Latest(S)
  BY <1>1, MaxIsGreatest DEF Latest
<1> HIDE DEF Latest
<1>3. Latest(S) = 0 <=> S = {}
  <2>1. ASSUME NEW k \in S PROVE Latest(S) # 0
    BY <1>2
  <2>2. S = {} => Latest(S) = 0
    BY <1>2
  <2> QED BY <2>1, <2>2
<1>4. S # {} => Latest(S) \in S
  BY <1>2, <1>3
<1>5. S # {} => Max(S) = Latest(S)
  BY <1>2, <1>4, MaxIs, S \in SUBSET Nat
<1>6. Latest(S) \in 0 .. n
  BY <1>1, <1>2
<1> QED BY <1>2, <1>3, <1>4, <1>5, <1>6

LEMMA LatestOfOneMore ==
    ASSUME NEW n \in Nat, NEW S \in SUBSET (1 .. n)
    PROVE  Latest(S \cup {n + 1}) = n + 1 /\ Max(S \cup {n + 1}) = n + 1
<1>1. S \cup {n + 1} \in SUBSET Nat /\ \A k \in S \cup {n + 1} : k <= n + 1
  OBVIOUS
<1>2. S \cup {n + 1} \cup {0} \in SUBSET Nat /\ \A k \in S \cup {n + 1} \cup {0} : k <= n + 1
  OBVIOUS
<1> QED BY <1>1, <1>2, MaxIs DEF Latest

\* What an event applies depends on its type.
LEMMA EventsApply ==
    ASSUME NEW e, Applies(e)
    PROVE  /\ e.type = "delta" => AppliesDelta(e) /\ UNCHANGED failure
           /\ e.type = "start" => AppliesStart(e) /\ UNCHANGED failure
           /\ e.type = "stop" => AppliesStop(e) /\ UNCHANGED failure
           /\ e.type \in {"whole", "item"} => AppliesWhole(e) /\ UNCHANGED failure
           /\ e.type \in {"created", "completed", "failed", "message_start"} =>
                AppliesResponse(e)
BY DEF Applies, AppliesDelta, AppliesStart, AppliesStop, AppliesWhole, AppliesResponse

LEMMA TypesOfEvents ==
    ASSUME NEW e \in EventsOf(protocol)
    PROVE  /\ protocol \in {"chat", "completion"} => e.type = "delta"
           /\ e.type = "delta" /\ protocol \in Protocols => e.slot \in Slots /\ e.channel \in Channels
           /\ protocol = "messages" =>
                \/ e.type = "delta" \/ e.type = "message_start"
                \/ e.type = "start" /\ e.slot \in Slots /\ e.channel \in Channels
                \/ e.type = "stop" /\ e.slot \in Slots /\ e.parses \in BOOLEAN
           /\ protocol = "responses" =>
                \/ e.type \in {"delta", "created", "completed", "failed"}
                \/ e.type \in {"whole", "item"} /\ e.slot \in Slots /\ e.channel \in Channels
           /\ protocol \in Protocols =>
                protocol \in {"chat", "completion", "messages", "responses"}
<1>1. protocol \in Protocols => protocol \in {"chat", "completion", "messages", "responses"}
  BY CompatAssumption
<1>2. protocol \in {"chat", "completion"} => e \in Deltas
  BY DEF EventsOf
<1>3. protocol = "messages" => e \in Deltas \cup Starts \cup Stops \cup {[type |-> "message_start"]}
  BY DEF EventsOf
<1>4. protocol = "responses" => e \in Deltas \cup Wholes \cup Responses
  BY DEF EventsOf
<1>5. e \in Deltas => e.type = "delta" /\ e.slot \in Slots /\ e.channel \in Channels
  BY DEF Deltas
<1>6. e \in Starts => e.type = "start" /\ e.slot \in Slots /\ e.channel \in Channels
  BY DEF Starts
<1>7. e \in Stops => e.type = "stop" /\ e.slot \in Slots /\ e.parses \in BOOLEAN
  BY DEF Stops
<1>8. e \in Wholes => e.type \in {"whole", "item"} /\ e.slot \in Slots /\ e.channel \in Channels
  BY DEF Wholes
<1>9. e \in Responses => e.type \in {"created", "completed", "failed"}
  BY DEF Responses
<1>10. e = [type |-> "message_start"] => e.type = "message_start"
  OBVIOUS
<1> QED BY <1>1, <1>2, <1>3, <1>4, <1>5, <1>6, <1>7, <1>8, <1>9, <1>10

Yielded(e) == CompatTypes /\ Applies(e) /\ shown' = Append(shown, e) /\ UNCHANGED protocol

LEMMA SlotStatesKeepTypes ==
    ASSUME NEW st \in SlotStates, NEW c \in Channels, NEW pieces \in Seq(Nat),
           NEW k \in Channels \cup {None}
    PROVE  /\ [st EXCEPT !.of[c] = pieces] \in SlotStates
           /\ [st EXCEPT !.kind = k] \in SlotStates
           /\ [kind |-> k, of |-> [EmptySlot.of EXCEPT ![c] = pieces]] \in SlotStates
<1>1. /\ [st EXCEPT !.of[c] = pieces] \in SlotStates
      /\ [st EXCEPT !.kind = k] \in SlotStates
  BY DEF SlotStates
<1>2. EmptySlot.of \in [Channels -> Seq(Nat)]
  <2>1. EmptySlot.of = [x \in Channels |-> <<>>]
    BY DEF EmptySlot
  <2> QED BY <2>1
<1>3. [kind |-> k, of |-> [EmptySlot.of EXCEPT ![c] = pieces]] \in SlotStates
  BY <1>2 DEF SlotStates
<1> QED BY <1>1, <1>3

\* A slot is changed, the others are as they were.
LEMMA SlotChanges ==
    ASSUME NEW f \in [Slots -> SlotStates], NEW s \in Slots, NEW c \in Channels,
           NEW n \in Nat, NEW k \in Channels \cup {None}, NEW pieces \in Seq(Nat)
    PROVE  LET grown == [f EXCEPT ![s].of[c] = Append(@, n)]
               whole == [f EXCEPT ![s].of[c] = pieces]
           IN
           /\ grown \in [Slots -> SlotStates]
           /\ whole \in [Slots -> SlotStates]
           /\ [grown EXCEPT ![s].kind = k] \in [Slots -> SlotStates]
           /\ [whole EXCEPT ![s].kind = k] \in [Slots -> SlotStates]
           /\ [f EXCEPT ![s] = [kind |-> k, of |-> [EmptySlot.of EXCEPT ![c] = pieces]]]
                    \in [Slots -> SlotStates]
<1>1. f[s] \in SlotStates /\ Append(f[s].of[c], n) \in Seq(Nat)
  BY DEF SlotStates
<1>2. [f EXCEPT ![s].of[c] = Append(@, n)] =
            [f EXCEPT ![s] = [f[s] EXCEPT !.of[c] = Append(f[s].of[c], n)]]
  OBVIOUS
<1>3. [f EXCEPT ![s].of[c] = pieces] = [f EXCEPT ![s] = [f[s] EXCEPT !.of[c] = pieces]]
  OBVIOUS
<1>4. /\ [f[s] EXCEPT !.of[c] = Append(f[s].of[c], n)] \in SlotStates
      /\ [f[s] EXCEPT !.of[c] = pieces] \in SlotStates
      /\ [kind |-> k, of |-> [EmptySlot.of EXCEPT ![c] = pieces]] \in SlotStates
  BY <1>1, SlotStatesKeepTypes
<1>5. ASSUME NEW g \in [Slots -> SlotStates] PROVE [g EXCEPT ![s].kind = k] \in [Slots -> SlotStates]
  <2>1. [g[s] EXCEPT !.kind = k] \in SlotStates
    BY SlotStatesKeepTypes
  <2>2. [g EXCEPT ![s].kind = k] = [g EXCEPT ![s] = [g[s] EXCEPT !.kind = k]]
    OBVIOUS
  <2> QED BY <2>1, <2>2
<1>6. /\ [f EXCEPT ![s].of[c] = Append(@, n)] \in [Slots -> SlotStates]
      /\ [f EXCEPT ![s].of[c] = pieces] \in [Slots -> SlotStates]
  BY <1>2, <1>3, <1>4
<1> QED BY <1>4, <1>5, <1>6

LEMMA AddedAdds ==
    ASSUME slots \in [Slots -> SlotStates], NEW s \in Slots, NEW c \in Channels,
           NEW r \in Slots, NEW d \in Channels
    PROVE  /\ Added(s, c)[r].of[d] = IF r = s /\ d = c THEN Append(slots[s].of[c], Number)
                                                    ELSE slots[r].of[d]
           /\ Added(s, c)[r].kind = slots[r].kind
           /\ r # s => Added(s, c)[r] = slots[r]
<1>1. slots[s] \in SlotStates /\ slots[r] \in SlotStates
  OBVIOUS
<1>2. Added(s, c)[r] = IF r = s THEN [slots[s] EXCEPT !.of[c] = Append(slots[s].of[c], Number)]
                                ELSE slots[r]
  BY DEF Added
<1> QED BY <1>1, <1>2 DEF SlotStates

LEMMA YieldKeepsTypes ==
    ASSUME NEW e \in EventsOf(protocol), Yielded(e)
    PROVE  /\ shown' \in Seq(EventsOf(protocol'))
           /\ slots' \in [Slots -> SlotStates]
           /\ inputJson' \in [Slots -> Seq(Nat)]
           /\ canonical' \in [Slots -> Nat]
           /\ failure' \in BOOLEAN
<1> USE DEF Yielded, CompatTypes
<1>0. Number \in Nat
  BY PositionsOfEvents
<1>1. shown' \in Seq(EventsOf(protocol'))
  <2>1. shown' \in Seq(EventsOf(protocol))
    OBVIOUS
  <2>2. EventsOf(protocol') = EventsOf(protocol)
    OBVIOUS
  <2> QED BY <2>1, <2>2
<1>2. protocol \in {"chat", "completion", "messages", "responses"}
  BY TypesOfEvents
<1>3. CASE e.type = "delta"
  <2>1. AppliesDelta(e) /\ UNCHANGED failure /\ e.slot \in Slots /\ e.channel \in Channels
    BY <1>3, EventsApply, TypesOfEvents
  <2>2. Added(e.slot, e.channel) \in [Slots -> SlotStates]
    BY <1>0, <2>1, SlotChanges DEF Added
  <2>3. [Added(e.slot, e.channel) EXCEPT ![e.slot].kind = e.channel] \in [Slots -> SlotStates]
    BY <1>0, <2>1, SlotChanges DEF Added
  <2>4. slots' \in [Slots -> SlotStates]
    BY <1>2, <2>1, <2>2, <2>3 DEF AppliesDelta
  <2>5. inputJson' \in [Slots -> Seq(Nat)] /\ canonical' \in [Slots -> Nat]
    <3>1. /\ inputJson[e.slot] \in Seq(Nat)
          /\ inputJson' = inputJson
                \/ inputJson' = [inputJson EXCEPT ![e.slot] = Append(inputJson[e.slot], Number)]
          /\ canonical' = canonical
      BY <1>2, <2>1 DEF AppliesDelta
    <3>2. Append(inputJson[e.slot], Number) \in Seq(Nat)
      BY <1>0, <3>1
    <3> HIDE DEF Number
    <3> QED BY <2>1, <3>1, <3>2
  <2> QED BY <1>1, <2>1, <2>4, <2>5
<1>4. CASE e.type = "start"
  <2>1. AppliesStart(e) /\ UNCHANGED failure /\ e.slot \in Slots /\ e.channel \in Channels
    BY <1>2, <1>4, EventsApply, TypesOfEvents
  <2>2. <<Number>> \in Seq(Nat)
    BY <1>0
  <2>3. slots' \in [Slots -> SlotStates]
    BY <1>0, <2>1, <2>2, SlotChanges DEF AppliesStart
  <2> QED BY <1>1, <2>1, <2>3 DEF AppliesStart
<1>5. CASE e.type = "stop"
  <2>1. AppliesStop(e) /\ UNCHANGED failure /\ e.slot \in Slots
    BY <1>2, <1>5, EventsApply, TypesOfEvents
  <2>2. slots[e.slot].kind = "call" => "call" \in Channels
    BY <2>1 DEF SlotStates, None
  <2>3. inputJson[e.slot] \in Seq(Nat)
    BY <2>1
  <2>4. slots' \in [Slots -> SlotStates]
    <3>1. CASE slots' = slots
      BY <1>0, <3>1
    <3>2. CASE slots[e.slot].kind = "call"
               /\ slots' = [slots EXCEPT ![e.slot].of["call"] = inputJson[e.slot]]
      <4>1. "call" \in Channels /\ 0 \in Nat /\ None \in Channels \cup {None}
        BY <2>2, <3>2
      <4> QED BY <1>0, <2>1, <2>3, <3>2, <4>1, SlotChanges
    <3> QED BY <2>1, <3>1, <3>2 DEF AppliesStop
  <2> QED BY <1>1, <2>1, <2>4 DEF AppliesStop
<1>6. CASE e.type \in {"whole", "item"}
  <2>1. AppliesWhole(e) /\ UNCHANGED failure /\ e.slot \in Slots /\ e.channel \in Channels
    BY <1>2, <1>6, EventsApply, TypesOfEvents
  <2>2. <<Number>> \in Seq(Nat)
    BY <1>0
  <2>3. slots' \in [Slots -> SlotStates]
    <3>1. [slots EXCEPT ![e.slot].of[e.channel] = <<Number>>, ![e.slot].kind = e.channel] \in [Slots -> SlotStates]
      BY <1>0, <2>1, <2>2, SlotChanges
    <3> QED BY <3>1, <2>1 DEF AppliesWhole, Replaced
  <2>4. inputJson' \in [Slots -> Seq(Nat)] /\ canonical' \in [Slots -> Nat]
    BY <1>0, <2>1 DEF AppliesWhole
  <2> QED BY <1>1, <2>1, <2>3, <2>4
<1>7. CASE e.type \in {"created", "completed", "failed", "message_start"}
  BY <1>1, <1>7, EventsApply DEF AppliesResponse
<1> QED BY <1>2, <1>3, <1>4, <1>5, <1>6, <1>7, TypesOfEvents

LEMMA YieldKeepsFailures ==
    ASSUME NEW e \in EventsOf(protocol), Yielded(e), failure <=> Failed
    PROVE  failure' <=> Failed'
<1> USE DEF Yielded, CompatTypes
<1>1. Failed' <=> Failed \/ e.type = "failed"
  BY OneMoreShown DEF Failed
<1>2. failure' <=> failure \/ e.type = "failed"
  <2>1. protocol \in {"chat", "completion", "messages", "responses"}
    BY TypesOfEvents
  <2> QED BY <2>1, EventsApply, TypesOfEvents DEF AppliesResponse, Deltas
<1> QED BY <1>1, <1>2

-----------------------------------------------------------------------------
(* CompatStreams: the choices of a chat or a completion.                   *)

LEMMA YieldKeepsChoices ==
    ASSUME NEW e \in EventsOf(protocol), Yielded(e), protocol \in {"chat", "completion"},
           NEW s \in Slots, ChoiceHolds(s)
    PROVE  ChoiceHolds(s)'
<1> USE DEF Yielded, CompatTypes
<1>1. e.type = "delta" /\ e.slot \in Slots /\ e.channel \in Channels
  BY TypesOfEvents DEF Deltas
<1>2. slots' = Added(e.slot, e.channel)
  BY <1>1, EventsApply DEF AppliesDelta
<1>3. ASSUME NEW c \in Channels
      PROVE  Lists(slots'[s].of[c], Pieces(s, c, 0)')
  <2>0. 0 \in 0 .. Len(shown) /\ Number \in Nat /\ \A n \in Pieces(s, c, 0) : n < Number
    BY PositionsOfEvents DEF Pieces
  <2>1. slots[s].of[c] \in Seq(Nat) /\ Lists(slots[s].of[c], Pieces(s, c, 0))
    <3>1. slots[s] \in SlotStates
      OBVIOUS
    <3> QED BY <3>1 DEF ChoiceHolds, SlotStates
  <2>2. CASE e.slot = s /\ e.channel = c
    <3>1. slots'[s].of[c] = Append(slots[s].of[c], Number)
      <4>1. Added(s, c)[s].of[c] = Append(slots[s].of[c], Number)
        BY AddedAdds
      <4> QED BY <1>2, <2>2, <4>1
    <3>2. e.type = "delta" /\ e.slot = s /\ e.channel = c
      BY <1>1, <2>2
    <3>3. Pieces(s, c, 0)' = Pieces(s, c, 0) \cup {Number}
      BY <2>0, <3>2, OneMorePiece
    <3>4. Lists(Append(slots[s].of[c], Number), Pieces(s, c, 0) \cup {Number})
      BY <2>0, <2>1, ListsOneMore
    <3> QED BY <3>1, <3>3, <3>4
  <2>3. CASE ~(e.slot = s /\ e.channel = c)
    <3>1. slots'[s].of[c] = slots[s].of[c]
      BY <1>1, <1>2, <2>3, AddedAdds
    <3>2. Pieces(s, c, 0)' = Pieces(s, c, 0)
      BY <2>0, <2>3, OneMorePiece
    <3> QED BY <2>1, <3>1, <3>2
  <2> QED BY <2>2, <2>3
<1> QED BY <1>3 DEF ChoiceHolds

-----------------------------------------------------------------------------
(* CompatStreams: the output items of a response.                          *)

\* The events that sent a channel whole, and what is left after the last of them.
LEMMA OneMoreWhole ==
    ASSUME shown \in Seq(EventsOf(protocol)), NEW e, shown' = Append(shown, e),
           NEW s, NEW c
    PROVE  /\ e.type \in {"whole", "item"} /\ e.slot = s /\ e.channel = c =>
                WholeOf(s, c)' = WholeOf(s, c) \cup {Number}
           /\ ~(e.type \in {"whole", "item"} /\ e.slot = s /\ e.channel = c) =>
                WholeOf(s, c)' = WholeOf(s, c)
<1>1. Number \notin DOMAIN shown /\ About(s, {"whole", "item"}) \subseteq DOMAIN shown
  BY PositionsOfEvents
<1>2. About(s, {"whole", "item"})' =
            IF e.type \in {"whole", "item"} /\ e.slot = s
            THEN About(s, {"whole", "item"}) \cup {Number} ELSE About(s, {"whole", "item"})
  <2> DEFINE T == {"whole", "item"}
  <2>1. About(s, T)' = IF e.type \in T /\ e.slot = s THEN About(s, T) \cup {Number}
                                                    ELSE About(s, T)
    <3> HIDE DEF T
    <3> QED BY OneMoreAbout, Zenon
  <2> QED BY <2>1
<1> QED BY <1>1, <1>2, OneMoreShown DEF WholeOf

\* After the last event there is none yet.
LEMMA NoPieceAfterTheLast ==
    ASSUME shown \in Seq(EventsOf(protocol)), NEW e, shown' = Append(shown, e),
           NEW s, NEW c, NEW k \in Nat, k = Number
    PROVE  Pieces(s, c, k)' = {}
<1>1. About(s, {"delta"})' \subseteq DOMAIN shown'
  BY DEF About
<1>2. \A n \in DOMAIN shown' : ~(n > k)
  BY OneMoreShown, PositionsOfEvents
<1> QED BY <1>1, <1>2 DEF Pieces

LEMMA OneMoreSent ==
    ASSUME shown \in Seq(EventsOf(protocol)), NEW e, shown' = Append(shown, e), NEW s, NEW c
    PROVE  SentOf(s, c)' =
            IF e.slot = s /\ e.channel = c /\ e.type = "delta" THEN SentOf(s, c) \cup {Number}
            ELSE IF e.slot = s /\ e.channel = c /\ e.type \in {"whole", "item"} THEN {Number}
            ELSE SentOf(s, c)
<1>1. /\ Len(shown) \in Nat /\ Number = Len(shown) + 1 /\ Number \in Nat
      /\ WholeOf(s, c) \in SUBSET (1 .. Len(shown))
  BY PositionsOfEvents DEF WholeOf
<1>2. PICK b \in 0 .. Len(shown) : b = Latest(WholeOf(s, c))
  BY <1>1, LatestIs
<1>3. PICK later : later = Latest(WholeOf(s, c)')
  OBVIOUS
<1>4. SentOf(s, c) = (Pieces(s, c, b) \cup {b}) \ {0}
  BY <1>2 DEF SentOf
<1>5. SentOf(s, c)' = (Pieces(s, c, later)' \cup {later}) \ {0}
  BY <1>3 DEF SentOf, Latest, Pieces
<1>6. CASE e.type \in {"whole", "item"} /\ e.slot = s /\ e.channel = c
  <2>1. later = Number
    <3>1. WholeOf(s, c)' = WholeOf(s, c) \cup {Len(shown) + 1}
      BY <1>1, <1>6, OneMoreWhole
    <3>2. Latest(WholeOf(s, c) \cup {Len(shown) + 1}) = Len(shown) + 1
      BY <1>1, LatestOfOneMore
    <3> QED BY <1>1, <1>3, <3>1, <3>2
  <2>2. Pieces(s, c, later)' = {}
    BY <1>1, <2>1, NoPieceAfterTheLast
  <2> QED BY <1>1, <1>5, <1>6, <2>1, <2>2
<1>7. CASE ~(e.type \in {"whole", "item"} /\ e.slot = s /\ e.channel = c)
  <2>1. later = b
    BY <1>2, <1>3, <1>7, OneMoreWhole
  <2>2. CASE e.slot = s /\ e.channel = c /\ e.type = "delta"
    <3>1. Pieces(s, c, b)' = Pieces(s, c, b) \cup {Number}
      BY <1>2, <2>2, OneMorePiece
    <3> QED BY <1>1, <1>4, <1>5, <2>1, <2>2, <3>1
  <2>3. CASE ~(e.slot = s /\ e.channel = c /\ e.type = "delta")
    <3>1. Pieces(s, c, b)' = Pieces(s, c, b)
      BY <1>2, <2>3, OneMorePiece
    <3> QED BY <1>4, <1>5, <1>7, <2>1, <2>3, <3>1
  <2> QED BY <2>2, <2>3
<1> QED BY <1>6, <1>7

\* One more event of some types, and the latest of them.
LEMMA OneMoreLatest ==
    ASSUME shown \in Seq(EventsOf(protocol)), NEW e, shown' = Append(shown, e), NEW s, NEW T
    PROVE  /\ e.type \in T /\ e.slot = s =>
                /\ About(s, T)' # {}
                /\ Latest(About(s, T)') = Number /\ Max(About(s, T)') = Number
           /\ ~(e.type \in T /\ e.slot = s) => About(s, T)' = About(s, T)
<1>1. /\ Len(shown) \in Nat /\ Number = Len(shown) + 1 /\ About(s, T) \in SUBSET (1 .. Len(shown))
  BY PositionsOfEvents
<1>2. /\ Latest(About(s, T) \cup {Len(shown) + 1}) = Len(shown) + 1
      /\ Max(About(s, T) \cup {Len(shown) + 1}) = Len(shown) + 1
  BY <1>1, LatestOfOneMore
<1>3. e.type \in T /\ e.slot = s => About(s, T)' = About(s, T) \cup {Len(shown) + 1}
  BY <1>1, OneMoreAbout
<1>4. ~(e.type \in T /\ e.slot = s) => About(s, T)' = About(s, T)
  BY OneMoreAbout
<1> QED BY <1>1, <1>2, <1>3, <1>4

LEMMA LatestIsShown ==
    ASSUME shown \in Seq(EventsOf(protocol)), NEW s, NEW T
    PROVE  /\ About(s, T) # {} => Max(About(s, T)) \in DOMAIN shown
           /\ Latest(About(s, T)) # 0 => Latest(About(s, T)) \in DOMAIN shown
           /\ Latest(About(s, T)) \in 0 .. Len(shown)
<1>1. /\ Len(shown) \in Nat /\ About(s, T) \in SUBSET (1 .. Len(shown))
      /\ DOMAIN shown = 1 .. Len(shown)
  BY PositionsOfEvents
<1>2. /\ Latest(About(s, T)) \in 0 .. Len(shown)
      /\ Latest(About(s, T)) = 0 <=> About(s, T) = {}
      /\ About(s, T) # {} => Latest(About(s, T)) \in About(s, T)
                                /\ Max(About(s, T)) = Latest(About(s, T))
  BY <1>1, LatestIs
<1> QED BY <1>1, <1>2

LEMMA SentIsBefore ==
    ASSUME shown \in Seq(EventsOf(protocol)), NEW s, NEW c
    PROVE  \A n \in SentOf(s, c) : n < Number
<1>1. /\ Len(shown) \in Nat /\ Number = Len(shown) + 1 /\ DOMAIN shown = 1 .. Len(shown)
      /\ WholeOf(s, c) \in SUBSET (1 .. Len(shown))
      /\ About(s, {"delta"}) \subseteq DOMAIN shown
  BY PositionsOfEvents DEF WholeOf
<1>2. PICK b \in 0 .. Len(shown) : b = Latest(WholeOf(s, c))
  BY <1>1, LatestIs
<1>3. SentOf(s, c) \subseteq Pieces(s, c, b) \cup {b}
  BY <1>2 DEF SentOf
<1>4. Pieces(s, c, b) \subseteq 1 .. Len(shown)
  BY <1>1 DEF Pieces
<1> QED BY <1>1, <1>3, <1>4

LEMMA YieldKeepsItems ==
    ASSUME NEW e \in EventsOf(protocol), Yielded(e), protocol = "responses",
           NEW s \in Slots, ItemHolds(s)
    PROVE  ItemHolds(s)'
<1> DEFINE Naming == {"delta", "whole", "item"}
<1>0. /\ shown \in Seq(EventsOf(protocol)) /\ shown' = Append(shown, e) /\ Applies(e)
      /\ slots \in [Slots -> SlotStates] /\ slots[s] \in SlotStates
      /\ canonical \in [Slots -> Nat] /\ protocol \in Protocols /\ UNCHANGED protocol
      /\ Number \in Nat
  BY PositionsOfEvents DEF Yielded, CompatTypes
<1>1. /\ canonical[s] = Latest(About(s, {"item"}))
      /\ slots[s].kind = IF About(s, Naming) = {} THEN None ELSE shown[Max(About(s, Naming))].channel
      /\ \A c \in Channels : Lists(slots[s].of[c], SentOf(s, c))
  BY DEF ItemHolds
<1>2. SUFFICES /\ canonical'[s] = Latest(About(s, {"item"})')
               /\ slots'[s].kind = IF About(s, Naming)' = {} THEN None
                                   ELSE shown'[Max(About(s, Naming)')].channel
               /\ \A c \in Channels : Lists(slots'[s].of[c], SentOf(s, c)')
  BY DEF ItemHolds, Latest
<1>3. \/ e.type \in {"delta", "created", "completed", "failed"}
      \/ e.type \in {"whole", "item"} /\ e.slot \in Slots /\ e.channel \in Channels
  BY TypesOfEvents
<1>4. \A c \in Channels : slots[s].of[c] \in Seq(Nat)
  BY <1>0 DEF SlotStates
<1>5. CASE e.type = "delta"
  <2>1. /\ e.slot \in Slots /\ e.channel \in Channels
        /\ slots' = [Added(e.slot, e.channel) EXCEPT ![e.slot].kind = e.channel]
        /\ canonical' = canonical
    BY <1>0, <1>5, EventsApply, TypesOfEvents DEF AppliesDelta
  <2>2. Added(e.slot, e.channel) \in [Slots -> SlotStates]
    BY <1>0, <2>1, SlotChanges, <<>> \in Seq(Nat), None \in Channels \cup {None} DEF Added
  <2>3. /\ slots'[s].of = Added(e.slot, e.channel)[s].of
        /\ slots'[s].kind = IF e.slot = s THEN e.channel ELSE Added(e.slot, e.channel)[s].kind
    BY <2>1, <2>2 DEF SlotStates
  <2>4. canonical'[s] = Latest(About(s, {"item"})')
    BY <1>0, <1>1, <1>5, <2>1, OneMoreLatest
  <2>5. slots'[s].kind = IF About(s, Naming)' = {} THEN None
                         ELSE shown'[Max(About(s, Naming)')].channel
    <3>1. CASE e.slot = s
      <4>1. About(s, Naming)' # {} /\ Max(About(s, Naming)') = Number
        <5>1. e.type \in Naming /\ e.slot = s
          BY <1>5, <3>1
        <5> HIDE DEF Naming
        <5> QED BY <1>0, <5>1, OneMoreLatest, Zenon
      <4>2. shown'[Number] = e
        BY <1>0, OneMoreShown
      <4> QED BY <2>3, <3>1, <4>1, <4>2
    <3>2. CASE e.slot # s
      <4>1. About(s, Naming)' = About(s, Naming)
        BY <1>0, <3>2, OneMoreLatest
      <4>2. slots'[s].kind = slots[s].kind
        BY <1>0, <2>1, <2>3, <3>2, AddedAdds
      <4> QED BY <1>0, <1>1, <4>1, <4>2, LatestIsShown, OneMoreShown
    <3> QED BY <3>1, <3>2
  <2>6. ASSUME NEW c \in Channels PROVE Lists(slots'[s].of[c], SentOf(s, c)')
    <3>1. CASE e.slot = s /\ e.channel = c
      <4>1. SentOf(s, c)' = SentOf(s, c) \cup {Number}
        BY <1>0, <1>5, <3>1, OneMoreSent
      <4>2. Added(s, c)[s].of[c] = Append(slots[s].of[c], Number)
        BY <1>0, AddedAdds
      <4>3. Lists(Append(slots[s].of[c], Number), SentOf(s, c) \cup {Number})
        BY <1>0, <1>1, <1>4, ListsOneMore, SentIsBefore
      <4> QED BY <2>3, <3>1, <4>1, <4>2, <4>3
    <3>2. CASE ~(e.slot = s /\ e.channel = c)
      <4>1. SentOf(s, c)' = SentOf(s, c)
        BY <1>0, <1>5, <3>2, OneMoreSent
      <4>2. slots'[s].of[c] = slots[s].of[c]
        BY <1>0, <2>1, <2>3, <3>2, AddedAdds
      <4> QED BY <1>1, <4>1, <4>2
    <3> QED BY <3>1, <3>2
  <2> QED BY <2>4, <2>5, <2>6
<1>6. CASE e.type \in {"whole", "item"}
  <2>1. /\ e.slot \in Slots /\ e.channel \in Channels
        /\ slots' = Replaced(e.slot, e.channel)
        /\ canonical' = IF e.type = "item" THEN [canonical EXCEPT ![e.slot] = Number] ELSE canonical
    BY <1>0, <1>3, <1>6, EventsApply DEF AppliesWhole
  <2>2. /\ e.slot # s => slots'[s] = slots[s]
        /\ e.slot = s => /\ slots'[s].kind = e.channel
                         /\ \A c \in Channels : slots'[s].of[c] =
                                IF c = e.channel THEN <<Number>> ELSE slots[s].of[c]
    BY <1>0, <2>1 DEF Replaced, SlotStates
  <2>3. canonical'[s] = Latest(About(s, {"item"})')
    BY <1>0, <1>1, <1>6, <2>1, OneMoreLatest
  <2>4. slots'[s].kind = IF About(s, Naming)' = {} THEN None
                         ELSE shown'[Max(About(s, Naming)')].channel
    <3>1. CASE e.slot = s
      <4>1. About(s, Naming)' # {} /\ Max(About(s, Naming)') = Number
        <5>1. e.type \in Naming /\ e.slot = s
          BY <1>6, <3>1
        <5> HIDE DEF Naming
        <5> QED BY <1>0, <5>1, OneMoreLatest
      <4>2. shown'[Number] = e
        BY <1>0, OneMoreShown
      <4> QED BY <2>2, <3>1, <4>1, <4>2
    <3>2. CASE e.slot # s
      <4>1. About(s, Naming)' = About(s, Naming)
        BY <1>0, <3>2, OneMoreLatest
      <4> QED BY <1>0, <1>1, <2>2, <3>2, <4>1, LatestIsShown, OneMoreShown
    <3> QED BY <3>1, <3>2
  <2>5. ASSUME NEW c \in Channels PROVE Lists(slots'[s].of[c], SentOf(s, c)')
    <3>1. CASE e.slot = s /\ e.channel = c
      <4>1. SentOf(s, c)' = {Number}
        BY <1>0, <1>6, <3>1, OneMoreSent
      <4> QED BY <1>0, <2>2, <3>1, <4>1, ListsOne
    <3>2. CASE ~(e.slot = s /\ e.channel = c)
      <4>1. SentOf(s, c)' = SentOf(s, c)
        BY <1>0, <3>2, OneMoreSent
      <4>2. slots'[s].of[c] = slots[s].of[c]
        BY <2>2, <3>2
      <4> QED BY <1>1, <4>1, <4>2
    <3> QED BY <3>1, <3>2
  <2> QED BY <2>3, <2>4, <2>5
<1>7. CASE e.type \in {"created", "completed", "failed"}
  <2>1. slots' = slots /\ canonical' = canonical
    BY <1>0, <1>7, EventsApply DEF AppliesResponse
  <2>2. /\ About(s, Naming)' = About(s, Naming) /\ About(s, {"item"})' = About(s, {"item"})
        /\ \A c \in Channels : SentOf(s, c)' = SentOf(s, c)
    BY <1>0, <1>7, OneMoreLatest, OneMoreSent
  <2> QED BY <1>0, <1>1, <2>1, <2>2, LatestIsShown, OneMoreShown
<1> QED BY <1>3, <1>5, <1>6, <1>7

-----------------------------------------------------------------------------
(* CompatStreams: the blocks of a message.                                 *)

\* What a block that began with the event at begun should hold.
ParsedStops(s, begun) ==
    {k \in About(s, {"stop"}) : k > begun /\ shown[k].parses /\ \E n \in Pieces(s, "call", 0) : n < k}

BlockOf(s, begun) ==
    IF shown[begun].channel # "call" THEN {begun} \cup Pieces(s, shown[begun].channel, begun)
    ELSE IF ParsedStops(s, begun) = {} THEN {begun}
    ELSE {n \in Pieces(s, "call", 0) : n < Max(ParsedStops(s, begun))}

LEMMA BlockIsExpected ==
    ASSUME NEW s, NEW begun \in Nat, begun # 0
    PROVE  /\ begun = Latest(About(s, {"start"})) => ExpectedBlock(s) = BlockOf(s, begun)
           /\ begun = Latest(About(s, {"start"}))' => ExpectedBlock(s)' = BlockOf(s, begun)'
<1>1. ASSUME begun = Latest(About(s, {"start"}))
      PROVE  ExpectedBlock(s) = BlockOf(s, begun)
  BY <1>1 DEF ExpectedBlock, BlockOf, ParsedStops, Latest
<1>2. ASSUME begun = Latest(About(s, {"start"}))'
      PROVE  ExpectedBlock(s)' = BlockOf(s, begun)'
  BY <1>2 DEF ExpectedBlock, BlockOf, ParsedStops, Latest
<1> QED BY <1>1, <1>2

LEMMA OneMoreStop ==
    ASSUME shown \in Seq(EventsOf(protocol)), NEW e, shown' = Append(shown, e),
           NEW s, NEW begun \in 1 .. Len(shown), 
           e.slot = s => e.type \in {"delta", "stop", "message_start"}
    PROVE  ParsedStops(s, begun)' =
            IF e.type = "stop" /\ e.slot = s /\ e.parses /\ Pieces(s, "call", 0) # {}
            THEN ParsedStops(s, begun) \cup {Number} ELSE ParsedStops(s, begun)
<1>1. /\ Len(shown) \in Nat /\ Number = Len(shown) + 1 /\ DOMAIN shown = 1 .. Len(shown)
      /\ About(s, {"stop"}) \subseteq DOMAIN shown /\ 0 \in 0 .. Len(shown)
      /\ Pieces(s, "call", 0) \subseteq DOMAIN shown
  BY PositionsOfEvents DEF Pieces
<1>2. About(s, {"stop"})' = IF e.type = "stop" /\ e.slot = s THEN About(s, {"stop"}) \cup {Number}
                                                            ELSE About(s, {"stop"})
  BY OneMoreOfType, Zenon
<1>3. /\ \A k \in DOMAIN shown : shown'[k] = shown[k]
      /\ shown'[Number] = e
  BY OneMoreShown
<1>4. \/ Pieces(s, "call", 0)' = Pieces(s, "call", 0)
      \/ e.type = "delta" /\ Pieces(s, "call", 0)' = Pieces(s, "call", 0) \cup {Number}
  BY <1>1, OneMorePiece
<1>5. \A k \in DOMAIN shown :
        (\E n \in Pieces(s, "call", 0)' : n < k) <=> (\E n \in Pieces(s, "call", 0) : n < k)
  BY <1>1, <1>4
<1>6. e.type = "stop" => ((\E n \in Pieces(s, "call", 0)' : n < Number) <=> Pieces(s, "call", 0) # {})
  BY <1>1, <1>4
<1>7. ParsedStops(s, begun)' = {k \in About(s, {"stop"})' : k > begun /\ shown'[k].parses
                                        /\ \E n \in Pieces(s, "call", 0)' : n < k}
  BY DEF ParsedStops
<1> QED BY <1>1, <1>2, <1>3, <1>5, <1>6, <1>7 DEF ParsedStops

\* A delta of a block that is no tool call; a stop of one that is, and can be parsed.
Extends(e, s, begun) ==
    /\ e.slot = s /\ e.type = "delta" /\ e.channel # "call"
    /\ shown[begun].channel = e.channel

Completes(e, s, begun) ==
    /\ e.slot = s /\ e.type = "stop" /\ e.parses
    /\ Pieces(s, "call", 0) # {} /\ shown[begun].channel = "call"

\* What a block should hold changes with its deltas and its stop.
LEMMA OneMoreInBlock ==
    ASSUME shown \in Seq(EventsOf(protocol)), NEW e, shown' = Append(shown, e),
           NEW s, NEW begun \in 1 .. Len(shown),
           e.slot = s => e.type \in {"delta", "stop", "message_start"}
    PROVE  BlockOf(s, begun)' = IF Extends(e, s, begun) THEN BlockOf(s, begun) \cup {Number}
                                ELSE IF Completes(e, s, begun) THEN Pieces(s, "call", 0)
                                ELSE BlockOf(s, begun)
<1> USE DEF Extends, Completes
<1>1. /\ Len(shown) \in Nat /\ Number = Len(shown) + 1 /\ DOMAIN shown = 1 .. Len(shown)
      /\ About(s, {"stop"}) \subseteq DOMAIN shown
      /\ 0 \in 0 .. Len(shown) /\ begun \in 0 .. Len(shown) /\ begun \in DOMAIN shown
      /\ Pieces(s, "call", 0) \subseteq DOMAIN shown
      /\ ParsedStops(s, begun) \in SUBSET (1 .. Len(shown))
  BY PositionsOfEvents DEF Pieces, ParsedStops
<1>2. shown'[begun] = shown[begun]
  BY <1>1, OneMoreShown
<1>4. CASE shown[begun].channel # "call"
  <2>1. PICK c : c = shown[begun].channel
    OBVIOUS
  <2>2. BlockOf(s, begun) = {begun} \cup Pieces(s, c, begun)
    BY <1>4, <2>1 DEF BlockOf
  <2>3. BlockOf(s, begun)' = {begun} \cup Pieces(s, c, begun)'
    BY <1>2, <1>4, <2>1 DEF BlockOf, Pieces
  <2>4. Pieces(s, c, begun)' = IF Extends(e, s, begun) THEN Pieces(s, c, begun) \cup {Number} ELSE Pieces(s, c, begun)
    <3>1. Extends(e, s, begun) <=> e.type = "delta" /\ e.slot = s /\ e.channel = c
      BY <1>4, <2>1
    <3>2. CASE e.type = "delta" /\ e.slot = s /\ e.channel = c
      BY <1>1, <3>1, <3>2, OneMorePiece
    <3>3. CASE ~(e.type = "delta" /\ e.slot = s /\ e.channel = c)
      BY <1>1, <3>1, <3>3, OneMorePiece
    <3> QED BY <3>2, <3>3
  <2> QED BY <1>4, <2>2, <2>3, <2>4
<1>5. CASE shown[begun].channel = "call"
  <2>1. BlockOf(s, begun)' = IF ParsedStops(s, begun)' = {} THEN {begun}
                             ELSE {n \in Pieces(s, "call", 0)' : n < Max(ParsedStops(s, begun)')}
    BY <1>2, <1>5 DEF BlockOf
  <2>2. BlockOf(s, begun) = IF ParsedStops(s, begun) = {} THEN {begun}
                             ELSE {n \in Pieces(s, "call", 0) : n < Max(ParsedStops(s, begun))}
    BY <1>5 DEF BlockOf
  <2>3. ~Extends(e, s, begun)
    BY <1>5
  <2>4. CASE Completes(e, s, begun)
    <3>1. ParsedStops(s, begun)' = ParsedStops(s, begun) \cup {Len(shown) + 1}
      BY <1>1, <2>4, OneMoreStop
    <3>2. Max(ParsedStops(s, begun)') = Len(shown) + 1
      BY <1>1, <3>1, LatestOfOneMore
    <3>3. Pieces(s, "call", 0)' = Pieces(s, "call", 0)
      <4>1. e.type = "stop"
        BY <2>4
      <4> QED BY <1>1, <4>1, OneMorePiece
    <3>4. {n \in Pieces(s, "call", 0) : n < Len(shown) + 1} = Pieces(s, "call", 0)
      BY <1>1
    <3>5. BlockOf(s, begun)' = {n \in Pieces(s, "call", 0) : n < Len(shown) + 1}
      BY <2>1, <3>1, <3>2, <3>3
    <3> QED BY <2>3, <2>4, <3>4, <3>5
  <2>5. CASE ~Completes(e, s, begun)
    <3>1. ParsedStops(s, begun)' = ParsedStops(s, begun)
      BY <1>1, <1>5, <2>5, OneMoreStop
    <3>2. \/ Pieces(s, "call", 0)' = Pieces(s, "call", 0)
          \/ Pieces(s, "call", 0)' = Pieces(s, "call", 0) \cup {Len(shown) + 1}
      BY <1>1, OneMorePiece
    <3>3. ParsedStops(s, begun) # {} => Max(ParsedStops(s, begun)) \in 1 .. Len(shown)
      BY <1>1, LatestIs
    <3>4. ParsedStops(s, begun) # {} => 
            {n \in Pieces(s, "call", 0)' : n < Max(ParsedStops(s, begun))}
                = {n \in Pieces(s, "call", 0) : n < Max(ParsedStops(s, begun))}
      BY <1>1, <3>2, <3>3
    <3> QED BY <2>1, <2>2, <2>3, <2>5, <3>1, <3>4
  <2> QED BY <2>4, <2>5
<1> QED BY <1>4, <1>5

LEMMA PiecesAreBefore ==
    ASSUME shown \in Seq(EventsOf(protocol)), NEW s, NEW c, NEW k
    PROVE  \A n \in Pieces(s, c, k) : n < Number
BY PositionsOfEvents DEF Pieces

LEMMA BlocksAreBefore ==
    ASSUME shown \in Seq(EventsOf(protocol)), NEW s, NEW begun \in 1 .. Len(shown)
    PROVE  \A n \in BlockOf(s, begun) : n < Number
<1>1. Number = Len(shown) + 1 /\ Len(shown) \in Nat
  BY PositionsOfEvents
<1>2. BlockOf(s, begun) \subseteq {begun} \cup Pieces(s, shown[begun].channel, begun)
                                          \cup Pieces(s, "call", 0)
  BY DEF BlockOf
<1> QED BY <1>1, <1>2, PiecesAreBefore

\* A block begins.
LEMMA NewBlock ==
    ASSUME shown \in Seq(EventsOf(protocol)), NEW e, shown' = Append(shown, e), NEW s,
           NEW begun \in Nat, begun = Number
    PROVE  BlockOf(s, begun)' = {begun}
<1>1. /\ DOMAIN shown' = 1 .. begun /\ shown'[begun] = e
      /\ About(s, {"stop"})' \subseteq DOMAIN shown'
  BY OneMoreShown, PositionsOfEvents DEF About
<1>2. ParsedStops(s, begun)' = {}
  BY <1>1 DEF ParsedStops
<1>3. Pieces(s, e.channel, begun)' = {}
  BY NoPieceAfterTheLast
<1> QED BY <1>1, <1>2, <1>3 DEF BlockOf, Pieces

LEMMA YieldKeepsBlocks ==
    ASSUME NEW e \in EventsOf(protocol), Yielded(e), protocol = "messages",
           NEW s \in Slots, BlockHolds(s)
    PROVE  BlockHolds(s)'
<1>0. /\ shown \in Seq(EventsOf(protocol)) /\ shown' = Append(shown, e) /\ Applies(e)
      /\ slots \in [Slots -> SlotStates] /\ slots[s] \in SlotStates
      /\ inputJson \in [Slots -> Seq(Nat)] /\ inputJson[s] \in Seq(Nat)
      /\ protocol \in Protocols /\ UNCHANGED protocol
  BY DEF Yielded, CompatTypes
<1>s. /\ Number \in Nat /\ Len(shown) \in Nat /\ Number = Len(shown) + 1
      /\ 0 \in 0 .. Len(shown) /\ DOMAIN shown = 1 .. Len(shown)
  BY <1>0 DEF Number
<1>1. PICK begun \in 0 .. Len(shown) : begun = Latest(About(s, {"start"}))
  BY <1>0, <1>s, LatestIsShown
<1>2. PICK later : later = Latest(About(s, {"start"})')
  OBVIOUS
<1>3. /\ Lists(inputJson[s], Pieces(s, "call", 0))
      /\ slots[s].kind = IF begun = 0 THEN None ELSE shown[begun].channel
      /\ begun # 0 => Lists(slots[s].of[slots[s].kind], BlockOf(s, begun))
  BY <1>1, BlockIsExpected DEF BlockHolds
<1>4. SUFFICES /\ Lists(inputJson'[s], Pieces(s, "call", 0)')
               /\ slots'[s].kind = IF later = 0 THEN None ELSE shown'[later].channel
               /\ later # 0 => /\ later \in Nat
                               /\ Lists(slots'[s].of[slots'[s].kind], BlockOf(s, later)')
  <2>1. later = Latest(About(s, {"start"}))'
    BY <1>2 DEF Latest
  <2> QED BY <1>4, <2>1, BlockIsExpected DEF BlockHolds
<1>5. /\ \/ e.type = "delta" \/ e.type = "message_start"
         \/ e.type = "start" /\ e.slot \in Slots /\ e.channel \in Channels
         \/ e.type = "stop" /\ e.slot \in Slots /\ e.parses \in BOOLEAN
      /\ e.type = "delta" => e.slot \in Slots /\ e.channel \in Channels
  BY <1>0, <1>s, TypesOfEvents
<1>6. begun # 0 => shown'[begun] = shown[begun] /\ begun \in 1 .. Len(shown)
  BY <1>0, <1>s, OneMoreShown
<1>7. CASE e.type = "start"
  <2>1. AppliesStart(e)
    BY <1>0, <1>s, <1>7, EventsApply
  <2>2. Pieces(s, "call", 0)' = Pieces(s, "call", 0) /\ inputJson' = inputJson
    BY <1>0, <1>s, <1>7, <2>1, OneMorePiece DEF AppliesStart
  <2>3. CASE e.slot = s
    <3>1. later = Number
      BY <1>0, <1>s, <1>2, <1>7, <2>3, OneMoreLatest
    <3>2. slots'[s].kind = e.channel /\ slots'[s].of[e.channel] = <<Number>>
      BY <1>0, <1>s, <1>5, <1>7, <2>1, <2>3 DEF AppliesStart, EmptySlot
    <3>3. shown'[later] = e /\ BlockOf(s, later)' = {Number}
      BY <1>0, <1>s, <3>1, NewBlock, OneMoreShown
    <3>4. Lists(<<Number>>, {Number}) /\ later \in Nat /\ later # 0
      BY <1>s, <3>1, ListsOne
    <3>5. slots'[s].of[slots'[s].kind] = <<Number>>
      BY <3>2
    <3>6. Lists(inputJson'[s], Pieces(s, "call", 0)')
      BY <1>3, <2>2
    <3> QED BY <3>2, <3>3, <3>4, <3>5, <3>6
  <2>4. CASE e.slot # s
    <3>1. later = begun
      BY <1>0, <1>s, <1>1, <1>2, <2>4, OneMoreLatest
    <3>2. slots'[s] = slots[s]
      BY <1>0, <1>s, <2>1, <2>4 DEF AppliesStart
    <3>3. begun # 0 => BlockOf(s, begun)' = BlockOf(s, begun)
      BY <1>0, <1>s, <1>6, <2>4, OneMoreInBlock DEF Extends, Completes
    <3> QED BY <1>3, <1>6, <2>2, <3>1, <3>2, <3>3
  <2> QED BY <2>3, <2>4
<1>8. ASSUME e.type \in {"delta", "stop", "message_start"} PROVE later = begun
  BY <1>0, <1>s, <1>1, <1>2, <1>8, OneMoreLatest
<1>9. CASE e.type = "delta"
  <2>1. AppliesDelta(e)
    BY <1>0, <1>s, <1>9, EventsApply
  <2>2. CASE e.channel = "call"
    <3>1. slots' = slots /\ inputJson' = [inputJson EXCEPT ![e.slot] = Append(@, Number)]
      BY <1>0, <1>s, <2>1, <2>2 DEF AppliesDelta
    <3>2. Lists(inputJson'[s], Pieces(s, "call", 0)')
      <4>1. CASE e.slot = s
        <5>1. Pieces(s, "call", 0)' = Pieces(s, "call", 0) \cup {Number}
          <6>1. e.type = "delta" /\ e.slot = s /\ e.channel = "call"
            BY <1>9, <2>2, <4>1
          <6>2. /\ shown \in Seq(EventsOf(protocol)) /\ shown' = Append(shown, e)
                /\ 0 \in 0 .. Len(shown)
            BY <1>0, <1>s
          <6> QED BY <6>1, <6>2, OneMorePiece
        <5>2. inputJson'[s] = Append(inputJson[s], Number)
          BY <1>0, <1>s, <3>1, <4>1
        <5>3. Lists(Append(inputJson[s], Number), Pieces(s, "call", 0) \cup {Number})
          BY <1>0, <1>s, <1>3, ListsOneMore, PiecesAreBefore
        <5> QED BY <5>1, <5>2, <5>3
      <4>2. CASE e.slot # s
        <5>1. Pieces(s, "call", 0)' = Pieces(s, "call", 0)
          <6>1. ~(e.type = "delta" /\ e.slot = s /\ e.channel = "call")
            BY <4>2
          <6> QED BY <1>0, <1>s, <6>1, OneMorePiece
        <5>2. inputJson'[s] = inputJson[s]
          BY <1>0, <1>s, <3>1, <4>2
        <5> QED BY <1>3, <5>1, <5>2
      <4> QED BY <4>1, <4>2
    <3>3. begun # 0 => BlockOf(s, begun)' = BlockOf(s, begun)
      BY <1>0, <1>s, <1>6, <1>9, <2>2, OneMoreInBlock DEF Extends, Completes
    <3> QED BY <1>3, <1>6, <1>8, <1>9, <3>1, <3>2, <3>3
  <2>3. CASE e.channel # "call"
    <3>1. /\ inputJson' = inputJson
          /\ slots' = IF slots[e.slot].kind = e.channel
                      THEN Added(e.slot, e.channel) ELSE slots
      BY <1>0, <1>s, <2>1, <2>3 DEF AppliesDelta
    <3>2. Pieces(s, "call", 0)' = Pieces(s, "call", 0)
      BY <1>0, <1>s, <2>3, OneMorePiece
    <3>3. CASE e.slot = s /\ slots[s].kind = e.channel
      <4>1. begun # 0 /\ shown[begun].channel = e.channel
        BY <1>3, <1>5, <1>9, <3>3, CompatAssumption DEF None
      <4>2. BlockOf(s, begun)' = BlockOf(s, begun) \cup {Number}
        BY <1>0, <1>s, <1>6, <1>9, <2>3, <3>3, <4>1, OneMoreInBlock DEF Extends, Completes
      <4>3. /\ slots'[s].of[e.channel] = Append(slots[s].of[e.channel], Number)
            /\ slots'[s].kind = slots[s].kind
        <5>1. e.channel \in Channels /\ slots' = Added(s, e.channel)
          BY <1>5, <1>9, <3>1, <3>3
        <5>2. /\ Added(s, e.channel)[s].of[e.channel] = Append(slots[s].of[e.channel], Number)
              /\ Added(s, e.channel)[s].kind = slots[s].kind
          <6>1. PICK c \in Channels : c = e.channel
            BY <5>1
          <6>2. /\ Added(s, c)[s].of[c] = Append(slots[s].of[c], Number)
                /\ Added(s, c)[s].kind = slots[s].kind
            BY <1>0, AddedAdds, Zenon
          <6> QED BY <6>1, <6>2
        <5> QED BY <5>1, <5>2
      <4>4. slots[s].of[e.channel] \in Seq(Nat)
        BY <1>0, <1>s, <1>5, <1>9 DEF SlotStates
      <4>5. Lists(Append(slots[s].of[e.channel], Number), BlockOf(s, begun) \cup {Number})
        BY <1>0, <1>s, <1>3, <1>6, <3>3, <4>1, <4>4, ListsOneMore, BlocksAreBefore
      <4>6. later = begun /\ shown'[later] = shown[begun] /\ begun \in Nat
        BY <1>6, <1>8, <1>9, <4>1
      <4>7. slots'[s].kind = e.channel
        BY <3>3, <4>3
      <4>8. Lists(slots'[s].of[slots'[s].kind], BlockOf(s, later)')
        BY <4>2, <4>3, <4>5, <4>6, <4>7
      <4>9. Lists(inputJson'[s], Pieces(s, "call", 0)')
        BY <1>3, <3>1, <3>2
      <4> QED BY <4>1, <4>6, <4>7, <4>8, <4>9
    <3>4. CASE ~(e.slot = s /\ slots[s].kind = e.channel)
      <4>1. slots'[s] = slots[s]
        BY <1>0, <1>s, <1>5, <1>9, <3>1, <3>4, AddedAdds
      <4>2. begun # 0 => BlockOf(s, begun)' = BlockOf(s, begun)
        <5>1. begun # 0 => ~Extends(e, s, begun) /\ ~Completes(e, s, begun)
          BY <1>3, <1>9, <3>4 DEF Extends, Completes
        <5>2. e.slot = s => e.type \in {"delta", "stop", "message_start"}
          BY <1>9
        <5> QED BY <1>0, <1>6, <5>1, <5>2, OneMoreInBlock
      <4> QED BY <1>3, <1>6, <1>8, <1>9, <3>1, <3>2, <4>1, <4>2
    <3> QED BY <3>3, <3>4
  <2> QED BY <2>2, <2>3
<1>10. CASE e.type = "stop"
  <2>1. /\ inputJson' = inputJson
        /\ slots' = IF slots[e.slot].kind = "call" /\ inputJson[e.slot] # <<>> /\ e.parses
                    THEN [slots EXCEPT ![e.slot].of["call"] = inputJson[e.slot]] ELSE slots
    BY <1>0, <1>s, <1>10, EventsApply DEF AppliesStop
  <2>2. Pieces(s, "call", 0)' = Pieces(s, "call", 0)
    BY <1>0, <1>s, <1>10, OneMorePiece
  <2>3. inputJson[s] # <<>> <=> Pieces(s, "call", 0) # {}
    <3>1. Pieces(s, "call", 0) = {inputJson[s][i] : i \in 1 .. Len(inputJson[s])}
      BY <1>0, <1>3 DEF Lists, ToSet
    <3>2. inputJson[s] = <<>> <=> Len(inputJson[s]) = 0
      BY <1>0
    <3>3. Len(inputJson[s]) \in Nat
      BY <1>0
    <3>4. Len(inputJson[s]) # 0 => inputJson[s][1] \in Pieces(s, "call", 0)
      BY <3>1, <3>3
    <3>5. Len(inputJson[s]) = 0 => Pieces(s, "call", 0) = {}
      BY <3>1
    <3> QED BY <3>2, <3>4, <3>5
  <2>4. CASE e.slot = s /\ slots[s].kind = "call" /\ inputJson[s] # <<>> /\ e.parses
    <3>1. begun # 0 /\ shown[begun].channel = "call"
      BY <1>3, <2>4 DEF None
    <3>2. BlockOf(s, begun)' = Pieces(s, "call", 0)
      BY <1>0, <1>s, <1>6, <1>10, <2>3, <2>4, <3>1, OneMoreInBlock DEF Extends, Completes
    <3>3. slots'[s].kind = "call" /\ slots'[s].of["call"] = inputJson[s]
      <4>1. "call" \in Channels
        BY <1>0, <1>s, <2>4 DEF SlotStates, None
      <4> QED BY <1>0, <1>s, <2>1, <2>4, <4>1 DEF SlotStates
    <3> QED BY <1>3, <1>6, <1>8, <1>10, <2>1, <2>2, <3>1, <3>2, <3>3
  <2>5. CASE ~(e.slot = s /\ slots[s].kind = "call" /\ inputJson[s] # <<>> /\ e.parses)
    <3>1. slots'[s] = slots[s]
      BY <1>0, <1>s, <1>5, <1>10, <2>1, <2>5
    <3>2. begun # 0 => BlockOf(s, begun)' = BlockOf(s, begun)
      <4>1. ASSUME begun # 0 PROVE ~Extends(e, s, begun) /\ ~Completes(e, s, begun)
        BY <1>3, <1>10, <2>3, <2>5, <4>1 DEF Extends, Completes
      <4>2. e.slot = s => e.type \in {"delta", "stop", "message_start"}
        BY <1>10
      <4> QED BY <1>0, <1>6, <4>1, <4>2, OneMoreInBlock
    <3>3. later = begun /\ (begun # 0 => shown'[later] = shown[begun] /\ begun \in Nat)
      BY <1>6, <1>8, <1>10
    <3>4. Lists(inputJson'[s], Pieces(s, "call", 0)')
      BY <1>3, <2>1, <2>2
    <3>5. later # 0 => Lists(slots'[s].of[slots'[s].kind], BlockOf(s, later)')
      BY <1>3, <3>1, <3>2, <3>3
    <3>6. slots'[s].kind = IF later = 0 THEN None ELSE shown'[later].channel
      BY <1>3, <3>1, <3>3
    <3> QED BY <3>3, <3>4, <3>5, <3>6
  <2> QED BY <2>4, <2>5
<1>11. CASE e.type = "message_start"
  <2>1. slots' = slots /\ inputJson' = inputJson
    BY <1>0, <1>s, <1>11, EventsApply DEF AppliesResponse
  <2>2. Pieces(s, "call", 0)' = Pieces(s, "call", 0)
    BY <1>0, <1>s, <1>11, OneMorePiece
  <2>3. begun # 0 => BlockOf(s, begun)' = BlockOf(s, begun)
    <3>1. ~Extends(e, s, begun) /\ ~Completes(e, s, begun) /\ e.type \in {"delta", "stop", "message_start"}
      BY <1>11 DEF Extends, Completes
    <3> QED BY <1>0, <1>6, <3>1, OneMoreInBlock
  <2> QED BY <1>3, <1>6, <1>8, <1>11, <2>1, <2>2, <2>3
<1> QED BY <1>5, <1>7, <1>9, <1>10, <1>11

-----------------------------------------------------------------------------
(* CompatStreams: what the final result is assembled from.                 *)

LEMMA YieldKeepsSlots ==
    ASSUME NEW e \in EventsOf(protocol), Yielded(e), SlotsHoldWhatWasShown
    PROVE  SlotsHoldWhatWasShown'
<1>1. protocol' = protocol /\ protocol \in {"chat", "completion", "messages", "responses"}
  BY TypesOfEvents DEF Yielded, CompatTypes
<1>2. ASSUME NEW s \in Slots
      PROVE  CASE protocol' \in {"chat", "completion"} -> ChoiceHolds(s)'
               [] protocol' = "messages" -> BlockHolds(s)'
               [] protocol' = "responses" -> ItemHolds(s)'
  <2>1. CASE protocol \in {"chat", "completion"}
    BY <1>1, <2>1, YieldKeepsChoices DEF SlotsHoldWhatWasShown
  <2>2. CASE protocol = "messages"
    BY <1>1, <2>2, YieldKeepsBlocks DEF SlotsHoldWhatWasShown
  <2>3. CASE protocol = "responses"
    BY <1>1, <2>3, YieldKeepsItems DEF SlotsHoldWhatWasShown
  <2> QED BY <1>1, <2>1, <2>2, <2>3
<1> QED BY <1>2 DEF SlotsHoldWhatWasShown

\* The latest event of some types about a slot is one.
LEMMA LatestIsOne ==
    ASSUME shown \in Seq(EventsOf(protocol)), NEW s, NEW T
    PROVE  /\ About(s, T) # {} => Max(About(s, T)) \in About(s, T)
                                    /\ Max(About(s, T)) = Latest(About(s, T))
           /\ Latest(About(s, T)) = 0 <=> About(s, T) = {}
           /\ Latest(About(s, T)) \in Nat
<1>1. Len(shown) \in Nat /\ About(s, T) \in SUBSET (1 .. Len(shown))
  BY PositionsOfEvents
<1> QED BY <1>1, LatestIs

LEMMA KindsAreNoMarkers ==
    ASSUME CompatTypes, NEW s \in Slots, NEW k \in DOMAIN shown,
           shown[k].type \in {"start", "delta", "whole", "item"}
    PROVE  shown[k].channel \in Channels /\ shown[k].channel # None
<1>1. shown[k] \in EventsOf(protocol) /\ protocol \in Protocols
  BY DEF CompatTypes
<1>2. shown[k].channel \in Channels
  BY <1>1, TypesOfEvents
<1> QED BY <1>2, CompatAssumption DEF None

\* What the slots hold is the answer that was shown.
LEMMA AssembledIsAsShown ==
    ASSUME CompatTypes, SlotsHoldWhatWasShown, ~OutputGiven
    PROVE  IsAsShown(Assembled)
<1>0. protocol \in {"chat", "completion", "messages", "responses"}
  BY CompatAssumption DEF CompatTypes
<1>1. ASSUME NEW s \in Slots, protocol \in {"chat", "completion"}, NEW c \in Channels
      PROVE  Lists(Assembled[s][c], Pieces(s, c, 0))
  BY <1>1 DEF Assembled, SlotsHoldWhatWasShown, ChoiceHolds
<1>2. ASSUME NEW s \in Slots, protocol = "messages"
      PROVE  Lists(Assembled[s], ExpectedBlock(s))
  <2>1. BlockHolds(s)
    BY <1>2 DEF SlotsHoldWhatWasShown
  <2>2. Assembled[s] = IF slots[s].kind = None THEN <<>> ELSE slots[s].of[slots[s].kind]
    BY <1>2 DEF Assembled
  <2>3. PICK begun : begun = Latest(About(s, {"start"}))
    OBVIOUS
  <2>4. CASE begun = 0
    <3>1. ExpectedBlock(s) = {} /\ slots[s].kind = None
      BY <2>1, <2>3, <2>4 DEF ExpectedBlock, Latest, BlockHolds
    <3> QED BY <2>2, <3>1, ListsNothing
  <2>5. CASE begun # 0
    <3>1. slots[s].kind # None
      <4>1. begun \in About(s, {"start"})
        BY <2>3, <2>5, LatestIsOne DEF CompatTypes
      <4>2. begun \in DOMAIN shown /\ shown[begun].type = "start"
        BY <4>1 DEF About
      <4> QED BY <2>1, <2>3, <2>5, <4>2, KindsAreNoMarkers DEF BlockHolds
    <3>2. Lists(slots[s].of[slots[s].kind], ExpectedBlock(s))
      BY <2>1, <2>3, <2>5 DEF BlockHolds
    <3> QED BY <2>2, <3>1, <3>2
  <2> QED BY <2>4, <2>5
<1>3. ASSUME NEW s \in Slots, protocol = "responses"
      PROVE  Lists(Assembled[s], ExpectedOutput(s))
  <2>1. ItemHolds(s)
    BY <1>3 DEF SlotsHoldWhatWasShown
  <2>2. Assembled[s] = Reconstructed(s)
    BY <1>3 DEF Assembled
  <2> DEFINE items == About(s, {"item"})
             events == About(s, {"delta", "whole", "item"})
  <2>3. /\ canonical[s] = Latest(items) /\ canonical[s] \in Nat
        /\ slots[s].kind = IF events = {} THEN None ELSE shown[Max(events)].channel
        /\ \A c \in Channels : Lists(slots[s].of[c], SentOf(s, c))
    BY <2>1 DEF ItemHolds, CompatTypes
  <2>4. /\ items # {} => Max(items) = Latest(items)
        /\ Latest(items) = 0 <=> items = {}
        /\ events # {} => Max(events) \in events
    BY LatestIsOne DEF CompatTypes
  <2>5. CASE items # {}
    <3>1. Reconstructed(s) = <<Max(items)>> /\ Max(items) \in Nat
      <4>1. canonical[s] = Max(items) /\ canonical[s] # 0 /\ canonical[s] \in Nat
        BY <2>3, <2>4, <2>5
      <4>2. Reconstructed(s) = <<canonical[s]>>
        BY <4>1 DEF Reconstructed
      <4> QED BY <4>1, <4>2
    <3>2. ExpectedOutput(s) = {Max(items)}
      BY <2>5 DEF ExpectedOutput
    <3> QED BY <2>2, <3>1, <3>2, ListsOne
  <2>6. CASE items = {} /\ events = {}
    <3>1. Reconstructed(s) = <<>>
      BY <2>3, <2>4, <2>6 DEF Reconstructed
    <3>2. ExpectedOutput(s) = {}
      BY <2>6 DEF ExpectedOutput
    <3> QED BY <2>2, <3>1, <3>2, ListsNothing
  <2>7. CASE items = {} /\ events # {}
    <3>1. PICK kind \in Channels : kind = shown[Max(events)].channel /\ kind # None
      <4>1. Max(events) \in DOMAIN shown /\ shown[Max(events)].type \in {"delta", "whole", "item"}
        BY <2>4, <2>7 DEF About
      <4> QED BY <4>1, KindsAreNoMarkers
    <3>2. Reconstructed(s) = slots[s].of[kind]
      BY <2>3, <2>4, <2>7, <3>1 DEF Reconstructed
    <3>3. ExpectedOutput(s) = SentOf(s, kind)
      <4>1. {k \in events \ About(s, {"delta"}) : shown[k].channel = kind} = WholeOf(s, kind)
        BY DEF WholeOf, About
      <4>2. ExpectedOutput(s) = (Pieces(s, kind, Max(WholeOf(s, kind) \cup {0}))
                                    \cup {Max(WholeOf(s, kind) \cup {0})}) \ {0}
        BY <2>7, <3>1, <4>1 DEF ExpectedOutput
      <4> QED BY <4>2 DEF SentOf, Latest
    <3> QED BY <2>2, <2>3, <3>2, <3>3
  <2> QED BY <2>5, <2>6, <2>7
<1> QED BY <1>0, <1>1, <1>2, <1>3 DEF IsAsShown

-----------------------------------------------------------------------------
(* CompatStreams: the invariant.                                           *)

LEMMA CompatStarts == CompatInit => CompatInv
<1> SUFFICES ASSUME CompatInit PROVE CompatInv
  OBVIOUS
<1> USE DEF CompatInit
<1>1. CompatTypes
  <2>1. EmptySlot \in SlotStates /\ <<>> \in Seq(Nat) /\ <<>> \in Seq(EventsOf(protocol))
    BY DEF SlotStates, EmptySlot
  <2> QED BY <2>1 DEF CompatTypes
<1>2. \A s, T : About(s, T) = {}
  BY DEF About
<1>3. \A s, c, k : Pieces(s, c, k) = {}
  BY <1>2 DEF Pieces
<1>4. Latest({}) = 0
  BY LatestIs, 0 \in Nat
<1>5. ASSUME NEW s \in Slots
      PROVE  ChoiceHolds(s) /\ BlockHolds(s) /\ ItemHolds(s)
  <2>1. /\ slots[s].kind = None /\ inputJson[s] = <<>> /\ canonical[s] = 0
        /\ \A c \in Channels : slots[s].of[c] = <<>>
    BY DEF EmptySlot
  <2>2. \A c : SentOf(s, c) = {}
    BY <1>2, <1>3, <1>4 DEF SentOf, WholeOf
  <2>3. ChoiceHolds(s)
    BY <1>3, <2>1, ListsNothing DEF ChoiceHolds
  <2>4. BlockHolds(s)
    BY <1>2, <1>3, <1>4, <2>1, ListsNothing DEF BlockHolds
  <2>5. ItemHolds(s)
    BY <1>2, <1>4, <2>1, <2>2, ListsNothing DEF ItemHolds
  <2> QED BY <2>3, <2>4, <2>5
<1>6. SlotsHoldWhatWasShown
  BY <1>1, <1>5, TypesOfEvents, CompatAssumption DEF SlotsHoldWhatWasShown
<1>7. failure <=> Failed
  BY DEF Failed
<1>8. FinalResultIsWhatWasShown
  BY DEF FinalResultIsWhatWasShown, Pending, Rejected
<1> QED BY <1>1, <1>6, <1>7, <1>8 DEF CompatInv

\* Only the Responses API has an event that says so.
LEMMA FailuresAreOfResponses ==
    ASSUME CompatTypes, Failed
    PROVE  protocol = "responses"
<1>1. PICK k \in DOMAIN shown : shown[k].type = "failed"
  BY DEF Failed
<1>2. shown[k] \in EventsOf(protocol) /\ protocol \in Protocols
  BY DEF CompatTypes
<1> QED BY <1>1, <1>2, TypesOfEvents

LEMMA CompatStep == CompatInv /\ [CompatNext]_compatVars => CompatInv'
<1> SUFFICES ASSUME CompatInv, [CompatNext]_compatVars PROVE CompatInv'
  OBVIOUS
<1>0. CompatTypes /\ SlotsHoldWhatWasShown /\ (failure <=> Failed) /\ FinalResultIsWhatWasShown
  BY DEF CompatInv
<1>1. Rejected # Pending /\ Rejected.is # "resolved" /\ Pending.is # "resolved"
  BY DEF Rejected, Pending
\* What follows when the stream stays as it was shown.
<1>2. ASSUME UNCHANGED <<protocol, shown, slots, inputJson, canonical, failure>>,
             generator' \in {"idle", "awaiting", "suspended", "returned", "threw", "left"},
             FinalResultIsWhatWasShown'
      PROVE  CompatInv'
  <2>1. CompatTypes'
    BY <1>0, <1>2 DEF CompatTypes
  <2>2. SlotsHoldWhatWasShown'
    <3>1. ASSUME NEW s
          PROVE  /\ ChoiceHolds(s)' <=> ChoiceHolds(s)
                 /\ BlockHolds(s)' <=> BlockHolds(s)
                 /\ ItemHolds(s)' <=> ItemHolds(s)
      <4>1. ChoiceHolds(s)' <=> ChoiceHolds(s)
        BY <1>2 DEF ChoiceHolds, Pieces, About
      <4>2. ExpectedBlock(s)' = ExpectedBlock(s)
        BY <1>2 DEF ExpectedBlock, Pieces, About
      <4>3. BlockHolds(s)' <=> BlockHolds(s)
        BY <1>2, <4>2 DEF BlockHolds, Pieces, About
      <4>4. \A c : SentOf(s, c)' = SentOf(s, c)
        BY <1>2 DEF SentOf, WholeOf, Pieces, About
      <4>5. ItemHolds(s)' <=> ItemHolds(s)
        BY <1>2, <4>4 DEF ItemHolds, About
      <4> QED BY <4>1, <4>3, <4>5
    <3>2. protocol' = protocol /\ protocol \in {"chat", "completion", "messages", "responses"}
      BY <1>0, <1>2, CompatAssumption DEF CompatTypes
    <3>3. ASSUME NEW s \in Slots
          PROVE  CASE protocol' \in {"chat", "completion"} -> ChoiceHolds(s)'
                   [] protocol' = "messages" -> BlockHolds(s)'
                   [] protocol' = "responses" -> ItemHolds(s)'
      BY <1>0, <3>1, <3>2 DEF SlotsHoldWhatWasShown
    <3> QED BY <3>3 DEF SlotsHoldWhatWasShown
  <2>3. failure' <=> Failed'
    BY <1>0, <1>2 DEF Failed
  <2> QED BY <1>2, <2>1, <2>2, <2>3 DEF CompatInv
<1>3. ASSUME UNCHANGED <<protocol, shown>>
      PROVE  /\ Failed' <=> Failed
             /\ \A answer : IsAsShown(answer)' <=> IsAsShown(answer)
  BY <1>3 DEF Failed, IsAsShown, ExpectedBlock, ExpectedOutput, Pieces, About
<1>4. CASE Iterates
  <2>1. FinalResultIsWhatWasShown'
    BY <1>0, <1>4 DEF Iterates, FinalResultIsWhatWasShown
  <2> QED BY <1>2, <1>4, <2>1 DEF Iterates
<1>5. ASSUME NEW e \in EventsOf(protocol), Yields(e) PROVE CompatInv'
  <2>1. Yielded(e)
    BY <1>0, <1>5 DEF Yields, Yielded
  <2>2. CompatTypes'
    <3>1. generator' = "suspended" /\ protocol' = protocol
      BY <1>5 DEF Yields
    <3> QED BY <1>0, <2>1, <3>1, YieldKeepsTypes DEF CompatTypes
  <2>3. FinalResultIsWhatWasShown'
    BY <1>0, <1>5 DEF Yields, FinalResultIsWhatWasShown
  <2> QED BY <1>0, <2>1, <2>2, <2>3, YieldKeepsSlots, YieldKeepsFailures DEF CompatInv
<1>6. CASE Resumes
  <2>1. FinalResultIsWhatWasShown'
    BY <1>0, <1>6 DEF Resumes, FinalResultIsWhatWasShown
  <2> QED BY <1>2, <1>6, <2>1 DEF Resumes
<1>7. CASE SourceEnds
  <2>1. /\ generator = "awaiting" /\ generator' \in {"returned", "threw"}
        /\ UNCHANGED <<protocol, shown, slots, inputJson, canonical, failure>>
    BY <1>7 DEF SourceEnds, Throws
  <2>2. final.is # "resolved"
    BY <1>0, <2>1 DEF FinalResultIsWhatWasShown
  <2>3. CASE Fails
    <3>1. final' = IF final = Pending THEN Rejected ELSE final
      BY <1>7, <2>3 DEF SourceEnds, Throws, Settles
    <3>2. final' # Pending /\ final'.is # "resolved"
      BY <1>1, <2>2, <3>1
    <3>3. FinalResultIsWhatWasShown'
      BY <3>2 DEF FinalResultIsWhatWasShown
    <3> QED BY <1>2, <2>1, <3>3
  <2>4. CASE ~Fails
    <3> DEFINE outcome == [is |-> "resolved", asSent |-> OutputGiven, answer |-> Assembled]
    <3>1. final' = (IF final = Pending THEN outcome ELSE final) /\ generator' = "returned"
      BY <1>7, <2>4 DEF SourceEnds, Settles
    <3>2. outcome.is = "resolved" /\ outcome.asSent = OutputGiven /\ outcome.answer = Assembled
      OBVIOUS
    <3>3. outcome # Pending
      BY <3>2, <1>1
    <3>4. ~Failed
      BY <1>0, <2>4, FailuresAreOfResponses DEF Fails
    <3>5. OutputGiven \/ IsAsShown(Assembled)
      BY <1>0, AssembledIsAsShown
    <3> HIDE DEF outcome
    <3>6. outcome.asSent \/ IsAsShown(outcome.answer)
      BY <3>2, <3>5
    <3>7. FinalResultIsWhatWasShown'
      <4>1. CASE final = Pending
        BY <1>3, <2>1, <3>1, <3>3, <3>4, <3>6, <4>1 DEF FinalResultIsWhatWasShown
      <4>2. CASE final # Pending
        BY <2>2, <3>1, <4>2 DEF FinalResultIsWhatWasShown
      <4> QED BY <4>1, <4>2
    <3> QED BY <1>2, <2>1, <3>7
  <2> QED BY <2>3, <2>4
<1>8. CASE SourceFails \/ ConsumerLeaves
  <2>1. /\ generator \in {"awaiting", "suspended"} /\ generator' \in {"threw", "left"}
        /\ UNCHANGED <<protocol, shown, slots, inputJson, canonical, failure>>
        /\ final' = IF final = Pending THEN Rejected ELSE final
    BY <1>8 DEF SourceFails, Throws, ConsumerLeaves, Settles
  <2>2. final.is # "resolved"
    BY <1>0, <2>1 DEF FinalResultIsWhatWasShown
  <2>3. FinalResultIsWhatWasShown'
    BY <1>1, <2>1, <2>2 DEF FinalResultIsWhatWasShown
  <2> QED BY <1>2, <2>1, <2>3
<1>9. CASE Aborts
  <2>1. /\ UNCHANGED <<protocol, generator, shown, slots, inputJson, canonical, failure>>
        /\ final' = IF final = Pending THEN Rejected ELSE final
    BY <1>9 DEF Aborts, Settles
  <2>2. FinalResultIsWhatWasShown'
    BY <1>0, <1>1, <1>3, <2>1 DEF FinalResultIsWhatWasShown
  <2> QED BY <1>0, <1>2, <2>1, <2>2 DEF CompatTypes
<1>10. CASE UNCHANGED compatVars
  <2>1. UNCHANGED <<protocol, generator, shown, slots, inputJson, canonical, failure, final>>
    BY <1>10 DEF compatVars
  <2>2. FinalResultIsWhatWasShown'
    BY <1>0, <1>3, <2>1 DEF FinalResultIsWhatWasShown
  <2> QED BY <1>0, <1>2, <2>1, <2>2 DEF CompatTypes
<1> QED BY <1>4, <1>5, <1>6, <1>7, <1>8, <1>9, <1>10 DEF CompatNext

\* Whatever events a provider sends, in whatever order, and however the stream
\* ends: finalResult is settled once the iteration is over, and it resolves only
\* after the whole of a stream without a failure, with what the consumer was
\* shown and nothing else.
THEOREM AnswersAreAsShown == CompatSpec => []FinalResultIsWhatWasShown
<1>1. CompatInv => FinalResultIsWhatWasShown
  BY DEF CompatInv
<1> QED BY <1>1, CompatStarts, CompatStep, PTL DEF CompatSpec

-----------------------------------------------------------------------------
(* Folds.  The folds of the community modules are one recursive function   *)
(* over the subsets of a finite set of indices.  That such a function      *)
(* exists, and where its values lie, is shown once, for a step given as a  *)
(* function; a fold is then read as such a function.                       *)

\* pick names an element of every set of indices that has one.
PicksFrom(pick, D) == \A s \in SUBSET D : s # {} => pick[s] \in s

\* One step of a fold over the indices of s, given the fold over the fewer.
FoldStep(base, F, pick, g, s) ==
    IF s = {} THEN base ELSE F[pick[s]][g[s \ {pick[s]}]]

IsFold(g, D, base, F, pick) == g = [s \in SUBSET D |-> FoldStep(base, F, pick, g, s)]

\* g is the fold as far as the sets of at most n indices go.
FoldsUpTo(D, base, F, pick, g, n) ==
    \A s \in SUBSET D : Cardinality(s) <= n => g[s] = FoldStep(base, F, pick, g, s)

LEMMA Sizes ==
    ASSUME NEW D, IsFiniteSet(D), NEW s \in SUBSET D
    PROVE  /\ Cardinality(s) \in Nat
           /\ s = {} <=> Cardinality(s) = 0
           /\ Cardinality(s) <= Cardinality(D)
           /\ \A x \in s : s \ {x} \in SUBSET D /\ Cardinality(s \ {x}) = Cardinality(s) - 1
<1>1. IsFiniteSet(s) /\ Cardinality(s) <= Cardinality(D)
  BY FS_Subset
<1>2. Cardinality(s) \in Nat /\ (s = {} <=> Cardinality(s) = 0)
  BY <1>1, FS_CardinalityType, FS_EmptySet
<1>3. \A x \in s : Cardinality(s \ {x}) = Cardinality(s) - 1
  BY <1>1, FS_RemoveElement
<1> QED
  BY <1>1, <1>2, <1>3

LEMMA FoldExists ==
    ASSUME NEW D, IsFiniteSet(D), NEW B, NEW base \in B, NEW F \in [D -> [B -> B]],
           NEW pick, PicksFrom(pick, D)
    PROVE  \E g \in [SUBSET D -> B] : IsFold(g, D, base, F, pick)
<1> USE DEF PicksFrom
<1> DEFINE Good(n) == \E g \in [SUBSET D -> B] : FoldsUpTo(D, base, F, pick, g, n)
           Bad == {n \in Nat : ~Good(n)}
<1>1. Good(0)
  <2>1. FoldsUpTo(D, base, F, pick, [s \in SUBSET D |-> base], 0)
    <3> SUFFICES ASSUME NEW s \in SUBSET D, Cardinality(s) <= 0
                 PROVE  base = FoldStep(base, F, pick, [t \in SUBSET D |-> base], s)
      BY DEF FoldsUpTo
    <3>1. s = {}
      BY Sizes
    <3> QED
      BY <3>1 DEF FoldStep
  <2> QED
    BY <2>1
<1>2. ASSUME NEW n \in Nat, Good(n)
      PROVE  Good(n + 1)
  <2>1. PICK g \in [SUBSET D -> B] : FoldsUpTo(D, base, F, pick, g, n)
    BY <1>2
  <2> DEFINE h == [s \in SUBSET D |-> IF Cardinality(s) <= n THEN g[s]
                                      ELSE FoldStep(base, F, pick, g, s)]
  <2>2. ASSUME NEW s \in SUBSET D
        PROVE  FoldStep(base, F, pick, g, s) \in B
    <3>1. s # {} => pick[s] \in D /\ s \ {pick[s]} \in SUBSET D
      OBVIOUS
    <3> QED
      BY <3>1 DEF FoldStep
  <2>3. h \in [SUBSET D -> B]
    BY <2>1, <2>2
  <2>4. ASSUME NEW s \in SUBSET D, Cardinality(s) <= n + 1
        PROVE  h[s] = FoldStep(base, F, pick, h, s)
    <3>1. h[s] = FoldStep(base, F, pick, g, s)
      BY <2>1 DEF FoldsUpTo
    <3>2. CASE s = {}
      BY <3>1, <3>2 DEF FoldStep
    <3>3. CASE s # {}
      <4>1. s \ {pick[s]} \in SUBSET D /\ Cardinality(s \ {pick[s]}) <= n
        <5>1. pick[s] \in s
          BY <3>3
        <5>2. /\ Cardinality(s \ {pick[s]}) = Cardinality(s) - 1
              /\ Cardinality(s) \in Nat /\ s \ {pick[s]} \in SUBSET D
          BY <5>1, Sizes
        <5> QED
          BY <2>4, <5>2
      <4>2. h[s \ {pick[s]}] = g[s \ {pick[s]}]
        BY <4>1
      <4> HIDE DEF h
      <4> QED
        BY <3>1, <3>3, <4>2 DEF FoldStep
    <3> QED
      BY <3>2, <3>3
  <2> HIDE DEF h
  <2> QED
    BY <2>3, <2>4 DEF FoldsUpTo
<1>3. Good(Cardinality(D))
  <2>1. Cardinality(D) \in Nat
    BY FS_CardinalityType
  <2> SUFFICES Bad = {}
    BY <2>1
  <2> HIDE DEF Good
  <2>2. ASSUME Bad # {} PROVE FALSE
    <3>1. PICK m \in Bad : \A n \in Bad : m <= n
      BY <2>2, LeastExists
    <3>2. m \in Nat /\ m # 0
      BY <1>1, <3>1
    <3>3. m - 1 \in Nat /\ m - 1 \notin Bad
      BY <3>1, <3>2
    <3>4. Good((m - 1) + 1)
      BY <1>2, <3>3
    <3> QED
      BY <3>1, <3>2, <3>4
  <2> QED
    BY <2>2
<1>4. PICK g \in [SUBSET D -> B] : FoldsUpTo(D, base, F, pick, g, Cardinality(D))
  BY <1>3
<1>5. \A s \in SUBSET D : g[s] = FoldStep(base, F, pick, g, s)
  BY <1>4, Sizes DEF FoldsUpTo
<1> QED
  BY <1>4, <1>5 DEF IsFold

\* A function that takes the step wherever the fold before it is of the type.
StepsWhereTyped(g, D, B, base, F, pick) ==
    /\ g = [s \in SUBSET D |-> g[s]]
    /\ \A s \in SUBSET D :
          (s # {} => g[s \ {pick[s]}] \in B) => g[s] = FoldStep(base, F, pick, g, s)

LEMMA FoldHasType ==
    ASSUME NEW D, IsFiniteSet(D), NEW B, NEW base \in B, NEW F \in [D -> [B -> B]],
           NEW pick, PicksFrom(pick, D),
           NEW g, StepsWhereTyped(g, D, B, base, F, pick)
    PROVE  g \in [SUBSET D -> B]
<1> USE DEF PicksFrom, StepsWhereTyped
<1> DEFINE Bad == {n \in Nat : \E s \in SUBSET D : Cardinality(s) = n /\ g[s] \notin B}
<1>1. ASSUME Bad # {} PROVE FALSE
  <2>1. PICK m \in Bad : \A n \in Bad : m <= n
    BY <1>1, LeastExists
  <2>2. PICK s \in SUBSET D : Cardinality(s) = m /\ g[s] \notin B
    BY <2>1
  <2>3. s # {}
    BY <2>2 DEF FoldStep
  <2>4. pick[s] \in s /\ pick[s] \in D
    BY <2>3
  <2>5. s \ {pick[s]} \in SUBSET D /\ Cardinality(s \ {pick[s]}) = m - 1
        /\ m \in Nat /\ m # 0
    BY <2>2, <2>3, <2>4, Sizes
  <2>6. g[s \ {pick[s]}] \in B
    <3>1. m - 1 \in Nat /\ ~(m <= m - 1)
      BY <2>5
    <3>2. m - 1 \notin Bad
      BY <2>1, <3>1
    <3> QED
      BY <2>5, <3>1, <3>2
  <2>7. g[s] = F[pick[s]][g[s \ {pick[s]}]]
    BY <2>3, <2>6 DEF FoldStep
  <2>8. F[pick[s]] \in [B -> B]
    BY <2>4
  <2>9. F[pick[s]][g[s \ {pick[s]}]] \in B
    BY <2>6, <2>8
  <2> QED
    BY <2>2, <2>7, <2>9
<1>2. \A s \in SUBSET D : g[s] \in B
  BY <1>1, Sizes
<1> QED
  BY <1>2

-----------------------------------------------------------------------------
(* ConversationSession: the folds of compactConversationHistory.           *)

\* Cost, as a function of the set of messages that are counted.
CostOf(ms) ==
    CHOOSE sum : sum = [s \in SUBSET (DOMAIN ms) |->
        IF s = {} THEN 0
        ELSE sum[s \ {CHOOSE i \in s : TRUE}] + MessageTokens[ms[CHOOSE i \in s : TRUE]]]

LEMMA CostUnfolds ==
    ASSUME NEW ms \in Seq(Messages)
    PROVE  /\ Cost(ms) = CostOf(ms)[DOMAIN ms]
           /\ CostOf(ms) \in [SUBSET (DOMAIN ms) -> Nat]
           /\ CostOf(ms)[{}] = 0
           /\ \A s \in SUBSET (DOMAIN ms) : s # {} =>
                  \E i \in s : CostOf(ms)[s] = CostOf(ms)[s \ {i}] + MessageTokens[ms[i]]
<1> DEFINE D == DOMAIN ms
           F == [i \in D |-> [n \in Nat |-> n + MessageTokens[ms[i]]]]
           pick == [s \in SUBSET D |-> CHOOSE i \in s : TRUE]
           g == CostOf(ms)
<1>1. Cost(ms) = CostOf(ms)[DOMAIN ms]
  BY Zenon DEF Cost, FoldSeq, FoldFunction, FoldFunctionOnSet, MapThenFoldSet, CostOf
<1>2. IsFiniteSet(D)
  <2>1. D = 1 .. Len(ms) /\ Len(ms) \in Nat
    OBVIOUS
  <2> QED
    BY <2>1, FS_Interval
<1>3. \A i \in D : MessageTokens[ms[i]] \in Nat
  BY ConversationAssumption
<1>4. F \in [D -> [Nat -> Nat]]
  BY <1>3
<1>5. \A s \in SUBSET D : s # {} => pick[s] \in s
  OBVIOUS
<1>6. PICK f \in [SUBSET D -> Nat] : IsFold(f, D, 0, F, pick)
  <2>1. 0 \in Nat /\ PicksFrom(pick, D)
    BY <1>5 DEF PicksFrom
  <2> HIDE DEF F, pick, D
  <2> QED
    BY <1>2, <1>4, <2>1, FoldExists
<1>7. ASSUME NEW h, NEW s \in SUBSET D, s # {} => h[s \ {pick[s]}] \in Nat
      PROVE  FoldStep(0, F, pick, h, s) =
                IF s = {} THEN 0 ELSE h[s \ {pick[s]}] + MessageTokens[ms[pick[s]]]
  <2>1. CASE s = {}
    BY <2>1 DEF FoldStep
  <2>2. CASE s # {}
    <3>1. pick[s] \in D
      BY <1>5, <2>2
    <3> HIDE DEF pick
    <3> QED
      BY <1>7, <2>2, <3>1 DEF FoldStep
  <2> QED
    BY <2>1, <2>2
<1>8. f = [s \in SUBSET D |->
              IF s = {} THEN 0
              ELSE f[s \ {CHOOSE i \in s : TRUE}] + MessageTokens[ms[CHOOSE i \in s : TRUE]]]
  <2>1. \A s \in SUBSET D : f[s] =
              IF s = {} THEN 0 ELSE f[s \ {pick[s]}] + MessageTokens[ms[pick[s]]]
    <3> SUFFICES ASSUME NEW s \in SUBSET D
                 PROVE  f[s] = IF s = {} THEN 0
                               ELSE f[s \ {pick[s]}] + MessageTokens[ms[pick[s]]]
      OBVIOUS
    <3>1. f[s] = FoldStep(0, F, pick, f, s)
      <4> HIDE DEF F, pick
      <4> QED
        BY <1>6 DEF IsFold
    <3>2. s \ {pick[s]} \in SUBSET D
      OBVIOUS
    <3>3. f[s \ {pick[s]}] \in Nat
      BY <3>2
    <3> HIDE DEF F, pick
    <3> QED
      BY <1>7, <3>1, <3>3
  <2> QED
    BY <2>1
<1>9. g = [s \in SUBSET D |->
              IF s = {} THEN 0
              ELSE g[s \ {CHOOSE i \in s : TRUE}] + MessageTokens[ms[CHOOSE i \in s : TRUE]]]
  BY <1>8, Zenon DEF CostOf
<1> HIDE DEF g
<1>10. \A s \in SUBSET D : g[s] =
              IF s = {} THEN 0 ELSE g[s \ {pick[s]}] + MessageTokens[ms[pick[s]]]
  <2>1. PICK G : G = [s \in SUBSET D |->
              IF s = {} THEN 0
              ELSE g[s \ {CHOOSE i \in s : TRUE}] + MessageTokens[ms[CHOOSE i \in s : TRUE]]]
    OBVIOUS
  <2>2. g = G
    BY <1>9, <2>1, Zenon
  <2> QED
    BY <2>1, <2>2
<1>11. g \in [SUBSET D -> Nat]
  <2>1. g = [s \in SUBSET D |-> g[s]]
    <3>1. PICK e : e = [s \in SUBSET D |->
              IF s = {} THEN 0
              ELSE g[s \ {CHOOSE i \in s : TRUE}] + MessageTokens[ms[CHOOSE i \in s : TRUE]]]
      OBVIOUS
    <3>2. g = e
      BY <1>9, <3>1, Zenon
    <3>3. e = [s \in SUBSET D |-> e[s]]
      BY <3>1
    <3> QED
      BY <3>2, <3>3
  <2>2. \A s \in SUBSET D : (s # {} => g[s \ {pick[s]}] \in Nat) =>
              g[s] = FoldStep(0, F, pick, g, s)
    <3> HIDE DEF F, pick
    <3> QED
      BY <1>7, <1>10
  <2>3. 0 \in Nat /\ PicksFrom(pick, D) /\ StepsWhereTyped(g, D, Nat, 0, F, pick)
    BY <1>5, <2>1, <2>2 DEF PicksFrom, StepsWhereTyped
  <2> HIDE DEF F, pick, D
  <2> QED
    BY <1>2, <1>4, <2>3, FoldHasType
<1>12. g[{}] = 0
  <2>1. {} \in SUBSET D
    OBVIOUS
  <2> QED
    BY <1>10, <2>1
<1> HIDE DEF pick
<1> QED
  BY <1>1, <1>5, <1>10, <1>11, <1>12 DEF g

Walks == [used : Nat, retained : Seq(Messages), open : BOOLEAN]

\* The walk of Compacted, as a function of the set of messages it has passed.
WalkOver(ms, base, budget, minTail) ==
    CHOOSE walk : walk = [s \in SUBSET (DOMAIN ms) |->
        IF s = {} THEN base
        ELSE Keeps(walk[s \ {Min(s)}], ms[Min(s)], budget, minTail)]

LEMMA KeepsIsAWalk ==
    ASSUME NEW kept \in Walks, NEW m \in Messages, NEW budget \in Nat, NEW minTail \in Nat
    PROVE  Keeps(kept, m, budget, minTail) \in Walks
<1>1. MessageTokens[m] \in Nat
  BY ConversationAssumption
<1>2. <<m>> \o kept.retained \in Seq(Messages) /\ kept.used + MessageTokens[m] \in Nat
  <2>1. <<m>> \in Seq(Messages) /\ kept.retained \in Seq(Messages) /\ kept.used \in Nat
    BY DEF Walks
  <2> QED
    BY <1>1, <2>1, ConcatProperties
<1>3. PICK used \in Nat, retained \in Seq(Messages) :
          used = kept.used + MessageTokens[m] /\ retained = <<m>> \o kept.retained
  BY <1>2
<1>4. \/ Keeps(kept, m, budget, minTail) = [kept EXCEPT !.used = used, !.retained = retained]
      \/ Keeps(kept, m, budget, minTail) = [kept EXCEPT !.open = FALSE]
  BY <1>3 DEF Keeps
<1> QED
  BY <1>4 DEF Walks

IsWalk(g, ms, base, budget, minTail) ==
    /\ g \in [SUBSET (DOMAIN ms) -> Walks] /\ g[{}] = base
    /\ \A s \in SUBSET (DOMAIN ms) : s # {} =>
           /\ Min(s) \in s /\ \A i \in s : Min(s) <= i
           /\ g[s] = Keeps(g[s \ {Min(s)}], ms[Min(s)], budget, minTail)

LEMMA WalkUnfolds ==
    ASSUME NEW ms \in Seq(Messages), NEW base \in Walks, NEW budget \in Nat, NEW minTail \in Nat
    PROVE  IsWalk(WalkOver(ms, base, budget, minTail), ms, base, budget, minTail)
<1> DEFINE D == DOMAIN ms
           F == [i \in D |-> [kept \in Walks |-> Keeps(kept, ms[i], budget, minTail)]]
           pick == [s \in SUBSET D |-> Min(s)]
           g == WalkOver(ms, base, budget, minTail)
<1>2. IsFiniteSet(D) /\ D \subseteq Nat
  <2>1. D = 1 .. Len(ms) /\ Len(ms) \in Nat
    OBVIOUS
  <2> QED
    BY <2>1, FS_Interval
<1>3. \A i \in D : ms[i] \in Messages
  OBVIOUS
<1>4. F \in [D -> [Walks -> Walks]]
  BY <1>3, KeepsIsAWalk
<1>5. \A s \in SUBSET D : s # {} => pick[s] \in s /\ \A i \in s : pick[s] <= i
  <2> SUFFICES ASSUME NEW s \in SUBSET D, s # {}
               PROVE  Min(s) \in s /\ \A i \in s : Min(s) <= i
    OBVIOUS
  <2> QED
    BY <1>2, MinIsLeast
<1>6. PICK f \in [SUBSET D -> Walks] : IsFold(f, D, base, F, pick)
  <2>1. PicksFrom(pick, D)
    BY <1>5 DEF PicksFrom
  <2> HIDE DEF F, pick, D
  <2> QED
    BY <1>2, <1>4, <2>1, FoldExists
<1>7. ASSUME NEW h, NEW s \in SUBSET D, s # {} => h[s \ {pick[s]}] \in Walks
      PROVE  FoldStep(base, F, pick, h, s) =
                IF s = {} THEN base ELSE Keeps(h[s \ {pick[s]}], ms[pick[s]], budget, minTail)
  <2>1. CASE s = {}
    BY <2>1 DEF FoldStep
  <2>2. CASE s # {}
    <3>1. pick[s] \in D
      BY <1>5, <2>2
    <3> HIDE DEF pick
    <3> QED
      BY <1>7, <2>2, <3>1 DEF FoldStep
  <2> QED
    BY <2>1, <2>2
<1>8. f = [s \in SUBSET D |->
              IF s = {} THEN base ELSE Keeps(f[s \ {Min(s)}], ms[Min(s)], budget, minTail)]
  <2>1. ASSUME NEW s \in SUBSET D
        PROVE  f[s] = IF s = {} THEN base
                      ELSE Keeps(f[s \ {pick[s]}], ms[pick[s]], budget, minTail)
    <3>1. f[s] = FoldStep(base, F, pick, f, s)
      <4> HIDE DEF F, pick
      <4> QED
        BY <1>6 DEF IsFold
    <3>2. s \ {pick[s]} \in SUBSET D
      OBVIOUS
    <3>3. f[s \ {pick[s]}] \in Walks
      BY <3>2
    <3> HIDE DEF F, pick
    <3> QED
      BY <1>7, <3>1, <3>3
  <2> QED
    BY <2>1
<1>9. g = [s \in SUBSET D |->
              IF s = {} THEN base ELSE Keeps(g[s \ {Min(s)}], ms[Min(s)], budget, minTail)]
  BY <1>8, Zenon DEF WalkOver
<1> HIDE DEF g
<1>10. PICK G : G = [s \in SUBSET D |->
              IF s = {} THEN base ELSE Keeps(g[s \ {Min(s)}], ms[Min(s)], budget, minTail)]
  OBVIOUS
<1>11. g = G
  BY <1>9, <1>10, Zenon
<1>12. \A s \in SUBSET D : g[s] =
              IF s = {} THEN base ELSE Keeps(g[s \ {pick[s]}], ms[pick[s]], budget, minTail)
  BY <1>10, <1>11
<1>13. g \in [SUBSET D -> Walks]
  <2>1. g = [s \in SUBSET D |-> g[s]]
    <3>1. G = [s \in SUBSET D |-> G[s]]
      BY <1>10
    <3> QED
      BY <1>11, <3>1
  <2>2. \A s \in SUBSET D : (s # {} => g[s \ {pick[s]}] \in Walks) =>
              g[s] = FoldStep(base, F, pick, g, s)
    <3> HIDE DEF F, pick
    <3> QED
      BY <1>7, <1>12
  <2>3. PicksFrom(pick, D) /\ StepsWhereTyped(g, D, Walks, base, F, pick)
    BY <1>5, <2>1, <2>2 DEF PicksFrom, StepsWhereTyped
  <2> HIDE DEF F, pick, D
  <2> QED
    BY <1>2, <1>4, <2>3, FoldHasType
<1>14. g[{}] = base
  <2>1. {} \in SUBSET D
    OBVIOUS
  <2> QED
    BY <1>12, <2>1
<1>15. \A s \in SUBSET D : s # {} =>
           /\ Min(s) \in s /\ \A i \in s : Min(s) <= i
           /\ g[s] = Keeps(g[s \ {Min(s)}], ms[Min(s)], budget, minTail)
  BY <1>5, <1>12
<1> HIDE DEF pick
<1> QED
  BY <1>13, <1>14, <1>15, Zenon DEF IsWalk, g

LEMMA PinnedIsAPart ==
    ASSUME NEW ms \in Seq(Messages)
    PROVE  Pinned(ms) \in 0 .. Len(ms)
<1> DEFINE all == Append(ms, Message("user", NoTurn))
           I == {i \in 1 .. Len(all) : all[i].role # "system"}
<1>1. Len(all) = Len(ms) + 1 /\ Len(ms) \in Nat /\ all[Len(ms) + 1] = Message("user", NoTurn)
  OBVIOUS
<1>2. Len(ms) + 1 \in I
  BY <1>1 DEF Message
<1>3. I \subseteq Nat /\ I \subseteq 1 .. Len(ms) + 1
  BY <1>1
<1>4. Min(I) \in I
  BY <1>2, <1>3, MinIsLeast
<1>5. Pinned(ms) = Min(I) - 1
  <2>1. SelectInSeq(all, LAMBDA m : m.role # "system") = Min(I)
    BY <1>2 DEF SelectInSeq
  <2> QED
    BY <2>1 DEF Pinned
<1> HIDE DEF I, all
<1>6. Min(I) \in 1 .. Len(ms) + 1
  BY <1>3, <1>4
<1> QED
  BY <1>1, <1>5, <1>6

LEMMA CostIsNat ==
    ASSUME NEW ms \in Seq(Messages)
    PROVE  Cost(ms) \in Nat
<1>1. Cost(ms) = CostOf(ms)[DOMAIN ms] /\ CostOf(ms) \in [SUBSET (DOMAIN ms) -> Nat]
  BY CostUnfolds
<1>2. DOMAIN ms \in SUBSET (DOMAIN ms)
  OBVIOUS
<1> QED
  BY <1>1, <1>2

LEMMA WalkIsAWalk ==
    ASSUME NEW ms \in Seq(Messages), NEW base \in Walks, NEW budget \in Nat, NEW minTail \in Nat
    PROVE  WalkOver(ms, base, budget, minTail)[DOMAIN ms] \in Walks
<1>1. WalkOver(ms, base, budget, minTail) \in [SUBSET (DOMAIN ms) -> Walks]
  BY WalkUnfolds, Zenon DEF IsWalk
<1>2. DOMAIN ms \in SUBSET (DOMAIN ms)
  OBVIOUS
<1> QED
  BY <1>1, <1>2

LEMMA CompactedIsHistory ==
    ASSUME NEW ms \in Seq(Messages), NEW budget \in Nat, NEW minTail \in Nat
    PROVE  Compacted(ms, budget, minTail) \in Seq(Messages)
<1> DEFINE split == Pinned(ms)
           pinned == SubSeq(ms, 1, split)
           tail == SubSeq(ms, split + 1, Len(ms))
           base == [used |-> Cost(pinned), retained |-> <<>>, open |-> TRUE]
           walk == WalkOver(tail, base, budget, minTail)[DOMAIN tail]
<1>1. split \in 0 .. Len(ms) /\ Len(ms) \in Nat
  BY PinnedIsAPart
<1>2. pinned \in Seq(Messages) /\ tail \in Seq(Messages)
  <2> HIDE DEF split
  <2> QED
    BY <1>1
<1>3. Cost(pinned) \in Nat
  BY <1>2, CostIsNat
<1>4. base \in Walks
  <2> HIDE DEF pinned
  <2> QED
    BY <1>3 DEF Walks
<1>5. walk \in Walks
  <2> HIDE DEF base, tail
  <2> QED
    BY <1>2, <1>4, WalkIsAWalk
<1>6. Compacted(ms, budget, minTail) = pinned \o walk.retained
  <2>1. Compacted(ms, budget, minTail) =
            pinned \o FoldRight(LAMBDA m, kept : Keeps(kept, m, budget, minTail), tail,
                                base).retained
    BY Zenon DEF Compacted
  <2>2. FoldRight(LAMBDA m, kept : Keeps(kept, m, budget, minTail), tail, base) = walk
    <3> HIDE DEF base, tail
    <3> QED
      BY Zenon DEF FoldRight, MapThenFoldSet, WalkOver
  <2> QED
    BY <2>1, <2>2
<1> HIDE DEF pinned, walk
<1>7. walk.retained \in Seq(Messages)
  BY <1>5 DEF Walks
<1> QED
  BY <1>2, <1>6, <1>7, ConcatProperties

LEMMA PrefixOfAppend ==
    ASSUME NEW S, NEW p \in Seq(S), NEW h \in Seq(S), NEW m \in S, IsPrefix(p, h)
    PROVE  IsPrefix(p, Append(h, m))
<1>1. Len(p) \in Nat /\ Len(h) \in Nat /\ Len(p) <= Len(h)
  BY DEF IsPrefix
<1>2. Len(Append(h, m)) = Len(h) + 1 /\ \A i \in 1 .. Len(h) : Append(h, m)[i] = h[i]
  OBVIOUS
<1>3. SubSeq(Append(h, m), 1, Len(p)) = SubSeq(h, 1, Len(p))
  BY <1>1, <1>2
<1> QED
  BY <1>1, <1>2, <1>3 DEF IsPrefix

-----------------------------------------------------------------------------
(* ConversationSession.  A turn in flight that nothing has disturbed sent  *)
(* the history as it is now, so its answer goes right behind its prompt;   *)
(* two turns in flight have disturbed each other.                          *)

InFlightSentItAll ==
    \A t \in Turns \ disturbed : turnAt[t] = "sending" => prompt[t] = history

OverlapDisturbs ==
    \A t, u \in Turns : turnAt[t] = "sending" /\ turnAt[u] = "sending" /\ t # u =>
        t \in disturbed /\ u \in disturbed

SessionInv ==
    SessionTypeOK /\ InFlightSentItAll /\ OverlapDisturbs /\ PromptStaysCached

LEMMA InitialHistoryIsOne == InitialHistory \in Seq(Messages)
<1>1. Message("system", NoTurn) \in Messages
  BY DEF Message, Messages, Roles
<1>2. <<Message("system", NoTurn)>> \in Seq(Messages) /\ <<>> \in Seq(Messages)
  BY <1>1
<1> QED
  BY <1>2 DEF InitialHistory

LEMMA SessionStarts == SessionInit => SessionInv
<1> SUFFICES ASSUME SessionInit PROVE SessionInv
  OBVIOUS
<1>1. InitialHistory \in Seq(Messages)
  BY InitialHistoryIsOne
<1>2. <<>> \in Seq(Messages)
  OBVIOUS
<1>3. SessionTypeOK
  BY <1>1, <1>2 DEF SessionInit, SessionTypeOK
<1>4. InFlightSentItAll /\ OverlapDisturbs /\ PromptStaysCached
  BY DEF SessionInit, InFlightSentItAll, OverlapDisturbs, PromptStaysCached
<1> QED
  BY <1>3, <1>4 DEF SessionInv

LEMMA SessionStep == SessionInv /\ [SessionNext]_sessionVars => SessionInv'
<1> SUFFICES ASSUME SessionInv, [SessionNext]_sessionVars PROVE SessionInv'
  OBVIOUS
<1>1. SessionTypeOK /\ InFlightSentItAll /\ OverlapDisturbs /\ PromptStaysCached
  BY DEF SessionInv
<1>2. \A t \in Turns : Message("user", t) \in Messages /\ Message("assistant", t) \in Messages
  BY DEF Message, Messages, Roles
<1>3. ASSUME NEW t \in Turns, SendTurn(t)
      PROVE  SessionInv'
  <2>1. history' \in Seq(Messages) /\ history' = Append(history, Message("user", t))
    BY <1>1, <1>2, <1>3 DEF SendTurn, SessionTypeOK
  <2>2. /\ turnAt[t] = "idle" /\ turnAt' = [turnAt EXCEPT ![t] = "sending"]
        /\ prompt' = [prompt EXCEPT ![t] = history'] /\ turnCount' = turnCount
        /\ disturbed' = IF Sending = {} THEN disturbed ELSE disturbed \cup Sending \cup {t}
    BY <1>3 DEF SendTurn
  <2>3. SessionTypeOK'
    BY <1>1, <2>1, <2>2 DEF SessionTypeOK, Sending
  <2>4. \A u \in Turns \ {t} : turnAt'[u] = turnAt[u] /\ prompt'[u] = prompt[u]
    BY <1>1, <2>2 DEF SessionTypeOK
  <2>5. turnAt'[t] = "sending" /\ prompt'[t] = history'
    BY <1>1, <2>2 DEF SessionTypeOK
  <2>6. \A u \in Turns \ disturbed' : u # t => turnAt[u] # "sending" /\ u \notin disturbed
    BY <2>2 DEF Sending
  <2>7. InFlightSentItAll'
    BY <2>4, <2>5, <2>6 DEF InFlightSentItAll
  <2>8. OverlapDisturbs'
    BY <1>1, <2>2, <2>4, <2>5 DEF OverlapDisturbs, Sending
  <2>9. PromptStaysCached'
    <3> SUFFICES ASSUME NEW u \in Turns \ disturbed'
                 PROVE  /\ turnAt'[u] \in {"sending", "failed"} => IsPrefix(prompt'[u], history')
                        /\ turnAt'[u] = "answered" =>
                            IsPrefix(Append(prompt'[u], Message("assistant", u)), history')
      BY DEF PromptStaysCached
    <3>1. CASE u = t
      BY <2>1, <2>5, <3>1 DEF IsPrefix
    <3>2. CASE u # t
      <4>1. /\ turnAt'[u] = turnAt[u] /\ prompt'[u] = prompt[u]
            /\ turnAt[u] # "sending" /\ u \notin disturbed
        BY <2>4, <2>6, <3>2
      <4>2. /\ prompt[u] \in Seq(Messages) /\ history \in Seq(Messages)
            /\ Append(prompt[u], Message("assistant", u)) \in Seq(Messages)
        BY <1>1, <1>2 DEF SessionTypeOK
      <4>3. /\ turnAt[u] = "failed" => IsPrefix(prompt[u], history)
            /\ turnAt[u] = "answered" =>
                IsPrefix(Append(prompt[u], Message("assistant", u)), history)
        BY <1>1, <4>1 DEF PromptStaysCached
      <4> QED
        BY <1>2, <2>1, <4>1, <4>2, <4>3, PrefixOfAppend
    <3> QED
      BY <3>1, <3>2
  <2> QED
    BY <2>3, <2>7, <2>8, <2>9 DEF SessionInv
<1>4. ASSUME NEW t \in Turns, TurnAnswered(t)
      PROVE  SessionInv'
  <2>1. history' \in Seq(Messages) /\ history' = Append(history, Message("assistant", t))
    BY <1>1, <1>2, <1>4 DEF TurnAnswered, SessionTypeOK
  <2>2. /\ turnAt[t] = "sending" /\ turnAt' = [turnAt EXCEPT ![t] = "answered"]
        /\ turnCount' = turnCount + 1 /\ UNCHANGED <<prompt, disturbed>>
    BY <1>4 DEF TurnAnswered
  <2>3. SessionTypeOK'
    BY <1>1, <2>1, <2>2 DEF SessionTypeOK
  <2>4. \A u \in Turns \ {t} : turnAt'[u] = turnAt[u]
    BY <1>1, <2>2 DEF SessionTypeOK
  <2>5. turnAt'[t] = "answered"
    BY <1>1, <2>2 DEF SessionTypeOK
  <2>6. \A u \in Turns \ disturbed' : u # t => turnAt[u] # "sending"
    BY <1>1, <2>2 DEF OverlapDisturbs
  <2>7. InFlightSentItAll'
    BY <2>2, <2>4, <2>5, <2>6 DEF InFlightSentItAll
  <2>8. OverlapDisturbs'
    BY <1>1, <2>2, <2>4, <2>5 DEF OverlapDisturbs
  <2>9. PromptStaysCached'
    <3> SUFFICES ASSUME NEW u \in Turns \ disturbed'
                 PROVE  /\ turnAt'[u] \in {"sending", "failed"} => IsPrefix(prompt'[u], history')
                        /\ turnAt'[u] = "answered" =>
                            IsPrefix(Append(prompt'[u], Message("assistant", u)), history')
      BY DEF PromptStaysCached
    <3>1. CASE u = t
      <4>1. prompt'[u] = history
        BY <1>1, <2>2, <3>1 DEF InFlightSentItAll
      <4>2. Append(prompt'[u], Message("assistant", u)) = history'
        BY <2>1, <3>1, <4>1
      <4> QED
        BY <2>1, <2>5, <3>1, <4>2 DEF IsPrefix
    <3>2. CASE u # t
      <4>1. /\ turnAt'[u] = turnAt[u] /\ prompt'[u] = prompt[u]
            /\ turnAt[u] # "sending" /\ u \notin disturbed
        BY <2>2, <2>4, <2>6, <3>2
      <4>2. /\ prompt[u] \in Seq(Messages) /\ history \in Seq(Messages)
            /\ Append(prompt[u], Message("assistant", u)) \in Seq(Messages)
        BY <1>1, <1>2 DEF SessionTypeOK
      <4>3. /\ turnAt[u] = "failed" => IsPrefix(prompt[u], history)
            /\ turnAt[u] = "answered" =>
                IsPrefix(Append(prompt[u], Message("assistant", u)), history)
        BY <1>1, <4>1 DEF PromptStaysCached
      <4> QED
        BY <1>2, <2>1, <4>1, <4>2, <4>3, PrefixOfAppend
    <3> QED
      BY <3>1, <3>2
  <2> QED
    BY <2>3, <2>7, <2>8, <2>9 DEF SessionInv
<1>5. ASSUME NEW t \in Turns, TurnFails(t)
      PROVE  SessionInv'
  <2>1. /\ turnAt[t] = "sending" /\ turnAt' = [turnAt EXCEPT ![t] = "failed"]
        /\ UNCHANGED <<history, prompt, turnCount, disturbed>>
    BY <1>5 DEF TurnFails
  <2>2. SessionTypeOK'
    BY <1>1, <2>1 DEF SessionTypeOK
  <2>3. turnAt'[t] = "failed" /\ \A u \in Turns \ {t} : turnAt'[u] = turnAt[u]
    BY <1>1, <2>1 DEF SessionTypeOK
  <2>4. InFlightSentItAll' /\ OverlapDisturbs'
    BY <1>1, <2>1, <2>3 DEF InFlightSentItAll, OverlapDisturbs
  <2>5. PromptStaysCached'
    BY <1>1, <2>1, <2>3 DEF PromptStaysCached
  <2> QED
    BY <2>2, <2>4, <2>5 DEF SessionInv
<1>6. ASSUME history' \in Seq(Messages), turnCount' \in Nat, CutsOff, UNCHANGED <<turnAt, prompt>>
      PROVE  SessionInv'
  <2>1. \A t \in Turns \ disturbed' : turnAt'[t] = "idle"
    BY <1>6 DEF CutsOff
  <2>2. disturbed' \subseteq Turns /\ disturbed \subseteq disturbed'
    BY <1>1, <1>6 DEF CutsOff, SessionTypeOK
  <2>3. SessionTypeOK'
    BY <1>1, <1>6, <2>2 DEF SessionTypeOK
  <2>4. InFlightSentItAll' /\ PromptStaysCached'
    BY <2>1 DEF InFlightSentItAll, PromptStaysCached
  <2>5. OverlapDisturbs'
    BY <1>1, <1>6, <2>2 DEF OverlapDisturbs
  <2> QED
    BY <2>3, <2>4, <2>5 DEF SessionInv
<1>7. CASE UNCHANGED sessionVars
  BY <1>1, <1>7
     DEF sessionVars, SessionInv, SessionTypeOK, InFlightSentItAll, OverlapDisturbs,
         PromptStaysCached
<1>8. ASSUME NEW budget \in Budgets, NEW minTail \in MinTails, Compact(budget, minTail)
      PROVE  SessionInv'
  <2>1. UNCHANGED <<turnAt, prompt, turnCount>> /\ history' = Compacted(history, budget, minTail)
    BY <1>8 DEF Compact
  <2>2. history' \in Seq(Messages)
    <3>1. budget \in Nat /\ minTail \in Nat
      BY ConversationAssumption
    <3> QED
      BY <1>1, <2>1, <3>1, CompactedIsHistory DEF SessionTypeOK
  <2>3. CASE history' = history
    BY <1>7, <1>8, <2>1, <2>3 DEF Compact, sessionVars
  <2>4. CASE history' # history
    BY <1>1, <1>6, <1>8, <2>1, <2>2, <2>4 DEF Compact, SessionTypeOK
  <2> QED
    BY <2>3, <2>4
<1>9. CASE Reset
  <2>1. InitialHistory \in Seq(Messages)
    BY InitialHistoryIsOne
  <2> QED
    BY <1>6, <1>9, <2>1 DEF Reset
<1> QED
  BY <1>3, <1>4, <1>5, <1>7, <1>8, <1>9 DEF SessionNext

\* A turn's prompt, and then its answer, stay at the head of the history, unless
\* a turn overlapped it or compact() or reset() cut it off.
THEOREM PromptsStayCached == SessionSpec => []PromptStaysCached
<1>1. SessionInv => PromptStaysCached
  BY DEF SessionInv
<1> QED
  BY SessionStarts, SessionStep, <1>1, PTL DEF SessionSpec

-----------------------------------------------------------------------------
(* ConversationSession: what compact() keeps.  The cost of a history is a  *)
(* sum, so it does not matter in which order, or under which indices, its  *)
(* messages are counted.                                                   *)

\* Induction, for a set instead of a predicate.
\* C sums w up, whichever element is counted last.
AddsUp(C, w, D) == \A s \in SUBSET D : \A x \in s : C[s] = C[s \ {x}] + w[x]

Weights(ms) == [i \in DOMAIN ms |-> MessageTokens[ms[i]]]

LEMMA CostAddsUp ==
    ASSUME NEW ms \in Seq(Messages)
    PROVE  AddsUp(CostOf(ms), Weights(ms), DOMAIN ms)
<1> DEFINE D == DOMAIN ms
           C == CostOf(ms)
           w == Weights(ms)
           Good == {n \in Nat : \A s \in SUBSET D : Cardinality(s) = n =>
                        \A x \in s : C[s] = C[s \ {x}] + w[x]}
<1>1. /\ C \in [SUBSET D -> Nat] /\ C[{}] = 0
      /\ \A s \in SUBSET D : s # {} => \E y \in s : C[s] = C[s \ {y}] + w[y]
  <2>1. \A y \in D : w[y] = MessageTokens[ms[y]]
    BY DEF Weights
  <2>2. /\ C \in [SUBSET D -> Nat] /\ C[{}] = 0
        /\ \A s \in SUBSET D : s # {} => \E y \in s : C[s] = C[s \ {y}] + MessageTokens[ms[y]]
    BY CostUnfolds
  <2> HIDE DEF w, C, D
  <2> QED
    BY <2>1, <2>2
<1>2. w \in [D -> Nat]
  BY ConversationAssumption DEF Weights
<1>3. IsFiniteSet(D)
  <2>1. D = 1 .. Len(ms) /\ Len(ms) \in Nat
    OBVIOUS
  <2> QED
    BY <2>1, FS_Interval
<1> HIDE DEF D, C, w
<1>4. 0 \in Good
  BY <1>3, Sizes
<1>5. ASSUME NEW n \in Nat, n \in Good
      PROVE  n + 1 \in Good
  <2> SUFFICES ASSUME NEW s \in SUBSET D, Cardinality(s) = n + 1, NEW x \in s
               PROVE  C[s] = C[s \ {x}] + w[x]
    OBVIOUS
  <2>1. PICK y \in s : C[s] = C[s \ {y}] + w[y]
    BY <1>1
  <2>2. CASE y = x
    BY <2>1, <2>2
  <2>3. CASE y # x
    <3>1. /\ s \ {x} \in SUBSET D /\ Cardinality(s \ {x}) = n
          /\ s \ {y} \in SUBSET D /\ Cardinality(s \ {y}) = n
      <4>1. /\ s \ {x} \in SUBSET D /\ Cardinality(s \ {x}) = Cardinality(s) - 1
            /\ s \ {y} \in SUBSET D /\ Cardinality(s \ {y}) = Cardinality(s) - 1
        BY <1>3, Sizes
      <4> QED
        BY <4>1
    <3>2. y \in s \ {x} /\ x \in s \ {y} /\ (s \ {x}) \ {y} = (s \ {y}) \ {x}
      BY <2>3
    <3>3. C[s \ {x}] = C[(s \ {x}) \ {y}] + w[y]
      BY <1>5, <3>1, <3>2
    <3>4. C[s \ {y}] = C[(s \ {y}) \ {x}] + w[x]
      BY <1>5, <3>1, <3>2
    <3>5. (s \ {x}) \ {y} \in SUBSET D
      OBVIOUS
    <3>6. C[(s \ {x}) \ {y}] \in Nat /\ w[x] \in Nat /\ w[y] \in Nat
      BY <1>1, <1>2, <3>5
    <3>7. PICK c \in Nat, a \in Nat, b \in Nat :
              c = C[(s \ {x}) \ {y}] /\ a = w[x] /\ b = w[y]
      BY <3>6
    <3>8. C[s] = (c + a) + b
      BY <2>1, <3>2, <3>4, <3>7, Zenon
    <3>9. C[s \ {x}] + w[x] = (c + b) + a
      BY <3>3, <3>7, Zenon
    <3>10. (c + a) + b = (c + b) + a
      OBVIOUS
    <3> QED
      BY <3>8, <3>9, <3>10, Zenon
  <2> QED
    BY <2>2, <2>3
<1>6. \A n \in Nat : n \in Good
  <2> HIDE DEF Good
  <2> QED
    BY <1>4, <1>5, InductiveSet
<1>7. \A s \in SUBSET D : \A x \in s : C[s] = C[s \ {x}] + w[x]
  <2> SUFFICES ASSUME NEW s \in SUBSET D, NEW x \in s
               PROVE  C[s] = C[s \ {x}] + w[x]
    OBVIOUS
  <2>1. Cardinality(s) \in Nat
    BY <1>3, Sizes
  <2> QED
    BY <1>6, <2>1
<1> QED
  BY <1>7 DEF AddsUp, C, D, w

\* Two functions that count the same are the same.
LEMMA SumsAgree ==
    ASSUME NEW D, IsFiniteSet(D), NEW C, NEW H, NEW w, C[{}] = H[{}],
           AddsUp(C, w, D), AddsUp(H, w, D)
    PROVE  \A s \in SUBSET D : C[s] = H[s]
<1> USE DEF AddsUp
<1> DEFINE Good == {n \in Nat : \A s \in SUBSET D : Cardinality(s) = n => C[s] = H[s]}
<1>1. 0 \in Good
  BY Sizes
<1>2. ASSUME NEW n \in Nat, n \in Good
      PROVE  n + 1 \in Good
  <2> SUFFICES ASSUME NEW s \in SUBSET D, Cardinality(s) = n + 1
               PROVE  C[s] = H[s]
    OBVIOUS
  <2>1. PICK x : x \in s
    BY Sizes
  <2>2. s \ {x} \in SUBSET D /\ Cardinality(s \ {x}) = n
    <3>1. s \ {x} \in SUBSET D /\ Cardinality(s \ {x}) = Cardinality(s) - 1
      BY <2>1, Sizes
    <3> QED
      BY <3>1
  <2>3. C[s \ {x}] = H[s \ {x}]
    BY <1>2, <2>2
  <2> QED
    BY <2>1, <2>3
<1>3. \A n \in Nat : n \in Good
  <2> HIDE DEF Good
  <2> QED
    BY <1>1, <1>2, InductiveSet
<1> SUFFICES ASSUME NEW s \in SUBSET D
             PROVE  C[s] = H[s]
  OBVIOUS
<1>4. Cardinality(s) \in Nat
  BY Sizes
<1> QED
  BY <1>3, <1>4

\* f finds every message of ms in ns, each in a place of its own.
Moves(f, ms, ns) ==
    /\ f \in [DOMAIN ms -> DOMAIN ns]
    /\ \A i, j \in DOMAIN ms : f[i] = f[j] => i = j
    /\ \A i \in DOMAIN ms : ns[f[i]] = ms[i]

\* Messages cost the same wherever another history has them.
LEMMA CostIsMoved ==
    ASSUME NEW ms \in Seq(Messages), NEW ns \in Seq(Messages), NEW f, Moves(f, ms, ns)
    PROVE  \A s \in SUBSET (DOMAIN ms) : CostOf(ms)[s] = CostOf(ns)[{f[i] : i \in s}]
<1> DEFINE D == DOMAIN ms
           w == Weights(ms)
           H == [s \in SUBSET D |-> CostOf(ns)[{f[i] : i \in s}]]
<1>0. /\ f \in [DOMAIN ms -> DOMAIN ns]
      /\ \A i, j \in DOMAIN ms : f[i] = f[j] => i = j
      /\ \A i \in DOMAIN ms : ns[f[i]] = ms[i]
  BY DEF Moves
<1>1. CostOf(ms)[{}] = H[{}]
  <2>1. {f[i] : i \in {}} = {} /\ {} \in SUBSET D
    OBVIOUS
  <2> QED
    BY <2>1, CostUnfolds
<1>2. IsFiniteSet(D)
  <2>1. D = 1 .. Len(ms) /\ Len(ms) \in Nat
    OBVIOUS
  <2> QED
    BY <2>1, FS_Interval
<1>3. AddsUp(CostOf(ms), w, D)
  BY CostAddsUp
<1>4. ASSUME NEW s \in SUBSET D, NEW x \in s
      PROVE  H[s] = H[s \ {x}] + w[x]
  <2>1. {f[i] : i \in s} \in SUBSET (DOMAIN ns) /\ f[x] \in {f[i] : i \in s}
    BY <1>0
  <2>2. {f[i] : i \in s} \ {f[x]} = {f[i] : i \in s \ {x}}
    BY <1>0
  <2>3. PICK image : image = {f[i] : i \in s}
    OBVIOUS
  <2>4. CostOf(ns)[image] = CostOf(ns)[image \ {f[x]}] + Weights(ns)[f[x]]
    <3>1. AddsUp(CostOf(ns), Weights(ns), DOMAIN ns)
      BY CostAddsUp
    <3> QED
      BY <2>1, <2>3, <3>1, Zenon DEF AddsUp
  <2>5. H[s] = CostOf(ns)[image] /\ H[s \ {x}] = CostOf(ns)[image \ {f[x]}]
    BY <2>2, <2>3
  <2>6. w[x] = Weights(ns)[f[x]]
    BY <1>0 DEF Weights
  <2> QED
    BY <2>4, <2>5, <2>6
<1>5. \A s \in SUBSET D : CostOf(ms)[s] = H[s]
  <2>1. AddsUp(CostOf(ms), w, D) /\ AddsUp(H, w, D)
    <3> HIDE DEF D, w, H
    <3> QED
      BY <1>3, <1>4 DEF AddsUp
  <2> HIDE DEF D, w, H
  <2> QED
    BY <1>1, <1>2, <2>1, SumsAgree
<1> QED
  BY <1>5

\* A history without the messages between the pinned ones and the last n.
Keeping(h, split, n) == SubSeq(h, 1, split) \o SubSeq(h, Len(h) - n + 1, Len(h))

KeptIndices(h, split, n) == (1 .. split) \cup (Len(h) - n + 1 .. Len(h))

KeptCost(h, split, n) == CostOf(h)[KeptIndices(h, split, n)]

LEMMA KeepingIsKept ==
    ASSUME NEW h \in Seq(Messages), NEW split \in 0 .. Len(h), NEW n \in 0 .. Len(h) - split
    PROVE  /\ Keeping(h, split, n) \in Seq(Messages)
           /\ Cost(Keeping(h, split, n)) = KeptCost(h, split, n)
<1> DEFINE L == Len(h)
           k == Keeping(h, split, n)
           first == SubSeq(h, 1, split)
           last == SubSeq(h, L - n + 1, L)
           f == [i \in 1 .. split + n |-> IF i <= split THEN i ELSE i + (L - n - split)]
<1>1. /\ L \in Nat /\ split \in Nat /\ n \in Nat /\ split + n <= L /\ DOMAIN h = 1 .. L
      /\ n = L - (L - n + 1) + 1
  OBVIOUS
<1>2. /\ first \in Seq(Messages) /\ Len(first) = split
      /\ \A i \in 1 .. split : first[i] = h[i]
  BY <1>1
<1>3. /\ last \in Seq(Messages) /\ Len(last) = n
      /\ \A i \in 1 .. n : last[i] = h[L - n + i]
  <2> DEFINE p == L - n + 1
  <2>1. h \in Seq(Messages) /\ p \in Nat \ {0} /\ L \in Nat /\ L <= Len(h) /\ p <= L + 1 /\ L - p + 1 = n
    BY <1>1
  <2>2. \A i \in 1 .. n : p + i - 1 = L - n + i
    BY <1>1
  <2>3. last = SubSeq(h, p, L)
    OBVIOUS
  <2> HIDE DEF last, L, p
  <2>4. /\ last \in Seq(Messages) /\ Len(last) = n
        /\ \A i \in 1 .. n : last[i] = h[p + i - 1]
    BY <2>1, <2>3, PartOfSequence
  <2> QED
    BY <2>2, <2>4
<1>4. k = first \o last
  BY DEF Keeping
<1> HIDE DEF k, first, last, L
<1>5. /\ k \in Seq(Messages) /\ Len(k) = split + n
      /\ \A i \in 1 .. split + n : k[i] = IF i <= split THEN first[i] ELSE last[i - split]
  <2>1. /\ k \in Seq(Messages) /\ Len(k) = Len(first) + Len(last)
        /\ \A i \in 1 .. Len(first) + Len(last) :
               k[i] = IF i <= Len(first) THEN first[i] ELSE last[i - Len(first)]
    BY <1>2, <1>3, <1>4, ConcatProperties
  <2>2. Len(first) = split /\ Len(last) = n
    BY <1>2, <1>3
  <2> QED
    BY <2>1, <2>2
<1>6. DOMAIN k = 1 .. split + n
  BY <1>5
<1>7. f \in [DOMAIN k -> DOMAIN h]
  <2>1. \A i \in 1 .. split + n :
            (IF i <= split THEN i ELSE i + (L - n - split)) \in 1 .. L
    BY <1>1
  <2> QED
    BY <1>1, <1>6, <2>1
<1>8. \A i, j \in DOMAIN k : f[i] = f[j] => i = j
  BY <1>1, <1>6
<1>9. ASSUME NEW i \in DOMAIN k PROVE h[f[i]] = k[i]
  <2>1. i \in 1 .. split + n
    BY <1>6
  <2>2. CASE i <= split
    <3>1. f[i] = i /\ i \in 1 .. split
      BY <1>1, <2>1, <2>2
    <3> QED
      BY <1>2, <1>5, <2>1, <2>2, <3>1
  <2>3. CASE ~(i <= split)
    <3>1. i - split \in 1 .. n /\ L - n + (i - split) = i + (L - n - split)
      BY <1>1, <2>1, <2>3
    <3>2. f[i] = i + (L - n - split)
      BY <2>1, <2>3
    <3>3. k[i] = last[i - split]
      BY <1>5, <2>1, <2>3
    <3>4. last[i - split] = h[L - n + (i - split)]
      BY <1>3, <3>1
    <3> QED
      BY <3>1, <3>2, <3>3, <3>4, Zenon
  <2> QED
    BY <2>2, <2>3
<1>10. {f[i] : i \in DOMAIN k} = KeptIndices(h, split, n)
  <2>1. ASSUME NEW i \in DOMAIN k PROVE f[i] \in (1 .. split) \cup (L - n + 1 .. L)
    BY <1>1, <1>6
  <2>2. ASSUME NEW j \in 1 .. split PROVE \E i \in DOMAIN k : f[i] = j
    <3>1. j \in DOMAIN k /\ f[j] = j
      BY <1>1, <1>6
    <3> QED
      BY <3>1
  <2>3. ASSUME NEW j \in L - n + 1 .. L PROVE \E i \in DOMAIN k : f[i] = j
    <3>1. j - (L - n - split) \in 1 .. split + n /\ ~(j - (L - n - split) <= split)
      BY <1>1
    <3>2. f[j - (L - n - split)] = j
      BY <1>1, <3>1
    <3> QED
      BY <1>6, <3>1, <3>2
  <2> HIDE DEF f
  <2> QED
    BY <2>1, <2>2, <2>3 DEF KeptIndices, L
<1>11. CostOf(k)[DOMAIN k] = CostOf(h)[{f[i] : i \in DOMAIN k}]
  <2>1. DOMAIN k \in SUBSET (DOMAIN k)
    OBVIOUS
  <2>2. k \in Seq(Messages) /\ h \in Seq(Messages)
    BY <1>5
  <2>3. \A i \in DOMAIN k : h[f[i]] = k[i]
    BY <1>9
  <2>4. Moves(f, k, h)
    BY <1>7, <1>8, <2>3 DEF Moves
  <2> HIDE DEF f
  <2>5. \A s \in SUBSET (DOMAIN k) : CostOf(k)[s] = CostOf(h)[{f[i] : i \in s}]
    BY <2>2, <2>4, CostIsMoved
  <2> QED
    BY <2>1, <2>5, Zenon
<1>12. Cost(k) = CostOf(k)[DOMAIN k]
  BY <1>5, CostUnfolds
<1> QED
  BY <1>5, <1>10, <1>11, <1>12 DEF KeptCost, k

LEMMA OneMoreCosts ==
    ASSUME NEW h \in Seq(Messages), NEW split \in 0 .. Len(h), NEW n \in 0 .. Len(h) - split
    PROVE  /\ KeptCost(h, split, n) \in Nat
           /\ n < Len(h) - split =>
                /\ h[Len(h) - n] \in Messages
                /\ KeptCost(h, split, n + 1)
                       = KeptCost(h, split, n) + MessageTokens[h[Len(h) - n]]
<1>1. /\ Len(h) \in Nat /\ split \in Nat /\ n \in Nat /\ split + n <= Len(h)
      /\ DOMAIN h = 1 .. Len(h)
  OBVIOUS
<1>2. KeptIndices(h, split, n) \in SUBSET (DOMAIN h)
  BY <1>1 DEF KeptIndices
<1>3. CostOf(h) \in [SUBSET (DOMAIN h) -> Nat]
  BY CostUnfolds
<1>4. ASSUME n < Len(h) - split
      PROVE  /\ h[Len(h) - n] \in Messages
             /\ KeptCost(h, split, n + 1)
                    = KeptCost(h, split, n) + MessageTokens[h[Len(h) - n]]
  <2>1. Len(h) - n \in DOMAIN h
    BY <1>1, <1>4
  <2>2. /\ KeptIndices(h, split, n + 1) \in SUBSET (DOMAIN h)
        /\ Len(h) - n \in KeptIndices(h, split, n + 1)
        /\ KeptIndices(h, split, n + 1) \ {Len(h) - n} = KeptIndices(h, split, n)
    BY <1>1, <1>4 DEF KeptIndices
  <2>3. PICK s, x : s = KeptIndices(h, split, n + 1) /\ x = Len(h) - n
    OBVIOUS
  <2>4. CostOf(h)[s] = CostOf(h)[s \ {x}] + Weights(h)[x]
    <3>1. AddsUp(CostOf(h), Weights(h), DOMAIN h)
      BY CostAddsUp
    <3> QED
      BY <2>2, <2>3, <3>1, Zenon DEF AddsUp
  <2>5. Weights(h)[x] = MessageTokens[h[x]]
    BY <2>1, <2>3 DEF Weights
  <2>6. h[x] \in Messages
    BY <2>1, <2>3
  <2> QED
    BY <2>2, <2>3, <2>4, <2>5, <2>6, Zenon DEF KeptCost
<1> QED
  BY <1>2, <1>3, <1>4 DEF KeptCost

LEMMA MoreCostsMore ==
    ASSUME NEW h \in Seq(Messages), NEW split \in 0 .. Len(h),
           NEW m \in 0 .. Len(h) - split, NEW n \in m .. Len(h) - split
    PROVE  KeptCost(h, split, m) <= KeptCost(h, split, n)
<1> DEFINE rest == Len(h) - split
           T == [i \in 0 .. rest |-> KeptCost(h, split, i)]
           Good == {d \in Nat : m + d <= rest => T[m] <= T[m + d]}
<1>1. rest \in Nat /\ m \in Nat /\ n \in Nat /\ m <= n /\ n <= rest
  OBVIOUS
<1>2. T \in [0 .. rest -> Nat]
  BY OneMoreCosts
<1>3. ASSUME NEW i \in 0 .. rest, i < rest PROVE T[i] <= T[i + 1]
  <2>1. i + 1 \in 0 .. rest
    BY <1>1, <1>3
  <2>2. /\ h[Len(h) - i] \in Messages
        /\ KeptCost(h, split, i + 1) = KeptCost(h, split, i) + MessageTokens[h[Len(h) - i]]
    BY <1>3, OneMoreCosts
  <2>3. MessageTokens[h[Len(h) - i]] \in Nat /\ T[i] \in Nat
    BY <1>2, <2>2, ConversationAssumption
  <2> QED
    BY <2>1, <2>2, <2>3
<1> HIDE DEF T, rest
<1>4. 0 \in Good
  BY <1>1, <1>2
<1>5. ASSUME NEW d \in Nat, d \in Good PROVE d + 1 \in Good
  <2> SUFFICES ASSUME m + (d + 1) <= rest PROVE T[m] <= T[m + (d + 1)]
    OBVIOUS
  <2>1. m + d \in 0 .. rest /\ m + d < rest /\ m + (d + 1) = (m + d) + 1
        /\ (m + d) + 1 \in 0 .. rest /\ m \in 0 .. rest
    BY <1>1
  <2>2. T[m] <= T[m + d]
    BY <1>5, <2>1
  <2>3. T[m + d] <= T[(m + d) + 1]
    BY <1>3, <2>1
  <2>4. T[m] \in Nat /\ T[m + d] \in Nat /\ T[(m + d) + 1] \in Nat
    BY <1>2, <2>1
  <2> QED
    BY <2>1, <2>2, <2>3, <2>4
<1>6. \A d \in Nat : d \in Good
  <2> HIDE DEF Good
  <2> QED
    BY <1>4, <1>5, InductiveSet
<1>7. n - m \in Nat /\ m + (n - m) = n
  BY <1>1
<1>8. T[m] <= T[n]
  BY <1>1, <1>6, <1>7
<1> QED
  BY <1>1, <1>8 DEF T, rest

-----------------------------------------------------------------------------
(* ConversationSession: the walk of compact(), message by message.  After  *)
(* n messages, w has kept the last k of them, and has either kept them all *)
(* or met one that did not fit.                                            *)

KeptSoFar(h, split, budget, minTail, n, w, k) ==
    /\ w.retained = SubSeq(h, Len(h) - k + 1, Len(h))
    /\ w.used = KeptCost(h, split, k)
    /\ KeptCost(h, split, k) <= budget \/ k <= minTail
    /\ IF w.open THEN k = n
       ELSE k < n /\ ~(KeptCost(h, split, k + 1) <= budget) /\ ~(k + 1 <= minTail)

LEMMA OneMoreInFront ==
    ASSUME NEW h \in Seq(Messages), NEW n \in 0 .. Len(h) - 1
    PROVE  /\ <<h[Len(h) - n]>> \o SubSeq(h, Len(h) - n + 1, Len(h))
                  = SubSeq(h, Len(h) - (n + 1) + 1, Len(h))
           /\ Len(SubSeq(h, Len(h) - n + 1, Len(h))) = n
<1>1. PICK L \in Nat : L = Len(h)
  OBVIOUS
<1>2. /\ n \in Nat /\ n + 1 <= L /\ DOMAIN h = 1 .. L /\ L - n \in 1 .. L
      /\ L - (n + 1) + 1 = L - n
  BY <1>1
<1>3. \A i \in L - n .. L : h[i] \in Messages
  BY <1>1, <1>2
<1>4. /\ SubSeq(h, L - n, L) \in Seq(Messages)
      /\ Len(SubSeq(h, L - n, L)) = n + 1
      /\ \A i \in 1 .. n + 1 : SubSeq(h, L - n, L)[i] = h[(L - n) + i - 1]
  <2>1. L - (L - n) + 1 = n + 1 /\ L - n <= L /\ L - n \in Int /\ L \in Int
    BY <1>2
  <2>2. /\ SubSeq(h, L - n, L) \in Seq(Messages)
        /\ Len(SubSeq(h, L - n, L)) = IF L - n <= L THEN L - (L - n) + 1 ELSE 0
        /\ \A i \in 1 .. L - (L - n) + 1 : SubSeq(h, L - n, L)[i] = h[(L - n) + i - 1]
    BY <1>3, <2>1, SubSeqProperties
  <2> QED
    BY <2>1, <2>2
<1>5. /\ SubSeq(h, L - n + 1, L) \in Seq(Messages)
      /\ Len(SubSeq(h, L - n + 1, L)) = n
      /\ \A i \in 1 .. n : SubSeq(h, L - n + 1, L)[i] = h[(L - n + 1) + i - 1]
  <2>1. L - (L - n + 1) + 1 = n /\ L - n + 1 \in Int /\ L \in Int
    BY <1>2
  <2>2. \A i \in L - n + 1 .. L : h[i] \in Messages
    BY <1>2, <1>3
  <2>3. /\ SubSeq(h, L - n + 1, L) \in Seq(Messages)
        /\ Len(SubSeq(h, L - n + 1, L)) =
               IF L - n + 1 <= L THEN L - (L - n + 1) + 1 ELSE 0
        /\ \A i \in 1 .. L - (L - n + 1) + 1 :
               SubSeq(h, L - n + 1, L)[i] = h[(L - n + 1) + i - 1]
    BY <2>1, <2>2, SubSeqProperties
  <2>4. (IF L - n + 1 <= L THEN L - (L - n + 1) + 1 ELSE 0) = n
    BY <1>2
  <2> QED
    BY <2>1, <2>3, <2>4
<1>6. PICK a \in Seq(Messages), c \in Seq(Messages), m \in Messages :
          a = SubSeq(h, L - n, L) /\ c = SubSeq(h, L - n + 1, L) /\ m = h[L - n]
  <2>1. h[L - n] \in Messages
    BY <1>2, <1>3
  <2>2. SubSeq(h, L - n, L) \in Seq(Messages) /\ SubSeq(h, L - n + 1, L) \in Seq(Messages)
    BY <1>4, <1>5
  <2> QED
    BY <2>1, <2>2, Zenon
<1>7. /\ Len(a) = n + 1 /\ Len(c) = n
      /\ \A i \in 1 .. n + 1 : a[i] = h[(L - n) + i - 1]
      /\ \A i \in 1 .. n : c[i] = h[(L - n + 1) + i - 1]
  BY <1>4, <1>5, <1>6
<1>8. /\ <<m>> \o c \in Seq(Messages) /\ Len(<<m>> \o c) = n + 1
      /\ \A i \in 1 .. n + 1 : (<<m>> \o c)[i] = IF i <= 1 THEN m ELSE c[i - 1]
  <2>1. /\ <<m>> \in Seq(Messages) /\ Len(<<m>>) = 1 /\ <<m>>[1] = m
    OBVIOUS
  <2>2. PICK d \in Seq(Messages) : d = <<m>>
    BY <2>1
  <2>3. /\ d \o c \in Seq(Messages) /\ Len(d \o c) = Len(d) + Len(c)
        /\ \A i \in 1 .. Len(d) + Len(c) :
               (d \o c)[i] = IF i <= Len(d) THEN d[i] ELSE c[i - Len(d)]
    BY ConcatProperties
  <2>4. Len(d) = 1 /\ d[1] = m /\ Len(d) + Len(c) = n + 1
    BY <1>2, <1>7, <2>1, <2>2
  <2>5. \A i \in 1 .. n + 1 : (d \o c)[i] = IF i <= 1 THEN m ELSE c[i - 1]
    BY <1>2, <2>3, <2>4
  <2> QED
    BY <2>2, <2>3, <2>4, <2>5
<1>9. ASSUME NEW i \in 1 .. n + 1
      PROVE  (<<m>> \o c)[i] = a[i]
  <2>1. CASE i <= 1
    <3>1. i = 1 /\ (L - n) + i - 1 = L - n
      BY <1>2, <2>1
    <3> QED
      BY <1>6, <1>7, <1>8, <2>1, <3>1
  <2>2. CASE ~(i <= 1)
    <3>1. i - 1 \in 1 .. n /\ (L - n + 1) + (i - 1) - 1 = (L - n) + i - 1
      BY <1>2, <2>2
    <3>2. c[i - 1] = h[(L - n) + i - 1]
      BY <1>7, <3>1
    <3> QED
      BY <1>7, <1>8, <2>2, <3>2
  <2> QED
    BY <2>1, <2>2
<1>10. <<m>> \o c = a
  <2>1. PICK e \in Seq(Messages) : e = <<m>> \o c
    BY <1>8
  <2>2. Len(e) = Len(a) /\ \A i \in 1 .. Len(e) : e[i] = a[i]
    BY <1>7, <1>8, <1>9, <2>1
  <2>3. e = a
    BY <2>2, SeqEqual
  <2> QED
    BY <2>1, <2>3
<1>11. /\ <<h[L - n]>> \o SubSeq(h, L - n + 1, L) = SubSeq(h, L - n, L)
       /\ Len(SubSeq(h, L - n + 1, L)) = n
  BY <1>6, <1>7, <1>10, Zenon
<1> QED
  BY <1>1, <1>2, <1>11, Zenon

LEMMA WalkGoesOn ==
    ASSUME NEW h \in Seq(Messages), NEW split \in 0 .. Len(h),
           NEW budget \in Nat, NEW minTail \in Nat,
           NEW n \in 0 .. Len(h) - split, n < Len(h) - split,
           NEW w \in Walks, NEW k \in 0 .. n,
           KeptSoFar(h, split, budget, minTail, n, w, k)
    PROVE  \E j \in 0 .. n + 1 :
               KeptSoFar(h, split, budget, minTail, n + 1,
                         Keeps(w, h[Len(h) - n], budget, minTail), j)
<1> DEFINE m == h[Len(h) - n]
           next == Keeps(w, m, budget, minTail)
<1>1. /\ n \in Nat /\ k \in Nat /\ k <= n /\ Len(h) \in Nat /\ split \in Nat
      /\ n \in 0 .. Len(h) - 1 /\ n + 1 \in 0 .. Len(h) - split
  OBVIOUS
<1>2. /\ m \in Messages /\ MessageTokens[m] \in Nat
      /\ KeptCost(h, split, n + 1) = KeptCost(h, split, n) + MessageTokens[m]
      /\ KeptCost(h, split, n) \in Nat
  <2>1. m \in Messages /\ KeptCost(h, split, n) \in Nat
        /\ KeptCost(h, split, n + 1) = KeptCost(h, split, n) + MessageTokens[m]
    BY OneMoreCosts
  <2> QED
    BY <2>1, ConversationAssumption
<1>3. /\ <<m>> \o SubSeq(h, Len(h) - n + 1, Len(h)) = SubSeq(h, Len(h) - (n + 1) + 1, Len(h))
      /\ Len(SubSeq(h, Len(h) - n + 1, Len(h))) = n
  BY <1>1, OneMoreInFront
<1> HIDE DEF m
<1>4. /\ w.used \in Nat /\ w.retained \in Seq(Messages) /\ w.open \in BOOLEAN
  BY DEF Walks
<1>5. CASE w.open
  <2>1. /\ k = n /\ w.used = KeptCost(h, split, n)
        /\ w.retained = SubSeq(h, Len(h) - n + 1, Len(h)) /\ Len(w.retained) = n
    BY <1>3, <1>5 DEF KeptSoFar
  <2>2. CASE w.used + MessageTokens[m] <= budget \/ Len(w.retained) < minTail
    <3>1. next = [w EXCEPT !.used = @ + MessageTokens[m], !.retained = <<m>> \o @]
      BY <1>5, <2>2 DEF Keeps
    <3>2. PICK used, retained : used = w.used + MessageTokens[m] /\ retained = <<m>> \o w.retained
      OBVIOUS
    <3>3. next = [w EXCEPT !.used = used, !.retained = retained]
      BY <3>1, <3>2
    <3> HIDE DEF next
    <3>4. next.used = used /\ next.retained = retained /\ next.open = w.open
      BY <3>3 DEF Walks
    <3>5. retained = SubSeq(h, Len(h) - (n + 1) + 1, Len(h))
      BY <1>3, <2>1, <3>2
    <3>6. used = KeptCost(h, split, n + 1)
      BY <1>2, <2>1, <3>2
    <3>7. KeptCost(h, split, n + 1) <= budget \/ n + 1 <= minTail
      <4>1. CASE w.used + MessageTokens[m] <= budget
        BY <3>2, <3>6, <4>1
      <4>2. CASE Len(w.retained) < minTail
        BY <1>1, <2>1, <4>2
      <4> QED
        BY <2>2, <4>1, <4>2
    <3>8. KeptSoFar(h, split, budget, minTail, n + 1, next, n + 1)
      BY <1>5, <3>4, <3>5, <3>6, <3>7, Zenon DEF KeptSoFar
    <3>9. n + 1 \in 0 .. n + 1
      BY <1>1
    <3> QED
      BY <3>8, <3>9 DEF next, m
  <2>3. CASE ~(w.used + MessageTokens[m] <= budget \/ Len(w.retained) < minTail)
    <3>1. next = [w EXCEPT !.open = FALSE]
      BY <2>3, Zenon DEF Keeps
    <3> HIDE DEF next
    <3>2. next.used = w.used /\ next.retained = w.retained /\ next.open = FALSE
      BY <3>1 DEF Walks
    <3>3. ~(KeptCost(h, split, n + 1) <= budget)
      BY <1>2, <2>1, <2>3
    <3>4. ~(n + 1 <= minTail)
      BY <1>1, <2>1, <2>3
    <3>5. KeptCost(h, split, n) <= budget \/ n <= minTail
      BY <2>1 DEF KeptSoFar
    <3>6. n < n + 1 /\ n \in 0 .. n + 1
      BY <1>1
    <3>7. KeptSoFar(h, split, budget, minTail, n + 1, next, n)
      BY <2>1, <3>2, <3>3, <3>4, <3>5, <3>6, Zenon DEF KeptSoFar
    <3> QED
      BY <3>6, <3>7 DEF next, m
  <2> QED
    BY <2>2, <2>3
<1>6. CASE ~w.open
  <2>1. next = [w EXCEPT !.open = FALSE]
    BY <1>6, Zenon DEF Keeps
  <2> HIDE DEF next
  <2>2. next.used = w.used /\ next.retained = w.retained /\ next.open = FALSE
    BY <2>1 DEF Walks
  <2>3. /\ w.retained = SubSeq(h, Len(h) - k + 1, Len(h))
        /\ w.used = KeptCost(h, split, k)
        /\ KeptCost(h, split, k) <= budget \/ k <= minTail
        /\ k < n /\ ~(KeptCost(h, split, k + 1) <= budget) /\ ~(k + 1 <= minTail)
    BY <1>6, Zenon DEF KeptSoFar
  <2>4. k < n + 1 /\ k \in 0 .. n + 1
    BY <1>1
  <2>5. KeptSoFar(h, split, budget, minTail, n + 1, next, k)
    BY <2>2, <2>3, <2>4, Zenon DEF KeptSoFar
  <2> QED
    BY <2>4, <2>5 DEF next, m
<1> QED
  BY <1>5, <1>6

\* What the walk goes over, and what it starts from.
Unpinned(h) == SubSeq(h, Pinned(h) + 1, Len(h))
WalkStart(h) == [used |-> Cost(SubSeq(h, 1, Pinned(h))), retained |-> <<>>, open |-> TRUE]

LEMMA CompactedUnfolds ==
    ASSUME NEW h \in Seq(Messages), NEW budget \in Nat, NEW minTail \in Nat
    PROVE  Compacted(h, budget, minTail) =
               SubSeq(h, 1, Pinned(h)) \o
                   WalkOver(Unpinned(h), WalkStart(h), budget, minTail)[DOMAIN Unpinned(h)].retained
<1>1. Compacted(h, budget, minTail) =
          SubSeq(h, 1, Pinned(h)) \o
              FoldRight(LAMBDA m, kept : Keeps(kept, m, budget, minTail), Unpinned(h),
                        WalkStart(h)).retained
  BY Zenon DEF Compacted, Unpinned, WalkStart
<1>2. FoldRight(LAMBDA m, kept : Keeps(kept, m, budget, minTail), Unpinned(h), WalkStart(h))
          = WalkOver(Unpinned(h), WalkStart(h), budget, minTail)[DOMAIN Unpinned(h)]
  BY Zenon DEF FoldRight, MapThenFoldSet, WalkOver
<1> QED
  BY <1>1, <1>2, Zenon

LEMMA WithoutTheFirst ==
    ASSUME NEW a \in Int, NEW b \in Int
    PROVE  (a .. b) \ {a} = a + 1 .. b
OBVIOUS

LEMMA WalkKeepsATail ==
    ASSUME NEW h \in Seq(Messages), NEW budget \in Nat, NEW minTail \in Nat,
           NEW split \in 0 .. Len(h), NEW rest, rest = Len(h) - split,
           NEW tail, tail = SubSeq(h, split + 1, Len(h)),
           NEW base, base = [used |-> Cost(SubSeq(h, 1, split)), retained |-> <<>>, open |-> TRUE]
    PROVE  /\ tail \in Seq(Messages) /\ base \in Walks
           /\ \E k \in 0 .. rest :
                  KeptSoFar(h, split, budget, minTail, rest,
                            WalkOver(tail, base, budget, minTail)[DOMAIN tail], k)
<1> DEFINE walk == WalkOver(tail, base, budget, minTail)
           Newest(n) == rest - n + 1 .. rest
           Good == {n \in Nat : n <= rest =>
                        \E k \in 0 .. n :
                            KeptSoFar(h, split, budget, minTail, n, walk[Newest(n)], k)}
<1>1. /\ Len(h) \in Nat /\ split \in Nat /\ rest \in Nat /\ split + rest = Len(h)
      /\ DOMAIN h = 1 .. Len(h)
  OBVIOUS
<1>2. /\ tail \in Seq(Messages) /\ DOMAIN tail = 1 .. rest
      /\ \A i \in 1 .. rest : tail[i] = h[split + i]
  <2>1. PICK L \in Nat : L = Len(h)
    BY <1>1
  <2>2. L - (split + 1) + 1 = rest /\ split + 1 \in Int /\ L \in Int
    BY <1>1, <2>1
  <2>3. \A i \in split + 1 .. L : h[i] \in Messages
    BY <1>1, <2>1
  <2>4. /\ SubSeq(h, split + 1, L) \in Seq(Messages)
        /\ Len(SubSeq(h, split + 1, L)) =
               IF split + 1 <= L THEN L - (split + 1) + 1 ELSE 0
        /\ \A i \in 1 .. L - (split + 1) + 1 :
               SubSeq(h, split + 1, L)[i] = h[(split + 1) + i - 1]
    BY <2>2, <2>3, SubSeqProperties
  <2>5. (IF split + 1 <= L THEN L - (split + 1) + 1 ELSE 0) = rest
    BY <1>1, <2>1
  <2>6. tail \in Seq(Messages) /\ Len(tail) = rest
    BY <2>1, <2>4, <2>5
  <2>7. \A i \in 1 .. rest : tail[i] = h[(split + 1) + i - 1]
    BY <2>1, <2>2, <2>4
  <2>8. \A i \in 1 .. rest : (split + 1) + i - 1 = split + i
    BY <1>1
  <2> QED
    BY <2>6, <2>7, <2>8
<1>3. /\ base \in Walks
      /\ base.used = KeptCost(h, split, 0) /\ base.retained = <<>> /\ base.open = TRUE
  <2>1. 0 \in 0 .. Len(h) - split
    BY <1>1
  <2>2. /\ SubSeq(h, 1, split) \in Seq(Messages)
        /\ SubSeq(h, Len(h) - 0 + 1, Len(h)) = <<>>
    BY <1>1
  <2>3. Keeping(h, split, 0) = SubSeq(h, 1, split)
    BY <2>2, ConcatEmptySeq, Zenon DEF Keeping
  <2>4. Cost(SubSeq(h, 1, split)) = KeptCost(h, split, 0)
    BY <2>1, <2>3, KeepingIsKept
  <2>5. Cost(SubSeq(h, 1, split)) \in Nat
    BY <2>2, CostIsNat
  <2>6. PICK c \in Nat : c = Cost(SubSeq(h, 1, split))
    BY <2>5
  <2>7. base = [used |-> c, retained |-> <<>>, open |-> TRUE]
    BY <2>6
  <2>8. base \in Walks /\ base.used = c /\ base.retained = <<>> /\ base.open = TRUE
    BY <2>7 DEF Walks
  <2> QED
    BY <2>4, <2>6, <2>8
<1>4. /\ walk \in [SUBSET (1 .. rest) -> Walks] /\ walk[{}] = base
      /\ \A s \in SUBSET (1 .. rest) : s # {} =>
             /\ Min(s) \in s /\ \A i \in s : Min(s) <= i
             /\ walk[s] = Keeps(walk[s \ {Min(s)}], tail[Min(s)], budget, minTail)
  <2>1. /\ walk \in [SUBSET (DOMAIN tail) -> Walks] /\ walk[{}] = base
        /\ \A s \in SUBSET (DOMAIN tail) : s # {} =>
               /\ Min(s) \in s /\ \A i \in s : Min(s) <= i
               /\ walk[s] = Keeps(walk[s \ {Min(s)}], tail[Min(s)], budget, minTail)
    <3>1. IsWalk(walk, tail, base, budget, minTail)
      BY <1>2, <1>3, WalkUnfolds
    <3> QED
      BY <3>1, Zenon DEF IsWalk
  <2> QED
    BY <1>2, <2>1
<1> HIDE DEF walk
<1>5. 0 \in Good
  <2>1. Newest(0) = {} /\ 0 \in 0 .. 0
    BY <1>1
  <2>2. walk[Newest(0)] = base
    BY <1>4, <2>1
  <2>3. SubSeq(h, Len(h) - 0 + 1, Len(h)) = <<>> /\ 0 <= minTail
    BY <1>1
  <2>4. KeptSoFar(h, split, budget, minTail, 0, base, 0)
    BY <1>3, <2>3, Zenon DEF KeptSoFar
  <2> QED
    BY <2>1, <2>2, <2>4
<1>6. ASSUME NEW n \in Nat, n \in Good
      PROVE  n + 1 \in Good
  <2> SUFFICES ASSUME n + 1 <= rest
               PROVE  \E k \in 0 .. n + 1 :
                          KeptSoFar(h, split, budget, minTail, n + 1, walk[Newest(n + 1)], k)
    OBVIOUS
  <2>1. /\ n \in 0 .. Len(h) - split /\ n < Len(h) - split /\ n <= rest
        /\ rest - n \in 1 .. rest /\ split + (rest - n) = Len(h) - n
    BY <1>1
  <2>2. PICK k \in 0 .. n : KeptSoFar(h, split, budget, minTail, n, walk[Newest(n)], k)
    BY <1>6, <2>1
  <2>3. /\ Newest(n + 1) \in SUBSET (1 .. rest) /\ rest - n \in Newest(n + 1)
        /\ \A i \in Newest(n + 1) : rest - n <= i
        /\ Newest(n + 1) \ {rest - n} = Newest(n) /\ Newest(n) \in SUBSET (1 .. rest)
        /\ Newest(n + 1) \subseteq Int
    <3>1. rest - (n + 1) + 1 = rest - n /\ rest - n <= rest /\ 1 <= rest - n
      BY <1>1, <2>1
    <3>2. Newest(n + 1) = rest - n .. rest
      BY <3>1
    <3>3. /\ rest - n .. rest \in SUBSET (1 .. rest) /\ rest - n \in rest - n .. rest
          /\ \A i \in rest - n .. rest : rest - n <= i
          /\ rest - n .. rest \subseteq Int
      BY <1>1, <3>1
    <3>4. (rest - n .. rest) \ {rest - n} = rest - n + 1 .. rest
      <4>1. rest - n \in Int /\ rest \in Int
        BY <1>1
      <4> QED
        BY <4>1, WithoutTheFirst
    <3>5. rest - n + 1 .. rest \in SUBSET (1 .. rest)
      BY <1>1, <3>1
    <3> QED
      BY <3>2, <3>3, <3>4, <3>5, Zenon
  <2>4. Min(Newest(n + 1)) = rest - n
    <3>1. /\ Min(Newest(n + 1)) \in Newest(n + 1)
          /\ \A i \in Newest(n + 1) : Min(Newest(n + 1)) <= i
      BY <1>4, <2>3
    <3>2. PICK least \in Newest(n + 1) : least = Min(Newest(n + 1))
      BY <3>1
    <3>3. least <= rest - n /\ rest - n <= least /\ least \in Int /\ rest - n \in Int
      BY <2>3, <3>1, <3>2
    <3> QED
      BY <3>2, <3>3
  <2>5. walk[Newest(n + 1)] = Keeps(walk[Newest(n)], tail[rest - n], budget, minTail)
    <3>1. Newest(n + 1) # {}
      BY <2>3
    <3>2. walk[Newest(n + 1)] =
              Keeps(walk[Newest(n + 1) \ {Min(Newest(n + 1))}], tail[Min(Newest(n + 1))],
                    budget, minTail)
      BY <1>4, <2>3, <3>1, Zenon
    <3> QED
      BY <2>3, <2>4, <3>2, Zenon
  <2>6. tail[rest - n] = h[Len(h) - n]
    BY <1>2, <2>1
  <2>7. walk[Newest(n)] \in Walks
    BY <1>4, <2>3
  <2>8. PICK w \in Walks : w = walk[Newest(n)]
    BY <2>7
  <2>9. KeptSoFar(h, split, budget, minTail, n, w, k)
    BY <2>2, <2>8, Zenon
  <2>10. \E j \in 0 .. n + 1 :
            KeptSoFar(h, split, budget, minTail, n + 1,
                      Keeps(w, h[Len(h) - n], budget, minTail), j)
    BY <2>1, <2>9, WalkGoesOn
  <2> QED
    BY <2>5, <2>6, <2>8, <2>10, Zenon
<1>7. \A n \in Nat : n \in Good
  <2> HIDE DEF Good
  <2> QED
    BY <1>5, <1>6, InductiveSet
<1>8. \E k \in 0 .. rest : KeptSoFar(h, split, budget, minTail, rest, walk[Newest(rest)], k)
  <2>1. rest \in Good
    BY <1>1, <1>7
  <2>2. rest <= rest
    BY <1>1
  <2> QED
    BY <2>1, <2>2
<1>9. Newest(rest) = DOMAIN tail
  BY <1>1, <1>2
<1> QED
  BY <1>2, <1>3, <1>8, <1>9 DEF walk

LEMMA CompactionKeepsATail ==
    ASSUME NEW h \in Seq(Messages), NEW budget \in Nat, NEW minTail \in Nat,
           NEW split, split = Pinned(h), NEW rest, rest = Len(h) - split
    PROVE  \E n \in 0 .. rest :
               /\ Compacted(h, budget, minTail) = Keeping(h, split, n)
               /\ KeptCost(h, split, n) <= budget \/ n <= minTail
               /\ \A larger \in 0 .. rest :
                      KeptCost(h, split, larger) <= budget \/ larger <= minTail => larger <= n
<1>1. split \in 0 .. Len(h)
  BY PinnedIsAPart
<1>2. PICK tail, base : tail = Unpinned(h) /\ base = WalkStart(h)
  OBVIOUS
<1>3. PICK w : w = WalkOver(tail, base, budget, minTail)[DOMAIN tail]
  OBVIOUS
<1>4. /\ tail \in Seq(Messages) /\ base \in Walks
      /\ \E k \in 0 .. rest :
             KeptSoFar(h, split, budget, minTail, rest,
                       WalkOver(tail, base, budget, minTail)[DOMAIN tail], k)
  BY <1>1, <1>2, WalkKeepsATail DEF Unpinned, WalkStart
<1>5. PICK n \in 0 .. rest : KeptSoFar(h, split, budget, minTail, rest, w, n)
  BY <1>3, <1>4, Zenon
<1>6. w \in Walks
  <2>1. WalkOver(tail, base, budget, minTail)[DOMAIN tail] \in Walks
    BY <1>4, WalkIsAWalk
  <2> QED
    BY <1>3, <2>1, Zenon
<1>7. Compacted(h, budget, minTail) = Keeping(h, split, n)
  <2>1. Compacted(h, budget, minTail) = SubSeq(h, 1, split) \o w.retained
    <3>1. Compacted(h, budget, minTail) =
              SubSeq(h, 1, Pinned(h)) \o
                  WalkOver(Unpinned(h), WalkStart(h), budget, minTail)[DOMAIN Unpinned(h)].retained
      BY CompactedUnfolds
    <3> QED
      BY <1>2, <1>3, <3>1, Zenon
  <2>2. w.retained = SubSeq(h, Len(h) - n + 1, Len(h))
    BY <1>5 DEF KeptSoFar
  <2> QED
    BY <2>1, <2>2, Zenon DEF Keeping
<1>8. KeptCost(h, split, n) <= budget \/ n <= minTail
  BY <1>5 DEF KeptSoFar
<1>9. ASSUME NEW larger \in 0 .. rest,
             KeptCost(h, split, larger) <= budget \/ larger <= minTail, ~(larger <= n)
      PROVE  FALSE
  <2>1. n + 1 \in 0 .. Len(h) - split /\ larger \in n + 1 .. Len(h) - split
        /\ larger \in Nat /\ n \in Nat /\ n < rest /\ n + 1 <= larger
    BY <1>1, <1>9
  <2>2. ~(KeptCost(h, split, n + 1) <= budget) /\ ~(n + 1 <= minTail)
    <3>1. n # rest
      BY <2>1
    <3> QED
      BY <1>5, <3>1, Zenon DEF KeptSoFar
  <2>3. KeptCost(h, split, n + 1) <= KeptCost(h, split, larger)
    BY <1>1, <2>1, MoreCostsMore
  <2>4. larger \in 0 .. Len(h) - split
    BY <1>9
  <2>5. KeptCost(h, split, n + 1) \in Nat /\ KeptCost(h, split, larger) \in Nat
    BY <1>1, <2>1, <2>4, OneMoreCosts
  <2>6. KeptCost(h, split, larger) <= budget => KeptCost(h, split, n + 1) <= budget
    BY <2>3, <2>5
  <2>7. larger <= minTail => n + 1 <= minTail
    BY <2>1
  <2> QED
    BY <1>9, <2>2, <2>6, <2>7
<1> QED
  BY <1>7, <1>8, <1>9

LEMMA CompactionIsBest ==
    ASSUME history \in Seq(Messages)
    PROVE  CompactionIsOptimal
<1> DEFINE split == Pinned(history)
           rest == Len(history) - split
           allowed(budget, minTail) ==
               {n \in 0 .. rest : Cost(Keeping(history, split, n)) <= budget \/ n <= minTail}
<1> SUFFICES ASSUME NEW budget \in Budgets, NEW minTail \in MinTails
             PROVE  \E n \in allowed(budget, minTail) :
                        /\ \A larger \in allowed(budget, minTail) : larger <= n
                        /\ Compacted(history, budget, minTail) = Keeping(history, split, n)
  BY Zenon DEF CompactionIsOptimal, Keeping
<1>1. budget \in Nat /\ minTail \in Nat
  BY ConversationAssumption
<1>2. split \in 0 .. Len(history)
  BY PinnedIsAPart
<1>3. \A n \in 0 .. rest : Cost(Keeping(history, split, n)) = KeptCost(history, split, n)
  BY <1>2, KeepingIsKept
<1>4. PICK n \in 0 .. rest :
          /\ Compacted(history, budget, minTail) = Keeping(history, split, n)
          /\ KeptCost(history, split, n) <= budget \/ n <= minTail
          /\ \A larger \in 0 .. rest :
                 KeptCost(history, split, larger) <= budget \/ larger <= minTail => larger <= n
  BY <1>1, CompactionKeepsATail
<1>5. n \in allowed(budget, minTail)
  BY <1>3, <1>4
<1>6. \A larger \in allowed(budget, minTail) : larger <= n
  BY <1>3, <1>4
<1> QED
  BY <1>4, <1>5, <1>6

\* In every state, compact() keeps the system block and the longest tail the
\* budget allows, or the shortest it was told to keep, whatever the messages
\* cost: the walk from the newest message back stops at the right one.
THEOREM CompactionKeepsTheMost == SessionSpec => []CompactionIsOptimal
<1>1. SessionInv => CompactionIsOptimal
  BY CompactionIsBest DEF SessionInv, SessionTypeOK
<1> QED
  BY SessionStarts, SessionStep, <1>1, PTL DEF SessionSpec

-----------------------------------------------------------------------------
(* StreamObserver.  The chain holds the last k chunks, in order, and       *)
(* behind them perhaps the call of onDone(); all the chunks before have    *)
(* been told and have settled.  Once onDone() is told nothing is left.     *)

\* log has told of the chunks 1 .. t, in order.
ToldInOrder(calls, t) ==
    /\ \A i \in DOMAIN calls : calls[i].hook = "chunk" =>
        /\ calls[i].chunk \in 1 .. t
        /\ \A j \in DOMAIN calls : calls[j].hook = "chunk" /\ j < i =>
            calls[j].chunk < calls[i].chunk
        /\ \A n \in 1 .. calls[i].chunk - 1 :
            \E j \in DOMAIN calls : calls[j] = Call("chunk", n) /\ j < i
    /\ \A n \in 1 .. t : \E i \in DOMAIN calls : calls[i] = Call("chunk", n)

\* How many chunks have been told when the last k of them are on the chain.
NumberTold(k) ==
    IF "chunk" \notin hooks THEN 0
    ELSE IF hookRuns /\ k > 0 THEN yielded - k + 1 ELSE yielded - k

ChainHolds(k) ==
    /\ k \in Nat /\ k <= yielded /\ k <= Len(chain)
    /\ "chunk" \notin hooks => k = 0
    /\ \A i \in 1 .. k : chain[i] = Call("chunk", yielded - k + i)
    /\ \/ Len(chain) = k
       \/ Len(chain) = k + 1 /\ chain[k + 1] = Call("done", 0) /\ wrapper = "done"
    /\ hookRuns => chain # <<>>

EndsOnce ==
    \A i, j \in DOMAIN log : log[i].hook \in Terminals /\ log[j].hook \in Terminals =>
        i = j /\ log[i] = Call(wrapper, 0)

DoneIsLast(k) ==
    (\E i \in DOMAIN log : log[i] = Call("done", 0)) =>
        k = 0 /\ (chain = <<>> \/ hookRuns)

ChunksSettled(k) ==
    "chunk" \in hooks => \A n \in 1 .. yielded - k : Call("chunk", n) \in settled

ObserverInv ==
    /\ ObserverTypeOK /\ EndsOnce
    /\ \E k \in Nat :
        /\ ChainHolds(k) /\ ChunksSettled(k)
        /\ ToldInOrder(log, NumberTold(k)) /\ DoneIsLast(k)

LEMMA OneMoreTold ==
    ASSUME NEW calls \in Seq(Calls), NEW t \in Nat, ToldInOrder(calls, t)
    PROVE  ToldInOrder(Append(calls, Call("chunk", t + 1)), t + 1)
<1> DEFINE more == Append(calls, Call("chunk", t + 1))
           L == Len(calls)
<1>1. L \in Nat /\ DOMAIN calls = 1 .. L /\ DOMAIN more = 1 .. L + 1
  OBVIOUS
<1>2. /\ \A i \in 1 .. L : more[i] = calls[i]
      /\ more[L + 1] = Call("chunk", t + 1)
  OBVIOUS
<1>3. more[L + 1].hook = "chunk" /\ more[L + 1].chunk = t + 1
  BY <1>2 DEF Call
<1>4. \A i \in 1 .. L : calls[i].hook = "chunk" =>
        /\ calls[i].chunk \in 1 .. t
        /\ \A j \in 1 .. L : calls[j].hook = "chunk" /\ j < i =>
            calls[j].chunk < calls[i].chunk
        /\ \A n \in 1 .. calls[i].chunk - 1 :
            \E j \in 1 .. L : calls[j] = Call("chunk", n) /\ j < i
  BY <1>1 DEF ToldInOrder
<1>5. \A n \in 1 .. t : \E i \in 1 .. L : calls[i] = Call("chunk", n)
  BY <1>1 DEF ToldInOrder
<1> HIDE DEF more, L
<1>6. ASSUME NEW i \in 1 .. L + 1, more[i].hook = "chunk"
      PROVE  /\ more[i].chunk \in 1 .. t + 1
             /\ \A j \in 1 .. L + 1 : more[j].hook = "chunk" /\ j < i =>
                 more[j].chunk < more[i].chunk
             /\ \A n \in 1 .. more[i].chunk - 1 :
                 \E j \in 1 .. L + 1 : more[j] = Call("chunk", n) /\ j < i
  <2>1. CASE i = L + 1
    <3>1. \A j \in 1 .. L + 1 : j < i => j \in 1 .. L
      BY <1>1, <2>1
    <3>2. more[i].chunk = t + 1
      BY <1>3, <2>1
    <3>3. \A j \in 1 .. L + 1 : more[j].hook = "chunk" /\ j < i => more[j].chunk < more[i].chunk
      <4> SUFFICES ASSUME NEW j \in 1 .. L + 1, more[j].hook = "chunk", j < i
                   PROVE  more[j].chunk < more[i].chunk
        OBVIOUS
      <4>1. j \in 1 .. L /\ more[j] = calls[j]
        BY <1>2, <3>1
      <4>2. calls[j].chunk \in 1 .. t
        BY <1>4, <4>1
      <4> QED
        BY <3>2, <4>1, <4>2
    <3>4. \A n \in 1 .. t : \E j \in 1 .. L + 1 : more[j] = Call("chunk", n) /\ j < i
      <4> SUFFICES ASSUME NEW n \in 1 .. t
                   PROVE  \E j \in 1 .. L + 1 : more[j] = Call("chunk", n) /\ j < i
        OBVIOUS
      <4>1. PICK j \in 1 .. L : calls[j] = Call("chunk", n)
        BY <1>5
      <4>2. j \in 1 .. L + 1 /\ j < i /\ more[j] = calls[j]
        BY <1>1, <1>2, <2>1
      <4> QED
        BY <4>1, <4>2
    <3>5. t + 1 \in 1 .. t + 1 /\ (t + 1) - 1 = t
      OBVIOUS
    <3> QED
      BY <3>2, <3>3, <3>4, <3>5
  <2>2. CASE i # L + 1
    <3>1. i \in 1 .. L /\ more[i] = calls[i]
      BY <1>1, <1>2, <2>2
    <3>2. \A j \in 1 .. L + 1 : j < i => j \in 1 .. L /\ more[j] = calls[j]
      BY <1>1, <1>2, <3>1
    <3>3. more[i].chunk \in 1 .. t
      BY <1>4, <1>6, <3>1
    <3>4. \A j \in 1 .. L + 1 : more[j].hook = "chunk" /\ j < i => more[j].chunk < more[i].chunk
      BY <1>4, <1>6, <3>1, <3>2
    <3>5. ASSUME NEW n \in 1 .. more[i].chunk - 1
          PROVE  \E j \in 1 .. L + 1 : more[j] = Call("chunk", n) /\ j < i
      <4>1. PICK j \in 1 .. L : calls[j] = Call("chunk", n) /\ j < i
        BY <1>4, <1>6, <3>1
      <4>2. j \in 1 .. L + 1 /\ more[j] = calls[j]
        BY <1>1, <1>2
      <4> QED
        BY <4>1, <4>2
    <3> QED
      BY <3>3, <3>4, <3>5
  <2> QED
    BY <2>1, <2>2
<1>7. ASSUME NEW n \in 1 .. t + 1
      PROVE  \E i \in 1 .. L + 1 : more[i] = Call("chunk", n)
  <2>1. CASE n = t + 1
    <3>1. L + 1 \in 1 .. L + 1
      BY <1>1
    <3> QED
      BY <1>2, <2>1, <3>1
  <2>2. CASE n # t + 1
    <3>1. n \in 1 .. t
      BY <2>2
    <3>2. PICK i \in 1 .. L : calls[i] = Call("chunk", n)
      BY <1>5, <3>1
    <3>3. i \in 1 .. L + 1 /\ more[i] = calls[i]
      BY <1>1, <1>2
    <3> QED
      BY <3>2, <3>3
  <2> QED
    BY <2>1, <2>2
<1>8. ToldInOrder(more, t + 1)
  BY <1>1, <1>6, <1>7 DEF ToldInOrder
<1> QED
  BY <1>8 DEF more

LEMMA EndTellsNoChunk ==
    ASSUME NEW calls \in Seq(Calls), NEW t \in Nat, ToldInOrder(calls, t),
           NEW end \in Calls, end.hook \in Terminals
    PROVE  ToldInOrder(Append(calls, end), t)
<1> DEFINE more == Append(calls, end)
           L == Len(calls)
<1>1. L \in Nat /\ DOMAIN calls = 1 .. L /\ DOMAIN more = 1 .. L + 1
  OBVIOUS
<1>2. /\ \A i \in 1 .. L : more[i] = calls[i]
      /\ more[L + 1].hook # "chunk"
  BY DEF Terminals
<1>3. \A n : Call("chunk", n).hook = "chunk"
  BY DEF Call
<1> HIDE DEF more, L
<1>4. \A i \in 1 .. L + 1 : more[i].hook = "chunk" => i \in 1 .. L /\ more[i] = calls[i]
  BY <1>1, <1>2
<1>5. \A i \in 1 .. L : i \in 1 .. L + 1
  BY <1>1
<1>6. ASSUME NEW i \in 1 .. L + 1, more[i].hook = "chunk"
      PROVE  /\ more[i].chunk \in 1 .. t
             /\ \A j \in 1 .. L + 1 : more[j].hook = "chunk" /\ j < i =>
                 more[j].chunk < more[i].chunk
             /\ \A n \in 1 .. more[i].chunk - 1 :
                 \E j \in 1 .. L + 1 : more[j] = Call("chunk", n) /\ j < i
  <2>1. i \in 1 .. L /\ more[i] = calls[i]
    BY <1>4, <1>6
  <2>2. /\ calls[i].chunk \in 1 .. t
        /\ \A j \in 1 .. L : calls[j].hook = "chunk" /\ j < i =>
            calls[j].chunk < calls[i].chunk
        /\ \A n \in 1 .. calls[i].chunk - 1 :
            \E j \in 1 .. L : calls[j] = Call("chunk", n) /\ j < i
    BY <1>1, <1>6, <2>1 DEF ToldInOrder
  <2>3. \A j \in 1 .. L + 1 : more[j].hook = "chunk" /\ j < i => more[j].chunk < more[i].chunk
    BY <1>4, <2>1, <2>2
  <2>4. \A n \in 1 .. more[i].chunk - 1 :
            \E j \in 1 .. L + 1 : more[j] = Call("chunk", n) /\ j < i
    BY <1>2, <1>5, <2>1, <2>2
  <2> QED
    BY <2>1, <2>2, <2>3, <2>4
<1>7. \A n \in 1 .. t : \E i \in 1 .. L + 1 : more[i] = Call("chunk", n)
  <2>1. \A n \in 1 .. t : \E i \in 1 .. L : calls[i] = Call("chunk", n)
    BY <1>1 DEF ToldInOrder
  <2> QED
    BY <1>2, <1>5, <2>1
<1>8. ToldInOrder(more, t)
  BY <1>1, <1>6, <1>7 DEF ToldInOrder
<1> QED
  BY <1>8 DEF more

\* The call of an end may be told when no end has been.
LEMMA EndIsTold ==
    ASSUME log \in Seq(Calls), NEW outcome \in Terminals,
           log' = Append(log, Call(outcome, 0)), wrapper' = outcome,
           \A i \in DOMAIN log : log[i].hook \notin Terminals
    PROVE  EndsOnce'
<1>1. DOMAIN log = 1 .. Len(log) /\ DOMAIN log' = 1 .. Len(log) + 1 /\ Len(log) \in Nat
  OBVIOUS
<1>2. \A i \in 1 .. Len(log) : log'[i] = log[i]
  OBVIOUS
<1>3. log'[Len(log) + 1] = Call(outcome, 0)
  OBVIOUS
<1>4. \A i \in 1 .. Len(log) + 1 : log'[i].hook \in Terminals => i = Len(log) + 1
  BY <1>1, <1>2
<1> QED
  BY <1>1, <1>3, <1>4 DEF EndsOnce

LEMMA ObserverStarts == ObserverInit => ObserverInv
<1> SUFFICES ASSUME ObserverInit
             PROVE  ObserverInv
  OBVIOUS
<1>1. ObserverTypeOK
  <2>1. 0 \in 0 .. MaxObserved /\ <<>> \in Seq(Calls)
    BY ObserverAssumption
  <2>2. hooks \subseteq {"chunk"} \cup Terminals
    BY DEF ObserverInit, Terminals
  <2> QED
    BY <2>1, <2>2 DEF ObserverInit, ObserverTypeOK
<1>2. EndsOnce
  BY DEF ObserverInit, EndsOnce
<1>3. ChainHolds(0) /\ ChunksSettled(0) /\ ToldInOrder(log, NumberTold(0)) /\ DoneIsLast(0)
  BY DEF ObserverInit, ChainHolds, ChunksSettled, ToldInOrder, NumberTold, DoneIsLast
<1> QED
  BY <1>1, <1>2, <1>3 DEF ObserverInv

LEMMA ObserverStep == ObserverInv /\ [ObserverNext]_observerVars => ObserverInv'
<1> SUFFICES ASSUME ObserverInv, [ObserverNext]_observerVars
             PROVE  ObserverInv'
  OBVIOUS
<1>1. PICK k \in Nat :
          ChainHolds(k) /\ ChunksSettled(k) /\ ToldInOrder(log, NumberTold(k)) /\ DoneIsLast(k)
  BY DEF ObserverInv
<1>2. ObserverTypeOK /\ EndsOnce
  BY DEF ObserverInv
<1>3. /\ hooks \subseteq {"chunk"} \cup Terminals
      /\ wrapper \in {"idle", "awaiting", "suspended", "unused"} \cup Terminals
      /\ yielded \in 0 .. MaxObserved /\ chain \in Seq(Calls) /\ hookRuns \in BOOLEAN
      /\ log \in Seq(Calls) /\ settled \subseteq Calls
      /\ reported \subseteq {"chunk"} \cup Terminals
  BY <1>2 DEF ObserverTypeOK
<1>4. /\ yielded \in Nat /\ k <= yielded /\ k <= Len(chain) /\ MaxObserved \in Nat
      /\ DOMAIN chain = 1 .. Len(chain) /\ Len(chain) \in Nat
  BY <1>1, <1>3, ObserverAssumption DEF ChainHolds
<1>5. NumberTold(k) \in Nat
  BY <1>4 DEF NumberTold
<1>6. ASSUME wrapper \notin Terminals
      PROVE  \A i \in DOMAIN log : log[i].hook \notin Terminals
  <2>1. Call(wrapper, 0).hook = wrapper
    BY DEF Call
  <2> QED
    BY <1>2, <1>6, <2>1 DEF EndsOnce
<1>7. CASE HookStarts
  <2>1. /\ chain # <<>> /\ hookRuns = FALSE /\ hookRuns' = TRUE
        /\ log' = Append(log, Head(chain))
        /\ UNCHANGED <<hooks, wrapper, yielded, chain, settled, reported>>
    BY <1>3, <1>7 DEF HookStarts
  <2>2. Head(chain) = chain[1] /\ Head(chain) \in Calls /\ Len(chain) > 0
    BY <1>3, <2>1
  <2>3. ObserverTypeOK'
    <3>1. log' \in Seq(Calls)
      BY <1>3, <2>1, <2>2
    <3> QED
      BY <1>3, <2>1, <3>1 DEF ObserverTypeOK
  <2>4. ChainHolds(k)' /\ ChunksSettled(k)'
    BY <1>1, <2>1 DEF ChainHolds, ChunksSettled
  <2>5. CASE k > 0
    <3>1. Head(chain) = Call("chunk", yielded - k + 1) /\ "chunk" \in hooks
      <4>1. 1 \in 1 .. k /\ k # 0
        BY <2>5
      <4>2. chain[1] = Call("chunk", yielded - k + 1) /\ "chunk" \in hooks
        BY <1>1, <4>1 DEF ChainHolds
      <4> QED
        BY <2>2, <4>2
    <3>2. NumberTold(k) = yielded - k /\ NumberTold(k)' = yielded - k + 1
      BY <2>1, <2>5, <3>1 DEF NumberTold
    <3>3. ToldInOrder(log', NumberTold(k)')
      <4>1. PICK t \in Nat : t = yielded - k
        BY <1>4
      <4>2. ToldInOrder(log, t) /\ log' = Append(log, Call("chunk", t + 1)) /\ NumberTold(k)' = t + 1
        BY <1>1, <2>1, <3>1, <3>2, <4>1
      <4> QED
        BY <1>3, <4>2, OneMoreTold
    <3>4. Call("chunk", yielded - k + 1).hook = "chunk" /\ "chunk" \notin Terminals
          /\ Call("done", 0).hook = "done"
      BY DEF Call, Terminals
    <3>5. /\ \A i \in DOMAIN log' : log'[i].hook \in Terminals =>
                 i \in DOMAIN log /\ log'[i] = log[i]
          /\ ~\E i \in DOMAIN log' : log'[i] = Call("done", 0) /\ i \notin DOMAIN log
      <4>1. DOMAIN log = 1 .. Len(log) /\ DOMAIN log' = 1 .. Len(log) + 1 /\ Len(log) \in Nat
        BY <1>3, <2>1, <2>2
      <4>2. /\ \A i \in 1 .. Len(log) : log'[i] = log[i]
            /\ log'[Len(log) + 1] = Call("chunk", yielded - k + 1)
        BY <1>3, <2>1, <2>2, <3>1
      <4>3. \A i \in 1 .. Len(log) + 1 : i \in 1 .. Len(log) \/ i = Len(log) + 1
        BY <4>1
      <4> QED
        BY <3>4, <4>1, <4>2, <4>3, Zenon
    <3>6. EndsOnce'
      BY <1>2, <2>1, <3>5 DEF EndsOnce
    <3>7. DoneIsLast(k)'
      <4>1. ~\E i \in DOMAIN log : log[i] = Call("done", 0)
        BY <1>1, <2>5 DEF DoneIsLast
      <4>2. \A i \in DOMAIN log' : log'[i] # Call("done", 0)
        <5>1. "done" \in Terminals
          BY DEF Terminals
        <5> QED
          BY <3>4, <3>5, <4>1, <5>1
      <4> QED
        BY <4>2 DEF DoneIsLast
    <3> QED
      BY <2>3, <2>4, <3>3, <3>6, <3>7 DEF ObserverInv
  <2>6. CASE ~(k > 0)
    <3>1. k = 0 /\ Head(chain) = Call("done", 0) /\ wrapper = "done"
      <4>1. k = 0
        BY <2>6
      <4>2. Len(chain) # k
        BY <2>2, <4>1
      <4>3. chain[k + 1] = Call("done", 0) /\ wrapper = "done"
        BY <1>1, <4>2 DEF ChainHolds
      <4> QED
        BY <2>2, <4>1, <4>3
    <3>2. \A i \in DOMAIN log : log[i].hook \notin Terminals
      <4>1. \A i \in DOMAIN log : log[i] # Call("done", 0)
        BY <1>1, <2>1 DEF DoneIsLast
      <4> QED
        BY <1>2, <3>1, <4>1 DEF EndsOnce
    <3>3. EndsOnce'
      <4>1. "done" \in Terminals
        BY DEF Terminals
      <4> QED
        BY <1>3, <2>1, <3>1, <3>2, <4>1, EndIsTold
    <3>4. NumberTold(k)' = NumberTold(k)
      BY <2>1, <2>6 DEF NumberTold
    <3>5. ToldInOrder(log', NumberTold(k)')
      <4>1. Head(chain).hook \in Terminals
        BY <3>1 DEF Call, Terminals
      <4> QED
        BY <1>1, <1>3, <1>5, <2>1, <2>2, <3>4, <4>1, EndTellsNoChunk
    <3>6. DoneIsLast(k)'
      BY <2>1, <3>1 DEF DoneIsLast
    <3> QED
      BY <2>3, <2>4, <3>3, <3>5, <3>6 DEF ObserverInv
  <2> QED
    BY <2>5, <2>6
<1>8. ASSUME NEW fails \in BOOLEAN, HookSettles(fails)
      PROVE  ObserverInv'
  <2>1. /\ hookRuns = TRUE /\ hookRuns' = FALSE /\ chain' = Tail(chain)
        /\ settled' = settled \cup {Head(chain)}
        /\ UNCHANGED <<hooks, wrapper, yielded, log>>
    BY <1>3, <1>8 DEF HookSettles
  <2>2. /\ chain # <<>> /\ Head(chain) = chain[1] /\ Head(chain) \in Calls
        /\ chain' \in Seq(Calls) /\ Len(chain') = Len(chain) - 1 /\ Len(chain) > 0
        /\ \A i \in 1 .. Len(chain) - 1 : chain'[i] = chain[i + 1]
    <3>1. chain # <<>>
      BY <1>1, <2>1 DEF ChainHolds
    <3> QED
      BY <1>3, <2>1, <3>1
  <2>3. ObserverTypeOK'
    <3>1. Head(chain).hook \in {"chunk"} \cup Terminals
      BY <2>2 DEF Calls
    <3>2. reported' \subseteq {"chunk"} \cup Terminals
      BY <1>3, <1>8, <3>1 DEF HookSettles
    <3> QED
      BY <1>3, <2>1, <2>2, <3>2 DEF ObserverTypeOK
  <2>4. EndsOnce'
    BY <1>2, <2>1 DEF EndsOnce
  <2>5. CASE k > 0
    <3>1. PICK m \in Nat : m = k - 1
      BY <2>5
    <3>2. m + 1 = k /\ yielded - m = yielded - k + 1 /\ "chunk" \in hooks
      <4>1. m + 1 = k /\ yielded - m = yielded - k + 1 /\ k # 0
        BY <1>4, <2>5, <3>1
      <4>2. "chunk" \in hooks
        BY <1>1, <4>1 DEF ChainHolds
      <4> QED
        BY <4>1, <4>2
    <3>3. Head(chain) = Call("chunk", yielded - m)
      <4>1. 1 \in 1 .. k
        BY <2>5
      <4>2. chain[1] = Call("chunk", yielded - k + 1)
        BY <1>1, <4>1 DEF ChainHolds
      <4> QED
        BY <2>2, <3>2, <4>2
    <3>4. ASSUME NEW i \in 1 .. m
          PROVE  chain'[i] = Call("chunk", yielded - m + i)
      <4>1. i + 1 \in 1 .. k /\ i \in 1 .. Len(chain) - 1 /\ yielded - k + (i + 1) = yielded - m + i
        BY <1>4, <3>1
      <4>2. chain[i + 1] = Call("chunk", yielded - k + (i + 1))
        BY <1>1, <4>1 DEF ChainHolds
      <4> QED
        BY <2>2, <4>1, <4>2
    <3>5. \/ Len(chain') = m
          \/ Len(chain') = m + 1 /\ chain'[m + 1] = Call("done", 0) /\ wrapper' = "done"
      <4>1. CASE Len(chain) = k
        BY <2>2, <3>1, <4>1
      <4>2. CASE Len(chain) # k
        <5>1. Len(chain) = k + 1 /\ chain[k + 1] = Call("done", 0) /\ wrapper = "done"
          BY <1>1, <4>2 DEF ChainHolds
        <5>2. m + 1 \in 1 .. Len(chain) - 1 /\ (m + 1) + 1 = k + 1
          BY <3>1, <3>2, <5>1
        <5>3. chain'[m + 1] = chain[(m + 1) + 1]
          BY <2>2, <5>2
        <5> QED
          BY <2>1, <2>2, <3>2, <5>1, <5>2, <5>3
      <4> QED
        BY <4>1, <4>2
    <3>6. ChainHolds(m)'
      <4>1. m <= yielded /\ m <= Len(chain')
        BY <1>4, <2>2, <3>1
      <4> QED
        BY <2>1, <3>2, <3>4, <3>5, <4>1 DEF ChainHolds
    <3>7. ChunksSettled(m)'
      <4>1. \A n \in 1 .. yielded - m : n \in 1 .. yielded - k \/ n = yielded - m
        BY <1>4, <3>2
      <4>2. \A n \in 1 .. yielded - k : Call("chunk", n) \in settled
        BY <1>1, <3>2 DEF ChunksSettled
      <4> QED
        BY <2>1, <3>3, <4>1, <4>2 DEF ChunksSettled
    <3>8. NumberTold(m)' = NumberTold(k)
      BY <2>1, <2>5, <3>2 DEF NumberTold
    <3>9. DoneIsLast(m)'
      BY <1>1, <2>1, <2>5 DEF DoneIsLast
    <3> QED
      BY <1>1, <2>1, <2>3, <2>4, <3>6, <3>7, <3>8, <3>9 DEF ObserverInv
  <2>6. CASE ~(k > 0)
    <3>1. k = 0 /\ Len(chain) = 1
      <4>1. k = 0
        BY <2>6
      <4>2. Len(chain) = k \/ Len(chain) = k + 1
        BY <1>1 DEF ChainHolds
      <4> QED
        BY <2>2, <4>1, <4>2
    <3>2. chain' = <<>>
      BY <2>2, <3>1
    <3>3. ChainHolds(0)'
      BY <1>4, <2>1, <3>2 DEF ChainHolds
    <3>4. ChunksSettled(0)' /\ NumberTold(0)' = NumberTold(k) /\ DoneIsLast(0)'
      BY <1>1, <2>1, <3>1, <3>2 DEF ChunksSettled, NumberTold, DoneIsLast
    <3> QED
      BY <1>1, <2>1, <2>3, <2>4, <3>3, <3>4 DEF ObserverInv
  <2> QED
    BY <2>5, <2>6
<1>9. ASSUME wrapper \notin Terminals,
             wrapper' \in {"idle", "awaiting", "suspended", "unused"} \cup Terminals,
             UNCHANGED <<hooks, yielded, chain, hookRuns, log, settled, reported>>
      PROVE  ObserverInv'
  <2>1. ObserverTypeOK'
    BY <1>3, <1>9 DEF ObserverTypeOK
  <2>2. EndsOnce'
    BY <1>6, <1>9 DEF EndsOnce
  <2>3. ChainHolds(k)'
    <3>1. "done" \in Terminals
      BY DEF Terminals
    <3> QED
      BY <1>1, <1>9, <3>1 DEF ChainHolds
  <2>4. ChunksSettled(k)' /\ NumberTold(k)' = NumberTold(k) /\ DoneIsLast(k)'
    BY <1>1, <1>9 DEF ChunksSettled, NumberTold, DoneIsLast
  <2> QED
    BY <1>1, <1>9, <2>1, <2>2, <2>3, <2>4 DEF ObserverInv
<1>10. CASE Pulls \/ ReturnsUnused
  <2>1. wrapper \notin Terminals
    BY <1>10 DEF Pulls, ReturnsUnused, Terminals
  <2> QED
    BY <1>9, <1>10, <2>1 DEF Pulls, ReturnsUnused
<1>11. CASE SourceYields
  <2>1. /\ wrapper = "awaiting" /\ yielded < MaxObserved /\ wrapper' = "suspended"
        /\ yielded' = yielded + 1 /\ UNCHANGED <<hooks, hookRuns, log, settled, reported>>
        /\ chain' = IF "chunk" \in hooks THEN Append(chain, Call("chunk", yielded + 1)) ELSE chain
    BY <1>11 DEF SourceYields, Dispatch
  <2>2. wrapper \notin Terminals /\ wrapper' \notin Terminals
    BY <2>1 DEF Terminals
  <2>3. Call("chunk", yielded + 1) \in Calls
    BY <1>4, <2>1 DEF Call, Calls
  <2>4. ObserverTypeOK'
    <3>1. chain' \in Seq(Calls) /\ yielded' \in 0 .. MaxObserved
      BY <1>3, <1>4, <2>1, <2>3
    <3> QED
      BY <1>3, <2>1, <3>1 DEF ObserverTypeOK
  <2>5. EndsOnce'
    BY <1>6, <2>1, <2>2 DEF EndsOnce
  <2>6. Len(chain) = k /\ \A i \in DOMAIN log : log[i].hook \notin Terminals
    BY <1>1, <1>6, <2>1, <2>2 DEF ChainHolds
  <2>7. \A n : DoneIsLast(n)'
    <3>1. Call("done", 0).hook \in Terminals
      BY DEF Call, Terminals
    <3> QED
      BY <2>1, <2>6, <3>1 DEF DoneIsLast
  <2>8. CASE "chunk" \in hooks
    <3>1. /\ chain' \in Seq(Calls) /\ Len(chain') = k + 1
          /\ \A i \in 1 .. k : chain'[i] = chain[i]
          /\ chain'[k + 1] = Call("chunk", yielded + 1)
      BY <1>3, <2>1, <2>3, <2>6, <2>8
    <3>2. PICK m \in Nat : m = k + 1
      OBVIOUS
    <3>3. ASSUME NEW i \in 1 .. m
          PROVE  chain'[i] = Call("chunk", yielded' - m + i)
      <4>1. yielded' - m = yielded - k
        BY <1>4, <2>1, <3>2
      <4>2. CASE i = m
        <5>1. yielded - k + i = yielded + 1 /\ i = k + 1
          BY <1>4, <3>2, <4>2
        <5> QED
          BY <3>1, <4>1, <5>1
      <4>3. CASE i # m
        <5>1. i \in 1 .. k
          BY <3>2, <4>3
        <5>2. chain[i] = Call("chunk", yielded - k + i)
          BY <1>1, <5>1 DEF ChainHolds
        <5> QED
          BY <3>1, <4>1, <5>1, <5>2
      <4> QED
        BY <4>2, <4>3
    <3>4. ChainHolds(m)'
      <4>1. m <= yielded' /\ Len(chain') = m
        BY <1>4, <2>1, <3>1, <3>2
      <4>2. chain' # <<>>
        BY <3>1
      <4> QED
        BY <2>1, <2>8, <3>3, <4>1, <4>2 DEF ChainHolds
    <3>5. yielded' - m = yielded - k
      BY <1>4, <2>1, <3>2
    <3>6. ChunksSettled(m)'
      BY <1>1, <2>1, <3>5 DEF ChunksSettled
    <3>7. NumberTold(m)' = NumberTold(k)
      <4>1. CASE hookRuns
        <5>1. chain # <<>>
          BY <1>1, <4>1 DEF ChainHolds
        <5>2. k > 0 /\ m > 0
          BY <1>3, <2>6, <3>2, <5>1
        <5> QED
          BY <2>1, <3>5, <4>1, <5>2 DEF NumberTold
      <4>2. CASE ~hookRuns
        BY <2>1, <3>5, <4>2 DEF NumberTold
      <4> QED
        BY <4>1, <4>2
    <3> QED
      BY <1>1, <2>1, <2>4, <2>5, <2>7, <3>4, <3>6, <3>7 DEF ObserverInv
  <2>9. CASE "chunk" \notin hooks
    <3>1. ChainHolds(k)'
      <4>1. k = 0
        BY <1>1, <2>9 DEF ChainHolds
      <4> QED
        BY <1>1, <1>4, <2>1, <2>6, <2>9, <4>1 DEF ChainHolds
    <3>2. ChunksSettled(k)' /\ NumberTold(k)' = NumberTold(k)
      BY <2>1, <2>9 DEF ChunksSettled, NumberTold
    <3> QED
      BY <1>1, <2>1, <2>4, <2>5, <2>7, <3>1, <3>2 DEF ObserverInv
  <2> QED
    BY <2>8, <2>9
<1>12. CASE SourceCompletes
  <2>1. /\ wrapper = "awaiting" /\ wrapper' = "done"
        /\ UNCHANGED <<hooks, yielded, hookRuns, log, settled, reported>>
        /\ chain' = IF "done" \in hooks THEN Append(chain, Call("done", 0)) ELSE chain
    BY <1>12 DEF SourceCompletes, Dispatch
  <2>2. wrapper \notin Terminals /\ wrapper' \in Terminals
    BY <2>1 DEF Terminals
  <2>3. CASE "done" \notin hooks
    BY <1>9, <2>1, <2>2, <2>3
  <2>4. CASE "done" \in hooks
    <3>1. Call("done", 0) \in Calls
      BY <1>4 DEF Call, Calls, Terminals
    <3>2. Len(chain) = k
      BY <1>1, <2>1 DEF ChainHolds
    <3>3. /\ chain' \in Seq(Calls) /\ Len(chain') = k + 1
          /\ \A i \in 1 .. k : chain'[i] = chain[i]
          /\ chain'[k + 1] = Call("done", 0)
      BY <1>3, <2>1, <2>4, <3>1, <3>2
    <3>4. ObserverTypeOK'
      BY <1>3, <2>1, <2>2, <3>3 DEF ObserverTypeOK
    <3>5. EndsOnce'
      BY <1>6, <2>1, <2>2 DEF EndsOnce
    <3>6. ChainHolds(k)'
      <4>1. k <= Len(chain') /\ chain' # <<>>
        BY <3>3
      <4> QED
        BY <1>1, <2>1, <3>3, <4>1 DEF ChainHolds
    <3>7. ChunksSettled(k)' /\ NumberTold(k)' = NumberTold(k)
      BY <1>1, <2>1 DEF ChunksSettled, NumberTold
    <3>8. DoneIsLast(k)'
      <4>1. Call("done", 0).hook \in Terminals
        BY DEF Call, Terminals
      <4> QED
        BY <1>6, <2>1, <2>2, <4>1 DEF DoneIsLast
    <3> QED
      BY <1>1, <2>1, <3>4, <3>5, <3>6, <3>7, <3>8 DEF ObserverInv
  <2> QED
    BY <2>3, <2>4
<1>13. ASSUME NEW outcome \in {"error", "abandoned"}, NEW throws \in BOOLEAN,
              wrapper \notin Terminals, EndsWith(outcome, throws)
       PROVE  ObserverInv'
  <2>1. /\ wrapper' = outcome /\ UNCHANGED <<hooks, yielded, chain, hookRuns, settled>>
        /\ log' = IF outcome \in hooks THEN Append(log, Call(outcome, 0)) ELSE log
        /\ reported' = IF outcome \in hooks /\ throws THEN reported \cup {outcome} ELSE reported
    BY <1>13 DEF EndsWith
  <2>2. outcome \in Terminals /\ Call(outcome, 0) \in Calls
        /\ Call(outcome, 0).hook \in Terminals /\ Call(outcome, 0) # Call("done", 0)
    <3>1. outcome \in Terminals
      BY DEF Terminals
    <3>2. Call(outcome, 0) \in Calls /\ Call(outcome, 0).hook = outcome
          /\ Call("done", 0).hook = "done"
      BY <1>4, <3>1 DEF Call, Calls
    <3> QED
      BY <3>1, <3>2
  <2>3. ObserverTypeOK'
    <3>1. log' \in Seq(Calls)
      BY <1>3, <2>1, <2>2
    <3>2. reported' \subseteq {"chunk"} \cup Terminals
      BY <1>3, <2>1, <2>2
    <3> QED
      BY <1>3, <2>1, <2>2, <3>1, <3>2 DEF ObserverTypeOK
  <2>4. EndsOnce'
    <3>1. CASE outcome \in hooks
      BY <1>3, <1>6, <1>13, <2>1, <2>2, <3>1, EndIsTold
    <3>2. CASE outcome \notin hooks
      BY <1>6, <1>13, <2>1, <3>2 DEF EndsOnce
    <3> QED
      BY <3>1, <3>2
  <2>5. ChainHolds(k)'
    <3>1. Len(chain) = k
      <4>1. wrapper # "done"
        BY <1>13 DEF Terminals
      <4> QED
        BY <1>1, <4>1 DEF ChainHolds
    <3> QED
      BY <1>1, <2>1, <3>1 DEF ChainHolds
  <2>6. ChunksSettled(k)' /\ NumberTold(k)' = NumberTold(k)
    BY <1>1, <2>1 DEF ChunksSettled, NumberTold
  <2>7. ToldInOrder(log', NumberTold(k)')
    BY <1>1, <1>3, <1>5, <2>1, <2>2, <2>6, EndTellsNoChunk
  <2>8. DoneIsLast(k)'
    <3>1. \A i \in DOMAIN log : log[i] # Call("done", 0)
      <4>1. Call("done", 0).hook \in Terminals
        BY DEF Call, Terminals
      <4> QED
        BY <1>6, <1>13, <4>1
    <3>2. \A i \in DOMAIN log' : log'[i] # Call("done", 0)
      <4>1. CASE outcome \in hooks
        <5>1. DOMAIN log' = 1 .. Len(log) + 1 /\ DOMAIN log = 1 .. Len(log) /\ Len(log) \in Nat
          BY <1>3, <2>1, <4>1
        <5>2. /\ \A i \in 1 .. Len(log) : log'[i] = log[i]
              /\ log'[Len(log) + 1] = Call(outcome, 0)
          BY <1>3, <2>1, <2>2, <4>1
        <5>3. \A i \in 1 .. Len(log) + 1 : i \in 1 .. Len(log) \/ i = Len(log) + 1
          BY <5>1
        <5> QED
          BY <2>2, <3>1, <5>1, <5>2, <5>3
      <4>2. CASE outcome \notin hooks
        BY <2>1, <3>1, <4>2
      <4> QED
        BY <4>1, <4>2
    <3> QED
      BY <3>2 DEF DoneIsLast
  <2> QED
    BY <2>3, <2>4, <2>5, <2>6, <2>7, <2>8 DEF ObserverInv
<1>14. ASSUME NEW throws \in BOOLEAN, SourceThrows(throws) \/ ConsumerStops(throws)
       PROVE  ObserverInv'
  <2>1. wrapper \notin Terminals
    BY <1>14 DEF SourceThrows, ConsumerStops, Terminals
  <2>2. \E outcome \in {"error", "abandoned"} : EndsWith(outcome, throws)
    BY <1>14 DEF SourceThrows, ConsumerStops
  <2> QED
    BY <1>13, <2>1, <2>2
<1>15. CASE UNCHANGED observerVars
  <2>1. UNCHANGED <<hooks, wrapper, yielded, chain, hookRuns, log, settled, reported>>
    BY <1>15 DEF observerVars
  <2>2. ObserverTypeOK' /\ EndsOnce'
    BY <1>2, <2>1 DEF ObserverTypeOK, EndsOnce
  <2>3. ChainHolds(k)' /\ ChunksSettled(k)' /\ NumberTold(k)' = NumberTold(k) /\ DoneIsLast(k)'
    BY <1>1, <2>1 DEF ChainHolds, ChunksSettled, NumberTold, DoneIsLast
  <2> QED
    BY <1>1, <2>1, <2>2, <2>3 DEF ObserverInv
<1> QED
  BY <1>7, <1>8, <1>10, <1>11, <1>12, <1>14, <1>15 DEF ObserverNext

\* Every variable of an observed stream has its type.
THEOREM ObserverTypes == ObserverSpec => []ObserverTypeOK
<1>1. ObserverInv => ObserverTypeOK
  BY DEF ObserverInv
<1> QED
  BY ObserverStarts, ObserverStep, <1>1, PTL DEF ObserverSpec

\* However slow or broken the hooks are, and however the stream ends: they are
\* told of the chunks the consumer was given, in order and once each, of one
\* end, and of done only when the hook of every chunk has settled.
THEOREM HooksSeeTheStream == ObserverSpec => []ObserverSeesTheStream
<1>1. ObserverInv => ObserverSeesTheStream
  <2> SUFFICES ASSUME ObserverInv
               PROVE  ObserverSeesTheStream
    OBVIOUS
  <2>1. PICK k \in Nat :
            ChainHolds(k) /\ ChunksSettled(k) /\ ToldInOrder(log, NumberTold(k)) /\ DoneIsLast(k)
    BY DEF ObserverInv
  <2>2. ObserverTypeOK /\ EndsOnce
    BY DEF ObserverInv
  <2>3. k <= yielded /\ yielded \in Nat /\ NumberTold(k) \in 0 .. yielded
    BY <2>1, <2>2, ObserverAssumption DEF ChainHolds, ObserverTypeOK, NumberTold
  <2>4. PICK t \in 0 .. yielded : t = NumberTold(k)
    BY <2>3
  <2>5. ASSUME NEW i \in DOMAIN log, log[i].hook = "chunk"
        PROVE  /\ log[i].chunk \in 1 .. yielded
               /\ \A j \in DOMAIN log : log[j].hook = "chunk" /\ j < i =>
                    log[j].chunk < log[i].chunk
               /\ \A n \in 1 .. log[i].chunk - 1 :
                    \E j \in DOMAIN log : log[j] = Call("chunk", n) /\ j < i
    <3>1. /\ log[i].chunk \in 1 .. t
          /\ \A j \in DOMAIN log : log[j].hook = "chunk" /\ j < i =>
               log[j].chunk < log[i].chunk
          /\ \A n \in 1 .. log[i].chunk - 1 :
               \E j \in DOMAIN log : log[j] = Call("chunk", n) /\ j < i
      BY <2>1, <2>4, <2>5 DEF ToldInOrder
    <3>2. log[i].chunk \in 1 .. yielded
      BY <2>3, <3>1
    <3> QED
      BY <3>1, <3>2
  <2>6. \A n : Call("chunk", n).hook = "chunk" /\ Call("chunk", n).chunk = n
    BY DEF Call
  <2>7. ASSUME chain = <<>>, "chunk" \in hooks
        PROVE  \A n \in 1 .. yielded : \E i \in DOMAIN log : log[i] = Call("chunk", n)
    <3>1. k = 0
      BY <2>1, <2>7 DEF ChainHolds
    <3>2. NumberTold(k) = yielded
      BY <2>3, <2>7, <3>1 DEF NumberTold
    <3> QED
      BY <2>1, <3>2 DEF ToldInOrder
  <2>8. ASSUME Contains(log, Call("done", 0)), "chunk" \in hooks
        PROVE  \A n \in 1 .. yielded : Call("chunk", n) \in settled
    <3>1. \E i \in DOMAIN log : log[i] = Call("done", 0)
      BY <2>2, <2>8 DEF Contains, ObserverTypeOK
    <3>2. k = 0
      BY <2>1, <3>1 DEF DoneIsLast
    <3> QED
      BY <2>1, <2>3, <2>8, <3>2 DEF ChunksSettled
  <2>9. \A i, j \in DOMAIN log : log[i].hook \in Terminals /\ log[j].hook \in Terminals =>
            i = j /\ log[i] = Call(wrapper, 0)
    BY <2>2 DEF EndsOnce
  <2> QED
    BY <2>5, <2>6, <2>7, <2>8, <2>9 DEF ObserverSeesTheStream
<1> QED
  BY ObserverStarts, ObserverStep, <1>1, PTL DEF ObserverSpec
=============================================================================
