----------------------------- MODULE ListLemmas -----------------------------
(***************************************************************************)
(* What the proofs about lists need of numbers, of functions that are      *)
(* defined by recursion along a list, and of FlattenSeq: that they exist,  *)
(* what type they have and what one more element adds to them.             *)
(***************************************************************************)
EXTENDS Integers, Sequences, SequencesExt, FiniteSetsExt,
        FiniteSetTheorems, SequenceTheorems, WellFoundedInduction, TLAPS

-----------------------------------------------------------------------------
(* Natural numbers.                                                        *)

LEMMA LeastExists ==
    ASSUME NEW S, S \subseteq Nat, S # {}
    PROVE  \E x \in S : \A y \in S : x <= y
<1> DEFINE R == OpToRel(<, Nat)
<1>1. IsWellFoundedOn(R, Nat)
  BY NatLessThanWellFounded
<1>2. PICK x \in S : \A y \in S : ~(<<y, x>> \in R)
  <2> HIDE DEF R
  <2> QED
    BY <1>1, WFMin
<1>3. \A y \in S : ~(y < x)
  BY <1>2 DEF OpToRel
<1> QED
  BY <1>3

LEMMA MinIsLeast ==
    ASSUME NEW S, S \subseteq Nat, S # {}
    PROVE  Min(S) \in S /\ \A y \in S : Min(S) <= y
<1>1. \E x \in S : \A y \in S : x <= y
  BY LeastExists
<1> QED
  BY <1>1 DEF Min

LEMMA InductiveSet ==
    ASSUME NEW S, 0 \in S, \A n \in Nat : n \in S => n + 1 \in S
    PROVE  \A n \in Nat : n \in S
<1> DEFINE Bad == {n \in Nat : n \notin S}
<1>1. ASSUME Bad # {} PROVE FALSE
  <2>1. PICK m \in Bad : \A n \in Bad : m <= n
    BY <1>1, LeastExists
  <2>2. m \in Nat /\ m # 0
    BY <2>1
  <2>3. m - 1 \in Nat /\ ~(m <= m - 1) /\ (m - 1) + 1 = m
    BY <2>2
  <2>4. m - 1 \in S
    BY <2>1, <2>3
  <2> QED
    BY <2>1, <2>3, <2>4
<1> QED
  BY <1>1

-----------------------------------------------------------------------------
(* Functions that are defined by recursion along 0 .. n.                   *)

IsRecursion(g, n, base, F) == g = [i \in 0 .. n |-> IF i = 0 THEN base ELSE F[i][g[i - 1]]]

LEMMA RecursionExists ==
    ASSUME NEW n \in Nat, NEW B, NEW base \in B, NEW F \in [1 .. n -> [B -> B]]
    PROVE  \E g \in [0 .. n -> B] : IsRecursion(g, n, base, F)
<1> DEFINE Reached(m) == \E g \in [0 .. m -> B] :
                            \A i \in 0 .. m : g[i] = IF i = 0 THEN base ELSE F[i][g[i - 1]]
           Good == {m \in Nat : m <= n => Reached(m)}
<1>1. 0 \in Good
  <2>1. [i \in 0 .. 0 |-> base] \in [0 .. 0 -> B]
    OBVIOUS
  <2>2. \A i \in 0 .. 0 : i = 0 /\ [j \in 0 .. 0 |-> base][i] = base
    OBVIOUS
  <2> QED BY <2>1, <2>2
<1>2. ASSUME NEW m \in Nat, m \in Good, m + 1 <= n
      PROVE  Reached(m + 1)
  <2>1. PICK f \in [0 .. m -> B] : \A i \in 0 .. m : f[i] = IF i = 0 THEN base ELSE F[i][f[i - 1]]
    BY <1>2
  <2>2. F[m + 1][f[m]] \in B
    <3>1. m + 1 \in 1 .. n /\ f[m] \in B
      BY <1>2, <2>1
    <3>2. F[m + 1] \in [B -> B]
      BY <3>1
    <3> QED BY <3>1, <3>2
  <2> DEFINE g == [i \in 0 .. m + 1 |-> IF i = m + 1 THEN F[m + 1][f[m]] ELSE f[i]]
  <2>3. g \in [0 .. m + 1 -> B]
    BY <2>2
  <2>4. ASSUME NEW i \in 0 .. m + 1
        PROVE  g[i] = IF i = 0 THEN base ELSE F[i][g[i - 1]]
    <3>1. CASE i = m + 1
      BY <3>1
    <3>2. CASE i # m + 1
      <4>1. i \in 0 .. m /\ (i # 0 => i - 1 \in 0 .. m /\ i - 1 # m + 1)
        BY <3>2
      <4>2. g[i] = f[i] /\ (i # 0 => g[i - 1] = f[i - 1])
        BY <4>1
      <4> QED BY <2>1, <4>1, <4>2
    <3> QED BY <3>1, <3>2
  <2> HIDE DEF g
  <2> QED BY <2>3, <2>4
<1>3. ASSUME NEW m \in Nat, m \in Good PROVE m + 1 \in Good
  <2> HIDE DEF Reached
  <2>1. CASE m + 1 <= n
    BY <1>2, <1>3, <2>1
  <2>2. CASE ~(m + 1 <= n)
    BY <2>2
  <2> QED BY <2>1, <2>2
<1>4. n \in Good
  <2> HIDE DEF Good
  <2> QED BY <1>1, <1>3, InductiveSet
<1>5. PICK g \in [0 .. n -> B] : \A i \in 0 .. n : g[i] = IF i = 0 THEN base ELSE F[i][g[i - 1]]
  BY <1>4
<1>6. g = [i \in 0 .. n |-> g[i]]
  OBVIOUS
<1>7. [i \in 0 .. n |-> g[i]] = [i \in 0 .. n |-> IF i = 0 THEN base ELSE F[i][g[i - 1]]]
  BY <1>5
<1> QED BY <1>6, <1>7, Zenon DEF IsRecursion

\* A recursion of the type is typed.
IsRecursionWhereTyped(g, n, B, base, F) ==
    /\ g = [i \in 0 .. n |-> g[i]]
    /\ \A i \in 0 .. n :
         (i # 0 => g[i - 1] \in B) => g[i] = IF i = 0 THEN base ELSE F[i][g[i - 1]]

LEMMA RecursionHasType ==
    ASSUME NEW n \in Nat, NEW B, NEW base \in B, NEW F \in [1 .. n -> [B -> B]], NEW g,
           IsRecursionWhereTyped(g, n, B, base, F)
    PROVE  g \in [0 .. n -> B]
<1> USE DEF IsRecursionWhereTyped
<1> DEFINE Good == {m \in Nat : m <= n => g[m] \in B}
<1>1. 0 \in Good
  OBVIOUS
<1>2. ASSUME NEW m \in Nat, m \in Good PROVE m + 1 \in Good
  <2>1. CASE m + 1 <= n
    <3>1. m + 1 \in 0 .. n /\ m + 1 # 0 /\ (m + 1) - 1 = m /\ g[m] \in B /\ m + 1 \in 1 .. n
      BY <1>2, <2>1
    <3>2. g[m + 1] = F[m + 1][g[m]]
      BY <3>1
    <3>3. F[m + 1] \in [B -> B]
      BY <3>1
    <3> QED BY <3>1, <3>2, <3>3
  <2>2. CASE ~(m + 1 <= n)
    BY <2>2
  <2> QED BY <2>1, <2>2
<1>3. \A m \in Nat : m \in Good
  <2> HIDE DEF Good
  <2> QED BY <1>1, <1>2, InductiveSet
<1>4. \A i \in 0 .. n : g[i] \in B
  BY <1>3
<1> QED BY <1>4

-----------------------------------------------------------------------------
(* What FlattenSeq gives.                                                  *)

Nothing == <<>>

\* The parts so far, after each of them.
IsGathering(g, S, parts) ==
    /\ g \in [0 .. Len(parts) -> Seq(S)]
    /\ g[0] = Nothing
    /\ \A i \in 1 .. Len(parts) : g[i] = g[i - 1] \o parts[i]

LEMMA GatheringExists ==
    ASSUME NEW S, NEW parts \in Seq(Seq(S))
    PROVE  \E g : IsGathering(g, S, parts)
<1> DEFINE n == Len(parts)
           F == [i \in 1 .. n |-> [sofar \in Seq(S) |-> sofar \o parts[i]]]
<1>1. n \in Nat /\ \A i \in 1 .. n : parts[i] \in Seq(S)
  OBVIOUS
<1>2. \A i \in 1 .. n, sofar \in Seq(S) : sofar \o parts[i] \in Seq(S)
  BY <1>1, ConcatProperties
<1>3. F \in [1 .. n -> [Seq(S) -> Seq(S)]]
  BY <1>2
<1>4. \A i \in 1 .. n, sofar \in Seq(S) : F[i][sofar] = sofar \o parts[i]
  OBVIOUS
<1>5. Nothing \in Seq(S)
  BY DEF Nothing
<1> HIDE DEF n, F
<1>6. PICK g \in [0 .. n -> Seq(S)] : IsRecursion(g, n, Nothing, F)
  BY <1>1, <1>3, <1>5, RecursionExists
<1>7. \A i \in 0 .. n : g[i] = IF i = 0 THEN Nothing ELSE F[i][g[i - 1]]
  BY <1>6 DEF IsRecursion
<1>8. g[0] = Nothing
  <2>1. 0 \in 0 .. n
    BY <1>1
  <2> QED BY <1>7, <2>1, Zenon
<1>9. \A i \in 1 .. n : i \in 0 .. n /\ i # 0 /\ g[i - 1] \in Seq(S)
  BY <1>1
<1>10. \A i \in 1 .. n : g[i] = g[i - 1] \o parts[i]
  BY <1>4, <1>7, <1>9
<1> QED BY <1>8, <1>10 DEF IsGathering, n

LEMMA FlattenIsGathered ==
    ASSUME NEW S, NEW parts \in Seq(Seq(S)), NEW g, IsGathering(g, S, parts)
    PROVE  FlattenSeq(parts) = g[Len(parts)]
<1> DEFINE n == Len(parts)
           flatten == CHOOSE f : f = [i \in 1 .. n |->
                          IF i = 1 THEN parts[i] ELSE f[i - 1] \o parts[i]]
<1>1. n \in Nat /\ \A i \in 1 .. n : parts[i] \in Seq(S)
  OBVIOUS
<1>2. CASE n = 0
  <2>1. parts = <<>> /\ FlattenSeq(parts) = parts
    BY <1>2 DEF FlattenSeq
  <2>2. g[n] = Nothing
    BY <1>2 DEF IsGathering
  <2> QED BY <2>1, <2>2 DEF Nothing
<1>3. CASE n # 0
  <2>1. FlattenSeq(parts) = flatten[n]
    BY <1>3, Zenon DEF FlattenSeq
  <2> DEFINE h == [i \in 1 .. n |-> g[i]]
  <2>2. h = [i \in 1 .. n |-> IF i = 1 THEN parts[i] ELSE h[i - 1] \o parts[i]]
    <3>1. ASSUME NEW i \in 1 .. n
          PROVE  h[i] = IF i = 1 THEN parts[i] ELSE h[i - 1] \o parts[i]
      <4>1. g[i] = g[i - 1] \o parts[i]
        BY DEF IsGathering
      <4>2. CASE i = 1
        <5>1. g[i] = Nothing \o parts[i]
          <6>1. g[0] = Nothing /\ i - 1 = 0
            BY <4>2 DEF IsGathering
          <6> QED BY <4>1, <6>1
        <5>2. parts[i] \in Seq(S)
          BY <1>1
        <5>3. Nothing \o parts[i] = parts[i]
          BY <5>2, ConcatEmptySeq DEF Nothing
        <5> QED BY <4>2, <5>1, <5>3
      <4>3. CASE i # 1
        <5>1. i - 1 \in 1 .. n
          BY <1>1, <4>3
        <5> QED BY <4>1, <4>3, <5>1
      <4> QED BY <4>2, <4>3
    <3> QED BY <3>1
  <2> HIDE DEF h
  <2>3. flatten = [i \in 1 .. n |-> IF i = 1 THEN parts[i] ELSE flatten[i - 1] \o parts[i]]
    BY <2>2, Zenon
  <2> HIDE DEF n, flatten
  <2>4. PICK f : f = [i \in 1 .. n |-> IF i = 1 THEN parts[i] ELSE flatten[i - 1] \o parts[i]]
    OBVIOUS
  <2>5. flatten = f
    BY <2>3, <2>4, Zenon
  <2>6. \A i \in 1 .. n : flatten[i] = IF i = 1 THEN parts[i] ELSE flatten[i - 1] \o parts[i]
    BY <2>4, <2>5
  <2> DEFINE Good == {m \in Nat : m + 1 <= n => flatten[m + 1] = g[m + 1]}
  <2>7. 0 \in Good
    <3>1. flatten[1] = parts[1]
      BY <1>1, <1>3, <2>6
    <3>2. g[1] = Nothing \o parts[1]
      <4>1. g[0] = Nothing /\ \A i \in 1 .. n : g[i] = g[i - 1] \o parts[i]
        BY DEF IsGathering, n
      <4>2. 1 \in 1 .. n /\ 1 - 1 = 0
        BY <1>1, <1>3
      <4> QED BY <4>1, <4>2
    <3>3. parts[1] \in Seq(S)
      BY <1>1, <1>3
    <3>4. Nothing \o parts[1] = parts[1]
      BY <3>3, ConcatEmptySeq DEF Nothing
    <3>5. flatten[0 + 1] = g[0 + 1]
      BY <3>1, <3>2, <3>4
    <3> QED BY <3>5
  <2>8. ASSUME NEW m \in Nat, m \in Good PROVE m + 1 \in Good
    <3>1. CASE (m + 1) + 1 <= n
      <4>1. (m + 1) + 1 \in 1 .. n /\ (m + 1) + 1 # 1 /\ ((m + 1) + 1) - 1 = m + 1
        BY <1>1, <3>1
      <4>2. flatten[(m + 1) + 1] = flatten[m + 1] \o parts[(m + 1) + 1]
        BY <2>6, <4>1
      <4>3. g[(m + 1) + 1] = g[m + 1] \o parts[(m + 1) + 1]
        BY <4>1 DEF IsGathering, n
      <4>4. flatten[m + 1] = g[m + 1]
        BY <1>1, <2>8, <3>1
      <4>5. flatten[(m + 1) + 1] = g[(m + 1) + 1]
        BY <4>2, <4>3, <4>4, Zenon
      <4> HIDE DEF n
      <4> QED BY <4>5
    <3>2. CASE ~((m + 1) + 1 <= n)
      BY <3>2
    <3> QED BY <3>1, <3>2
  <2>9. n - 1 \in Nat /\ (n - 1) + 1 = n
    BY <1>1, <1>3
  <2>10. n - 1 \in Good
    <3> HIDE DEF Good
    <3> QED BY <2>7, <2>8, <2>9, InductiveSet
  <2>11. flatten[n] = g[n]
    BY <2>9, <2>10
  <2> QED BY <2>1, <2>11 DEF n
<1> QED BY <1>2, <1>3

\* FlattenSeq puts the parts one after the other.
LEMMA FlattenAppends ==
    ASSUME NEW S, NEW parts \in Seq(Seq(S)), NEW part \in Seq(S)
    PROVE  /\ FlattenSeq(parts) \in Seq(S)
           /\ FlattenSeq(Append(parts, part)) = FlattenSeq(parts) \o part
<1> DEFINE n == Len(parts)
<1>1. PICK g : IsGathering(g, S, parts)
  BY GatheringExists
<1>2. n \in Nat /\ g \in [0 .. n -> Seq(S)] /\ g[n] \in Seq(S)
  <2>1. n \in Nat
    OBVIOUS
  <2>2. g \in [0 .. n -> Seq(S)]
    BY <1>1 DEF IsGathering
  <2> HIDE DEF n
  <2> QED BY <2>1, <2>2
<1>3. FlattenSeq(parts) = g[n]
  BY <1>1, FlattenIsGathered
<1>4. g[n] \o part \in Seq(S)
  BY <1>2, ConcatProperties
<1> DEFINE h == [i \in 0 .. n + 1 |-> IF i = n + 1 THEN g[n] \o part ELSE g[i]]
<1>5. Append(parts, part) \in Seq(Seq(S)) /\ Len(Append(parts, part)) = n + 1
  OBVIOUS
<1>6. IsGathering(h, S, Append(parts, part))
  <2>1. h \in [0 .. n + 1 -> Seq(S)]
    BY <1>2, <1>4
  <2>2. h[0] = Nothing
    <3>1. g[0] = Nothing
      BY <1>1 DEF IsGathering
    <3>2. 0 \in 0 .. n + 1 /\ 0 # n + 1
      BY <1>2
    <3> QED BY <3>1, <3>2
  <2>3. ASSUME NEW i \in 1 .. n + 1 PROVE h[i] = h[i - 1] \o Append(parts, part)[i]
    <3>1. CASE i = n + 1
      <4>1. Append(parts, part)[i] = part /\ i - 1 = n /\ i - 1 \in 0 .. n + 1 /\ i - 1 # n + 1
        BY <1>2, <3>1
      <4>2. h[i] = g[n] \o part /\ h[i - 1] = g[n]
        <5> HIDE DEF n
        <5> QED BY <1>2, <3>1, <4>1
      <4> HIDE DEF h
      <4> QED BY <4>1, <4>2, Zenon
    <3>2. CASE i # n + 1
      <4>1. i \in 1 .. n /\ i - 1 \in 0 .. n /\ i - 1 # n + 1
        BY <1>2, <3>2
      <4>2. Append(parts, part)[i] = parts[i]
        BY <4>1
      <4>3. h[i] = g[i] /\ h[i - 1] = g[i - 1]
        <5> HIDE DEF n
        <5> QED BY <1>2, <3>2, <4>1
      <4>4. g[i] = g[i - 1] \o parts[i]
        BY <1>1, <4>1 DEF IsGathering
      <4> HIDE DEF h
      <4> QED BY <4>2, <4>3, <4>4, Zenon
    <3> QED BY <3>1, <3>2
  <2> HIDE DEF h
  <2> QED BY <1>5, <2>1, <2>2, <2>3 DEF IsGathering
<1>7. h[n + 1] = g[n] \o part
  BY <1>2
<1> HIDE DEF h
<1> QED BY <1>2, <1>3, <1>5, <1>6, <1>7, FlattenIsGathered

LEMMA FlattenNothing == FlattenSeq(<<>>) = <<>>
  BY DEF FlattenSeq
=============================================================================
