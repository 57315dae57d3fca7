-------------------------- MODULE RequestPathProofs --------------------------
(***************************************************************************)
(* Proofs about what stands before and around a request: the quota, the    *)
(* version gate, the generated runtime, the preparation of a chat and the  *)
(* router, a call on the wire (Transport), the publishing of a model       *)
(* (ModelPublishing) and the listing of MCP tools (McpTools), each for     *)
(* every value of its constants.                                           *)
(***************************************************************************)
EXTENDS QuotaManager, VersionGate, GeneratedRuntime, RequestPreparation,
        ModelAffinityRouter, Transport, ModelPublishing, McpTools, ListLemmas

-----------------------------------------------------------------------------
(* QuotaManager.  A window may be looked at, and its counters fall to 0,   *)
(* while requests are in flight; that they may then add to it again is     *)
(* within the bound because a window whose budget is 0 lets none of them   *)
(* through.                                                                *)

\* What one window owes: its counters, and what n callers in flight can add.
Bounded(w, requests, tokens, n) ==
    /\ MaxRequests[w] # NoLimit =>
        requests + n + 1 <= MaxRequests[w] + Cardinality(Callers)
    /\ MaxTokens[w] # NoLimit =>
        tokens + MaxCost * n <= MaxTokens[w] + MaxCost * Cardinality(Callers)

QuotaInv ==
    /\ QuotaTypeOK
    /\ OverrunBounded
    /\ inFlight # {} => \A w \in Windows : MaxRequests[w] # NoLimit => MaxRequests[w] >= 1

LEMMA Products ==
    /\ \A n \in Nat : MaxCost * n \in Nat /\ MaxCost * (n + 1) = MaxCost * n + MaxCost
    /\ \A m, n \in Nat : m <= n => MaxCost * m <= MaxCost * n
<1>1. MaxCost \in Nat
  BY QuotaAssumption
<1>2. \A n \in Nat : MaxCost * n \in Nat /\ MaxCost * (n + 1) = MaxCost * n + MaxCost
  BY <1>1
<1>3. \A m, n \in Nat : m <= n => MaxCost * m <= MaxCost * n
  <2> SUFFICES ASSUME NEW m \in Nat, NEW n \in Nat, m <= n
               PROVE  MaxCost * m <= MaxCost * n
    OBVIOUS
  <2>1. n - m \in Nat /\ n = m + (n - m)
    OBVIOUS
  <2>2. \A d \in Nat : MaxCost * (m + d) = MaxCost * m + MaxCost * d /\ MaxCost * d >= 0
    BY <1>1
  <2>3. MaxCost * n = MaxCost * m + MaxCost * (n - m) /\ MaxCost * (n - m) >= 0
    BY <2>1, <2>2
  <2>4. MaxCost * n \in Nat /\ MaxCost * m \in Nat /\ MaxCost * (n - m) \in Nat
    BY <1>1, <2>1
  <2> QED
    BY <2>3, <2>4
<1> QED
  BY <1>2, <1>3

\* The callers in flight, before and after one joins or leaves them.
LEMMA CallersInFlight ==
    ASSUME inFlight \subseteq Callers
    PROVE  /\ IsFiniteSet(inFlight) /\ Cardinality(inFlight) \in Nat
           /\ Cardinality(Callers) \in Nat \ {0}
           /\ Cardinality(inFlight) <= Cardinality(Callers)
           /\ inFlight = {} <=> Cardinality(inFlight) = 0
           /\ \A c \in inFlight : Cardinality(inFlight \ {c}) = Cardinality(inFlight) - 1
           /\ \A c \in Callers \ inFlight :
                /\ Cardinality(inFlight \cup {c}) = Cardinality(inFlight) + 1
                /\ Cardinality(inFlight) + 1 <= Cardinality(Callers)
<1>1. IsFiniteSet(Callers) /\ Callers # {}
  BY QuotaAssumption
<1>2. /\ IsFiniteSet(inFlight) /\ Cardinality(inFlight) \in Nat
      /\ Cardinality(Callers) \in Nat /\ Cardinality(inFlight) <= Cardinality(Callers)
  BY <1>1, FS_Subset, FS_CardinalityType
<1>3. Cardinality(Callers) # 0 /\ (inFlight = {} <=> Cardinality(inFlight) = 0)
  BY <1>1, <1>2, FS_EmptySet
<1>4. \A c \in inFlight : Cardinality(inFlight \ {c}) = Cardinality(inFlight) - 1
  BY <1>2, FS_RemoveElement
<1>5. ASSUME NEW c \in Callers \ inFlight
      PROVE  /\ Cardinality(inFlight \cup {c}) = Cardinality(inFlight) + 1
             /\ Cardinality(inFlight) + 1 <= Cardinality(Callers)
  <2>1. Cardinality(inFlight \cup {c}) = Cardinality(inFlight) + 1
    BY <1>2, FS_AddElement
  <2>2. inFlight \cup {c} \subseteq Callers
    OBVIOUS
  <2>3. Cardinality(inFlight \cup {c}) <= Cardinality(Callers)
    BY <1>1, <2>2, FS_Subset
  <2> QED
    BY <2>1, <2>3
<1> QED
  BY <1>2, <1>3, <1>4, <1>5

LEMMA WindowTypes ==
    ASSUME QuotaTypeOK, NEW w \in Windows
    PROVE  /\ requestsMade[w] \in Nat /\ tokensUsed[w] \in Nat
           /\ Current(requestsMade, w) \in Nat /\ Current(requestsMade, w) <= requestsMade[w]
           /\ Current(tokensUsed, w) \in Nat /\ Current(tokensUsed, w) <= tokensUsed[w]
           /\ MaxRequests[w] # NoLimit => MaxRequests[w] \in Nat
           /\ MaxTokens[w] # NoLimit => MaxTokens[w] \in Nat
           /\ MaxCost * Cardinality(Callers) \in Nat
<1>1. requestsMade[w] \in Nat /\ tokensUsed[w] \in Nat
  BY DEF QuotaTypeOK
<1>2. MaxRequests[w] \in Nat \cup {NoLimit} /\ MaxTokens[w] \in Nat \cup {NoLimit}
  BY QuotaAssumption
<1>3. MaxCost * Cardinality(Callers) \in Nat
  BY QuotaAssumption, FS_CardinalityType, Products
<1> QED
  BY <1>1, <1>2, <1>3 DEF Current

LEMMA LooksAtShape ==
    ASSUME QuotaTypeOK, NEW S, NEW requests \in Nat, NEW tokens \in Nat,
           LooksAt(S, requests, tokens)
    PROVE  /\ requestsMade' \in [Windows -> Nat] /\ tokensUsed' \in [Windows -> Nat]
           /\ windowAge' \in [Windows -> Nat]
           /\ \A w \in Windows :
                /\ requestsMade'[w] = IF w \in S THEN Current(requestsMade, w) + requests
                                                 ELSE requestsMade[w]
                /\ tokensUsed'[w] = IF w \in S THEN Current(tokensUsed, w) + tokens
                                               ELSE tokensUsed[w]
<1>1. \A w \in Windows :
        /\ requestsMade[w] \in Nat /\ tokensUsed[w] \in Nat
        /\ Current(requestsMade, w) \in Nat /\ Current(tokensUsed, w) \in Nat
  BY WindowTypes
<1>2. requestsMade' =
        [w \in Windows |-> IF w \in S THEN Current(requestsMade, w) + requests ELSE requestsMade[w]]
  BY DEF LooksAt
<1>3. tokensUsed' =
        [w \in Windows |-> IF w \in S THEN Current(tokensUsed, w) + tokens ELSE tokensUsed[w]]
  BY DEF LooksAt
<1>4. windowAge' \in [Windows -> Nat]
  BY DEF LooksAt, QuotaTypeOK
<1>5. requestsMade' \in [Windows -> Nat]
  BY <1>1, <1>2
<1>6. tokensUsed' \in [Windows -> Nat]
  BY <1>1, <1>3
<1> QED
  BY <1>2, <1>3, <1>4, <1>5, <1>6

LEMMA BoundedForm ==
    OverrunBounded <=>
        \A w \in Windows : Bounded(w, requestsMade[w], tokensUsed[w], Cardinality(inFlight))
BY DEF OverrunBounded, Bounded

\* Counters that did not grow stay within the bound, those at 0 too.
LEMMA FallingCounters ==
    ASSUME QuotaInv, NEW w \in Windows, NEW n \in Nat, n <= Cardinality(inFlight),
           NEW requests \in Nat, requests <= requestsMade[w],
           NEW tokens \in Nat, tokens <= tokensUsed[w]
    PROVE  Bounded(w, requests, tokens, n)
<1>1. Bounded(w, requestsMade[w], tokensUsed[w], Cardinality(inFlight))
  BY BoundedForm DEF QuotaInv
<1>2. /\ requestsMade[w] \in Nat /\ tokensUsed[w] \in Nat
      /\ MaxRequests[w] # NoLimit => MaxRequests[w] \in Nat
      /\ MaxTokens[w] # NoLimit => MaxTokens[w] \in Nat
      /\ MaxCost * Cardinality(Callers) \in Nat
  BY WindowTypes DEF QuotaInv
<1>3. Cardinality(inFlight) \in Nat /\ Cardinality(Callers) \in Nat
  BY CallersInFlight DEF QuotaInv, QuotaTypeOK
<1>4. /\ MaxCost * n \in Nat /\ MaxCost * Cardinality(inFlight) \in Nat
      /\ MaxCost * n <= MaxCost * Cardinality(inFlight)
  BY <1>3, Products
<1>5. MaxRequests[w] # NoLimit =>
        requests + n + 1 <= MaxRequests[w] + Cardinality(Callers)
  BY <1>1, <1>2, <1>3 DEF Bounded
<1>6. MaxTokens[w] # NoLimit =>
        tokens + MaxCost * n <= MaxTokens[w] + MaxCost * Cardinality(Callers)
  BY <1>1, <1>2, <1>4 DEF Bounded
<1> QED
  BY <1>5, <1>6 DEF Bounded

LEMMA InitQuotaInv == QuotaInit => QuotaInv
<1> SUFFICES ASSUME QuotaInit
             PROVE  QuotaInv
  OBVIOUS
<1>1. QuotaTypeOK
  BY DEF QuotaInit, QuotaTypeOK, Zeroed
<1>2. inFlight = {} /\ Cardinality(inFlight) = 0
  BY FS_EmptySet DEF QuotaInit
<1>3. ASSUME NEW w \in Windows
      PROVE  Bounded(w, requestsMade[w], tokensUsed[w], Cardinality(inFlight))
  <2>1. requestsMade[w] = 0 /\ tokensUsed[w] = 0
    BY DEF QuotaInit, Zeroed
  <2>2. /\ MaxRequests[w] # NoLimit => MaxRequests[w] \in Nat
        /\ MaxTokens[w] # NoLimit => MaxTokens[w] \in Nat
        /\ MaxCost * Cardinality(Callers) \in Nat
    BY <1>1, WindowTypes
  <2>3. Cardinality(Callers) \in Nat \ {0}
    BY <1>1, CallersInFlight DEF QuotaTypeOK
  <2>4. MaxCost * 0 = 0
    BY QuotaAssumption
  <2> QED
    BY <1>2, <2>1, <2>2, <2>3, <2>4 DEF Bounded
<1> QED
  BY <1>1, <1>2, <1>3, BoundedForm DEF QuotaInv

LEMMA AdmitsInv ==
    ASSUME QuotaInv, NEW c \in Callers, NEW estimate \in 0 .. MaxCost, Admits(c, estimate)
    PROVE  QuotaInv'
<1>1. QuotaTypeOK /\ inFlight \subseteq Callers
  BY DEF QuotaInv, QuotaTypeOK
<1>2. estimate \in Nat /\ MaxCost \in Nat
  BY QuotaAssumption
<1>3. /\ LooksAt(Windows, 0, 0) /\ inFlight' = inFlight \cup {c} /\ c \in Callers \ inFlight
      /\ \A w \in Windows : Fits(w, estimate)
  BY DEF Admits
<1>4. /\ requestsMade' \in [Windows -> Nat] /\ tokensUsed' \in [Windows -> Nat]
      /\ windowAge' \in [Windows -> Nat]
      /\ \A w \in Windows : /\ requestsMade'[w] = Current(requestsMade, w) + 0
                            /\ tokensUsed'[w] = Current(tokensUsed, w) + 0
  BY <1>1, <1>3, LooksAtShape
<1>5. QuotaTypeOK'
  BY <1>1, <1>3, <1>4 DEF QuotaTypeOK
<1> DEFINE n == Cardinality(inFlight) + 1
<1>6. /\ Cardinality(inFlight') = n /\ n \in Nat /\ n <= Cardinality(Callers)
      /\ Cardinality(Callers) \in Nat
  BY <1>1, <1>3, CallersInFlight
<1> HIDE DEF n
<1>7. /\ MaxCost * n \in Nat /\ MaxCost * Cardinality(Callers) \in Nat
      /\ MaxCost * n <= MaxCost * Cardinality(Callers)
  BY <1>6, Products
<1>8. ASSUME NEW w \in Windows
      PROVE  /\ Bounded(w, requestsMade'[w], tokensUsed'[w], n)
             /\ MaxRequests[w] # NoLimit => MaxRequests[w] >= 1
  <2>1. /\ Current(requestsMade, w) \in Nat /\ Current(tokensUsed, w) \in Nat
        /\ MaxRequests[w] # NoLimit => MaxRequests[w] \in Nat
        /\ MaxTokens[w] # NoLimit => MaxTokens[w] \in Nat
    BY <1>1, WindowTypes
  <2>2. /\ MaxRequests[w] # NoLimit => Current(requestsMade, w) + 1 <= MaxRequests[w]
        /\ MaxTokens[w] # NoLimit => Current(tokensUsed, w) + estimate <= MaxTokens[w]
    BY <1>3 DEF Fits
  <2>3. requestsMade'[w] = Current(requestsMade, w) /\ tokensUsed'[w] = Current(tokensUsed, w)
    BY <1>4, <2>1
  <2>4. MaxRequests[w] # NoLimit =>
          requestsMade'[w] + n + 1 <= MaxRequests[w] + Cardinality(Callers)
    BY <1>6, <2>1, <2>2, <2>3
  <2>5. MaxTokens[w] # NoLimit =>
          tokensUsed'[w] + MaxCost * n <= MaxTokens[w] + MaxCost * Cardinality(Callers)
    BY <1>2, <1>7, <2>1, <2>2, <2>3
  <2> QED
    BY <2>1, <2>2, <2>4, <2>5 DEF Bounded
<1>9. OverrunBounded'
  BY <1>6, <1>8 DEF OverrunBounded, Bounded
<1> QED
  BY <1>5, <1>8, <1>9 DEF QuotaInv

LEMMA RecordUsageInv ==
    ASSUME QuotaInv, NEW c \in Callers, NEW tokens \in 0 .. MaxCost, RecordUsage(c, tokens)
    PROVE  QuotaInv'
<1>1. QuotaTypeOK /\ inFlight \subseteq Callers
  BY DEF QuotaInv, QuotaTypeOK
<1>2. tokens \in Nat /\ MaxCost \in Nat /\ tokens <= MaxCost
  BY QuotaAssumption
<1>3. LooksAt(Windows, 1, tokens) /\ inFlight' = inFlight \ {c} /\ c \in inFlight
  BY DEF RecordUsage
<1>4. /\ requestsMade' \in [Windows -> Nat] /\ tokensUsed' \in [Windows -> Nat]
      /\ windowAge' \in [Windows -> Nat]
      /\ \A w \in Windows : /\ requestsMade'[w] = Current(requestsMade, w) + 1
                            /\ tokensUsed'[w] = Current(tokensUsed, w) + tokens
  BY <1>1, <1>2, <1>3, LooksAtShape
<1>5. QuotaTypeOK'
  BY <1>1, <1>3, <1>4 DEF QuotaTypeOK
<1>6. PICK n \in Nat : /\ Cardinality(inFlight) = n + 1 /\ Cardinality(inFlight') = n
  <2>1. /\ Cardinality(inFlight) \in Nat /\ Cardinality(inFlight) # 0
        /\ Cardinality(inFlight') = Cardinality(inFlight) - 1
    BY <1>1, <1>3, CallersInFlight
  <2>2. Cardinality(inFlight) - 1 \in Nat
    BY <2>1
  <2> QED
    BY <2>1, <2>2
<1>7. /\ MaxCost * n \in Nat /\ MaxCost * (n + 1) = MaxCost * n + MaxCost
  BY Products
<1>8. Cardinality(Callers) \in Nat
  BY <1>1, CallersInFlight
<1>9. ASSUME NEW w \in Windows
      PROVE  Bounded(w, requestsMade'[w], tokensUsed'[w], n)
  <2>1. Bounded(w, requestsMade[w], tokensUsed[w], n + 1)
    BY <1>6, BoundedForm DEF QuotaInv
  <2>2. /\ requestsMade[w] \in Nat /\ tokensUsed[w] \in Nat
        /\ Current(requestsMade, w) \in Nat /\ Current(requestsMade, w) <= requestsMade[w]
        /\ Current(tokensUsed, w) \in Nat /\ Current(tokensUsed, w) <= tokensUsed[w]
        /\ MaxRequests[w] # NoLimit => MaxRequests[w] \in Nat
        /\ MaxTokens[w] # NoLimit => MaxTokens[w] \in Nat
        /\ MaxCost * Cardinality(Callers) \in Nat
    BY <1>1, WindowTypes
  <2>3. /\ requestsMade'[w] = Current(requestsMade, w) + 1
        /\ tokensUsed'[w] = Current(tokensUsed, w) + tokens
    BY <1>4
  <2>4. MaxRequests[w] # NoLimit =>
          requestsMade'[w] + n + 1 <= MaxRequests[w] + Cardinality(Callers)
    BY <1>8, <2>1, <2>2, <2>3 DEF Bounded
  <2>5. MaxTokens[w] # NoLimit =>
          tokensUsed'[w] + MaxCost * n <= MaxTokens[w] + MaxCost * Cardinality(Callers)
    BY <1>2, <1>7, <2>1, <2>2, <2>3 DEF Bounded
  <2> QED
    BY <2>4, <2>5 DEF Bounded
<1>10. OverrunBounded'
  BY <1>6, <1>9 DEF OverrunBounded, Bounded
<1>11. \A w \in Windows : MaxRequests[w] # NoLimit => MaxRequests[w] >= 1
  BY <1>3 DEF QuotaInv
<1> QED
  BY <1>5, <1>10, <1>11 DEF QuotaInv

\* Steps that add nothing to a counter and no caller to those in flight.
LEMMA LesserInv ==
    ASSUME QuotaInv, QuotaTypeOK', inFlight' \subseteq inFlight,
           \A w \in Windows : /\ requestsMade'[w] <= requestsMade[w]
                              /\ tokensUsed'[w] <= tokensUsed[w]
    PROVE  QuotaInv'
<1>1. inFlight \subseteq Callers /\ IsFiniteSet(inFlight)
  BY CallersInFlight DEF QuotaInv, QuotaTypeOK
<1>2. Cardinality(inFlight') \in Nat /\ Cardinality(inFlight') <= Cardinality(inFlight)
  BY <1>1, FS_Subset, FS_CardinalityType
<1>3. \A w \in Windows : requestsMade'[w] \in Nat /\ tokensUsed'[w] \in Nat
  BY DEF QuotaTypeOK
<1>4. \A w \in Windows : Bounded(w, requestsMade'[w], tokensUsed'[w], Cardinality(inFlight'))
  BY <1>2, <1>3, FallingCounters
<1>5. OverrunBounded'
  BY <1>4 DEF OverrunBounded, Bounded
<1> QED
  BY <1>5 DEF QuotaInv

LEMMA NextQuotaInv == QuotaInv /\ [QuotaNext]_quotaVars => QuotaInv'
<1> SUFFICES ASSUME QuotaInv, [QuotaNext]_quotaVars
             PROVE  QuotaInv'
  OBVIOUS
<1>1. /\ QuotaTypeOK
      /\ requestsMade \in [Windows -> Nat] /\ tokensUsed \in [Windows -> Nat]
      /\ windowAge \in [Windows -> Nat] /\ inFlight \subseteq Callers
  BY DEF QuotaInv, QuotaTypeOK
<1>2. ASSUME NEW S, LooksAt(S, 0, 0), UNCHANGED inFlight
      PROVE  QuotaInv'
  <2>1. /\ requestsMade' \in [Windows -> Nat] /\ tokensUsed' \in [Windows -> Nat]
        /\ windowAge' \in [Windows -> Nat]
        /\ \A w \in Windows :
            /\ requestsMade'[w] = IF w \in S THEN Current(requestsMade, w) + 0 ELSE requestsMade[w]
            /\ tokensUsed'[w] = IF w \in S THEN Current(tokensUsed, w) + 0 ELSE tokensUsed[w]
    BY <1>1, <1>2, LooksAtShape
  <2>2. \A w \in Windows :
          /\ requestsMade[w] \in Nat /\ tokensUsed[w] \in Nat
          /\ Current(requestsMade, w) \in Nat /\ Current(requestsMade, w) <= requestsMade[w]
          /\ Current(tokensUsed, w) \in Nat /\ Current(tokensUsed, w) <= tokensUsed[w]
    BY <1>1, WindowTypes
  <2>3. \A w \in Windows : requestsMade'[w] <= requestsMade[w] /\ tokensUsed'[w] <= tokensUsed[w]
    BY <2>1, <2>2
  <2>4. QuotaTypeOK'
    BY <1>1, <1>2, <2>1 DEF QuotaTypeOK
  <2> QED
    BY <1>2, <2>3, <2>4, LesserInv
<1>3. ASSUME NEW c \in Callers, NEW tokens \in 0 .. MaxCost,
             Admits(c, tokens) \/ RecordUsage(c, tokens)
      PROVE  QuotaInv'
  BY <1>3, AdmitsInv, RecordUsageInv
<1>4. ASSUME NEW estimate \in 0 .. MaxCost, Refuses(estimate)
      PROVE  QuotaInv'
  BY <1>2, <1>4 DEF Refuses
<1>5. CASE Status
  BY <1>2, <1>5 DEF Status
<1>6. ASSUME NEW c \in Callers, RequestFails(c)
      PROVE  QuotaInv'
  <2>1. /\ inFlight' \subseteq inFlight
        /\ UNCHANGED <<requestsMade, tokensUsed, windowAge>>
    BY <1>6 DEF RequestFails
  <2> QED
    BY <1>1, <2>1, LesserInv DEF QuotaTypeOK
<1>7. ASSUME NEW S, ResetWindows(S)
      PROVE  QuotaInv'
  <2>1. /\ requestsMade' = [w \in Windows |-> IF w \in S THEN 0 ELSE requestsMade[w]]
        /\ tokensUsed' = [w \in Windows |-> IF w \in S THEN 0 ELSE tokensUsed[w]]
        /\ windowAge' = [w \in Windows |-> IF w \in S THEN 0 ELSE windowAge[w]]
        /\ inFlight' = inFlight
    BY <1>7 DEF ResetWindows
  <2>2. QuotaTypeOK'
    BY <1>1, <2>1 DEF QuotaTypeOK
  <2>3. \A w \in Windows : requestsMade'[w] <= requestsMade[w] /\ tokensUsed'[w] <= tokensUsed[w]
    BY <1>1, <2>1
  <2> QED
    BY <2>1, <2>2, <2>3, LesserInv
<1>8. CASE QuotaTick
  <2>1. /\ windowAge' = [w \in Windows |-> IF Expired(w) THEN windowAge[w] ELSE windowAge[w] + 1]
        /\ UNCHANGED <<requestsMade, tokensUsed, inFlight>>
    BY <1>8 DEF QuotaTick
  <2>2. QuotaTypeOK'
    BY <1>1, <2>1 DEF QuotaTypeOK
  <2> QED
    BY <1>1, <2>1, <2>2, LesserInv
<1>9. CASE UNCHANGED quotaVars
  BY <1>9 DEF quotaVars, QuotaInv, QuotaTypeOK, OverrunBounded
<1> QED
  BY <1>3, <1>4, <1>5, <1>6, <1>7, <1>8, <1>9 DEF QuotaNext

\* Whatever the windows and however the requests overlap, a budget is overrun
\* by no more than what the callers in flight at once can add, and by nothing
\* with a single caller.
THEOREM QuotaOverrun == QuotaSpec => []OverrunBounded
<1>1. QuotaInit => QuotaInv
  BY InitQuotaInv
<1>2. QuotaInv /\ [QuotaNext]_quotaVars => QuotaInv'
  BY NextQuotaInv
<1>3. QuotaInv => OverrunBounded
  BY DEF QuotaInv
<1> QED
  BY <1>1, <1>2, <1>3, PTL DEF QuotaSpec

-----------------------------------------------------------------------------
(* VersionGate.  Which probe a call awaits does not matter; what does is   *)
(* that the probe the runtime caches is its own, so that a client's probe  *)
(* that is out, or has its answer, is the client's cached one.             *)

GateInv ==
    /\ versionProbes \in Seq([by : {"client", "runtime"}, is : {"pending", "ok", "failed"},
                              from : Servers \cup {NoServer}])
    /\ clientCache \in {NoProbe} \cup DOMAIN versionProbes
    /\ runtimeCache \in {NoProbe} \cup DOMAIN versionProbes
    /\ runtimeCache # NoProbe => versionProbes[runtimeCache].by = "runtime"
    /\ ProbesAreShared

VersionProbe == [by : {"client", "runtime"}, is : {"pending", "ok", "failed"},
                 from : Servers \cup {NoServer}]

\* A probe is sent by the gate whose cache is empty.
LEMMA ProbeIsSent ==
    ASSUME GateInv, NEW who \in {"client", "runtime"},
           versionProbes' = Append(versionProbes, Probe(who)),
           \/ who = "client" /\ clientCache = NoProbe
              /\ clientCache' = Len(versionProbes) + 1 /\ runtimeCache' = runtimeCache
           \/ who = "runtime" /\ runtimeCache = NoProbe
              /\ runtimeCache' = Len(versionProbes) + 1 /\ clientCache' = clientCache
    PROVE  GateInv'
<1> DEFINE n == Len(versionProbes)
<1>1. versionProbes \in Seq(VersionProbe) /\ n \in Nat /\ DOMAIN versionProbes = 1 .. n
  BY DEF GateInv, VersionProbe
<1>2. Probe(who) \in VersionProbe /\ Probe(who).is = "pending" /\ Probe(who).by = who
  BY DEF Probe, VersionProbe
<1>3. /\ versionProbes' \in Seq(VersionProbe) /\ DOMAIN versionProbes' = 1 .. n + 1
      /\ versionProbes'[n + 1] = Probe(who)
      /\ \A p \in 1 .. n : versionProbes'[p] = versionProbes[p]
  BY <1>1, <1>2
<1> HIDE DEF n
<1>4. NoProbe \notin Nat
  BY GateAssumption
<1>5. /\ clientCache \in {NoProbe} \cup 1 .. n /\ runtimeCache \in {NoProbe} \cup 1 .. n
      /\ runtimeCache # NoProbe => versionProbes[runtimeCache].by = "runtime"
      /\ \A p \in 1 .. n : versionProbes[p].is = "pending" => p \in {clientCache, runtimeCache}
      /\ \A p \in 1 .. n :
          versionProbes[p].by = "client" /\ versionProbes[p].is = "ok" => clientCache = p
  BY <1>1 DEF GateInv, ProbesAreShared
<1>6. CASE who = "client" /\ clientCache = NoProbe
           /\ clientCache' = n + 1 /\ runtimeCache' = runtimeCache
  <2>1. runtimeCache' # NoProbe => versionProbes'[runtimeCache'].by = "runtime"
    BY <1>3, <1>5, <1>6
  <2>2. \A p \in 1 .. n : p # NoProbe
    BY <1>1, <1>4
  <2>3. \A p \in 1 .. n + 1 : versionProbes'[p].is = "pending" => p \in {clientCache', runtimeCache'}
    BY <1>1, <1>3, <1>5, <1>6, <2>2
  <2>4. \A p \in 1 .. n + 1 :
          versionProbes'[p].by = "client" /\ versionProbes'[p].is = "ok" => clientCache' = p
    BY <1>1, <1>2, <1>3, <1>5, <1>6, <2>2
  <2>5. clientCache' \in {NoProbe} \cup 1 .. n + 1 /\ runtimeCache' \in {NoProbe} \cup 1 .. n + 1
    BY <1>1, <1>5, <1>6
  <2> QED
    BY <1>3, <2>1, <2>3, <2>4, <2>5 DEF GateInv, ProbesAreShared, VersionProbe
<1>7. CASE who = "runtime" /\ runtimeCache = NoProbe
           /\ runtimeCache' = n + 1 /\ clientCache' = clientCache
  <2>1. versionProbes'[runtimeCache'].by = "runtime"
    BY <1>2, <1>3, <1>7
  <2>2. \A p \in 1 .. n : p # NoProbe
    BY <1>1, <1>4
  <2>3. \A p \in 1 .. n + 1 : versionProbes'[p].is = "pending" => p \in {clientCache', runtimeCache'}
    BY <1>1, <1>3, <1>5, <1>7, <2>2
  <2>4. \A p \in 1 .. n + 1 :
          versionProbes'[p].by = "client" /\ versionProbes'[p].is = "ok" => clientCache' = p
    BY <1>1, <1>2, <1>3, <1>5, <1>7
  <2>5. clientCache' \in {NoProbe} \cup 1 .. n + 1 /\ runtimeCache' \in {NoProbe} \cup 1 .. n + 1
    BY <1>1, <1>5, <1>7
  <2> QED
    BY <1>3, <2>1, <2>3, <2>4, <2>5 DEF GateInv, ProbesAreShared, VersionProbe
<1> QED
  BY <1>6, <1>7 DEF n

LEMMA RuntimeGateInv ==
    ASSUME GateInv, NEW S, AtRuntimeGate(S), clientCache' = clientCache
    PROVE  GateInv'
<1>1. CASE S # {} /\ runtimeCache = NoProbe
  BY <1>1, ProbeIsSent DEF AtRuntimeGate
<1>2. CASE ~(S # {} /\ runtimeCache = NoProbe)
  BY <1>2 DEF AtRuntimeGate, GateInv, ProbesAreShared
<1> QED
  BY <1>1, <1>2

LEMMA CloudGateInv ==
    ASSUME GateInv, NEW S, AtCloudGate(S)
    PROVE  GateInv'
<1>1. CASE clientCache = NoProbe
  BY <1>1, ProbeIsSent DEF AtCloudGate
<1>2. CASE clientCache # NoProbe
  BY <1>2 DEF AtCloudGate, GateInv, ProbesAreShared
<1> QED
  BY <1>1, <1>2

LEMMA ProbeEndsInv ==
    ASSUME GateInv, NEW p \in DOMAIN versionProbes, NEW s \in Servers \cup {NoServer},
           NEW outcome \in {"ok", "failed"}, VersionProbeEnds(p, outcome, s)
    PROVE  GateInv'
<1>1. /\ versionProbes \in Seq(VersionProbe) /\ Len(versionProbes) \in Nat
      /\ DOMAIN versionProbes = 1 .. Len(versionProbes)
      /\ versionProbes[p] \in VersionProbe
  <2>1. versionProbes \in Seq(VersionProbe)
    BY DEF GateInv, VersionProbe
  <2> QED
    BY <2>1
<1>2. /\ versionProbes[p].is = "pending"
      /\ versionProbes' = [versionProbes EXCEPT ![p] = [versionProbes[p] EXCEPT !.is = outcome, !.from = s]]
      /\ UNCHANGED <<clientCache, runtimeCache>>
  BY <1>1 DEF VersionProbeEnds
<1>3. [versionProbes[p] EXCEPT !.is = outcome, !.from = s] \in VersionProbe
  BY <1>1 DEF VersionProbe
<1>4. /\ versionProbes' \in Seq(VersionProbe) /\ DOMAIN versionProbes' = DOMAIN versionProbes
      /\ versionProbes'[p] = [versionProbes[p] EXCEPT !.is = outcome, !.from = s]
      /\ \A q \in DOMAIN versionProbes : q # p => versionProbes'[q] = versionProbes[q]
  BY <1>1, <1>2, <1>3
<1>5. versionProbes'[p].is = outcome /\ versionProbes'[p].by = versionProbes[p].by
  BY <1>1, <1>4 DEF VersionProbe
<1>6. /\ clientCache \in {NoProbe} \cup DOMAIN versionProbes
      /\ runtimeCache \in {NoProbe} \cup DOMAIN versionProbes
      /\ runtimeCache # NoProbe => versionProbes[runtimeCache].by = "runtime"
      /\ \A q \in DOMAIN versionProbes :
          versionProbes[q].is = "pending" => q \in {clientCache, runtimeCache}
      /\ \A q \in DOMAIN versionProbes :
          versionProbes[q].by = "client" /\ versionProbes[q].is = "ok" => clientCache = q
  BY DEF GateInv, ProbesAreShared
<1>7. runtimeCache' # NoProbe => versionProbes'[runtimeCache'].by = "runtime"
  BY <1>2, <1>4, <1>5, <1>6
<1>8. \A q \in DOMAIN versionProbes :
        versionProbes'[q].is = "pending" => q \in {clientCache, runtimeCache}
  BY <1>4, <1>5, <1>6
<1>9. \A q \in DOMAIN versionProbes :
        versionProbes'[q].by = "client" /\ versionProbes'[q].is = "ok" => clientCache = q
  <2> SUFFICES ASSUME NEW q \in DOMAIN versionProbes,
                      versionProbes'[q].by = "client", versionProbes'[q].is = "ok"
               PROVE  clientCache = q
    OBVIOUS
  <2>1. CASE q = p
    <3>1. versionProbes[p].by = "client"
      BY <1>5, <2>1
    <3>2. p \in {clientCache, runtimeCache}
      BY <1>2, <1>6
    <3>3. p # NoProbe
      BY <1>1, GateAssumption
    <3> QED
      BY <1>6, <2>1, <3>1, <3>2, <3>3
  <2>2. CASE q # p
    BY <1>4, <1>6, <2>2
  <2> QED
    BY <2>1, <2>2
<1> QED
  BY <1>2, <1>4, <1>6, <1>7, <1>8, <1>9 DEF GateInv, ProbesAreShared, VersionProbe

LEMMA LeavesCloudGateInv ==
    ASSUME GateInv, NEW d \in Deciders, LeavesCloudGate(d)
    PROVE  GateInv'
<1> DEFINE p == call[d].awaits
<1>1. CASE UNCHANGED <<versionProbes, clientCache, runtimeCache>>
  BY <1>1 DEF GateInv, ProbesAreShared
<1>2. CASE AtRuntimeGate({d}) /\ UNCHANGED clientCache
  BY <1>2, RuntimeGateInv
<1>3. CASE AtRuntimeGate({d}) /\ versionProbes[p].is = "failed" /\ Forgotten(p)
  <2>1. CASE clientCache # p
    BY <1>3, <2>1, RuntimeGateInv DEF Forgotten
  <2>2. CASE clientCache = p
    <3>1. clientCache' = NoProbe
      BY <1>3, <2>2 DEF Forgotten
    <3> DEFINE n == Len(versionProbes)
    <3>2. /\ versionProbes \in Seq(VersionProbe) /\ n \in Nat /\ DOMAIN versionProbes = 1 .. n
          /\ NoProbe \notin Nat
          /\ runtimeCache \in {NoProbe} \cup 1 .. n
          /\ runtimeCache # NoProbe => versionProbes[runtimeCache].by = "runtime"
      BY GateAssumption DEF GateInv, VersionProbe
    <3>3. \A q \in 1 .. n : versionProbes[q].is = "pending" => q = runtimeCache
      <4> SUFFICES ASSUME NEW q \in 1 .. n, versionProbes[q].is = "pending", q = clientCache
                   PROVE  FALSE
        BY <3>2 DEF GateInv, ProbesAreShared
      <4> QED
        BY <1>3, <2>2
    <3>4. \A q \in 1 .. n : ~(versionProbes[q].by = "client" /\ versionProbes[q].is = "ok")
      <4> SUFFICES ASSUME NEW q \in 1 .. n,
                          versionProbes[q].by = "client", versionProbes[q].is = "ok"
                   PROVE  FALSE
        OBVIOUS
      <4>1. clientCache = q
        BY <3>2 DEF GateInv, ProbesAreShared
      <4> QED
        BY <1>3, <2>2, <4>1
    <3> HIDE DEF n
    <3>5. CASE runtimeCache = NoProbe
      <4>1. /\ versionProbes' = Append(versionProbes, Probe("runtime"))
            /\ runtimeCache' = n + 1
        BY <1>3, <3>5 DEF AtRuntimeGate, n
      <4>2. /\ Probe("runtime") \in VersionProbe
            /\ Probe("runtime").is = "pending" /\ Probe("runtime").by = "runtime"
        BY DEF Probe, VersionProbe
      <4>3. /\ versionProbes' \in Seq(VersionProbe) /\ DOMAIN versionProbes' = 1 .. n + 1
            /\ versionProbes'[n + 1] = Probe("runtime")
            /\ \A q \in 1 .. n : versionProbes'[q] = versionProbes[q]
        BY <3>2, <4>1, <4>2 DEF n
      <4>4. \A q \in 1 .. n + 1 : versionProbes'[q].is = "pending" => q = runtimeCache'
        BY <3>2, <3>3, <3>5, <4>1, <4>3
      <4>5. \A q \in 1 .. n + 1 :
              ~(versionProbes'[q].by = "client" /\ versionProbes'[q].is = "ok")
        BY <3>2, <3>4, <4>2, <4>3
      <4>6. runtimeCache' \in 1 .. n + 1 /\ versionProbes'[runtimeCache'].by = "runtime"
        BY <3>2, <4>1, <4>2, <4>3
      <4> QED
        BY <3>1, <4>3, <4>4, <4>5, <4>6 DEF GateInv, ProbesAreShared, VersionProbe
    <3>6. CASE runtimeCache # NoProbe
      <4>1. UNCHANGED <<versionProbes, runtimeCache>>
        BY <1>3, <3>6 DEF AtRuntimeGate
      <4> QED
        BY <3>1, <3>2, <3>3, <3>4, <4>1 DEF GateInv, ProbesAreShared, VersionProbe
    <3> QED
      BY <3>5, <3>6
  <2> QED
    BY <2>1, <2>2
<1> QED
  BY <1>1, <1>2, <1>3 DEF LeavesCloudGate

\* However the calls meet the two gates and the probes end, a version request
\* that is out is the one the calls await, and a client that has its answer
\* keeps it.
THEOREM ProbesShared == GateSpec => []ProbesAreShared
<1>1. GateInit => GateInv
  BY DEF GateInit, GateInv, ProbesAreShared
<1>2. GateInv /\ [GateNext]_gateVars => GateInv'
  <2> SUFFICES ASSUME GateInv, [GateNext]_gateVars
               PROVE  GateInv'
    OBVIOUS
  <2>1. ASSUME NEW S \in SUBSET Deciders, NEW cloud \in BOOLEAN, Begins(S, cloud)
        PROVE  GateInv'
    BY <2>1, RuntimeGateInv, CloudGateInv DEF Begins
  <2>2. ASSUME NEW p \in DOMAIN versionProbes, NEW s \in Servers \cup {NoServer},
               VersionProbeEnds(p, "ok", s) \/ VersionProbeEnds(p, "failed", s)
        PROVE  GateInv'
    BY <2>2, ProbeEndsInv
  <2>3. ASSUME NEW d \in Deciders, LeavesCloudGate(d)
        PROVE  GateInv'
    BY <2>3, LeavesCloudGateInv
  <2>4. CASE UNCHANGED <<versionProbes, clientCache, runtimeCache>>
    BY <2>4 DEF GateInv, ProbesAreShared
  <2> QED
    BY <2>1, <2>2, <2>3, <2>4 DEF GateNext, LeavesRuntimeGate, RequestEnds, GivesUp,
                                  ServersChange, gateVars
<1>3. GateInv => ProbesAreShared
  BY DEF GateInv
<1> QED
  BY <1>1, <1>2, <1>3, PTL DEF GateSpec

-----------------------------------------------------------------------------
(* GeneratedRuntime.                                                       *)

\* The requests the executor holds.
Held == {i \in Invocations : At(i, {"sent"}) /\ invocation[i].operation # "cloud"}

RuntimeInv ==
    /\ RuntimeTypeOK
    /\ scopes = Held
    /\ GeneratedCallsGiveBack

\* Requests leave the executor: their slots go back, and a connection stays
\* open only where the headers of a stream were handed over.
LEMMA GivingBack ==
    ASSUME RuntimeInv, NEW S \in SUBSET Invocations, \A i \in S : At(i, {"sent"}),
           NEW place \in {"handed over", "over", "failed"},
           NEW connection \in {"open", "closed"},
           connection = "open" => place = "handed over",
           Becomes(S, place, connection), Unscoped(S)
    PROVE  RuntimeInv'
<1>1. /\ RuntimeTypeOK /\ scopes = Held /\ slotsHeld = Cardinality(Held)
      /\ IsFiniteSet(Held) /\ IsFiniteSet(S)
  <2>1. Held \subseteq Invocations
    BY DEF Held
  <2> QED
    BY <2>1, InvocationsAssumption, FS_Subset DEF RuntimeInv, GeneratedCallsGiveBack, Held
<1>2. /\ invocation' \in [Invocations -> [operation : Operations, connection : {"none", "open", "closed"},
             at : {"idle", "sent", "handed over", "reading", "dropped", "over", "failed"}]]
      /\ \A i \in Invocations \ S : invocation'[i] = invocation[i]
      /\ \A i \in S : /\ invocation'[i].at = place /\ invocation'[i].connection = connection
                      /\ invocation'[i].operation = invocation[i].operation
  BY <1>1 DEF Becomes, RuntimeTypeOK
<1>3. Held' = Held \ S
  BY <1>2 DEF Held, At
<1>4. Cardinality(Held \ S) = Cardinality(Held) - Cardinality(Held \cap S)
  BY <1>1, FS_Difference
<1>5. Cardinality(Held') \in Nat
  BY <1>1, <1>3, FS_Difference, FS_CardinalityType
<1>6. scopes' = Held' /\ slotsHeld' = Cardinality(Held')
  <2>1. S \cap Held = Held \cap S
    OBVIOUS
  <2> QED
    BY <1>1, <1>3, <1>4, <2>1 DEF Unscoped
<1>7. \A i \in Invocations :
        invocation'[i].connection = "open" /\ invocation'[i].at # "sent" =>
            invocation'[i].at \in {"handed over", "reading", "dropped"}
  BY <1>2 DEF RuntimeInv, GeneratedCallsGiveBack, At
<1>8. Held' \subseteq Invocations
  BY DEF Held
<1> QED
  BY <1>2, <1>5, <1>6, <1>7, <1>8 DEF RuntimeInv, RuntimeTypeOK, GeneratedCallsGiveBack, Held, At

\* A call moves on that the executor does not hold.
LEMMA NotHeld ==
    ASSUME RuntimeInv, NEW i \in Invocations, ~At(i, {"sent"}),
           NEW place \in {"reading", "dropped", "over", "failed"},
           NEW connection \in {"none", "open", "closed"},
           connection = "open" => place \in {"reading", "dropped"},
           Becomes({i}, place, connection), UNCHANGED <<scopes, slotsHeld>>
    PROVE  RuntimeInv'
<1>1. RuntimeTypeOK /\ scopes = Held /\ slotsHeld = Cardinality(Held)
  BY DEF RuntimeInv, GeneratedCallsGiveBack, Held
<1>2. /\ invocation' \in [Invocations -> [operation : Operations, connection : {"none", "open", "closed"},
             at : {"idle", "sent", "handed over", "reading", "dropped", "over", "failed"}]]
      /\ \A j \in Invocations \ {i} : invocation'[j] = invocation[j]
      /\ invocation'[i].at = place /\ invocation'[i].connection = connection
  BY <1>1 DEF Becomes, RuntimeTypeOK
<1>3. Held' = Held
  BY <1>2 DEF Held, At
<1>4. \A j \in Invocations :
        invocation'[j].connection = "open" /\ invocation'[j].at # "sent" =>
            invocation'[j].at \in {"handed over", "reading", "dropped"}
  BY <1>2 DEF RuntimeInv, GeneratedCallsGiveBack, At
<1> QED
  BY <1>1, <1>2, <1>3, <1>4 DEF RuntimeInv, RuntimeTypeOK, GeneratedCallsGiveBack, Held, At

LEMMA InvokeInv ==
    ASSUME RuntimeInv, NEW i \in Invocations, NEW operation \in Operations, Invoke(i, operation)
    PROVE  RuntimeInv'
<1>1. /\ RuntimeTypeOK /\ scopes = Held /\ slotsHeld = Cardinality(Held)
      /\ At(i, {"idle"}) /\ IsFiniteSet(Held)
  <2>1. Held \subseteq Invocations
    BY DEF Held
  <2> QED
    BY <2>1, InvocationsAssumption, FS_Subset DEF RuntimeInv, GeneratedCallsGiveBack, Held, Invoke
<1>2. /\ invocation' \in [Invocations -> [operation : Operations, connection : {"none", "open", "closed"},
             at : {"idle", "sent", "handed over", "reading", "dropped", "over", "failed"}]]
      /\ \A j \in Invocations \ {i} : invocation'[j] = invocation[j]
      /\ invocation'[i].at = "sent" /\ invocation'[i].operation = operation
  BY <1>1 DEF Invoke, RuntimeTypeOK
<1>3. i \notin Held
  BY <1>1 DEF Held, At
<1>4. Held' = IF operation = "cloud" THEN Held ELSE Held \cup {i}
  <2>1. \A j \in Invocations \ {i} :
          /\ invocation'[j].at = "sent" <=> invocation[j].at = "sent"
          /\ invocation'[j].operation = invocation[j].operation
    <3>1. \A j \in Invocations \ {i} : invocation'[j] = invocation[j]
      BY <1>2
    <3> QED
      BY <3>1
  <2>3. \A j : j \in Held' <=> j \in Held \/ (j = i /\ operation # "cloud")
    <3>1. \A j \in Invocations \ {i} : j \in Held' <=> j \in Held
      BY <2>1 DEF Held, At
    <3>2. i \in Held' <=> operation # "cloud"
      BY <1>2 DEF Held, At
    <3>3. \A j : j \in Held \/ j \in Held' => j \in Invocations
      BY DEF Held
    <3> QED
      BY <1>3, <3>1, <3>2, <3>3
  <2> QED
    BY <2>3
<1>5. /\ Cardinality(Held) \in Nat /\ Cardinality(Held \cup {i}) = Cardinality(Held) + 1
  BY <1>1, <1>3, FS_AddElement, FS_CardinalityType
<1>6. scopes' = Held' /\ slotsHeld' = Cardinality(Held') /\ slotsHeld' \in Nat
  <2>1. CASE operation = "cloud"
    BY <1>1, <1>4, <1>5, <2>1 DEF Invoke
  <2>2. CASE operation # "cloud"
    <3>1. scopes' = scopes \cup {i} /\ slotsHeld' = slotsHeld + 1
      BY <2>2 DEF Invoke
    <3>2. Held' = Held \cup {i}
      BY <1>4, <2>2
    <3> QED
      BY <1>1, <1>5, <3>1, <3>2
  <2> QED
    BY <2>1, <2>2
<1>7. \A j \in Invocations :
        invocation'[j].connection = "open" /\ invocation'[j].at # "sent" =>
            invocation'[j].at \in {"handed over", "reading", "dropped"}
  <2> SUFFICES ASSUME NEW j \in Invocations,
                      invocation'[j].connection = "open", invocation'[j].at # "sent"
               PROVE  invocation'[j].at \in {"handed over", "reading", "dropped"}
    OBVIOUS
  <2>1. j # i
    BY <1>2
  <2>2. invocation'[j] = invocation[j]
    BY <1>2, <2>1
  <2> QED
    BY <2>2 DEF RuntimeInv, GeneratedCallsGiveBack, At
<1>8. Held' \subseteq Invocations
  BY DEF Held
<1> QED
  BY <1>2, <1>6, <1>7, <1>8 DEF RuntimeInv, RuntimeTypeOK, GeneratedCallsGiveBack, Held, At

\* A generated request holds a slot while it is on its way, and nobody takes
\* it back twice, however answers, errors and destroy() follow one another.
THEOREM GeneratedSlots == RuntimeSpec => []GeneratedCallsGiveBack
<1>1. RuntimeInit => RuntimeInv
  <2> SUFFICES ASSUME RuntimeInit
               PROVE  RuntimeInv
    OBVIOUS
  <2>1. invocation = [i \in Invocations |->
            [operation |-> "json", connection |-> "none", at |-> "idle"]]
        /\ scopes = {} /\ slotsHeld = 0
    BY DEF RuntimeInit
  <2>2. RuntimeTypeOK
    BY <2>1 DEF RuntimeTypeOK, Operations
  <2>3. Held = {}
    BY <2>1 DEF Held, At
  <2>4. slotsHeld = Cardinality(Held)
    BY <2>1, <2>3, FS_EmptySet
  <2> QED
    BY <2>1, <2>2, <2>3, <2>4 DEF RuntimeInv, GeneratedCallsGiveBack, Held
<1>2. RuntimeInv /\ [RuntimeNext]_runtimeVars => RuntimeInv'
  <2> SUFFICES ASSUME RuntimeInv, [RuntimeNext]_runtimeVars
               PROVE  RuntimeInv'
    OBVIOUS
  <2>1. ASSUME NEW i \in Invocations, IsRejected(i) \/ BeginsToRead(i) \/ StopsReading(i) \/ IsDropped(i)
        PROVE  RuntimeInv'
    <3>1. ~At(i, {"sent"})
      BY <2>1 DEF IsRejected, BeginsToRead, StopsReading, IsDropped, At
    <3> QED
      BY <2>1, <3>1, NotHeld DEF IsRejected, BeginsToRead, StopsReading, IsDropped
  <2>2. ASSUME NEW i \in Invocations, NEW operation \in Operations, Invoke(i, operation)
        PROVE  RuntimeInv'
    BY <2>2, InvokeInv
  <2>3. ASSUME NEW i \in Invocations, JsonArrives(i) \/ HeadersArrive(i) \/ SendingFails(i)
        PROVE  RuntimeInv'
    <3>1. \A j \in {i} : At(j, {"sent"})
      BY <2>3 DEF JsonArrives, HeadersArrive, SendingFails
    <3> QED
      BY <2>3, <3>1, GivingBack DEF JsonArrives, HeadersArrive, SendingFails
  <2>4. CASE DestroyGenerated
    <3>1. scopes \in SUBSET Invocations /\ \A i \in scopes : At(i, {"sent"})
      BY DEF RuntimeInv, Held
    <3> QED
      BY <2>4, <3>1, GivingBack DEF DestroyGenerated
  <2>5. CASE UNCHANGED runtimeVars
    BY <2>5 DEF runtimeVars, RuntimeInv, RuntimeTypeOK, Held, GeneratedCallsGiveBack, At
  <2> QED
    BY <2>1, <2>2, <2>3, <2>4, <2>5 DEF RuntimeNext
<1>3. RuntimeInv => GeneratedCallsGiveBack
  BY DEF RuntimeInv
<1> QED
  BY <1>1, <1>2, <1>3, PTL DEF RuntimeSpec

-----------------------------------------------------------------------------
(* RequestPreparation, the images: whatever sends a fetch on its way looks *)
(* at the signal first, and the signal ends those that are on their way.   *)

ImageStates == [kind : {"inline", "url", "file"},
    at : {"waiting", "checking", "fetching", "reading", "loading", "done"} \cup ImageErrors,
    hops : 0 .. MaxRedirects, size : 0 .. MaxImageSize, timedOut : BOOLEAN]

FetchInv ==
    /\ image \in [Images -> ImageStates]
    /\ caller \in {"live", "aborted"}
    /\ AbortStopsEveryFetch

\* One image moves on.
LEMMA OneImageMoves ==
    ASSUME FetchInv, NEW i \in Images, NEW state \in ImageStates, caller' = caller,
           caller = "aborted" => state.at \notin {"fetching", "reading"},
           image' = [image EXCEPT ![i] = state]
    PROVE  FetchInv'
<1>1. image' \in [Images -> ImageStates]
  BY DEF FetchInv
<1>2. image'[i] = state /\ \A j \in Images \ {i} : image'[j] = image[j]
  BY DEF FetchInv
<1>3. AbortStopsEveryFetch'
  <2> SUFFICES ASSUME caller = "aborted", NEW j \in Images
               PROVE  image'[j].at \notin {"fetching", "reading"}
    BY DEF AbortStopsEveryFetch
  <2>1. CASE j = i
    BY <1>2, <2>1
  <2>2. CASE j # i
    <3>1. image'[j] = image[j]
      BY <1>2, <2>2
    <3> QED
      BY <3>1 DEF FetchInv, AbortStopsEveryFetch
  <2> QED
    BY <2>1, <2>2
<1> QED
  BY <1>1, <1>3 DEF FetchInv

LEMMA ImageTurnsInv ==
    ASSUME FetchInv, NEW i \in Images,
           NEW turn \in {"fetching", "reading", "done"} \cup ImageErrors, ImageTurns(i, turn),
           caller = "aborted" => turn \notin {"fetching", "reading"}
    PROVE  FetchInv'
<1> DEFINE state == [image[i] EXCEPT !.at = turn]
<1>1. image[i] \in ImageStates
  BY DEF FetchInv
<1>2. state \in ImageStates /\ state.at = turn
  BY <1>1 DEF ImageStates
<1>3. image' = [image EXCEPT ![i] = state] /\ caller' = caller
  BY DEF ImageTurns
<1> HIDE DEF state
<1> QED
  BY <1>2, <1>3, OneImageMoves

LEMMA FetchSteps ==
    ASSUME FetchInv, NEW i \in Images,
           FileLoads(i) \/ ChecksOut(i) \/ ImageAnswers(i) \/ ImageChunk(i) \/ ImageTimerFires(i)
    PROVE  FetchInv'
<1>1. /\ image[i] \in ImageStates /\ caller \in {"live", "aborted"}
      /\ caller = "aborted" => image[i].at \notin {"fetching", "reading"}
  BY DEF FetchInv, AbortStopsEveryFetch
<1>2. CASE FileLoads(i)
  BY <1>2, ImageTurnsInv DEF FileLoads, ImageErrors
<1>3. CASE ChecksOut(i)
  BY <1>3, ImageTurnsInv DEF ChecksOut, ImageErrors, Cause
<1>4. CASE ImageAnswers(i)
  <2>1. image[i].at = "fetching" /\ caller # "aborted"
    BY <1>1, <1>4 DEF ImageAnswers
  <2>2. CASE ImageTurns(i, "reading") \/ ImageTurns(i, "image_error")
    BY <2>1, <2>2, ImageTurnsInv DEF ImageErrors
  <2>3. CASE /\ image[i].hops < MaxRedirects
             /\ image' = [image EXCEPT ![i].at = "checking", ![i].hops = @ + 1]
             /\ caller' = caller
    <3> DEFINE state == [image[i] EXCEPT !.at = "checking", !.hops = @ + 1]
    <3>1. state \in ImageStates /\ state.at = "checking"
      <4>1. image[i].hops + 1 \in 0 .. MaxRedirects
        BY <1>1, <2>3, PreparationAssumption DEF ImageStates
      <4> QED
        BY <1>1, <4>1 DEF ImageStates
    <3>2. image' = [image EXCEPT ![i] = state]
      BY <2>3 DEF FetchInv
    <3> HIDE DEF state
    <3> QED
      BY <2>1, <2>3, <3>1, <3>2, OneImageMoves
  <2> QED
    BY <1>4, <2>2, <2>3 DEF ImageAnswers
<1>5. CASE ImageChunk(i)
  <2>1. image[i].at = "reading" /\ caller # "aborted"
    BY <1>1, <1>5 DEF ImageChunk
  <2>2. CASE ImageTurns(i, "done") \/ ImageTurns(i, "image_error")
    BY <2>1, <2>2, ImageTurnsInv DEF ImageErrors
  <2>3. CASE /\ image[i].size < MaxImageSize
             /\ image' = [image EXCEPT ![i].size = @ + 1]
             /\ caller' = caller
    <3> DEFINE state == [image[i] EXCEPT !.size = @ + 1]
    <3>1. state \in ImageStates
      <4>1. image[i].size + 1 \in 0 .. MaxImageSize
        BY <1>1, <2>3, PreparationAssumption DEF ImageStates
      <4> QED
        BY <1>1, <4>1 DEF ImageStates
    <3>2. image' = [image EXCEPT ![i] = state]
      BY <2>3
    <3> HIDE DEF state
    <3> QED
      BY <2>1, <2>3, <3>1, <3>2, OneImageMoves
  <2> QED
    BY <1>5, <2>2, <2>3 DEF ImageChunk
<1>6. CASE ImageTimerFires(i)
  <2> DEFINE state == [image[i] EXCEPT !.timedOut = TRUE,
                                       !.at = IF @ = "checking" THEN @ ELSE "image_timeout"]
  <2>1. state \in ImageStates /\ state.at \in {"checking", "image_timeout"}
    BY <1>1 DEF ImageStates, ImageErrors
  <2>2. image' = [image EXCEPT ![i] = state] /\ caller' = caller
    BY <1>6 DEF ImageTimerFires, FetchInv
  <2> HIDE DEF state
  <2> QED
    BY <2>1, <2>2, OneImageMoves
<1> QED
  BY <1>2, <1>3, <1>4, <1>5, <1>6

\* An abort stops every image fetch, wherever it is in its redirects, for any
\* number of images: no check of a URL lets one begin afterwards.
THEOREM AbortStopsTheFetches == PreparationSpec => []AbortStopsEveryFetch
<1>1. PreparationInit => FetchInv
  <2> SUFFICES ASSUME PreparationInit
               PROVE  FetchInv
    OBVIOUS
  <2>1. PICK kinds \in [Images -> {"inline", "url", "file"}] :
          image = [i \in Images |-> Unresolved(kinds[i])]
    BY DEF PreparationInit
  <2>2. \A i \in Images : Unresolved(kinds[i]) \in ImageStates /\ Unresolved(kinds[i]).at = "waiting"
    BY PreparationAssumption DEF Unresolved, ImageStates
  <2> QED
    BY <2>1, <2>2 DEF PreparationInit, FetchInv, AbortStopsEveryFetch
<1>2. FetchInv /\ [PreparationNext]_preparationVars => FetchInv'
  <2> SUFFICES ASSUME FetchInv, [PreparationNext]_preparationVars
               PROVE  FetchInv'
    OBVIOUS
  <2>1. \A i \in Images : image[i] \in ImageStates
    BY DEF FetchInv
  <2>2. CASE Prepares
    <3>1. PICK tooLarge \in SUBSET {i \in Images : image[i].kind = "inline"} :
            image' = [i \in Images |-> [image[i] EXCEPT !.at =
                CASE i \in tooLarge -> "image_error"
                  [] image[i].kind = "inline" -> "done"
                  [] image[i].kind = "url" -> "checking"
                  [] OTHER -> "loading"]]
      BY <2>2 DEF Prepares
    <3>2. ASSUME NEW i \in Images
          PROVE  image'[i] \in ImageStates /\ image'[i].at \notin {"fetching", "reading"}
      <4>1. PICK turn \in {"image_error", "done", "checking", "loading"} :
              image'[i] = [image[i] EXCEPT !.at = turn]
        BY <3>1
      <4> QED
        BY <2>1, <4>1 DEF ImageStates, ImageErrors
    <3>3. image' \in [Images -> ImageStates]
      BY <3>1, <3>2
    <3> QED
      BY <2>2, <3>2, <3>3 DEF FetchInv, AbortStopsEveryFetch, Prepares
  <2>3. CASE CallerAborts
    <3>1. image' = [i \in Images |->
            IF image[i].at \in {"fetching", "reading"} THEN [image[i] EXCEPT !.at = Cause(i)]
                                                       ELSE image[i]]
          /\ caller' = "aborted"
      BY <2>3 DEF CallerAborts
    <3>2. ASSUME NEW i \in Images
          PROVE  image'[i] \in ImageStates /\ image'[i].at \notin {"fetching", "reading"}
      <4>1. Cause(i) \in {"image_timeout", "image_aborted"}
        BY DEF Cause
      <4>2. CASE image[i].at \in {"fetching", "reading"}
        <5>1. image'[i] = [image[i] EXCEPT !.at = Cause(i)]
          BY <3>1, <4>2
        <5> QED
          BY <2>1, <4>1, <5>1 DEF ImageStates, ImageErrors
      <4>3. CASE image[i].at \notin {"fetching", "reading"}
        BY <2>1, <3>1, <4>3
      <4> QED
        BY <4>2, <4>3
    <3>3. image' \in [Images -> ImageStates]
      BY <3>1, <3>2
    <3> QED
      BY <3>1, <3>2, <3>3 DEF FetchInv, AbortStopsEveryFetch
  <2>4. CASE CallsAgain
    <3>1. image' = [i \in Images |-> Unresolved(image[i].kind)] /\ caller' = caller
      BY <2>4 DEF CallsAgain
    <3>2. \A i \in Images : image[i].kind \in {"inline", "url", "file"}
      BY <2>1 DEF ImageStates
    <3>3. \A i \in Images : /\ Unresolved(image[i].kind) \in ImageStates
                            /\ Unresolved(image[i].kind).at = "waiting"
      BY <3>2, PreparationAssumption DEF Unresolved, ImageStates
    <3> QED
      BY <3>1, <3>3 DEF FetchInv, AbortStopsEveryFetch
  <2>5. ASSUME NEW i \in Images, FileLoads(i) \/ ChecksOut(i) \/ ImageAnswers(i)
                                   \/ ImageChunk(i) \/ ImageTimerFires(i)
        PROVE  FetchInv'
    BY <2>5, FetchSteps
  <2>6. CASE UNCHANGED preparationVars
    BY <2>6 DEF preparationVars, FetchInv, AbortStopsEveryFetch
  <2> QED
    BY <2>2, <2>3, <2>4, <2>5, <2>6 DEF PreparationNext
<1>3. FetchInv => AbortStopsEveryFetch
  BY DEF FetchInv
<1> QED
  BY <1>1, <1>2, <1>3, PTL DEF PreparationSpec

-----------------------------------------------------------------------------
(* RequestPreparation, the window: the advice is computed from the         *)
(* estimate that the next call is compared with again.                     *)

WindowInv ==
    /\ estimatedPrompt \in PromptSizes
    /\ numCtx \in (Nat \ {0}) \cup {NoWindow}
    /\ defaultLength \in WindowSizes \cup {NoWindow}
    /\ warningThreshold \in Thresholds \cup {NoThreshold}
    /\ adopted => numCtx # NoWindow /\ 10 * numCtx >= 13 * estimatedPrompt
    /\ prepared = "context_overflow" => ExceedsThreshold
    /\ prepared = "sent" /\ throws => ~ExceedsThreshold

\* What the bounds of the doubling amount to.
LEMMA LastWindow == 4096 * 2^10 = 4194304
BY SMT

LEMMA LargestPromptIs == LargestPrompt = 3226387
BY LastWindow, SMT DEF LargestPrompt

LEMMA PowersOfTwo ==
    ASSUME NEW k \in 0 .. 10
    PROVE  4096 * 2^k \in Nat \ {0}
<1> DEFINE S == Nat \ {0}
<1>1. /\ 2^0 = 1 /\ 2^1 = 2 /\ 2^2 = 4 /\ 2^3 = 8 /\ 2^4 = 16 /\ 2^5 = 32 /\ 2^6 = 64
      /\ 2^7 = 128 /\ 2^8 = 256 /\ 2^9 = 512 /\ 2^10 = 1024
  BY SMT
<1>2. /\ 2^0 \in S /\ 2^1 \in S /\ 2^2 \in S /\ 2^3 \in S /\ 2^4 \in S /\ 2^5 \in S /\ 2^6 \in S
      /\ 2^7 \in S /\ 2^8 \in S /\ 2^9 \in S /\ 2^10 \in S
  BY <1>1, SMT
<1>3. \/ k = 0 \/ k = 1 \/ k = 2 \/ k = 3 \/ k = 4 \/ k = 5 \/ k = 6
      \/ k = 7 \/ k = 8 \/ k = 9 \/ k = 10
  BY SMT
<1> HIDE DEF S
<1>4. 2^k \in S
  BY <1>2, <1>3, Zenon
<1>5. \A n \in S : 4096 * n \in S
  BY SMT DEF S
<1> QED
  BY <1>4, <1>5 DEF S

LEMMA DoublingTypes == DoubledWindows \subseteq Nat \ {0}
BY PowersOfTwo DEF DoubledWindows

LEMMA PromptsFitTheLast ==
    ASSUME NEW estimate \in PromptSizes
    PROVE  \E w \in DoubledWindows : 10 * w >= 13 * estimate
<1>1. estimate \in Nat /\ estimate <= LargestPrompt
  BY PreparationAssumption
<1>2. estimate <= 3226387
  BY <1>1, LargestPromptIs, SMT
<1>3. PICK w \in DoubledWindows : w = 4194304
  <2>1. 10 \in 0 .. 10
    BY SMT
  <2> QED
    BY <2>1, LastWindow, SMT DEF DoubledWindows
<1>4. 10 * w >= 13 * estimate
  BY <1>1, <1>2, <1>3, SMT
<1> QED
  BY <1>4, Zenon

\* The doubling ends at a window thirty percent above the estimate.
LEMMA RecommendedFits ==
    ASSUME NEW estimate \in PromptSizes
    PROVE  Recommended(estimate) \in Nat \ {0} /\ 10 * Recommended(estimate) >= 13 * estimate
<1>1. PICK S : S = {w \in DoubledWindows : 10 * w >= 13 * estimate}
  OBVIOUS
<1>2. S \subseteq Nat \ {0} /\ S # {} /\ \A w \in S : 10 * w >= 13 * estimate
  BY <1>1, PromptsFitTheLast, DoublingTypes
<1>3. PICK w \in S : \A v \in S : w <= v
  BY <1>2, LeastExists
<1>4. Min(S) \in S
  BY <1>3 DEF Min
<1>5. Recommended(estimate) = Min(S)
  BY <1>1 DEF Recommended
<1> QED
  BY <1>2, <1>4, <1>5

\* A threshold t of at least 1/1.3 leaves room for the estimate e in a window n
\* of 1.3 times e; one of at most 1 accepts nothing above the window.
LEMMA ThresholdBounds ==
    ASSUME NEW t \in Nat, NEW n \in Nat, NEW e \in Nat
    PROVE  /\ 13 * t >= 1000 /\ 10 * n >= 13 * e => 100 * e <= t * n
           /\ t <= 100 /\ 100 * e <= t * n => e <= n
<1>1. ASSUME 13 * t >= 1000, 10 * n >= 13 * e
      PROVE  100 * e <= t * n
  <2>1. PICK d \in Nat : t = 77 + d
    <3>1. t - 77 \in Nat /\ t = 77 + (t - 77)
      BY <1>1, SMT
    <3> QED
      BY <3>1, Zenon
  <2>2. t * n = 77 * n + d * n /\ d * n \in Nat
    BY <2>1, SMT
  <2>3. \A x \in Nat : 100 * e <= 77 * n + x
    BY <1>1, SMT
  <2> QED
    BY <2>2, <2>3, Zenon
<1>2. ASSUME t <= 100, 100 * e <= t * n
      PROVE  e <= n
  <2>1. PICK d \in Nat : 100 = t + d
    <3>1. 100 - t \in Nat /\ 100 = t + (100 - t)
      BY <1>2, SMT
    <3> QED
      BY <3>1, Zenon
  <2>2. 100 * n = t * n + d * n /\ d * n \in Nat /\ t * n \in Nat
    <3>1. (t + d) * n = t * n + d * n /\ d * n \in Nat /\ t * n \in Nat
      BY <2>1, SMT
    <3> QED
      BY <2>1, <3>1, Zenon
  <2>3. \A x, y \in Nat : 100 * e <= x /\ 100 * n = x + y => e <= n
    BY SMT
  <2> QED
    BY <1>2, <2>2, <2>3, Zenon
<1> QED
  BY <1>1, <1>2

LEMMA ThresholdTypes == WindowInv => Threshold \in Nat
BY PreparationAssumption DEF WindowInv, Threshold

\* A window of 1.3 times the estimate is beyond no threshold above 1/1.3, and a
\* check that passes leaves room in the window that goes on the wire.
LEMMA ThresholdFacts ==
    ASSUME WindowInv
    PROVE  /\ adopted /\ 13 * Threshold >= 1000 => ~ExceedsThreshold
           /\ ~ExceedsThreshold /\ Threshold <= 100 =>
                estimatedPrompt <= (IF WireWindow = NoWindow THEN FallbackLength ELSE WireWindow)
<1>1. /\ estimatedPrompt \in Nat /\ NoWindow \notin Nat
      /\ numCtx # NoWindow => numCtx \in Nat \ {0}
      /\ defaultLength # NoWindow => defaultLength \in Nat \ {0}
      /\ Threshold \in Nat
  BY PreparationAssumption, ThresholdTypes DEF WindowInv
<1>2. CASE numCtx = NoWindow /\ defaultLength = NoWindow
  BY <1>1, <1>2 DEF WindowInv, ExceedsThreshold, WireWindow, FallbackLength
<1>3. CASE numCtx # NoWindow \/ defaultLength # NoWindow
  <2>1. /\ WireWindow = EffectiveWindow /\ EffectiveWindow \in Nat
        /\ WireWindow # NoWindow
    BY <1>1, <1>3 DEF WireWindow, EffectiveWindow
  <2>2. 100 * estimatedPrompt \in Nat /\ Threshold * EffectiveWindow \in Nat
    BY <1>1, <2>1, SMT
  <2>3. ExceedsThreshold <=> ~(100 * estimatedPrompt <= Threshold * EffectiveWindow)
    <3>1. \A x, y \in Nat : x > y <=> ~(x <= y)
      BY SMT
    <3>2. ExceedsThreshold <=> 100 * estimatedPrompt > Threshold * EffectiveWindow
      BY <1>3, Zenon DEF ExceedsThreshold
    <3> QED
      BY <2>2, <3>1, <3>2, Zenon
  <2>4. adopted => 10 * EffectiveWindow >= 13 * estimatedPrompt
    BY DEF WindowInv, EffectiveWindow
  <2> QED
    BY <1>1, <2>1, <2>3, <2>4, ThresholdBounds, Zenon
<1> QED
  BY <1>2, <1>3

\* How preparing ends, when the request itself stays what it is.
LEMMA PreparationEnds ==
    ASSUME WindowInv, RequestStays,
           \/ prepared' = prepared
           \/ prepared' \in {"resolving"} \cup ImageErrors
           \/ prepared' = Verdict
    PROVE  WindowInv'
BY DEF WindowInv, RequestStays, ExceedsThreshold, Threshold, EffectiveWindow, Verdict, ImageErrors

LEMMA SettledEnds ==
    ASSUME Settled
    PROVE  prepared' = prepared \/ prepared' \in ImageErrors \/ prepared' = Verdict
BY DEF Settled

\* A caller that takes the window an error recommends is not told again that
\* it is too small, whatever prompt up to LargestPrompt it sends and whatever
\* threshold of at least 1/1.3 of the window the client is configured with; and
\* with one of at most the whole window, a prompt that "throw" lets pass fits the
\* window on the wire.
THEOREM AdviceAccepted == PreparationSpec => []AdviceIsAccepted
<1>1. PreparationInit => WindowInv
  BY PreparationAssumption DEF PreparationInit, WindowInv
<1>2. WindowInv /\ [PreparationNext]_preparationVars => WindowInv'
  <2> SUFFICES ASSUME WindowInv, [PreparationNext]_preparationVars
               PROVE  WindowInv'
    OBVIOUS
  <2>1. CASE Prepares
    BY <2>1, PreparationEnds DEF Prepares, ImageErrors
  <2>2. CASE CallerAborts
    BY <2>2, PreparationEnds, SettledEnds DEF CallerAborts
  <2>3. CASE CallsAgain
    <3>1. /\ numCtx' = Recommended(estimatedPrompt) /\ prepared' = "new"
          /\ UNCHANGED <<estimatedPrompt, defaultLength, warningThreshold>>
      BY <2>3 DEF CallsAgain
    <3>2. /\ Recommended(estimatedPrompt) \in Nat \ {0}
          /\ 10 * Recommended(estimatedPrompt) >= 13 * estimatedPrompt
      BY RecommendedFits DEF WindowInv
    <3>3. NoWindow \notin Nat
      BY PreparationAssumption
    <3> QED
      BY <3>1, <3>2, <3>3 DEF WindowInv
  <2>4. ASSUME NEW i \in Images, NEW turn, ImageTurns(i, turn)
        PROVE  WindowInv'
    BY <2>4, PreparationEnds, SettledEnds DEF ImageTurns
  <2>5. ASSUME NEW i \in Images, FileLoads(i) \/ ChecksOut(i) \/ ImageAnswers(i)
                                   \/ ImageChunk(i) \/ ImageTimerFires(i)
        PROVE  WindowInv'
    BY <2>4, <2>5, PreparationEnds, SettledEnds
    DEF FileLoads, ChecksOut, ImageAnswers, ImageChunk, ImageTimerFires
  <2>6. CASE UNCHANGED preparationVars
    BY <2>6 DEF preparationVars, WindowInv, ExceedsThreshold, Threshold, EffectiveWindow
  <2> QED
    BY <2>1, <2>2, <2>3, <2>5, <2>6 DEF PreparationNext
<1>3. WindowInv => AdviceIsAccepted
  BY ThresholdFacts DEF WindowInv, AdviceIsAccepted
<1> QED
  BY <1>1, <1>2, <1>3, PTL DEF PreparationSpec

-----------------------------------------------------------------------------
(* ModelAffinityRouter.  What reorder() returns is a concatenation of runs *)
(* of one priority, each with its residents first, and every part of it is *)
(* in the order in which GoesFirst has any two of the candidates.          *)

-----------------------------------------------------------------------------
(* ModelAffinityRouter: sequences whose elements are in an order.          *)

IsOrderedBy(s, R) == \A i, j \in DOMAIN s : i < j => <<s[i], s[j]>> \in R

LEMMA SortedConcat ==
    ASSUME NEW S, NEW R, NEW s \in Seq(S), NEW t \in Seq(S), IsOrderedBy(s, R), IsOrderedBy(t, R),
           \A x \in ToSet(s), y \in ToSet(t) : <<x, y>> \in R
    PROVE  IsOrderedBy(s \o t, R) /\ ToSet(s \o t) = ToSet(s) \cup ToSet(t)
<1> DEFINE m == Len(s)
           n == Len(t)
           both == s \o t
<1>1. m \in Nat /\ n \in Nat /\ DOMAIN s = 1 .. m /\ DOMAIN t = 1 .. n /\ DOMAIN both = 1 .. m + n
  OBVIOUS
<1>2. \A i \in 1 .. m : i \in DOMAIN both /\ both[i] = s[i]
  OBVIOUS
<1>3. \A i \in 1 .. n : m + i \in DOMAIN both /\ both[m + i] = t[i]
  OBVIOUS
<1> HIDE DEF m, n, both
<1>4. \A i \in DOMAIN both : \/ i \in 1 .. m
                             \/ i - m \in 1 .. n /\ m + (i - m) = i /\ i > m
  BY <1>1
<1>5. \A i \in DOMAIN both : \/ i \in 1 .. m /\ both[i] = s[i] /\ s[i] \in ToSet(s)
                             \/ i - m \in 1 .. n /\ both[i] = t[i - m] /\ i > m /\ t[i - m] \in ToSet(t)
  BY <1>1, <1>2, <1>3, <1>4 DEF ToSet
<1>6. IsOrderedBy(both, R)
  <2> SUFFICES ASSUME NEW i \in DOMAIN both, NEW j \in DOMAIN both, i < j
               PROVE  <<both[i], both[j]>> \in R
    BY DEF IsOrderedBy
  <2>0. i \in Int /\ j \in Int
    BY <1>1
  <2>1. CASE i \in 1 .. m /\ j \in 1 .. m
    BY <1>1, <1>2, <2>1 DEF IsOrderedBy
  <2>2. CASE i \in 1 .. m /\ j \notin 1 .. m
    BY <1>5, <1>1, <2>2
  <2>3. CASE i \notin 1 .. m /\ j \notin 1 .. m
    <3>1. i - m \in 1 .. n /\ j - m \in 1 .. n /\ both[i] = t[i - m] /\ both[j] = t[j - m]
      BY <1>5, <2>3
    <3>2. i - m < j - m
      BY <1>1, <2>0
    <3> QED BY <1>1, <3>1, <3>2 DEF IsOrderedBy
  <2>4. CASE i \notin 1 .. m /\ j \in 1 .. m
    BY <1>1, <1>4, <2>0, <2>4
  <2> QED BY <2>1, <2>2, <2>3, <2>4
<1>7. ToSet(both) = ToSet(s) \cup ToSet(t)
  <2>1. \A x \in ToSet(both) : x \in ToSet(s) \cup ToSet(t)
    BY <1>5 DEF ToSet
  <2>2. \A x \in ToSet(s) : x \in ToSet(both)
    BY <1>1, <1>2 DEF ToSet
  <2>3. \A x \in ToSet(t) : x \in ToSet(both)
    BY <1>1, <1>3 DEF ToSet
  <2> QED BY <2>1, <2>2, <2>3
<1> QED BY <1>6, <1>7 DEF both

\* Parts in an order, each of them in that order.
LEMMA FlattenSorts ==
    ASSUME NEW S, NEW R, NEW parts \in Seq(Seq(S)),
           \A i \in DOMAIN parts : IsOrderedBy(parts[i], R),
           \A i, j \in DOMAIN parts : i < j =>
                \A x \in ToSet(parts[i]), y \in ToSet(parts[j]) : <<x, y>> \in R
    PROVE  /\ FlattenSeq(parts) \in Seq(S)
           /\ IsOrderedBy(FlattenSeq(parts), R)
           /\ \A x : x \in ToSet(FlattenSeq(parts)) <=> \E i \in DOMAIN parts : x \in ToSet(parts[i])
<1> DEFINE n == Len(parts)
<1>1. PICK g : IsGathering(g, S, parts)
  BY GatheringExists
<1>2. g \in [0 .. n -> Seq(S)] /\ g[0] = Nothing /\ \A i \in 1 .. n : g[i] = g[i - 1] \o parts[i]
  BY <1>1 DEF IsGathering
<1>3. FlattenSeq(parts) = g[n]
  BY <1>1, FlattenIsGathered
<1>4. n \in Nat /\ DOMAIN parts = 1 .. n /\ \A i \in 1 .. n : parts[i] \in Seq(S)
  OBVIOUS
<1> HIDE DEF n
<1> DEFINE Good == {m \in Nat : m <= n =>
                      /\ IsOrderedBy(g[m], R)
                      /\ \A x : x \in ToSet(g[m]) <=> \E i \in 1 .. m : x \in ToSet(parts[i])}
<1>5. 0 \in Good
  <2>1. IsOrderedBy(Nothing, R) /\ ToSet(Nothing) = {}
    BY DEF IsOrderedBy, ToSet, Nothing
  <2>2. 1 .. 0 = {}
    OBVIOUS
  <2> QED BY <1>2, <2>1, <2>2
<1>6. ASSUME NEW m \in Nat, m \in Good PROVE m + 1 \in Good
  <2>1. CASE m + 1 <= n
    <3>1. m \in 0 .. n /\ m <= n /\ m + 1 \in 1 .. n /\ (m + 1) - 1 = m
      BY <1>4, <2>1
    <3>2. IsOrderedBy(g[m], R) /\ \A x : x \in ToSet(g[m]) <=> \E i \in 1 .. m : x \in ToSet(parts[i])
      BY <1>6, <3>1
    <3>3. g[m + 1] = g[m] \o parts[m + 1] /\ g[m] \in Seq(S) /\ parts[m + 1] \in Seq(S)
      BY <1>2, <1>4, <3>1
    <3>4. \A x \in ToSet(g[m]), y \in ToSet(parts[m + 1]) : <<x, y>> \in R
      <4> TAKE x \in ToSet(g[m]), y \in ToSet(parts[m + 1])
      <4>1. PICK i \in 1 .. m : x \in ToSet(parts[i])
        BY <3>2
      <4>2. i \in DOMAIN parts /\ m + 1 \in DOMAIN parts /\ i < m + 1
        BY <1>4, <3>1
      <4> QED BY <4>1, <4>2
    <3>5. IsOrderedBy(parts[m + 1], R)
      BY <1>4, <3>1
    <3>6. IsOrderedBy(g[m + 1], R) /\ ToSet(g[m + 1]) = ToSet(g[m]) \cup ToSet(parts[m + 1])
      BY <3>2, <3>3, <3>4, <3>5, SortedConcat
    <3>7. \A i : i \in 1 .. m + 1 <=> i \in 1 .. m \/ i = m + 1
      OBVIOUS
    <3>8. \A x : x \in ToSet(g[m + 1]) <=> \E i \in 1 .. m + 1 : x \in ToSet(parts[i])
      BY <3>2, <3>6, <3>7
    <3> QED BY <3>6, <3>8
  <2>2. CASE ~(m + 1 <= n)
    BY <2>2
  <2> QED BY <2>1, <2>2
<1>7. n \in Good
  <2> HIDE DEF Good
  <2> QED BY <1>4, <1>5, <1>6, InductiveSet
<1>8. n \in 0 .. n /\ n <= n
  BY <1>4
<1> QED BY <1>2, <1>3, <1>4, <1>7, <1>8

-----------------------------------------------------------------------------
(* ModelAffinityRouter: the tiers of a list.                               *)

LEMMA CandidatesAreLists ==
    ASSUME NEW list \in CandidateLists
    PROVE  /\ list \in Seq(Hosts) /\ DOMAIN list = 1 .. Len(list) /\ Len(list) \in Nat
           /\ \A i, j \in DOMAIN list : list[i] = list[j] => i = j
           /\ \A i \in DOMAIN list : PlaceIn(list, list[i]) = i
<1>1. PICK n : n \in 0 .. Cardinality(Hosts) /\ list \in [1 .. n -> Hosts] /\ IsInjective(list)
  BY DEF CandidateLists, SeqOf
<1>2. CASE n \in Nat
  <2>1. list \in Seq(Hosts)
    BY <1>1, <1>2
  <2>2. \A i, j \in DOMAIN list : list[i] = list[j] => i = j
    BY <1>1 DEF IsInjective
  <2> QED BY <2>1, <2>2 DEF PlaceIn
<1>3. n \in Nat
  BY <1>1
<1> QED BY <1>2, <1>3

LEMMA ThoseKeepTheOrder ==
    ASSUME NEW list \in Seq(Hosts), NEW S, NEW R,
           \A i, j \in DOMAIN list :
                i < j /\ list[i] \in S /\ list[j] \in S => <<list[i], list[j]>> \in R
    PROVE  /\ Those(list, S) \in Seq(Hosts)
           /\ IsOrderedBy(Those(list, S), R)
           /\ ToSet(Those(list, S)) = ToSet(list) \cap S
<1> DEFINE part(i) == IF list[i] \in S THEN <<list[i]>> ELSE <<>>
           parts == [i \in DOMAIN list |-> part(i)]
<1>1. DOMAIN list = 1 .. Len(list) /\ Len(list) \in Nat /\ \A i \in DOMAIN list : list[i] \in Hosts
  OBVIOUS
<1>2. \A i \in DOMAIN list : part(i) \in Seq(Hosts)
  BY <1>1
<1>3. \A i \in DOMAIN list : /\ list[i] \in S => part(i) = <<list[i]>>
                             /\ list[i] \notin S => part(i) = <<>>
  OBVIOUS
<1>4. ASSUME NEW x PROVE ToSet(<<x>>) = {x} /\ IsOrderedBy(<<x>>, R)
  BY DEF ToSet, IsOrderedBy
<1>5. ToSet(<<>>) = {} /\ IsOrderedBy(<<>>, R)
  BY DEF ToSet, IsOrderedBy
<1>6. Those(list, S) = FlattenSeq(parts)
  BY Zenon DEF Those
<1> HIDE DEF part
<1>7. parts \in Seq(Seq(Hosts)) /\ DOMAIN parts = DOMAIN list /\ \A i \in DOMAIN list : parts[i] = part(i)
  BY <1>1, <1>2
<1> HIDE DEF parts
<1>8. \A i \in DOMAIN parts : IsOrderedBy(parts[i], R)
  BY <1>3, <1>4, <1>5, <1>7
<1>9. \A i \in DOMAIN parts : \A x : x \in ToSet(parts[i]) <=> x = list[i] /\ list[i] \in S
  BY <1>3, <1>4, <1>5, <1>7
<1>10. \A i, j \in DOMAIN parts : i < j =>
                \A x \in ToSet(parts[i]), y \in ToSet(parts[j]) : <<x, y>> \in R
  BY <1>7, <1>9
<1>11. /\ FlattenSeq(parts) \in Seq(Hosts) /\ IsOrderedBy(FlattenSeq(parts), R)
       /\ \A x : x \in ToSet(FlattenSeq(parts)) <=> \E i \in DOMAIN parts : x \in ToSet(parts[i])
  BY <1>7, <1>8, <1>10, FlattenSorts
<1>12. \A x : x \in ToSet(list) <=> \E i \in DOMAIN list : x = list[i]
  BY DEF ToSet
<1>13. ToSet(FlattenSeq(parts)) = ToSet(list) \cap S
  BY <1>7, <1>9, <1>11, <1>12
<1> QED BY <1>6, <1>11, <1>13

LEMMA TierEnds ==
    ASSUME NEW list \in Seq(Hosts), NEW i \in DOMAIN list
    PROVE  /\ TierEnd(list, i) \in i .. Len(list)
           /\ \A k \in i .. TierEnd(list, i) : HostTier[list[k]] = HostTier[list[i]]
           /\ TierEnd(list, i) < Len(list) => HostTier[list[TierEnd(list, i) + 1]] # HostTier[list[i]]
<1> DEFINE n == Len(list)
           T(k) == HostTier[list[k]]
           Finishes == {j \in i .. n : j = n \/ T(j + 1) # T(i)}
<1>1. n \in Nat /\ i \in Nat /\ i \in 1 .. n
  OBVIOUS
<1> HIDE DEF n, T
<1>2. n \in Finishes /\ Finishes \subseteq Nat
  BY <1>1
<1>3. PICK j \in Finishes : \A k \in Finishes : j <= k
  BY <1>2, LeastExists
<1>4. j \in i .. n /\ j \in Nat /\ (j < n => T(j + 1) # T(i))
  BY <1>1, <1>3
<1>5. \A k \in i .. j : T(k) = T(i)
  <2> DEFINE Bad == {k \in i .. j : T(k) # T(i)}
  <2>1. ASSUME Bad # {} PROVE FALSE
    <3>1. Bad \subseteq Nat
      BY <1>1, <1>4
    <3>2. PICK k \in Bad : \A l \in Bad : k <= l
      BY <2>1, <3>1, LeastExists
    <3>3. k \in i .. j /\ k # i /\ T(k) # T(i) /\ k \in Nat
      BY <3>1, <3>2
    <3>4. k - 1 \in i .. n /\ (k - 1) + 1 = k /\ ~(j <= k - 1)
      BY <1>1, <1>4, <3>3
    <3>5. k - 1 \in Finishes
      BY <3>3, <3>4
    <3> QED BY <1>3, <3>4, <3>5
  <2> QED BY <2>1
<1>6. /\ \A k \in i .. j : T(k) = T(i)
      /\ j < n => T(j + 1) # T(i)
  BY <1>4, <1>5
<1> QED BY <1>4, <1>6, Zenon DEF TierEnd, n, T

LEMMA EachIsInATier ==
    ASSUME NEW list \in Seq(Hosts), NEW k \in DOMAIN list
    PROVE  \E m \in TierStarts(list) : m <= k /\ k <= TierEnd(list, m)
<1> DEFINE n == Len(list)
           Gaps == {k - m : m \in {l \in TierStarts(list) : l <= k}}
<1>1. n \in Nat /\ k \in 1 .. n /\ DOMAIN list = 1 .. n /\ TierStarts(list) \subseteq 1 .. n
  BY DEF TierStarts
<1>2. 1 \in TierStarts(list)
  BY <1>1 DEF TierStarts
<1> HIDE DEF n
<1>3. Gaps \subseteq Nat /\ Gaps # {}
  BY <1>1, <1>2
<1>4. PICK gap \in Gaps : \A other \in Gaps : gap <= other
  BY <1>3, LeastExists
<1>5. PICK m \in TierStarts(list) : m <= k /\ gap = k - m
  BY <1>4
<1>6. \A l \in TierStarts(list) : l <= k => l <= m
  <2> TAKE l \in TierStarts(list)
  <2>1. l <= k => k - m <= k - l
    BY <1>4, <1>5
  <2> QED BY <1>1, <2>1
<1>7. ASSUME ~(k <= TierEnd(list, m)) PROVE FALSE
  <2> DEFINE j == TierEnd(list, m)
  <2>1. /\ j \in m .. n
        /\ \A l \in m .. j : HostTier[list[l]] = HostTier[list[m]]
        /\ j < n => HostTier[list[j + 1]] # HostTier[list[m]]
    BY <1>1, TierEnds DEF n
  <2> HIDE DEF j
  <2>2. j \in m .. j /\ j + 1 \in 1 .. n /\ j < n /\ (j + 1) - 1 = j /\ j + 1 <= k /\ ~(j + 1 <= m)
    BY <1>1, <1>7, <2>1 DEF j
  <2>3. HostTier[list[(j + 1) - 1]] # HostTier[list[j + 1]]
    BY <2>1, <2>2
  <2>4. j + 1 \in TierStarts(list)
    BY <1>1, <2>2, <2>3 DEF TierStarts
  <2> QED BY <1>6, <2>2, <2>4
<1> QED BY <1>5, <1>7

LEMMA TiersAreApart ==
    ASSUME NEW list \in Seq(Hosts), NEW m \in TierStarts(list), NEW l \in TierStarts(list), m < l
    PROVE  /\ TierEnd(list, m) < l
           /\ l - 1 \in DOMAIN list /\ HostTier[list[l - 1]] # HostTier[list[l]]
<1> DEFINE n == Len(list)
           j == TierEnd(list, m)
<1>1. n \in Nat /\ m \in 1 .. n /\ l \in 1 .. n /\ DOMAIN list = 1 .. n
  BY DEF TierStarts
<1>2. l # 1 /\ HostTier[list[l - 1]] # HostTier[list[l]]
  BY <1>1 DEF TierStarts
<1>3. j \in m .. n /\ \A k \in m .. j : HostTier[list[k]] = HostTier[list[m]]
  BY <1>1, TierEnds
<1> HIDE DEF n, j
<1>4. ASSUME ~(j < l) PROVE FALSE
  <2>1. l \in m .. j /\ l - 1 \in m .. j
    BY <1>1, <1>3, <1>4
  <2> QED BY <1>2, <1>3, <2>1
<1>5. l - 1 \in 1 .. n
  BY <1>1, <1>2
<1> QED BY <1>1, <1>2, <1>4, <1>5 DEF j

-----------------------------------------------------------------------------
(* ModelAffinityRouter: the order of what reorder() returns.               *)

OrderOf(list, model) == {pair \in Hosts \X Hosts : GoesFirst(list, model, pair[1], pair[2])}

LEMMA OrderByPlaces ==
    ASSUME NEW list \in CandidateLists, NEW model, \A i \in DOMAIN list : IsFresh(list[i]),
           NEW i \in DOMAIN list, NEW j \in DOMAIN list
    PROVE  <<list[i], list[j]>> \in OrderOf(list, model) <=>
             IF /\ \A k \in DOMAIN list : (i <= k /\ k <= j) \/ (j <= k /\ k <= i)
                                            => HostTier[list[k]] = HostTier[list[i]]
                /\ IsResident(list[i], model) # IsResident(list[j], model)
             THEN IsResident(list[i], model)
             ELSE i < j
<1>1. PlaceIn(list, list[i]) = i /\ PlaceIn(list, list[j]) = j
      /\ list[i] \in Hosts /\ list[j] \in Hosts
  BY CandidatesAreLists
<1>2. InOneTier(list, list[i], list[j]) <=>
        \A k \in DOMAIN list : (i <= k /\ k <= j) \/ (j <= k /\ k <= i)
                                 => HostTier[list[k]] = HostTier[list[i]]
  BY <1>1, Zenon DEF InOneTier
<1>3. <<list[i], list[j]>> \in OrderOf(list, model) <=> GoesFirst(list, model, list[i], list[j])
  BY <1>1 DEF OrderOf
<1>4. GoesFirst(list, model, list[i], list[j]) <=>
        IF InOneTier(list, list[i], list[j])
             /\ IsResident(list[i], model) # IsResident(list[j], model)
        THEN IsResident(list[i], model)
        ELSE i < j
  BY <1>1, Zenon DEF GoesFirst
<1> QED BY <1>2, <1>3, <1>4, Zenon

\* One tier, the endpoints that hold the model first.
LEMMA PartitionedTier ==
    ASSUME NEW list \in CandidateLists, NEW model, \A i \in DOMAIN list : IsFresh(list[i]),
           NEW m \in TierStarts(list)
    PROVE  LET part == Partitioned(SubSeq(list, m, TierEnd(list, m)), model)
           IN  /\ part \in Seq(Hosts)
               /\ IsOrderedBy(part, OrderOf(list, model))
               /\ ToSet(part) = {list[k] : k \in m .. TierEnd(list, m)}
<1> DEFINE end == TierEnd(list, m)
           tier == SubSeq(list, m, end)
           R == OrderOf(list, model)
           residents == {h \in Hosts : IsResident(h, model)}
           warm == Those(tier, residents)
           cold == Those(tier, Hosts \ residents)
<1>1. list \in Seq(Hosts) /\ DOMAIN list = 1 .. Len(list) /\ Len(list) \in Nat /\ m \in DOMAIN list
  BY CandidatesAreLists DEF TierStarts
<1>2. end \in m .. Len(list) /\ \A k \in m .. end : HostTier[list[k]] = HostTier[list[m]]
  BY <1>1, TierEnds
<1> HIDE DEF end
<1>3. /\ tier \in Seq(Hosts) /\ DOMAIN tier = 1 .. (end - m) + 1
      /\ \A i \in DOMAIN tier : tier[i] = list[m + i - 1]
  BY <1>1, <1>2
<1>4. \A i \in DOMAIN tier : m + i - 1 \in m .. end /\ m + i - 1 \in DOMAIN list
  BY <1>1, <1>2, <1>3
<1> HIDE DEF tier
<1>5. ToSet(tier) = {list[k] : k \in m .. end}
  <2>1. ASSUME NEW k \in m .. end PROVE list[k] \in ToSet(tier)
    <3>1. k - m + 1 \in DOMAIN tier /\ m + (k - m + 1) - 1 = k
      BY <1>1, <1>2, <1>3
    <3>2. tier[k - m + 1] = list[k]
      BY <1>3, <3>1
    <3> QED BY <3>1, <3>2 DEF ToSet
  <2>2. \A x \in ToSet(tier) : x \in {list[k] : k \in m .. end}
    BY <1>3, <1>4 DEF ToSet
  <2> QED BY <2>1, <2>2
<1>6. \A k, l \in m .. end : /\ k \in DOMAIN list /\ l \in DOMAIN list
                             /\ \A j \in DOMAIN list : (k <= j /\ j <= l) \/ (l <= j /\ j <= k)
                                    => HostTier[list[j]] = HostTier[list[k]]
  BY <1>1, <1>2
<1>7. \A k, l \in m .. end : <<list[k], list[l]>> \in R <=>
             IF IsResident(list[k], model) # IsResident(list[l], model)
             THEN IsResident(list[k], model)
             ELSE k < l
  <2> TAKE k, l \in m .. end
  <2>1. k \in DOMAIN list /\ l \in DOMAIN list
    BY <1>6
  <2>2. \A j \in DOMAIN list : (k <= j /\ j <= l) \/ (l <= j /\ j <= k)
                                 => HostTier[list[j]] = HostTier[list[k]]
    BY <1>6
  <2>3. <<list[k], list[l]>> \in R <=>
             IF /\ \A j \in DOMAIN list : (k <= j /\ j <= l) \/ (l <= j /\ j <= k)
                                            => HostTier[list[j]] = HostTier[list[k]]
                /\ IsResident(list[k], model) # IsResident(list[l], model)
             THEN IsResident(list[k], model)
             ELSE k < l
    BY <2>1, OrderByPlaces, Zenon DEF R
  <2> QED BY <2>2, <2>3, Zenon
<1> HIDE DEF R
<1>8. \A i, j \in DOMAIN tier : i < j /\ IsResident(tier[i], model) = IsResident(tier[j], model)
                                  => <<tier[i], tier[j]>> \in R
  <2> TAKE i, j \in DOMAIN tier
  <2>1. i < j => m + i - 1 < m + j - 1
    BY <1>1, <1>3
  <2> QED BY <1>3, <1>4, <1>7, <2>1
<1>9. \A h \in ToSet(tier) : h \in Hosts /\ (h \in residents <=> IsResident(h, model))
  <2>1. \A h \in ToSet(tier) : h \in Hosts
    <3> TAKE h \in ToSet(tier)
    <3>1. PICK i \in DOMAIN tier : h = tier[i]
      BY DEF ToSet
    <3>2. tier \in Seq(Hosts)
      BY <1>3
    <3>3. tier[i] \in Hosts
      BY <3>2
    <3> QED BY <3>1, <3>3
  <2> QED BY <2>1
<1>10. \A i \in DOMAIN tier : tier[i] \in ToSet(tier)
  BY DEF ToSet
<1>11. warm \in Seq(Hosts) /\ IsOrderedBy(warm, R) /\ ToSet(warm) = ToSet(tier) \cap residents
  <2>1. \A i, j \in DOMAIN tier :
            i < j /\ tier[i] \in residents /\ tier[j] \in residents => <<tier[i], tier[j]>> \in R
    BY <1>8, <1>9, <1>10
  <2> HIDE DEF residents
  <2> QED BY <1>3, <2>1, ThoseKeepTheOrder
<1>12. cold \in Seq(Hosts) /\ IsOrderedBy(cold, R) /\ ToSet(cold) = ToSet(tier) \cap (Hosts \ residents)
  <2>1. \A i, j \in DOMAIN tier :
            i < j /\ tier[i] \in Hosts \ residents /\ tier[j] \in Hosts \ residents
                => <<tier[i], tier[j]>> \in R
    <3> TAKE i, j \in DOMAIN tier
    <3>1. tier[i] \in Hosts \ residents /\ tier[j] \in Hosts \ residents
            => ~IsResident(tier[i], model) /\ ~IsResident(tier[j], model)
      BY <1>9, <1>10
    <3>2. ~IsResident(tier[i], model) /\ ~IsResident(tier[j], model)
            => IsResident(tier[i], model) = IsResident(tier[j], model)
      BY DEF IsResident
    <3> QED BY <1>8, <3>1, <3>2
  <2> HIDE DEF residents
  <2> QED BY <1>3, <2>1, ThoseKeepTheOrder
<1>13. Partitioned(tier, model) = warm \o cold
  BY Zenon DEF Partitioned
<1> HIDE DEF warm, cold
<1>14. \A x \in ToSet(warm), y \in ToSet(cold) : <<x, y>> \in R
  <2> TAKE x \in ToSet(warm), y \in ToSet(cold)
  <2>1. PICK k \in m .. end : x = list[k]
    BY <1>5, <1>11
  <2>2. PICK l \in m .. end : y = list[l]
    BY <1>5, <1>12
  <2>3. IsResident(x, model) /\ ~IsResident(y, model)
    BY <1>9, <1>11, <1>12
  <2> QED BY <1>7, <2>1, <2>2, <2>3
<1>15. IsOrderedBy(warm \o cold, R) /\ ToSet(warm \o cold) = ToSet(warm) \cup ToSet(cold)
  BY <1>11, <1>12, <1>14, SortedConcat
<1>16. ToSet(warm) \cup ToSet(cold) = ToSet(tier)
  BY <1>9, <1>11, <1>12
<1>17. warm \o cold \in Seq(Hosts)
  BY <1>11, <1>12, ConcatProperties
<1> QED BY <1>5, <1>13, <1>15, <1>16, <1>17 DEF tier, end, R

LEMMA SortedIsInjective ==
    ASSUME NEW s \in Seq(Hosts), NEW R, IsOrderedBy(s, R), \A h \in ToSet(s) : <<h, h>> \notin R
    PROVE  IsFiniteSet(ToSet(s)) /\ Cardinality(ToSet(s)) = Len(s)
<1>1. DOMAIN s = 1 .. Len(s) /\ Len(s) \in Nat
  OBVIOUS
<1>2. \A i, j \in DOMAIN s : s[i] = s[j] => i = j
  <2> TAKE i, j \in DOMAIN s
  <2>1. s[i] \in ToSet(s) /\ s[j] \in ToSet(s)
    BY DEF ToSet
  <2>2. i < j => <<s[i], s[j]>> \in R
    BY DEF IsOrderedBy
  <2>3. j < i => <<s[j], s[i]>> \in R
    BY DEF IsOrderedBy
  <2> QED BY <1>1, <2>1, <2>2, <2>3
<1>3. s \in [1 .. Len(s) -> ToSet(s)] /\ \A x \in ToSet(s) : \E i \in 1 .. Len(s) : s[i] = x
  BY <1>1 DEF ToSet
<1>4. s \in Bijection(1 .. Len(s), ToSet(s))
  BY <1>1, <1>2, <1>3 DEF Bijection, Injection, Surjection, IsInjective
<1>5. ExistsBijection(1 .. Len(s), ToSet(s))
  BY <1>4 DEF ExistsBijection
<1> QED BY <1>1, <1>5, FS_CountingElements, FS_NatBijection

LEMMA ReorderedIsInOrder ==
    ASSUME NEW list \in CandidateLists, NEW model
    PROVE  /\ Reordered(list, model) \in Seq(Hosts)
           /\ IsOrderedBy(Reordered(list, model), OrderOf(list, model))
           /\ ToSet(Reordered(list, model)) = ToSet(list)
<1> DEFINE R == OrderOf(list, model)
           ordered == Reordered(list, model)
           fresh == \A i \in DOMAIN list : IsFresh(list[i])
<1>1. /\ list \in Seq(Hosts) /\ DOMAIN list = 1 .. Len(list) /\ Len(list) \in Nat
      /\ \A i \in DOMAIN list : PlaceIn(list, list[i]) = i
  BY CandidatesAreLists
<1>2. CASE ~fresh
  <2>1. ordered = list
    BY <1>2, Zenon DEF Reordered
  <2>2. IsOrderedBy(list, R)
    BY <1>1, <1>2 DEF IsOrderedBy, OrderOf, GoesFirst
  <2> QED BY <1>1, <2>1, <2>2
<1>3. CASE ~(Len(list) >= 2)
  <2>1. ordered = list
    BY <1>3, Zenon DEF Reordered
  <2>2. IsOrderedBy(list, R)
    BY <1>1, <1>3 DEF IsOrderedBy
  <2> QED BY <1>1, <2>1, <2>2
<1>4. CASE fresh /\ Len(list) >= 2
  <2> DEFINE tier(m) == Partitioned(SubSeq(list, m, TierEnd(list, m)), model)
             part(m) == IF m \in TierStarts(list) THEN tier(m) ELSE <<>>
             parts == [m \in 1 .. Len(list) |-> part(m)]
  <2>1. ordered = FlattenSeq(parts)
    BY <1>4, Zenon DEF Reordered
  <2>2. \A m \in TierStarts(list) : /\ tier(m) \in Seq(Hosts) /\ IsOrderedBy(tier(m), R)
                                    /\ ToSet(tier(m)) = {list[k] : k \in m .. TierEnd(list, m)}
    BY <1>4, PartitionedTier, Zenon
  <2>3. ToSet(<<>>) = {} /\ IsOrderedBy(<<>>, R) /\ <<>> \in Seq(Hosts)
    BY DEF ToSet, IsOrderedBy
  <2> HIDE DEF tier, R
  <2>4. \A m \in 1 .. Len(list) : /\ part(m) \in Seq(Hosts) /\ IsOrderedBy(part(m), R)
                                  /\ m \in TierStarts(list) => part(m) = tier(m)
                                  /\ m \notin TierStarts(list) => ToSet(part(m)) = {}
    BY <2>2, <2>3
  <2> HIDE DEF part
  <2>5. parts \in Seq(Seq(Hosts)) /\ DOMAIN parts = 1 .. Len(list)
        /\ \A m \in 1 .. Len(list) : parts[m] = part(m)
    BY <1>1, <2>4
  <2> HIDE DEF parts
  <2>6. \A m \in DOMAIN parts : \A x : x \in ToSet(parts[m]) =>
            m \in TierStarts(list) /\ \E k \in m .. TierEnd(list, m) : x = list[k]
    BY <2>2, <2>4, <2>5
  <2>7. \A m, l \in DOMAIN parts : m < l =>
                \A x \in ToSet(parts[m]), y \in ToSet(parts[l]) : <<x, y>> \in R
    <3> SUFFICES ASSUME NEW m \in DOMAIN parts, NEW l \in DOMAIN parts, m < l,
                        NEW x \in ToSet(parts[m]), NEW y \in ToSet(parts[l])
                 PROVE  <<x, y>> \in R
      OBVIOUS
    <3>1. PICK i \in m .. TierEnd(list, m) : x = list[i] /\ m \in TierStarts(list)
      BY <2>6
    <3>2. PICK j \in l .. TierEnd(list, l) : y = list[j] /\ l \in TierStarts(list)
      BY <2>6
    <3>3. TierEnd(list, m) < l /\ l - 1 \in DOMAIN list /\ HostTier[list[l - 1]] # HostTier[list[l]]
      BY <1>1, <3>1, <3>2, TiersAreApart
    <3>4. m \in DOMAIN list /\ l \in DOMAIN list /\ m \in Nat /\ l \in Nat
      BY <1>1, <3>1, <3>2 DEF TierStarts
    <3>5. TierEnd(list, m) \in m .. Len(list) /\ TierEnd(list, l) \in l .. Len(list)
      BY <1>1, <3>4, TierEnds
    <3>6. i \in DOMAIN list /\ j \in DOMAIN list /\ i < j /\ i <= l - 1 /\ l - 1 <= j /\ i <= l /\ l <= j
      BY <1>1, <3>1, <3>2, <3>3, <3>4, <3>5
    <3>7. ~ \A k \in DOMAIN list : (i <= k /\ k <= j) \/ (j <= k /\ k <= i)
                                     => HostTier[list[k]] = HostTier[list[i]]
      BY <3>3, <3>4, <3>6, Zenon
    <3> QED BY <1>4, <3>1, <3>2, <3>6, <3>7, OrderByPlaces DEF R
  <2>8. \A m \in DOMAIN parts : IsOrderedBy(parts[m], R)
    BY <2>4, <2>5
  <2>9. /\ FlattenSeq(parts) \in Seq(Hosts) /\ IsOrderedBy(FlattenSeq(parts), R)
        /\ \A x : x \in ToSet(FlattenSeq(parts)) <=> \E m \in DOMAIN parts : x \in ToSet(parts[m])
    BY <2>5, <2>7, <2>8, FlattenSorts
  <2>10. ASSUME NEW x \in ToSet(FlattenSeq(parts)) PROVE x \in ToSet(list)
    <3>1. PICK m \in DOMAIN parts : x \in ToSet(parts[m])
      BY <2>9
    <3>2. PICK k \in m .. TierEnd(list, m) : x = list[k] /\ m \in TierStarts(list)
      BY <2>6, <3>1
    <3>3. m \in DOMAIN list
      BY <3>2 DEF TierStarts
    <3>4. TierEnd(list, m) \in m .. Len(list)
      BY <1>1, <3>3, TierEnds
    <3>5. k \in DOMAIN list
      BY <1>1, <3>2, <3>3, <3>4
    <3> QED BY <3>2, <3>5 DEF ToSet
  <2>11. ASSUME NEW x \in ToSet(list) PROVE x \in ToSet(FlattenSeq(parts))
    <3>1. PICK k \in DOMAIN list : x = list[k]
      BY DEF ToSet
    <3>2. PICK m \in TierStarts(list) : m <= k /\ k <= TierEnd(list, m)
      BY <1>1, EachIsInATier
    <3>3. m \in DOMAIN list
      BY DEF TierStarts
    <3>4. TierEnd(list, m) \in m .. Len(list)
      BY <1>1, <3>3, TierEnds
    <3>5. k \in m .. TierEnd(list, m) /\ m \in 1 .. Len(list)
      BY <1>1, <3>2, <3>3, <3>4
    <3>6. x \in ToSet(parts[m])
      BY <2>2, <2>4, <2>5, <3>1, <3>5
    <3> QED BY <2>5, <2>9, <3>5, <3>6
  <2> QED BY <2>1, <2>9, <2>10, <2>11 DEF R
<1> QED BY <1>2, <1>3, <1>4

\* Nothing goes before itself.
LEMMA OrderIsStrict ==
    ASSUME NEW list \in CandidateLists, NEW model, NEW h \in ToSet(list)
    PROVE  <<h, h>> \notin OrderOf(list, model)
<1>1. PICK i \in DOMAIN list : h = list[i]
  BY DEF ToSet
<1>2. PlaceIn(list, h) = i /\ i \in Nat
  BY <1>1, CandidatesAreLists
<1>3. ~(PlaceIn(list, h) < PlaceIn(list, h))
  BY <1>2
<1>4. ~GoesFirst(list, model, h, h)
  BY <1>3, Zenon DEF GoesFirst
<1> QED BY <1>4 DEF OrderOf

LEMMA AffinityOnlyBreaksTies == AffinityBreaksTies
<1> SUFFICES ASSUME NEW list \in CandidateLists, NEW model \in Loadable
             PROVE  /\ ToSet(Reordered(list, model)) = ToSet(list)
                    /\ Len(Reordered(list, model)) = Len(list)
                    /\ \A i, j \in DOMAIN Reordered(list, model) :
                         i < j => GoesFirst(list, model, Reordered(list, model)[i], Reordered(list, model)[j])
  BY Zenon DEF AffinityBreaksTies
<1> DEFINE ordered == Reordered(list, model)
           R == OrderOf(list, model)
<1>1. ordered \in Seq(Hosts) /\ IsOrderedBy(ordered, R) /\ ToSet(ordered) = ToSet(list)
  BY ReorderedIsInOrder
<1>2. \A h \in ToSet(list) : <<h, h>> \notin R
  BY OrderIsStrict
<1>3. Cardinality(ToSet(ordered)) = Len(ordered)
  BY <1>1, <1>2, SortedIsInjective
<1>4. Cardinality(ToSet(list)) = Len(list)
  <2> DEFINE Before == {pair \in Hosts \X Hosts : PlaceIn(list, pair[1]) < PlaceIn(list, pair[2])}
  <2>1. list \in Seq(Hosts) /\ \A i \in DOMAIN list : PlaceIn(list, list[i]) = i /\ i \in Nat
    BY CandidatesAreLists
  <2>2. IsOrderedBy(list, Before)
    BY <2>1 DEF IsOrderedBy
  <2>3. \A h \in ToSet(list) : <<h, h>> \notin Before
    BY <2>1 DEF ToSet
  <2> HIDE DEF Before
  <2> QED BY <2>1, <2>2, <2>3, SortedIsInjective
<1>5. \A i, j \in DOMAIN ordered : i < j => GoesFirst(list, model, ordered[i], ordered[j])
  BY <1>1 DEF IsOrderedBy, OrderOf
<1> QED BY <1>1, <1>3, <1>4, <1>5

\* ModelAffinityRouter.reorder(), whatever its snapshots have become: nothing
\* passes an endpoint of another priority, residents come before the others of
\* their tier, and the registry's order is kept otherwise.
THEOREM AffinityStaysInTiers == RouterSpec => []AffinityBreaksTies
  BY AffinityOnlyBreaksTies, PTL DEF RouterSpec

-----------------------------------------------------------------------------
(* ModelAffinityRouter: the probes.                                        *)

\* The entries of the inflight map are the probes that are out.
RouterInv ==
    /\ RouterTypeOK
    /\ \A h \in Hosts : probes[h] = IF h \in inflight THEN 1 ELSE 0

LEMMA RefreshKeepsProbes ==
    ASSUME RouterInv, NEW S \in SUBSET Hosts, Refresh(S)
    PROVE  /\ inflight' \subseteq Hosts /\ probes' \in [Hosts -> Nat]
           /\ \A h \in Hosts : probes'[h] = IF h \in inflight' THEN 1 ELSE 0
<1>1. inflight \subseteq Hosts /\ probes \in [Hosts -> Nat]
      /\ \A h \in Hosts : probes[h] = IF h \in inflight THEN 1 ELSE 0
  BY DEF RouterInv, RouterTypeOK
<1>2. inflight' = inflight \cup S
      /\ probes' = [h \in Hosts |-> IF h \in S \ inflight THEN probes[h] + 1 ELSE probes[h]]
  BY DEF Refresh
<1> QED BY <1>1, <1>2

LEMMA ProbeEndKeepsProbes ==
    ASSUME RouterInv, NEW h \in Hosts, ProbeEnds(h)
    PROVE  /\ inflight' \subseteq Hosts /\ probes' \in [Hosts -> Nat]
           /\ \A g \in Hosts : probes'[g] = IF g \in inflight' THEN 1 ELSE 0
<1>1. inflight \subseteq Hosts /\ probes \in [Hosts -> Nat]
      /\ \A g \in Hosts : probes[g] = IF g \in inflight THEN 1 ELSE 0
  BY DEF RouterInv, RouterTypeOK
<1>2. inflight' = inflight \ {h} /\ probes[h] > 0 /\ probes' = [probes EXCEPT ![h] = probes[h] - 1]
  BY DEF ProbeEnds
<1>3. probes[h] - 1 = 0
  BY <1>1, <1>2
<1> QED BY <1>1, <1>2, <1>3

LEMMA RouterStarts == RouterInit => RouterInv
<1> SUFFICES ASSUME RouterInit PROVE RouterInv
  OBVIOUS
<1> USE RouterAssumption
<1>1. NoEntry \in [models : SUBSET Loadable, age : Never .. TtlMs + 1] /\ Never \in Never .. FailureRetryMs
  BY DEF NoEntry, Never
<1> QED BY <1>1 DEF RouterInit, RouterInv, RouterTypeOK

LEMMA RouterInvIsKept == RouterInv /\ [RouterNext]_routerVars => RouterInv'
<1> SUFFICES ASSUME RouterInv, [RouterNext]_routerVars
             PROVE  RouterInv'
  OBVIOUS
<1> USE RouterAssumption
<1> DEFINE Entries == [models : SUBSET Loadable, age : Never .. TtlMs + 1]
<1>1. /\ cache \in [Hosts -> Entries] /\ failedAge \in [Hosts -> Never .. FailureRetryMs]
      /\ inflight \subseteq Hosts /\ probes \in [Hosts -> Nat]
      /\ \A h \in Hosts : probes[h] = IF h \in inflight THEN 1 ELSE 0
  BY DEF RouterInv, RouterTypeOK
<1>2. ASSUME NEW list \in CandidateLists, Reorder(list) PROVE RouterInv'
  <2>1. {h \in ToSet(list) : ~IsFresh(h) /\ ~Suppressed(h)} \in SUBSET Hosts
    BY CandidatesAreLists DEF ToSet
  <2> QED BY <1>1, <1>2, <2>1, RefreshKeepsProbes DEF Reorder, RouterInv, RouterTypeOK
<1>3. ASSUME NEW S \in SUBSET Hosts, Warm(S) PROVE RouterInv'
  BY <1>1, <1>3, RefreshKeepsProbes DEF Warm, RouterInv, RouterTypeOK
<1>4. ASSUME NEW h \in Hosts, ProbeFails(h) PROVE RouterInv'
  <2>1. failedAge' \in [Hosts -> Never .. FailureRetryMs] /\ cache' = cache /\ ProbeEnds(h)
    BY <1>1, <1>4 DEF ProbeFails, Never
  <2> QED BY <1>1, <2>1, ProbeEndKeepsProbes DEF RouterInv, RouterTypeOK
<1>5. ASSUME NEW h \in Hosts, NEW models \in SUBSET Loadable, ProbeAnswers(h, models) PROVE RouterInv'
  <2>1. [models |-> models, age |-> 0] \in Entries
    BY DEF Never
  <2>2. cache' \in [Hosts -> Entries] /\ failedAge' \in [Hosts -> Never .. FailureRetryMs] /\ ProbeEnds(h)
    BY <1>1, <1>5, <2>1 DEF ProbeAnswers, Never
  <2> QED BY <2>2, ProbeEndKeepsProbes DEF RouterInv, RouterTypeOK
<1>6. CASE RouterTick
  <2>1. ASSUME NEW h \in Hosts
        PROVE  (IF cache[h].age \in 0 .. TtlMs THEN [cache[h] EXCEPT !.age = @ + 1] ELSE cache[h])
                    \in Entries
    <3>1. cache[h] \in Entries
      BY <1>1
    <3> QED BY <3>1 DEF Never
  <2>2. cache' \in [Hosts -> Entries]
    BY <1>6, <2>1 DEF RouterTick
  <2>3. failedAge' \in [Hosts -> Never .. FailureRetryMs]
    BY <1>1, <1>6 DEF RouterTick, Never
  <2> QED BY <1>1, <1>6, <2>2, <2>3 DEF RouterTick, RouterInv, RouterTypeOK
<1>7. CASE UNCHANGED routerVars
  BY <1>1, <1>7 DEF routerVars, RouterInv, RouterTypeOK
<1> QED BY <1>2, <1>3, <1>4, <1>5, <1>6, <1>7 DEF RouterNext

\* However requests, warm-ups and answers interleave, refresh() keeps one probe
\* of an endpoint in flight and its inflight map is the probes that are out.
THEOREM ProbesAreInFlight == RouterSpec => []RouterInv
  BY RouterStarts, RouterInvIsKept, PTL DEF RouterSpec

-----------------------------------------------------------------------------
(* Transport.  The reason of the next request is known as soon as the call *)
(* is on its way to it, which is before a backoff and before the next      *)
(* endpoint.  A fired signal moves a call along without a reason: nothing  *)
(* is sent under it, and only a 404, which is one, gives the call another. *)

\* Why a call that is about to ask may ask.
HasReason ==
    \/ answer = NoAnswer \/ Transient(answer)
    \/ answer.status \in {401, 403} /\ hop > 1 /\ tries = 0
    \/ route = "chat" /\ hop = 1 /\ tries = 0 /\ answer.status = 404
    \/ mode = "create" /\ answer.body = "text"

\* Before the stream the consumer has seen nothing.
NothingShown == at \in {"start", "fetch", "backoff"} => ~output

AsksForAReason == at \in {"start", "backoff"} /\ signal = "live" => HasReason

\* withRetry lets at most MaxRetries requests follow the first.
TriesLeft == at \in {"start", "backoff"} => tries <= MaxRetries

TransportInv == TransportTypeOK /\ NothingShown /\ AsksForAReason /\ TriesLeft

-----------------------------------------------------------------------------
(* ModelPublishing.  What an endpoint said of its store stays true until   *)
(* the shard goes from there; the walk over the shards leaves none behind; *)
(* and the server that creates the model has them all when it does.        *)

PublishingTypes ==
    /\ blobs \in [Endpoints -> SUBSET Shards]
    /\ step \in {"check", "upload", "create", "published", "failed"}
    /\ shard \in Shards
    /\ target \in Endpoints \cup {NoEndpoint}
    /\ servedBy \in [Shards -> Endpoints \cup {NoEndpoint}]
    /\ lost \subseteq Shards

\* An endpoint that answered for a shard has it, or has lost it since.
ServedAreThere ==
    \A s \in Shards : servedBy[s] # NoEndpoint => s \in blobs[servedBy[s]] \/ s \in lost

\* The shards before the one the step is about are served; all of them, once
\* the model is created.
WalkIsComplete ==
    \A s \in Shards :
        s < shard \/ step \in {"create", "published"} => servedBy[s] # NoEndpoint

\* No call is under way once the publishing is over.
CallsBelongToSteps == target # NoEndpoint => step \in {"check", "upload", "create"}

\* The model was created where all the shards were.
CreatedFromAll == step = "published" => createdFrom = Shards

PublishingInv ==
    PublishingTypes /\ ServedAreThere /\ WalkIsComplete /\ CallsBelongToSteps /\ CreatedFromAll

-----------------------------------------------------------------------------
(* McpTools.  While the catalogue is what it was when a listing began, the *)
(* listing has exactly the part of it before its cursor.  A server that    *)
(* returns one cursor over and over is found out at the second: the cursor *)
(* is one the listing has seen.                                            *)

ListingRecords ==
    [at : {"idle", "listing", "registered", "failed"}, tools : Seq(ToolNames),
     cursor : Nat, seen : SUBSET Nat, pages : Nat, began : Nat]

McpTypes ==
    /\ catalogue \in Seq(ToolNames) /\ IsInjective(catalogue)
    /\ changes \in Nat /\ looping \in BOOLEAN
    /\ listing \in [Listings -> ListingRecords]
    /\ owner \in [ToolNames -> Listings \cup {Local, NobodyOwns}]

\* How far listing l is, while the catalogue is the one it began with.
IsUpToCursor(l) ==
    /\ listing[l].cursor <= Len(catalogue)
    /\ listing[l].tools = SubSeq(catalogue, 1, listing[l].cursor)

ListingOK(l) ==
    /\ listing[l].at = "idle" => listing[l].cursor = 0 /\ listing[l].tools = <<>>
    /\ listing[l].began <= changes
    /\ listing[l].at = "listing" /\ listing[l].began = changes => IsUpToCursor(l)
    /\ looping /\ listing[l].cursor # 0 => PageSize \in listing[l].seen

McpInv == McpTypes /\ CatalogueArrivesWhole /\ \A l \in Listings : ListingOK(l)

-----------------------------------------------------------------------------
(* Transport: proofs.                                                      *)

LEMMA TransportStarts == TransportInit => TransportInv
<1> SUFFICES ASSUME TransportInit PROVE TransportInv
  OBVIOUS
<1>1. TransportTypeOK
  <2>1. hop \in 1 .. EndpointCount /\ tries \in 0 .. MaxRetries + 1
    BY TransportAssumption DEF TransportInit
  <2> QED
    BY <2>1 DEF TransportInit, TransportTypeOK
<1>2. NothingShown /\ AsksForAReason /\ TriesLeft
  BY TransportAssumption
     DEF TransportInit, NothingShown, AsksForAReason, HasReason, TriesLeft
<1> QED
  BY <1>1, <1>2 DEF TransportInv

\* The codes errors are given, and which of them come of which answers.
LEMMA CodesOfAnswers ==
    ASSUME NEW ans \in PossibleAnswers
    PROVE  /\ ans.status \in {0, 200} \cup (400 .. 599)
           /\ MapError(ans) \in Codes
           /\ Retryable(MapError(ans)) /\ ans.status # 200 =>
                Transient(ans) \/ (mode = "create" /\ ans.body = "text")
           /\ MapError(ans) = "auth_error" => ans.status \in {401, 403}
           /\ MapError(ans) = "not_found" => ans.status = 404
<1>1. ans.status \in {0, 200} \cup (400 .. 599)
  <2>1. CASE ans \in Refusals
    <3>1. ans.status \in Statuses
      BY <2>1 DEF Refusals
    <3> QED
      BY <3>1, TransportAssumption
  <2>2. CASE ans \in {Network, Ok("json"), Ok("text")}
    BY <2>2 DEF Network, Ok
  <2> QED
    BY <2>1, <2>2 DEF PossibleAnswers
<1>2. CASE ans = Network \/ (mode = "create" /\ ans.body = "text")
  BY <1>1, <1>2 DEF MapError, Codes, Retryable, Transient
<1>3. CASE ~(ans = Network \/ (mode = "create" /\ ans.body = "text"))
  <2>1. MapError(ans) = StatusToError(ans.status)
    BY <1>3 DEF MapError
  <2>2. StatusToError(ans.status) \in Codes
    BY DEF StatusToError, Codes
  <2>3. Retryable(StatusToError(ans.status)) => ans.status = 429 \/ ans.status >= 500
    BY <1>1 DEF StatusToError, Retryable
  <2>4. /\ StatusToError(ans.status) = "auth_error" => ans.status \in {401, 403}
        /\ StatusToError(ans.status) = "not_found" => ans.status = 404
    BY <1>1 DEF StatusToError
  <2> QED
    BY <1>1, <2>1, <2>2, <2>3, <2>4 DEF Transient
<1> QED
  BY <1>2, <1>3

\* What follows an error that leaves withRetry.  The reason of the next request
\* is the answer the error was made of, or there is none and the signal has fired.
LEMMA LeavingKeepsTheReason ==
    ASSUME TransportInv, NEW code \in Codes, LeavesEndpoint(code),
           mode' = mode, output' = output, ~output,
           answer' \in PossibleAnswers \cup {NoAnswer},
           \/ /\ Retryable(code) => Transient(answer)' \/ (mode = "create" /\ answer'.body = "text")
              /\ code = "auth_error" => answer'.status \in {401, 403}
              /\ code = "not_found" => answer'.status = 404
           \/ signal # "live" /\ code \in {"timeout", "aborted"}
    PROVE  TransportInv'
<1> USE DEF TransportInv
<1>1. CASE /\ FailsOverOn(code) /\ hop < EndpointCount
           /\ at' = "start" /\ hop' = hop + 1 /\ tries' = 0
           /\ UNCHANGED <<route, signal, verdict>>
  <2>1. TransportTypeOK'
    BY <1>1, TransportAssumption DEF TransportTypeOK
  <2>2. signal = "live" => HasReason'
    BY <1>1 DEF FailsOverOn, HasReason, TransportTypeOK
  <2> QED
    BY <1>1, <2>1, <2>2, TransportAssumption
       DEF NothingShown, AsksForAReason, TriesLeft
<1>2. CASE /\ PathIsMissing(code) /\ route = "native"
           /\ at' = "start" /\ route' = "chat" /\ hop' = 1 /\ tries' = 0
           /\ signal' = IF signal = "aborted" THEN "aborted" ELSE "live"
           /\ UNCHANGED verdict
  <2>1. TransportTypeOK'
    BY <1>2, TransportAssumption DEF TransportTypeOK
  <2>2. HasReason'
    BY <1>2 DEF PathIsMissing, HasReason
  <2> QED
    BY <1>2, <2>1, <2>2, TransportAssumption
       DEF NothingShown, AsksForAReason, TriesLeft
<1>3. CASE Ends(code) /\ UNCHANGED <<route, hop, tries, signal>>
  <2>1. TransportTypeOK'
    BY <1>3 DEF TransportTypeOK, Ends
  <2> QED
    BY <1>3, <2>1 DEF Ends, NothingShown, AsksForAReason, TriesLeft
<1> QED
  BY <1>1, <1>2, <1>3 DEF LeavesEndpoint
\* An attempt that failed for its answer: another try, or the end of withRetry.
LEMMA FailingKeepsTheReason ==
    ASSUME TransportInv, at = "fetch", NEW code \in Codes, AttemptFails(code),
           mode' = mode, output' = output,
           answer' \in PossibleAnswers,
           Retryable(code) => Transient(answer)' \/ (mode = "create" /\ answer'.body = "text"),
           code = "auth_error" => answer'.status \in {401, 403},
           code = "not_found" => answer'.status = 404
    PROVE  TransportInv'
<1>1. ~output
  BY DEF TransportInv, NothingShown
<1>2. CASE Retryable(code) /\ tries <= MaxRetries
  <2>1. at' = "backoff" /\ UNCHANGED <<route, hop, tries, signal, verdict>>
    BY <1>2 DEF AttemptFails
  <2>2. TransportTypeOK'
    BY <2>1 DEF TransportInv, TransportTypeOK
  <2>3. HasReason'
    BY <1>2 DEF HasReason
  <2> QED
    BY <1>1, <1>2, <2>1, <2>2, <2>3
       DEF TransportInv, NothingShown, AsksForAReason, TriesLeft
<1>3. CASE ~(Retryable(code) /\ tries <= MaxRetries)
  <2>1. LeavesEndpoint(code)
    BY <1>3 DEF AttemptFails
  <2> QED
    BY <1>1, <2>1, LeavingKeepsTheReason
<1> QED
  BY <1>2, <1>3

LEMMA AnswersKeepTheReason ==
    ASSUME TransportInv, NEW ans \in PossibleAnswers, Answers(ans)
    PROVE  TransportInv'
<1>1. at = "fetch" /\ answer' = ans /\ UNCHANGED <<mode, output>> /\ ~output
  BY DEF Answers, TransportInv, NothingShown
<1>2. CASE AnswersRequest(ans)
  <2>1. CASE ans = Ok("json")
    <3>1. Ends("answered") /\ UNCHANGED <<route, hop, tries, signal>>
      <4>1. ans # Ok("text")
        BY <2>1 DEF Ok
      <4> QED
        BY <1>2, <2>1, <4>1 DEF AnswersRequest
    <3> QED
      BY <1>1, <3>1
         DEF Ends, TransportInv, TransportTypeOK, NothingShown, AsksForAReason, TriesLeft
  <2>2. CASE ans = Ok("text")
    <3>1. LeavesEndpoint("client_error")
      <4>1. ans # Ok("json")
        BY <2>2 DEF Ok
      <4> QED
        BY <1>2, <2>2, <4>1 DEF AnswersRequest
    <3> QED
      BY <1>1, <3>1, LeavingKeepsTheReason DEF Codes, Retryable
  <2>3. CASE ans \notin {Ok("json"), Ok("text")}
    <3>1. AttemptFails(MapError(ans))
      BY <1>2, <2>3 DEF AnswersRequest
    <3>2. ans.status # 200
      <4>1. ans = Network \/ ans \in Refusals
        BY <2>3 DEF PossibleAnswers
      <4>2. ans = Network => ans.status = 0
        BY DEF Network
      <4>3. ans \in Refusals => ans.status \in 400 .. 599
        BY TransportAssumption DEF Refusals
      <4> QED
        BY <4>1, <4>2, <4>3
    <3> QED
      BY <1>1, <3>1, <3>2, CodesOfAnswers, FailingKeepsTheReason
  <2> QED
    BY <2>1, <2>2, <2>3
<1>3. CASE AnswersStream(ans)
  <2>1. CASE ans.status = 200
    <3>1. at' = "stream" /\ UNCHANGED <<route, hop, tries, signal, verdict>>
      BY <1>3, <2>1 DEF AnswersStream
    <3> QED
      BY <1>1, <3>1
         DEF TransportInv, TransportTypeOK, NothingShown, AsksForAReason, TriesLeft
  <2>2. CASE ans.status # 200
    <3>1. AttemptFails(MapError(ans))
      BY <1>3, <2>2 DEF AnswersStream
    <3> QED
      BY <1>1, <2>2, <3>1, CodesOfAnswers, FailingKeepsTheReason
  <2> QED
    BY <2>1, <2>2
<1>4. CASE AnswersRaw(ans)
  <2>1. CASE ans = Network \/ (ans.status \in {429, 503} /\ tries <= MaxRetries)
    <3>1. AttemptFails("network_error")
      BY <1>4, <2>1 DEF AnswersRaw
    <3>2. Transient(ans)
      BY <2>1 DEF Transient
    <3> QED
      BY <1>1, <3>1, <3>2, FailingKeepsTheReason DEF Codes, Retryable
  <2>2. CASE ~(ans = Network \/ (ans.status \in {429, 503} /\ tries <= MaxRetries))
    <3>1. Ends("answered") /\ UNCHANGED <<route, hop, tries, signal>>
      BY <1>4, <2>2 DEF AnswersRaw
    <3> QED
      BY <1>1, <3>1
         DEF Ends, TransportInv, TransportTypeOK, NothingShown, AsksForAReason, TriesLeft
  <2> QED
    BY <2>1, <2>2
<1> QED
  BY <1>2, <1>3, <1>4 DEF Answers

LEMMA TransportStep == TransportInv /\ [TransportNext]_transportVars => TransportInv'
<1> SUFFICES ASSUME TransportInv, [TransportNext]_transportVars
             PROVE  TransportInv'
  OBVIOUS
<1> USE DEF TransportInv
<1>1. CASE Sends
  <2>1. tries + 1 \in 0 .. MaxRetries + 1
    BY <1>1, TransportAssumption DEF Sends, TriesLeft, TransportTypeOK
  <2> QED
    BY <1>1, <2>1 DEF Sends, TransportTypeOK, NothingShown, AsksForAReason, TriesLeft
<1>2. CASE \E ans \in PossibleAnswers : Answers(ans)
  BY <1>2, AnswersKeepTheReason
<1>3. CASE BackoffEnds
  BY <1>3
     DEF BackoffEnds, TransportTypeOK, NothingShown, AsksForAReason, HasReason, Transient,
         TriesLeft
<1>4. CASE SignalRejects
  <2>1. signal \in {"timeout", "aborted"} /\ ~output /\ answer' = answer
        /\ mode' = mode /\ output' = output /\ answer \in PossibleAnswers \cup {NoAnswer}
    BY <1>4 DEF SignalRejects, TransportTypeOK, NothingShown
  <2>2. signal \in Codes /\ LeavesEndpoint(signal)
    BY <1>4, <2>1 DEF SignalRejects, Codes
  <2> QED
    BY <2>1, <2>2, LeavingKeepsTheReason
<1>5. CASE Delivers
  BY <1>5 DEF Delivers, TransportTypeOK, NothingShown, AsksForAReason, TriesLeft
<1>6. CASE StreamEnds
  <2>1. verdict' \in {"pending", "answered"} \cup Codes
    BY <1>6 DEF StreamEnds, Ends, Codes, TransportTypeOK
  <2> QED
    BY <1>6, <2>1
       DEF StreamEnds, Ends, TransportTypeOK, NothingShown, AsksForAReason, TriesLeft
<1>7. CASE \E why \in {"timeout", "aborted"} : SignalFires(why)
  BY <1>7 DEF SignalFires, TransportTypeOK, NothingShown, AsksForAReason, TriesLeft
<1>8. CASE UNCHANGED transportVars
  BY <1>8
     DEF transportVars, TransportTypeOK, NothingShown, AsksForAReason, HasReason,
         Transient, TriesLeft
<1> QED
  BY <1>1, <1>2, <1>3, <1>4, <1>5, <1>6, <1>7, <1>8 DEF TransportNext

\* The types of the transport's state, and with them the bound on its tries:
\* withRetry lets through at most MaxRetries + 1 requests at an endpoint,
\* whatever the answers and whenever the signal fires.
THEOREM TransportTypes == TransportSpec => []TransportTypeOK
<1>1. TransportInv => TransportTypeOK
  BY DEF TransportInv
<1> QED
  BY TransportStarts, TransportStep, <1>1, PTL DEF TransportSpec

\* No request without a reason: a call asks again only after a transient answer,
\* asks another server once after one refused its key, and the other path once
\* after a 404; and never when the caller may have seen output.
THEOREM NoRequestWithoutReason == TransportSpec => RequestsAreJustified
<1> DEFINE Asked ==
      at' = "fetch" /\ at # "fetch" =>
        /\ ~output
        /\ \/ answer = NoAnswer \/ Transient(answer)
           \/ answer.status \in {401, 403} /\ hop > 1 /\ tries = 0
           \/ route = "chat" /\ hop = 1 /\ tries = 0 /\ answer.status = 404
           \/ mode = "create" /\ answer.body = "text"
<1>1. ASSUME TransportInv, [TransportNext]_transportVars
      PROVE  [Asked]_transportVars
  <2>1. Sends => Asked
    BY <1>1 DEF Sends, TransportInv, NothingShown, AsksForAReason, HasReason
  <2>2. \A code : LeavesEndpoint(code) => at' # "fetch"
    BY DEF LeavesEndpoint, Ends
  <2>3. (\E ans \in PossibleAnswers : Answers(ans)) => Asked
    BY DEF Answers
  <2>4. BackoffEnds \/ Delivers \/ StreamEnds => Asked
    BY DEF BackoffEnds, Delivers, StreamEnds, Ends
  <2>5. SignalRejects => Asked
    BY <2>2 DEF SignalRejects
  <2>6. (\E why \in {"timeout", "aborted"} : SignalFires(why)) => Asked
    BY DEF SignalFires
  <2> QED
    BY <1>1, <2>1, <2>3, <2>4, <2>5, <2>6 DEF TransportNext
<1>2. TransportInv /\ [TransportNext]_transportVars => [Asked]_transportVars
  BY <1>1
<1>3. TransportSpec => [][Asked]_transportVars
  BY TransportStarts, TransportStep, <1>2, PTL DEF TransportSpec
<1> QED
  BY <1>3 DEF RequestsAreJustified

-----------------------------------------------------------------------------
(* ModelPublishing: proofs.                                                *)

LEMMA PublishingStarts == PublishingInit => PublishingInv
<1> SUFFICES ASSUME PublishingInit PROVE PublishingInv
  OBVIOUS
<1>1. 1 \in Shards
  BY PublishingAssumption DEF Shards
<1>2. PublishingTypes
  BY <1>1 DEF PublishingInit, PublishingTypes
<1>3. ServedAreThere
  BY DEF PublishingInit, ServedAreThere
<1>4. WalkIsComplete /\ CallsBelongToSteps /\ CreatedFromAll
  BY DEF PublishingInit, WalkIsComplete, CallsBelongToSteps, CreatedFromAll, Shards
<1> QED
  BY <1>2, <1>3, <1>4 DEF PublishingInv

\* An answer takes nothing from a store, and who accepts a shard has it.
LEMMA StoresGrow ==
    ASSUME PublishingInv, NEW reply, CallAnswered(reply)
    PROVE  /\ blobs' \in [Endpoints -> SUBSET Shards]
           /\ \A e \in Endpoints : blobs[e] \subseteq blobs'[e]
           /\ Accepted(reply) /\ step \in {"check", "upload"} =>
                target \in Endpoints /\ shard \in blobs'[target]
<1>1. /\ target \in Endpoints /\ shard \in Shards
      /\ blobs \in [Endpoints -> SUBSET Shards]
  BY DEF PublishingInv, PublishingTypes, CallAnswered
<1>2. Stores(reply) \/ ((reply # "ok" \/ step # "upload") /\ UNCHANGED blobs)
  BY DEF CallAnswered
<1>3. Stores(reply) => blobs' = [blobs EXCEPT ![target] = @ \cup {shard}]
  BY DEF Stores
<1>4. /\ blobs' \in [Endpoints -> SUBSET Shards]
      /\ \A e \in Endpoints : blobs[e] \subseteq blobs'[e]
  BY <1>1, <1>2, <1>3
<1>5. ASSUME reply = "ok", step = "upload"
      PROVE  shard \in blobs'[target]
  BY <1>1, <1>2, <1>3, <1>5
<1>6. ASSUME reply = "ok", step = "check"
      PROVE  shard \in blobs'[target]
  <2>1. ~BodyIsUsed
    BY <1>6 DEF BodyIsUsed
  <2>2. reply \in {IF shard \in blobs[target] THEN "ok" ELSE "absent",
                     "refused", "transient"}
    BY <1>6, <2>1 DEF CallAnswered, ServerAnswers
  <2> QED
    BY <1>1, <1>4, <1>6, <2>2
<1> QED
  BY <1>1, <1>4, <1>5, <1>6 DEF Accepted

\* The answer that a call accepts: the shard is served, and the walk goes on.
LEMMA SucceedingServes ==
    ASSUME PublishingInv, NEW reply, CallAnswered(reply), Accepted(reply), Succeeds
    PROVE  PublishingInv'
<1>1. PublishingTypes /\ ServedAreThere /\ WalkIsComplete /\ CallsBelongToSteps /\ CreatedFromAll
  BY DEF PublishingInv
<1>2. target' = NoEndpoint /\ target \in Endpoints /\ lost' = lost
  BY <1>1 DEF Succeeds, CallEnds, CallAnswered, PublishingTypes
<1>3. CASE step = "create"
  <2>1. /\ step' = "published" /\ createdFrom' = blobs[target]
        /\ servedBy' = servedBy /\ shard' = shard
    BY <1>3 DEF Succeeds
  <2>2. ServerAnswers("ok")
    BY <1>3 DEF CallAnswered, BodyIsUsed, Accepted
  <2>3. blobs[target] = Shards
    BY <1>3, <2>2 DEF ServerAnswers
  <2> QED
    BY <1>1, <1>2, <1>3, <2>1, <2>3, StoresGrow
       DEF PublishingInv, PublishingTypes, ServedAreThere, WalkIsComplete, CallsBelongToSteps,
           CreatedFromAll
<1>4. CASE step # "create"
  <2>1. servedBy' = [servedBy EXCEPT ![shard] = target] /\ NextShard
    BY <1>4 DEF Succeeds
  <2>2. step \in {"check", "upload"}
    BY <1>1, <1>4 DEF CallAnswered, CallsBelongToSteps
  <2>3. shard \in blobs'[target]
    BY <2>2, StoresGrow
  <2>4. step' \in {"check", "create"} /\ shard' \in Shards
    BY <1>1, <2>1, PublishingAssumption DEF NextShard, PublishingTypes, Shards
  <2>5. PublishingTypes'
    BY <1>1, <1>2, <2>1, <2>4, StoresGrow DEF PublishingTypes
  <2>6. ServedAreThere'
    BY <1>1, <1>2, <2>1, <2>3, StoresGrow DEF ServedAreThere, PublishingTypes
  <2>7. WalkIsComplete'
    <3> SUFFICES ASSUME NEW s \in Shards, s < shard' \/ step' \in {"create", "published"}
                 PROVE  servedBy'[s] # NoEndpoint
      BY DEF WalkIsComplete
    <3>1. s <= shard
      BY <1>1, <2>1, PublishingAssumption DEF NextShard, PublishingTypes, Shards
    <3>2. CASE s = shard
      BY <1>1, <1>2, <2>1, <3>2, PublishingAssumption DEF PublishingTypes
    <3>3. CASE s # shard
      <4>1. s < shard
        BY <1>1, <3>1, <3>3 DEF PublishingTypes, Shards
      <4> QED
        BY <1>1, <2>1, <3>3, <4>1 DEF WalkIsComplete, PublishingTypes
    <3> QED
      BY <3>2, <3>3
  <2> QED
    BY <1>2, <2>4, <2>5, <2>6, <2>7 DEF PublishingInv, CallsBelongToSteps, CreatedFromAll
<1> QED
  BY <1>3, <1>4

LEMMA PublishingStep == PublishingInv /\ [PublishingNext]_publishingVars => PublishingInv'
<1> SUFFICES ASSUME PublishingInv, [PublishingNext]_publishingVars
             PROVE  PublishingInv'
  OBVIOUS
<1>1. PublishingTypes /\ ServedAreThere /\ WalkIsComplete /\ CallsBelongToSteps /\ CreatedFromAll
  BY DEF PublishingInv
<1> USE DEF PublishingInv, PublishingTypes, ServedAreThere, WalkIsComplete,
            CallsBelongToSteps, CreatedFromAll
<1>2. ASSUME NEW e \in Endpoints, CallStarts(e)
      PROVE  PublishingInv'
  BY <1>1, <1>2 DEF CallStarts
<1>3. ASSUME NEW reply \in {"ok", "absent", "refused", "transient"}, CallAnswered(reply)
      PROVE  PublishingInv'
  <2>1. CASE Accepted(reply) /\ Succeeds
    BY <1>3, <2>1, SucceedingServes
  <2>2. CASE Retries
    <3>1. UNCHANGED <<step, shard, target, servedBy, lost, createdFrom>>
      BY <1>3, <2>2 DEF Retries, CallAnswered
    <3> QED
      BY <1>1, <1>3, <3>1, StoresGrow
  <2>3. CASE Errs(reply)
    <3>1. /\ UNCHANGED <<shard, servedBy, lost>> /\ target' = NoEndpoint
          /\ step' \in {"upload", "failed"}
      BY <1>3, <2>3 DEF Errs, CallEnds, CallAnswered
    <3> QED
      BY <1>1, <1>3, <3>1, StoresGrow
  <2> QED
    BY <1>3, <2>1, <2>2, <2>3 DEF CallAnswered
<1>4. CASE CallCancelled
  BY <1>1, <1>4 DEF CallCancelled, CallEnds
<1>5. CASE OtherTraffic
  BY <1>1, <1>5 DEF OtherTraffic
<1>6. ASSUME NEW e \in Endpoints, NEW s \in Shards, StoreChanges(e, s)
      PROVE  PublishingInv'
  <2>1. /\ UNCHANGED <<step, shard, target, servedBy, createdFrom>>
        /\ blobs' \in [Endpoints -> SUBSET Shards] /\ lost' \subseteq Shards
        /\ \/ blobs' = [blobs EXCEPT ![e] = @ \cup {s}] /\ lost' = lost
           \/ /\ blobs' = [blobs EXCEPT ![e] = @ \ {s}]
              /\ lost' = IF servedBy[s] = e THEN lost \cup {s} ELSE lost
    BY <1>1, <1>6 DEF StoreChanges
  <2>2. ServedAreThere'
    BY <1>1, <2>1
  <2> QED
    BY <1>1, <2>1, <2>2
<1>7. CASE PublishingTick
  BY <1>1, <1>7 DEF PublishingTick
<1>8. CASE UNCHANGED publishingVars
  BY <1>1, <1>8 DEF publishingVars
<1> QED
  BY <1>2, <1>3, <1>4, <1>5, <1>6, <1>7, <1>8 DEF PublishingNext

\* When the model is created, every shard is in the store of a server that said
\* so, or took it, during this call, unless it has gone from there since; and
\* where the model was created there were all of them.
THEOREM PublishedShards == PublishingSpec => []ShardsAreSomewhere
<1>1. PublishingInv => ShardsAreSomewhere
  BY DEF PublishingInv, ServedAreThere, WalkIsComplete, CreatedFromAll, ShardsAreSomewhere
<1> QED
  BY PublishingStarts, PublishingStep, <1>1, PTL DEF PublishingSpec

-----------------------------------------------------------------------------
(* McpTools: what concatenation and SubSeq keep of an injective sequence.  *)

LEMMA ConcatIsInjective ==
    ASSUME NEW S, NEW s \in Seq(S), NEW t \in Seq(S), IsInjective(s), IsInjective(t),
           ToSet(s) \cap ToSet(t) = {}
    PROVE  IsInjective(s \o t)
<1> SUFFICES ASSUME NEW i \in DOMAIN (s \o t), NEW j \in DOMAIN (s \o t),
                    (s \o t)[i] = (s \o t)[j]
             PROVE  i = j
  BY DEF IsInjective
<1>1. /\ i \in 1 .. Len(s) + Len(t) /\ j \in 1 .. Len(s) + Len(t)
      /\ \A k \in 1 .. Len(s) + Len(t) :
            (s \o t)[k] = IF k <= Len(s) THEN s[k] ELSE t[k - Len(s)]
      /\ DOMAIN s = 1 .. Len(s) /\ DOMAIN t = 1 .. Len(t) /\ Len(s) \in Nat /\ Len(t) \in Nat
  BY ConcatProperties
<1>2. \A k \in 1 .. Len(s), m \in 1 .. Len(t) : s[k] # t[m]
  BY <1>1 DEF ToSet
<1>3. CASE i <= Len(s) /\ j <= Len(s)
  BY <1>1, <1>3 DEF IsInjective
<1>4. CASE i > Len(s) /\ j > Len(s)
  <2>1. i - Len(s) \in DOMAIN t /\ j - Len(s) \in DOMAIN t
    BY <1>1, <1>4
  <2>2. t[i - Len(s)] = t[j - Len(s)]
    BY <1>1, <1>4
  <2>3. i - Len(s) = j - Len(s)
    BY <2>1, <2>2 DEF IsInjective
  <2> QED
    BY <1>1, <2>3
<1>5. CASE i <= Len(s) /\ j > Len(s)
  <2>1. i \in 1 .. Len(s) /\ j - Len(s) \in 1 .. Len(t)
    BY <1>1, <1>5
  <2> QED
    BY <1>1, <1>2, <1>5, <2>1
<1>6. CASE i > Len(s) /\ j <= Len(s)
  <2>1. j \in 1 .. Len(s) /\ i - Len(s) \in 1 .. Len(t)
    BY <1>1, <1>6
  <2> QED
    BY <1>1, <1>2, <1>6, <2>1
<1> QED
  BY <1>1, <1>3, <1>4, <1>5, <1>6

LEMMA SubSeqIsInjective ==
    ASSUME NEW S, NEW s \in Seq(S), IsInjective(s),
           NEW m \in Nat \ {0}, NEW n \in 0 .. Len(s)
    PROVE  SubSeq(s, m, n) \in Seq(S) /\ IsInjective(SubSeq(s, m, n))
<1>1. Len(s) \in Nat /\ DOMAIN s = 1 .. Len(s)
  OBVIOUS
<1>2. /\ SubSeq(s, m, n) \in Seq(S)
      /\ DOMAIN SubSeq(s, m, n) = 1 .. (IF m <= n THEN n - m + 1 ELSE 0)
      /\ \A i \in 1 .. n - m + 1 : SubSeq(s, m, n)[i] = s[m + i - 1]
  BY <1>1
<1>3. ASSUME NEW i \in DOMAIN SubSeq(s, m, n), NEW j \in DOMAIN SubSeq(s, m, n),
             SubSeq(s, m, n)[i] = SubSeq(s, m, n)[j]
      PROVE  i = j
  <2>1. /\ m + i - 1 \in DOMAIN s /\ m + j - 1 \in DOMAIN s
        /\ i \in 1 .. n - m + 1 /\ j \in 1 .. n - m + 1
    BY <1>1, <1>2
  <2>2. s[m + i - 1] = s[m + j - 1]
    BY <1>2, <1>3, <2>1
  <2>3. m + i - 1 = m + j - 1
    BY <2>1, <2>2 DEF IsInjective
  <2> QED
    BY <2>1, <2>3
<1> QED
  BY <1>2, <1>3 DEF IsInjective

\* The names of two parts of an injective sequence, one after the other.
LEMMA PartsAreApart ==
    ASSUME NEW S, NEW s \in Seq(S), IsInjective(s), NEW m \in 0 .. Len(s),
           NEW n \in 0 .. Len(s), NEW k \in Nat, m < k
    PROVE  ToSet(SubSeq(s, 1, m)) \cap ToSet(SubSeq(s, k, n)) = {}
<1>1. Len(s) \in Nat /\ DOMAIN s = 1 .. Len(s)
  OBVIOUS
<1>2. \A i \in DOMAIN SubSeq(s, 1, m) : i \in 1 .. m /\ SubSeq(s, 1, m)[i] = s[i]
  BY <1>1
<1>3. \A j \in DOMAIN SubSeq(s, k, n) :
        k + j - 1 \in k .. n /\ SubSeq(s, k, n)[j] = s[k + j - 1]
  BY <1>1
<1>4. \A i \in 1 .. m, j \in k .. n : s[i] # s[j]
  BY <1>1 DEF IsInjective
<1> QED
  BY <1>2, <1>3, <1>4 DEF ToSet

-----------------------------------------------------------------------------
(* McpTools: proofs.                                                       *)

\* What a page that is not the last leaves in the listing's record.
LEMMA RecordsKeepTypes ==
    ASSUME NEW f \in [Listings -> ListingRecords], NEW l \in Listings,
           NEW all \in Seq(ToolNames), NEW next \in Nat
    PROVE  [f EXCEPT ![l].tools = all, ![l].pages = @ + 1, ![l].cursor = next,
                     ![l].seen = @ \cup {next}] \in [Listings -> ListingRecords]
<1> DEFINE r == [f[l] EXCEPT !.tools = all, !.pages = f[l].pages + 1, !.cursor = next,
                             !.seen = f[l].seen \cup {next}]
<1>1. r \in ListingRecords
  <2>1. f[l] \in ListingRecords
    OBVIOUS
  <2>2. PICK pages \in Nat, seen \in SUBSET Nat :
            pages = f[l].pages + 1 /\ seen = f[l].seen \cup {next}
    <3>1. f[l].pages + 1 \in Nat /\ f[l].seen \cup {next} \in SUBSET Nat
      BY <2>1 DEF ListingRecords
    <3> QED
      BY <3>1
  <2>3. r = [f[l] EXCEPT !.tools = all, !.pages = pages, !.cursor = next, !.seen = seen]
    BY <2>2
  <2> HIDE DEF r
  <2> QED
    BY <2>1, <2>3 DEF ListingRecords
<1>2. [f EXCEPT ![l].tools = all, ![l].pages = @ + 1, ![l].cursor = next,
                ![l].seen = @ \cup {next}] = [f EXCEPT ![l] = r]
  OBVIOUS
<1> HIDE DEF r
<1> QED
  BY <1>1, <1>2

LEMMA McpStarts == McpInit => McpInv
<1> SUFFICES ASSUME McpInit PROVE McpInv
  OBVIOUS
<1>1. catalogue \in Seq(ToolNames) /\ IsInjective(catalogue)
  <2>1. Cardinality(ToolNames) \in Nat
    BY McpAssumption, FS_CardinalityType
  <2>2. PICK n \in Nat : n = Cardinality(ToolNames)
    BY <2>1
  <2>3. /\ catalogue \in [1 .. n -> ToolNames]
        /\ \A i, j \in 1 .. n : i # j => catalogue[i] # catalogue[j]
    BY <2>2 DEF McpInit, SetToSeqs
  <2>4. catalogue \in Seq(ToolNames)
    BY <2>3, SeqDef
  <2> QED
    BY <2>3, <2>4 DEF IsInjective
<1>2. \A l \in Listings : listing[l] = NotBegun
  BY DEF McpInit
<1>3. McpTypes
  <2>1. NotBegun \in ListingRecords
    BY DEF NotBegun, ListingRecords
  <2>2. listing \in [Listings -> ListingRecords]
    BY <2>1 DEF McpInit
  <2> QED
    BY <1>1, <2>2 DEF McpInit, McpTypes
<1>4. CatalogueArrivesWhole
  <2>1. IsInjective(<<>>)
    BY DEF IsInjective
  <2>2. \A l \in Listings, n \in ToolNames : owner[n] # l
    BY McpAssumption DEF McpInit
  <2> QED
    BY <1>2, <2>1, <2>2 DEF CatalogueArrivesWhole, NotBegun
<1>5. \A l \in Listings : ListingOK(l)
  BY <1>2 DEF McpInit, NotBegun, ListingOK
<1> QED
  BY <1>3, <1>4, <1>5 DEF McpInv

\* A page is a part of the catalogue, each of its tools once.
LEMMA PageIsAPart ==
    ASSUME McpTypes, NEW cursor \in Nat
    PROVE  /\ Page(cursor).tools \in Seq(ToolNames)
           /\ IsInjective(Page(cursor).tools)
           /\ Page(cursor).next \in Nat
<1>1. PICK e \in 0 .. Len(catalogue) :
          Page(cursor).tools = SubSeq(catalogue, cursor + 1, e)
  <2>1. Len(catalogue) \in Nat /\ cursor + PageSize \in Nat
    BY McpAssumption DEF McpTypes, ListingRecords
  <2>2. (IF cursor + PageSize < Len(catalogue) THEN cursor + PageSize ELSE Len(catalogue))
            \in 0 .. Len(catalogue)
    BY <2>1
  <2> QED
    BY <2>2 DEF Page
<1>2. Page(cursor).next \in Nat
  BY McpAssumption DEF Page
<1> QED
  BY <1>1, <1>2, SubSeqIsInjective DEF McpTypes, ListingRecords

\* The page at a cursor within the catalogue continues what is before it, up to
\* its own end; and it is the last one when there is no cursor after it.
LEMMA PageContinues ==
    ASSUME McpTypes, NEW cursor \in 0 .. Len(catalogue)
    PROVE  \/ /\ Page(cursor).next = 0
              /\ SubSeq(catalogue, 1, cursor) \o Page(cursor).tools = catalogue
           \/ /\ Page(cursor).next = IF looping THEN PageSize ELSE cursor + PageSize
              /\ Page(cursor).next # 0
              /\ cursor + PageSize \in 0 .. Len(catalogue)
              /\ SubSeq(catalogue, 1, cursor) \o Page(cursor).tools
                    = SubSeq(catalogue, 1, cursor + PageSize)
<1>1. Len(catalogue) \in Nat /\ PageSize \in Nat \ {0} /\ catalogue \in Seq(ToolNames)
  BY McpAssumption DEF McpTypes, ListingRecords
<1>2. \A e \in cursor .. Len(catalogue) :
          SubSeq(catalogue, 1, cursor) \o SubSeq(catalogue, cursor + 1, e)
              = SubSeq(catalogue, 1, e)
  BY <1>1, ConcatAdjacentSubSeq
<1>3. CASE cursor + PageSize >= Len(catalogue)
  <2>1. /\ Page(cursor).tools = SubSeq(catalogue, cursor + 1, Len(catalogue))
        /\ Page(cursor).next = 0
    BY <1>1, <1>3 DEF Page
  <2>2. SubSeq(catalogue, 1, cursor) \o SubSeq(catalogue, cursor + 1, Len(catalogue))
            = SubSeq(catalogue, 1, Len(catalogue))
    <3>1. Len(catalogue) \in cursor .. Len(catalogue)
      BY <1>1
    <3> QED
      BY <1>2, <3>1
  <2>3. SubSeq(catalogue, 1, Len(catalogue)) = catalogue
    BY <1>1, SubSeqFull
  <2> QED
    BY <2>1, <2>2, <2>3
<1>4. CASE cursor + PageSize < Len(catalogue)
  <2>1. /\ Page(cursor).tools = SubSeq(catalogue, cursor + 1, cursor + PageSize)
        /\ Page(cursor).next = IF looping THEN PageSize ELSE cursor + PageSize
        /\ Page(cursor).next # 0
    BY <1>1, <1>4 DEF Page
  <2>2. cursor + PageSize \in cursor .. Len(catalogue)
    BY <1>1, <1>4
  <2>3. SubSeq(catalogue, 1, cursor) \o SubSeq(catalogue, cursor + 1, cursor + PageSize)
            = SubSeq(catalogue, 1, cursor + PageSize)
    BY <1>2, <2>2
  <2>4. cursor + PageSize \in 0 .. Len(catalogue)
    BY <1>1, <1>4
  <2> QED
    BY <2>1, <2>3, <2>4
<1>5. cursor + PageSize >= Len(catalogue) \/ cursor + PageSize < Len(catalogue)
  BY <1>1
<1> QED
  BY <1>3, <1>4, <1>5
\* The server's own changes leave each name once, and date every listing.
LEMMA ChangesKeepNames ==
    ASSUME McpTypes, CatalogueChanges
    PROVE  catalogue' \in Seq(ToolNames) /\ IsInjective(catalogue')
<1>1. catalogue \in Seq(ToolNames) /\ IsInjective(catalogue) /\ Len(catalogue) \in Nat
  BY DEF McpTypes, ListingRecords
<1>2. ASSUME NEW i \in DOMAIN catalogue, catalogue' = RemoveAt(catalogue, i)
      PROVE  catalogue' \in Seq(ToolNames) /\ IsInjective(catalogue')
  <2>1. i \in 1 .. Len(catalogue)
    BY <1>1
  <2>2. /\ i - 1 \in 0 .. Len(catalogue) /\ i + 1 \in Nat \ {0} /\ i - 1 < i + 1
        /\ Len(catalogue) \in 0 .. Len(catalogue) /\ 1 \in Nat \ {0} /\ i + 1 \in Nat
    BY <1>1, <2>1
  <2> DEFINE before == SubSeq(catalogue, 1, i - 1)
             after == SubSeq(catalogue, i + 1, Len(catalogue))
  <2>3. before \in Seq(ToolNames) /\ IsInjective(before)
    BY <1>1, <2>2, SubSeqIsInjective
  <2>4. after \in Seq(ToolNames) /\ IsInjective(after)
    BY <1>1, <2>2, SubSeqIsInjective
  <2>5. ToSet(before) \cap ToSet(after) = {}
    BY <1>1, <2>2, PartsAreApart
  <2>6. catalogue' = before \o after
    BY <1>2 DEF RemoveAt
  <2> HIDE DEF before, after
  <2> QED
    BY <2>3, <2>4, <2>5, <2>6, ConcatIsInjective, ConcatProperties
<1>3. ASSUME NEW n \in ToolNames \ ToSet(catalogue), catalogue' = <<n>> \o catalogue
      PROVE  catalogue' \in Seq(ToolNames) /\ IsInjective(catalogue')
  <2>1. <<n>> \in Seq(ToolNames) /\ IsInjective(<<n>>)
    BY DEF IsInjective
  <2>2. ToSet(<<n>>) \cap ToSet(catalogue) = {}
    BY DEF ToSet
  <2> QED
    BY <1>1, <1>3, <2>1, <2>2, ConcatIsInjective, ConcatProperties
<1> QED
  BY <1>2, <1>3 DEF CatalogueChanges

\* A page that is not refused, as the listing of l records it.
LEMMA ListingReceives ==
    ASSUME McpInv, NEW l \in Listings, ReceivesPage(l),
           ~IsRefused(l, Page(listing[l].cursor))
    PROVE  LET page == Page(listing[l].cursor)
               tools == listing[l].tools \o page.tools
           IN  /\ tools \in Seq(ToolNames) /\ IsInjective(tools)
               /\ listing[l].began = changes => IsUpToCursor(l)
               /\ page.next \in Nat
<1>1. /\ listing[l].cursor \in Nat /\ listing[l].tools \in Seq(ToolNames)
      /\ IsInjective(listing[l].tools) /\ listing[l].at = "listing" /\ McpTypes
  BY DEF McpInv, McpTypes, ListingRecords, CatalogueArrivesWhole, ReceivesPage
<1>2. ToSet(listing[l].tools) \cap ToSet(Page(listing[l].cursor).tools) = {}
  BY DEF IsRefused
<1>3. /\ Page(listing[l].cursor).tools \in Seq(ToolNames)
      /\ IsInjective(Page(listing[l].cursor).tools)
      /\ Page(listing[l].cursor).next \in Nat
  BY <1>1, PageIsAPart
<1>4. /\ listing[l].tools \o Page(listing[l].cursor).tools \in Seq(ToolNames)
      /\ IsInjective(listing[l].tools \o Page(listing[l].cursor).tools)
  BY <1>1, <1>2, <1>3, ConcatIsInjective, ConcatProperties
<1>5. listing[l].began = changes => IsUpToCursor(l)
  BY <1>1 DEF McpInv, ListingOK
<1> QED
  BY <1>3, <1>4, <1>5

\* What one listing's step leaves of the others.
LEMMA OthersAreUntouched ==
    ASSUME McpInv, NEW l \in Listings,
           \A k \in Listings \ {l} : listing'[k] = listing[k],
           \A k \in Listings \ {l}, n \in ToolNames : owner'[n] = k => owner[n] = k,
           McpTypes', UNCHANGED <<catalogue, changes, looping>>,
           IsInjective(listing'[l].tools),
           listing'[l].at # "registered" => \A n \in ToolNames : owner'[n] # l,
           (listing'[l].at = "registered" /\ listing'[l].began = changes) =>
              listing'[l].tools = catalogue,
           ListingOK(l)'
    PROVE  McpInv'
<1>1. CatalogueArrivesWhole'
  <2> SUFFICES ASSUME NEW k \in Listings
               PROVE  /\ IsInjective(listing'[k].tools)
                      /\ listing'[k].at # "registered" => \A n \in ToolNames : owner'[n] # k
                      /\ (listing'[k].at = "registered" /\ listing'[k].began = changes') =>
                            listing'[k].tools = catalogue'
    BY DEF CatalogueArrivesWhole
  <2>1. CASE k = l
    BY <2>1
  <2>2. CASE k # l
    BY <2>2 DEF McpInv, CatalogueArrivesWhole
  <2> QED
    BY <2>1, <2>2
<1>2. ASSUME NEW k \in Listings PROVE ListingOK(k)'
  <2>1. CASE k = l
    BY <2>1
  <2>2. CASE k # l
    <3>1. ListingOK(k) /\ listing'[k] = listing[k]
      BY <2>2 DEF McpInv
    <3> QED
      BY <3>1 DEF ListingOK, IsUpToCursor
  <2> QED
    BY <2>1, <2>2
<1> QED
  BY <1>1, <1>2 DEF McpInv
\* A page arrives: refused, the last one, or one of more to come.
LEMMA PagesKeepListings ==
    ASSUME McpInv, NEW l \in Listings, ReceivesPage(l)
    PROVE  McpInv'
<1> DEFINE page == Page(listing[l].cursor)
           tools == listing[l].tools \o page.tools
<1>1. /\ McpTypes /\ CatalogueArrivesWhole /\ ListingOK(l)
      /\ listing[l].at = "listing" /\ UNCHANGED <<catalogue, changes, looping>>
  BY DEF McpInv, ReceivesPage
<1>2. \A n \in ToolNames : owner[n] # l
  BY <1>1 DEF CatalogueArrivesWhole
<1>3. IsInjective(listing[l].tools)
  BY <1>1 DEF CatalogueArrivesWhole
<1>4. CASE IsRefused(l, page)
  <2>1. listing' = [listing EXCEPT ![l].at = "failed"] /\ UNCHANGED owner
    BY <1>4 DEF ReceivesPage
  <2>2. McpTypes'
    BY <1>1, <2>1 DEF McpTypes, ListingRecords
  <2>3. /\ listing'[l].at = "failed" /\ listing'[l].tools = listing[l].tools
        /\ listing'[l].cursor = listing[l].cursor /\ listing'[l].seen = listing[l].seen
        /\ listing'[l].began = listing[l].began
        /\ \A k \in Listings \ {l} : listing'[k] = listing[k]
    BY <1>1, <2>1 DEF McpTypes, ListingRecords
  <2>4. ListingOK(l)'
    BY <1>1, <2>3 DEF ListingOK
  <2> QED
    BY <1>1, <1>2, <1>3, <2>1, <2>2, <2>3, <2>4, OthersAreUntouched
<1>5. CASE ~IsRefused(l, page) /\ Complete(l, page)
  <2>1. /\ listing' = [listing EXCEPT ![l].at = "registered", ![l].tools = tools]
        /\ Registered(l, tools)
    BY <1>5 DEF ReceivesPage
  <2>2. /\ tools \in Seq(ToolNames) /\ IsInjective(tools)
        /\ listing[l].began = changes => IsUpToCursor(l)
    BY <1>5, ListingReceives
  <2>3. McpTypes'
    <3>1. owner' \in [ToolNames -> Listings \cup {Local, NobodyOwns}]
      BY <1>1, <2>1 DEF Registered, McpTypes, ListingRecords
    <3>2. UNCHANGED <<catalogue, changes, looping>>
      BY <1>5 DEF ReceivesPage
    <3> HIDE DEF tools
    <3>3. listing' \in [Listings -> ListingRecords]
      <4>1. [listing[l] EXCEPT !.at = "registered", !.tools = tools] \in ListingRecords
        BY <1>1, <2>2 DEF McpTypes, ListingRecords
      <4> QED BY <1>1, <2>1, <4>1 DEF McpTypes
    <3> QED
      BY <1>1, <3>1, <3>2, <3>3 DEF McpTypes
  <2>4. /\ listing'[l].at = "registered" /\ listing'[l].tools = tools
        /\ listing'[l].cursor = listing[l].cursor /\ listing'[l].seen = listing[l].seen
        /\ listing'[l].began = listing[l].began
        /\ \A k \in Listings \ {l} : listing'[k] = listing[k]
    BY <1>1, <2>1 DEF McpTypes, ListingRecords
  <2>5. ListingOK(l)'
    BY <1>1, <2>4 DEF ListingOK
  <2>6. \A k \in Listings \ {l}, n \in ToolNames : owner'[n] = k => owner[n] = k
    BY <2>1 DEF Registered
  <2>7. listing'[l].began = changes => listing'[l].tools = catalogue
    <3> SUFFICES ASSUME listing[l].began = changes
                 PROVE  tools = catalogue
      BY <2>4
    <3>1. /\ listing[l].cursor \in 0 .. Len(catalogue)
          /\ tools = SubSeq(catalogue, 1, listing[l].cursor) \o page.tools
      <4>1. IsUpToCursor(l) /\ listing[l].cursor \in Nat /\ Len(catalogue) \in Nat
        BY <1>1, <2>2 DEF McpTypes, ListingRecords
      <4>2. listing[l].cursor \in 0 .. Len(catalogue)
        BY <4>1 DEF IsUpToCursor
      <4> QED
        BY <4>1, <4>2 DEF IsUpToCursor
    <3>2. page.next = 0
      BY <1>5 DEF Complete
    <3> QED
      BY <1>1, <3>1, <3>2, PageContinues
  <2> HIDE DEF tools
  <2> QED
    BY <1>1, <2>2, <2>3, <2>4, <2>5, <2>6, <2>7, OthersAreUntouched
<1>6. CASE ~IsRefused(l, page) /\ ~Complete(l, page)
  <2>1. /\ listing' = [listing EXCEPT ![l].tools = tools, ![l].pages = @ + 1,
              ![l].cursor = page.next, ![l].seen = @ \cup {page.next}]
        /\ UNCHANGED owner
    BY <1>6 DEF ReceivesPage
  <2>2. /\ tools \in Seq(ToolNames) /\ IsInjective(tools)
        /\ listing[l].began = changes => IsUpToCursor(l)
        /\ page.next \in Nat
    BY <1>6, ListingReceives
  <2>3. page.next # 0 /\ page.next \notin listing[l].seen
    BY <1>6 DEF IsRefused, Complete
  <2>4. McpTypes'
    <3>1. PICK next \in Nat, all \in Seq(ToolNames) : next = page.next /\ all = tools
      BY <2>2
    <3> HIDE DEF tools, page
    <3>2. listing' = [listing EXCEPT ![l].tools = all, ![l].pages = @ + 1,
              ![l].cursor = next, ![l].seen = @ \cup {next}]
      BY <2>1, <3>1
    <3>3. listing' \in [Listings -> ListingRecords]
      BY <1>1, <3>1, <3>2, RecordsKeepTypes DEF McpTypes, ListingRecords
    <3> QED
      BY <1>1, <2>1, <3>3 DEF McpTypes, ListingRecords
  <2>5. /\ listing'[l].at = "listing" /\ listing'[l].tools = tools
        /\ listing'[l].cursor = page.next
        /\ listing'[l].seen = listing[l].seen \cup {page.next}
        /\ listing'[l].began = listing[l].began
        /\ \A k \in Listings \ {l} : listing'[k] = listing[k]
    BY <1>1, <2>1 DEF McpTypes, ListingRecords
  <2>6. ASSUME listing[l].began = changes
        PROVE  /\ page.next <= Len(catalogue)
               /\ tools = SubSeq(catalogue, 1, page.next)
               /\ looping => page.next = PageSize
    <3>1. /\ listing[l].cursor \in 0 .. Len(catalogue)
          /\ tools = SubSeq(catalogue, 1, listing[l].cursor) \o page.tools
      <4>1. IsUpToCursor(l) /\ listing[l].cursor \in Nat /\ Len(catalogue) \in Nat
        BY <1>1, <2>2, <2>6 DEF McpTypes, ListingRecords
      <4>2. listing[l].cursor \in 0 .. Len(catalogue)
        BY <4>1 DEF IsUpToCursor
      <4> QED
        BY <4>1, <4>2 DEF IsUpToCursor
    <3>2. /\ page.next = IF looping THEN PageSize ELSE listing[l].cursor + PageSize
          /\ listing[l].cursor + PageSize \in 0 .. Len(catalogue)
          /\ tools = SubSeq(catalogue, 1, listing[l].cursor + PageSize)
      BY <1>1, <2>3, <3>1, PageContinues
    <3>3. looping => listing[l].cursor = 0
      BY <1>1, <2>3, <3>2 DEF ListingOK
    <3>4. page.next = listing[l].cursor + PageSize
      BY <3>2, <3>3, McpAssumption
    <3> HIDE DEF tools, page
    <3> QED
      BY <3>2, <3>4
  <2>7. looping => page.next = PageSize
    BY <1>1, <2>3, McpAssumption DEF Page, McpTypes, ListingRecords
  <2>8. ListingOK(l)'
    <3> HIDE DEF tools, page
    <3> QED
      BY <1>1, <2>5, <2>6, <2>7 DEF ListingOK, IsUpToCursor
  <2> HIDE DEF tools, page
  <2> QED
    BY <1>1, <1>2, <2>1, <2>2, <2>4, <2>5, <2>8, OthersAreUntouched
<1> QED
  BY <1>4, <1>5, <1>6

LEMMA McpStep == McpInv /\ [McpNext]_mcpVars => McpInv'
<1> SUFFICES ASSUME McpInv, [McpNext]_mcpVars PROVE McpInv'
  OBVIOUS
<1>1. McpTypes /\ CatalogueArrivesWhole /\ \A l \in Listings : ListingOK(l)
  BY DEF McpInv
<1>2. CASE CatalogueChanges
  <2>1. McpTypes'
    <3>1. changes' \in Nat /\ UNCHANGED <<listing, owner, looping>>
      BY <1>1, <1>2 DEF CatalogueChanges, McpTypes, ListingRecords
    <3> QED
      BY <1>1, <1>2, <3>1, ChangesKeepNames DEF McpTypes, ListingRecords
  <2>2. \A l \in Listings : listing[l].began # changes' /\ listing[l].began <= changes'
    BY <1>1, <1>2 DEF CatalogueChanges, McpTypes, ListingRecords, ListingOK
  <2>3. CatalogueArrivesWhole'
    BY <1>1, <1>2, <2>2 DEF CatalogueChanges, CatalogueArrivesWhole
  <2>4. \A l \in Listings : ListingOK(l)'
    BY <1>1, <1>2, <2>2 DEF CatalogueChanges, ListingOK
  <2> QED
    BY <2>1, <2>3, <2>4 DEF McpInv
<1>3. ASSUME NEW n \in ToolNames, RegistersLocal(n)
      PROVE  McpInv'
  <2>1. owner' = [owner EXCEPT ![n] = Local] /\ UNCHANGED <<catalogue, changes, listing, looping>>
    BY <1>3 DEF RegistersLocal
  <2>2. McpTypes'
    BY <1>1, <2>1 DEF McpTypes, ListingRecords
  <2>3. \A l \in Listings, m \in ToolNames : owner'[m] = l => owner[m] = l
    BY <1>1, <2>1, McpAssumption DEF McpTypes, ListingRecords
  <2>4. CatalogueArrivesWhole'
    BY <1>1, <2>1, <2>3 DEF CatalogueArrivesWhole
  <2>5. \A l \in Listings : ListingOK(l)'
    BY <1>1, <2>1 DEF ListingOK, IsUpToCursor
  <2> QED
    BY <2>2, <2>4, <2>5 DEF McpInv
<1>4. ASSUME NEW l \in Listings, ListingBegins(l)
      PROVE  McpInv'
  <2>1. /\ listing' = [listing EXCEPT ![l].at = "listing", ![l].began = changes]
        /\ listing[l].at = "idle" /\ UNCHANGED <<catalogue, changes, owner, looping>>
    BY <1>4 DEF ListingBegins
  <2>2. McpTypes'
    BY <1>1, <2>1 DEF McpTypes, ListingRecords
  <2>3. /\ listing'[l].at = "listing" /\ listing'[l].tools = listing[l].tools
        /\ listing'[l].cursor = listing[l].cursor /\ listing'[l].seen = listing[l].seen
        /\ listing'[l].began = changes
        /\ \A k \in Listings \ {l} : listing'[k] = listing[k]
    BY <1>1, <2>1 DEF McpTypes, ListingRecords
  <2>4. listing[l].cursor = 0 /\ listing[l].tools = <<>>
    BY <1>1, <2>1 DEF ListingOK
  <2>5. ListingOK(l)'
    <3>1. SubSeq(catalogue, 1, 0) = <<>> /\ 0 <= Len(catalogue) /\ changes <= changes
      BY <1>1 DEF McpTypes, ListingRecords
    <3> QED
      BY <2>1, <2>3, <2>4, <3>1 DEF ListingOK, IsUpToCursor
  <2> QED
    BY <1>1, <2>1, <2>2, <2>3, <2>5, OthersAreUntouched DEF CatalogueArrivesWhole
<1>5. ASSUME NEW l \in Listings, ReceivesPage(l)
      PROVE  McpInv'
  BY <1>5, PagesKeepListings
<1>6. ASSUME NEW l \in Listings, ListingFails(l)
      PROVE  McpInv'
  <2>1. /\ listing' = [listing EXCEPT ![l].at = "failed"]
        /\ listing[l].at = "listing" /\ UNCHANGED <<catalogue, changes, owner, looping>>
    BY <1>6 DEF ListingFails
  <2>2. McpTypes'
    BY <1>1, <2>1 DEF McpTypes, ListingRecords
  <2>3. /\ listing'[l].at = "failed" /\ listing'[l].tools = listing[l].tools
        /\ listing'[l].cursor = listing[l].cursor /\ listing'[l].seen = listing[l].seen
        /\ listing'[l].began = listing[l].began
        /\ \A k \in Listings \ {l} : listing'[k] = listing[k]
    BY <1>1, <2>1 DEF McpTypes, ListingRecords
  <2>4. ListingOK(l)'
    BY <1>1, <2>1, <2>3 DEF ListingOK
  <2> QED
    BY <1>1, <2>1, <2>2, <2>3, <2>4, OthersAreUntouched DEF CatalogueArrivesWhole
<1>7. CASE UNCHANGED mcpVars
  <2>1. McpTypes'
    BY <1>1, <1>7 DEF mcpVars, McpTypes, ListingRecords
  <2>2. CatalogueArrivesWhole'
    BY <1>1, <1>7 DEF mcpVars, CatalogueArrivesWhole
  <2>3. \A l \in Listings : ListingOK(l)'
    BY <1>1, <1>7 DEF mcpVars, ListingOK, IsUpToCursor
  <2> QED
    BY <2>1, <2>2, <2>3 DEF McpInv
<1> QED
  BY <1>2, <1>3, <1>4, <1>5, <1>6, <1>7 DEF McpNext

\* A listing that ends while the catalogue is what it was when it began has all
\* of it, each tool once; no listing, whatever the server does, ends with two
\* tools of one name or owns a tool before it ends.
THEOREM WholeCatalogues == McpSpec => []CatalogueArrivesWhole
<1>1. McpInv => CatalogueArrivesWhole
  BY DEF McpInv
<1> QED
  BY McpStarts, McpStep, <1>1, PTL DEF McpSpec
==============================================================================
