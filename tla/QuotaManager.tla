----------------------------- MODULE QuotaManager -----------------------------
(***************************************************************************)
(* QuotaManager (src/quota.ts) and the callers that ask it before an       *)
(* awaited request and record the usage after it.  Windows roll over       *)
(* lazily, when somebody looks at them; only the age of a window is kept,  *)
(* up to its length.                                                       *)
(***************************************************************************)
EXTENDS Integers, FiniteSets

CONSTANTS
    WindowCount,    \* options.windows, in order
    WindowMs,       \* length of each window, in clock ticks
    MaxRequests,
    MaxTokens,
    NoLimit,        \* a budget the window does not set
    Callers,
    MaxCost         \* bound: the tokens of one request, estimated or real

Windows == 1 .. WindowCount

ASSUME QuotaAssumption ==
    /\ WindowCount \in Nat \ {0} /\ MaxCost \in Nat
    /\ IsFiniteSet(Callers) /\ Callers # {}
    /\ WindowMs \in [Windows -> Nat \ {0}]
    /\ MaxRequests \in [Windows -> Nat \cup {NoLimit}]
    /\ MaxTokens \in [Windows -> Nat \cup {NoLimit}]
    /\ NoLimit \notin Nat

VARIABLES
    requestsMade,
    tokensUsed,
    windowAge,  \* now() - windowStartedAt
    inFlight    \* callers that were let through and have not recorded yet

quotaVars == <<requestsMade, tokensUsed, windowAge, inFlight>>

Zeroed == [w \in Windows |-> 0]

QuotaTypeOK ==
    /\ requestsMade \in [Windows -> Nat] /\ tokensUsed \in [Windows -> Nat]
    /\ windowAge \in [Windows -> Nat]
    /\ inFlight \subseteq Callers

QuotaInit ==
    requestsMade = Zeroed /\ tokensUsed = Zeroed /\ windowAge = Zeroed /\ inFlight = {}

-----------------------------------------------------------------------------

Expired(w) == windowAge[w] >= WindowMs[w]

\* What a counter is once its window has been looked at.
Current(counter, w) == IF Expired(w) THEN 0 ELSE counter[w]

\* Mutant: a full budget still lets one through.
Fits_OffByOne(w, estimate) ==
    /\ MaxRequests[w] # NoLimit => Current(requestsMade, w) <= MaxRequests[w]
    /\ MaxTokens[w] # NoLimit => Current(tokensUsed, w) + estimate <= MaxTokens[w]

Fits(w, estimate) ==
    /\ MaxRequests[w] # NoLimit => Current(requestsMade, w) + 1 <= MaxRequests[w]
    /\ MaxTokens[w] # NoLimit => Current(tokensUsed, w) + estimate <= MaxTokens[w]

\* rollover() of the windows in S; their counters then change by the amounts given.
LooksAt(S, requests, tokens) ==
    LET after(counter, amount) ==
            [w \in Windows |-> IF w \in S THEN Current(counter, w) + amount ELSE counter[w]]
    IN
    /\ requestsMade' = after(requestsMade, requests)
    /\ tokensUsed' = after(tokensUsed, tokens)
    /\ windowAge' = [w \in Windows |-> IF w \in S /\ Expired(w) THEN 0 ELSE windowAge[w]]

\* assertCanProceed() passes, and the caller sends its request.
Admits(c, estimate) ==
    /\ c \in Callers \ inFlight
    /\ \A w \in Windows : Fits(w, estimate)
    /\ LooksAt(Windows, 0, 0)
    /\ inFlight' = inFlight \cup {c}

\* assertCanProceed() throws, canProceed() is false: the loop ends at the
\* first window that refuses, and those behind it are not looked at.
Refuses(estimate) ==
    /\ \E w \in Windows :
        /\ ~Fits(w, estimate) /\ \A v \in 1 .. w - 1 : Fits(v, estimate)
        /\ LooksAt(1 .. w, 0, 0)
    /\ UNCHANGED inFlight

\* recordUsage(), for every window, however full.
RecordUsage(c, tokens) ==
    /\ c \in inFlight
    /\ LooksAt(Windows, 1, tokens)
    /\ inFlight' = inFlight \ {c}

\* A request that failed is not recorded.
RequestFails(c) ==
    /\ c \in inFlight
    /\ inFlight' = inFlight \ {c}
    /\ UNCHANGED <<requestsMade, tokensUsed, windowAge>>

Status == LooksAt(Windows, 0, 0) /\ UNCHANGED inFlight

\* reset(), of one window or of all.
ResetWindows(S) ==
    LET cleared(counter) == [w \in Windows |-> IF w \in S THEN 0 ELSE counter[w]] IN
    /\ requestsMade' = cleared(requestsMade) /\ tokensUsed' = cleared(tokensUsed)
    /\ windowAge' = cleared(windowAge)
    /\ UNCHANGED inFlight

QuotaTick ==
    /\ windowAge' = [w \in Windows |-> IF Expired(w) THEN windowAge[w] ELSE windowAge[w] + 1]
    /\ UNCHANGED <<requestsMade, tokensUsed, inFlight>>

QuotaNext ==
    \/ \E c \in Callers, tokens \in 0 .. MaxCost : Admits(c, tokens) \/ RecordUsage(c, tokens)
    \/ \E estimate \in 0 .. MaxCost : Refuses(estimate)
    \/ \E c \in Callers : RequestFails(c)
    \/ \E S \in {Windows} \cup {{w} : w \in Windows} : ResetWindows(S)
    \/ Status
    \/ QuotaTick

QuotaSpec == QuotaInit /\ [][QuotaNext]_quotaVars

-----------------------------------------------------------------------------
(* Properties.                                                             *)

\* assertCanProceed() and recordUsage() are apart, around an awaited request:
\* a window goes over its budget, but never by more than what the callers in
\* flight at once can add, and by no request at all with a single caller.
OverrunBounded ==
    \A w \in Windows :
        /\ MaxRequests[w] # NoLimit =>
            requestsMade[w] + Cardinality(inFlight) + 1 <= MaxRequests[w] + Cardinality(Callers)
        /\ MaxTokens[w] # NoLimit =>
            tokensUsed[w] + MaxCost * Cardinality(inFlight)
                <= MaxTokens[w] + MaxCost * Cardinality(Callers)
===============================================================================
