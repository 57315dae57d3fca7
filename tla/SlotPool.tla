------------------------------ MODULE SlotPool ------------------------------
(***************************************************************************)
(* What executeWithFailover promises of its endpoints' slots, whatever the *)
(* queue, the circuit breaker, the retries and the timers inside do: a     *)
(* request enters an endpoint only while that has a free slot, moves on to *)
(* other endpoints without being counted twice or left behind, gives its   *)
(* last slot back exactly once, and is answered exactly once.  Module      *)
(* Failover implements this one.                                           *)
(***************************************************************************)
EXTENDS Integers

CONSTANTS Requests, Endpoints, Cap, NoCap, Nowhere

VARIABLES
    place,   \* the endpoint whose slot each request holds
    load,    \* the slots in use
    answer   \* what each caller got, or "none"

poolVars == <<place, load, answer>>

PoolInit ==
    /\ place = [r \in Requests |-> Nowhere]
    /\ load = [e \in Endpoints |-> 0]
    /\ answer = [r \in Requests |-> "none"]

-----------------------------------------------------------------------------

\* Only the first endpoint of a request is chosen for its free slot.
Enter(r, e) ==
    /\ place[r] = Nowhere /\ answer[r] = "none"
    /\ Cap = NoCap \/ load[e] < Cap
    /\ place' = [place EXCEPT ![r] = e]
    /\ load' = [load EXCEPT ![e] = @ + 1]
    /\ UNCHANGED answer

Move(r, e) ==
    /\ place[r] \notin {Nowhere, e} /\ answer[r] = "none"
    /\ place' = [place EXCEPT ![r] = e]
    /\ load' = [load EXCEPT ![place[r]] = @ - 1, ![e] = @ + 1]
    /\ UNCHANGED answer

\* A stream is handed over and keeps its slot.
HandOver(r) ==
    /\ place[r] # Nowhere /\ answer[r] = "none"
    /\ answer' = [answer EXCEPT ![r] = "ok"]
    /\ UNCHANGED <<place, load>>

Leave(r, how) ==
    /\ place[r] # Nowhere
    /\ place' = [place EXCEPT ![r] = Nowhere]
    /\ load' = [load EXCEPT ![place[r]] = @ - 1]
    /\ answer' = [answer EXCEPT ![r] = IF @ = "none" THEN how ELSE @]

\* No endpoint for them, or their signals fired while they queued.
Refuse(S, how) ==
    /\ \A r \in S : place[r] = Nowhere /\ answer[r] = "none"
    /\ answer' = [r \in Requests |-> IF r \in S THEN how ELSE answer[r]]
    /\ UNCHANGED <<place, load>>

Answers ==
    {"ok", "unroutable", "server_error", "client_error", "timeout", "aborted"}

PoolNext ==
    \/ \E r \in Requests, e \in Endpoints : Enter(r, e) \/ Move(r, e)
    \/ \E r \in Requests : HandOver(r)
    \/ \E r \in Requests, how \in Answers : Leave(r, how)
    \/ \E S \in SUBSET Requests, how \in Answers : Refuse(S, how)

PoolSpec == PoolInit /\ [][PoolNext]_poolVars
=============================================================================
