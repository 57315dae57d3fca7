-------------------------------- MODULE Agent --------------------------------
(***************************************************************************)
(* Agent.run (src/agent/agent.ts): ask the model, run the tools it asks    *)
(* for, append their results to the history, ask again, within budgets on  *)
(* iterations, tool calls and repetitions of one call.                     *)
(*                                                                         *)
(* A step is what the loop does between two awaits: the capabilities       *)
(* check, chat() and executeToolCalls().  The hooks of AgentHooks do not   *)
(* throw here; onError may.                                                *)
(***************************************************************************)
EXTENDS ToolRegistry

CONSTANTS
    MaxIterations,
    MaxToolCalls,
    MaxRepeatedToolCalls,
    MaxBatch            \* bound: the tool calls of one answer

ASSUME BudgetsAssumption ==
    /\ MaxIterations \in Nat /\ MaxToolCalls \in Nat
    /\ MaxRepeatedToolCalls \in Nat \ {0} /\ MaxBatch \in Nat

VARIABLES
    at,                 \* the await the loop is at
    iteration,
    history,            \* what was appended to input.messages
    toolCallsExecuted,
    signatureCounts,
    sendable,           \* the chat under way was sent before the abort
    outcome             \* of the promise run() returned

loopVars ==
    <<at, iteration, history, toolCallsExecuted, signatureCounts, sendable, outcome>>
vars == <<toolVars, loopVars>>

Assistant(batch) == [role |-> "assistant", calls |-> batch]
Tool(result) == [role |-> "tool", calls |-> <<result.call>>]

Batches == UNION {[1 .. n -> Calls] : n \in 0 .. MaxBatch}

Outcomes == {"pending", "answered", "incompatible", "failed", "maxToolCalls",
             "toolLoop", "maxIterations", "onErrorThrew"}

TypeOK ==
    /\ toolCalls \in Batches
    /\ DOMAIN results = DOMAIN toolCalls
    /\ \A i \in DOMAIN results :
        results[i] \in {Queued, Running} \cup [call : Calls, success : BOOLEAN]
    /\ nextIndex \in 1 .. MaxBatch + 1
    /\ pool \in {"idle", "pending", "resolved", "rejected"}
    /\ started \in Seq(Calls)
    /\ aborted \in BOOLEAN
    /\ at \in {"capabilities", "chat", "tools", "end"}
    /\ iteration \in 0 .. MaxIterations
    /\ history \in Seq([role : {"assistant", "tool"}, calls : Batches \cup [{1} -> Calls]])
    /\ toolCallsExecuted \in Nat
    /\ signatureCounts \in [Calls -> Nat]
    /\ sendable \in BOOLEAN
    /\ outcome \in Outcomes

Init ==
    /\ ToolsInit
    /\ at = "capabilities"
    /\ iteration = 0
    /\ history = <<>>
    /\ toolCallsExecuted = 0
    /\ signatureCounts = [c \in Calls |-> 0]
    /\ sendable = FALSE
    /\ outcome = "pending"

-----------------------------------------------------------------------------

Ends(how) == at' = "end" /\ outcome' = how

\* The head of the for loop, up to the await on chat().
NextIteration ==
    IF iteration < MaxIterations
    THEN at' = "chat" /\ iteration' = iteration + 1 /\ sendable' = ~aborted /\ UNCHANGED outcome
    ELSE Ends("maxIterations") /\ UNCHANGED <<iteration, sendable>>

ModelChecked ==
    /\ at = "capabilities"
    /\ \/ NextIteration
       \/ \E how \in {"incompatible", "failed"} : Ends(how) /\ UNCHANGED <<iteration, sendable>>
    /\ UNCHANGED <<toolVars, history, toolCallsExecuted, signatureCounts>>

\* chat() rejects: a failure, or the abort, at once when it came first.
ChatFails ==
    /\ at = "chat"
    /\ Ends("failed")
    /\ UNCHANGED <<toolVars, iteration, history, toolCallsExecuted, signatureCounts, sendable>>

Repeats(batch, c) == Cardinality({i \in DOMAIN batch : batch[i] = c})

\* Mutant: only what has run is counted, not the batch about to run.
OverBudget_IgnoresBatch(batch) == toolCallsExecuted > MaxToolCalls

OverBudget(batch) == toolCallsExecuted + Len(batch) > MaxToolCalls

Loops(batch) ==
    \E c \in Calls :
        Repeats(batch, c) > 0 /\ signatureCounts[c] + Repeats(batch, c) > MaxRepeatedToolCalls

\* The model's answer: the last one, one the budgets refuse, or a batch to run.
ChatAnswers(batch) ==
    /\ at = "chat" /\ sendable
    /\ history' = Append(history, Assistant(batch))
    /\ \/ /\ batch = <<>>
          /\ Ends("answered")
          /\ UNCHANGED <<toolVars, signatureCounts>>
       \/ /\ batch # <<>> /\ OverBudget(batch)
          /\ Ends("maxToolCalls")
          /\ UNCHANGED <<toolVars, signatureCounts>>
       \/ /\ batch # <<>> /\ ~OverBudget(batch) /\ Loops(batch)
          /\ Ends("toolLoop")
          /\ UNCHANGED <<toolVars, signatureCounts>>
       \/ /\ batch # <<>> /\ ~OverBudget(batch) /\ ~Loops(batch)
          /\ signatureCounts' = [c \in Calls |-> signatureCounts[c] + Repeats(batch, c)]
          /\ ExecuteToolCalls(batch)
          /\ at' = "tools"
          /\ UNCHANGED <<aborted, outcome>>
    /\ UNCHANGED <<iteration, toolCallsExecuted, sendable>>

PoolDone == pool = "resolved"

\* The results in the order of the calls, then the next iteration.
ToolsReturn ==
    /\ at = "tools" /\ PoolDone
    /\ history' = history \o [i \in DOMAIN results |-> Tool(results[i])]
    /\ toolCallsExecuted' = toolCallsExecuted + Len(toolCalls)
    /\ NextIteration
    /\ UNCHANGED <<toolVars, signatureCounts>>

\* Mutant: the abort ends the wait for the tools.
ToolsReject_OnAbort ==
    /\ at = "tools"
    /\ pool = "rejected" \/ aborted
    /\ Ends(IF pool = "rejected" THEN "onErrorThrew" ELSE "failed")
    /\ UNCHANGED <<toolVars, iteration, history, toolCallsExecuted, signatureCounts, sendable>>

ToolsReject ==
    /\ at = "tools" /\ pool = "rejected"
    /\ Ends("onErrorThrew")
    /\ UNCHANGED <<toolVars, iteration, history, toolCallsExecuted, signatureCounts, sendable>>

ToolStep(i) == CallEnds(i, TRUE) \/ CallEnds(i, FALSE) \/ OnErrorThrows(i)

Next ==
    \/ ModelChecked
    \/ ChatFails
    \/ \E batch \in Batches : ChatAnswers(batch)
    \/ ToolsReturn
    \/ ToolsReject
    \/ \E i \in 1 .. MaxBatch : ToolStep(i) /\ UNCHANGED loopVars
    \/ CallerAborts /\ outcome = "pending" /\ UNCHANGED loopVars

Spec == Init /\ [][Next]_vars

\* chat() and the capabilities check settle (the client's timeout), continuations
\* run, and a timer fires; a tool without a timeout may never answer.
Fairness ==
    /\ WF_vars(ModelChecked)
    /\ WF_vars(ChatFails \/ \E batch \in Batches : ChatAnswers(batch))
    /\ WF_vars(ToolsReturn)
    /\ WF_vars(ToolsReject)
    /\ \A i \in 1 .. MaxBatch :
        WF_vars(/\ i \in InCall
                /\ TimerMayFire(toolCalls[i]) \/ toolCalls[i] \notin Known
                /\ ToolStep(i) /\ UNCHANGED loopVars)

FairSpec == Spec /\ Fairness

-----------------------------------------------------------------------------
(* Properties.                                                             *)

\* What the model reads is what happened: every assistant message that asked
\* for tools is followed by the results of its own calls, in their order,
\* whatever order the workers finished in; only the last one may still wait.
HistoryAnswersInOrder ==
    \A p \in DOMAIN history :
        LET asked == IF history[p].role = "assistant" THEN history[p].calls ELSE <<>>
            end == p + Len(asked)
        IN  asked # <<>> =>
                \/ p = Len(history)
                \/ /\ end <= Len(history)
                   /\ \A i \in DOMAIN asked : history[p + i] = Tool(Result(asked[i], TRUE))
                   /\ end < Len(history) => history[end + 1].role = "assistant"

\* maxToolCalls and maxRepeatedToolCalls bound what is handed to the tools
\* over the whole run, batches in parallel and failures included.
BudgetsHold ==
    /\ Len(started) <= MaxToolCalls
    /\ \A c \in Calls : Repeats(started, c) <= MaxRepeatedToolCalls

\* Once run() has settled no tool starts any more, except in the workers a
\* throwing onError leaves behind.
SettledRunStartsNoTool ==
    [][outcome \notin {"pending", "onErrorThrew"} => started' = started]_vars

\* run() settles, however often the model asks for tools, unless it hangs in
\* a tool that has no timeout.
RunSettles ==
    <>(outcome # "pending") \/ <>[](\E i \in InCall : toolCalls[i] \in Known \ Timed)
===============================================================================
