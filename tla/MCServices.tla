------------------------------ MODULE MCServices ------------------------------
(* The components that share no state with the executor, each on a small     *)
(* instance of its own: a behaviour is one of the component "part" names.    *)
EXTENDS QuotaManager, ConversationSession, ModelAffinityRouter, StreamParsers, Transport,
        CompatStreams, ModelPublishing, ToolCallAccumulator, StreamObserver, VersionGate,
        GeneratedRuntime, RequestPreparation, McpTools, TLC

CONSTANTS e1, e2, s1, s2

VARIABLE part

Parts == {"quota", "session", "router", "parsers", "transport", "compat", "publishing",
          "accumulator", "observer", "gate", "runtime", "preparation", "mcp"}

MCWindowMs == <<2, 3>>
MCMaxRequests == <<2, 3>>
MCMaxTokens == <<NoLimit, 3>>

MCTurns == {"t1", "t2", "t3"}
MCMessageTokens ==
    [m \in [role : {"system", "user", "assistant"}, turn : MCTurns \cup {"system prompt"}] |->
        CASE m.role = "assistant" -> 3
          [] m.role = "user" /\ m.turn = "t2" -> 2
          [] OTHER -> 1]

MCHostTier == ("a" :> 1) @@ ("b" :> 0) @@ ("c" :> 0)

MCPosition == (e1 :> 1) @@ (e2 :> 2)
MCPriority == (e1 :> 0) @@ (e2 :> 0)
MCServes == [e \in Endpoints |-> {}]

MCRelease == (s1 :> 1) @@ (s2 :> 2)

\* The others are in one of their initial states, and stay there.
MCInit ==
    /\ part \in Parts
    /\ QuotaInit /\ SessionInit /\ RouterInit
    /\ ParserInit /\ (part # "parsers" => format = "sse" /\ text = <<>>)
    /\ TransportInit /\ (part # "transport" => mode = "create")
    /\ CompatInit /\ (part # "compat" => protocol = "chat" /\ listening)
    /\ PublishingInit /\ (part # "publishing" => ~oneShot /\ \A e \in Endpoints : blobs[e] = {})
    /\ AccumulatorInit /\ (part # "accumulator" => normalized)
    /\ ObserverInit /\ (part # "observer" => "error" \notin hooks)
    /\ GateInit /\ (part # "gate" => policy = "auto" /\ serving = {})
    /\ RuntimeInit
    /\ PreparationInit
    /\ warningThreshold # NoThreshold => \A i \in Images : image[i].kind = "inline"
    /\ (part # "preparation" =>
            /\ \A i \in Images : image[i].kind = "inline"
            /\ caller = "live" /\ estimatedPrompt = Min(PromptSizes) /\ ~throws
            /\ numCtx = NoWindow /\ defaultLength = NoWindow /\ warningThreshold = NoThreshold)
    /\ McpInit /\ (part # "mcp" =>
            catalogue = SetToSeq(ToolNames) /\ ~looping /\ \A n \in ToolNames : owner[n] = Local)

MCNext ==
    /\ UNCHANGED part
    /\ IF part = "quota" THEN QuotaNext ELSE UNCHANGED quotaVars
    /\ IF part = "session" THEN SessionNext ELSE UNCHANGED sessionVars
    /\ IF part = "router" THEN RouterNext ELSE UNCHANGED routerVars
    /\ IF part = "parsers" THEN ParserNext ELSE UNCHANGED parserVars
    /\ IF part = "transport" THEN TransportNext ELSE UNCHANGED transportVars
    /\ IF part = "compat" THEN CompatNext ELSE UNCHANGED compatVars
    /\ IF part = "publishing" THEN PublishingNext ELSE UNCHANGED publishingVars
    /\ IF part = "accumulator" THEN AccumulatorNext ELSE UNCHANGED accumulatorVars
    /\ IF part = "observer" THEN ObserverNext ELSE UNCHANGED observerVars
    /\ IF part = "gate" THEN GateNext ELSE UNCHANGED gateVars
    /\ IF part = "runtime" THEN RuntimeNext ELSE UNCHANGED runtimeVars
    /\ IF part = "preparation" THEN PreparationNext ELSE UNCHANGED preparationVars
    /\ IF part = "mcp" THEN McpNext ELSE UNCHANGED mcpVars

MCSpec == MCInit /\ [][MCNext]_<<part, quotaVars, sessionVars, routerVars, parserVars,
    transportVars, compatVars, publishingVars, accumulatorVars, observerVars, gateVars,
    runtimeVars, preparationVars, mcpVars>>

MCSymmetry == Permutations(Deciders)
===============================================================================
