---------------------------- MODULE MCFailover ----------------------------
(* Two endpoints of one priority, three requests, one slot per endpoint.   *)
EXTENDS Failover, TLC

CONSTANTS gpu, cloud, llama, qwen, phi

MCEndpoints == {gpu, cloud}
MCPosition == (gpu :> 1) @@ (cloud :> 2)
MCPriority == (gpu :> 0) @@ (cloud :> 0)
MCModels == {llama, qwen, phi}
MCServes == (gpu :> {llama, qwen}) @@ (cloud :> {llama})
MCFailoverCodes == {"server_error", "timeout"}
MCKinds ==
    { [model |-> llama,   single |-> FALSE, stream |-> TRUE],
      [model |-> qwen,    single |-> FALSE, stream |-> FALSE],
      [model |-> NoModel, single |-> TRUE,  stream |-> FALSE] }
\* phi is on no allow-list.
MCLiveKinds ==
    MCKinds \cup {[model |-> phi, single |-> FALSE, stream |-> FALSE]}
Interchangeable == Permutations(Requests)
===========================================================================
