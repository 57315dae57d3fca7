-------------------------- MODULE MCOllamaStream --------------------------
(* Reads of one or two lines: a chunk, the last chunk, an error frame, and *)
(* the pairs in which a line is still buffered when something else occurs. *)
EXTENDS OllamaStream

MCBatches ==
    { <<"chunk">>, <<"done">>, <<"bad">>,
      <<"chunk", "chunk">>, <<"chunk", "done">>, <<"chunk", "bad">>, <<"done", "bad">> }
BothReasons == {"timeout", "aborted"}
NoReason == {}
===========================================================================
