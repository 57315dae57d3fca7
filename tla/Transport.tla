------------------------------ MODULE Transport ------------------------------
(***************************************************************************)
(* One call on the wire: HttpClient.request(), requestStream() and         *)
(* requestSseStream() (src/transport/http.ts), the mapping of their        *)
(* outcomes to errors (src/errors.ts), withRetry inside each endpoint      *)
(* attempt of executeWithFailover, and on top of them ResponsesModule      *)
(* (src/responses.ts), which asks /v1/responses and, when the server does  *)
(* not have it, /api/chat.  fetchWithBackoff is the same loop for callers  *)
(* of their own: mode "raw".                                               *)
(*                                                                         *)
(* What the server answers is a status with the kind of body it has.       *)
(***************************************************************************)
EXTENDS Integers

CONSTANTS
    Modes,          \* create(), stream(), or fetchWithBackoff(): "raw"
    EndpointCount,  \* the endpoints executeWithFailover has to try
    MaxRetries,
    Statuses        \* the error statuses servers answer with

ASSUME TransportAssumption ==
    /\ Modes \subseteq {"create", "stream", "raw"}
    /\ EndpointCount \in Nat \ {0} /\ MaxRetries \in Nat
    /\ Statuses \subseteq 400 .. 599

VARIABLES
    mode,
    route,      \* the path asked: "native", or "chat" after it
    hop,        \* which endpoint is asked
    tries,      \* requests withRetry has let through at it
    at,         \* before a fetch, in it, backing off, reading the stream, over
    answer,     \* the last answer
    signal,        \* the signal: live, or what fired it first
    output,     \* some of the answer was handed to the consumer
    verdict     \* how the call ended

transportVars == <<mode, route, hop, tries, at, answer, signal, output, verdict>>

NoAnswer == [status |-> 0, body |-> "none"]
Network  == [status |-> 0, body |-> "refused"]
Ok(body) == [status |-> 200, body |-> body]
Refused(status, body) == [status |-> status, body |-> body]
Refusals == [status : Statuses, body : {"json", "text"}]
PossibleAnswers == {Network, Ok("json"), Ok("text")} \cup Refusals

Codes == {"network_error", "not_found", "rate_limited", "bad_gateway", "overloaded",
          "server_error", "auth_error", "payment_required", "client_error",
          "stream_error", "timeout", "aborted"}

TransportTypeOK ==
    /\ mode \in Modes /\ route \in {"native", "chat"}
    /\ hop \in 1 .. EndpointCount /\ tries \in 0 .. MaxRetries + 1
    /\ at \in {"start", "fetch", "backoff", "stream", "end"}
    /\ answer \in PossibleAnswers \cup {NoAnswer}
    /\ signal \in {"live", "timeout", "aborted"}
    /\ output \in BOOLEAN
    /\ verdict \in {"pending", "answered"} \cup Codes

TransportInit ==
    /\ mode \in Modes
    /\ route = "native" /\ hop = 1 /\ tries = 0
    /\ at = "start" /\ answer = NoAnswer
    /\ signal = "live" /\ output = FALSE /\ verdict = "pending"

-----------------------------------------------------------------------------
(* errors.ts                                                               *)

StatusToError(status) ==
    CASE status \in {401, 403} -> "auth_error"
      [] status = 402 -> "payment_required"
      [] status = 404 -> "not_found"
      [] status = 429 -> "rate_limited"
      [] status = 502 -> "bad_gateway"
      [] status = 503 -> "overloaded"
      [] status >= 500 /\ status \notin {502, 503} -> "server_error"
      [] OTHER -> "client_error"

\* request() reads the body of an error as JSON and, when that fails, as text;
\* the body is used up by then, and the TypeError text() rejects with is what
\* mapError sees.  The streaming requests read it as text only.
MapError(ans) ==
    IF ans = Network \/ (mode = "create" /\ ans.body = "text")
    THEN "network_error"
    ELSE StatusToError(ans.status)

\* Mutant: every server-side code is worth another try.
Retryable_AnyStatus(code) == code \notin {"aborted", "stream_error"}

Retryable(code) ==
    code \in {"network_error", "timeout", "rate_limited", "bad_gateway",
              "overloaded", "server_error"}

\* DEFAULT_FAILOVER_CODES: another endpoint may know the key.
FailsOverOn(code) == Retryable(code) \/ code = "auth_error"

-----------------------------------------------------------------------------
(* The end of an operation on an endpoint.                                 *)

Ends(how) == at' = "end" /\ verdict' = how

\* What create() and stream() catch.
PathIsMissing(code) == code = "not_found"

\* The error leaves withRetry: the next endpoint, the other path, which is a
\* call of its own to the runner with its own timer, or the caller.
LeavesEndpoint(code) ==
    \/ /\ mode # "raw" /\ FailsOverOn(code) /\ hop < EndpointCount
       /\ at' = "start" /\ hop' = hop + 1 /\ tries' = 0
       /\ UNCHANGED <<route, signal, verdict>>
    \/ /\ mode # "raw" /\ PathIsMissing(code) /\ route = "native"
       /\ at' = "start" /\ route' = "chat" /\ hop' = 1 /\ tries' = 0
       /\ signal' = IF signal = "aborted" THEN "aborted" ELSE "live"
       /\ UNCHANGED verdict
    \/ /\ \/ mode = "raw"
          \/ /\ FailsOverOn(code) => hop = EndpointCount
             /\ PathIsMissing(code) => route = "chat"
       /\ Ends(code)
       /\ UNCHANGED <<route, hop, tries, signal>>

\* An attempt failed: withRetry sleeps before the next one, or gives up.
AttemptFails(code) ==
    IF Retryable(code) /\ tries <= MaxRetries
    THEN at' = "backoff" /\ UNCHANGED <<route, hop, tries, signal, verdict>>
    ELSE LeavesEndpoint(code)

-----------------------------------------------------------------------------

\* The operation runs, unless its signal has fired: then nothing is sent.
Sends ==
    /\ at = "start" /\ signal = "live"
    /\ at' = "fetch"
    /\ tries' = tries + 1
    /\ UNCHANGED <<mode, route, hop, answer, signal, output, verdict>>

\* The answer of request(): JSON.parse rejects a body that is not JSON.
AnswersRequest(ans) ==
    /\ mode = "create"
    /\ CASE ans = Ok("json") -> Ends("answered") /\ UNCHANGED <<route, hop, tries, signal>>
         [] ans = Ok("text") -> LeavesEndpoint("client_error")
         [] OTHER -> AttemptFails(MapError(ans))

\* A stream is handed over with its headers, whatever follows them.
AnswersStream(ans) ==
    /\ mode = "stream"
    /\ IF ans.status = 200
       THEN at' = "stream" /\ UNCHANGED <<route, hop, tries, signal, verdict>>
       ELSE AttemptFails(MapError(ans))

\* fetchWithBackoff returns its last response, and rejects only for want of one.
AnswersRaw(ans) ==
    /\ mode = "raw"
    /\ IF ans = Network \/ (ans.status \in {429, 503} /\ tries <= MaxRetries)
       THEN AttemptFails("network_error")
       ELSE Ends("answered") /\ UNCHANGED <<route, hop, tries, signal>>

Answers(ans) ==
    /\ at = "fetch"
    /\ answer' = ans
    /\ AnswersRequest(ans) \/ AnswersStream(ans) \/ AnswersRaw(ans)
    /\ UNCHANGED <<mode, output>>

\* The backoff, or the wait the server asked for in Retry-After, is over.
BackoffEnds ==
    /\ at = "backoff" /\ signal = "live"
    /\ at' = "start"
    /\ UNCHANGED <<mode, route, hop, tries, answer, signal, output, verdict>>

\* fetch() or sleep() rejects with the reason of the signal, at once when that
\* had fired before.  A timeout is retryable, but the sleep before the retry
\* rejects again, so it leaves withRetry just the same.
SignalRejects ==
    /\ at \in {"start", "fetch", "backoff"} /\ signal # "live"
    /\ LeavesEndpoint(signal)
    /\ UNCHANGED <<mode, answer, output>>

\* A delta of the stream reaches the consumer.
Delivers ==
    /\ at = "stream"
    /\ output' = TRUE
    /\ UNCHANGED <<mode, route, hop, tries, at, answer, signal, verdict>>

\* The stream is over, broken or cut off: neither is it retried nor does it
\* fall back, since the consumer may have seen some of it.
StreamEnds ==
    /\ at = "stream"
    /\ Ends("answered") \/ Ends(IF signal = "live" THEN "stream_error" ELSE signal)
    /\ UNCHANGED <<mode, route, hop, tries, answer, signal, output>>

SignalFires(why) ==
    /\ at # "end" /\ signal = "live"
    /\ why = "timeout" => mode # "raw"
    /\ signal' = why
    /\ UNCHANGED <<mode, route, hop, tries, at, answer, output, verdict>>

TransportNext ==
    \/ Sends
    \/ \E ans \in PossibleAnswers : Answers(ans)
    \/ BackoffEnds
    \/ SignalRejects
    \/ Delivers
    \/ StreamEnds
    \/ \E why \in {"timeout", "aborted"} : SignalFires(why)

TransportSpec == TransportInit /\ [][TransportNext]_transportVars

-----------------------------------------------------------------------------
(* Properties.                                                             *)

\* What another try can help with: "transient" in errors.ts, and what
\* fetchWithBackoff calls saturation.
Transient(ans) == ans = Network \/ ans.status = 429 \/ ans.status >= 500

\* A call asks again only after a transient answer; or another server, once,
\* after one that refused the key; or, once, the other path after a 404 of the
\* native one; never when the caller may have seen output.  (An error request()
\* cannot read as JSON counts as a network failure whatever its status;
\* OldServersAreServed is about that.)
RequestsAreJustified ==
    [][at' = "fetch" /\ at # "fetch" =>
        /\ ~output
        /\ \/ answer = NoAnswer \/ Transient(answer)
           \/ answer.status \in {401, 403} /\ hop > 1 /\ tries = 0
           \/ route = "chat" /\ hop = 1 /\ tries = 0 /\ answer.status = 404
           \/ mode = "create" /\ answer.body = "text"]_transportVars

\* README: "a 404 from older servers transparently re-issues the request
\* through /api/chat": unless it is cancelled, a call does not end with the
\* 404 of the native path.
OldServersAreServed ==
    mode # "raw" /\ route = "native" /\ at = "end" /\ signal = "live" => answer.status # 404
=============================================================================
