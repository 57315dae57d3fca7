-------------------------- MODULE RequestPreparation --------------------------
(***************************************************************************)
(* What chat() and generate() (src/client.ts) do before executeWithFailover: *)
(* resolve the images, all at once (src/utils.ts, src/vision.ts), compare  *)
(* the estimated prompt with the context window (src/context-safety.ts),   *)
(* and name the window on the wire.  A caller who is told that the window  *)
(* is too small calls again with the recommended one.                      *)
(*                                                                         *)
(* The checks of URLs and hosts are abstracted to their outcome.           *)
(***************************************************************************)
EXTENDS Integers, FiniteSets, FiniteSetsExt

CONSTANTS
    Images,
    MaxRedirects,
    MaxImageSize,     \* policy.maxImageBytes, in chunks
    PromptSizes,      \* estimated tokens of the prompts callers send (bounded: LargestPrompt)
    WindowSizes,      \* windows callers and clients ask for
    NoWindow,
    Thresholds,       \* contextWarningThreshold as clients configure it, in percent
    NoThreshold       \* it is not configured

\* Bounds: the windows the doubling loop of recommendContextWindow goes through,
\* and the largest prompt the last of them holds.
DoubledWindows == {4096 * 2^k : k \in 0 .. 10}
LargestPrompt == (10 * 4096 * 2^10) \div 13

ASSUME PreparationAssumption ==
    /\ IsFiniteSet(Images) /\ MaxRedirects \in Nat /\ MaxImageSize \in Nat
    /\ PromptSizes \subseteq Nat /\ \A estimate \in PromptSizes : estimate <= LargestPrompt
    /\ WindowSizes \subseteq Nat \ {0} /\ NoWindow \notin Nat
    /\ Thresholds \subseteq Nat /\ NoThreshold \notin Nat

VARIABLES
    image,          \* each image: what it is, where its resolution is
    caller,         \* the caller's signal, "live" or "aborted"
    estimatedPrompt, \* the estimate of the request
    numCtx,         \* options.num_ctx of the request, or NoWindow
    defaultLength,  \* defaultContextLength of the client, or NoWindow
    warningThreshold, \* contextWarningThreshold of the client, or NoThreshold
    throws,         \* onContextOverflow is "throw"
    adopted,        \* num_ctx is what an earlier error recommended
    prepared        \* "new", "resolving", or how the preparation ended

preparationVars ==
    <<image, caller, estimatedPrompt, numCtx, defaultLength, warningThreshold, throws, adopted,
      prepared>>

Unresolved(kind) == [kind |-> kind, at |-> "waiting", hops |-> 0, size |-> 0, timedOut |-> FALSE]
ImageErrors == {"image_error", "image_timeout", "image_aborted"}

PreparationTypeOK ==
    /\ image \in [Images -> [kind : {"inline", "url", "file"},
            at : {"waiting", "checking", "fetching", "reading", "loading", "done"} \cup ImageErrors,
            hops : 0 .. MaxRedirects, size : 0 .. MaxImageSize, timedOut : BOOLEAN]]
    /\ caller \in {"live", "aborted"} /\ estimatedPrompt \in PromptSizes
    /\ numCtx \in Nat \cup {NoWindow} /\ defaultLength \in WindowSizes \cup {NoWindow}
    /\ warningThreshold \in Thresholds \cup {NoThreshold}
    /\ throws \in BOOLEAN /\ adopted \in BOOLEAN
    /\ prepared \in {"new", "resolving", "sent", "context_overflow"} \cup ImageErrors

PreparationInit ==
    /\ \E kinds \in [Images -> {"inline", "url", "file"}] :
        image = [i \in Images |-> Unresolved(kinds[i])]
    /\ caller \in {"live", "aborted"} /\ estimatedPrompt \in PromptSizes
    /\ numCtx \in WindowSizes \cup {NoWindow} /\ defaultLength \in WindowSizes \cup {NoWindow}
    /\ warningThreshold \in Thresholds \cup {NoThreshold}
    /\ throws \in BOOLEAN /\ adopted = FALSE /\ prepared = "new"

RequestStays ==
    UNCHANGED <<estimatedPrompt, numCtx, defaultLength, warningThreshold, throws, adopted>>

-----------------------------------------------------------------------------
(* The context window.                                                     *)

FallbackLength == 2048

\* Mutant: no room for the answer.
Recommended_Tight(estimate) ==
    Min({w \in DoubledWindows : w >= estimate})

\* recommendContextWindow: thirty percent above the estimate.
Recommended(estimate) ==
    Min({w \in DoubledWindows : 10 * w >= 13 * estimate})

\* What the prompt is compared with.
EffectiveWindow ==
    IF numCtx # NoWindow THEN numCtx
    ELSE IF defaultLength # NoWindow THEN defaultLength ELSE FallbackLength

\* In percent of the window; 90 unless the client is configured otherwise, with
\* whatever number: nothing checks it.
Threshold == IF warningThreshold = NoThreshold THEN 90 ELSE warningThreshold

\* Beyond the threshold of a known window, or beyond the whole of the assumed one.
ExceedsThreshold ==
    IF numCtx = NoWindow /\ defaultLength = NoWindow THEN estimatedPrompt > FallbackLength
    ELSE 100 * estimatedPrompt > Threshold * EffectiveWindow

\* injectDefaultContextLength: num_ctx on the wire.
WireWindow == IF numCtx # NoWindow \/ defaultLength = NoWindow THEN numCtx ELSE defaultLength

-----------------------------------------------------------------------------
(* The images.  The first failure rejects the call and stops no other.     *)

UnderWay(i) == image[i].at \in {"checking", "fetching", "reading"}

\* A fetch ended because its signal has fired: the timer's word goes first.
Cause(i) == IF image[i].timedOut THEN "image_timeout" ELSE "image_aborted"

Verdict == IF ExceedsThreshold /\ throws THEN "context_overflow" ELSE "sent"

\* Promise.all, with what the images are after this step; then the window.
Settled ==
    LET failed == {i \in Images : image'[i].at \in ImageErrors} IN
    IF prepared = "resolving" /\ failed # {}
    THEN prepared' \in {image'[i].at : i \in failed}
    ELSE IF prepared = "resolving" /\ \A i \in Images : image'[i].at = "done"
    THEN prepared' = Verdict
    ELSE UNCHANGED prepared

ImageTurns(i, at) ==
    /\ image' = [image EXCEPT ![i].at = at]
    /\ UNCHANGED caller /\ Settled /\ RequestStays

\* All images start in one step; one inline may be too large.
Prepares ==
    /\ prepared = "new"
    /\ \E tooLarge \in SUBSET {i \in Images : image[i].kind = "inline"} :
        LET begun == [i \in Images |-> [image[i] EXCEPT !.at =
                CASE i \in tooLarge -> "image_error"
                  [] image[i].kind = "inline" -> "done"
                  [] image[i].kind = "url" -> "checking"
                  [] OTHER -> "loading"]]
        IN  /\ image' = begun
            /\ prepared' =
                IF tooLarge # {} THEN "image_error"
                ELSE IF \A i \in Images : begun[i].at = "done"
                THEN Verdict ELSE "resolving"
    /\ UNCHANGED caller /\ RequestStays

\* The file is read, is none, or is too large; nothing aborts this.
FileLoads(i) ==
    /\ image[i].at = "loading"
    /\ ImageTurns(i, "done") \/ ImageTurns(i, "image_error")

\* Mutant: fetch() gets no signal that fired during the check.
ChecksOut_Unaware(i) ==
    /\ image[i].at = "checking"
    /\ ImageTurns(i, "fetching") \/ ImageTurns(i, "image_error")

\* The URL was looked up: it is refused, or fetched unless the signal has fired.
ChecksOut(i) ==
    /\ image[i].at = "checking"
    /\ \/ ImageTurns(i, "image_error")
       \/ ImageTurns(i, IF image[i].timedOut \/ caller = "aborted" THEN Cause(i) ELSE "fetching")

\* Another URL to check, an answer to read, or an error.
ImageAnswers(i) ==
    /\ image[i].at = "fetching"
    /\ \/ /\ image[i].hops < MaxRedirects
          /\ image' = [image EXCEPT ![i].at = "checking", ![i].hops = @ + 1]
          /\ UNCHANGED <<caller, prepared>> /\ RequestStays
       \/ ImageTurns(i, "reading")
       \/ ImageTurns(i, "image_error")

\* A chunk, which may be one too many, the end, or a broken connection.
ImageChunk(i) ==
    /\ image[i].at = "reading"
    /\ \/ /\ image[i].size < MaxImageSize
          /\ image' = [image EXCEPT ![i].size = @ + 1]
          /\ UNCHANGED <<caller, prepared>> /\ RequestStays
       \/ ImageTurns(i, "done")
       \/ ImageTurns(i, "image_error")

ImageTimerFires(i) ==
    /\ UnderWay(i) /\ ~image[i].timedOut
    /\ UNCHANGED caller
    /\ image' = [image EXCEPT ![i].timedOut = TRUE,
                              ![i].at = IF @ = "checking" THEN @ ELSE "image_timeout"]
    /\ Settled /\ RequestStays

\* The fetches under way see it at once, a lookup only when it has answered.
CallerAborts ==
    /\ caller = "live" /\ caller' = "aborted"
    /\ image' = [i \in Images |->
            IF image[i].at \in {"fetching", "reading"} THEN [image[i] EXCEPT !.at = Cause(i)]
                                                       ELSE image[i]]
    /\ Settled /\ RequestStays

\* The caller takes the advice of the error.
CallsAgain ==
    /\ prepared = "context_overflow" /\ ~adopted
    /\ numCtx' = Recommended(estimatedPrompt) /\ adopted' = TRUE /\ prepared' = "new"
    /\ image' = [i \in Images |-> Unresolved(image[i].kind)]
    /\ UNCHANGED <<caller, estimatedPrompt, defaultLength, warningThreshold, throws>>

PreparationNext ==
    \/ Prepares \/ CallerAborts \/ CallsAgain
    \/ \E i \in Images :
        FileLoads(i) \/ ChecksOut(i) \/ ImageAnswers(i) \/ ImageChunk(i) \/ ImageTimerFires(i)

PreparationSpec == PreparationInit /\ [][PreparationNext]_preparationVars

-----------------------------------------------------------------------------
(* Properties.                                                             *)

\* The caller's abort stops every image fetch, wherever it is in its redirects,
\* and also when the call has already failed for another image.
AbortStopsEveryFetch ==
    caller = "aborted" => \A i \in Images : image[i].at \notin {"fetching", "reading"}

\* A window has room for the prompt that was compared with it: the one an error
\* recommends is accepted when the caller takes it, provided that the client warns
\* at 1/1.3 of the window or later (13 * Threshold >= 1000; 0.9 by default); and,
\* with a threshold of at most the whole window, a prompt that is sent under
\* onContextOverflow "throw" fits the window the server is told of.
AdviceIsAccepted ==
    /\ adopted /\ 13 * Threshold >= 1000 => prepared # "context_overflow"
    /\ prepared = "sent" /\ throws /\ Threshold <= 100 =>
        estimatedPrompt <= (IF WireWindow = NoWindow THEN FallbackLength ELSE WireWindow)

\* "A window of at least ... tokens would fit this prompt", with any threshold: the
\* advice depends on the estimate alone, and a client that warns below 1/1.3 of the
\* window refuses it again and gives the same advice.
\* It does not hold (README.md, Divergences found).
AdviceIsAlwaysAccepted == adopted => prepared # "context_overflow"
===============================================================================
