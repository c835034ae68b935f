-------------------------------- MODULE LlmCalls --------------------------------
(***************************************************************************)
(* Calls to a language model: llm/client.py (complete, stream, embed) over *)
(* the retry policy of llm/retries.py, the providers of llm/provider.py,   *)
(* the prompt formats of llm/format_detector and the fallback chain of     *)
(* llm/fallback.py.  The provider behind LiteLLM answers anything.         *)
(*                                                                         *)
(* A prompt is the sequence of its messages' sizes.  The model names its   *)
(* window in the same unit; the provider may disagree and refuse a prompt  *)
(* that the client found short enough.                                     *)
(***************************************************************************)
EXTENDS Naturals, Sequences, FiniteSets, SequencesExt

CONSTANTS
    Call,
    Model,
    None,
    Chain,        \* the primary model and its fallbacks, in order
    Served,       \* models some provider is configured for
    Hinted,       \* models whose name tells their prompt format
    Toolless,     \* models whose provider has no tool calling
    Window,       \* max_input_tokens
    Small,        \* prompts up to this size are not measured (4000 characters)
    Prompt,       \* the prompts callers have
    MaxAttempts,  \* llm.max_retries + 1
    MaxChunks     \* bound: chunks of a stream

(* What the constants are assumed to be (a composing module says so).      *)
LlmAssumption ==
    /\ None \notin Model
    /\ Chain \in Seq(Model) /\ Chain # <<>>
    /\ Served \subseteq Model /\ Hinted \subseteq Model /\ Toolless \subseteq Model
    /\ {Window, Small, MaxAttempts, MaxChunks} \subseteq Nat /\ MaxAttempts > 0
    /\ Prompt \subseteq Seq(Nat)

VARIABLES
    call,     \* by call: where it is
    asked,    \* by call: how often which model was asked, and the last answer
    cache     \* _probe_cache: by model, the format it is prompted in

vars == <<call, asked, cache>>

Way == {"complete", "stream", "embed", "chain"}

(* RETRYABLE_EXCEPTIONS, NON_RETRYABLE_EXCEPTIONS, and what is in neither: *)
(* LiteLLM's timeouts and 503s.                                            *)
Retryable == {"rate limit", "connection", "server error"}
Definite == {"authentication", "bad request", "overflow"}
Unlisted == {"timeout", "unavailable"}
Failure == Retryable \cup Definite \cup Unlisted

(* What the caller is given: a text, an empty text (with no error), a      *)
(* reply that carries an error, an exception, or chunks.                   *)
Reply == {"text", "empty", "error", "raised", "chunks", "vectors"}

CallState ==
    [way : Way \cup {None},
     at : {"no", "resolve", "format", "probe", "prepare", "calling", "streaming", "over"},
     nth : 1..Len(Chain), prompt : Seq(Nat), tries : 0..MaxAttempts, again : BOOLEAN,
     chunks : 0..MaxChunks, reply : Reply \cup {None}]

Go(c, new) == call' = [call EXCEPT ![c] = new]
Over(c, reply) == Go(c, [call[c] EXCEPT !.at = "over", !.reply = reply])
The(c) == Chain[call[c].nth]

-----------------------------------------------------------------------------
(* The chain starts with its primary model, any other call with any model. *)
Ask(c, way, prompt) ==
    /\ call[c].at = "no"
    /\ \E n \in 1..Len(Chain) :
          /\ way = "chain" => n = 1
          /\ Go(c, [call[c] EXCEPT !.way = way, !.nth = n, !.prompt = prompt, !.at = "resolve"])
    /\ UNCHANGED <<asked, cache>>

(* The chain goes on to its next model when a call raises, unless the      *)
(* failure is listed as definite; all of them exhausted is a failure of    *)
(* its own.                                                                *)
Raises(c, failure) ==
    IF call[c].way = "chain" /\ failure \notin Definite /\ call[c].nth < Len(Chain)
    THEN Go(c, [call[c] EXCEPT !.nth = @ + 1, !.at = "resolve", !.tries = 0, !.again = FALSE])
    ELSE Over(c, "raised")

(* resolve_provider: a model nobody serves (and no default) is a ValueError. *)
Resolve(c) ==
    /\ call[c].at = "resolve"
    /\ IF The(c) \in Served
       THEN Go(c, [call[c] EXCEPT !.at = IF call[c].way = "embed" THEN "calling" ELSE "format"])
       ELSE Raises(c, "unserved")
    /\ UNCHANGED <<asked, cache>>

(* The prompt format: cached, told by the model's name, or probed.         *)
Format(c) ==
    /\ call[c].at = "format"
    /\ IF cache[The(c)] # None THEN Go(c, [call[c] EXCEPT !.at = "prepare"]) /\ UNCHANGED cache
       ELSE IF The(c) \in Hinted
            THEN /\ cache' = [cache EXCEPT ![The(c)] = "hinted"]
                 /\ Go(c, [call[c] EXCEPT !.at = "prepare"])
            ELSE Go(c, [call[c] EXCEPT !.at = "probe"]) /\ UNCHANGED cache
    /\ UNCHANGED asked

(* The probe's answer tells the format; no answer is kept as "raw", for    *)
(* the life of the process.  A probe is a call to the provider of its own, *)
(* made for a model whose format is not known, and no attempt at the       *)
(* request: "asked" does not count it.                                     *)
Probe(c) ==
    /\ call[c].at = "probe"
    /\ \E f \in {"detected", "raw"} : cache' = [cache EXCEPT ![The(c)] = f]
    /\ Go(c, [call[c] EXCEPT !.at = "prepare"])
    /\ UNCHANGED asked

-----------------------------------------------------------------------------
Size(p) == FoldSeq(LAMBDA m, n : m + n, 0, p)
Overflows(p) == Size(p) > Window

(* A provider without tools is given one flat prompt.                      *)
Flat(c, p) == IF The(c) \in Toolless THEN <<Size(p)>> ELSE p

(* LiteLLM's trim_messages drops old messages, or gives up.                *)
Trimmed(p) == {p} \cup {SubSeq(p, k, Len(p)) : k \in {i \in 1..Len(p) : ~Overflows(SubSeq(p, i, Len(p)))}}

(* The client's own cut: the first and the last message, or the last.      *)
Cut(p) ==
    IF Len(p) > 3 THEN <<Head(p), Last(p)>>
    ELSE IF Len(p) = 3 THEN <<p[2], p[3]>>
    ELSE IF Len(p) = 2 THEN <<Last(p)>>
    ELSE p

Sent(c, p) == Go(c, [call[c] EXCEPT !.at = "calling", !.prompt = p])

(* A prompt that stays too long after both cuts is answered with an empty  *)
(* text, and no error.                                                     *)
Prepare(c) ==
    /\ call[c].at = "prepare"
    /\ LET p == Flat(c, call[c].prompt) IN
       IF Size(p) <= Small THEN Sent(c, p)
       ELSE \E q \in Trimmed(p) :
               IF ~Overflows(q) THEN Sent(c, q)
               ELSE IF ~Overflows(Cut(q)) THEN Sent(c, Cut(q))
               ELSE Over(c, "empty")
    /\ UNCHANGED <<asked, cache>>

-----------------------------------------------------------------------------
Answered(c, a) ==
    asked' = [asked EXCEPT ![c] = [model |-> The(c), times |-> IF @.model = The(c) THEN @.times + 1 ELSE 1,
                                   answer |-> a, sent |-> call[c].prompt, after |-> call[c].chunks]]

(* _build_response: the text is stripped of its artifacts, which may be    *)
(* all there was.                                                          *)
Succeeds(c) ==
    /\ call[c].at = "calling" /\ call[c].way \in {"complete", "chain"}
    /\ Answered(c, "ok")
    /\ \E reply \in {"text", "empty"} : Over(c, reply)
    /\ UNCHANGED cache

(* Slip: whatever is not known to be definite is tried again. *)
SlipRetried(failure) == failure \notin {"authentication", "bad request"}

Retried(failure) == failure \in Retryable

(* Slip: the attempts start again with every failure. *)
SlipRetries(c, failure) == Retried(failure)

(* The policy stops after MaxAttempts, and at once for what it does not    *)
(* list.                                                                   *)
Retries(c, failure) == Retried(failure) /\ call[c].tries + 1 < MaxAttempts

(* Slip: the prompt is cut and tried again as long as it is refused. *)
SlipShortened(c) == Len(call[c].prompt) > 1

(* A prompt the provider refuses is sent once more without a quarter of    *)
(* its oldest messages.                                                    *)
Shortened(c) == ~call[c].again /\ Len(call[c].prompt) > 2

Quarter(p) ==
    LET k == IF Len(p) < 4 THEN 1 ELSE Len(p) \div 4
    IN  <<Head(p)>> \o SubSeq(p, k + 2, Len(p))

(* _complete and complete: tried again, sent again shorter, raised, or     *)
(* answered with a reply that carries the error.                           *)
Fails(c, failure) ==
    /\ call[c].at = "calling" /\ call[c].way \in {"complete", "chain"}
    /\ Answered(c, failure)
    /\ IF Retries(c, failure) THEN Go(c, [call[c] EXCEPT !.tries = @ + 1])
       ELSE IF failure # "overflow" THEN Over(c, "error")
       ELSE IF Shortened(c)
            THEN Go(c, [call[c] EXCEPT !.again = TRUE, !.tries = 0, !.prompt = Quarter(@)])
       ELSE Raises(c, failure)
    /\ UNCHANGED cache

(* A stream: its start is tried again, what comes after is not.            *)
Opens(c) ==
    /\ call[c].at = "calling" /\ call[c].way = "stream"
    /\ Answered(c, "ok")
    /\ Go(c, [call[c] EXCEPT !.at = "streaming"])
    /\ UNCHANGED cache

RefusesStream(c, failure) ==
    /\ call[c].at = "calling" /\ call[c].way = "stream"
    /\ Answered(c, failure)
    /\ IF Retries(c, failure) THEN Go(c, [call[c] EXCEPT !.tries = @ + 1])
       ELSE Over(c, "raised")
    /\ UNCHANGED cache

Chunk(c) ==
    /\ call[c].at = "streaming" /\ call[c].chunks < MaxChunks
    /\ Go(c, [call[c] EXCEPT !.chunks = @ + 1])
    /\ UNCHANGED <<asked, cache>>

StreamEnds(c) ==
    /\ call[c].at = "streaming"
    /\ Over(c, "chunks")
    /\ UNCHANGED <<asked, cache>>

(* Slip: a stream that breaks is started again. *)
SlipBreaks(c) ==
    /\ call[c].at = "streaming"
    /\ IF Retries(c, "connection") THEN Go(c, [call[c] EXCEPT !.tries = @ + 1, !.at = "calling"])
       ELSE Over(c, "raised")
    /\ UNCHANGED <<asked, cache>>

Breaks(c) ==
    /\ call[c].at = "streaming"
    /\ Over(c, "raised")
    /\ UNCHANGED <<asked, cache>>

(* embed: one attempt, and vectors of another size are refused.            *)
Embeds(c, a) ==
    /\ call[c].at = "calling" /\ call[c].way = "embed"
    /\ Answered(c, a)
    /\ IF a = "ok" THEN \E reply \in {"vectors", "raised"} : Over(c, reply) ELSE Over(c, "raised")
    /\ UNCHANGED cache

-----------------------------------------------------------------------------
Init ==
    /\ call = [c \in Call |->
                [way |-> None, at |-> "no", nth |-> 1, prompt |-> <<>>, tries |-> 0, again |-> FALSE,
                 chunks |-> 0, reply |-> None]]
    /\ asked = [c \in Call |-> [model |-> None, times |-> 0, answer |-> None, sent |-> <<>>,
                                after |-> 0]]
    /\ cache = [m \in Model |-> None]

(* Every call has a timeout: the provider answers, or LiteLLM does.        *)
Step(c) ==
    \/ Resolve(c) \/ Format(c) \/ Probe(c) \/ Prepare(c)
    \/ Succeeds(c) \/ Opens(c) \/ Chunk(c) \/ StreamEnds(c) \/ Breaks(c)
    \/ \E f \in Failure : Fails(c, f) \/ RefusesStream(c, f)
    \/ \E a \in Failure \cup {"ok"} : Embeds(c, a)

Next ==
    \E c \in Call :
        Step(c) \/ \E way \in Way, p \in Prompt : Ask(c, way, p)

Spec == Init /\ [][Next]_vars /\ \A c \in Call : WF_vars(Step(c))

-----------------------------------------------------------------------------
(* The types of the state.                                                 *)
TypeOK ==
    /\ call \in [Call -> CallState]
    /\ asked \in [Call -> [model : Model \cup {None}, times : Nat, answer : Failure \cup {"ok", None},
                           sent : Seq(Nat), after : 0..MaxChunks]]
    /\ cache \in [Model -> {"hinted", "detected", "raw", None}]

(* A provider is not asked again what it has definitely refused, or a      *)
(* second time the model's answer: the only answers another call follows   *)
(* are those that may pass, and a prompt found too long -- which is sent   *)
(* again shorter, once ("auth and bad-request failures fail fast",         *)
(* client.py 302-303).                                                     *)
FailsFast ==
    [][\A c \in Call :
        asked[c].model = asked'[c].model /\ asked[c].times < asked'[c].times =>
            \/ asked[c].answer \in Retryable
            \/ asked[c].answer = "overflow" /\ Len(asked'[c].sent) < Len(asked[c].sent)]_vars

(* A request is sent to its provider no more often than twice the attempts *)
(* of the settings, through retries, shorter prompts and the chain.  The   *)
(* probe of the prompt format (client.py 184) comes on top of it.          *)
AttemptsAreBounded == \A c \in Call : asked[c].times <= 2 * MaxAttempts

(* A consumer that has been given part of an answer is not given another   *)
(* answer's beginning after it ("errors mid-stream propagate to the        *)
(* consumer", client.py 362-363).                                          *)
NoReplay == \A c \in Call : asked[c].after = 0

(* Every call ends.                                                        *)
CallsEnd == \A c \in Call : call[c].at # "no" ~> call[c].at = "over"

-----------------------------------------------------------------------------
(* What comments and documents say and the code does not do.               *)

(* "Typed failure -- NOT a silent empty success" (client.py, _complete):   *)
(* an empty text means that the provider gave an empty text.               *)
EmptyWasAnswered ==
    \A c \in Call : call[c].reply = "empty" => asked[c].answer = "ok"

(* "If all retries are exhausted, logs the failure and tries the next      *)
(* fallback model" (fallback.py, FallbackChain).                           *)
FallsBack ==
    \A c \in Call :
        call[c].way = "chain" /\ call[c].reply = "error" => call[c].nth = Len(Chain)

(* "Retries on rate limits, connection errors, server errors, and          *)
(* timeouts" (retries.py, llm_retry_policy).                               *)
TimeoutsAreRetried ==
    \A c \in Call :
        call[c].reply \in {"error", "raised"} /\ call[c].way # "embed"
            /\ asked[c].answer = "timeout" => call[c].tries + 1 >= MaxAttempts

(* "Results are cached per model string" (engine.py): one probe a model.   *)
FormatIsSettled == [][\A m \in Model : cache[m] # None => cache'[m] = cache[m]]_vars
=============================================================================
