----------------------------- MODULE LlmProvider -----------------------------
(***************************************************************************)
(* One provider of the AI module (ai/llm): a request to Gemini goes down a *)
(* list of models until one is served, the list made of the requested      *)
(* model, its aliases and what the service says it serves (cached for five *)
(* minutes); a request to Groq names one model.  Whatever happens becomes  *)
(* a response: the providers raise nothing.                                *)
(***************************************************************************)
EXTENDS Integers, Sequences, FiniteSets, SequencesExt

CONSTANTS
    Models,      \* names of models
    Live,        \* those the service may serve
    Requested,   \* the model of the requests
    Aliases,     \* the sequence of its MODEL_ALIASES
    Family,      \* the models that share "flash" or "pro" with its name
    Contents,    \* texts a model may write, each with its form
    MaxChanges   \* bound: how often the service changes what it serves

ASSUME ModelsAssumption ==
    /\ Requested \in Models /\ Aliases \in Seq(Models) /\ Family \cup Live \subseteq Models
    /\ \A content \in Contents : content.form \in {"complete", "incomplete", "not json"}

VARIABLES
    provider,   \* what ProviderFactory has built
    served,     \* the models the service serves
    changes,    \* how often that has changed
    cache,      \* the models the provider has listed, and at which change
    call        \* the request under way and its response

llmVars == <<provider, served, changes, cache, call>>

Providers == {"gemini", "groq"}

Unlisted == [models |-> <<>>, known |-> FALSE, at |-> 0]
NoAnswer == [success |-> FALSE, type |-> "none", retryable |-> FALSE, message |-> "none"]
NoCall   == [pc |-> "none", structured |-> FALSE, controls |-> FALSE,
             left |-> <<>>, tried |-> {}, answer |-> NoAnswer]

\* LLMResponse.  Of an error's message only what callers and properties look
\* for is kept: that a model was not found, that the time was up.
Err(type, retryable) == [success |-> FALSE, type |-> type, retryable |-> retryable, message |-> "other"]
Saying(message, err) == [err EXCEPT !.message = message]
Good(content)        == [success |-> TRUE, content |-> content]
ModelNotFound        == Saying("not found", Err("provider_error", FALSE))

Asking(step) == call.pc = step
Answered     == call.pc = "done"

\* Of the elements that are the same by Of, the first one.
Firsts(s, Of(_)) ==
    LET at == SelectSeq([i \in DOMAIN s |-> i], LAMBDA i : \A j \in 1..(i - 1) : Of(s[j]) # Of(s[i]))
    IN  [k \in DOMAIN at |-> s[at[k]]]

Distinct(s) == Firsts(s, LAMBDA m : m)

BuildCandidates == Distinct(<<Requested>> \o Aliases)

\* Mutant: only models of the family are a fallback.
PrioritizeFamily(listed) ==
    Distinct(SelectSeq(BuildCandidates, LAMBDA m : m \in Range(listed))
             \o SelectSeq(listed, LAMBDA m : m \in Family) \o BuildCandidates)

\* _prioritize_candidates: those of the candidates that are listed, the family,
\* the other listed models, the candidates that are not listed.
Prioritize(listed) ==
    Distinct(SelectSeq(BuildCandidates, LAMBDA m : m \in Range(listed))
             \o SelectSeq(listed, LAMBDA m : m \in Family) \o listed \o BuildCandidates)

-----------------------------------------------------------------------------
\* generate_text and generate_structured build the payload of the request.
Ask(structured) ==
    /\ call' = [NoCall EXCEPT !.pc = IF provider = "gemini" THEN "list" ELSE "post",
                              !.structured = structured, !.controls = structured,
                              !.left = IF provider = "gemini" THEN <<>> ELSE <<Requested>>]
    /\ UNCHANGED <<provider, served, changes, cache>>

Post(listed) ==
    call' = [call EXCEPT !.pc = "post", !.tried = {},
                         !.left = IF listed = <<>> THEN BuildCandidates ELSE Prioritize(listed)]

\* _get_available_generate_models: the cache, the service, or what is left of
\* the cache when the service does not answer.  Whether the cache is still
\* fresh is left open: requests are minutes apart or seconds.
UseCache ==
    /\ Asking("list") /\ cache.known
    /\ Post(cache.models)
    /\ UNCHANGED <<provider, served, changes, cache>>

FetchModels ==
    /\ Asking("list")
    /\ LET listed == SetToSeq(served)
       IN  /\ cache' = [models |-> listed, known |-> TRUE, at |-> changes]
           /\ Post(listed)
    /\ UNCHANGED <<provider, served, changes>>

FetchFails ==
    /\ Asking("list") /\ ~cache.known
    /\ Post(cache.models)
    /\ UNCHANGED <<provider, served, changes, cache>>

Respond(answer) ==
    /\ call' = [call EXCEPT !.pc = "done", !.answer = answer]
    /\ UNCHANGED <<provider, served, changes, cache>>

\* A model that is not served: the next candidate, or the last 404.
TryNext ==
    /\ Asking("post") /\ Head(call.left) \notin served
    /\ IF Tail(call.left) = <<>>
       THEN Respond(ModelNotFound)
       ELSE /\ call' = [call EXCEPT !.left = Tail(@), !.tried = @ \cup {Head(call.left)}]
            /\ UNCHANGED <<provider, served, changes, cache>>

\* The service rejects responseMimeType or responseSchema: once more without.
DropControls ==
    /\ Asking("post") /\ Head(call.left) \in served
    /\ provider = "gemini" /\ call.controls
    /\ call' = [call EXCEPT !.pc = "list", !.controls = FALSE]
    /\ UNCHANGED <<provider, served, changes, cache>>

\* _handle_error: 401, 429, 5xx, other statuses.
HttpErrors == {Err("authentication", FALSE), Err("rate_limit", TRUE),
               Err("provider_error", TRUE), Err("provider_error", FALSE)}

HttpFails ==
    /\ Asking("post") /\ Head(call.left) \in served
    /\ \E answer \in HttpErrors : Respond(answer)

\* httpx.TimeoutException, for which only generate_text has a handler.
TextTimesOut ==
    /\ Asking("post") /\ ~call.structured
    /\ Respond(Saying("timeout", Err("timeout", TRUE)))

StructuredTimesOut ==
    /\ Asking("post") /\ call.structured
    /\ Respond(Saying("timeout", Err("unknown", FALSE)))

\* Any other exception: no connection, no JSON in the answer, an empty text.
Breaks ==
    /\ Asking("post")
    /\ Respond(Err("unknown", FALSE))

\* 200: no candidate at all (Groq: an IndexError), or a text.  A structured
\* text has to be JSON and to have the required fields of the schema.
Answers ==
    /\ Asking("post") /\ Head(call.left) \in served
    /\ \/ Respond(IF provider = "gemini" THEN Err("provider_error", TRUE) ELSE Err("unknown", FALSE))
       \/ \E content \in Contents :
             Respond(IF call.structured /\ content.form # "complete"
                     THEN Err("schema_validation", TRUE) ELSE Good(content))

ProviderStep == UseCache \/ FetchModels \/ FetchFails \/ TryNext \/ DropControls
                  \/ HttpFails \/ TextTimesOut \/ StructuredTimesOut \/ Breaks \/ Answers

-----------------------------------------------------------------------------
(* The service.                                                            *)

ServiceChanges ==
    /\ changes < MaxChanges
    /\ served' \in SUBSET Live \ {served}
    /\ changes' = changes + 1
    /\ UNCHANGED <<provider, cache, call>>

ProviderInit ==
    /\ provider \in Providers
    /\ served \in SUBSET Live
    /\ changes = 0
    /\ cache = Unlisted
    /\ call = NoCall

\* "Model not found" is answered only when there is nothing to fall back on: a
\* provider that has listed the models, however long ago, passes over none of
\* those the service has served ever since.
NotFoundMeansNoneServed ==
    provider = "gemini" /\ Answered /\ call.answer = ModelNotFound
        /\ cache.known /\ cache.at = changes => served = {}
=============================================================================
