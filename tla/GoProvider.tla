----------------------------- MODULE GoProvider -----------------------------
(***************************************************************************)
(* One streamed answer of a model (internal/llm/provider): the goroutine   *)
(* that asks the service, retries when it is told to slow down, and hands  *)
(* events to the agent over a channel without a buffer, so that an event   *)
(* that is sent is an event that is processed.                             *)
(*                                                                         *)
(* The state of the goroutine is a record, its steps the set StreamSteps;  *)
(* the module of the agent takes one of them at a time.                    *)
(***************************************************************************)
EXTENDS Naturals, Sequences

CONSTANTS
    Tools,       \* the names of tools that a model may call
    MaxCalls,    \* bound: tool calls in one answer
    CallsOf,     \* the same, by kind of provider
    MaxRetries   \* maxRetries (8 in the code)

\* The four clients. Azure, Groq, OpenRouter, XAI and local models are OpenAI's
\* client; Bedrock and Vertex wrap Anthropic's and Gemini's.
Kinds == {"anthropic", "openai", "copilot", "gemini"}

ASSUME ProviderAssumption ==
    /\ MaxCalls \in Nat
    /\ CallsOf \in [Kinds -> 0 .. MaxCalls]
    /\ MaxRetries \in Nat \ {0}

Answers == UNION {[1 .. n -> Tools] : n \in 0 .. MaxCalls}

Reasons == {"tool_use", "end_turn", "max_tokens", "unknown"}

\* at: request (the call is being made), open (events arrive), backoff (the
\* timer of a retry runs), closed, or panic, which ends the program.
Stream == [kind  : Kinds,
           at    : {"request", "open", "backoff", "closed", "panic"},
           tries : 1 .. MaxRetries + 1,
           calls : Answers,
           told  : 0 .. MaxCalls]

NewStream(kind) ==
    [kind |-> kind, at |-> "request", tries |-> 1, calls |-> <<>>, told |-> 0]

Event ==
    {ev \in [type : {"none", "delta", "start", "complete", "error", "close"},
             calls : Answers, why : Reasons \cup {"", "api", "canceled", "nil"}] :
        ev.type = "complete" => ev.why \in Reasons}

Quiet == [type |-> "none", calls |-> <<>>, why |-> ""]
Delta == [type |-> "delta", calls |-> <<>>, why |-> ""]
Start(calls) == [type |-> "start", calls |-> calls, why |-> ""]
Complete(calls, why) == [type |-> "complete", calls |-> calls, why |-> why]
Failure(why) == [type |-> "error", calls |-> <<>>, why |-> why]
Close == [type |-> "close", calls |-> <<>>, why |-> ""]

Step(ev, st) == [ev |-> ev, st |-> st]

\* The error that ends a stream: an EventError, then the close.
Fails(st, why) == {Step(Failure(why), [st EXCEPT !.at = "closed"])}
Closes(st) == {Step(Close, [st EXCEPT !.at = "closed"])}
Panics(st) == {Step(Quiet, [st EXCEPT !.at = "panic"])}
Completes(st, calls, whys) ==
    {Step(Complete(calls, why), [st EXCEPT !.at = "closed"]) : why \in whys}

\* The call is accepted, and the answer begins.
Opens(st) ==
    {Step(Quiet, [st EXCEPT !.at = "open", !.calls = c]) :
        c \in {a \in Answers : Len(a) <= CallsOf[st.kind]}}

\* Ways in which a call ends: with a status, in the middle, or cancelled.
Errors == {"401", "429", "500", "529", "other"}

\* shouldRetry of each client: what is tried again, after a pause.
AnthropicRetries == {"429", "529"}
OpenAIRetries == {"429", "500"}
GeminiRetries == {"429"}

\* maxRetries times. Whether the last of them is an error of its own or the
\* error itself makes no difference to the agent.
Retry(st, err, retried) ==
    IF err \in retried /\ st.tries <= MaxRetries
    THEN {Step(Quiet, [st EXCEPT !.at = "backoff"])}
    ELSE Fails(st, "api")

Errs(st, retried) == UNION {Retry(st, e, retried) : e \in Errors}

Again(st) == {Step(Quiet, [st EXCEPT !.at = "request", !.tries = @ + 1])}

\* A 401 makes Copilot's client fetch a new bearer token, and call again with
\* the client that was built with the old one. These attempts are not counted
\* in shouldRetry, and past the last of them stream() sends an EventError
\* whose error is nil.
CopilotRetry(st, err) ==
    IF err # "401" THEN Retry(st, err, {"429", "500"})
    ELSE Fails(st, "api") \cup (IF st.tries > MaxRetries THEN Fails(st, "nil")
                                ELSE {Step(Quiet, [st EXCEPT !.at = "backoff"])})

(***************************************************************************)
(* stream() of each client. Anthropic's tells of each call as it begins,   *)
(* and says why the model stopped as the service put it. When the service  *)
(* hangs up in the middle, no Complete is sent.                            *)
(***************************************************************************)
AnthropicStream(st, cancelled) ==
    CASE st.at = "request" -> Opens(st) \cup Errs(st, AnthropicRetries)
      [] st.at = "open"    ->
             {Step(Delta, st)} \cup Fails(st, "api") \cup Closes(st)
             \cup (IF st.told < Len(st.calls)
                   THEN {Step(Start(SubSeq(st.calls, 1, st.told + 1)), [st EXCEPT !.told = @ + 1])}
                   ELSE Completes(st, st.calls, IF st.calls = <<>>
                                                THEN {"end_turn", "max_tokens", "unknown"}
                                                ELSE {"tool_use", "max_tokens"}))
      [] st.at = "backoff" -> Again(st) \cup (IF cancelled THEN Fails(st, "canceled") ELSE {})

(***************************************************************************)
(* OpenAI's client tells of the calls in the end, those that came before   *)
(* the service hung up, and gives tool_use as the reason whenever there    *)
(* are some. It indexes an empty list when nothing came at all, and tests  *)
(* the context the wrong way round in the pause, so that it closes without *)
(* a word. Copilot's stream is the same, but for its 401.                  *)
(***************************************************************************)
CallsTold(st) ==
    UNION {Completes(st, SubSeq(st.calls, 1, n), {"tool_use"}) : n \in DOMAIN st.calls}

OpenAIOpen(st) ==
    {Step(Delta, st)} \cup Fails(st, "api") \cup Panics(st)
    \cup Completes(st, <<>>, {"end_turn", "max_tokens", "unknown"})
    \cup CallsTold(st)

OpenAIStream(st, cancelled) ==
    CASE st.at = "request" -> Opens(st) \cup Errs(st, OpenAIRetries)
      [] st.at = "open"    -> OpenAIOpen(st)
      [] st.at = "backoff" -> Again(st) \cup (IF cancelled THEN Closes(st) ELSE {})

CopilotStream(st, cancelled) ==
    CASE st.at = "request" -> Opens(st) \cup UNION {CopilotRetry(st, e) : e \in Errors}
      [] st.at = "open"    -> OpenAIOpen(st)
      [] st.at = "backoff" -> Again(st) \cup (IF cancelled THEN Closes(st) ELSE {})

(***************************************************************************)
(* Gemini's client asks again at once when nothing came (bound: as often   *)
(* as it retries). After a pause it goes on with the response that came    *)
(* with the error: nil. Two equal calls in an answer are taken as one.     *)
(***************************************************************************)
NothingCame(st) ==
    IF st.tries > MaxRetries THEN {}
    ELSE {Step(Quiet, [NewStream("gemini") EXCEPT !.tries = st.tries + 1])}

GeminiStream(st, cancelled) ==
    CASE st.at = "request" -> Opens(st) \cup Errs(st, GeminiRetries)
      [] st.at = "open"    ->
             {Step(Delta, st)} \cup Errs(st, GeminiRetries)
             \cup Completes(st, <<>>, {"end_turn", "max_tokens", "unknown"})
             \cup CallsTold(st)
             \cup NothingCame(st)
      [] st.at = "backoff" -> Panics(st) \cup (IF cancelled THEN Fails(st, "canceled") ELSE {})

(***************************************************************************)
(* The steps of the goroutine. A call or a stream whose context is         *)
(* cancelled ends with an error; the closed channel is read once more.     *)
(***************************************************************************)
StreamSteps(st, cancelled) ==
    CASE st.at = "closed" -> Closes(st)
      [] st.at = "panic"  -> {}
      [] OTHER            ->
             (IF cancelled /\ st.at # "backoff" THEN Fails(st, "canceled") ELSE {})
             \cup CASE st.kind = "anthropic" -> AnthropicStream(st, cancelled)
                    [] st.kind = "openai"    -> OpenAIStream(st, cancelled)
                    [] st.kind = "copilot"   -> CopilotStream(st, cancelled)
                    [] st.kind = "gemini"    -> GeminiStream(st, cancelled)

(***************************************************************************)
(* send() of each client, for titles and summaries: the same retries       *)
(* without a stream. It returns a text, perhaps an empty one, or an error; *)
(* OpenAI's and Copilot's index the choices, Gemini's looks first;         *)
(* Copilot's asks for ever while the answer is 401.                        *)
(***************************************************************************)
AnthropicSend == {"text", "empty", "error"}
GeminiSend == {"text", "empty", "error"}
OpenAISend == {"text", "empty", "error", "panic"}
CopilotSend == {"text", "empty", "error", "panic", "never"}

SendMessages(kind) ==
    CASE kind = "anthropic" -> AnthropicSend
      [] kind = "openai"    -> OpenAISend
      [] kind = "copilot"   -> CopilotSend
      [] kind = "gemini"    -> GeminiSend

(***************************************************************************)
(* NewProvider: the client of each provider a model may be of. Bedrock is  *)
(* Anthropic's models only; Vertex is Gemini's.                            *)
(***************************************************************************)
NewProvider ==
    [anthropic |-> "anthropic", bedrock |-> "anthropic", gemini |-> "gemini",
     vertexai |-> "gemini", copilot |-> "copilot", openai |-> "openai", azure |-> "openai",
     groq |-> "openai", openrouter |-> "openai", xai |-> "openai", local |-> "openai"]

=============================================================================
