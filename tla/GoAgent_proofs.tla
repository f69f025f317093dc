--------------------------- MODULE GoAgent_proofs ---------------------------
(***************************************************************************)
(* The safety of the agent service for any sessions, requests, tools and   *)
(* providers, however long their answers are and however often they ask.   *)
(*                                                                         *)
(* First what a step of a provider's stream does, then the inductive       *)
(* invariant, which ties the request in the dialog to the run that waits   *)
(* for it, then the properties of GoAgent.                                 *)
(***************************************************************************)
EXTENDS GoAgent, TLAPS

\* A pause is followed by one more attempt, and no call is told twice.
StreamOK(st) ==
    /\ st \in Stream
    /\ st.at = "backoff" => st.tries <= MaxRetries
    /\ st.at \in {"request", "backoff"} \/ st.kind # "anthropic" => st.told = 0
    /\ st.told <= Len(st.calls)

StreamsOK == \A r \in Runs : StreamOK(stream[r])

\* What a run keeps of an answer: at is its place, n the answers asked for,
\* res the results, i the call that is next and m the message. The calls before
\* the next have a result, all of them when the model is asked again, and a
\* denial among them has replaced the finish of the model.
Kept(at, n, res, i, m) ==
    /\ at \in {"idle", "load"} => n = 0
    /\ at \in {"idle", "load", "stream", "ended"} => res = <<>>
    /\ at = "stream" => i = 1
    /\ at \in {"tools", "ask", "run"} =>
           /\ Len(res) = Len(m.calls)
           /\ \A k \in DOMAIN res : k < i => res[k] # "none"
    /\ at \in {"ask", "run"} => i \in DOMAIN res
    /\ at = "loop" /\ n > 0 =>
           /\ Len(res) = Len(m.calls)
           /\ \A k \in DOMAIN res : res[k] # "none"
    /\ \A k \in DOMAIN res : res[k] = "denied" =>
           /\ at # "loop"
           /\ at \in {"tools", "ask", "run"} => m.finish # "tool_use"

ResultsKept == \A r \in Runs : Kept(pc[r], round[r], results[r], next[r], msg[r])

\* The requests of a run reach the screen in their order, each once, and none
\* is answered before it was made.
InOrder ==
    /\ \A i \in DOMAIN toScreen :
           /\ toScreen[i].no <= asks[toScreen[i].run]
           /\ said[toScreen[i].run] < toScreen[i].no
           /\ \A j \in 1 .. i - 1 :
                  toScreen[j].run = toScreen[i].run => toScreen[j].no < toScreen[i].no
    /\ shown # NoRequest =>
           /\ said[shown.run] <= shown.no /\ shown.no <= asks[shown.run]
           /\ \A i \in DOMAIN toScreen :
                  toScreen[i].run = shown.run => shown.no < toScreen[i].no
    /\ \A r \in Runs : said[r] <= asks[r]

\* A yes on its way, or in the channel of the run that waits for it, is the
\* user's.
WordsKept ==
    /\ \A i \in DOMAIN replies :
           LET q == replies[i].to
           IN  /\ q.no <= asks[q.run]
               /\ replies[i].action # "deny" /\ q.no = asks[q.run] => said[q.run] = q.no
               /\ replies[i].action = "session" => <<sess[q.run], q.tool>> \in forGood
    /\ saved \subseteq forGood
    /\ \A r \in Runs : pc[r] = "ask" /\ inbox[r] = "yes" => said[r] = asks[r]

AgentInv ==
    /\ TypeOK /\ StreamsOK /\ ResultsKept
    /\ InOrder /\ WordsKept
    /\ BusyIsLive /\ GrantedByUser

(***************************************************************************)
(* The steps of a stream.                                                  *)
(***************************************************************************)
LEMMA AnswersAreSeqs ==
    ASSUME NEW a \in Answers
    PROVE  a \in Seq(Tools) /\ Len(a) \in 0 .. MaxCalls /\ DOMAIN a = 1 .. Len(a)
<1>1. PICK n \in 0 .. MaxCalls : a \in [1 .. n -> Tools]
  BY DEF Answers
<1> QED BY <1>1, ProviderAssumption

LEMMA SeqsAreAnswers ==
    ASSUME NEW a \in Seq(Tools), Len(a) <= MaxCalls
    PROVE  a \in Answers
<1>1. a \in [1 .. Len(a) -> Tools] /\ Len(a) \in 0 .. MaxCalls
  BY ProviderAssumption
<1> QED BY <1>1 DEF Answers

\* A part of an answer is an answer.
LEMMA PartsAreAnswers ==
    ASSUME NEW a \in Answers, NEW n \in 0 .. Len(a)
    PROVE  SubSeq(a, 1, n) \in Answers
<1>1. a \in Seq(Tools) /\ Len(a) \in 0 .. MaxCalls
  BY AnswersAreSeqs
<1>2. SubSeq(a, 1, n) \in Seq(Tools) /\ Len(SubSeq(a, 1, n)) = n
  BY <1>1
<1>3. n <= MaxCalls
  BY <1>1, ProviderAssumption
<1> QED BY <1>2, <1>3, SeqsAreAnswers

OKSteps == [ev : Event, st : {s \in Stream : StreamOK(s)}]

LEMMA OKStep ==
    ASSUME NEW ev \in Event, NEW s, StreamOK(s)
    PROVE  Step(ev, s) \in OKSteps
BY DEF OKSteps, Step, StreamOK

LEMMA EmptyAnswer == <<>> \in Answers /\ Len(<<>>) = 0
<1>1. <<>> \in [1 .. 0 -> Tools] /\ 0 \in 0 .. MaxCalls
  BY ProviderAssumption
<1>2. Len(<<>>) = 0
  OBVIOUS
<1> QED BY <1>1, <1>2 DEF Answers

LEMMA EventsAreEvents ==
    /\ Quiet \in Event /\ Delta \in Event /\ Close \in Event
    /\ \A c \in Answers : Start(c) \in Event
    /\ \A c \in Answers, w \in Reasons : Complete(c, w) \in Event
    /\ \A w \in {"api", "canceled", "nil"} : Failure(w) \in Event
BY EmptyAnswer DEF Event, Quiet, Delta, Close, Start, Complete, Failure

\* A stream that closes, panics, pauses or tries again is as it should be.
LEMMA MovesOK ==
    ASSUME NEW st, StreamOK(st)
    PROVE  /\ \A at \in {"closed", "panic"} : StreamOK([st EXCEPT !.at = at])
           /\ st.tries <= MaxRetries /\ st.told = 0 => StreamOK([st EXCEPT !.at = "backoff"])
           /\ st.at = "backoff" => StreamOK([st EXCEPT !.at = "request", !.tries = @ + 1])
<1> USE ProviderAssumption DEF Stream
<1>1. ASSUME NEW at \in {"closed", "panic"} PROVE StreamOK([st EXCEPT !.at = at])
  BY DEF StreamOK
<1>2. ASSUME st.tries <= MaxRetries, st.told = 0 PROVE StreamOK([st EXCEPT !.at = "backoff"])
  BY <1>2 DEF StreamOK
<1>3. ASSUME st.at = "backoff" PROVE StreamOK([st EXCEPT !.at = "request", !.tries = @ + 1])
  <2> DEFINE t == [st EXCEPT !.at = "request", !.tries = @ + 1]
  <2>1. st \in Stream /\ st.tries \in 1 .. MaxRetries /\ st.told = 0 /\ st.told <= Len(st.calls)
    BY <1>3 DEF StreamOK
  <2>2. t.at = "request" /\ t.told = st.told /\ t.calls = st.calls
    BY <2>1
  <2>3. t \in Stream
    <3>1. st.tries + 1 \in 1 .. MaxRetries + 1
      BY <2>1
    <3> QED BY <2>1, <3>1
  <2> HIDE DEF t
  <2>4. StreamOK(t)
    BY <2>1, <2>2, <2>3 DEF StreamOK
  <2> QED BY <2>4 DEF t
<1> QED BY <1>1, <1>2, <1>3

LEMMA NewStreamOK ==
    ASSUME NEW k \in Kinds
    PROVE  /\ StreamOK(NewStream(k))
           /\ \A n \in 1 .. MaxRetries + 1 : StreamOK([NewStream(k) EXCEPT !.tries = n])
BY EmptyAnswer, ProviderAssumption DEF NewStream, Stream, StreamOK

\* The steps that all of the clients share.
LEMMA FailsOK ==
    ASSUME NEW st, StreamOK(st), NEW w \in {"api", "canceled", "nil"}
    PROVE  Fails(st, w) \subseteq OKSteps
BY MovesOK, OKStep, EventsAreEvents DEF Fails

LEMMA EndsOK ==
    ASSUME NEW st, StreamOK(st)
    PROVE  /\ Closes(st) \subseteq OKSteps /\ Panics(st) \subseteq OKSteps
           /\ {Step(Delta, st)} \subseteq OKSteps
<1>1. StreamOK([st EXCEPT !.at = "closed"]) /\ StreamOK([st EXCEPT !.at = "panic"])
  BY MovesOK
<1> QED BY <1>1, OKStep, EventsAreEvents DEF Closes, Panics

LEMMA CompletesOK ==
    ASSUME NEW st, StreamOK(st), NEW c \in Answers, NEW ws \in SUBSET Reasons
    PROVE  Completes(st, c, ws) \subseteq OKSteps
<1>1. StreamOK([st EXCEPT !.at = "closed"])
  BY MovesOK
<1> QED BY <1>1, OKStep, EventsAreEvents DEF Completes

LEMMA RetryOK ==
    ASSUME NEW st, StreamOK(st), st.told = 0, NEW e, NEW es
    PROVE  Retry(st, e, es) \subseteq OKSteps
<1>1. CASE e \in es /\ st.tries <= MaxRetries
  <2>1. StreamOK([st EXCEPT !.at = "backoff"])
    BY <1>1, MovesOK
  <2> QED BY <1>1, <2>1, OKStep, EventsAreEvents DEF Retry
<1>2. CASE ~(e \in es /\ st.tries <= MaxRetries)
  <2>1. Fails(st, "api") \subseteq OKSteps
    BY FailsOK
  <2> QED BY <1>2, <2>1 DEF Retry
<1> QED BY <1>1, <1>2

LEMMA AgainOK ==
    ASSUME NEW st, StreamOK(st), st.at = "backoff"
    PROVE  Again(st) \subseteq OKSteps
<1>1. StreamOK([st EXCEPT !.at = "request", !.tries = @ + 1])
  BY MovesOK
<1> QED BY <1>1, OKStep, EventsAreEvents DEF Again

LEMMA OpensOK ==
    ASSUME NEW st, StreamOK(st), st.told = 0
    PROVE  Opens(st) \subseteq OKSteps
<1> SUFFICES ASSUME NEW c \in Answers
             PROVE  Step(Quiet, [st EXCEPT !.at = "open", !.calls = c]) \in OKSteps
  BY DEF Opens
<1>1. Len(c) \in Nat
  BY AnswersAreSeqs, ProviderAssumption
<1> DEFINE t == [st EXCEPT !.at = "open", !.calls = c]
<1>2. st \in Stream
  BY DEF StreamOK
<1>3. t \in Stream
  BY <1>2 DEF Stream
<1>4. t.at = "open" /\ t.told = 0 /\ t.calls = c
  BY <1>2 DEF Stream
<1> HIDE DEF t
<1>5. StreamOK(t)
  BY <1>1, <1>3, <1>4 DEF StreamOK
<1> QED BY <1>5, OKStep, EventsAreEvents DEF t

\* The steps of each client.
LEMMA AnthropicOK ==
    ASSUME NEW st, StreamOK(st), st.at \in {"request", "open", "backoff"},
           st.kind = "anthropic", NEW c \in BOOLEAN
    PROVE  AnthropicStream(st, c) \subseteq OKSteps
<1> USE FailsOK, EndsOK
<1>1. CASE st.at = "request"
  <2>1. st.told = 0
    BY <1>1 DEF StreamOK
  <2>2. Opens(st) \subseteq OKSteps
    BY <2>1, OpensOK
  <2>3. Errs(st, AnthropicRetries) \subseteq OKSteps
    BY <2>1, RetryOK DEF Errs
  <2> QED BY <1>1, <2>2, <2>3 DEF AnthropicStream
<1>2. CASE st.at = "open"
  <2>1. st.calls \in Answers /\ st.told \in 0 .. MaxCalls /\ Len(st.calls) \in 0 .. MaxCalls
    BY AnswersAreSeqs DEF StreamOK, Stream
  <2>2. ASSUME st.told < Len(st.calls)
        PROVE  Step(Start(SubSeq(st.calls, 1, st.told + 1)), [st EXCEPT !.told = @ + 1]) \in OKSteps
    <3>1. st.told + 1 \in 0 .. Len(st.calls) /\ st.told + 1 \in 0 .. MaxCalls
      BY <2>1, <2>2, ProviderAssumption
    <3>2. SubSeq(st.calls, 1, st.told + 1) \in Answers
      BY <2>1, <3>1, PartsAreAnswers
    <3>3. StreamOK([st EXCEPT !.told = @ + 1])
      BY <1>2, <3>1 DEF StreamOK, Stream
    <3> QED BY <3>2, <3>3, OKStep, EventsAreEvents
  <2>3. \A ws \in SUBSET Reasons : Completes(st, st.calls, ws) \subseteq OKSteps
    BY <2>1, CompletesOK
  <2> QED BY <1>2, <2>2, <2>3 DEF AnthropicStream, Reasons
<1>3. CASE st.at = "backoff"
  BY <1>3, AgainOK DEF AnthropicStream
<1> QED BY <1>1, <1>2, <1>3

\* What OpenAI's stream, and Copilot's, does with the answer.
LEMMA OpenOK ==
    ASSUME NEW st, StreamOK(st)
    PROVE  /\ Completes(st, <<>>, {"end_turn", "max_tokens", "unknown"}) \subseteq OKSteps
           /\ CallsTold(st) \subseteq OKSteps
<1>1. st.calls \in Answers
  BY DEF StreamOK, Stream
<1>2. \A n \in DOMAIN st.calls : SubSeq(st.calls, 1, n) \in Answers
  <2>1. DOMAIN st.calls = 1 .. Len(st.calls) /\ Len(st.calls) \in Nat
    BY <1>1, AnswersAreSeqs, ProviderAssumption
  <2> QED BY <1>1, <2>1, PartsAreAnswers
<1> QED BY <1>2, EmptyAnswer, CompletesOK DEF Reasons, CallsTold

LEMMA OpenAIOpenOK ==
    ASSUME NEW st, StreamOK(st)
    PROVE  OpenAIOpen(st) \subseteq OKSteps
BY OpenOK, FailsOK, EndsOK DEF OpenAIOpen

LEMMA CopilotRetryOK ==
    ASSUME NEW st, StreamOK(st), st.told = 0, NEW e \in Errors
    PROVE  CopilotRetry(st, e) \subseteq OKSteps
<1>1. Retry(st, e, {"429", "500"}) \subseteq OKSteps
  BY RetryOK
<1>2. Fails(st, "api") \subseteq OKSteps /\ Fails(st, "nil") \subseteq OKSteps
  BY FailsOK
<1>3. st.tries <= MaxRetries => Step(Quiet, [st EXCEPT !.at = "backoff"]) \in OKSteps
  BY MovesOK, OKStep, EventsAreEvents
<1>4. st.tries > MaxRetries \/ st.tries <= MaxRetries
  BY ProviderAssumption DEF StreamOK, Stream
<1> QED BY <1>1, <1>2, <1>3, <1>4 DEF CopilotRetry

LEMMA OpenAIOK ==
    ASSUME NEW st, StreamOK(st), st.at \in {"request", "open", "backoff"}, NEW c \in BOOLEAN
    PROVE  OpenAIStream(st, c) \subseteq OKSteps /\ CopilotStream(st, c) \subseteq OKSteps
<1>1. CASE st.at = "request"
  <2>1. st.told = 0
    BY <1>1 DEF StreamOK
  <2>2. Opens(st) \subseteq OKSteps
    BY <2>1, OpensOK
  <2>3. Errs(st, OpenAIRetries) \subseteq OKSteps
    BY <2>1, RetryOK DEF Errs
  <2>4. \A e \in Errors : CopilotRetry(st, e) \subseteq OKSteps
    BY <2>1, CopilotRetryOK
  <2> QED BY <1>1, <2>2, <2>3, <2>4 DEF OpenAIStream, CopilotStream
<1>2. CASE st.at = "open"
  BY <1>2, OpenAIOpenOK DEF OpenAIStream, CopilotStream
<1>3. CASE st.at = "backoff"
  BY <1>3, AgainOK, EndsOK DEF OpenAIStream, CopilotStream
<1> QED BY <1>1, <1>2, <1>3

LEMMA GeminiOK ==
    ASSUME NEW st, StreamOK(st), st.at \in {"request", "open", "backoff"},
           st.kind = "gemini", NEW c \in BOOLEAN
    PROVE  GeminiStream(st, c) \subseteq OKSteps
<1>1. st.told = 0
  BY DEF StreamOK
<1>2. Errs(st, GeminiRetries) \subseteq OKSteps
  BY <1>1, RetryOK DEF Errs
<1>3. CASE st.at = "request"
  <2>1. Opens(st) \subseteq OKSteps
    BY <1>1, OpensOK
  <2> QED BY <1>2, <1>3, <2>1 DEF GeminiStream
<1>4. CASE st.at = "open"
  <2>1. ASSUME ~(st.tries > MaxRetries)
        PROVE  Step(Quiet, [NewStream("gemini") EXCEPT !.tries = st.tries + 1]) \in OKSteps
    <3>1. st.tries + 1 \in 1 .. MaxRetries + 1 /\ "gemini" \in Kinds
      BY <2>1, ProviderAssumption DEF StreamOK, Stream, Kinds
    <3> QED BY <3>1, NewStreamOK, OKStep, EventsAreEvents
  <2>2. NothingCame(st) \subseteq OKSteps
    BY <2>1 DEF NothingCame
  <2> QED BY <1>2, <1>4, <2>2, OpenOK, EndsOK DEF GeminiStream
<1>5. CASE st.at = "backoff"
  BY <1>5, EndsOK, FailsOK DEF GeminiStream
<1> QED BY <1>3, <1>4, <1>5

\* Every step of a stream brings an event, and leaves the stream as it should
\* be.
LEMMA StreamStepsOK ==
    ASSUME NEW st, StreamOK(st), NEW c \in BOOLEAN, NEW step \in StreamSteps(st, c)
    PROVE  step.ev \in Event /\ StreamOK(step.st)
<1>1. st.kind \in Kinds /\ st.at \in {"request", "open", "backoff", "closed", "panic"}
  BY DEF StreamOK, Stream
<1>2. CASE st.at = "closed"
  BY <1>2, EndsOK DEF StreamSteps, OKSteps
<1>3. CASE st.at = "panic"
  BY <1>3 DEF StreamSteps
<1>4. CASE st.at \in {"request", "open", "backoff"}
  <2>1. Fails(st, "canceled") \subseteq OKSteps
    BY FailsOK
  <2>2. CASE st.kind = "anthropic"
    <3>1. AnthropicStream(st, c) \subseteq OKSteps
      BY <1>4, <2>2, AnthropicOK
    <3> QED BY <1>4, <2>1, <2>2, <3>1 DEF StreamSteps, OKSteps
  <2>3. CASE st.kind \in {"openai", "copilot"}
    <3>1. OpenAIStream(st, c) \subseteq OKSteps /\ CopilotStream(st, c) \subseteq OKSteps
      BY <1>4, OpenAIOK
    <3> QED BY <1>4, <2>1, <2>3, <3>1 DEF StreamSteps, OKSteps
  <2>4. CASE st.kind = "gemini"
    <3>1. GeminiStream(st, c) \subseteq OKSteps
      BY <1>4, <2>4, GeminiOK
    <3> QED BY <1>4, <2>1, <2>4, <3>1 DEF StreamSteps, OKSteps
  <2> QED BY <1>1, <2>2, <2>3, <2>4 DEF Kinds
<1> QED BY <1>1, <1>2, <1>3, <1>4

(***************************************************************************)
(* The steps of the service.                                               *)
(***************************************************************************)
\* Every stream stays as it should be.
LEMMA StreamsStep ==
    ASSUME TypeOK, StreamsOK, [Next]_vars
    PROVE  StreamsOK'
<1>1. ASSUME NEW r \in Runs, Run(r) PROVE StreamsOK'
  BY <1>1 DEF Run, StreamsOK, runVars, askVars
<1>2. ASSUME NEW r \in Runs, Loads(r) PROVE StreamsOK'
  BY <1>2 DEF Loads, StreamsOK, runVars, askVars
<1>3. ASSUME NEW r \in Runs, Asks(r) PROVE StreamsOK'
  <2>1. kind \in Kinds
    BY DEF TypeOK
  <2>2. StreamOK(NewStream(kind))
    BY <2>1, NewStreamOK
  <2>3. stream' = stream \/ stream' = [stream EXCEPT ![r] = NewStream(kind)]
    BY <1>3 DEF Asks
  <2> QED BY <2>2, <2>3 DEF StreamsOK, TypeOK
<1>4. ASSUME NEW r \in Runs, Streams(r) PROVE StreamsOK'
  <2>1. StreamOK(stream[r]) /\ ctx[r] \in BOOLEAN /\ stream[r].kind \in Kinds
    BY DEF StreamsOK, TypeOK, Stream
  <2>2. \A step \in StreamSteps(stream[r], ctx[r]) : StreamOK(step.st)
    BY <2>1, StreamStepsOK
  <2>3. StreamOK(NewStream(stream[r].kind))
    BY <2>1, NewStreamOK
  <2>4. PICK st : stream' = [stream EXCEPT ![r] = st] /\ StreamOK(st)
    BY <1>4, <2>2, <2>3 DEF Streams
  <2> QED BY <2>4 DEF StreamsOK, TypeOK
<1>5. ASSUME NEW r \in Runs, ToolsCancelled(r) PROVE StreamsOK'
  BY <1>5 DEF ToolsCancelled, StreamsOK, runVars, askVars
<1>6. ASSUME NEW r \in Runs, ToolBegins(r) PROVE StreamsOK'
  BY <1>6 DEF ToolBegins, StreamsOK, runVars, askVars
<1>7. ASSUME NEW r \in Runs, Answered(r) PROVE StreamsOK'
  BY <1>7 DEF Answered, StreamsOK, runVars, askVars
<1>8. ASSUME NEW r \in Runs, ToolEnds(r) PROVE StreamsOK'
  BY <1>8 DEF ToolEnds, StreamsOK, runVars, askVars
<1>9. ASSUME NEW r \in Runs, ToolsDone(r) PROVE StreamsOK'
  BY <1>9 DEF ToolsDone, StreamsOK, runVars, askVars
<1>10. ASSUME NEW r \in Runs, Ends(r) PROVE StreamsOK'
  BY <1>10 DEF Ends, StreamsOK, runVars, askVars
<1>11. ASSUME NEW s \in Sessions, Cancel(s) PROVE StreamsOK'
  BY <1>11 DEF Cancel, StreamsOK, runVars, askVars
<1>12. ASSUME NEW s \in Sessions, Summarizes(s) PROVE StreamsOK'
  BY <1>12 DEF Summarizes, StreamsOK, runVars, askVars
<1>13. ASSUME NEW s \in Sessions, SummaryEnds(s) PROVE StreamsOK'
  BY <1>13 DEF SummaryEnds, StreamsOK, runVars, askVars
<1>14. ASSUME Update PROVE StreamsOK'
  BY <1>14 DEF Update, StreamsOK, runVars, askVars
<1>15. ASSUME Shows PROVE StreamsOK'
  BY <1>15 DEF Shows, StreamsOK, runVars, askVars
<1>16. ASSUME Loses PROVE StreamsOK'
  BY <1>16 DEF Loses, StreamsOK, runVars, askVars
<1>17. ASSUME Decides PROVE StreamsOK'
  BY <1>17 DEF Decides, StreamsOK, runVars, askVars
<1>18. ASSUME Responds PROVE StreamsOK'
  BY <1>18 DEF Responds, StreamsOK, runVars, askVars
<1>19. CASE UNCHANGED vars
  BY <1>19 DEF vars, runVars, askVars, StreamsOK, runVars, askVars
<1> QED
  BY <1>1, <1>2, <1>3, <1>4, <1>5, <1>6, <1>7, <1>8, <1>9, <1>10, <1>11, <1>12, <1>13, <1>14, <1>15, <1>16, <1>17, <1>18, <1>19 DEF Next, RunStep

LEMMA ProcessedType ==
    ASSUME NEW m \in [calls : Answers, finish : Finishes], NEW ev \in Event
    PROVE  Processed(m, ev) \in [calls : Answers, finish : Finishes]
<1>1. CASE ev.type = "start"
  BY <1>1 DEF Processed, Event
<1>2. CASE ev.type = "complete"
  <2>1. ev.why \in Finishes
    BY <1>2 DEF Event, Finishes
  <2> QED BY <1>2, <2>1 DEF Processed, Event
<1>3. CASE ev.type \notin {"start", "complete"}
  BY <1>3 DEF Processed, Event
<1> QED BY <1>1, <1>2, <1>3

\* The tool that a run is at is one of the calls of its answer.
LEMMA NextTool ==
    ASSUME TypeOK, ResultsKept, NEW r \in Runs, AtTool(r)
    PROVE  Tool(r) \in Tools /\ next[r] \in DOMAIN results[r]
<1>1. msg[r].calls \in Seq(Tools) /\ Len(msg[r].calls) \in Nat /\ next[r] \in Nat \ {0}
  BY AnswersAreSeqs, ProviderAssumption DEF TypeOK
<1>2. next[r] \in 1 .. Len(msg[r].calls)
  BY <1>1 DEF AtTool, Left
<1>3. Len(results[r]) = Len(msg[r].calls) /\ results[r] \in Seq(Results)
  BY DEF AtTool, ResultsKept, Kept, TypeOK
<1> QED BY <1>1, <1>2, <1>3 DEF Tool

LEMMA GetsType ==
    ASSUME TypeOK, NEW r \in Runs, next[r] \in DOMAIN results[r],
           NEW x \in Results, Gets(r, x)
    PROVE  results' \in [Runs -> Seq(Results)] /\ next' \in [Runs -> Nat \ {0}]
<1>1. [results[r] EXCEPT ![next[r]] = x] \in Seq(Results)
  BY DEF TypeOK
<1>2. results' = [results EXCEPT ![r] = [results[r] EXCEPT ![next[r]] = x]]
  BY DEF Gets, TypeOK
<1> QED BY <1>1, <1>2 DEF Gets, TypeOK

\* The variables keep their types.
LEMMA TypeStep ==
    ASSUME TypeOK, StreamsOK, ResultsKept, [Next]_vars
    PROVE  TypeOK'
<1>1. ASSUME NEW r \in Runs, Run(r) PROVE TypeOK'
  BY <1>1 DEF Run, TypeOK, Goes, Places, runVars, askVars
<1>2. ASSUME NEW r \in Runs, Loads(r) PROVE TypeOK'
  BY <1>2 DEF Loads, TypeOK, Goes, Places, runVars, askVars
<1>3. ASSUME NEW r \in Runs, Asks(r) PROVE TypeOK'
  <2>1. NewStream(kind) \in Stream /\ Blank \in [calls : Answers, finish : Finishes]
    BY NewStreamOK, EmptyAnswer DEF TypeOK, StreamOK, Blank, Finishes
  <2>2. <<>> \in Seq(Results)
    OBVIOUS
  <2>3. round[r] + 1 \in Nat
    BY DEF TypeOK
  <2>4. CASE ctx[r]
    BY <1>3, <2>4 DEF Asks, TypeOK, Goes, Places, askVars
  <2>5. CASE ~ctx[r]
    <3>1. /\ pc' = [pc EXCEPT ![r] = "stream"]
          /\ round' = [round EXCEPT ![r] = round[r] + 1]
          /\ stream' = [stream EXCEPT ![r] = NewStream(kind)]
          /\ msg' = [msg EXCEPT ![r] = Blank]
          /\ next' = [next EXCEPT ![r] = 1]
          /\ results' = [results EXCEPT ![r] = <<>>]
      BY <1>3, <2>5 DEF Asks, Goes
    <3>2. pc' \in [Runs -> Places] /\ round' \in [Runs -> Nat] /\ next' \in [Runs -> Nat \ {0}]
      BY <2>3, <3>1 DEF TypeOK, Places
    <3>3. stream' \in [Runs -> Stream]
      BY <2>1, <3>1 DEF TypeOK
    <3>4. msg' \in [Runs -> [calls : Answers, finish : Finishes]]
      BY <2>1, <3>1 DEF TypeOK
    <3>5. results' \in [Runs -> Seq(Results)]
      BY <2>2, <3>1 DEF TypeOK
    <3> QED BY <1>3, <3>2, <3>3, <3>4, <3>5 DEF Asks, TypeOK, askVars
  <2> QED BY <2>4, <2>5
<1>4. ASSUME NEW r \in Runs, Streams(r) PROVE TypeOK'
  <2>1. StreamOK(stream[r]) /\ ctx[r] \in BOOLEAN /\ stream[r].kind \in Kinds
    BY DEF StreamsOK, TypeOK, Stream
  <2>2. PICK step \in StreamSteps(stream[r], ctx[r]) :
            LET to == Outcome(step.ev, ctx[r])
            IN  /\ stream' = [stream EXCEPT ![r] = IF to = "stream" THEN step.st ELSE NewStream(stream[r].kind)]
                /\ up' = (step.st.at # "panic")
                /\ Goes(r, to)
                /\ \E m \in {msg[r], Processed(msg[r], step.ev)} :
                    /\ to # "over" => m = Processed(msg[r], step.ev)
                    /\ msg' = [msg EXCEPT ![r] = IF to = "over" THEN Finish(m, "canceled") ELSE m]
                /\ results' = IF to # "tools" THEN results
                              ELSE [results EXCEPT ![r] = [k \in DOMAIN msg[r].calls |-> "none"]]
    BY <1>4 DEF Streams
  <2>3. step.ev \in Event /\ StreamOK(step.st) /\ StreamOK(NewStream(stream[r].kind))
    BY <2>1, StreamStepsOK, NewStreamOK
  <2>4. stream' \in [Runs -> Stream] /\ up' \in BOOLEAN
    BY <2>2, <2>3 DEF TypeOK, StreamOK
  <2>5. Outcome(step.ev, ctx[r]) \in Places
    BY <2>3 DEF Outcome, Places, Event
  <2>6. pc' \in [Runs -> Places]
    BY <2>2, <2>5 DEF TypeOK, Goes
  <2>7. msg' \in [Runs -> [calls : Answers, finish : Finishes]]
    <3>1. msg[r] \in [calls : Answers, finish : Finishes]
      BY DEF TypeOK
    <3>2. Processed(msg[r], step.ev) \in [calls : Answers, finish : Finishes]
      BY <2>3, <3>1, ProcessedType
    <3>3. PICK m \in [calls : Answers, finish : Finishes] :
              \/ msg' = [msg EXCEPT ![r] = Finish(m, "canceled")]
              \/ msg' = [msg EXCEPT ![r] = m]
      BY <2>2, <3>1, <3>2
    <3>4. Finish(m, "canceled") \in [calls : Answers, finish : Finishes]
      BY DEF Finish, Finishes
    <3> QED BY <3>3, <3>4 DEF TypeOK
  <2>8. results' \in [Runs -> Seq(Results)]
    <3>1. msg[r].calls \in Answers
      BY DEF TypeOK
    <3>2. DOMAIN msg[r].calls = 1 .. Len(msg[r].calls) /\ Len(msg[r].calls) \in Nat
      BY <3>1, AnswersAreSeqs, ProviderAssumption
    <3>3. [k \in DOMAIN msg[r].calls |-> "none"] \in Seq(Results)
      BY <3>2 DEF Results
    <3> QED BY <2>2, <3>3 DEF TypeOK
  <2> QED BY <1>4, <2>4, <2>6, <2>7, <2>8 DEF Streams, TypeOK, askVars
<1>5. ASSUME NEW r \in Runs, ToolsCancelled(r) PROVE TypeOK'
  <2>1. [k \in DOMAIN results[r] |-> IF k \in Left(r) THEN "canceled" ELSE results[r][k]] \in Seq(Results)
    <3>1. results[r] \in Seq(Results) /\ "canceled" \in Results
      BY DEF TypeOK, Results
    <3>2. Len(results[r]) \in Nat /\ DOMAIN results[r] = 1 .. Len(results[r])
      BY <3>1
    <3>3. \A k \in DOMAIN results[r] : results[r][k] \in Results
      BY <3>1
    <3> QED BY <3>1, <3>2, <3>3
  <2>2. Finish(msg[r], "canceled") \in [calls : Answers, finish : Finishes]
    BY DEF TypeOK, Finish, Finishes
  <2>3. Len(msg[r].calls) + 1 \in Nat \ {0}
    <3>1. msg[r].calls \in Answers
      BY DEF TypeOK
    <3> QED BY <3>1, AnswersAreSeqs, ProviderAssumption
  <2> QED BY <1>5, <2>1, <2>2, <2>3 DEF ToolsCancelled, TypeOK, askVars
<1>6. ASSUME NEW r \in Runs, ToolBegins(r) PROVE TypeOK'
  <2>1. Tool(r) \in Tools /\ next[r] \in DOMAIN results[r]
    BY <1>6, NextTool DEF ToolBegins
  <2>2. CASE Gets(r, "error") /\ UNCHANGED <<pc, asks, inbox, toScreen>>
    <3>1. results' \in [Runs -> Seq(Results)] /\ next' \in [Runs -> Nat \ {0}]
      BY <2>1, <2>2, GetsType DEF Results
    <3> QED BY <1>6, <2>2, <3>1 DEF ToolBegins, TypeOK
  <2>3. CASE Approved(r) /\ Goes(r, "run") /\ UNCHANGED <<next, results, asks, inbox, toScreen>>
    BY <1>6, <2>3 DEF ToolBegins, TypeOK, Goes, Places
  <2>4. CASE /\ ~Approved(r) /\ Goes(r, "ask")
             /\ asks' = [asks EXCEPT ![r] = @ + 1]
             /\ inbox' = [inbox EXCEPT ![r] = "empty"]
             /\ toScreen' = Append(toScreen, [run |-> r, no |-> asks[r] + 1, tool |-> Tool(r)])
             /\ UNCHANGED <<next, results>>
    <3>1. Tool(r) \in Asking /\ asks[r] + 1 \in Nat
      BY <2>4 DEF Approved, TypeOK
    <3>2. [run |-> r, no |-> asks[r] + 1, tool |-> Tool(r)] \in Requests
      BY <3>1 DEF Requests
    <3>3. toScreen' \in Seq(Requests)
      BY <2>4, <3>2 DEF TypeOK
    <3> QED BY <1>6, <2>4, <3>1, <3>3 DEF ToolBegins, TypeOK, Goes, Places
  <2> QED BY <1>6, <2>2, <2>3, <2>4 DEF ToolBegins
<1>7. ASSUME NEW r \in Runs, Answered(r) PROVE TypeOK'
  <2>1. [k \in DOMAIN results[r] |-> CASE k < next[r] -> results[r][k]
                                        [] k = next[r] -> "denied"
                                        [] k > next[r] -> "canceled"] \in Seq(Results)
    <3>1. results[r] \in Seq(Results) /\ next[r] \in Nat
      BY DEF TypeOK
    <3> QED BY <3>1 DEF Results
  <2>2. Finish(msg[r], "permission_denied") \in [calls : Answers, finish : Finishes]
    BY DEF TypeOK, Finish, Finishes
  <2>3. next[r] + 1 \in Nat \ {0}
    BY DEF TypeOK
  <2>4. CASE inbox[r] = "yes"
    BY <1>7, <2>4 DEF Answered, TypeOK, Goes, Places
  <2>6. CASE Gets(r, "refused") /\ UNCHANGED msg
    <3>1. next[r] \in DOMAIN results[r]
      BY <1>7 DEF Answered, ResultsKept, Kept
    <3>2. results' \in [Runs -> Seq(Results)] /\ next' \in [Runs -> Nat \ {0}]
      BY <2>6, <3>1, GetsType DEF Results
    <3> QED BY <1>7, <2>6, <3>2 DEF Answered, TypeOK, Goes, Places
  <2>5. CASE Denied(r)
    <3>1. results' \in [Runs -> Seq(Results)]
      <4> DEFINE new == [k \in DOMAIN results[r] |-> CASE k < next[r] -> results[r][k]
                                                     [] k = next[r] -> "denied"
                                                     [] k > next[r] -> "canceled"]
      <4>1. results' = [results EXCEPT ![r] = new]
        BY <2>5 DEF Denied
      <4>2. new \in Seq(Results)
        BY <2>1
      <4> HIDE DEF new
      <4> QED BY <4>1, <4>2 DEF TypeOK
    <3>2. msg' \in [Runs -> [calls : Answers, finish : Finishes]] /\ next' \in [Runs -> Nat \ {0}]
      <4>1. /\ msg' = [msg EXCEPT ![r] = Finish(msg[r], "permission_denied")]
            /\ next' = [next EXCEPT ![r] = next[r] + 1]
        BY <2>5 DEF Denied
      <4>2. next' \in [Runs -> Nat \ {0}]
        BY <2>3, <4>1 DEF TypeOK
      <4>3. msg' \in [Runs -> [calls : Answers, finish : Finishes]]
        BY <2>2, <4>1 DEF TypeOK
      <4> QED BY <4>2, <4>3
    <3>3. pc' \in [Runs -> Places] /\ inbox' \in [Runs -> {"empty", "yes", "no"}]
      BY <1>7, <2>5 DEF Answered, TypeOK, Goes, Places
    <3> QED BY <1>7, <3>1, <3>2, <3>3 DEF Answered, TypeOK
  <2> QED BY <1>7, <2>4, <2>5, <2>6 DEF Answered
<1>8. ASSUME NEW r \in Runs, ToolEnds(r) PROVE TypeOK'
  <2>1. next[r] \in DOMAIN results[r]
    BY <1>8 DEF ToolEnds, ResultsKept, Kept
  <2>2. \A x \in {"ok", "error"} : Gets(r, x) =>
            results' \in [Runs -> Seq(Results)] /\ next' \in [Runs -> Nat \ {0}]
    BY <2>1, GetsType DEF Results
  <2>3. results' \in [Runs -> Seq(Results)] /\ next' \in [Runs -> Nat \ {0}]
    BY <1>8, <2>2 DEF ToolEnds, TypeOK
  <2> QED BY <1>8, <2>3 DEF ToolEnds, TypeOK, Goes, Places, askVars
<1>9. ASSUME NEW r \in Runs, ToolsDone(r) PROVE TypeOK'
  BY <1>9 DEF ToolsDone, TypeOK, Goes, Places, runVars, askVars
<1>10. ASSUME NEW r \in Runs, Ends(r) PROVE TypeOK'
  <2>1. Blank \in [calls : Answers, finish : Finishes]
    BY EmptyAnswer DEF Blank, Finishes
  <2>2. <<>> \in Seq(Results)
    OBVIOUS
  <2> QED BY <1>10, <2>1, <2>2 DEF Ends, TypeOK, Goes, Places, askVars
<1>11. ASSUME NEW s \in Sessions, Cancel(s) PROVE TypeOK'
  BY <1>11 DEF Cancel, TypeOK, Goes, Places, runVars, askVars
<1>12. ASSUME NEW s \in Sessions, Summarizes(s) PROVE TypeOK'
  BY <1>12 DEF Summarizes, TypeOK, Goes, Places, runVars, askVars
<1>13. ASSUME NEW s \in Sessions, SummaryEnds(s) PROVE TypeOK'
  BY <1>13 DEF SummaryEnds, TypeOK, Goes, Places, runVars, askVars
<1>14. ASSUME Update PROVE TypeOK'
  <2>1. kind' \in Kinds
    BY <1>14, AgentAssumption DEF Update, NewProvider, Kinds
  <2> QED BY <1>14, <2>1 DEF Update, TypeOK, runVars, askVars
<1>15. ASSUME Shows PROVE TypeOK'
  <2>1. Head(toScreen) \in Requests /\ Tail(toScreen) \in Seq(Requests)
    BY <1>15 DEF Shows, TypeOK
  <2> QED BY <1>15, <2>1 DEF Shows, TypeOK, runVars
<1>16. ASSUME Loses PROVE TypeOK'
  <2>1. Tail(toScreen) \in Seq(Requests)
    BY <1>16 DEF Loses, TypeOK
  <2> QED BY <1>16, <2>1 DEF Loses, TypeOK, runVars
<1>17. ASSUME Decides PROVE TypeOK'
  <2>1. shown \in Requests /\ shown.run \in Runs /\ shown.no \in Nat /\ shown.tool \in Asking
    BY <1>17 DEF Decides, TypeOK, Requests
  <2>2. PICK a \in Actions :
            /\ replies' = Append(replies, [to |-> shown, action |-> a])
            /\ said' = IF a # "deny" THEN [said EXCEPT ![shown.run] = shown.no] ELSE said
            /\ forGood' = IF a # "session" THEN forGood
                          ELSE forGood \cup {<<sess[shown.run], shown.tool>>}
    BY <1>17 DEF Decides
  <2>3. replies' \in Seq([to : Requests, action : Actions])
    BY <2>1, <2>2 DEF TypeOK
  <2>4. said' \in [Runs -> Nat] /\ forGood' \subseteq Sessions \X Asking
    BY <2>1, <2>2 DEF TypeOK
  <2> QED BY <1>17, <2>3, <2>4 DEF Decides, TypeOK, runVars
<1>18. ASSUME Responds PROVE TypeOK'
  <2>1. Head(replies) \in [to : Requests, action : Actions] /\ Tail(replies) \in Seq([to : Requests, action : Actions])
    <3> DEFINE Sent == [to : Requests, action : Actions]
    <3>1. replies \in Seq(Sent) /\ replies # <<>>
      BY <1>18 DEF Responds, TypeOK
    <3> HIDE DEF Sent
    <3>2. Head(replies) \in Sent /\ Tail(replies) \in Seq(Sent)
      BY <3>1
    <3> QED BY <3>2 DEF Sent
  <2>2. Head(replies).to.run \in Runs /\ Head(replies).to.tool \in Asking
    BY <2>1 DEF Requests
  <2>3. inbox' \in [Runs -> {"empty", "yes", "no"}] /\ saved' \subseteq Sessions \X Asking
    BY <1>18, <2>2 DEF Responds, TypeOK
  <2> QED BY <1>18, <2>1, <2>3 DEF Responds, TypeOK, runVars
<1>19. CASE UNCHANGED vars
  BY <1>19 DEF vars, runVars, askVars, TypeOK, Goes, Places, runVars, askVars
<1> QED
  BY <1>1, <1>2, <1>3, <1>4, <1>5, <1>6, <1>7, <1>8, <1>9, <1>10, <1>11, <1>12, <1>13, <1>14, <1>15, <1>16, <1>17, <1>18, <1>19 DEF Next, RunStep

\* A step that leaves the other runs alone keeps what they keep.
SameRun(q) ==
    /\ pc'[q] = pc[q] /\ round'[q] = round[q] /\ results'[q] = results[q]
    /\ next'[q] = next[q] /\ msg'[q] = msg[q]

LEMMA KeptByOthers ==
    ASSUME ResultsKept, NEW r \in Runs, \A q \in Runs \ {r} : SameRun(q),
           Kept(pc'[r], round'[r], results'[r], next'[r], msg'[r])
    PROVE  ResultsKept'
<1> SUFFICES ASSUME NEW q \in Runs
             PROVE  Kept(pc'[q], round'[q], results'[q], next'[q], msg'[q])
  BY DEF ResultsKept
<1>1. CASE q = r
  BY <1>1
<1>2. CASE q # r
  BY <1>2 DEF SameRun, ResultsKept
<1> QED BY <1>1, <1>2

\* A result is given to the call that the run is at.
LEMMA GetsKept ==
    ASSUME TypeOK, NEW r \in Runs, Kept(pc[r], round[r], results[r], next[r], msg[r]),
           pc[r] \in {"tools", "ask", "run"}, next[r] \in DOMAIN results[r],
           NEW x \in {"ok", "error", "refused"}, Gets(r, x), pc'[r] = "tools", msg'[r] = msg[r],
           round'[r] = round[r]
    PROVE  Kept(pc'[r], round'[r], results'[r], next'[r], msg'[r])
<1>1. results'[r] = [results[r] EXCEPT ![next[r]] = x] /\ next'[r] = next[r] + 1
  BY DEF Gets, TypeOK
<1>2. results[r] \in Seq(Results) /\ next[r] \in Nat
  BY DEF TypeOK
<1>3. DOMAIN results'[r] = DOMAIN results[r] /\ Len(results'[r]) = Len(results[r])
  BY <1>1, <1>2
<1>4. \A k \in DOMAIN results[r] : k < next[r] + 1 => results'[r][k] # "none"
  <2> SUFFICES ASSUME NEW k \in DOMAIN results[r], k < next[r] + 1 PROVE results'[r][k] # "none"
    OBVIOUS
  <2>1. k = next[r] \/ k < next[r]
    BY <1>2
  <2> QED BY <1>1, <1>2, <2>1 DEF Kept
<1>5. \A k \in DOMAIN results[r] : results'[r][k] = "denied" => results[r][k] = "denied"
  BY <1>1, <1>2
<1> QED BY <1>1, <1>3, <1>4, <1>5 DEF Kept

\* A run keeps what it should of its answer.
LEMMA ResultsStep ==
    ASSUME TypeOK, StreamsOK, ResultsKept, [Next]_vars
    PROVE  ResultsKept'
<1>1. ASSUME NEW r \in Runs, Run(r) PROVE ResultsKept'
  <2>1. \A q \in Runs \ {r} : SameRun(q)
    BY <1>1 DEF Run, SameRun, TypeOK, Goes
  <2>2. Kept(pc[r], round[r], results[r], next[r], msg[r])
    BY DEF ResultsKept
  <2>3. pc'[r] = "load" /\ UNCHANGED <<round, results, next, msg>>
    BY <1>1 DEF Run, TypeOK, Goes
  <2>9. Kept(pc'[r], round'[r], results'[r], next'[r], msg'[r])
    BY <1>1, <2>2, <2>3 DEF Run, Kept
  <2> QED BY <2>1, <2>9, KeptByOthers
<1>2. ASSUME NEW r \in Runs, Loads(r) PROVE ResultsKept'
  <2>1. \A q \in Runs \ {r} : SameRun(q)
    BY <1>2 DEF Loads, SameRun, TypeOK, Goes
  <2>2. Kept(pc[r], round[r], results[r], next[r], msg[r])
    BY DEF ResultsKept
  <2>3. /\ pc[r] = "load" /\ pc'[r] \in {"over", "loop"}
        /\ UNCHANGED <<round, results, next, msg>>
    BY <1>2 DEF Loads, TypeOK, Goes
  <2>9. Kept(pc'[r], round'[r], results'[r], next'[r], msg'[r])
    BY <2>2, <2>3 DEF Kept
  <2> QED BY <2>1, <2>9, KeptByOthers
<1>3. ASSUME NEW r \in Runs, Asks(r) PROVE ResultsKept'
  <2>1. \A q \in Runs \ {r} : SameRun(q)
    BY <1>3 DEF Asks, SameRun, TypeOK, Goes
  <2>2. Kept(pc[r], round[r], results[r], next[r], msg[r])
    BY DEF ResultsKept
  <2>3. ASSUME ctx[r] PROVE Kept(pc'[r], round'[r], results'[r], next'[r], msg'[r])
    <3>1. pc'[r] = "over" /\ UNCHANGED <<round, results, next, msg>>
      BY <1>3, <2>3 DEF Asks, TypeOK, Goes
    <3> QED BY <3>1 DEF Kept
  <2>4. ASSUME ~ctx[r] PROVE Kept(pc'[r], round'[r], results'[r], next'[r], msg'[r])
    <3>1. pc'[r] = "stream" /\ results'[r] = <<>> /\ next'[r] = 1
      BY <1>3, <2>4 DEF Asks, TypeOK, Goes
    <3> QED BY <3>1 DEF Kept
  <2>9. Kept(pc'[r], round'[r], results'[r], next'[r], msg'[r])
    BY <2>3, <2>4
  <2> QED BY <2>1, <2>9, KeptByOthers
<1>4. ASSUME NEW r \in Runs, Streams(r) PROVE ResultsKept'
  <2> DEFINE to(step) == Outcome(step.ev, ctx[r])
  <2>2. Kept(pc[r], round[r], results[r], next[r], msg[r]) /\ pc[r] = "stream"
    BY <1>4 DEF Streams, ResultsKept
  <2>30. PICK step \in StreamSteps(stream[r], ctx[r]) : \E m :
            /\ pc' = [pc EXCEPT ![r] = to(step)]
            /\ to(step) # "over" => m = Processed(msg[r], step.ev)
            /\ msg' = [msg EXCEPT ![r] = IF to(step) = "over" THEN Finish(m, "canceled") ELSE m]
            /\ results' = IF to(step) # "tools" THEN results
                          ELSE [results EXCEPT ![r] = [k \in DOMAIN msg[r].calls |-> "none"]]
    BY <1>4 DEF Streams, Goes
  <2>3. PICK m :
            /\ pc' = [pc EXCEPT ![r] = to(step)]
            /\ to(step) # "over" => m = Processed(msg[r], step.ev)
            /\ msg' = [msg EXCEPT ![r] = IF to(step) = "over" THEN Finish(m, "canceled") ELSE m]
            /\ results' = IF to(step) # "tools" THEN results
                          ELSE [results EXCEPT ![r] = [k \in DOMAIN msg[r].calls |-> "none"]]
    BY <2>30
  <2>4. UNCHANGED <<round, next>>
    BY <1>4 DEF Streams
  <2>1. \A q \in Runs \ {r} : SameRun(q)
    BY <2>3, <2>4 DEF SameRun, TypeOK
  <2>5. step.ev \in Event /\ ctx[r] \in BOOLEAN
    BY StreamStepsOK DEF StreamsOK, TypeOK
  <2>6. to(step) \in {"stream", "tools", "over", "panicked"} /\ pc'[r] = to(step)
    BY <2>3, <2>5 DEF Outcome, Event, TypeOK
  <2>7. ASSUME to(step) = "tools" PROVE Kept(pc'[r], round'[r], results'[r], next'[r], msg'[r])
    <3>1. step.ev.type = "close"
      BY <2>5, <2>7 DEF Outcome, Event
    <3>2. msg'[r] = msg[r]
      BY <2>3, <2>7, <3>1 DEF Processed, TypeOK
    <3>3. results'[r] = [k \in DOMAIN msg[r].calls |-> "none"]
      BY <2>3, <2>7 DEF TypeOK
    <3>4. DOMAIN msg[r].calls = 1 .. Len(msg[r].calls) /\ Len(msg[r].calls) \in Nat
      BY AnswersAreSeqs, ProviderAssumption DEF TypeOK
    <3>5. Len(results'[r]) = Len(msg[r].calls)
      BY <3>3, <3>4
    <3>6. next'[r] = 1
      BY <2>2, <2>4 DEF Kept
    <3> QED BY <2>6, <2>7, <3>2, <3>3, <3>4, <3>5, <3>6 DEF Kept
  <2>8. ASSUME to(step) # "tools" PROVE Kept(pc'[r], round'[r], results'[r], next'[r], msg'[r])
    <3>1. results'[r] = <<>> /\ next'[r] = 1
      BY <2>2, <2>3, <2>4, <2>8 DEF Kept
    <3> QED BY <2>6, <2>8, <3>1 DEF Kept
  <2>9. Kept(pc'[r], round'[r], results'[r], next'[r], msg'[r])
    BY <2>7, <2>8
  <2> QED BY <2>1, <2>9, KeptByOthers
<1>5. ASSUME NEW r \in Runs, ToolsCancelled(r) PROVE ResultsKept'
  <2>1. \A q \in Runs \ {r} : SameRun(q)
    BY <1>5 DEF ToolsCancelled, SameRun, TypeOK, Goes
  <2>2. Kept(pc[r], round[r], results[r], next[r], msg[r])
    BY DEF ResultsKept
  <2>3. /\ pc[r] = "tools" /\ pc'[r] = "tools"
        /\ results'[r] = [k \in DOMAIN results[r] |-> IF k \in Left(r) THEN "canceled" ELSE results[r][k]]
        /\ next'[r] = Len(msg[r].calls) + 1 /\ round'[r] = round[r]
        /\ msg'[r] = Finish(msg[r], "canceled")
    BY <1>5 DEF ToolsCancelled, AtTool, TypeOK
  <2>4. msg'[r].calls = msg[r].calls /\ msg'[r].finish = "canceled"
    BY <2>3 DEF Finish, TypeOK
  <2>5. /\ results[r] \in Seq(Results) /\ Len(results[r]) = Len(msg[r].calls)
        /\ Len(msg[r].calls) \in Nat /\ next[r] \in Nat
    BY <2>2, <2>3, AnswersAreSeqs, ProviderAssumption DEF Kept, TypeOK
  <2>6. DOMAIN results'[r] = DOMAIN results[r] /\ Len(results'[r]) = Len(results[r])
    BY <2>3, <2>5
  <2>7. \A k \in DOMAIN results'[r] : results'[r][k] # "none"
    BY <2>2, <2>3, <2>5 DEF Kept, Left
  <2>9. Kept(pc'[r], round'[r], results'[r], next'[r], msg'[r])
    BY <2>3, <2>4, <2>5, <2>6, <2>7 DEF Kept
  <2> QED BY <2>1, <2>9, KeptByOthers
<1>6. ASSUME NEW r \in Runs, ToolBegins(r) PROVE ResultsKept'
  <2>1. \A q \in Runs \ {r} : SameRun(q)
    BY <1>6 DEF ToolBegins, SameRun, TypeOK, Goes, Gets
  <2>2. Kept(pc[r], round[r], results[r], next[r], msg[r])
    BY DEF ResultsKept
  <2>3. pc[r] = "tools" /\ UNCHANGED <<round, msg>> /\ next[r] \in DOMAIN results[r]
    BY <1>6, NextTool DEF ToolBegins, AtTool
  <2>4. ASSUME Gets(r, "error") /\ UNCHANGED pc
        PROVE  Kept(pc'[r], round'[r], results'[r], next'[r], msg'[r])
    <3>1. pc'[r] = "tools" /\ msg'[r] = msg[r] /\ round'[r] = round[r]
      BY <2>3, <2>4
    <3> QED BY <2>2, <2>3, <2>4, <3>1, GetsKept
  <2>5. ASSUME NEW at \in {"run", "ask"}, Goes(r, at), UNCHANGED <<next, results>>
        PROVE  Kept(pc'[r], round'[r], results'[r], next'[r], msg'[r])
    <3>1. pc'[r] = at
      BY <2>5 DEF Goes, TypeOK
    <3> QED BY <2>2, <2>3, <2>5, <3>1 DEF Kept
  <2>9. Kept(pc'[r], round'[r], results'[r], next'[r], msg'[r])
    BY <1>6, <2>4, <2>5 DEF ToolBegins
  <2> QED BY <2>1, <2>9, KeptByOthers
<1>7. ASSUME NEW r \in Runs, Answered(r) PROVE ResultsKept'
  <2>1. \A q \in Runs \ {r} : SameRun(q)
    BY <1>7 DEF Answered, Denied, Gets, SameRun, TypeOK, Goes
  <2>2. Kept(pc[r], round[r], results[r], next[r], msg[r])
    BY DEF ResultsKept
  <2>3. pc[r] = "ask" /\ UNCHANGED round
    BY <1>7 DEF Answered
  <2>4. ASSUME inbox[r] = "yes" PROVE Kept(pc'[r], round'[r], results'[r], next'[r], msg'[r])
    <3>1. pc'[r] = "run" /\ UNCHANGED <<next, results, msg>>
      BY <1>7, <2>4 DEF Answered, Goes, TypeOK
    <3> QED BY <2>2, <2>3, <3>1 DEF Kept
  <2>6. ASSUME inbox[r] = "no", Gets(r, "refused") /\ UNCHANGED msg
        PROVE  Kept(pc'[r], round'[r], results'[r], next'[r], msg'[r])
    <3>1. pc'[r] = "tools" /\ msg'[r] = msg[r] /\ round'[r] = round[r]
      BY <1>7, <2>6 DEF Answered, Goes, TypeOK
    <3>2. next[r] \in DOMAIN results[r]
      BY <2>2, <2>3 DEF Kept
    <3> QED BY <2>2, <2>3, <2>6, <3>1, <3>2, GetsKept
  <2>5. ASSUME inbox[r] = "no", Denied(r) PROVE Kept(pc'[r], round'[r], results'[r], next'[r], msg'[r])
    <3> DEFINE new == [k \in DOMAIN results[r] |-> CASE k < next[r] -> results[r][k]
                                                   [] k = next[r] -> "denied"
                                                   [] k > next[r] -> "canceled"]
    <3>1. results' = [results EXCEPT ![r] = new]
      BY <2>5 DEF Denied
    <3>2. /\ pc'[r] = "tools" /\ next'[r] = next[r] + 1
          /\ msg'[r] = Finish(msg[r], "permission_denied")
      BY <1>7, <2>5 DEF Answered, Denied, Goes, TypeOK
    <3>3. results'[r] = new
      BY <3>1 DEF TypeOK
    <3>4. results[r] \in Seq(Results) /\ next[r] \in Nat
      BY DEF TypeOK
    <3>5. DOMAIN new = DOMAIN results[r] /\ Len(new) = Len(results[r])
      BY <3>4
    <3>6. \A k \in DOMAIN new : k < next[r] + 1 => new[k] # "none"
      BY <2>2, <2>3, <3>4 DEF Kept
    <3> HIDE DEF new
    <3>7. msg'[r].calls = msg[r].calls /\ msg'[r].finish = "permission_denied"
      BY <3>2 DEF Finish, TypeOK
    <3> QED BY <2>2, <2>3, <3>2, <3>3, <3>5, <3>6, <3>7 DEF Kept
  <2>9. Kept(pc'[r], round'[r], results'[r], next'[r], msg'[r])
    BY <1>7, <2>4, <2>5, <2>6 DEF Answered
  <2> QED BY <2>1, <2>9, KeptByOthers
<1>8. ASSUME NEW r \in Runs, ToolEnds(r) PROVE ResultsKept'
  <2>1. \A q \in Runs \ {r} : SameRun(q)
    BY <1>8 DEF ToolEnds, SameRun, TypeOK, Goes, Gets
  <2>2. Kept(pc[r], round[r], results[r], next[r], msg[r])
    BY DEF ResultsKept
  <2>3. pc[r] = "run" /\ UNCHANGED <<round, msg>>
    BY <1>8 DEF ToolEnds
  <2>4. next[r] \in DOMAIN results[r] /\ msg'[r] = msg[r] /\ round'[r] = round[r]
    BY <2>2, <2>3 DEF Kept
  <2>5. ASSUME NEW result \in {"ok", "error"}, Gets(r, result), Goes(r, "tools")
        PROVE  Kept(pc'[r], round'[r], results'[r], next'[r], msg'[r])
    <3>1. pc'[r] = "tools"
      BY <2>5 DEF Goes, TypeOK
    <3> QED BY <2>2, <2>3, <2>4, <2>5, <3>1, GetsKept
  <2>6. ASSUME Goes(r, "panicked"), UNCHANGED <<next, results>>
        PROVE  Kept(pc'[r], round'[r], results'[r], next'[r], msg'[r])
    <3>1. pc'[r] = "panicked"
      BY <2>6 DEF Goes, TypeOK
    <3>2. results'[r] = results[r] /\ next'[r] = next[r]
      BY <2>6
    <3> QED BY <2>2, <2>4, <3>1, <3>2 DEF Kept
  <2>9. Kept(pc'[r], round'[r], results'[r], next'[r], msg'[r])
    BY <1>8, <2>5, <2>6 DEF ToolEnds
  <2> QED BY <2>1, <2>9, KeptByOthers
<1>9. ASSUME NEW r \in Runs, ToolsDone(r) PROVE ResultsKept'
  <2>1. \A q \in Runs \ {r} : SameRun(q)
    BY <1>9 DEF ToolsDone, SameRun, TypeOK, Goes
  <2>2. Kept(pc[r], round[r], results[r], next[r], msg[r])
    BY DEF ResultsKept
  <2>3. pc[r] = "tools" /\ UNCHANGED <<round, results, next, msg>> /\ Left(r) = {}
    BY <1>9 DEF ToolsDone
  <2>4. pc'[r] \in {"loop", "over"} /\ (pc'[r] = "loop" => msg[r].finish = "tool_use")
    BY <1>9 DEF ToolsDone, Goes, TypeOK
  <2>5. /\ results[r] \in Seq(Results) /\ Len(results[r]) = Len(msg[r].calls)
        /\ Len(msg[r].calls) \in Nat /\ next[r] \in Nat
    BY <2>2, <2>3, AnswersAreSeqs, ProviderAssumption DEF Kept, TypeOK
  <2>6. \A k \in DOMAIN results[r] : k < next[r]
    BY <2>3, <2>5 DEF Left
  <2>9. Kept(pc'[r], round'[r], results'[r], next'[r], msg'[r])
    BY <2>2, <2>3, <2>4, <2>5, <2>6 DEF Kept
  <2> QED BY <2>1, <2>9, KeptByOthers
<1>10. ASSUME NEW r \in Runs, Ends(r) PROVE ResultsKept'
  <2>1. \A q \in Runs \ {r} : SameRun(q)
    BY <1>10 DEF Ends, SameRun, TypeOK, Goes
  <2>2. Kept(pc[r], round[r], results[r], next[r], msg[r])
    BY DEF ResultsKept
  <2>3. pc'[r] = "ended" /\ results'[r] = <<>>
    BY <1>10 DEF Ends, Goes, TypeOK
  <2>9. Kept(pc'[r], round'[r], results'[r], next'[r], msg'[r])
    BY <2>3 DEF Kept
  <2> QED BY <2>1, <2>9, KeptByOthers
<1>11. ASSUME NEW s \in Sessions, Cancel(s) PROVE ResultsKept'
  BY <1>11 DEF Cancel, ResultsKept, runVars, askVars
<1>12. ASSUME NEW s \in Sessions, Summarizes(s) PROVE ResultsKept'
  BY <1>12 DEF Summarizes, ResultsKept, runVars, askVars
<1>13. ASSUME NEW s \in Sessions, SummaryEnds(s) PROVE ResultsKept'
  BY <1>13 DEF SummaryEnds, ResultsKept, runVars, askVars
<1>14. ASSUME Update PROVE ResultsKept'
  BY <1>14 DEF Update, ResultsKept, runVars, askVars
<1>15. ASSUME Shows PROVE ResultsKept'
  BY <1>15 DEF Shows, ResultsKept, runVars, askVars
<1>16. ASSUME Loses PROVE ResultsKept'
  BY <1>16 DEF Loses, ResultsKept, runVars, askVars
<1>17. ASSUME Decides PROVE ResultsKept'
  BY <1>17 DEF Decides, ResultsKept, runVars, askVars
<1>18. ASSUME Responds PROVE ResultsKept'
  BY <1>18 DEF Responds, ResultsKept, runVars, askVars
<1>19. CASE UNCHANGED vars
  BY <1>19 DEF vars, runVars, askVars, ResultsKept, runVars, askVars
<1> QED
  BY <1>1, <1>2, <1>3, <1>4, <1>5, <1>6, <1>7, <1>8, <1>9, <1>10, <1>11, <1>12, <1>13, <1>14, <1>15, <1>16, <1>17, <1>18, <1>19 DEF Next, RunStep

\* The requests on their way, and those that are answered, are requests.
LEMMA RequestsTyped ==
    ASSUME TypeOK
    PROVE  /\ \A i \in DOMAIN toScreen : toScreen[i].run \in Runs /\ toScreen[i].no \in Nat
           /\ \A i \in DOMAIN replies : replies[i].to.run \in Runs /\ replies[i].to.no \in Nat
           /\ shown # NoRequest => shown.run \in Runs /\ shown.no \in Nat
<1> DEFINE Sent == [to : Requests, action : Actions]
<1>1. toScreen \in Seq(Requests) /\ replies \in Seq(Sent)
  BY DEF TypeOK
<1>2. \A q \in Requests : q.run \in Runs /\ q.no \in Nat
  BY DEF Requests
<1>3. \A x \in Sent : x.to \in Requests
  OBVIOUS
<1> HIDE DEF Sent
<1>4. \A i \in DOMAIN toScreen : toScreen[i] \in Requests
  BY <1>1
<1>5. \A i \in DOMAIN replies : replies[i] \in Sent
  BY <1>1
<1>6. shown # NoRequest => shown \in Requests
  BY DEF TypeOK
<1> QED BY <1>2, <1>3, <1>4, <1>5, <1>6

\* A run whose session may be in the map: it has begun, and not come to its end.
Taken(r) == pc[r] \notin {"idle", "ended"}

\* Such a run stays one, unless it ends.
LEMMA LiveStays ==
    ASSUME TypeOK, BusyIsLive, UNCHANGED sess, \A s \in Sessions : active'[s] \in {active[s], NoRun},
           \A q \in Runs : Taken(q) => pc'[q] \notin {"idle", "ended"}
    PROVE  BusyIsLive'
<1> SUFFICES ASSUME NEW s \in Sessions, active'[s] # NoRun
             PROVE  pc'[active'[s]] \notin {"idle", "ended"} /\ sess'[active'[s]] = s
  BY DEF BusyIsLive, Busy, Live, Taken
<1>1. active'[s] = active[s] /\ active[s] \in Runs
  BY DEF TypeOK
<1>2. Taken(active[s]) /\ sess[active[s]] = s
  BY <1>1 DEF BusyIsLive, Busy, Live, Taken
<1> QED BY <1>1, <1>2

\* The map of active requests names runs that have not ended.
LEMMA BusyStep ==
    ASSUME TypeOK, StreamsOK, BusyIsLive, [Next]_vars
    PROVE  BusyIsLive'
<1>1. ASSUME NEW r \in Runs, Run(r) PROVE BusyIsLive'
  <2>1. active' = [active EXCEPT ![sess[r]] = r] /\ pc' = [pc EXCEPT ![r] = "load"] /\ sess' = sess
    BY <1>1 DEF Run, Goes
  <2> SUFFICES ASSUME NEW s \in Sessions, active'[s] # NoRun
               PROVE  pc'[active'[s]] \notin {"idle", "ended"} /\ sess'[active'[s]] = s
    BY DEF BusyIsLive, Busy, Live, Taken
  <2>2. CASE s = sess[r]
    BY <2>1, <2>2 DEF TypeOK
  <2>3. CASE s # sess[r]
    <3>1. active'[s] = active[s] /\ active[s] \in Runs
      BY <2>1, <2>3 DEF TypeOK
    <3>2. Taken(active[s]) /\ sess[active[s]] = s
      BY <3>1 DEF BusyIsLive, Busy, Live, Taken
    <3> QED BY <2>1, <3>1, <3>2 DEF Taken, TypeOK
  <2> QED BY <2>2, <2>3
<1>2. ASSUME NEW r \in Runs, Loads(r) PROVE BusyIsLive'
  <2>1. UNCHANGED <<sess, active>> /\ \A q \in Runs : Taken(q) => pc'[q] \notin {"idle", "ended"}
    BY <1>2 DEF Loads, TypeOK, Goes, Taken
  <2> QED BY <2>1, LiveStays
<1>3. ASSUME NEW r \in Runs, Asks(r) PROVE BusyIsLive'
  <2>1. UNCHANGED <<sess, active>> /\ \A q \in Runs : Taken(q) => pc'[q] \notin {"idle", "ended"}
    BY <1>3 DEF Asks, TypeOK, Goes, Taken
  <2> QED BY <2>1, LiveStays
<1>4. ASSUME NEW r \in Runs, Streams(r) PROVE BusyIsLive'
  <2>1. PICK step \in StreamSteps(stream[r], ctx[r]) : pc' = [pc EXCEPT ![r] = Outcome(step.ev, ctx[r])]
    BY <1>4 DEF Streams, Goes
  <2>2. step.ev \in Event /\ ctx[r] \in BOOLEAN
    BY StreamStepsOK DEF StreamsOK, TypeOK
  <2>3. Outcome(step.ev, ctx[r]) \notin {"idle", "ended"}
    BY <2>2 DEF Outcome, Event
  <2>4. UNCHANGED <<sess, active>>
    BY <1>4 DEF Streams
  <2>5. \A q \in Runs : Taken(q) => pc'[q] \notin {"idle", "ended"}
    BY <2>1, <2>3 DEF Taken, TypeOK
  <2> QED BY <2>4, <2>5, LiveStays
<1>5. ASSUME NEW r \in Runs, ToolsCancelled(r) PROVE BusyIsLive'
  <2>1. UNCHANGED <<sess, active>> /\ \A q \in Runs : Taken(q) => pc'[q] \notin {"idle", "ended"}
    BY <1>5 DEF ToolsCancelled, TypeOK, Goes, Taken
  <2> QED BY <2>1, LiveStays
<1>6. ASSUME NEW r \in Runs, ToolBegins(r) PROVE BusyIsLive'
  <2>1. UNCHANGED <<sess, active>> /\ \A q \in Runs : Taken(q) => pc'[q] \notin {"idle", "ended"}
    BY <1>6 DEF ToolBegins, TypeOK, Goes, Taken
  <2> QED BY <2>1, LiveStays
<1>7. ASSUME NEW r \in Runs, Answered(r) PROVE BusyIsLive'
  <2>1. UNCHANGED <<sess, active>> /\ \A q \in Runs : Taken(q) => pc'[q] \notin {"idle", "ended"}
    BY <1>7 DEF Answered, TypeOK, Goes, Taken
  <2> QED BY <2>1, LiveStays
<1>8. ASSUME NEW r \in Runs, ToolEnds(r) PROVE BusyIsLive'
  <2>1. UNCHANGED <<sess, active>> /\ \A q \in Runs : Taken(q) => pc'[q] \notin {"idle", "ended"}
    BY <1>8 DEF ToolEnds, TypeOK, Goes, Taken
  <2> QED BY <2>1, LiveStays
<1>9. ASSUME NEW r \in Runs, ToolsDone(r) PROVE BusyIsLive'
  <2>1. UNCHANGED <<sess, active>> /\ \A q \in Runs : Taken(q) => pc'[q] \notin {"idle", "ended"}
    BY <1>9 DEF ToolsDone, TypeOK, Goes, Taken
  <2> QED BY <2>1, LiveStays
<1>10. ASSUME NEW r \in Runs, Ends(r) PROVE BusyIsLive'
  <2>1. active' = [active EXCEPT ![sess[r]] = NoRun] /\ pc' = [pc EXCEPT ![r] = "ended"] /\ sess' = sess
    BY <1>10 DEF Ends, Goes
  <2> SUFFICES ASSUME NEW s \in Sessions, active'[s] # NoRun
               PROVE  pc'[active'[s]] \notin {"idle", "ended"} /\ sess'[active'[s]] = s
    BY DEF BusyIsLive, Busy, Live, Taken
  <2>2. s # sess[r] /\ active'[s] = active[s] /\ active[s] \in Runs
    BY <2>1 DEF TypeOK
  <2>3. Taken(active[s]) /\ sess[active[s]] = s
    BY <2>2 DEF BusyIsLive, Busy, Live, Taken
  <2>4. active[s] # r
    BY <2>2, <2>3
  <2> QED BY <2>1, <2>2, <2>3, <2>4 DEF Taken, TypeOK
<1>11. ASSUME NEW s \in Sessions, Cancel(s) PROVE BusyIsLive'
  <2>1. active' = [active EXCEPT ![s] = NoRun] /\ UNCHANGED <<pc, sess>>
    BY <1>11 DEF Cancel
  <2>2. \A t \in Sessions : active'[t] \in {active[t], NoRun}
    BY <2>1 DEF TypeOK
  <2> QED BY <2>1, <2>2, LiveStays DEF Taken
<1>12. ASSUME NEW s \in Sessions, Summarizes(s) PROVE BusyIsLive'
  <2>1. UNCHANGED <<sess, active>> /\ \A q \in Runs : Taken(q) => pc'[q] \notin {"idle", "ended"}
    BY <1>12 DEF Summarizes, TypeOK, Goes, Taken, runVars
  <2> QED BY <2>1, LiveStays
<1>13. ASSUME NEW s \in Sessions, SummaryEnds(s) PROVE BusyIsLive'
  <2>1. UNCHANGED <<sess, active>> /\ \A q \in Runs : Taken(q) => pc'[q] \notin {"idle", "ended"}
    BY <1>13 DEF SummaryEnds, TypeOK, Goes, Taken, runVars
  <2> QED BY <2>1, LiveStays
<1>14. ASSUME Update PROVE BusyIsLive'
  <2>1. UNCHANGED <<sess, active>> /\ \A q \in Runs : Taken(q) => pc'[q] \notin {"idle", "ended"}
    BY <1>14 DEF Update, TypeOK, Goes, Taken, runVars
  <2> QED BY <2>1, LiveStays
<1>15. ASSUME Shows PROVE BusyIsLive'
  <2>1. UNCHANGED <<sess, active>> /\ \A q \in Runs : Taken(q) => pc'[q] \notin {"idle", "ended"}
    BY <1>15 DEF Shows, TypeOK, Goes, Taken, runVars
  <2> QED BY <2>1, LiveStays
<1>16. ASSUME Loses PROVE BusyIsLive'
  <2>1. UNCHANGED <<sess, active>> /\ \A q \in Runs : Taken(q) => pc'[q] \notin {"idle", "ended"}
    BY <1>16 DEF Loses, TypeOK, Goes, Taken, runVars
  <2> QED BY <2>1, LiveStays
<1>17. ASSUME Decides PROVE BusyIsLive'
  <2>1. UNCHANGED <<sess, active>> /\ \A q \in Runs : Taken(q) => pc'[q] \notin {"idle", "ended"}
    BY <1>17 DEF Decides, TypeOK, Goes, Taken, runVars
  <2> QED BY <2>1, LiveStays
<1>18. ASSUME Responds PROVE BusyIsLive'
  <2>1. UNCHANGED <<sess, active>> /\ \A q \in Runs : Taken(q) => pc'[q] \notin {"idle", "ended"}
    BY <1>18 DEF Responds, TypeOK, Goes, Taken, runVars
  <2> QED BY <2>1, LiveStays
<1>19. CASE UNCHANGED vars
  <2>1. UNCHANGED <<sess, active, pc>>
    BY <1>19 DEF vars, runVars
  <2> QED BY <2>1, LiveStays DEF Taken
<1> QED
  BY <1>1, <1>2, <1>3, <1>4, <1>5, <1>6, <1>7, <1>8, <1>9, <1>10, <1>11, <1>12, <1>13, <1>14, <1>15, <1>16, <1>17, <1>18, <1>19 DEF Next, RunStep

\* A step that leaves the requests alone, and begins no tool.
LEMMA QuietStep ==
    ASSUME TypeOK, InOrder, WordsKept, GrantedByUser, UNCHANGED <<askVars, sess>>,
           \A q \in Runs : pc'[q] \in {"ask", "run"} =>
               pc'[q] = pc[q] /\ next'[q] = next[q] /\ msg'[q] = msg[q]
    PROVE  InOrder' /\ WordsKept' /\ GrantedByUser'
<1>1. UNCHANGED <<asks, inbox, saved, toScreen, shown, replies, said, forGood, sess>>
  BY DEF askVars
<1>2. InOrder'
  BY <1>1 DEF InOrder
<1>3. WordsKept'
  BY <1>1 DEF WordsKept
<1>4. GrantedByUser'
  BY <1>1 DEF GrantedByUser, Tool
<1> QED BY <1>2, <1>3, <1>4

\* A yes stays the user's, on every step of its way.
LEMMA WordsStep ==
    ASSUME TypeOK, StreamsOK, InOrder, WordsKept, GrantedByUser, [Next]_vars
    PROVE  InOrder' /\ WordsKept' /\ GrantedByUser'
<1>1. ASSUME NEW r \in Runs, Run(r) PROVE InOrder' /\ WordsKept' /\ GrantedByUser'
  <2>1. UNCHANGED <<askVars, sess>>
    BY <1>1 DEF Run
  <2>2. \A q \in Runs : pc'[q] \in {"ask", "run"} =>
            pc'[q] = pc[q] /\ next'[q] = next[q] /\ msg'[q] = msg[q]
    BY <1>1 DEF Run, TypeOK, Goes
  <2> QED BY <2>1, <2>2, QuietStep
<1>2. ASSUME NEW r \in Runs, Loads(r) PROVE InOrder' /\ WordsKept' /\ GrantedByUser'
  <2>1. UNCHANGED <<askVars, sess>>
    BY <1>2 DEF Loads
  <2>2. \A q \in Runs : pc'[q] \in {"ask", "run"} =>
            pc'[q] = pc[q] /\ next'[q] = next[q] /\ msg'[q] = msg[q]
    BY <1>2 DEF Loads, TypeOK, Goes
  <2> QED BY <2>1, <2>2, QuietStep
<1>3. ASSUME NEW r \in Runs, Asks(r) PROVE InOrder' /\ WordsKept' /\ GrantedByUser'
  <2>1. UNCHANGED <<askVars, sess>>
    BY <1>3 DEF Asks
  <2>2. \A q \in Runs : pc'[q] \in {"ask", "run"} =>
            pc'[q] = pc[q] /\ next'[q] = next[q] /\ msg'[q] = msg[q]
    BY <1>3 DEF Asks, TypeOK, Goes
  <2> QED BY <2>1, <2>2, QuietStep
<1>4. ASSUME NEW r \in Runs, Streams(r) PROVE InOrder' /\ WordsKept' /\ GrantedByUser'
  <2>1. PICK step \in StreamSteps(stream[r], ctx[r]) : pc' = [pc EXCEPT ![r] = Outcome(step.ev, ctx[r])]
    BY <1>4 DEF Streams, Goes
  <2>2. step.ev \in Event /\ ctx[r] \in BOOLEAN
    BY StreamStepsOK DEF StreamsOK, TypeOK
  <2>3. Outcome(step.ev, ctx[r]) \notin {"ask", "run"}
    BY <2>2 DEF Outcome, Event
  <2>4. UNCHANGED <<askVars, sess, next>> /\ \A q \in Runs \ {r} : msg'[q] = msg[q]
    BY <1>4 DEF Streams, TypeOK
  <2>5. \A q \in Runs : pc'[q] \in {"ask", "run"} =>
            pc'[q] = pc[q] /\ next'[q] = next[q] /\ msg'[q] = msg[q]
    BY <2>1, <2>3, <2>4 DEF TypeOK
  <2> QED BY <2>4, <2>5, QuietStep
<1>5. ASSUME NEW r \in Runs, ToolsCancelled(r) PROVE InOrder' /\ WordsKept' /\ GrantedByUser'
  <2>1. UNCHANGED <<askVars, sess>>
    BY <1>5 DEF ToolsCancelled, AtTool
  <2>2. \A q \in Runs : pc'[q] \in {"ask", "run"} =>
            pc'[q] = pc[q] /\ next'[q] = next[q] /\ msg'[q] = msg[q]
    BY <1>5 DEF ToolsCancelled, TypeOK, Goes, AtTool
  <2> QED BY <2>1, <2>2, QuietStep
<1>6. ASSUME NEW r \in Runs, ToolBegins(r) PROVE InOrder' /\ WordsKept' /\ GrantedByUser'
  <2>1. UNCHANGED <<sess, msg, saved, shown, replies, said, forGood>> /\ pc[r] = "tools"
    BY <1>6 DEF ToolBegins, AtTool
  <2>2. ASSUME Gets(r, "error"), UNCHANGED <<pc, asks, inbox, toScreen>> PROVE InOrder' /\ WordsKept' /\ GrantedByUser'
    <3>1. \A q \in Runs : pc'[q] \in {"ask", "run"} =>
              pc'[q] = pc[q] /\ next'[q] = next[q] /\ msg'[q] = msg[q]
      BY <2>1, <2>2 DEF Gets, TypeOK
    <3> QED BY <2>1, <2>2, <3>1, QuietStep DEF askVars
  <2>3. ASSUME Approved(r), Goes(r, "run"), UNCHANGED <<next, results, asks, inbox, toScreen>> PROVE InOrder' /\ WordsKept' /\ GrantedByUser'
    <3>1. pc' = [pc EXCEPT ![r] = "run"] /\ UNCHANGED <<askVars, sess, next, msg>>
      BY <2>1, <2>3 DEF Goes, askVars
    <3>2. InOrder' /\ WordsKept'
      BY <3>1 DEF InOrder, WordsKept, askVars, TypeOK
    <3>3. \A q \in Runs : Tool(q)' = Tool(q)
      BY <3>1 DEF Tool
    <3>4. saved \subseteq forGood
      BY DEF WordsKept
    <3>5. GrantedByUser'
      BY <2>3, <3>1, <3>3, <3>4 DEF GrantedByUser, Approved, askVars, TypeOK
    <3> QED BY <3>2, <3>5
  <2>4. ASSUME Goes(r, "ask"), asks' = [asks EXCEPT ![r] = @ + 1],
               inbox' = [inbox EXCEPT ![r] = "empty"],
               toScreen' = Append(toScreen, [run |-> r, no |-> asks[r] + 1, tool |-> Tool(r)]),
               UNCHANGED <<next, results>>
        PROVE  InOrder' /\ WordsKept' /\ GrantedByUser'
    <3> DEFINE new == [run |-> r, no |-> asks[r] + 1, tool |-> Tool(r)]
    <3>1. pc' = [pc EXCEPT ![r] = "ask"]
      BY <2>4 DEF Goes
    <3>2. /\ asks \in [Runs -> Nat] /\ said \in [Runs -> Nat] /\ toScreen \in Seq(Requests)
          /\ \A i \in DOMAIN toScreen : toScreen[i].run \in Runs /\ toScreen[i].no \in Nat
      BY RequestsTyped DEF TypeOK
    <3>3. /\ \A q \in Runs : asks'[q] >= asks[q] /\ asks'[q] \in Nat
          /\ asks'[r] = asks[r] + 1 /\ \A q \in Runs \ {r} : asks'[q] = asks[q]
      BY <2>4, <3>2
    <3>4. /\ new.run = r /\ new.no = asks[r] + 1
          /\ DOMAIN toScreen' = DOMAIN toScreen \cup {Len(toScreen) + 1}
          /\ DOMAIN toScreen = 1 .. Len(toScreen) /\ Len(toScreen) \in Nat
          /\ toScreen'[Len(toScreen) + 1] = new
          /\ \A i \in DOMAIN toScreen : toScreen'[i] = toScreen[i]
      BY <2>4, <3>2
    <3> HIDE DEF new
    <3>5. InOrder'
      <4>1. ASSUME NEW i \in DOMAIN toScreen'
            PROVE  /\ toScreen'[i].no <= asks'[toScreen'[i].run]
                   /\ said'[toScreen'[i].run] < toScreen'[i].no
                   /\ \A j \in 1 .. i - 1 :
                          toScreen'[j].run = toScreen'[i].run => toScreen'[j].no < toScreen'[i].no
        <5>1. CASE i \in DOMAIN toScreen
          <6>1. /\ toScreen[i].no <= asks[toScreen[i].run]
                /\ said[toScreen[i].run] < toScreen[i].no
                /\ \A j \in 1 .. i - 1 :
                       toScreen[j].run = toScreen[i].run => toScreen[j].no < toScreen[i].no
            BY <5>1 DEF InOrder
          <6>2. 1 .. i - 1 \subseteq DOMAIN toScreen
            BY <3>4, <5>1
          <6>3. toScreen'[i] = toScreen[i] /\ toScreen[i].run \in Runs /\ toScreen[i].no \in Nat
            BY <3>2, <3>4, <5>1
          <6>4. /\ asks[toScreen[i].run] \in Nat /\ asks'[toScreen[i].run] \in Nat
                /\ asks[toScreen[i].run] <= asks'[toScreen[i].run]
            BY <3>2, <3>3, <6>3
          <6>5. toScreen[i].no <= asks'[toScreen[i].run]
            BY <6>1, <6>3, <6>4
          <6>6. \A j \in 1 .. i - 1 : toScreen'[j] = toScreen[j]
            BY <3>4, <6>2
          <6> QED BY <2>1, <6>1, <6>3, <6>5, <6>6
        <5>2. CASE i = Len(toScreen) + 1
          <6>1. toScreen'[i].run = r /\ toScreen'[i].no = asks[r] + 1
            BY <3>4, <5>2
          <6>2. said[r] <= asks[r]
            BY DEF InOrder
          <6>3. 1 .. i - 1 = DOMAIN toScreen
            BY <3>4, <5>2
          <6>4. \A j \in DOMAIN toScreen : toScreen[j].no <= asks[toScreen[j].run]
            BY DEF InOrder
          <6> QED BY <2>1, <3>2, <3>3, <3>4, <6>1, <6>2, <6>3, <6>4
        <5> QED BY <3>4, <5>1, <5>2
      <4>2. ASSUME shown # NoRequest
            PROVE  /\ said[shown.run] <= shown.no /\ shown.no <= asks'[shown.run]
                   /\ \A i \in DOMAIN toScreen' :
                          toScreen'[i].run = shown.run => shown.no < toScreen'[i].no
        <5>1. shown.run \in Runs /\ shown.no \in Nat
          BY <4>2 DEF TypeOK, Requests
        <5>2. /\ said[shown.run] <= shown.no /\ shown.no <= asks[shown.run]
              /\ \A i \in DOMAIN toScreen :
                     toScreen[i].run = shown.run => shown.no < toScreen[i].no
          BY <4>2 DEF InOrder
        <5>3. shown.no <= asks'[shown.run]
          <6>1. asks[shown.run] \in Nat /\ asks'[shown.run] \in Nat /\ asks[shown.run] <= asks'[shown.run]
            BY <3>2, <3>3, <5>1
          <6> QED BY <5>1, <5>2, <6>1
        <5>4. new.run = shown.run => shown.no < new.no
          <6>1. asks[r] \in Nat
            BY <3>2
          <6> QED BY <3>4, <5>1, <5>2, <6>1
        <5>5. \A i \in DOMAIN toScreen' : i \in DOMAIN toScreen \/ i = Len(toScreen) + 1
          BY <3>4
        <5> QED BY <3>4, <5>2, <5>3, <5>4, <5>5
      <4>3. \A q \in Runs : said[q] <= asks'[q]
        BY <3>2, <3>3 DEF InOrder
      <4> QED BY <2>1, <4>1, <4>2, <4>3 DEF InOrder
    <3>6. WordsKept'
      <4>1. ASSUME NEW i \in DOMAIN replies
            PROVE  LET q == replies[i].to
                   IN  /\ q.no <= asks'[q.run]
                       /\ replies[i].action # "deny" /\ q.no = asks'[q.run] => said[q.run] = q.no
                       /\ replies[i].action = "session" => <<sess[q.run], q.tool>> \in forGood
        <5>1. replies[i].to.run \in Runs /\ replies[i].to.no \in Nat
          BY RequestsTyped
        <5> QED BY <3>2, <3>3, <5>1 DEF WordsKept
      <4>2. ASSUME NEW q \in Runs, pc'[q] = "ask", inbox'[q] = "yes" PROVE said[q] = asks'[q]
        <5>1. q # r
          BY <2>4, <4>2 DEF TypeOK
        <5>2. pc[q] = "ask" /\ inbox[q] = "yes" /\ asks'[q] = asks[q]
          BY <2>4, <3>1, <4>2, <5>1 DEF TypeOK
        <5> QED BY <5>2 DEF WordsKept
      <4> QED BY <2>1, <4>1, <4>2 DEF WordsKept
    <3>7. GrantedByUser'
      <4> SUFFICES ASSUME NEW q \in Runs, pc'[q] = "run", Tool(q)' \in Asking
                   PROVE  \/ sess[q] \in AutoApproved \/ said[q] = asks'[q]
                          \/ <<sess[q], Tool(q)'>> \in forGood
        BY <2>1 DEF GrantedByUser
      <4>1. q # r /\ pc[q] = "run" /\ Tool(q)' = Tool(q) /\ asks'[q] = asks[q]
        BY <2>1, <2>4, <3>1, <3>3 DEF TypeOK, Tool
      <4> QED BY <4>1 DEF GrantedByUser
    <3> QED BY <3>5, <3>6, <3>7
  <2> QED BY <1>6, <2>2, <2>3, <2>4 DEF ToolBegins
<1>7. ASSUME NEW r \in Runs, Answered(r) PROVE InOrder' /\ WordsKept' /\ GrantedByUser'
  <2>1. /\ UNCHANGED <<sess, asks, saved, toScreen, shown, replies, said, forGood>>
        /\ inbox' = [inbox EXCEPT ![r] = "empty"] /\ pc[r] = "ask"
        /\ \A q \in Runs \ {r} : pc'[q] = pc[q] /\ next'[q] = next[q] /\ msg'[q] = msg[q]
        /\ pc'[r] \in {"run", "tools"}
        /\ pc'[r] = "run" => inbox[r] = "yes"
    BY <1>7 DEF Answered, Denied, Gets, TypeOK, Goes
  <2>2. InOrder'
    BY <2>1 DEF InOrder
  <2>3. WordsKept'
    BY <2>1 DEF WordsKept, TypeOK
  <2>4. GrantedByUser'
    <3> SUFFICES ASSUME NEW q \in Runs, pc'[q] = "run", Tool(q)' \in Asking
                 PROVE  \/ sess[q] \in AutoApproved \/ said[q] = asks[q]
                        \/ <<sess[q], Tool(q)'>> \in forGood
      BY <2>1 DEF GrantedByUser
    <3>1. CASE q = r
      BY <2>1, <3>1 DEF WordsKept, TypeOK
    <3>2. CASE q # r
      BY <2>1, <3>2 DEF GrantedByUser, Tool
    <3> QED BY <3>1, <3>2
  <2> QED BY <2>2, <2>3, <2>4
<1>8. ASSUME NEW r \in Runs, ToolEnds(r) PROVE InOrder' /\ WordsKept' /\ GrantedByUser'
  <2>1. UNCHANGED <<askVars, sess>>
    BY <1>8 DEF ToolEnds, Gets
  <2>2. \A q \in Runs : pc'[q] \in {"ask", "run"} =>
            pc'[q] = pc[q] /\ next'[q] = next[q] /\ msg'[q] = msg[q]
    BY <1>8 DEF ToolEnds, TypeOK, Goes, Gets
  <2> QED BY <2>1, <2>2, QuietStep
<1>9. ASSUME NEW r \in Runs, ToolsDone(r) PROVE InOrder' /\ WordsKept' /\ GrantedByUser'
  <2>1. UNCHANGED <<askVars, sess>>
    BY <1>9 DEF ToolsDone
  <2>2. \A q \in Runs : pc'[q] \in {"ask", "run"} =>
            pc'[q] = pc[q] /\ next'[q] = next[q] /\ msg'[q] = msg[q]
    BY <1>9 DEF ToolsDone, TypeOK, Goes
  <2> QED BY <2>1, <2>2, QuietStep
<1>10. ASSUME NEW r \in Runs, Ends(r) PROVE InOrder' /\ WordsKept' /\ GrantedByUser'
  <2>1. UNCHANGED <<askVars, sess>>
    BY <1>10 DEF Ends
  <2>2. \A q \in Runs : pc'[q] \in {"ask", "run"} =>
            pc'[q] = pc[q] /\ next'[q] = next[q] /\ msg'[q] = msg[q]
    BY <1>10 DEF Ends, TypeOK, Goes
  <2> QED BY <2>1, <2>2, QuietStep
<1>11. ASSUME NEW s \in Sessions, Cancel(s) PROVE InOrder' /\ WordsKept' /\ GrantedByUser'
  <2>1. UNCHANGED <<askVars, sess>>
    BY <1>11 DEF Cancel, runVars
  <2>2. \A q \in Runs : pc'[q] \in {"ask", "run"} =>
            pc'[q] = pc[q] /\ next'[q] = next[q] /\ msg'[q] = msg[q]
    BY <1>11 DEF Cancel, TypeOK, Goes, runVars
  <2> QED BY <2>1, <2>2, QuietStep
<1>12. ASSUME NEW s \in Sessions, Summarizes(s) PROVE InOrder' /\ WordsKept' /\ GrantedByUser'
  <2>1. UNCHANGED <<askVars, sess>>
    BY <1>12 DEF Summarizes, runVars
  <2>2. \A q \in Runs : pc'[q] \in {"ask", "run"} =>
            pc'[q] = pc[q] /\ next'[q] = next[q] /\ msg'[q] = msg[q]
    BY <1>12 DEF Summarizes, TypeOK, Goes, runVars
  <2> QED BY <2>1, <2>2, QuietStep
<1>13. ASSUME NEW s \in Sessions, SummaryEnds(s) PROVE InOrder' /\ WordsKept' /\ GrantedByUser'
  <2>1. UNCHANGED <<askVars, sess>>
    BY <1>13 DEF SummaryEnds, runVars
  <2>2. \A q \in Runs : pc'[q] \in {"ask", "run"} =>
            pc'[q] = pc[q] /\ next'[q] = next[q] /\ msg'[q] = msg[q]
    BY <1>13 DEF SummaryEnds, TypeOK, Goes, runVars
  <2> QED BY <2>1, <2>2, QuietStep
<1>14. ASSUME Update PROVE InOrder' /\ WordsKept' /\ GrantedByUser'
  <2>1. UNCHANGED <<askVars, sess>>
    BY <1>14 DEF Update, runVars
  <2>2. \A q \in Runs : pc'[q] \in {"ask", "run"} =>
            pc'[q] = pc[q] /\ next'[q] = next[q] /\ msg'[q] = msg[q]
    BY <1>14 DEF Update, TypeOK, Goes, runVars
  <2> QED BY <2>1, <2>2, QuietStep
<1>15. ASSUME Shows PROVE InOrder' /\ WordsKept' /\ GrantedByUser'
  <2>1. /\ toScreen # <<>> /\ toScreen' = Tail(toScreen) /\ shown' = Head(toScreen)
        /\ UNCHANGED <<pc, sess, next, msg, asks, inbox, saved, replies, said, forGood>>
    BY <1>15 DEF Shows, runVars
  <2>2. /\ toScreen \in Seq(Requests) /\ Len(toScreen) \in Nat /\ Len(toScreen) >= 1
        /\ DOMAIN toScreen = 1 .. Len(toScreen) /\ DOMAIN Tail(toScreen) = 1 .. Len(toScreen) - 1
        /\ \A i \in DOMAIN Tail(toScreen) : Tail(toScreen)[i] = toScreen[i + 1]
        /\ Head(toScreen) = toScreen[1]
    BY <2>1 DEF TypeOK
  <2>3. ASSUME NEW i \in DOMAIN Tail(toScreen)
        PROVE  LET t == Tail(toScreen)
               IN  /\ t[i].no <= asks[t[i].run]
                   /\ said[t[i].run] < t[i].no
                   /\ \A j \in 1 .. i - 1 : t[j].run = t[i].run => t[j].no < t[i].no
                   /\ Head(toScreen).run = t[i].run => Head(toScreen).no < t[i].no
    <3>1. i + 1 \in DOMAIN toScreen /\ \A j \in 1 .. i - 1 : j + 1 \in 1 .. (i + 1) - 1 /\ j \in DOMAIN Tail(toScreen)
      BY <2>2
    <3>2. 1 \in 1 .. (i + 1) - 1
      BY <2>2
    <3> QED BY <2>2, <3>1, <3>2 DEF InOrder
  <2>4. Head(toScreen).run \in Runs /\ Head(toScreen).no \in Nat /\ said[Head(toScreen).run] \in Nat
    <3>1. toScreen[1].run \in Runs /\ toScreen[1].no \in Nat
      BY <2>2, RequestsTyped
    <3>2. said \in [Runs -> Nat]
      BY DEF TypeOK
    <3> QED BY <2>2, <3>1, <3>2
  <2>5. said[Head(toScreen).run] < Head(toScreen).no /\ Head(toScreen).no <= asks[Head(toScreen).run]
    BY <2>2 DEF InOrder
  <2>6. said[Head(toScreen).run] <= Head(toScreen).no
    BY <2>4, <2>5
  <2>7. InOrder'
    BY <2>1, <2>3, <2>5, <2>6 DEF InOrder
  <2>9. WordsKept' /\ GrantedByUser'
    BY <2>1 DEF WordsKept, GrantedByUser, Tool, runVars
  <2> QED BY <2>7, <2>9
<1>16. ASSUME Loses PROVE InOrder' /\ WordsKept' /\ GrantedByUser'
  <2>1. /\ toScreen # <<>> /\ toScreen' = Tail(toScreen)
        /\ UNCHANGED <<pc, sess, next, msg, asks, inbox, saved, shown, replies, said, forGood>>
    BY <1>16 DEF Loses, runVars
  <2>2. /\ toScreen \in Seq(Requests) /\ Len(toScreen) \in Nat /\ Len(toScreen) >= 1
        /\ DOMAIN toScreen = 1 .. Len(toScreen) /\ DOMAIN Tail(toScreen) = 1 .. Len(toScreen) - 1
        /\ \A i \in DOMAIN Tail(toScreen) : Tail(toScreen)[i] = toScreen[i + 1]
        /\ Head(toScreen) = toScreen[1]
    BY <2>1 DEF TypeOK
  <2>3. ASSUME NEW i \in DOMAIN Tail(toScreen)
        PROVE  LET t == Tail(toScreen)
               IN  /\ t[i].no <= asks[t[i].run]
                   /\ said[t[i].run] < t[i].no
                   /\ \A j \in 1 .. i - 1 : t[j].run = t[i].run => t[j].no < t[i].no
                   /\ Head(toScreen).run = t[i].run => Head(toScreen).no < t[i].no
    <3>1. i + 1 \in DOMAIN toScreen /\ \A j \in 1 .. i - 1 : j + 1 \in 1 .. (i + 1) - 1 /\ j \in DOMAIN Tail(toScreen)
      BY <2>2
    <3>2. 1 \in 1 .. (i + 1) - 1
      BY <2>2
    <3> QED BY <2>2, <3>1, <3>2 DEF InOrder
  <2>4. \A i \in DOMAIN Tail(toScreen) : i + 1 \in DOMAIN toScreen /\ Tail(toScreen)[i] = toScreen[i + 1]
    BY <2>2
  <2>7. InOrder'
    BY <2>1, <2>3, <2>4 DEF InOrder
  <2>9. WordsKept' /\ GrantedByUser'
    BY <2>1 DEF WordsKept, GrantedByUser, Tool, runVars
  <2> QED BY <2>7, <2>9
<1>17. ASSUME Decides PROVE InOrder' /\ WordsKept' /\ GrantedByUser'
  <2>1. /\ shown # NoRequest
        /\ UNCHANGED <<pc, sess, next, msg, asks, inbox, saved, toScreen, shown>>
    BY <1>17 DEF Decides, runVars
  <2>2. PICK a \in Actions :
            /\ replies' = Append(replies, [to |-> shown, action |-> a])
            /\ said' = IF a # "deny" THEN [said EXCEPT ![shown.run] = shown.no] ELSE said
            /\ forGood' = IF a # "session" THEN forGood
                          ELSE forGood \cup {<<sess[shown.run], shown.tool>>}
    BY <1>17 DEF Decides
  <2>3. shown.run \in Runs /\ shown.no \in Nat
    BY <2>1 DEF TypeOK, Requests
  <2>4. /\ said[shown.run] <= shown.no /\ shown.no <= asks[shown.run]
        /\ \A i \in DOMAIN toScreen : toScreen[i].run = shown.run => shown.no < toScreen[i].no
        /\ \A q \in Runs : said[q] <= asks[q]
    BY <2>1 DEF InOrder
  <2>5. \A q \in Runs : asks[q] \in Nat /\ said[q] \in Nat
    BY DEF TypeOK
  <2>6. /\ \A q \in Runs : said'[q] = said[q] \/ (q = shown.run /\ said'[q] = shown.no)
        /\ a # "deny" => said'[shown.run] = shown.no
    BY <2>2, <2>3 DEF TypeOK
  <2>7. InOrder'
    <3>1. \A i \in DOMAIN toScreen : toScreen[i].run \in Runs /\ toScreen[i].no \in Nat
      BY RequestsTyped
    <3>2. \A i \in DOMAIN toScreen :
              /\ toScreen[i].no <= asks[toScreen[i].run]
              /\ said[toScreen[i].run] < toScreen[i].no
              /\ \A j \in 1 .. i - 1 :
                     toScreen[j].run = toScreen[i].run => toScreen[j].no < toScreen[i].no
      BY DEF InOrder
    <3>3. \A i \in DOMAIN toScreen : said'[toScreen[i].run] < toScreen[i].no
      BY <2>4, <2>6, <3>1, <3>2
    <3>4. said'[shown.run] <= shown.no /\ \A q \in Runs : said'[q] <= asks[q]
      BY <2>3, <2>4, <2>5, <2>6
    <3> QED BY <2>1, <2>4, <3>2, <3>3, <3>4 DEF InOrder
  <2>8. \A q \in Runs : said[q] = asks[q] => said'[q] = asks[q]
    BY <2>3, <2>4, <2>5, <2>6
  <2>9. forGood \subseteq forGood' /\ (a = "session" => <<sess[shown.run], shown.tool>> \in forGood')
    BY <2>2
  <2>10. WordsKept'
    <3>1. replies \in Seq([to : Requests, action : Actions])
      BY DEF TypeOK
    <3> DEFINE new == [to |-> shown, action |-> a]
    <3>2. new.to = shown /\ new.action = a
      OBVIOUS
    <3> HIDE DEF new
    <3>3. /\ DOMAIN replies = 1 .. Len(replies) /\ DOMAIN replies' = DOMAIN replies \cup {Len(replies) + 1}
          /\ \A i \in DOMAIN replies : replies'[i] = replies[i]
          /\ replies'[Len(replies) + 1] = new
      BY <2>2, <3>1 DEF new
    <3>4. ASSUME NEW i \in DOMAIN replies'
          PROVE  LET q == replies'[i].to
                 IN  /\ q.no <= asks[q.run]
                     /\ replies'[i].action # "deny" /\ q.no = asks[q.run] => said'[q.run] = q.no
                     /\ replies'[i].action = "session" => <<sess[q.run], q.tool>> \in forGood'
      <4>1. CASE i \in DOMAIN replies
        <5>1. replies[i].to.run \in Runs
          BY <4>1, RequestsTyped
        <5> QED BY <2>8, <2>9, <3>3, <4>1, <5>1 DEF WordsKept
      <4>2. CASE i = Len(replies) + 1
        BY <2>4, <2>6, <2>9, <3>2, <3>3, <4>2
      <4> QED BY <3>3, <4>1, <4>2
    <3> QED BY <2>1, <2>8, <2>9, <3>4 DEF WordsKept
  <2>11. GrantedByUser'
    BY <2>1, <2>8, <2>9 DEF GrantedByUser, Tool
  <2> QED BY <2>7, <2>10, <2>11
<1>18. ASSUME Responds PROVE InOrder' /\ WordsKept' /\ GrantedByUser'
  <2> DEFINE q == Head(replies).to
             a == Head(replies).action
  <2>1. /\ replies # <<>> /\ replies' = Tail(replies) /\ shown' = NoRequest
        /\ UNCHANGED <<pc, sess, next, msg, asks, toScreen, said, forGood>>
        /\ saved' = IF a = "session" THEN saved \cup {<<sess[q.run], q.tool>>} ELSE saved
        /\ inbox' = IF Pending(q) THEN [inbox EXCEPT ![q.run] = IF a = "deny" THEN "no" ELSE "yes"] ELSE inbox
    BY <1>18 DEF Responds, runVars
  <2>2. /\ Head(replies) = replies[1] /\ 1 \in DOMAIN replies
        /\ \A i \in DOMAIN Tail(replies) : i + 1 \in DOMAIN replies /\ Tail(replies)[i] = replies[i + 1]
    <3> DEFINE Sent == [to : Requests, action : Actions]
    <3>1. replies \in Seq(Sent)
      BY DEF TypeOK
    <3> HIDE DEF Sent
    <3> QED BY <2>1, <3>1
  <2>3. /\ a # "deny" /\ q.no = asks[q.run] => said[q.run] = q.no
        /\ a = "session" => <<sess[q.run], q.tool>> \in forGood
    BY <2>2 DEF WordsKept
  <2>4. InOrder'
    BY <2>1 DEF InOrder
  <2>5. WordsKept'
    <3>1. saved' \subseteq forGood
      BY <2>1, <2>3 DEF WordsKept
    <3>2. ASSUME NEW p \in Runs, pc[p] = "ask", inbox'[p] = "yes" PROVE said[p] = asks[p]
      <4>1. CASE inbox[p] = "yes"
        BY <3>2, <4>1 DEF WordsKept
      <4>2. CASE inbox[p] # "yes"
        <5>1. Pending(q) /\ p = q.run /\ a # "deny"
          BY <2>1, <3>2, <4>2 DEF TypeOK
        <5> QED BY <2>3, <5>1 DEF Pending
      <4> QED BY <4>1, <4>2
    <3>3. ASSUME NEW i \in DOMAIN replies'
          PROVE  LET w == replies'[i].to
                 IN  /\ w.no <= asks[w.run]
                     /\ replies'[i].action # "deny" /\ w.no = asks[w.run] => said[w.run] = w.no
                     /\ replies'[i].action = "session" => <<sess[w.run], w.tool>> \in forGood
      BY <2>1, <2>2 DEF WordsKept
    <3> QED BY <2>1, <3>1, <3>2, <3>3 DEF WordsKept
  <2>6. GrantedByUser'
    BY <2>1 DEF GrantedByUser, Tool
  <2> QED BY <2>4, <2>5, <2>6
<1>19. CASE UNCHANGED vars
  <2>1. UNCHANGED <<askVars, sess>>
    BY <1>19 DEF vars, runVars
  <2>2. \A q \in Runs : pc'[q] \in {"ask", "run"} =>
            pc'[q] = pc[q] /\ next'[q] = next[q] /\ msg'[q] = msg[q]
    BY <1>19 DEF vars, runVars, TypeOK, Goes
  <2> QED BY <2>1, <2>2, QuietStep
<1> QED
  BY <1>1, <1>2, <1>3, <1>4, <1>5, <1>6, <1>7, <1>8, <1>9, <1>10, <1>11, <1>12, <1>13, <1>14, <1>15, <1>16, <1>17, <1>18, <1>19 DEF Next, RunStep

\* How a run comes to ask the model.
Comes(q) ==
    \/ pc'[q] = pc[q]
    \/ pc'[q] \notin {"loop", "stream"}
    \/ pc[q] \in {"load", "loop", "stream"}
    \/ pc[q] = "tools" /\ msg[q].finish = "tool_use"

\* There is no other way.
LEMMA PlaceStep ==
    ASSUME TypeOK, [Next]_vars
    PROVE  \A q \in Runs : Comes(q)
<1>1. ASSUME NEW r \in Runs, Run(r) PROVE \A q \in Runs : Comes(q)
  BY <1>1 DEF Run, Comes, Goes, TypeOK, runVars
<1>2. ASSUME NEW r \in Runs, Loads(r) PROVE \A q \in Runs : Comes(q)
  BY <1>2 DEF Loads, Comes, Goes, TypeOK, runVars
<1>3. ASSUME NEW r \in Runs, Asks(r) PROVE \A q \in Runs : Comes(q)
  BY <1>3 DEF Asks, Comes, Goes, TypeOK, runVars
<1>4. ASSUME NEW r \in Runs, Streams(r) PROVE \A q \in Runs : Comes(q)
  <2>1. pc[r] = "stream" /\ \A q \in Runs \ {r} : pc'[q] = pc[q]
    BY <1>4 DEF Streams, Goes, TypeOK
  <2> QED BY <2>1 DEF Comes
<1>5. ASSUME NEW r \in Runs, ToolsCancelled(r) PROVE \A q \in Runs : Comes(q)
  BY <1>5 DEF ToolsCancelled, Comes, Goes, TypeOK, runVars
<1>6. ASSUME NEW r \in Runs, ToolBegins(r) PROVE \A q \in Runs : Comes(q)
  BY <1>6 DEF ToolBegins, Comes, Goes, TypeOK, runVars
<1>7. ASSUME NEW r \in Runs, Answered(r) PROVE \A q \in Runs : Comes(q)
  BY <1>7 DEF Answered, Comes, Goes, TypeOK, runVars
<1>8. ASSUME NEW r \in Runs, ToolEnds(r) PROVE \A q \in Runs : Comes(q)
  BY <1>8 DEF ToolEnds, Comes, Goes, TypeOK, runVars
<1>9. ASSUME NEW r \in Runs, ToolsDone(r) PROVE \A q \in Runs : Comes(q)
  <2>1. pc[r] = "tools" /\ \A q \in Runs \ {r} : pc'[q] = pc[q]
    BY <1>9 DEF ToolsDone, Goes, TypeOK
  <2>2. pc'[r] \in {"loop", "over"} /\ (pc'[r] = "loop" => msg[r].finish = "tool_use")
    BY <1>9 DEF ToolsDone, Goes, TypeOK
  <2> QED BY <2>1, <2>2 DEF Comes
<1>10. ASSUME NEW r \in Runs, Ends(r) PROVE \A q \in Runs : Comes(q)
  BY <1>10 DEF Ends, Comes, Goes, TypeOK, runVars
<1>11. ASSUME NEW s \in Sessions, Cancel(s) PROVE \A q \in Runs : Comes(q)
  BY <1>11 DEF Cancel, Comes, Goes, TypeOK, runVars
<1>12. ASSUME NEW s \in Sessions, Summarizes(s) PROVE \A q \in Runs : Comes(q)
  BY <1>12 DEF Summarizes, Comes, Goes, TypeOK, runVars
<1>13. ASSUME NEW s \in Sessions, SummaryEnds(s) PROVE \A q \in Runs : Comes(q)
  BY <1>13 DEF SummaryEnds, Comes, Goes, TypeOK, runVars
<1>14. ASSUME Update PROVE \A q \in Runs : Comes(q)
  BY <1>14 DEF Update, Comes, Goes, TypeOK, runVars
<1>15. ASSUME Shows PROVE \A q \in Runs : Comes(q)
  BY <1>15 DEF Shows, Comes, Goes, TypeOK, runVars
<1>16. ASSUME Loses PROVE \A q \in Runs : Comes(q)
  BY <1>16 DEF Loses, Comes, Goes, TypeOK, runVars
<1>17. ASSUME Decides PROVE \A q \in Runs : Comes(q)
  BY <1>17 DEF Decides, Comes, Goes, TypeOK, runVars
<1>18. ASSUME Responds PROVE \A q \in Runs : Comes(q)
  BY <1>18 DEF Responds, Comes, Goes, TypeOK, runVars
<1>19. CASE UNCHANGED vars
  BY <1>19 DEF vars, runVars, askVars, Comes, Goes, TypeOK, runVars
<1> QED
  BY <1>1, <1>2, <1>3, <1>4, <1>5, <1>6, <1>7, <1>8, <1>9, <1>10, <1>11, <1>12, <1>13, <1>14, <1>15, <1>16, <1>17, <1>18, <1>19 DEF Next, RunStep

\* The first state.
LEMMA InitInv == Init => AgentInv
<1> SUFFICES ASSUME Init PROVE AgentInv
  OBVIOUS
<1>1. kind \in Kinds
  BY AgentAssumption DEF Init, NewProvider, Kinds
<1>2. sess \in [Runs -> Sessions]
  BY AgentAssumption DEF Init
<1>3. StreamOK(NewStream(kind)) /\ NewStream(kind) \in Stream
  BY <1>1, NewStreamOK DEF StreamOK
<1>4. Blank \in [calls : Answers, finish : Finishes]
  BY EmptyAnswer DEF Blank, Finishes
<1>5. <<>> \in Seq(Results) /\ <<>> \in Seq(Requests) /\ <<>> \in Seq([to : Requests, action : Actions])
  OBVIOUS
<1>6. TypeOK
  BY <1>1, <1>2, <1>3, <1>4, <1>5 DEF Init, TypeOK, Places
<1>7. StreamsOK
  BY <1>3 DEF Init, StreamsOK
<1>8. ResultsKept
  BY DEF Init, ResultsKept, Kept
<1>9. InOrder
  BY DEF Init, InOrder
<1>10. WordsKept
  BY DEF Init, WordsKept
<1>11. BusyIsLive /\ GrantedByUser
  BY DEF Init, BusyIsLive, Busy, GrantedByUser
<1> QED BY <1>6, <1>7, <1>8, <1>9, <1>10, <1>11 DEF AgentInv

\* Each step keeps the invariant.
LEMMA NextInv ==
    ASSUME AgentInv, [Next]_vars
    PROVE  AgentInv'
<1> USE DEF AgentInv
<1>1. TypeOK' /\ StreamsOK'
  BY TypeStep, StreamsStep
<1>2. ResultsKept'
  BY ResultsStep
<1>3. InOrder' /\ WordsKept' /\ GrantedByUser'
  BY WordsStep
<1>4. BusyIsLive'
  BY BusyStep
<1> QED BY <1>1, <1>2, <1>3, <1>4

(***************************************************************************)
(* The theorems.                                                           *)
(***************************************************************************)
\* The invariant holds, whatever the sessions, the requests and the user do.
THEOREM AgentCorrect == Spec => []AgentInv
<1>1. Init => AgentInv
  BY InitInv
<1>2. AgentInv /\ [Next]_vars => AgentInv'
  BY NextInv
<1> QED BY <1>1, <1>2, PTL DEF Spec

\* The variables of the agent service keep their types (agent.go).
THEOREM AgentTypes == Spec => []TypeOK
<1>1. AgentInv => TypeOK
  BY DEF AgentInv
<1> QED BY <1>1, AgentCorrect, PTL

\* No tool that asks runs without the user's word for it, though the one
\* dialog shows the requests of all sessions over one another and answers
\* come late (permission.go:52-108, tui.go:275-289).
THEOREM OnlyGrantedRuns == Spec => []GrantedByUser
<1>1. AgentInv => GrantedByUser
  BY DEF AgentInv
<1> QED BY <1>1, AgentCorrect, PTL

\* The map of active requests names only runs that have begun and not come to
\* their end, or that panicked, and of the session they are filed under, for
\* any sessions and runs (agent.go:117-133, 203-228).
THEOREM NoSessionHeld == Spec => []BusyIsLive
<1>1. AgentInv => BusyIsLive
  BY DEF AgentInv
<1> QED BY <1>1, AgentCorrect, PTL

\* When the model is asked again each call of its answer has one result, also
\* after a cancellation or a denial in their middle (agent.go:352-432).
THEOREM EachCallHasResult == Spec => []EveryCallAnswered
<1>1. ASSUME AgentInv PROVE EveryCallAnswered
  <2> SUFFICES ASSUME NEW r \in Runs, pc[r] = "loop", round[r] > 0
               PROVE  /\ DOMAIN results[r] = DOMAIN msg[r].calls
                      /\ \A k \in DOMAIN results[r] : results[r][k] # "none"
    BY DEF EveryCallAnswered
  <2>1. /\ Len(results[r]) = Len(msg[r].calls)
        /\ \A k \in DOMAIN results[r] : results[r][k] # "none"
    BY <1>1 DEF AgentInv, ResultsKept, Kept
  <2>2. results[r] \in Seq(Results) /\ msg[r].calls \in Answers
    BY <1>1 DEF AgentInv, TypeOK
  <2>3. DOMAIN results[r] = 1 .. Len(results[r]) /\ DOMAIN msg[r].calls = 1 .. Len(msg[r].calls)
    BY <2>2, AnswersAreSeqs
  <2> QED BY <2>1, <2>3
<1>2. AgentInv => EveryCallAnswered
  BY <1>1
<1> QED BY <1>2, AgentCorrect, PTL

\* After a tool of the program reports a denial the model is not asked again
\* in this request, however many calls are left and whatever becomes of them;
\* the tools of MCP servers do not report theirs (agent.go:264-301, 392-411,
\* mcp-tools.go:102-104).
THEOREM DenialEnds == Spec => DenialEndsRequest
<1>1. ASSUME AgentInv, [Next]_vars
      PROVE  \A r \in Runs : "denied" \in {results[r][k] : k \in DOMAIN results[r]} =>
                 pc'[r] \notin {"loop", "stream"}
  <2> SUFFICES ASSUME NEW r \in Runs, NEW k \in DOMAIN results[r], results[r][k] = "denied",
                      pc'[r] \in {"loop", "stream"}
               PROVE  FALSE
    OBVIOUS
  <2> USE <1>1 DEF AgentInv
  <2>1. Kept(pc[r], round[r], results[r], next[r], msg[r])
    BY DEF ResultsKept
  <2>2. /\ pc[r] \notin {"idle", "load", "loop", "stream", "ended"}
        /\ pc[r] \in {"tools", "ask", "run"} => msg[r].finish # "tool_use"
    BY <2>1 DEF Kept
  <2>3. pc'[r] = pc[r] \/ pc'[r] \notin {"loop", "stream"}
    BY <2>2, PlaceStep DEF Comes
  <2> QED BY <2>2, <2>3
<1>2. AgentInv /\ [Next]_vars =>
          [\A r \in Runs : "denied" \in {results[r][k] : k \in DOMAIN results[r]} =>
               pc'[r] \notin {"loop", "stream"}]_vars
  BY <1>1
<1> QED BY <1>2, AgentCorrect, PTL DEF Spec, DenialEndsRequest
=============================================================================
