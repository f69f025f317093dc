------------------------------ MODULE GoStore ------------------------------
(***************************************************************************)
(* A session in the database of the program in Go: its row, its messages,  *)
(* and those who read and write them at once: the requests of the agent,   *)
(* the title, the summary, the usage and the cost of a sub-agent           *)
(* (internal/session, internal/message, internal/llm/agent), and what the  *)
(* clients of the providers make of the history (convertMessages).         *)
(*                                                                         *)
(* A message has some calls of tools or none, or nothing at all; "broken"  *)
(* calls have an input that is no JSON. The results of the calls are one   *)
(* message.                                                                *)
(***************************************************************************)
EXTENDS Naturals, FiniteSets, FiniteSetsExt, Sequences

CONSTANTS
    Requests,   \* bound: the requests of the session
    Clients,    \* kinds of client: the model may change from request to request
    MaxRows     \* bound: the messages of the session

ASSUME StoreAssumption ==
    /\ Clients \subseteq {"anthropic", "openai", "copilot", "gemini"} /\ Clients # {}
    /\ MaxRows \in Nat
    /\ {"none", "title", "summary"} \cap Requests = {}   \* names that are taken

VARIABLES
    messages,  \* the table messages, of this session
    session,   \* its row of the table sessions: summary_message_id, 0 for none
    stage,     \* of each request
    owner,     \* activeRequests: the request of the session
    hist,      \* msgHistory of a request
    answer,    \* its assistantMsg, a row
    read,      \* the row of the session that a writer has read
    summing,   \* the stage of Summarize
    unguarded  \* history: requests that broke off, or that shared the session

storeVars == <<messages, session, stage, owner, hist, answer, read, summing, unguarded>>

NoOne == "none"
Called == {"good", "broken"}
Unread == MaxRows + 1   \* a writer that has read nothing

User(by) == [role |-> "user", calls |-> "none", of |-> 0, by |-> by]
Summary == [role |-> "assistant", calls |-> "none", of |-> 0, by |-> NoOne]
Assistant(by) == [role |-> "assistant", calls |-> "empty", of |-> 0, by |-> by]
Results(by, i) == [role |-> "tool", calls |-> "none", of |-> i, by |-> by]

\* A message in a history: its place in the table, and itself.
Numbered(rs) == [i \in DOMAIN rs |-> [id |-> i, row |-> rs[i]]]

StoreInit ==
    /\ messages = <<>>
    /\ session = 0
    /\ stage = [r \in Requests |-> "idle"]
    /\ owner = NoOne
    /\ hist = [r \in Requests |-> <<>>]
    /\ answer = [r \in Requests |-> 0]
    /\ read = [w \in Requests \cup {"title", "summary"} |-> Unread]
    /\ summing = "idle"
    /\ unguarded = {}

In(r, s) == stage[r] = s
Goes(r, s) == stage' = [stage EXCEPT ![r] = s]
Reads(w) == read' = [read EXCEPT ![w] = session]
Forgets(w) == read' = [read EXCEPT ![w] = Unread]
Room == Len(messages) < MaxRows
Live(r) == stage[r] \notin {"idle", "ended"}

-----------------------------------------------------------------------------
(* A request. *)

\* Run. It does not look whether the session is being summarized.
Begins(r) ==
    /\ In(r, "idle") /\ owner = NoOne
    /\ owner' = r
    /\ Goes(r, "list")
    /\ unguarded' = IF summing # "idle" THEN unguarded \cup {r} ELSE unguarded
    /\ UNCHANGED <<messages, session, hist, answer, read, summing>>

\* processGeneration: the messages are listed; if there are none, the title is
\* asked for, with the row of the session as it is.
Lists(r) ==
    /\ In(r, "list")
    /\ hist' = [hist EXCEPT ![r] = Numbered(messages)]
    /\ IF messages = <<>> /\ read["title"] = Unread THEN Reads("title") ELSE UNCHANGED read
    /\ Goes(r, "open")
    /\ UNCHANGED <<messages, session, owner, answer, summing, unguarded>>

\* The history begins at the summary, if it was listed, in the role of the
\* user.
Cut(h, summary) ==
    IF \E i \in DOMAIN h : h[i].id = summary
    THEN [SubSeq(h, summary, Len(h)) EXCEPT ![1].row.role = "user"]
    ELSE h

\* The session is read, the message of the user created and added.
Opens(r) ==
    /\ In(r, "open") /\ Room
    /\ messages' = Append(messages, User(r))
    /\ hist' = [hist EXCEPT ![r] = Append(Cut(@, session), [id |-> Len(messages) + 1, row |-> User(r)])]
    /\ Goes(r, "send")
    /\ UNCHANGED <<session, owner, answer, read, summing, unguarded>>

\* StreamResponse, and the empty message of the assistant.
Sends(r) ==
    /\ In(r, "send") /\ Room
    /\ messages' = Append(messages, Assistant(r))
    /\ answer' = [answer EXCEPT ![r] = Len(messages) + 1]
    /\ Goes(r, "stream")
    /\ UNCHANGED <<session, owner, hist, read, summing, unguarded>>

\* Update of the message in the table.
Stores(r, calls) == messages' = [messages EXCEPT ![answer[r]].calls = calls]

\* Anthropic's client alone tells of a call when it begins, without an input.
Delta(r) ==
    /\ In(r, "stream")
    /\ \/ messages[answer[r]].calls = "empty" /\ Stores(r, "none")
       \/ "anthropic" \in Clients /\ Stores(r, "broken")
    /\ UNCHANGED <<session, stage, owner, hist, answer, read, summing, unguarded>>

\* EventComplete: SetToolCalls, the message is stored, and TrackUsage reads
\* the row of the session.
Completes(r) ==
    /\ In(r, "stream")
    /\ \E calls \in {"none", "good", "broken"} : Stores(r, calls)
    /\ Reads(r)
    /\ Goes(r, "usage")
    /\ UNCHANGED <<session, owner, hist, answer, summing, unguarded>>

\* TrackUsage saves the whole row. Title, cost and tokens are left out.
SavesUsage(r) ==
    /\ In(r, "usage")
    /\ session' = read[r] /\ Forgets(r)
    /\ Goes(r, "tools")
    /\ UNCHANGED <<messages, owner, hist, answer, summing, unguarded>>

\* A sub-agent ends: its cost goes into the row of the session.
SubAgentReads(r) ==
    /\ In(r, "tools") /\ messages[answer[r]].calls \in Called /\ read[r] = Unread
    /\ Reads(r)
    /\ UNCHANGED <<messages, session, stage, owner, hist, answer, summing, unguarded>>

SubAgentSaves(r) ==
    /\ In(r, "tools") /\ read[r] # Unread
    /\ session' = read[r] /\ Forgets(r)
    /\ UNCHANGED <<messages, stage, owner, hist, answer, summing, unguarded>>

\* The results are stored, also those of a denial or a cancellation; the loop
\* goes on or ends.
ToolsEnd(r) ==
    /\ In(r, "tools") /\ read[r] = Unread
    /\ LET a == messages[answer[r]]
           t == Results(r, answer[r])
       IN  \/ /\ a.calls \in Called /\ Room
              /\ messages' = Append(messages, t)
              /\ \/ /\ Goes(r, "send")
                    /\ hist' = [hist EXCEPT ![r] = @ \o <<[id |-> answer[r], row |-> a],
                                                          [id |-> Len(messages) + 1, row |-> t]>>]
                 \/ Goes(r, "over") /\ hist' = [hist EXCEPT ![r] = <<>>]
           \/ /\ a.calls \notin Called
              /\ Goes(r, "over") /\ hist' = [hist EXCEPT ![r] = <<>>]
              /\ UNCHANGED messages
    /\ UNCHANGED <<session, owner, answer, read, summing, unguarded>>

\* The provider breaks off, or the context is cancelled before the tools: the
\* message stays as it is, finished as canceled.
BreaksOff(r) ==
    /\ stage[r] \in {"list", "open", "send", "stream", "usage"}
    /\ Forgets(r)
    /\ Goes(r, "over") /\ hist' = [hist EXCEPT ![r] = <<>>]
    /\ unguarded' = unguarded \cup {r}
    /\ UNCHANGED <<messages, session, owner, answer, summing>>

\* The entry of the session is deleted, whosever it is.
Ends(r) ==
    /\ In(r, "over")
    /\ owner' = NoOne
    /\ unguarded' = IF owner \in {r, NoOne} THEN unguarded ELSE unguarded \cup {owner}
    /\ Goes(r, "ended")
    /\ answer' = [answer EXCEPT ![r] = 0]
    /\ UNCHANGED <<messages, session, hist, read, summing>>

\* Cancel frees the session; the request may still work for a while.
Cancels ==
    /\ owner # NoOne
    /\ owner' = NoOne
    /\ unguarded' = unguarded \cup {owner}
    /\ UNCHANGED <<messages, session, stage, hist, answer, read, summing>>

-----------------------------------------------------------------------------
(* The title and the summary. *)

\* generateTitle gets its answer and saves the row that it read before.
Titles ==
    /\ read["title"] # Unread
    /\ session' = read["title"]
    /\ Forgets("title")
    /\ UNCHANGED <<messages, stage, owner, hist, answer, summing, unguarded>>

\* There is no answer, or an empty one.
TitleFails ==
    /\ read["title"] # Unread
    /\ Forgets("title")
    /\ UNCHANGED <<messages, session, stage, owner, hist, answer, summing, unguarded>>

\* Faulty variant of Summarizes: it does not look for a request.
SummarizesBusy ==
    /\ summing = "idle" /\ messages # <<>>
    /\ summing' = "asked"
    /\ UNCHANGED <<messages, session, stage, owner, hist, answer, read, unguarded>>

\* Summarize: refused while a request of the session is in the map. The
\* messages are listed and sent; none is an error.
Summarizes ==
    /\ summing = "idle" /\ owner = NoOne /\ messages # <<>>
    /\ summing' = "asked"
    /\ UNCHANGED <<messages, session, stage, owner, hist, answer, read, unguarded>>

\* The answer has come: the row of the session is read, the message created.
SummaryCreated ==
    /\ summing = "asked" /\ Room
    /\ Reads("summary")
    /\ messages' = Append(messages, Summary)
    /\ summing' = "created"
    /\ UNCHANGED <<session, stage, owner, hist, answer, unguarded>>

SummarySaved ==
    /\ summing = "created"
    /\ session' = Max({i \in DOMAIN messages : messages[i] = Summary})
    /\ Forgets("summary") /\ summing' = "idle"
    /\ UNCHANGED <<messages, stage, owner, hist, answer, unguarded>>

\* It fails or is cancelled, with or without its message.
SummaryFails ==
    /\ summing # "idle"
    /\ Forgets("summary") /\ summing' = "idle"
    /\ UNCHANGED <<messages, session, stage, owner, hist, answer, unguarded>>

\* The program ends, and is started again with what is in the database.
StoreCrash ==
    /\ \E r \in Requests : Live(r)
    /\ stage' = [r \in Requests |-> IF Live(r) THEN "ended" ELSE stage[r]]
    /\ owner' = NoOne /\ summing' = "idle"
    /\ hist' = [r \in Requests |-> <<>>] /\ answer' = [r \in Requests |-> 0]
    /\ read' = [w \in DOMAIN read |-> Unread]
    /\ unguarded' = unguarded \cup {r \in Requests : Live(r)}
    /\ UNCHANGED <<messages, session>>

StoreNext ==
    \/ \E r \in Requests :
        \/ Begins(r) \/ Lists(r) \/ Opens(r) \/ Sends(r) \/ Delta(r) \/ Completes(r)
        \/ SavesUsage(r) \/ SubAgentReads(r) \/ SubAgentSaves(r) \/ ToolsEnd(r)
        \/ BreaksOff(r) \/ Ends(r)
    \/ Cancels \/ Titles \/ TitleFails
    \/ Summarizes \/ SummaryCreated \/ SummarySaved \/ SummaryFails
    \/ StoreCrash

StoreSpec == StoreInit /\ [][StoreNext]_storeVars

-----------------------------------------------------------------------------
(* What is sent to the provider. *)

\* The input of a call is parsed, and the call left out if it cannot be.
AnthropicMessage(m) ==
    IF m.row.calls = "broken" THEN [m EXCEPT !.row.calls = "none"] ELSE m

Filled(m) == m.row.calls # "empty"

FilledPlaces(h) == {i \in DOMAIN h : Filled(h[i])}

\* The messages that are sent, at their places in the history.
AnthropicMessages(h) == [i \in FilledPlaces(h) |-> AnthropicMessage(h[i])]

\* A message of the assistant is sent, whatever is in it.
OpenAIMessages(h) == h
CopilotMessages(h) == h

\* An empty one is left out. Each result finds its call by its
\* number, wherever it is.
GeminiMessages(h) == [i \in FilledPlaces(h) |-> h[i]]

ConvertMessages(client, h) ==
    CASE client = "anthropic" -> AnthropicMessages(h)
      [] client = "openai"    -> OpenAIMessages(h)
      [] client = "copilot"   -> CopilotMessages(h)
      [] client = "gemini"    -> GeminiMessages(h)

-----------------------------------------------------------------------------
(* Properties. *)

Excused(m) == m.row.by \in unguarded \cup {NoOne}

\* What is sent is a conversation that a provider accepts: each message of
\* results comes after the calls that it answers, and calls are followed by
\* their results before anything else, in spite of writers that know nothing
\* of each other. Excused are the messages of a request that was cancelled,
\* failed, was cut off by a crash or had to share the session, and calls
\* without JSON, which Anthropic's client leaves out
\* (agent.go:233-318, 421-438, 535-551, anthropic.go:60-119, openai.go:68-126).
ConversationIsSound ==
    \A r \in Requests \ unguarded, client \in Clients : In(r, "send") =>
        LET ms == ConvertMessages(client, hist[r])
            Answered(i) == \E j \in DOMAIN ms :
                /\ i < j /\ ms[j].row.role = "tool" /\ ms[j].row.of = ms[i].id
                /\ \A k \in DOMAIN ms : i < k /\ k < j => Excused(ms[k])
            Calls(j) ==
                \/ \E i \in DOMAIN ms : /\ i < j /\ ms[i].id = ms[j].row.of
                                        /\ ms[i].row.calls \in Called
                \/ client = "anthropic" /\ messages[ms[j].row.of].calls = "broken"
        IN  \A i \in DOMAIN ms : ~Excused(ms[i]) =>
                /\ ms[i].row.calls \in Called => Answered(i)
                /\ ms[i].row.role = "tool" => Calls(i)

=============================================================================
