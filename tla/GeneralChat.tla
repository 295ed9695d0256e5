------------------------------ MODULE GeneralChat ------------------------------
(***************************************************************************)
(* HarnessService.run_general_chat_stream, a completion relayed to the     *)
(* phone with a web search before it if the user wants one, and            *)
(* fetch_models, which asks the same providers under the same retries.     *)
(*                                                                         *)
(* The provider is the environment.  The messages are counted; the list is *)
(* the one in the payload, so that what the search appends is sent.        *)
(***************************************************************************)
EXTENDS WebSearch, Sequences

CONSTANTS
    MaxRetries,  \* MAX_RETRIES
    MaxLines     \* bound: lines of one provider stream

ASSUME GeneralChatAssumption == MaxRetries \in Nat /\ MaxLines \in Nat

VARIABLES
    request,   \* chat or models
    pc,
    attempt,
    lines,     \* lines read of the current stream
    started,   \* stream_started
    messages,  \* in the payload: the user's one, and the search's
    said       \* the events the client was sent, as <<type, attempt>>

chatVars == <<request, pc, attempt, lines, started, messages, said>>
vars == <<searchVars, chatVars>>

Terminals == {"done", "error", "models"}
Ended == {"over", "left"}

Init ==
    /\ SearchInit
    /\ request \in {"chat", "models"} /\ pc = "checking" /\ attempt = 0 /\ lines = 0
    /\ started = FALSE /\ messages \in 0 .. 1 /\ said = <<>>

Say(e) == said' = Append(said, <<e, attempt>>)
Finish(e) == Say(e) /\ pc' = "over"
Tell(e, next) == Say(e) /\ pc' = next

-----------------------------------------------------------------------------
\* The URL is checked, and a chat needs a message.
Refused ==
    /\ pc = "checking" /\ Finish("error")
    /\ UNCHANGED <<searchVars, request, attempt, lines, started, messages>>

ModelsAsked ==
    /\ pc = "checking" /\ request = "models" /\ pc' = "asking"
    /\ UNCHANGED <<searchVars, request, attempt, lines, started, messages, said>>

\* A search, if it is enabled and there is a text to search for.
SearchAsked ==
    /\ pc = "checking" /\ request = "chat" /\ messages > 0
    /\ Tell("status", "searching") /\ SearchBegins
    /\ UNCHANGED <<request, attempt, lines, started, messages>>

\* What the search raises is told as a notice, and the chat goes on with nothing
\* found.  The search catches what its own requests raise; SearchRequest, before
\* them, may refuse the query (a lone surrogate is no str to it).
SearchRaises ==
    /\ pc = "searching" /\ stage \in Asking /\ made = 0
    /\ SearchEnds(0) /\ Say("status")
    /\ UNCHANGED <<made, fetched, homeSafe, request, pc, attempt, lines, started, messages>>

\* Its results are one more message, and "Generating response" is announced.
SearchDone ==
    /\ pc = "searching" /\ stage = "over"
    /\ messages' = messages + (IF results > 0 THEN 1 ELSE 0)
    /\ Tell("status", "asking")
    /\ UNCHANGED <<searchVars, request, attempt, lines, started>>

NoSearch ==
    /\ pc = "checking" /\ request = "chat" /\ messages > 0
    /\ Tell("status", "asking")
    /\ UNCHANGED <<searchVars, request, attempt, lines, started, messages>>

Searching == pc = "searching" /\ SearchStep /\ UNCHANGED chatVars

-----------------------------------------------------------------------------
\* Variant: text that was relayed does not matter.
RetryAnyway == attempt < MaxRetries

MayRetry == ~started /\ attempt < MaxRetries

\* Rate limits, by status or as a line of the stream, and network errors.  The
\* model list is asked again for a 429 only, and nobody is told.
Fails ==
    /\ pc \in {"asking", "streaming"}
    /\ \/ MayRetry /\ request = "chat" /\ Tell("status", "waiting")
       \/ MayRetry /\ request = "models" /\ pc' = "waiting" /\ UNCHANGED said
       \/ (~MayRetry \/ request = "models") /\ Finish("error")
    /\ UNCHANGED <<searchVars, request, attempt, lines, started, messages>>

\* Any other status or error object, or a line that cannot be digested.
FailsForGood ==
    /\ pc \in {"asking", "streaming"} /\ Finish("error")
    /\ UNCHANGED <<searchVars, request, attempt, lines, started, messages>>

\* Variant: fetch_models does not count its attempts.
ModelsUncounted ==
    /\ pc = "waiting" /\ pc' = "asking" /\ lines' = 0 /\ started' = FALSE
    /\ attempt' = IF request = "models" THEN attempt ELSE attempt + 1
    /\ UNCHANGED <<searchVars, request, messages, said>>

\* Behind the last attempt the loop is over without an answer.
BackoffDone ==
    /\ pc = "waiting"
    /\ pc' = IF attempt < MaxRetries THEN "asking" ELSE "spent"
    /\ attempt' = attempt + 1 /\ lines' = 0 /\ started' = FALSE
    /\ UNCHANGED <<searchVars, request, messages, said>>

ModelsAnswered ==
    /\ pc = "asking" /\ request = "models" /\ Finish("models")
    /\ UNCHANGED <<searchVars, request, attempt, lines, started, messages>>

Opened ==
    /\ pc = "asking" /\ request = "chat" /\ pc' = "streaming"
    /\ UNCHANGED <<searchVars, request, attempt, lines, started, messages, said>>

\* Lines: text, usage, both, or nothing of interest.
Line(text, usage) ==
    /\ pc = "streaming" /\ lines < MaxLines
    /\ lines' = lines + 1 /\ started' = (started \/ text)
    /\ said' = said \o (IF usage THEN <<<<"usage", attempt>>>> ELSE <<>>)
                    \o (IF text THEN <<<<"chunk", attempt>>>> ELSE <<>>)
    /\ UNCHANGED <<searchVars, request, pc, attempt, messages>>

\* Variant: an error line ends the reading, and done follows.
ErrorThenDone ==
    /\ pc = "streaming" /\ said' = said \o <<<<"error", attempt>>, <<"done", attempt>>>>
    /\ pc' = "over"
    /\ UNCHANGED <<searchVars, request, attempt, lines, started, messages>>

\* [DONE], or the end of the body.
StreamEnds ==
    /\ pc = "streaming" /\ Finish("done")
    /\ UNCHANGED <<searchVars, request, attempt, lines, started, messages>>

Leave ==
    /\ pc \notin Ended /\ pc' = "left"
    /\ UNCHANGED <<searchVars, request, attempt, lines, started, messages, said>>

Work ==
    \/ Refused \/ ModelsAsked \/ SearchAsked \/ Searching \/ SearchRaises \/ SearchDone
    \/ NoSearch \/ Fails \/ FailsForGood \/ BackoffDone \/ ModelsAnswered \/ Opened \/ StreamEnds
    \/ \E text, usage \in BOOLEAN : Line(text, usage)
Next == Work \/ Leave

\* Requests, sleeps and streams have timeouts.
Spec == Init /\ [][Next]_vars /\ WF_vars(Work)

-----------------------------------------------------------------------------
TypeOK ==
    /\ SearchTypeOK
    /\ request \in {"chat", "models"} /\ attempt \in 0 .. MaxRetries + 1
    /\ pc \in {"checking", "searching", "asking", "streaming", "waiting", "spent"} \cup Ended
    /\ lines \in 0 .. MaxLines /\ started \in BOOLEAN /\ messages \in 0 .. 2
    /\ said \in Seq(({"status", "usage", "chunk"} \cup Terminals) \X Nat)

\* The client hears of the end exactly once, last, and only at the end
\* (run_general_chat_stream).
EndsOnceLast ==
    \A i \in DOMAIN said : said[i][1] \in Terminals <=> (pc = "over" /\ i = Len(said))

\* The text a client has put together is that of one attempt, the last one, and
\* no retry is announced behind it (run_general_chat_stream).
OneAttemptsText ==
    \A i \in DOMAIN said : said[i][1] = "chunk" =>
        \A j \in i + 1 .. Len(said) : said[j][2] = said[i][2] /\ said[j][1] # "status"

\* "Chat failed after retries" and its like behind the loops are never reached.
NeverSpent == pc # "spent"

\* Every stream has its one end, and a reason.
EndsWell == EndsOnceLast /\ NeverSpent

\* Every request is answered, if its client does not leave first.
ChatEnds == <>(pc \in Ended)
=============================================================================
