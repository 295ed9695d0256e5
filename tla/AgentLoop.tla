------------------------------ MODULE AgentLoop ------------------------------
(***************************************************************************)
(* HarnessService.run_agentic_task_stream: the loop that asks a provider   *)
(* for a completion, relays its stream to the client, runs the tools the   *)
(* model asked for and asks again.                                         *)
(*                                                                         *)
(* The provider is the environment: any status, any line of the stream and *)
(* any network error may come next.  A chunk of text is a unit; a tool     *)
(* call is its id and whether it is task_completed.                        *)
(***************************************************************************)
EXTENDS Naturals, FiniteSets, Sequences

CONSTANTS
    MaxSteps,    \* req.max_steps
    MaxRetries,  \* MAX_RETRIES
    MaxCalls,    \* bound: tool calls of one turn
    MaxLines     \* bound: lines of one provider stream

ASSUME MaxStepsAssumption == MaxSteps \in Nat \ {0}
ASSUME MaxRetriesAssumption == MaxRetries \in Nat
ASSUME MaxCallsAssumption == MaxCalls \in Nat
ASSUME MaxLinesAssumption == MaxLines \in Nat

VARIABLES
    pc,           \* where the generator is
    step,         \* completions asked for, the current one included
    attempt,      \* of the current step, from 0
    lines,        \* lines read from the current stream
    content,      \* full_content, in chunks
    started,      \* stream_started
    acc,          \* keys of tool_calls_acc: the indices of structured calls
    stepUsage,    \* has the stream reported usage (step_usage is not None)
    usage,        \* accumulated_usage, in completions counted
    conversation, \* the messages after those of the request
    next,         \* the tool calls of this turn that have no result yet
    completed,    \* has_task_completed
    shown,        \* chunks the client was sent since the step began
    terminals     \* done and error events the client was sent

vars == <<pc, step, attempt, lines, content, started, acc, stepUsage, usage,
          conversation, next, completed, shown, terminals>>
streamVars == <<lines, content, started, acc, stepUsage>>
turnVars   == <<conversation, next, completed>>

PCs == {"asking", "streaming", "waiting", "settled", "calling", "running", "over",
        "crashed", "left"}
Ended == {"over", "crashed", "left"}

\* The ids of tool calls: a structured call keeps the provider's, a call found
\* in the text is numbered from call_text_0 in every turn.
Indices == 0 .. MaxCalls - 1
CallIds == {"call", "call_text"} \X Indices
Calls   == [id : CallIds, done : BOOLEAN]  \* done: its name is task_completed

Assistant(cs) == [role |-> "assistant", calls |-> cs]
ToolResult(c) == [role |-> "tool", id |-> c.id]
Messages == [role : {"assistant"}, calls : Seq(Calls)] \cup [role : {"tool"}, id : CallIds]

TypeOK ==
    /\ pc \in PCs
    /\ step \in 1 .. MaxSteps
    /\ attempt \in 0 .. MaxRetries
    /\ lines \in Nat /\ content \in Nat /\ shown \in Nat
    /\ started \in BOOLEAN /\ stepUsage \in BOOLEAN /\ completed \in BOOLEAN
    /\ acc \subseteq Indices
    /\ usage \in Nat /\ terminals \in Nat
    /\ conversation \in Seq(Messages)
    /\ next \in Seq(Calls)

Init ==
    /\ pc = "asking" /\ step = 1 /\ attempt = 0
    /\ lines = 0 /\ content = 0 /\ started = FALSE /\ acc = {} /\ stepUsage = FALSE
    /\ usage = 0 /\ conversation = <<>> /\ next = <<>> /\ completed = FALSE
    /\ shown = 0 /\ terminals = 0

\* The variables an attempt starts with (harness_service.py:933-937).
FreshAttempt ==
    /\ lines' = 0 /\ content' = 0 /\ started' = FALSE /\ acc' = {}
    /\ stepUsage' = FALSE

-----------------------------------------------------------------------------
(* Ends of an attempt that failed.                                         *)

\* A status event, then the backoff.
Retry ==
    /\ pc' = "waiting"
    /\ UNCHANGED <<step, attempt, streamVars, usage, turnVars, shown, terminals>>

\* An error event, and the generator returns.
Fail ==
    /\ pc' = "over"
    /\ terminals' = terminals + 1
    /\ UNCHANGED <<step, attempt, streamVars, usage, turnVars, shown>>

\* Variants of RetryOrFail: a retry that may follow relayed text, and one that
\* gives up in silence.
RetryAfterText == IF attempt < MaxRetries THEN Retry ELSE Fail
GiveUpSilently ==
    IF ~started /\ attempt < MaxRetries
    THEN Retry
    ELSE /\ pc' = "over"
         /\ UNCHANGED <<step, attempt, streamVars, usage, turnVars, shown, terminals>>

\* What the code does with a failure that may pass: rate limits, and network
\* errors.  Once text was relayed it is final.
RetryOrFail == IF ~started /\ attempt < MaxRetries THEN Retry ELSE Fail

-----------------------------------------------------------------------------
(* The request.                                                            *)

\* Status 200: the lines follow.
Answered ==
    /\ pc = "asking"
    /\ pc' = "streaming"
    /\ UNCHANGED <<step, attempt, streamVars, usage, turnVars, shown, terminals>>

\* Status 429, or a network error before any answer.
RateLimited == pc = "asking" /\ RetryOrFail

\* Any other status, or an exception that is not a RequestError.
Rejected == pc = "asking" /\ Fail

\* Variant: the attempts are not counted.
BackoffUncounted ==
    /\ pc = "waiting"
    /\ pc' = "asking"
    /\ FreshAttempt
    /\ UNCHANGED <<step, attempt, usage, turnVars, shown, terminals>>

\* The backoff is over: the next attempt starts afresh.
BackoffDone ==
    /\ pc = "waiting"
    /\ pc' = "asking"
    /\ attempt' = attempt + 1
    /\ FreshAttempt
    /\ UNCHANGED <<step, usage, turnVars, shown, terminals>>

-----------------------------------------------------------------------------
(* The stream.                                                             *)

ReadLine == pc = "streaming" /\ lines < MaxLines /\ lines' = lines + 1

\* A piece of text: kept and relayed at once.
Chunk ==
    /\ ReadLine
    /\ content' = content + 1
    /\ started' = TRUE
    /\ shown' = shown + 1
    /\ UNCHANGED <<pc, step, attempt, acc, stepUsage, usage, turnVars, terminals>>

\* A piece of a structured tool call.  It is not relayed, and stream_started
\* stays as it is.
ToolDelta ==
    /\ ReadLine
    /\ \E i \in Indices : acc' = acc \cup {i}
    /\ UNCHANGED <<pc, step, attempt, content, started, stepUsage, usage, turnVars,
                   shown, terminals>>

\* Variant: usage is added up when it arrives.
CountOnArrival ==
    /\ ReadLine
    /\ stepUsage' = TRUE
    /\ usage' = usage + 1
    /\ UNCHANGED <<pc, step, attempt, content, started, acc, turnVars, shown, terminals>>

UsageLine ==
    /\ ReadLine
    /\ stepUsage' = TRUE
    /\ UNCHANGED <<pc, step, attempt, content, started, acc, usage, turnVars, shown,
                   terminals>>

\* An error object about a rate limit, or a broken connection.
StreamBreaks == pc = "streaming" /\ RetryOrFail

\* Any other error object, or a line the code cannot digest.
StreamFails == pc = "streaming" /\ Fail

\* [DONE], or the end of the body without it.
StreamEnds ==
    /\ pc = "streaming"
    /\ pc' = "settled"
    /\ UNCHANGED <<step, attempt, streamVars, usage, turnVars, shown, terminals>>

-----------------------------------------------------------------------------
(* The turn.                                                               *)

CountUsage == usage' = IF stepUsage THEN usage + 1 ELSE usage

\* The structured calls, by index.  The model chose their names.
StructuredCalls(cs) ==
    /\ Len(cs) = Cardinality(acc)
    /\ {cs[i].id[2] : i \in DOMAIN cs} = acc
    /\ \A i, j \in DOMAIN cs : i < j => cs[i].id[2] < cs[j].id[2]
    /\ \A i \in DOMAIN cs : cs[i].id[1] = "call"

\* The calls found in the text, when there were no structured ones.
TextCalls(cs) ==
    /\ acc = {} /\ content > 0
    /\ \A i \in DOMAIN cs : cs[i].id = <<"call_text", i - 1>>

\* The completion asks for tools: it joins the conversation.
TakeTurn ==
    /\ pc = "settled"
    /\ \E n \in 1 .. MaxCalls : \E cs \in [1 .. n -> Calls] :
          /\ StructuredCalls(cs) \/ TextCalls(cs)
          /\ conversation' = Append(conversation, Assistant(cs))
          /\ next' = cs
    /\ completed' = FALSE
    /\ CountUsage
    /\ pc' = "calling"
    /\ UNCHANGED <<step, attempt, streamVars, shown, terminals>>

\* The completion is the final answer.
FinalAnswer ==
    /\ pc = "settled"
    /\ acc = {}
    /\ CountUsage
    /\ pc' = "over"
    /\ terminals' = terminals + 1
    /\ UNCHANGED <<step, attempt, streamVars, turnVars, shown>>

\* Outside every `try`: text that looks like a tool call and is not an object
\* with a name, or usage that is not made of numbers.  The generator raises.
Garbled ==
    /\ pc = "settled"
    /\ (acc = {} /\ content > 0) \/ stepUsage
    /\ pc' = "crashed"
    /\ UNCHANGED <<step, attempt, streamVars, usage, turnVars, shown, terminals>>

\* The provider chose the indices of the calls, and nothing looks at their
\* types: a number and a string cannot be sorted.  The usage has been counted
\* by then, and the client told of it.
Unsortable ==
    /\ pc = "settled"
    /\ Cardinality(acc) > 1
    /\ CountUsage
    /\ pc' = "crashed"
    /\ UNCHANGED <<step, attempt, streamVars, turnVars, shown, terminals>>

\* tool_call_start, and execute_tool is awaited.
StartCall ==
    /\ pc = "calling" /\ next # <<>>
    /\ completed' = (completed \/ Head(next).done)
    /\ pc' = "running"
    /\ UNCHANGED <<step, attempt, streamVars, usage, conversation, next, shown, terminals>>

\* Variant: task_completed is not answered.
CompletedUnanswered ==
    /\ pc = "running"
    /\ conversation' = IF Head(next).done THEN conversation
                       ELSE Append(conversation, ToolResult(Head(next)))
    /\ next' = Tail(next)
    /\ pc' = "calling"
    /\ UNCHANGED <<step, attempt, streamVars, usage, completed, shown, terminals>>

\* execute_tool returns, a result or the text of an error: tool_call_result.
FinishCall ==
    /\ pc = "running"
    /\ conversation' = Append(conversation, ToolResult(Head(next)))
    /\ next' = Tail(next)
    /\ pc' = "calling"
    /\ UNCHANGED <<step, attempt, streamVars, usage, completed, shown, terminals>>

\* Variant: task_completed ends the run at once, other calls or not.
EndAtCompletion ==
    /\ pc = "calling"
    /\ completed \/ (next = <<>> /\ step = MaxSteps)
    /\ pc' = "over"
    /\ terminals' = terminals + 1
    /\ UNCHANGED <<step, attempt, streamVars, usage, turnVars, shown>>

\* All calls have run.  task_completed ends the run, and so does the last step.
EndRun ==
    /\ pc = "calling" /\ next = <<>>
    /\ completed \/ step = MaxSteps
    /\ pc' = "over"
    /\ terminals' = terminals + 1
    /\ UNCHANGED <<step, attempt, streamVars, usage, turnVars, shown>>

NextStep ==
    /\ pc = "calling" /\ next = <<>>
    /\ ~completed /\ step < MaxSteps
    /\ pc' = "asking"
    /\ step' = step + 1 /\ attempt' = 0
    /\ FreshAttempt
    /\ shown' = 0
    /\ UNCHANGED <<usage, turnVars, terminals>>

\* The client goes away: the generator is cancelled where it is suspended.
Leave ==
    /\ pc \notin Ended
    /\ pc' = "left"
    /\ UNCHANGED <<step, attempt, streamVars, usage, turnVars, shown, terminals>>

Work ==
    \/ Answered \/ RateLimited \/ Rejected \/ BackoffDone
    \/ Chunk \/ ToolDelta \/ UsageLine \/ StreamBreaks \/ StreamFails \/ StreamEnds
    \/ TakeTurn \/ FinalAnswer \/ Garbled \/ Unsortable
    \/ StartCall \/ FinishCall \/ EndRun \/ NextStep

Next == Work \/ Leave

Spec == Init /\ [][Next]_vars

\* Requests have timeouts, sleeps end and tools are killed after theirs.
FairSpec == Spec /\ WF_vars(Work)

-----------------------------------------------------------------------------
(* What the loop promises.                                                 *)

\* The client is told of the end exactly once, when it comes, on every path
\* of retries, errors and limits: `if not success: return` never ends a run in
\* silence (harness_service.py:953-960, 988, 1040-1047, 1138-1150).  A run that
\* crashed on garbled text, usage or indices has told its client of no end.
EndsOnce == terminals = IF pc = "over" THEN 1 ELSE 0

\* What the user was shown during a step is what the loop records for it: no
\* attempt whose text was relayed is retried (harness_service.py:979, 1034).
NoReplay == pc \in {"asking", "waiting", "streaming", "settled"} => shown = content

IsTurn(k) == conversation[k].role = "assistant"

\* Each tool call in the conversation is followed by its own result and each
\* result has its call, in order and with nothing between; only the calls of
\* the turn in progress may still lack theirs (harness_service.py:1097-1135).
AnsweredInOrder ==
    /\ \A k \in DOMAIN conversation : IsTurn(k) =>
          \A j \in DOMAIN conversation[k].calls :
             IF k + j <= Len(conversation)
             THEN conversation[k + j] = ToolResult(conversation[k].calls[j])
             ELSE /\ pc \in {"calling", "running", "left"}
                  /\ k + j - Len(conversation) \in DOMAIN next
                  /\ conversation[k].calls[j] = next[k + j - Len(conversation)]
    /\ \A i \in DOMAIN conversation : ~IsTurn(i) =>
          \E k \in 1 .. i - 1 : IsTurn(k) /\ i - k <= Len(conversation[k].calls)

\* The usage of a step is counted once, however many attempts it took, and
\* only when the step succeeded (harness_service.py:935, 1055-1078).
UsageOncePerStep ==
    usage <= IF pc \in {"asking", "waiting", "streaming", "settled"} THEN step - 1 ELSE step

\* A run ends, if its client does not end it first.
RunEnds == <>(pc \in Ended)

-----------------------------------------------------------------------------
(* The loop implements AgentTurns.                                         *)

Turns == INSTANCE AgentTurns WITH
    MaxTurns <- MaxSteps,
    phase <- CASE pc = "over" -> "closed"
               [] pc \in {"crashed", "left"} -> "cut"
               [] OTHER -> "open",
    turn <- Cardinality({k \in DOMAIN conversation : IsTurn(k)}),
    owed <- next

\* Every run is a sequence of turns whose calls are all paid, in order, before
\* anything else happens, and it ends.
ImplementsTurns == Turns!Spec
=============================================================================
