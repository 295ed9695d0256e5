--------------------------- MODULE AgentLoopProofs ---------------------------
(***************************************************************************)
(* Safety of the agent loop for every step limit, retry limit and number   *)
(* of tool calls, and that its steps are those of AgentTurns.              *)
(***************************************************************************)
EXTENDS AgentLoop, FiniteSetTheorems, TLAPS

Asking == {"asking", "waiting", "streaming", "settled"}
Paying == {"calling", "running", "left"}

\* What the variables of a step have to do with each other.
StepOK ==
    /\ started <=> content > 0
    /\ pc = "waiting" => content = 0 /\ attempt < MaxRetries
    /\ pc \in Asking => next = <<>>
    /\ pc = "running" => next # <<>>

\* The unanswered calls are the last ones of the last turn.
OwedOK ==
    next # <<>> =>
        \E k \in DOMAIN conversation :
            /\ IsTurn(k)
            /\ k + Len(conversation[k].calls) = Len(conversation) + Len(next)

TurnSet == {k \in DOMAIN conversation : IsTurn(k)}

\* Each earlier step has had its turn, and the current one once it takes it.
TurnsOK == Cardinality(TurnSet) <= IF pc \in Asking THEN step - 1 ELSE step

\* The first half of AnsweredInOrder: call j of turn k.
CallOK(k, j) ==
    IF k + j <= Len(conversation)
    THEN conversation[k + j] = ToolResult(conversation[k].calls[j])
    ELSE /\ pc \in Paying
         /\ k + j - Len(conversation) \in DOMAIN next
         /\ conversation[k].calls[j] = next[k + j - Len(conversation)]
CallsOK == \A k \in DOMAIN conversation : IsTurn(k) =>
               \A j \in DOMAIN conversation[k].calls : CallOK(k, j)

\* The second half: result i.
ResultOK(i) == \E k \in 1 .. i - 1 : IsTurn(k) /\ i - k <= Len(conversation[k].calls)
ResultsOK == \A i \in DOMAIN conversation : ~IsTurn(i) => ResultOK(i)

StreamInv == TypeOK /\ StepOK /\ EndsOnce /\ NoReplay /\ UsageOncePerStep
TurnInv   == OwedOK /\ TurnsOK /\ CallsOK /\ ResultsOK
IInv      == StreamInv /\ TurnInv

-----------------------------------------------------------------------------
(* Streams, retries, endings and usage.                                    *)

LEMMA InitStream == Init => StreamInv
<1> SUFFICES ASSUME Init PROVE StreamInv
    OBVIOUS
<1>1. TypeOK
  <2>1. started \in BOOLEAN /\ stepUsage \in BOOLEAN /\ completed \in BOOLEAN
      BY DEF Init
  <2>2. attempt \in 0 .. MaxRetries /\ step \in 1 .. MaxSteps
      BY MaxStepsAssumption, MaxRetriesAssumption DEF Init
  <2> QED
      BY <2>1, <2>2 DEF Init, TypeOK, PCs
<1>2. StepOK
    BY DEF Init, StepOK, Asking
<1> QED
    BY <1>1, <1>2 DEF Init, StreamInv, EndsOnce, NoReplay, UsageOncePerStep

\* An attempt that failed is retried with nothing relayed, or ends the run.
LEMMA FailureStream ==
    ASSUME StreamInv, pc \in {"asking", "streaming"}, RetryOrFail \/ Fail
    PROVE  StreamInv'
<1>1. CASE Retry /\ ~started /\ attempt < MaxRetries
    BY <1>1 DEF StreamInv, TypeOK, StepOK, EndsOnce, NoReplay, UsageOncePerStep, Retry,
                streamVars, turnVars, PCs, Asking
<1>2. CASE Fail
    BY <1>2 DEF StreamInv, TypeOK, StepOK, EndsOnce, NoReplay, UsageOncePerStep, Fail,
                streamVars, turnVars, PCs, Asking
<1> QED
    BY <1>1, <1>2 DEF RetryOrFail

\* The request and the lines of its answer.
LEMMA RequestStream ==
    ASSUME StreamInv,
           Answered \/ BackoffDone \/ Chunk \/ ToolDelta \/ UsageLine \/ StreamEnds
    PROVE  StreamInv'
<1> USE DEF StreamInv, TypeOK, StepOK, EndsOnce, NoReplay, UsageOncePerStep, streamVars,
            turnVars, PCs, Asking
<1>1. CASE Answered
    BY <1>1 DEF Answered
<1>2. CASE BackoffDone
  <2>1. TypeOK'
    <3>1. started' \in BOOLEAN /\ stepUsage' \in BOOLEAN
        BY <1>2 DEF BackoffDone, FreshAttempt
    <3>2. attempt' \in 0 .. MaxRetries
        BY <1>2, MaxRetriesAssumption DEF BackoffDone
    <3> QED
        BY <1>2, <3>1, <3>2 DEF BackoffDone, FreshAttempt
  <2>2. StepOK'
      BY <1>2 DEF BackoffDone, FreshAttempt
  <2> QED
      BY <1>2, <2>1, <2>2 DEF BackoffDone, FreshAttempt
<1>3. CASE Chunk
    BY <1>3 DEF Chunk, ReadLine
<1>4. CASE ToolDelta
    BY <1>4 DEF ToolDelta, ReadLine, Indices
<1>5. CASE UsageLine
    BY <1>5 DEF UsageLine, ReadLine
<1>6. CASE StreamEnds
    BY <1>6 DEF StreamEnds
<1> QED
    BY <1>1, <1>2, <1>3, <1>4, <1>5, <1>6

\* What a turn adds to the conversation is made of messages.
LEMMA TurnMessages ==
    ASSUME TypeOK, TakeTurn
    PROVE  /\ next' \in Seq(Calls) /\ next' # <<>>
           /\ conversation' = Append(conversation, Assistant(next'))
           /\ conversation' \in Seq(Messages)
<1>1. PICK n \in 1 .. MaxCalls : \E cs \in [1 .. n -> Calls] :
          conversation' = Append(conversation, Assistant(cs)) /\ next' = cs
    BY DEF TakeTurn
<1>2. next' \in Seq(Calls) /\ Len(next') = n
    BY <1>1, MaxCallsAssumption
<1>3. Assistant(next') \in Messages
    BY <1>2 DEF Assistant, Messages
<1> QED
    BY <1>1, <1>2, <1>3 DEF TypeOK

LEMMA ResultMessage ==
    ASSUME TypeOK, next # <<>>
    PROVE  /\ Head(next) \in Calls /\ Head(next).id \in CallIds /\ Head(next).done \in BOOLEAN
           /\ ToolResult(Head(next)) \in Messages
           /\ Tail(next) \in Seq(Calls)
<1>1. Head(next) \in Calls /\ Tail(next) \in Seq(Calls)
    BY DEF TypeOK
<1> QED
    BY <1>1 DEF Calls, ToolResult, Messages

\* The turn and its tools.
LEMMA ToolsStream ==
    ASSUME StreamInv,
           \/ TakeTurn \/ FinalAnswer \/ Garbled \/ Unsortable
           \/ StartCall \/ FinishCall \/ EndRun \/ NextStep
    PROVE  StreamInv'
<1> USE DEF StreamInv, StepOK, EndsOnce, NoReplay, UsageOncePerStep, streamVars, turnVars,
            Asking
<1>1. CASE TakeTurn
  <2>1. next' \in Seq(Calls) /\ conversation' \in Seq(Messages)
      BY <1>1, TurnMessages
  <2>2. TypeOK'
    <3>1. completed' \in BOOLEAN
        BY <1>1 DEF TakeTurn
    <3>2. usage' \in Nat
        BY <1>1 DEF TakeTurn, CountUsage, TypeOK
    <3> QED
        BY <1>1, <2>1, <3>1, <3>2 DEF TakeTurn, TypeOK, PCs
  <2> QED
      BY <1>1, <2>2 DEF TakeTurn, CountUsage, TypeOK
<1>2. CASE FinalAnswer
    BY <1>2 DEF FinalAnswer, CountUsage, TypeOK, PCs
<1>3. CASE Garbled
    BY <1>3 DEF Garbled, TypeOK, PCs
<1>4. CASE StartCall
  <2>1. Head(next).done \in BOOLEAN
      BY <1>4, ResultMessage DEF StartCall
  <2> QED
      BY <1>4, <2>1 DEF StartCall, TypeOK, PCs
<1>5. CASE FinishCall
  <2>1. ToolResult(Head(next)) \in Messages /\ Tail(next) \in Seq(Calls)
      BY <1>5, ResultMessage DEF FinishCall
  <2>2. TypeOK'
      BY <1>5, <2>1 DEF FinishCall, TypeOK, PCs
  <2> QED
      BY <1>5, <2>2 DEF FinishCall
<1>6. CASE EndRun
    BY <1>6 DEF EndRun, TypeOK, PCs
<1>7. CASE NextStep
  <2>1. TypeOK'
    <3>1. started' \in BOOLEAN /\ stepUsage' \in BOOLEAN
        BY <1>7 DEF NextStep, FreshAttempt
    <3>2. attempt' \in 0 .. MaxRetries /\ step' \in 1 .. MaxSteps
        BY <1>7, MaxStepsAssumption, MaxRetriesAssumption DEF NextStep, TypeOK
    <3> QED
        BY <1>7, <3>1, <3>2 DEF NextStep, FreshAttempt, TypeOK, PCs
  <2>2. StepOK'
      BY <1>7 DEF NextStep, FreshAttempt
  <2> QED
      BY <1>7, <2>1, <2>2 DEF NextStep, FreshAttempt, TypeOK
<1>8. CASE Unsortable
    BY <1>8 DEF Unsortable, CountUsage, TypeOK, PCs
<1> QED
    BY <1>1, <1>2, <1>3, <1>4, <1>5, <1>6, <1>7, <1>8

LEMMA StreamStep == StreamInv /\ [Next]_vars => StreamInv'
<1> SUFFICES ASSUME StreamInv, [Next]_vars PROVE StreamInv'
    OBVIOUS
<1>1. CASE RateLimited \/ Rejected \/ StreamBreaks \/ StreamFails
    BY <1>1, FailureStream DEF RateLimited, Rejected, StreamBreaks, StreamFails
<1>2. CASE Leave
    BY <1>2 DEF Leave, StreamInv, TypeOK, StepOK, EndsOnce, NoReplay, UsageOncePerStep,
                streamVars, turnVars, PCs, Asking, Ended
<1>3. CASE UNCHANGED vars
    BY <1>3 DEF vars, StreamInv, TypeOK, StepOK, EndsOnce, NoReplay, UsageOncePerStep
<1> QED
    BY <1>1, <1>2, <1>3, RequestStream, ToolsStream DEF Next, Work

-----------------------------------------------------------------------------
(* Turns and their answers.                                                *)

\* Most steps leave the conversation alone, and none that does so ends the run
\* or asks again while calls are unanswered.
LEMMA QuietStep ==
    ASSUME StreamInv, [Next]_vars, ~TakeTurn, ~FinishCall
    PROVE  /\ conversation' = conversation /\ next' = next
           /\ next # <<>> => pc' \in Paying \/ pc' = pc
           /\ \/ step' = step /\ (pc' \in Asking => pc \in Asking)
              \/ step' = step + 1
<1> USE DEF StreamInv, StepOK, streamVars, turnVars, Asking, Paying
<1>1. CASE RateLimited \/ Rejected \/ StreamBreaks \/ StreamFails
    BY <1>1 DEF RateLimited, Rejected, StreamBreaks, StreamFails, RetryOrFail, Retry, Fail
<1>2. CASE Answered \/ BackoffDone \/ StreamEnds
    BY <1>2 DEF Answered, BackoffDone, StreamEnds
<1>3. CASE Chunk \/ ToolDelta \/ UsageLine
    BY <1>3 DEF Chunk, ToolDelta, UsageLine, ReadLine
<1>4. CASE FinalAnswer \/ Garbled \/ Unsortable \/ StartCall \/ EndRun \/ NextStep \/ Leave
    BY <1>4 DEF FinalAnswer, Garbled, Unsortable, StartCall, EndRun, NextStep, Leave
<1>5. CASE UNCHANGED vars
    BY <1>5 DEF vars
<1> QED
    BY <1>1, <1>2, <1>3, <1>4, <1>5 DEF Next, Work

LEMMA TurnCalls ==
    ASSUME TypeOK, NEW k \in DOMAIN conversation, IsTurn(k)
    PROVE  conversation[k].calls \in Seq(Calls)
<1>1. conversation[k] \in Messages
    BY DEF TypeOK
<1> QED
    BY <1>1 DEF IsTurn, Messages

\* The conversation before a message is what it was, and so are its turns.
LEMMA AppendedMessage ==
    ASSUME TypeOK, NEW m \in Messages, conversation' = Append(conversation, m)
    PROVE  /\ Len(conversation) \in Nat
           /\ DOMAIN conversation = 1 .. Len(conversation)
           /\ DOMAIN conversation' = 1 .. Len(conversation) + 1
           /\ Len(conversation') = Len(conversation) + 1
           /\ \A i \in DOMAIN conversation : conversation'[i] = conversation[i]
           /\ conversation'[Len(conversation) + 1] = m
BY DEF TypeOK

LEMMA OwedStep == ASSUME StreamInv, OwedOK, [Next]_vars PROVE OwedOK'
<1>1. CASE TakeTurn
  <2>1. /\ next' \in Seq(Calls)
        /\ conversation' = Append(conversation, Assistant(next'))
      BY <1>1, TurnMessages DEF StreamInv
  <2>2. Assistant(next') \in Messages /\ Assistant(next').role = "assistant"
        /\ Assistant(next').calls = next'
      BY <2>1 DEF Assistant, Messages
  <2>. PICK k \in Nat : k = Len(conversation) + 1
      BY DEF StreamInv, TypeOK
  <2>3. /\ k \in DOMAIN conversation' /\ conversation'[k] = Assistant(next')
        /\ Len(conversation') = k
      BY <2>1, <2>2, AppendedMessage DEF StreamInv
  <2>4. IsTurn(k)' /\ conversation'[k].calls = next'
      BY <2>2, <2>3 DEF IsTurn
  <2>5. k + Len(conversation'[k].calls) = Len(conversation') + Len(next')
      BY <2>3, <2>4
  <2> QED
      BY <2>3, <2>4, <2>5 DEF OwedOK
<1>2. CASE FinishCall
  <2>1. /\ next # <<>> /\ next' = Tail(next)
        /\ conversation' = Append(conversation, ToolResult(Head(next)))
      BY <1>2 DEF FinishCall, StreamInv, StepOK
  <2>2. ToolResult(Head(next)) \in Messages
      BY <2>1, ResultMessage DEF StreamInv
  <2>3. PICK k \in DOMAIN conversation :
            IsTurn(k) /\ k + Len(conversation[k].calls) = Len(conversation) + Len(next)
      BY <2>1 DEF OwedOK
  <2>4. k \in DOMAIN conversation' /\ IsTurn(k)' /\ conversation'[k] = conversation[k]
        /\ Len(conversation') = Len(conversation) + 1
      BY <2>1, <2>2, <2>3, AppendedMessage DEF StreamInv, IsTurn
  <2>5. Len(next') = Len(next) - 1 /\ Len(next) \in Nat
      BY <2>1 DEF StreamInv, TypeOK
  <2>6. Len(conversation) \in Nat
      BY DEF StreamInv, TypeOK
  <2> QED
      BY <2>3, <2>4, <2>5, <2>6 DEF OwedOK
<1>3. CASE ~TakeTurn /\ ~FinishCall
    BY <1>3, QuietStep DEF OwedOK, IsTurn
<1> QED
    BY <1>1, <1>2, <1>3

\* What the two halves say together.
LEMMA Halves == AnsweredInOrder <=> CallsOK /\ ResultsOK
BY DEF AnsweredInOrder, CallsOK, CallOK, ResultsOK, ResultOK, Paying

LEMMA CallsStep == ASSUME StreamInv, CallsOK, [Next]_vars PROVE CallsOK'
<1>1. CASE TakeTurn
  <2>1. /\ next' \in Seq(Calls)
        /\ conversation' = Append(conversation, Assistant(next'))
        /\ pc = "settled" /\ pc' = "calling"
      BY <1>1, TurnMessages DEF StreamInv, TakeTurn
  <2>2. Assistant(next') \in Messages /\ Assistant(next').calls = next'
      BY <2>1 DEF Assistant, Messages
  <2>3. SUFFICES ASSUME NEW k \in DOMAIN conversation', IsTurn(k)',
                        NEW j \in DOMAIN conversation'[k].calls
                 PROVE  CallOK(k, j)'
      BY DEF CallsOK
  <2>4. CASE k \in DOMAIN conversation
    <3>1. IsTurn(k) /\ conversation'[k] = conversation[k]
        BY <2>1, <2>2, <2>4, AppendedMessage, <2>3 DEF StreamInv, IsTurn
    <3>2. conversation[k].calls \in Seq(Calls)
        BY <2>4, <3>1, TurnCalls DEF StreamInv
    <3>3. CallOK(k, j)
        BY <2>4, <3>1, <2>3 DEF CallsOK
    <3>4. k + j <= Len(conversation) /\ conversation[k + j] = ToolResult(conversation[k].calls[j])
        BY <3>3, <2>1 DEF CallOK, Paying
    <3>5. k + j \in DOMAIN conversation
        BY <3>4, <3>2, <3>1, <2>4, <2>3 DEF StreamInv, TypeOK
    <3> QED
        BY <3>1, <3>4, <3>5, <2>1, <2>2, AppendedMessage DEF CallOK, ToolResult, StreamInv
  <2>5. CASE k = Len(conversation) + 1
    <3>1. conversation'[k].calls = next' /\ Len(conversation') = k /\ k \in Nat
        BY <2>1, <2>2, <2>5, AppendedMessage DEF StreamInv
    <3>2. j \in DOMAIN next' /\ j \in Nat \ {0}
        BY <3>1, <2>1, <2>3
    <3> QED
        BY <3>1, <3>2, <2>1 DEF CallOK, Paying
  <2> QED
      BY <2>1, <2>2, <2>4, <2>5, <2>3, AppendedMessage DEF StreamInv
<1>2. CASE FinishCall
  <2>1. /\ next # <<>> /\ next' = Tail(next)
        /\ conversation' = Append(conversation, ToolResult(Head(next)))
        /\ pc' = "calling"
      BY <1>2 DEF FinishCall, StreamInv, StepOK
  <2>2. ToolResult(Head(next)) \in Messages /\ ToolResult(Head(next)).role # "assistant"
      BY <2>1, ResultMessage DEF StreamInv, ToolResult
  <2>3. SUFFICES ASSUME NEW k \in DOMAIN conversation', IsTurn(k)',
                        NEW j \in DOMAIN conversation'[k].calls
                 PROVE  CallOK(k, j)'
      BY DEF CallsOK
  <2>4. k \in DOMAIN conversation /\ IsTurn(k) /\ conversation'[k] = conversation[k]
    <3>1. k \in DOMAIN conversation
        BY <2>1, <2>2, <2>3, AppendedMessage DEF StreamInv, IsTurn
    <3> QED
        BY <3>1, <2>1, <2>2, <2>3, AppendedMessage DEF StreamInv, IsTurn
  <2>5. conversation[k].calls \in Seq(Calls)
      BY <2>4, TurnCalls DEF StreamInv
  <2>6. k \in Nat /\ j \in Nat \ {0} /\ Len(conversation) \in Nat /\ Len(next) \in Nat
      BY <2>3, <2>4, <2>5 DEF StreamInv, TypeOK
  <2>7. CallOK(k, j)
      BY <2>3, <2>4 DEF CallsOK
  <2>8. CASE k + j <= Len(conversation)
    <3>1. k + j \in DOMAIN conversation
        BY <2>6, <2>8, <2>4 DEF StreamInv, TypeOK
    <3> QED
        BY <3>1, <2>1, <2>2, <2>4, <2>6, <2>7, <2>8, AppendedMessage DEF CallOK, ToolResult, StreamInv
  <2>9. CASE k + j = Len(conversation) + 1
    <3>1. conversation[k].calls[j] = next[1]
        BY <2>6, <2>7, <2>9 DEF CallOK
    <3>2. Head(next) = next[1]
        BY <2>1 DEF StreamInv, TypeOK
    <3> QED
        BY <3>1, <3>2, <2>1, <2>2, <2>4, <2>6, <2>9, AppendedMessage DEF CallOK, ToolResult, StreamInv
  <2>10. CASE k + j > Len(conversation) + 1
    <3> DEFINE i == k + j - Len(conversation)
    <3>1. i \in DOMAIN next /\ conversation[k].calls[j] = next[i] /\ i > 1 /\ i \in Nat
        BY <2>6, <2>7, <2>10 DEF CallOK
    <3>2. i - 1 \in DOMAIN next' /\ next'[i - 1] = next[i]
        BY <3>1, <2>1 DEF StreamInv, TypeOK
    <3>3. Len(conversation') = Len(conversation) + 1
        BY <2>1, <2>2, AppendedMessage DEF StreamInv
    <3>4. k + j - Len(conversation') = i - 1 /\ ~(k + j <= Len(conversation'))
        BY <3>3, <2>6, <2>10
    <3> QED
        BY <3>1, <3>2, <3>4, <2>1, <2>4 DEF CallOK, Paying
  <2> QED
      BY <2>6, <2>8, <2>9, <2>10
<1>3. CASE ~TakeTurn /\ ~FinishCall
  <2>1. /\ conversation' = conversation /\ next' = next
        /\ next # <<>> => pc' \in Paying \/ pc' = pc
      BY <1>3, QuietStep
  <2>2. SUFFICES ASSUME NEW k \in DOMAIN conversation, IsTurn(k),
                        NEW j \in DOMAIN conversation[k].calls
                 PROVE  CallOK(k, j)'
      BY <2>1 DEF CallsOK, IsTurn
  <2>3. CallOK(k, j)
      BY <2>2 DEF CallsOK
  <2> QED
      BY <2>1, <2>3 DEF CallOK, ToolResult
<1> QED
    BY <1>1, <1>2, <1>3

LEMMA ResultsStep ==
    ASSUME StreamInv, OwedOK, ResultsOK, [Next]_vars PROVE ResultsOK'
<1>1. ASSUME NEW m \in Messages, conversation' = Append(conversation, m),
             m.role # "assistant" => ResultOK(Len(conversation) + 1)
      PROVE  ResultsOK'
  <2> SUFFICES ASSUME NEW i \in DOMAIN conversation', ~IsTurn(i)'
               PROVE  ResultOK(i)'
      BY DEF ResultsOK
  <2>1. ResultOK(i)
    <3>1. CASE i \in DOMAIN conversation
        BY <1>1, <3>1, AppendedMessage DEF StreamInv, ResultsOK, IsTurn
    <3>2. CASE i = Len(conversation) + 1
        BY <1>1, <3>2, AppendedMessage DEF StreamInv, IsTurn
    <3> QED
        BY <1>1, <3>1, <3>2, AppendedMessage DEF StreamInv
  <2>2. PICK k \in 1 .. i - 1 : IsTurn(k) /\ i - k <= Len(conversation[k].calls)
      BY <2>1 DEF ResultOK
  <2>3. k \in DOMAIN conversation
      BY <1>1, <2>2, AppendedMessage DEF StreamInv
  <2> QED
      BY <1>1, <2>2, <2>3, AppendedMessage DEF StreamInv, ResultOK, IsTurn
<1>2. CASE TakeTurn
  <2>1. /\ next' \in Seq(Calls)
        /\ conversation' = Append(conversation, Assistant(next'))
      BY <1>2, TurnMessages DEF StreamInv
  <2>2. Assistant(next') \in Messages /\ Assistant(next').role = "assistant"
      BY <2>1 DEF Assistant, Messages
  <2> QED
      BY <1>1, <2>1, <2>2
<1>3. CASE FinishCall
  <2>1. /\ next # <<>> /\ conversation' = Append(conversation, ToolResult(Head(next)))
      BY <1>3 DEF FinishCall, StreamInv, StepOK
  <2>2. ToolResult(Head(next)) \in Messages
      BY <2>1, ResultMessage DEF StreamInv
  <2>3. PICK k \in DOMAIN conversation :
            IsTurn(k) /\ k + Len(conversation[k].calls) = Len(conversation) + Len(next)
      BY <2>1 DEF OwedOK
  <2>4. Len(next) \in Nat \ {0} /\ Len(conversation) \in Nat /\ k \in 1 .. Len(conversation)
        /\ conversation[k].calls \in Seq(Calls)
      BY <2>1, <2>3, TurnCalls DEF StreamInv, TypeOK
  <2>5. ResultOK(Len(conversation) + 1)
      BY <2>3, <2>4 DEF ResultOK
  <2> QED
      BY <1>1, <2>1, <2>2, <2>5
<1>4. CASE ~TakeTurn /\ ~FinishCall
    BY <1>4, QuietStep DEF ResultsOK, ResultOK, IsTurn
<1> QED
    BY <1>2, <1>3, <1>4

-----------------------------------------------------------------------------
(* Turns are counted by steps.                                             *)

LEMMA TurnSetFinite == TypeOK => IsFiniteSet(TurnSet) /\ Cardinality(TurnSet) \in Nat
<1> SUFFICES ASSUME TypeOK PROVE IsFiniteSet(TurnSet) /\ Cardinality(TurnSet) \in Nat
    OBVIOUS
<1>1. TurnSet \subseteq 1 .. Len(conversation) /\ Len(conversation) \in Nat
    BY DEF TurnSet, TypeOK
<1>2. IsFiniteSet(1 .. Len(conversation))
    BY <1>1, FS_Interval
<1> QED
    BY <1>1, <1>2, FS_Subset, FS_CardinalityType

\* A turn adds itself to the set of turns, and a result adds nothing.
LEMMA TurnSetStep ==
    ASSUME TypeOK, NEW m \in Messages, conversation' = Append(conversation, m)
    PROVE  Cardinality(TurnSet') = Cardinality(TurnSet) + (IF m.role = "assistant" THEN 1 ELSE 0)
<1>1. CASE m.role = "assistant"
  <2>1. TurnSet' = TurnSet \cup {Len(conversation) + 1}
      BY <1>1, AppendedMessage DEF TurnSet, IsTurn
  <2>2. Len(conversation) + 1 \notin TurnSet
      BY DEF TurnSet, TypeOK
  <2> QED
      BY <1>1, <2>1, <2>2, TurnSetFinite, FS_AddElement
<1>2. CASE m.role # "assistant"
  <2>1. TurnSet' = TurnSet
      BY <1>2, AppendedMessage DEF TurnSet, IsTurn
  <2> QED
      BY <1>2, <2>1, TurnSetFinite
<1> QED
    BY <1>1, <1>2

LEMMA TurnsStep == ASSUME StreamInv, TurnsOK, [Next]_vars PROVE TurnsOK'
<1>1. step \in Nat /\ Cardinality(TurnSet) \in Nat
    BY TurnSetFinite, MaxStepsAssumption DEF StreamInv, TypeOK
<1>2. CASE TakeTurn
  <2>1. /\ next' \in Seq(Calls)
        /\ conversation' = Append(conversation, Assistant(next'))
      BY <1>2, TurnMessages DEF StreamInv
  <2>2. Assistant(next') \in Messages /\ Assistant(next').role = "assistant"
      BY <2>1 DEF Assistant, Messages
  <2>3. Cardinality(TurnSet') = Cardinality(TurnSet) + 1
      BY <2>1, <2>2, TurnSetStep DEF StreamInv
  <2> QED
      BY <1>1, <1>2, <2>3 DEF TurnsOK, TakeTurn, Asking
<1>3. CASE FinishCall
  <2>1. /\ next # <<>> /\ conversation' = Append(conversation, ToolResult(Head(next)))
      BY <1>3 DEF FinishCall, StreamInv, StepOK
  <2>2. ToolResult(Head(next)) \in Messages /\ ToolResult(Head(next)).role # "assistant"
      BY <2>1, ResultMessage DEF StreamInv, ToolResult
  <2>3. Cardinality(TurnSet') = Cardinality(TurnSet)
      BY <1>1, <2>1, <2>2, TurnSetStep DEF StreamInv
  <2> QED
      BY <1>1, <1>3, <2>3 DEF TurnsOK, FinishCall, Asking
<1>4. CASE ~TakeTurn /\ ~FinishCall
  <2>1. TurnSet' = TurnSet
      BY <1>4, QuietStep DEF TurnSet, IsTurn
  <2> QED
      BY <1>1, <1>4, <2>1, QuietStep DEF TurnsOK
<1> QED
    BY <1>2, <1>3, <1>4

-----------------------------------------------------------------------------
(* The theorems.                                                           *)

\* The inductive invariant: everything below follows from it.
THEOREM AgentInvariant == Spec => []IInv
<1>1. Init => IInv
  <2>1. Init => OwedOK /\ CallsOK /\ ResultsOK
      BY DEF Init, OwedOK, CallsOK, ResultsOK
  <2>2. Init => TurnsOK
    <3>1. Init => TurnSet = {}
        BY DEF Init, TurnSet
    <3> QED
        BY <3>1, FS_EmptySet DEF Init, TurnsOK, Asking
  <2> QED
      BY <2>1, <2>2, InitStream DEF IInv, TurnInv
<1>2. IInv /\ [Next]_vars => IInv'
    BY StreamStep, OwedStep, CallsStep, ResultsStep, TurnsStep DEF IInv, TurnInv
<1> QED
    BY <1>1, <1>2, PTL DEF Spec

\* Every variable keeps its type, the attempt counter its limit included.
THEOREM AgentTypes == Spec => []TypeOK
<1>1. IInv => TypeOK
    BY DEF IInv, StreamInv
<1> QED
    BY <1>1, AgentInvariant, PTL

\* A run that is over has told its client so once, and no other has.
THEOREM AgentEndsOnce == Spec => []EndsOnce
<1>1. IInv => EndsOnce
    BY DEF IInv, StreamInv
<1> QED
    BY <1>1, AgentInvariant, PTL

\* No text is relayed twice, whatever fails and is retried.
THEOREM AgentNoReplay == Spec => []NoReplay
<1>1. IInv => NoReplay
    BY DEF IInv, StreamInv
<1> QED
    BY <1>1, AgentInvariant, PTL

\* Usage is counted at most once a step.
THEOREM AgentUsageOncePerStep == Spec => []UsageOncePerStep
<1>1. IInv => UsageOncePerStep
    BY DEF IInv, StreamInv
<1> QED
    BY <1>1, AgentInvariant, PTL

\* Calls and results pair up, in order, in every conversation that is sent to
\* the provider.
THEOREM AgentAnsweredInOrder == Spec => []AnsweredInOrder
<1>1. IInv => AnsweredInOrder
    BY Halves DEF IInv, TurnInv
<1> QED
    BY <1>1, AgentInvariant, PTL

\* Every step of the loop is a step of AgentTurns or none.
LEMMA TurnsRefined == IInv /\ [Next]_vars => [Turns!Next]_(Turns!vars)
<1> SUFFICES ASSUME IInv, [Next]_vars PROVE [Turns!Next]_(Turns!vars)
    OBVIOUS
<1> USE DEF IInv, StreamInv, StepOK, Asking
<1> DEFINE Phase == CASE pc = "over" -> "closed"
                      [] pc \in {"crashed", "left"} -> "cut"
                      [] OTHER -> "open"
           Turn == Cardinality(TurnSet)
<1>1. CASE TakeTurn
  <2>1. Phase = "open" /\ Phase' = "open" /\ next = <<>>
      BY <1>1 DEF TakeTurn
  <2>2. /\ next' \in Seq(Calls) /\ next' # <<>>
        /\ conversation' = Append(conversation, Assistant(next'))
      BY <1>1, TurnMessages
  <2>3. Assistant(next') \in Messages /\ Assistant(next').role = "assistant"
      BY <2>2 DEF Assistant, Messages
  <2>4. Turn' = Turn + 1
      BY <2>2, <2>3, TurnSetStep
  <2>5. Turn < MaxSteps
      BY <1>1, TurnSetFinite, MaxStepsAssumption DEF TurnInv, TurnsOK, TakeTurn, TypeOK
  <2> QED
      BY <2>1, <2>2, <2>4, <2>5 DEF TurnSet, Turns!Next, Turns!Reply
<1>2. CASE FinishCall
  <2>1. Phase = "open" /\ Phase' = "open" /\ next # <<>> /\ next' = Tail(next)
        /\ conversation' = Append(conversation, ToolResult(Head(next)))
      BY <1>2 DEF FinishCall
  <2>2. ToolResult(Head(next)) \in Messages /\ ToolResult(Head(next)).role # "assistant"
      BY <2>1, ResultMessage DEF ToolResult
  <2>3. Turn' = Turn
      BY <2>1, <2>2, TurnSetStep, TurnSetFinite
  <2> QED
      BY <2>1, <2>3 DEF TurnSet, Turns!Next, Turns!Pay
<1>3. CASE ~TakeTurn /\ ~FinishCall
  <2>1. conversation' = conversation /\ next' = next
      BY <1>3, QuietStep
  <2>2. Turn' = Turn
      BY <2>1 DEF TurnSet, IsTurn
  <2>3. CASE pc' = "over" /\ pc # "over"
    <3>1. next = <<>> /\ Phase = "open"
        BY <1>3, <2>3 DEF Next, Work, Answered, RateLimited, Rejected, BackoffDone, Chunk,
             ToolDelta, UsageLine, ReadLine, StreamBreaks, StreamFails, StreamEnds, FinalAnswer,
             Garbled, Unsortable, StartCall, EndRun, NextStep, Leave, vars, Ended
    <3> QED
        BY <3>1, <2>1, <2>2, <2>3 DEF TurnSet, Turns!Next, Turns!Close
  <2>4. CASE pc' \in {"crashed", "left"} /\ pc' # pc
    <3>1. Phase = "open"
        BY <1>3, <2>4 DEF Next, Work, Answered, RateLimited, Rejected, BackoffDone, Chunk,
             ToolDelta, UsageLine, ReadLine, StreamBreaks, StreamFails, StreamEnds, FinalAnswer,
             Garbled, Unsortable, StartCall, EndRun, NextStep, Leave, RetryOrFail, Retry, Fail, vars, Ended
    <3> QED
        BY <3>1, <2>1, <2>2, <2>4 DEF TurnSet, Turns!Next, Turns!CutShort
  <2>5. CASE pc' \notin Ended \/ pc' = pc
    <3>1. Phase' = Phase
        BY <1>3, <2>5 DEF Next, Work, Answered, RateLimited, Rejected, BackoffDone, Chunk,
             ToolDelta, UsageLine, ReadLine, StreamBreaks, StreamFails, StreamEnds, FinalAnswer,
             Garbled, Unsortable, StartCall, EndRun, NextStep, Leave, RetryOrFail, Retry, Fail, vars, Ended
    <3> QED
        BY <3>1, <2>1, <2>2 DEF TurnSet, Turns!vars
  <2> QED
      BY <2>3, <2>4, <2>5 DEF Ended
<1> QED
    BY <1>1, <1>2, <1>3

\* The safety part of ImplementsTurns, for every value of the constants: the
\* loop with its retries and streams is a sequence of turns that are paid in
\* full before anything else happens.
THEOREM AgentRefinesTurns == Spec => Turns!SafeSpec
<1>1. Init => Turns!Init
  <2>1. Init => {k \in DOMAIN conversation : IsTurn(k)} = {}
      BY DEF Init
  <2> QED
      BY <2>1, FS_EmptySet DEF Init, Turns!Init
<1>2. IInv /\ [Next]_vars => [Turns!Next]_(Turns!vars)
    BY TurnsRefined
<1> QED
    BY <1>1, <1>2, AgentInvariant, PTL DEF Spec, Turns!SafeSpec
=============================================================================
