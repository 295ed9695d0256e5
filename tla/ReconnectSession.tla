-------------------------- MODULE ReconnectSession --------------------------
(***************************************************************************)
(* How a phone keeps a stream from the backend: PreviewSession of          *)
(* lib/services/preview_session.dart.  SystemMonitorSession has the same   *)
(* code but for the address and the frames.                                *)
(*                                                                         *)
(* One isolate: a method runs until it awaits.  start, stop and the timer  *)
(* may come while an earlier _connect or stop still waits for a channel to *)
(* close.  Every _connect and stop takes the next generation, which names  *)
(* it here, and the channel a _connect opens.                              *)
(***************************************************************************)
EXTENDS Naturals, FiniteSets

CONSTANT MaxGeneration  \* bound: calls of _connect and stop

ASSUME BoundAssumption == MaxGeneration \in Nat

VARIABLES
    shouldRun, generation, authFailed,
    attempts,  \* _reconnectAttempts
    failures,  \* channels lost since start, stop or the last frame
    timers,    \* reconnect timers that will fire
    channel,   \* _channel, by generation; 0 is null
    chan,      \* the life of each channel
    call,      \* the _connect or stop of each generation
    old,       \* the channel it waits for to close
    state,     \* what onStateChange last reported
    heard,     \* has the current channel delivered a frame
    late       \* has a stop reported the end after the next start

session  == <<shouldRun, generation, authFailed>>
backoff  == <<attempts, failures, timers>>
channels == <<channel, chan, call, old>>
marks    == <<heard, late>>
sessionVars == <<session, backoff, channels, state, marks>>

Generations == 1 .. MaxGeneration
LiveChan == {"connecting", "open"}

SessionTypeOK ==
    /\ shouldRun \in BOOLEAN /\ authFailed \in BOOLEAN
    /\ heard \in BOOLEAN /\ late \in BOOLEAN
    /\ generation \in 0 .. MaxGeneration
    /\ attempts \in Nat /\ failures \in Nat
    /\ timers \in 0 .. 1
    /\ channel \in 0 .. MaxGeneration
    /\ chan \in [Generations -> LiveChan \cup {"none", "failed", "erred", "closing", "dead"}]
    /\ call \in [Generations -> {"none", "connect", "ready", "stop", "returned"}]
    /\ old \in [Generations -> 0 .. MaxGeneration]
    /\ state \in {"disconnected", "connecting", "connected"}

SessionInit ==
    /\ shouldRun = FALSE /\ authFailed = FALSE
    /\ heard = FALSE /\ late = FALSE
    /\ generation = 0 /\ attempts = 0 /\ failures = 0 /\ timers = 0 /\ channel = 0
    /\ chan = [g \in Generations |-> "none"]
    /\ call = [g \in Generations |-> "none"]
    /\ old = [g \in Generations |-> 0]
    /\ state = "disconnected"

\* The check every callback begins with.
Stale(g) == ~shouldRun \/ g # generation

-----------------------------------------------------------------------------
(* Methods, each up to its first await.                                    *)

\* _reconnectTimer?.cancel(): the field holds the last timer only.
Cancelled(n) == IF n = 0 THEN 0 ELSE n - 1

\* ++_generation, and _closeChannel up to the wait for the old channel.
Supersede(kind) ==
    /\ generation < MaxGeneration
    /\ generation' = generation + 1
    /\ call' = [call EXCEPT ![generation + 1] = kind]
    /\ old' = [old EXCEPT ![generation + 1] = channel]
    /\ channel' = 0
    /\ chan' = [g \in Generations |->
                  IF g = channel /\ chan[g] \in LiveChan THEN "closing" ELSE chan[g]]
    /\ heard' = FALSE

Start ==
    /\ ~shouldRun
    /\ shouldRun' = TRUE /\ authFailed' = FALSE /\ attempts' = 0 /\ failures' = 0
    /\ timers' = Cancelled(timers)
    /\ Supersede("connect")
    /\ late' = FALSE
    /\ UNCHANGED state

\* The timer calls _connect, which returns at once after stop.
TimerFires ==
    /\ timers > 0
    /\ IF shouldRun
       THEN timers' = Cancelled(timers - 1) /\ Supersede("connect")
       ELSE /\ timers' = timers - 1
            /\ UNCHANGED <<generation, channels, heard>>
    /\ UNCHANGED <<shouldRun, authFailed, attempts, failures, state, late>>

\* stop, and dispose, which does not wait for it.
Stop ==
    /\ shouldRun' = FALSE /\ attempts' = 0 /\ failures' = 0
    /\ timers' = Cancelled(timers)
    /\ Supersede("stop")
    /\ UNCHANGED <<authFailed, state, late>>

\* Variant: one timer for every report of a failure.
ScheduleAlways ==
    IF ~shouldRun \/ authFailed
    THEN UNCHANGED <<attempts, timers>>
    ELSE /\ attempts' = attempts + 1
         /\ timers' = timers + 1

\* _scheduleReconnect.
Schedule ==
    IF ~shouldRun \/ authFailed \/ timers > 0
    THEN UNCHANGED <<attempts, timers>>
    ELSE /\ attempts' = attempts + 1
         /\ timers' = timers + 1

\* The session is shown as disconnected; one more channel was lost.
Lost(g) ==
    /\ state' = "disconnected"
    /\ failures' = IF chan[g] \in LiveChan THEN failures + 1 ELSE failures

-----------------------------------------------------------------------------
(* What follows an await.                                                  *)

OldIsGone(g) == old[g] # 0 => chan[old[g]] \notin LiveChan \cup {"closing"}

\* Variant: no second look at the generation after the wait.
OpenUnchecked(g) ==
    /\ call[g] = "connect" /\ OldIsGone(g)
    /\ state' = "connecting"
    /\ channel' = g
    /\ chan' = [chan EXCEPT ![g] = "connecting"]
    /\ call' = [call EXCEPT ![g] = "ready"]
    /\ UNCHANGED <<session, backoff, old, marks>>

\* _connect opens the channel, listens and awaits its readiness.
Open(g) ==
    /\ call[g] = "connect" /\ OldIsGone(g) /\ ~Stale(g)
    /\ state' = "connecting"
    /\ channel' = g
    /\ chan' = [chan EXCEPT ![g] = "connecting"]
    /\ call' = [call EXCEPT ![g] = "ready"]
    /\ UNCHANGED <<session, backoff, old, marks>>

\* _connect was superseded while it waited.
GiveUp(g) ==
    /\ call[g] = "connect" /\ OldIsGone(g) /\ Stale(g)
    /\ call' = [call EXCEPT ![g] = "returned"]
    /\ UNCHANGED <<session, backoff, channel, chan, old, state, marks>>

\* stop reports the end, whatever has been started meanwhile.
Stopped(g) ==
    /\ call[g] = "stop" /\ OldIsGone(g)
    /\ call' = [call EXCEPT ![g] = "returned"]
    /\ state' = "disconnected"
    /\ late' = (late \/ shouldRun)
    /\ UNCHANGED <<session, backoff, channel, chan, old, heard>>

Ready(g) ==
    /\ chan[g] = "connecting"
    /\ chan' = [chan EXCEPT ![g] = "open"]
    /\ call' = [call EXCEPT ![g] = "returned"]
    /\ UNCHANGED <<session, backoff, channel, old, state, marks>>

\* `ready' throws: _connect's catch.  A refused token is one of the reasons, as
\* the backend closes before it accepts (auth.py): the client gets an HTTP error
\* and no close code, and tries again.
ConnectFails(g) ==
    /\ chan[g] = "connecting"
    /\ chan' = [chan EXCEPT ![g] = "failed"]
    /\ call' = [call EXCEPT ![g] = "returned"]
    /\ IF Stale(g) THEN UNCHANGED <<backoff, state>>
                   ELSE Lost(g) /\ Schedule
    /\ UNCHANGED <<session, channel, old, marks>>

\* The failed channel's stream delivers the error too: onError.
StreamErrs(g) ==
    /\ chan[g] = "failed"
    /\ chan' = [chan EXCEPT ![g] = "erred"]
    /\ IF Stale(g) THEN UNCHANGED <<attempts, timers>> ELSE Schedule
    /\ UNCHANGED <<session, failures, channel, call, old, state, marks>>

\* Variant: the end of a stream starts no timer.
DoneIsFinal(g) ==
    /\ chan[g] \in {"erred", "open"}
    /\ chan' = [chan EXCEPT ![g] = "dead"]
    /\ IF Stale(g) THEN UNCHANGED <<failures, state>> ELSE Lost(g)
    /\ UNCHANGED <<session, attempts, timers, channel, call, old, marks>>

\* The stream ends without an auth code: onDone.
StreamDone(g) ==
    /\ chan[g] \in {"erred", "open"}
    /\ chan' = [chan EXCEPT ![g] = "dead"]
    /\ IF Stale(g) THEN UNCHANGED <<backoff, state>>
                   ELSE Lost(g) /\ Schedule
    /\ UNCHANGED <<session, channel, call, old, marks>>

\* The stream ends with 4401 or 4403.
AuthClose(g) ==
    /\ chan[g] = "open"
    /\ chan' = [chan EXCEPT ![g] = "dead"]
    /\ IF Stale(g) THEN UNCHANGED <<authFailed, timers, state>>
                   ELSE authFailed' = TRUE /\ state' = "disconnected"
                        /\ timers' = Cancelled(timers)
    /\ UNCHANGED <<shouldRun, generation, attempts, failures, channel, call, old, heard, late>>

Frame(g) ==
    /\ chan[g] = "open" /\ ~Stale(g)
    /\ attempts' = 0 /\ failures' = 0
    /\ state' = "connected"
    /\ heard' = TRUE /\ late' = FALSE
    /\ UNCHANGED <<session, timers, channels>>

\* Variant: the end of a channel that was closed on purpose is reported too.
ClosedReported(g) ==
    /\ chan[g] = "closing"
    /\ chan' = [chan EXCEPT ![g] = "dead"]
    /\ call' = [call EXCEPT ![g] = "returned"]
    /\ state' = "disconnected"
    /\ UNCHANGED <<session, backoff, channel, old, marks>>

\* sink.close() is through; a `ready' that was still awaited ends with it.
Closed(g) ==
    /\ chan[g] = "closing"
    /\ chan' = [chan EXCEPT ![g] = "dead"]
    /\ call' = [call EXCEPT ![g] = "returned"]
    /\ UNCHANGED <<session, backoff, channel, old, state, marks>>

-----------------------------------------------------------------------------

SessionNext ==
    \/ Start \/ Stop \/ TimerFires
    \/ \E g \in Generations :
          \/ Open(g) \/ GiveUp(g) \/ Stopped(g)
          \/ Ready(g) \/ ConnectFails(g) \/ StreamErrs(g) \/ StreamDone(g)
          \/ AuthClose(g) \/ Frame(g) \/ Closed(g)

SessionSpec == SessionInit /\ [][SessionNext]_sessionVars

-----------------------------------------------------------------------------
(* What a session promises.                                                *)

\* Whatever the order of starts, stops, timers and slow closes, no channel is
\* left behind: one that lives is the session's own, of the last _connect, and
\* the session is running (preview_session.dart:60-75, 208-225).
NoOrphanChannel ==
    \A g \in Generations : chan[g] \in LiveChan => shouldRun /\ g = generation /\ g = channel

\* A failure is reported two or three times and starts one timer; a stopped
\* session has none (preview_session.dart:88-104, 179-187, 208-213).
OneTimer == timers <= IF shouldRun THEN 1 ELSE 0

\* The backoff grows with the channels lost, not with the reports of their loss
\* (preview_session.dart:80-81, 179-187).
BackoffCountsFailures == shouldRun /\ ~authFailed => attempts = failures

\* "Auth rejections (4401/4403) stop reconnecting" (preview_session.dart:177):
\* one that arrives as a close code does, until start is called again.
RejectionStops ==
    authFailed /\ shouldRun => timers = 0 /\ call[generation] # "connect"

\* A running session that was not refused always has something ahead of it: a
\* timer, a _connect under way or a channel that lives or has yet to report
\* its failure (preview_session.dart:60-104, 179-206).
NeverStranded ==
    shouldRun /\ ~authFailed =>
        \/ timers > 0
        \/ generation > 0 /\ (\/ call[generation] = "connect"
                              \/ chan[generation] \in LiveChan)

\* However a failure is reported, it is retried once and after its own delay,
\* and a refusal is not.
RetriesPaced == OneTimer /\ BackoffCountsFailures /\ RejectionStops /\ NeverStranded

\* With all its generations, slow closes and repeated reports, a session is the
\* one link of OneLink (preview_session.dart:60-104, 179-225).
Link == CASE ~shouldRun -> "off"
          [] shouldRun /\ authFailed -> "refused"
          [] shouldRun /\ ~authFailed /\ timers > 0 -> "waiting"
          [] OTHER -> IF call[generation] = "connect" THEN "dialing" ELSE chan[generation]
One == INSTANCE OneLink WITH link <- Link, lost <- attempts
ImplementsOneLink == One!Spec

\* Once a frame came on the channel the session is shown as connected, unless
\* a stop that was overtaken by the next start has reported its end since
\* (preview_session.dart:76-87, 208-216).
ShownConnected ==
    heard /\ chan[generation] = "open" => state = "connected" \/ late

\* A session that shows itself stopped for good is: after stop is through and
\* nothing was started, it is shown as disconnected.
\* (preview_session.dart:208-216)
ShownStopped ==
    ~shouldRun /\ (\A g \in Generations : call[g] # "stop") => state = "disconnected"
\* What the user is shown is so.
ShownTruly == ShownConnected /\ ShownStopped
=============================================================================
