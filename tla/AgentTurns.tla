----------------------------- MODULE AgentTurns -----------------------------
(***************************************************************************)
(* What one run of the coding agent promises, without providers, retries   *)
(* or streams.  The model speaks in turns.  A turn may owe tool results;   *)
(* they are paid one by one, in order, and until the last is paid there is *)
(* neither a next turn nor an end.  A run ends, once, and then is silent.  *)
(* It may be cut short anywhere: the client leaves, or the run breaks.      *)
(***************************************************************************)
EXTENDS Naturals, Sequences

CONSTANTS MaxTurns, Calls

VARIABLES phase, turn, owed

vars == <<phase, turn, owed>>

Init == phase = "open" /\ turn = 0 /\ owed = <<>>

\* The model asks for tool calls.
Reply ==
    /\ phase = "open" /\ owed = <<>>
    /\ turn < MaxTurns
    /\ turn' = turn + 1
    /\ owed' \in Seq(Calls) /\ owed' # <<>>
    /\ UNCHANGED phase

\* The oldest call that is owed a result gets it.
Pay ==
    /\ phase = "open" /\ owed # <<>>
    /\ owed' = Tail(owed)
    /\ UNCHANGED <<phase, turn>>

\* The run is over: an answer without calls, an error, the task completed or
\* no turns left.
Close ==
    /\ phase = "open" /\ owed = <<>>
    /\ phase' = "closed"
    /\ UNCHANGED <<turn, owed>>

\* The client leaves, or an error nothing catches ends the stream.
CutShort ==
    /\ phase = "open"
    /\ phase' = "cut"
    /\ UNCHANGED <<turn, owed>>

Next == Reply \/ Pay \/ Close \/ CutShort

SafeSpec == Init /\ [][Next]_vars

Spec == SafeSpec /\ <>(phase # "open")
=============================================================================
