------------------------------ MODULE Commands ------------------------------
(***************************************************************************)
(* A command run to its end for one of its four callers: run_command of    *)
(* services/terminal_service.py, run_terminal_command and search_project   *)
(* of HarnessService.execute_tool, and _run_git_cmd of GitService.  Each   *)
(* waits for communicate_with_cap under a timeout; they differ in what they *)
(* do at the limit, at the timeout, and when their own client leaves.      *)
(*                                                                         *)
(* The command may start a job that outlives it, in its process group or   *)
(* not, and hand it its pipes.  Output is counted in chunks.               *)
(***************************************************************************)
EXTENDS Naturals, FiniteSets

CONSTANTS
    Callers,    \* those in use, of AllCallers
    MaxBytes,   \* the caller's output limit, in chunks
    MaxOutput,  \* bound: chunks written to each pipe
    PipeSize    \* chunks a pipe holds before its writers block

AllCallers == {"terminal", "agent", "git", "search"}
ASSUME CommandsAssumption ==
    /\ Callers \subseteq AllCallers
    /\ MaxBytes \in Nat /\ MaxOutput \in Nat /\ PipeSize \in Nat \ {0}

Pipes == {"stdout", "stderr"}

VARIABLES
    caller,
    shell,      \* the command's process: running, zombie, reaped
    job,        \* its background job: none, running, over
    inGroup,    \* is the job in the command's process group
    holds,      \* the pipes the job holds
    unread,     \* chunks in each pipe
    written,    \* chunks ever written to it
    buf,        \* chunks communicate_with_cap kept of it
    truncated,  \* what communicate_with_cap returns with it
    pump,       \* the two _pump tasks
    term,       \* terminate_process_group as called by a pump or the caller
    pc          \* the caller

procVars == <<shell, job, inGroup, holds>>
ioVars   == <<unread, written, buf, truncated>>
vars == <<caller, procVars, ioVars, pump, term, pc>>

\* terminate_process_group at the limit and at the timeout; the others send
\* process.kill, or nothing at the limit.
KillsGroup == caller \in {"terminal", "agent"}
Ended == {"ok", "timed out", "raised", "left"}
\* Does anybody have the writing end of the pipe, which only search_project's
\* stderr does not have.
Held(s) == (shell = "running" /\ (s = "stdout" \/ caller # "search"))
           \/ (job = "running" /\ s \in holds)
\* The transport has seen both pipes close and the process end: process.kill
\* then finds no process.
Forgotten == shell = "reaped" /\ \A s \in Pipes : ~Held(s)

Init ==
    /\ caller \in Callers
    /\ shell = "running" /\ job = "none" /\ inGroup = FALSE /\ holds = {}
    /\ unread = [s \in Pipes |-> 0] /\ written = [s \in Pipes |-> 0]
    /\ buf = [s \in Pipes |-> 0] /\ truncated = FALSE
    /\ pump = [s \in Pipes |-> IF s = "stderr" /\ caller = "search" THEN "done" ELSE "reading"]
    /\ term = [w \in Pipes \cup {"caller"} |-> "none"]
    /\ pc = "gather"

(***************************************************************************)
(* The processes.                                                          *)
(***************************************************************************)
Write(s) ==
    /\ Held(s) /\ written[s] < MaxOutput /\ unread[s] < PipeSize
    /\ written' = [written EXCEPT ![s] = @ + 1]
    /\ unread' = [unread EXCEPT ![s] = @ + 1]
    /\ UNCHANGED <<caller, procVars, buf, truncated, pump, term, pc>>

StartJob ==
    /\ shell = "running" /\ job = "none"
    /\ job' = "running"
    /\ inGroup' \in BOOLEAN /\ holds' \in SUBSET {s \in Pipes : Held(s)}
    /\ UNCHANGED <<caller, shell, ioVars, pump, term, pc>>

ShellExits ==
    /\ shell = "running" /\ shell' = "zombie"
    /\ UNCHANGED <<caller, job, inGroup, holds, ioVars, pump, term, pc>>
JobExits ==
    /\ job = "running" /\ job' = "over"
    /\ UNCHANGED <<caller, shell, inGroup, holds, ioVars, pump, term, pc>>
\* The event loop's child watcher sets returncode.
Reap ==
    /\ shell = "zombie" /\ shell' = "reaped"
    /\ UNCHANGED <<caller, job, inGroup, holds, ioVars, pump, term, pc>>

\* process.kill: the command's own process only.
KillShell == shell' = (IF shell = "running" THEN "zombie" ELSE shell) /\ UNCHANGED <<job, inGroup, holds>>
\* killpg with SIGKILL.
KillGroup ==
    /\ shell' = IF shell = "running" THEN "zombie" ELSE shell
    /\ job' = IF job = "running" /\ inGroup THEN "over" ELSE job
    /\ UNCHANGED <<inGroup, holds>>

(***************************************************************************)
(* terminate_process_group, for w: SIGTERM, which a process may ignore or  *)
(* exit on later, a second of waiting, SIGKILL.                            *)
(***************************************************************************)
Terminate(w) == term' = [term EXCEPT ![w] = IF shell = "reaped" THEN "over" ELSE "term"]
TermDone(w) ==
    /\ term[w] \in {"term", "kill"} /\ shell = "reaped"
    /\ term' = [term EXCEPT ![w] = "over"]
    /\ UNCHANGED <<caller, procVars, ioVars, pump, pc>>
\* Variant: no escalation.
NoEscalation(w) == FALSE

\* asyncio.TimeoutError: SIGKILL to the group, whatever became of its leader.
TermTimeout(w) ==
    /\ term[w] = "term"
    /\ KillGroup
    /\ term' = [term EXCEPT ![w] = "kill"]
    /\ UNCHANGED <<caller, ioVars, pump, pc>>

(***************************************************************************)
(* communicate_with_cap.                                                   *)
(***************************************************************************)

Space == MaxBytes - (buf["stdout"] + buf["stderr"])

\* A read returns some of what is there, and it fits.
ReadFits(s, k) ==
    /\ pump[s] = "reading" /\ k <= unread[s] /\ k <= Space
    /\ unread' = [unread EXCEPT ![s] = @ - k]
    /\ buf' = [buf EXCEPT ![s] = @ + k]
    /\ UNCHANGED <<caller, procVars, written, truncated, pump, term, pc>>

\* It does not fit: what does is kept, and the caller's callback is called.
ReadOver(s, k) ==
    /\ pump[s] = "reading" /\ k <= unread[s] /\ k > Space
    /\ unread' = [unread EXCEPT ![s] = @ - k]
    /\ buf' = [buf EXCEPT ![s] = @ + Space]
    /\ truncated' = TRUE
    /\ \/ /\ KillsGroup
          /\ Terminate(s) /\ pump' = [pump EXCEPT ![s] = "callback"]
          /\ UNCHANGED procVars
       \/ /\ caller = "git" /\ ~Forgotten
          /\ KillShell /\ pump' = [pump EXCEPT ![s] = "draining"]
          /\ UNCHANGED term
       \/ /\ caller = "git" /\ Forgotten
          /\ pump' = [pump EXCEPT ![s] = "raised"]
          /\ UNCHANGED <<procVars, term>>
       \/ /\ caller = "search"
          /\ pump' = [pump EXCEPT ![s] = "draining"]
          /\ UNCHANGED <<procVars, term>>
    /\ UNCHANGED <<caller, written, pc>>

CallbackOver(s) ==
    /\ pump[s] = "callback" /\ term[s] = "over"
    /\ pump' = [pump EXCEPT ![s] = "draining"]
    /\ UNCHANGED <<caller, procVars, ioVars, term, pc>>

Drain(s) ==
    /\ pump[s] = "draining" /\ unread[s] > 0
    /\ unread' = [unread EXCEPT ![s] = 0]
    /\ UNCHANGED <<caller, procVars, written, buf, truncated, pump, term, pc>>

\* Variant: the end of the process is taken for the end of its output.
EofOnExit(s) ==
    /\ pump[s] \in {"reading", "draining"} /\ shell = "reaped"
    /\ pump' = [pump EXCEPT ![s] = "done"]
    /\ UNCHANGED <<caller, procVars, ioVars, term, pc>>

Eof(s) ==
    /\ pump[s] \in {"reading", "draining"} /\ unread[s] = 0 /\ ~Held(s)
    /\ pump' = [pump EXCEPT ![s] = "done"]
    /\ UNCHANGED <<caller, procVars, ioVars, term, pc>>

(***************************************************************************)
(* The caller.                                                             *)
(***************************************************************************)
Gathered ==
    /\ pc = "gather" /\ \A s \in Pipes : pump[s] = "done"
    /\ pc' = "wait"
    /\ UNCHANGED <<caller, procVars, ioVars, pump, term>>
\* gather passes the first exception on and leaves the other pump running.
GatherRaises ==
    /\ pc = "gather" /\ \E s \in Pipes : pump[s] = "raised"
    /\ pc' = "raised"
    /\ UNCHANGED <<caller, procVars, ioVars, pump, term>>

Waited ==
    /\ pc = "wait" /\ shell = "reaped"
    /\ pc' = "ok"
    /\ UNCHANGED <<caller, procVars, ioVars, pump, term>>

CancelPumps == pump' = [s \in Pipes |-> IF pump[s] = "done" THEN "done" ELSE "cancelled"]
\* Variant: the timeout answers and leaves the rest to the tasks.
TimeoutAnswers ==
    /\ pc \in {"gather", "wait"} /\ shell = "reaped" /\ pc' = "timed out"
    /\ UNCHANGED <<caller, procVars, ioVars, pump, term>>

\* wait_for gives up: the pumps are cancelled, also in their callbacks.
Timeout ==
    /\ pc \in {"gather", "wait"}
    /\ CancelPumps
    /\ LET quiet == [w \in DOMAIN term |-> IF term[w] = "none" THEN "none" ELSE "over"] IN
       \/ /\ KillsGroup
          /\ term' = [quiet EXCEPT !["caller"] = IF shell = "reaped" THEN "over" ELSE "term"]
          /\ pc' = "late" /\ UNCHANGED procVars
       \/ ~KillsGroup /\ ~Forgotten /\ KillShell /\ term' = quiet /\ pc' = "late"
       \/ ~KillsGroup /\ Forgotten /\ term' = quiet /\ pc' = "raised" /\ UNCHANGED procVars
    /\ UNCHANGED <<caller, ioVars>>
TimedOut ==
    /\ pc = "late"
    /\ IF KillsGroup THEN term["caller"] = "over" ELSE shell = "reaped"
    /\ pc' = "timed out"
    /\ UNCHANGED <<caller, procVars, ioVars, pump, term>>

\* The phone leaves the agent's stream: the generator is cancelled where it
\* waits for one of its tools, and nobody ends the command.
Leave ==
    /\ caller \in {"agent", "search"} /\ pc \in {"gather", "wait", "late"}
    /\ CancelPumps
    /\ term' = [w \in DOMAIN term |-> IF term[w] = "none" THEN "none" ELSE "over"]
    /\ pc' = "left"
    /\ UNCHANGED <<caller, procVars, ioVars>>

Environment == StartJob \/ ShellExits \/ JobExits \/ Leave \/ \E s \in Pipes : Write(s)
Loop ==
    \/ Reap \/ Gathered \/ GatherRaises \/ Waited \/ Timeout \/ TimedOut
    \/ \E w \in Pipes \cup {"caller"} : TermDone(w) \/ TermTimeout(w)
    \/ \E s \in Pipes :
          \/ CallbackOver(s) \/ Drain(s) \/ Eof(s)
          \/ \E k \in 1 .. PipeSize : ReadFits(s, k) \/ ReadOver(s, k)

Next == Environment \/ Loop
\* The event loop runs what is ready and its timers fire; the processes, the
\* job and the client owe nothing.
Fairness ==
    /\ WF_vars(Reap) /\ WF_vars(Timeout) /\ WF_vars(TimedOut) /\ WF_vars(GatherRaises)
    /\ WF_vars(TermDone("caller")) /\ WF_vars(TermTimeout("caller"))
Spec == Init /\ [][Next]_vars /\ Fairness

(***************************************************************************)
(* Properties.                                                             *)
(***************************************************************************)
TypeOK ==
    /\ caller \in Callers
    /\ shell \in {"running", "zombie", "reaped"} /\ job \in {"none", "running", "over"}
    /\ inGroup \in BOOLEAN /\ holds \subseteq Pipes
    /\ unread \in [Pipes -> 0 .. PipeSize] /\ written \in [Pipes -> 0 .. MaxOutput]
    /\ buf \in [Pipes -> Nat] /\ truncated \in BOOLEAN
    /\ pump \in [Pipes -> {"reading", "callback", "draining", "done", "raised", "cancelled"}]
    /\ term \in [Pipes \cup {"caller"} -> {"none", "term", "kill", "over"}]
    /\ pc \in {"gather", "wait", "late"} \cup Ended

\* The two pumps together keep no more than the limit, although each computes
\* its space for itself and waits in between (communicate_with_cap).
WithinCap == buf["stdout"] + buf["stderr"] <= MaxBytes

\* Whoever reads the answer is told that it was cut.  search_project throws the
\* flag away (harness_service.py:636), and its cap is that of _truncate_output,
\* which therefore finds nothing to mark.
Told == truncated /\ caller # "search"

\* A result that does not say that it was cut is complete, but for that of a
\* search which fills the limit; one that was cut is filled to the limit
\* (communicate_with_cap and its callers).
CompleteOrTold ==
    /\ pc = "ok" /\ ~Told =>
          \/ \A s \in Pipes : buf[s] = written[s]
          \/ caller = "search" /\ buf["stdout"] + buf["stderr"] = MaxBytes
    /\ truncated => buf["stdout"] + buf["stderr"] = MaxBytes

\* Who gets an answer has no process of the command itself left running: only
\* a client that left, or another process that holds on to a pipe, survives
\* (run_command, execute_tool, _run_git_cmd).
AnswerMeansReaped == pc \in Ended \ {"left"} => shell = "reaped"

\* What terminate_process_group waits for in a pump ends with the pump or with
\* the caller: nobody sends a signal after the answer.
NoLateSignal == pc \in Ended => \A w \in DOMAIN term : term[w] \in {"none", "over"}

\* The output is within the limit, and complete, said not to be, or a search's
\* that fills the limit.
OutputIsTrue == WithinCap /\ CompleteOrTold

\* Nothing of the command runs, and nobody signals it, after the answer.
AnswerIsFinal == AnswerMeansReaped /\ NoLateSignal

\* Every command is answered, whatever ignores signals, holds pipes or writes
\* for ever.
Answered == <>(pc \in Ended)
=============================================================================
