---------------------------- MODULE PtySessions ----------------------------
(***************************************************************************)
(* The interactive terminals of the backend: every run of                  *)
(* TerminalService.handle_websocket, the shells they start and the clients *)
(* on the other end of the sockets.                                        *)
(*                                                                         *)
(* A session is one websocket.  Its handler is a coroutine: the code       *)
(* between two awaits is one action.  The shell, its background jobs and   *)
(* the client act on their own between those actions.  Time is counted in  *)
(* keepalive periods (30 s); a receive that times out lasts two of them.   *)
(***************************************************************************)
EXTENDS Integers, FiniteSets

CONSTANTS
    Sessions,   \* the websockets that may reach /api/v1/terminal/ws
    MaxPtys,    \* settings.MAX_PTYS
    IdleLimit   \* _IDLE_TIMEOUT_SECONDS, in keepalive periods

ASSUME SessionsFinite == IsFiniteSet(Sessions)
ASSUME MaxPtysAssumption == MaxPtys \in Nat \ {0}
ASSUME IdleLimitAssumption == IdleLimit \in Nat /\ IdleLimit >= 2

VARIABLES
    activePtys,  \* TerminalService._active_ptys
    pc,          \* where each handler is suspended
    shell,       \* the process made by create_subprocess_exec
    job,         \* a background job of that shell that holds the PTY slave
    master,      \* is the master descriptor open
    reader,      \* the task stream_output
    receiver,    \* the task receive_input
    unsent,      \* output in the PTY, or with the reader, that is not sent yet
    client,      \* the far end of the socket
    quiet        \* time since last_activity

vars == <<activePtys, pc, shell, job, master, reader, receiver, unsent, client, quiet>>
procVars == <<shell, job>>
taskVars == <<reader, receiver, unsent>>

\* Suspension points of handle_websocket at which the slot is held, and those
\* of its `finally` block, where it has been given back.
Holding   == {"spawning", "readying", "running", "grace", "exiting", "closing",
              "failing"}
Finishing == {"terminating", "killing", "gathering"}
PCs       == {"idle", "refused", "done"} \cup Holding \cup Finishing

\* "boot": the Python bootstrap before setsid; "zombie": dead, returncode not
\* set yet, whether or not the child watcher has called waitpid; "reaped":
\* returncode set.
ShellStates == {"none", "boot", "shell", "zombie", "reaped"}
Jobs        == {"none", "shared", "own"}   \* the process group a job lives in
ReaderStates   == {"none", "running", "ended", "failed"}
ReceiverStates == {"none", "running", "writing", "ended", "crashed"}
Clients     == {"away", "connected", "gone"}

TypeOK ==
    /\ activePtys \in Nat
    /\ pc \in [Sessions -> PCs]
    /\ shell \in [Sessions -> ShellStates]
    /\ job \in [Sessions -> Jobs]
    /\ master \in [Sessions -> BOOLEAN]
    /\ reader \in [Sessions -> ReaderStates]
    /\ receiver \in [Sessions -> ReceiverStates]
    /\ unsent \in [Sessions -> BOOLEAN]
    /\ client \in [Sessions -> Clients]
    /\ quiet \in [Sessions -> Nat]

Init ==
    /\ activePtys = 0
    /\ pc = [s \in Sessions |-> "idle"]
    /\ shell = [s \in Sessions |-> "none"]
    /\ job = [s \in Sessions |-> "none"]
    /\ master = [s \in Sessions |-> FALSE]
    /\ reader = [s \in Sessions |-> "none"]
    /\ receiver = [s \in Sessions |-> "none"]
    /\ unsent = [s \in Sessions |-> FALSE]
    /\ client = [s \in Sessions |-> "away"]
    /\ quiet = [s \in Sessions |-> 0]

HoldsSlot(s) == pc[s] \in Holding
LiveShell(s) == shell[s] \in {"boot", "shell"}

-----------------------------------------------------------------------------
(* Opening a session.                                                      *)

\* The socket is refused: a bad project root, a missing directory, or no slot.
Refuse(s) ==
    /\ pc[s] = "idle"
    /\ pc' = [pc EXCEPT ![s] = "refused"]
    /\ client' = [client EXCEPT ![s] = "gone"]
    /\ UNCHANGED <<activePtys, procVars, master, taskVars, quiet>>

\* Mutation of Accept: `>` for `>=` in the limit check.
AcceptOffByOne(s) ==
    /\ pc[s] = "idle"
    /\ activePtys <= MaxPtys
    /\ activePtys' = activePtys + 1
    /\ client' = [client EXCEPT ![s] = "connected"]
    /\ pc' = [pc EXCEPT ![s] = "spawning"]
    /\ master' = [master EXCEPT ![s] = TRUE]
    /\ UNCHANGED <<procVars, taskVars, quiet>>

\* The slot is taken, then openpty succeeds and the spawn is awaited, or it
\* fails (no /dev/pts) and the error frame is awaited.
Accept(s) ==
    /\ pc[s] = "idle"
    /\ activePtys < MaxPtys
    /\ activePtys' = activePtys + 1
    /\ client' = [client EXCEPT ![s] = "connected"]
    /\ \E opened \in BOOLEAN :
          /\ master' = [master EXCEPT ![s] = opened]
          /\ pc' = [pc EXCEPT ![s] = IF opened THEN "spawning" ELSE "failing"]
    /\ UNCHANGED <<procVars, taskVars, quiet>>

\* create_subprocess_exec returns; its child is still the bootstrap.
Spawned(s) ==
    /\ pc[s] = "spawning"
    /\ shell' = [shell EXCEPT ![s] = "boot"]
    /\ pc' = [pc EXCEPT ![s] = "readying"]
    /\ UNCHANGED <<activePtys, job, master, taskVars, client, quiet>>

\* create_subprocess_exec raises (the directory went away, no more processes).
SpawnFails(s) ==
    /\ pc[s] = "spawning"
    /\ pc' = [pc EXCEPT ![s] = "failing"]
    /\ UNCHANGED <<activePtys, procVars, master, taskVars, client, quiet>>

\* The ready frame is on its way: the two tasks start and the handler waits
\* for the first of receive_input and process.wait to end.
SendReady(s) ==
    /\ pc[s] = "readying"
    /\ reader' = [reader EXCEPT ![s] = "running"]
    /\ receiver' = [receiver EXCEPT ![s] = "running"]
    /\ pc' = [pc EXCEPT ![s] = "running"]
    /\ UNCHANGED <<activePtys, procVars, master, unsent, client, quiet>>

-----------------------------------------------------------------------------
(* Closing a session: terminate_process_group and the `finally` block.     *)

\* os.killpg(pid, SIGTERM).  An interactive shell may ignore it.  Before
\* setsid there is no such group: ProcessLookupError, which is suppressed.
SendTerm(s) ==
    IF shell[s] = "boot"
    THEN UNCHANGED procVars
    ELSE /\ \E next \in {shell[s], "zombie"} : shell' = [shell EXCEPT ![s] = next]
         /\ \E left \in {job[s], "none"} :
               /\ job[s] # "shared" => left = job[s]
               /\ job' = [job EXCEPT ![s] = left]

\* os.killpg(pid, SIGKILL): nothing in the group survives it.  The shell may
\* have been reaped by then; what is left of its group is killed all the same.
SendKill(s) ==
    IF shell[s] = "boot"
    THEN UNCHANGED procVars
    ELSE /\ shell' = [shell EXCEPT ![s] = IF LiveShell(s) THEN "zombie" ELSE @]
         /\ job' = [job EXCEPT ![s] = IF @ = "shared" THEN "none" ELSE @]

\* The end of `finally`: close the master, cancel the tasks, await them.
CloseMaster(s) ==
    /\ master' = [master EXCEPT ![s] = FALSE]
    /\ pc' = [pc EXCEPT ![s] = IF reader[s] = "none" THEN "done" ELSE "gathering"]

GiveSlotBack == IF activePtys > 0 THEN activePtys - 1 ELSE 0

\* Mutation of EnterFinally: the slot goes back only with a process.
FinallyOnlyWithProcess(s) ==
    IF shell[s] \in {"none", "reaped"}
    THEN CloseMaster(s) /\ UNCHANGED <<activePtys, procVars>>
    ELSE /\ activePtys' = GiveSlotBack
         /\ pc' = [pc EXCEPT ![s] = "terminating"]
         /\ SendTerm(s)
         /\ UNCHANGED master

\* The start of `finally`, up to its first await: the slot goes back, and
\* terminate_process_group signals a process whose returncode is not set.
EnterFinally(s) ==
    /\ activePtys' = GiveSlotBack
    /\ IF shell[s] \in {"none", "reaped"}
       THEN CloseMaster(s) /\ UNCHANGED procVars
       ELSE /\ pc' = [pc EXCEPT ![s] = "terminating"]
            /\ SendTerm(s)
            /\ UNCHANGED master

\* A send to a client that has left raises WebSocketDisconnect, which goes
\* straight to `finally`, or another exception, whose text is sent first.
SendRaises(s) ==
    /\ client[s] = "gone"
    /\ pc[s] \in {"readying", "exiting", "closing"}
    /\ \/ EnterFinally(s)
       \/ /\ pc' = [pc EXCEPT ![s] = "failing"]
          /\ UNCHANGED <<activePtys, procVars, master>>
    /\ UNCHANGED <<taskVars, client, quiet>>

\* The error frame is out, or its exception is suppressed.
ErrorSent(s) ==
    /\ pc[s] = "failing"
    /\ EnterFinally(s)
    /\ UNCHANGED <<taskVars, client, quiet>>

\* process.wait() returned before the second was over.
TermDone(s) ==
    /\ pc[s] = "terminating"
    /\ shell[s] = "reaped"
    /\ CloseMaster(s)
    /\ UNCHANGED <<activePtys, procVars, taskVars, client, quiet>>

\* Mutation of TermTimeout: no process.wait() after the SIGKILL.
KillWithoutWait(s) ==
    /\ pc[s] = "terminating"
    /\ SendKill(s)
    /\ CloseMaster(s)
    /\ UNCHANGED <<activePtys, taskVars, client, quiet>>

\* Mutation of TermTimeout: it waits on without sending SIGKILL.
NoEscalation(s) ==
    /\ pc[s] = "terminating"
    /\ pc' = [pc EXCEPT ![s] = "killing"]
    /\ UNCHANGED <<activePtys, procVars, master, taskVars, client, quiet>>

\* asyncio.TimeoutError after one second: SIGKILL, without another look at
\* returncode.  The timeout may win over a process.wait() that is ready too.
TermTimeout(s) ==
    /\ pc[s] = "terminating"
    /\ SendKill(s)
    /\ pc' = [pc EXCEPT ![s] = "killing"]
    /\ UNCHANGED <<activePtys, master, taskVars, client, quiet>>

KillDone(s) ==
    /\ pc[s] = "killing"
    /\ shell[s] = "reaped"
    /\ CloseMaster(s)
    /\ UNCHANGED <<activePtys, procVars, taskVars, client, quiet>>

\* The cancelled tasks are over and the handler returns.  A thread that is
\* still in os.write is not waited for.
Gathered(s) ==
    /\ pc[s] = "gathering"
    /\ pc' = [pc EXCEPT ![s] = "done"]
    /\ reader' = [reader EXCEPT ![s] = "ended"]
    /\ receiver' = [receiver EXCEPT ![s] = "ended"]
    /\ unsent' = [unsent EXCEPT ![s] = FALSE]
    /\ quiet' = [quiet EXCEPT ![s] = 0]
    /\ UNCHANGED <<activePtys, procVars, master, client>>

-----------------------------------------------------------------------------
(* asyncio.wait({receive_task, wait_task}) and what follows it.            *)

\* Mutation of WakeOnExit: the output is cancelled, not drained.
ExitUndrained(s) ==
    /\ pc[s] = "running"
    /\ shell[s] = "reaped"
    /\ pc' = [pc EXCEPT ![s] = "exiting"]
    /\ reader' = [reader EXCEPT ![s] = "ended"]
    /\ UNCHANGED <<activePtys, procVars, master, receiver, unsent, client, quiet>>

\* The shell ended: the output has five seconds to drain.
WakeOnExit(s) ==
    /\ pc[s] = "running"
    /\ shell[s] = "reaped"
    /\ pc' = [pc EXCEPT ![s] = "grace"]
    /\ UNCHANGED <<activePtys, procVars, master, taskVars, client, quiet>>

\* receive_input ended: by the client leaving or by idleness, or because a
\* frame made it raise.
WakeOnReceive(s) ==
    /\ pc[s] = "running"
    /\ \/ receiver[s] = "ended" /\ EnterFinally(s)
       \/ /\ receiver[s] = "crashed"
          /\ pc' = [pc EXCEPT ![s] = "failing"]
          /\ UNCHANGED <<activePtys, procVars, master>>
    /\ UNCHANGED <<taskVars, client, quiet>>

\* stream_output ended within the grace period.
Drained(s) ==
    /\ pc[s] = "grace"
    /\ reader[s] = "ended"
    /\ pc' = [pc EXCEPT ![s] = "exiting"]
    /\ UNCHANGED <<activePtys, procVars, master, taskVars, client, quiet>>

\* stream_output had failed on a send: its exception comes out of wait_for.
DrainRaises(s) ==
    /\ pc[s] = "grace"
    /\ reader[s] = "failed"
    /\ \/ EnterFinally(s)
       \/ /\ pc' = [pc EXCEPT ![s] = "failing"]
          /\ UNCHANGED <<activePtys, procVars, master>>
    /\ UNCHANGED <<taskVars, client, quiet>>

\* Mutation of GraceTimeout: the output is awaited without a timeout.
NoGraceTimeout(s) == pc[s] = "grace" /\ FALSE /\ UNCHANGED vars

\* The grace period is over.  wait_for has cancelled stream_output and
\* terminate_process_group returns at once: returncode is set.
GraceTimeout(s) ==
    /\ pc[s] = "grace"
    /\ reader[s] = "running"
    /\ master' = [master EXCEPT ![s] = FALSE]
    /\ reader' = [reader EXCEPT ![s] = "ended"]
    /\ pc' = [pc EXCEPT ![s] = "exiting"]
    /\ UNCHANGED <<activePtys, procVars, receiver, unsent, client, quiet>>

SendExit(s) ==
    /\ pc[s] = "exiting"
    /\ pc' = [pc EXCEPT ![s] = "closing"]
    /\ UNCHANGED <<activePtys, procVars, master, taskVars, client, quiet>>

CloseSocket(s) ==
    /\ pc[s] = "closing"
    /\ EnterFinally(s)
    /\ client' = [client EXCEPT ![s] = "gone"]
    /\ UNCHANGED <<taskVars, quiet>>

Handler(s) ==
    \/ Refuse(s) \/ Accept(s) \/ Spawned(s) \/ SpawnFails(s) \/ SendReady(s)
    \/ SendRaises(s) \/ ErrorSent(s) \/ TermDone(s) \/ TermTimeout(s)
    \/ KillDone(s) \/ Gathered(s) \/ WakeOnExit(s) \/ WakeOnReceive(s)
    \/ Drained(s) \/ DrainRaises(s) \/ GraceTimeout(s) \/ SendExit(s)
    \/ CloseSocket(s)

-----------------------------------------------------------------------------
(* stream_output.                                                          *)

SlaveHeld(s) == LiveShell(s) \/ job[s] # "none"

\* What was in the PTY is read and its frame is out.
SendOutput(s) ==
    /\ reader[s] = "running"
    /\ unsent[s]
    /\ unsent' = [unsent EXCEPT ![s] = FALSE]
    /\ UNCHANGED <<activePtys, pc, procVars, master, reader, receiver, client, quiet>>

\* The PTY is empty and nobody holds the slave: the read fails with EIO and
\* the loop ends.
OutputEnds(s) ==
    /\ reader[s] = "running"
    /\ ~SlaveHeld(s) /\ ~unsent[s]
    /\ reader' = [reader EXCEPT ![s] = "ended"]
    /\ UNCHANGED <<activePtys, pc, procVars, master, receiver, unsent, client, quiet>>

OutputRaises(s) ==
    /\ reader[s] = "running"
    /\ client[s] = "gone" /\ unsent[s]
    /\ reader' = [reader EXCEPT ![s] = "failed"]
    /\ UNCHANGED <<activePtys, pc, procVars, master, receiver, unsent, client, quiet>>

-----------------------------------------------------------------------------
(* receive_input.                                                          *)

Receiving(s) == receiver[s] = "running" /\ client[s] = "connected"

\* The coroutine ends, and the time it kept with it.
ReceiverEnds(s, how) ==
    /\ receiver' = [receiver EXCEPT ![s] = how]
    /\ quiet' = [quiet EXCEPT ![s] = 0]

\* A frame the user caused: input for the PTY, written by a worker thread; a
\* resize, or input over the limit, which is dropped.  last_activity is
\* refreshed before the type is looked at.  After the grace period master_fd
\* is None, and using it raises.
UserFrame(s) ==
    /\ Receiving(s)
    /\ IF master[s]
       THEN /\ \E next \in {"writing", "running"} :
                  receiver' = [receiver EXCEPT ![s] = next]
            /\ quiet' = [quiet EXCEPT ![s] = 0]
       ELSE \E next \in {"crashed", "running"} : ReceiverEnds(s, next)
    /\ UNCHANGED <<activePtys, pc, procVars, master, reader, unsent, client>>

\* os.write returns in its thread and the coroutine resumes.  A write that
\* was blocked for longer than the idle limit ends the session.  It raises
\* when nobody holds the slave, or the descriptor was closed before the thread
\* got to it.  While the shell does not read it may not return at all.
WriteDone(s) ==
    /\ receiver[s] = "writing"
    /\ \/ \E next \in {"running", "ended"} : ReceiverEnds(s, next)
       \/ (~SlaveHeld(s) \/ ~master[s]) /\ ReceiverEnds(s, "crashed")
    /\ UNCHANGED <<activePtys, pc, procVars, master, reader, unsent, client>>

\* A frame that is JSON and not an object: msg.get raises.
BadFrame(s) ==
    /\ Receiving(s)
    /\ ReceiverEnds(s, "crashed")
    /\ UNCHANGED <<activePtys, pc, procVars, master, reader, unsent, client>>

\* The client's keepalive: an unknown type, ignored once it has counted as
\* activity.
Ping(s) ==
    /\ Receiving(s)
    /\ quiet' = [quiet EXCEPT ![s] = 0]
    /\ UNCHANGED <<activePtys, pc, procVars, master, taskVars, client>>

\* wait_for(receive_text, 60) times out, two periods without a frame, and the
\* loop checks for idleness again: an idle session is told so and ends.
ReceiveTimeout(s) ==
    /\ Receiving(s)
    /\ IF quiet[s] + 2 >= IdleLimit
       THEN ReceiverEnds(s, "ended")
       ELSE /\ quiet' = [quiet EXCEPT ![s] = @ + 2]
            /\ UNCHANGED receiver
    /\ UNCHANGED <<activePtys, pc, procVars, master, reader, unsent, client>>

\* receive_text raises WebSocketDisconnect.
SeeDisconnect(s) ==
    /\ receiver[s] = "running"
    /\ client[s] = "gone"
    /\ ReceiverEnds(s, "ended")
    /\ UNCHANGED <<activePtys, pc, procVars, master, reader, unsent, client>>

Tasks(s) ==
    \/ SendOutput(s) \/ OutputEnds(s) \/ OutputRaises(s) \/ UserFrame(s)
    \/ WriteDone(s) \/ BadFrame(s) \/ Ping(s) \/ ReceiveTimeout(s)
    \/ SeeDisconnect(s)

-----------------------------------------------------------------------------
(* The shell and the client.                                               *)

\* The bootstrap calls setsid, takes the terminal and becomes the shell.
BootDone(s) ==
    /\ shell[s] = "boot"
    /\ shell' = [shell EXCEPT ![s] = "shell"]
    /\ UNCHANGED <<activePtys, pc, job, master, taskVars, client, quiet>>

\* `sleep 30 &`: with job control the job has a process group of its own,
\* without it the job is in the shell's.
StartJob(s) ==
    /\ shell[s] = "shell"
    /\ job[s] = "none"
    /\ \E g \in {"shared", "own"} : job' = [job EXCEPT ![s] = g]
    /\ UNCHANGED <<activePtys, pc, shell, master, taskVars, client, quiet>>

\* The shell or its job writes to the terminal.
Prints(s) ==
    /\ SlaveHeld(s) /\ master[s] /\ ~unsent[s]
    /\ unsent' = [unsent EXCEPT ![s] = TRUE]
    /\ UNCHANGED <<activePtys, pc, procVars, master, reader, receiver, client, quiet>>

JobEnds(s) ==
    /\ job[s] # "none"
    /\ job' = [job EXCEPT ![s] = "none"]
    /\ UNCHANGED <<activePtys, pc, shell, master, taskVars, client, quiet>>

\* The user types `exit`, the shell crashes, or the bootstrap cannot exec.
ShellExits(s) ==
    /\ LiveShell(s)
    /\ shell' = [shell EXCEPT ![s] = "zombie"]
    /\ UNCHANGED <<activePtys, pc, job, master, taskVars, client, quiet>>

\* asyncio's child watcher reaps the process and sets returncode.
Reap(s) ==
    /\ shell[s] = "zombie"
    /\ shell' = [shell EXCEPT ![s] = "reaped"]
    /\ UNCHANGED <<activePtys, pc, job, master, taskVars, client, quiet>>

Disconnect(s) ==
    /\ client[s] = "connected"
    /\ client' = [client EXCEPT ![s] = "gone"]
    /\ UNCHANGED <<activePtys, pc, procVars, master, taskVars, quiet>>

World(s) ==
    \/ BootDone(s) \/ StartJob(s) \/ Prints(s) \/ JobEnds(s) \/ ShellExits(s)
    \/ Reap(s) \/ Disconnect(s)

Next == \E s \in Sessions : Handler(s) \/ Tasks(s) \/ World(s)

Spec == Init /\ [][Next]_vars

\* The event loop runs what is ready: handlers and tasks resume, timeouts
\* fire, dead children are reaped, a disconnect is seen.  The bootstrap gets
\* to setsid.  Nobody has to type, leave, exit, end a job or read what a write
\* puts into the PTY.
Fairness ==
    \A s \in Sessions :
        /\ WF_vars(pc[s] # "idle" /\ Handler(s))
        /\ WF_vars(SeeDisconnect(s))
        /\ WF_vars(BootDone(s))
        /\ WF_vars(Reap(s))

FairSpec == Spec /\ Fairness

-----------------------------------------------------------------------------
(* What the service promises.                                              *)

SlotHolders == {s \in Sessions : HoldsSlot(s)}

\* _active_ptys is the number of handlers between their += 1 and their
\* `finally`, on every path: refusals, openpty or spawn failures, idleness,
\* disconnects and exits (terminal_service.py:275-282, 437).
SlotAccounting == activePtys = Cardinality(SlotHolders)

\* No more than MAX_PTYS handlers hold a slot (terminal_service.py:275).
SlotLimit == Cardinality(SlotHolders) <= MaxPtys

\* A handler that has returned left nothing behind of its own: its shell was
\* reaped, its descriptor closed, its tasks over, whatever exception or
\* ending brought it there (terminal_service.py:436-448).
NothingOutlivesHandler ==
    \A s \in Sessions :
        pc[s] = "done" =>
            /\ shell[s] \in {"none", "reaped"}
            /\ ~master[s]
            /\ reader[s] \notin {"running"}
            /\ receiver[s] \notin {"running", "writing"}

\* The exit frame is the last word of the shell: it is sent for a process
\* whose returncode is set, no output can follow it, even when a background
\* job still writes to the PTY, and all output went before it, unless the grace
\* period ran out and the master was closed (terminal_service.py:412-428).
ExitFollowsOutput ==
    \A s \in Sessions :
        pc[s] \in {"exiting", "closing"} =>
            /\ shell[s] = "reaped" /\ reader[s] # "running"
            /\ master[s] => ~SlaveHeld(s) /\ ~unsent[s]

\* A slot comes back when the shell has ended, although a background job may
\* hold the PTY slave and the output never end (terminal_service.py:413-415),
\* and when the client has left, unless a write into the PTY waits for ever:
\* receive_input sees nothing while it does (terminal_service.py:343, 431, 437).
SlotIsFreed ==
    \A s \in Sessions :
        HoldsSlot(s) /\ (shell[s] = "reaped" \/ (client[s] = "gone" /\ receiver[s] # "writing"))
            ~> ~HoldsSlot(s)

\* The `finally` block ends, whatever the shell does with SIGTERM, once the
\* bootstrap has called setsid while there is still a SIGKILL to come: the one
\* that is sent before reaches nobody, and the handler waits for a shell nobody
\* kills (terminal_service.py:29-37, 438-448).
TeardownEnds ==
    \A s \in Sessions :
        (pc[s] = "terminating" /\ shell[s] # "boot") \/ pc[s] = "gathering" ~> pc[s] = "done"
=============================================================================
